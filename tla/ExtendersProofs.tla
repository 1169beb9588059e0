--------------------------- MODULE ExtendersProofs ---------------------------
(***************************************************************************)
(* Proofs about Extenders, for any number of peers, pools and threads: the *)
(* extender hears of each session what SessionIsOrderly promises, and,     *)
(* where no peer suspends, knows the peers it should; and no peer is       *)
(* condemned for what it could not know.                                   *)
(***************************************************************************)
EXTENDS Extenders, SequenceTheorems, TLAPS

-----------------------------------------------------------------------------
(* Types.                                                                  *)

SessionRecords ==
    [peer : Peers, pool : Pools, connected : BOOLEAN, events : Seq(Events), messages : Seq(Msgs),
     inQueue : BOOLEAN]
Places == {"gone", "wait", "events", "event", "messages", "message", "unhandled", "requeue"}
WorkerRecords == [at : Places, id : Nat \cup {NoItem}, num : Nat, item : Items \cup {NoItem}]
PeerRecords ==
    [st : {"SessionInit", "Ready", "Suspended", "Disconnected"}, has : BOOLEAN, told : BOOLEAN,
     sent : BOOLEAN]
Steps == {"idle", "pools", "activate", "tell", "broadcast", "deactivate", "end", "join"}

ManagerTypes == /\ status \in Statuses /\ step \in Steps /\ left \subseteq Peers
                /\ present \in BOOLEAN /\ enabled \in BOOLEAN /\ listed \in BOOLEAN
                /\ recent \in BOOLEAN /\ dropped \subseteq Peers
                /\ setting \in Settings
                /\ spent \in [starts : Nat, changes : Nat, messages : Nat]
                /\ spent.messages <= setting.messages

PeerTypes == /\ peer \in [Peers -> PeerRecords]
             /\ calling \in [Peers -> Items \cup {NoItem}]

QueueTypes == /\ sessions \in Seq(SessionRecords)
              /\ known \in [Peers -> (1 .. Len(sessions)) \cup {NoItem}]
              /\ queue \in [Pools -> Seq(1 .. Len(sessions))]
              /\ heard \in Seq(Seq(Items)) /\ Len(heard) = Len(sessions)

WorkerIsSound(r) ==
    /\ r.id # NoItem => r.id \in 1 .. Len(sessions)
    /\ r.id = NoItem <=> r.at \in {"gone", "wait"}
    /\ r.item = NoItem <=> r.at \notin {"event", "message"}
    /\ r.at = "event" => r.item \in Events
    /\ r.at = "message" => r.item \in Msgs

WorkerTypes == /\ thread \in [Threads -> WorkerRecords]
               /\ \A w \in Threads : WorkerIsSound(thread[w])

Types == ManagerTypes /\ PeerTypes /\ QueueTypes /\ WorkerTypes

-----------------------------------------------------------------------------
(* Where a session is: in the queue of its pool once, with one thread of   *)
(* the pool, or, when it is not marked, in neither.                        *)

Held(i) == \E w \in Threads : thread[w].id = i

QueueHasTokens ==
    \A k \in Pools : \A j \in 1 .. Len(queue[k]) :
        /\ sessions[queue[k][j]].inQueue /\ sessions[queue[k][j]].pool = k
        /\ ~Held(queue[k][j])
        /\ \A l \in 1 .. Len(queue[k]) : queue[k][l] = queue[k][j] => l = j

ThreadsHaveTokens ==
    \A w \in Threads : thread[w].id # NoItem =>
        /\ sessions[thread[w].id].inQueue /\ sessions[thread[w].id].pool = w[1]
        /\ \A v \in Threads : thread[v].id = thread[w].id => v = w

OneToken == QueueHasTokens /\ ThreadsHaveTokens

\* Without pools there is nothing that they would work on, and nobody to do it.
NothingWithoutPools ==
    ~HasPools => /\ sessions = <<>> /\ \A k \in Pools : queue[k] = <<>>
                 /\ \A w \in Threads : thread[w].at = "gone"

StepFollowsStatus ==
    /\ step = "pools" => status = "Startup"
    /\ step \in {"activate", "tell"} => status = "Running"

KnownIsConnected ==
    \A p \in Peers : known[p] # NoItem =>
        sessions[known[p]].connected /\ sessions[known[p]].peer = p

-----------------------------------------------------------------------------
(* What was heard of a session (h), what a thread has in hand of it (x),   *)
(* its events (e), its messages (m), whether it is connected (c), how many *)
(* messages have come (n), and what its peer is about to hand over (g).    *)

\* Of two messages the first has come before the second.
Before(x, y) == \A a, b \in DOMAIN Messages : x = Messages[a] /\ y = Messages[b] => a < b
UpTo(x, n) == \A a \in DOMAIN Messages : x = Messages[a] => a <= n

FlowTypes(h, x, e, m) ==
    h \in Seq(Items) /\ x \in Items \cup {NoItem} /\ e \in Seq(Events) /\ m \in Seq(Msgs)

Begins(h, x, e) ==
    /\ \A j \in 1 .. Len(h) : h[j] = "Connected" <=> j = 1
    /\ x # NoItem => (x = "Connected" <=> h = <<>>)
    /\ h = <<>> /\ x = NoItem => e # <<>> /\ e[1] = "Connected"
    /\ \A j \in 1 .. Len(e) : e[j] = "Connected" => j = 1 /\ h = <<>> /\ x = NoItem

Ends(h, x, e, c) ==
    /\ \A j \in 1 .. Len(h) : h[j] = "Disconnected" => j = Len(h) /\ x = NoItem /\ e = <<>> /\ ~c
    /\ x = "Disconnected" => e = <<>> /\ ~c
    /\ \A j \in 1 .. Len(e) : e[j] = "Disconnected" => j = Len(e) /\ ~c

Ordered(h, x, m) ==
    /\ \A j, k \in 1 .. Len(h) : j < k => Before(h[j], h[k])
    /\ \A j, k \in 1 .. Len(m) : j < k => Before(m[j], m[k])
    /\ \A j \in 1 .. Len(h) : Before(h[j], x)
    /\ \A k \in 1 .. Len(m) : Before(x, m[k])
    /\ \A j \in 1 .. Len(h), k \in 1 .. Len(m) : Before(h[j], m[k])

Arrived(h, x, m, n, g) ==
    /\ \A j \in 1 .. Len(h) : UpTo(h[j], n) /\ Before(h[j], g)
    /\ \A j \in 1 .. Len(m) : UpTo(m[j], n) /\ Before(m[j], g)
    /\ UpTo(x, n) /\ Before(x, g)

Orderly(h, x, e, m, c, n, g) ==
    /\ FlowTypes(h, x, e, m)
    /\ Begins(h, x, e) /\ Ends(h, x, e, c)
    /\ Ordered(h, x, m) /\ Arrived(h, x, m, n, g)

InHand(i, x) == \/ \E w \in Threads : thread[w].id = i /\ thread[w].item = x
                \/ ~Held(i) /\ x = NoItem

Flow(i, x) == Orderly(heard[i], x, sessions[i].events, sessions[i].messages,
                      sessions[i].connected, spent.messages, calling[sessions[i].peer])

SessionsAreOrderly == \A i \in 1 .. Len(sessions) : \A x : InHand(i, x) => Flow(i, x)

\* What a peer is about to hand over has come.
CallsHaveCome == \A p \in Peers : UpTo(calling[p], spent.messages)

\* A thread that has a session nothing was heard of yet goes past its events only to stop.
SkipsNothing(w, r) ==
    r.id # NoItem /\ r.item = NoItem /\ heard[r.id] = <<>> =>
        /\ r.at \in {"events", "messages", "requeue"} /\ r.num = 0
        /\ r.at # "events" => ending(w)

FirstIsNotSkipped == \A w \in Threads : SkipsNothing(w, thread[w])

IInv == /\ Types /\ OneToken /\ NothingWithoutPools /\ StepFollowsStatus /\ KnownIsConnected
        /\ SessionsAreOrderly /\ CallsHaveCome /\ FirstIsNotSkipped

-----------------------------------------------------------------------------
(* Which peers are known.                                                  *)

IsOurs(p) == peer[p].st = "Ready" /\ peer[p].has

\* The manager has yet to tell the extender of the peer.
Untold(p) == step = "activate" \/ (step = "tell" /\ p \in left)

IsFit(p) ==
    /\ peer[p].st # "Suspended"
    /\ calling[p] = "Connected" => IsOurs(p)
    /\ calling[p] = "Disconnected" => ~IsOurs(p)
    /\ status = "Running" /\ calling[p] \notin {"Connected", "Disconnected"} =>
         /\ known[p] # NoItem => IsOurs(p)
         /\ IsOurs(p) /\ ~Untold(p) => known[p] # NoItem

PeersAreKnown == ~setting.suspend => \A p \in Peers : IsFit(p)

KInv == IInv /\ PeersAreKnown

-----------------------------------------------------------------------------
(* Sequences, as the lemmas on flows need them.                            *)

LEMMA AppendIs ==
    ASSUME NEW S, NEW s \in Seq(S), NEW y \in S
    PROVE  /\ Len(s) \in Nat
           /\ Append(s, y) \in Seq(S) /\ Append(s, y) # <<>>
           /\ Len(Append(s, y)) = Len(s) + 1
           /\ \A j \in 1 .. Len(s) : Append(s, y)[j] = s[j]
           /\ Append(s, y)[Len(s) + 1] = y
OBVIOUS

LEMMA TailIs ==
    ASSUME NEW S, NEW s \in Seq(S), s # <<>>
    PROVE  /\ Len(s) \in Nat /\ Len(s) >= 1
           /\ Head(s) \in S /\ Head(s) = s[1]
           /\ Tail(s) \in Seq(S) /\ Len(Tail(s)) = Len(s) - 1
           /\ \A j \in 1 .. Len(s) - 1 : Tail(s)[j] = s[j + 1]
<1>1. Len(s) \in Nat /\ Len(s) >= 1
  BY EmptySeq
<1> QED
  BY <1>1, HeadTailProperties

LEMMA EmptyIs ==
    ASSUME NEW S, NEW s \in Seq(S)
    PROVE  /\ Len(s) \in Nat
           /\ s = <<>> <=> Len(s) = 0
BY EmptySeq

-----------------------------------------------------------------------------
(* Messages and events.                                                    *)

LEMMA EventsAreNotOrdered ==
    ASSUME ExtendersAssumption, NEW x \in Events \cup {NoItem}, NEW y, NEW n
    PROVE  Before(x, y) /\ Before(y, x) /\ UpTo(x, n) /\ x \notin Msgs
<1>1. x \notin Msgs
  BY DEF ExtendersAssumption, Items
<1> QED
  BY <1>1 DEF Before, UpTo, Msgs

LEMMA ItemsAre ==
    ASSUME ExtendersAssumption
    PROVE  /\ NoItem \notin Events /\ NoItem \notin Msgs
           /\ Events \cap Msgs = {}
           /\ "Connected" \in Events /\ "Disconnected" \in Events
           /\ \A y \in Msgs : y # "Connected" /\ y # "Disconnected"
           /\ NoItem # "Connected" /\ NoItem # "Disconnected"
BY DEF ExtendersAssumption, Items, Events

\* The next message comes after all those that have come.
LEMMA NextIsAfter ==
    ASSUME ExtendersAssumption, NEW n \in Nat, n + 1 \in DOMAIN Messages, NEW x, UpTo(x, n)
    PROVE  Before(x, Messages[n + 1])
<1> SUFFICES ASSUME NEW a \in DOMAIN Messages, NEW b \in DOMAIN Messages,
                    x = Messages[a], Messages[n + 1] = Messages[b]
             PROVE  a < b
  BY DEF Before
<1>1. a <= n /\ b = n + 1
  BY DEF UpTo, ExtendersAssumption
<1>2. a \in Nat
  BY DEF ExtendersAssumption
<1> QED
  BY <1>1, <1>2

LEMMA UpToMore ==
    ASSUME ExtendersAssumption, NEW n \in Nat, NEW x, UpTo(x, n)
    PROVE  UpTo(x, n + 1)
<1> SUFFICES ASSUME NEW a \in DOMAIN Messages, x = Messages[a] PROVE a <= n + 1
  BY DEF UpTo
<1>1. a <= n /\ a \in Nat
  BY DEF UpTo, ExtendersAssumption
<1> QED
  BY <1>1

-----------------------------------------------------------------------------
(* What becomes of a flow in a step.                                       *)

\* A session begins with its Connected event.
LEMMA FlowBegins ==
    ASSUME ExtendersAssumption, NEW n
    PROVE  Orderly(<<>>, NoItem, Append(<<>>, "Connected"), <<>>, TRUE, n, NoItem)
<1> DEFINE e == Append(<<>>, "Connected")
<1>1. /\ e \in Seq(Events) /\ Len(e) = 1 /\ e[1] = "Connected" /\ e # <<>>
      /\ <<>> \in Seq(Items) /\ <<>> \in Seq(Msgs)
  BY AppendIs, EmptySeq, ItemsAre
<1>2. UpTo(NoItem, n) /\ Before(NoItem, NoItem)
  BY EventsAreNotOrdered
<1>3. Len(<<>>) = 0
  OBVIOUS
<1> HIDE DEF e
<1>4. FlowTypes(<<>>, NoItem, e, <<>>) /\ Begins(<<>>, NoItem, e) /\ Ends(<<>>, NoItem, e, TRUE)
  BY <1>1, <1>3, ItemsAre DEF FlowTypes, Begins, Ends
<1>5. Ordered(<<>>, NoItem, <<>>) /\ Arrived(<<>>, NoItem, <<>>, n, NoItem)
  BY <1>2, <1>3 DEF Ordered, Arrived
<1> QED
  BY <1>4, <1>5 DEF Orderly, e

\* Another event of a session that is connected.
LEMMA FlowGetsEvent ==
    ASSUME ExtendersAssumption, NEW y \in Events \ {"Connected"},
           NEW h, NEW x, NEW e, NEW m, NEW n, NEW g, Orderly(h, x, e, m, TRUE, n, g), NEW c,
           c = (y # "Disconnected")
    PROVE  Orderly(h, x, Append(e, y), m, c, n, NoItem)
<1> DEFINE f == Append(e, y)
<1>0. FlowTypes(h, x, e, m)
  BY DEF Orderly
<1>1. /\ f \in Seq(Events) /\ f # <<>> /\ Len(f) = Len(e) + 1 /\ Len(e) \in Nat
      /\ \A j \in 1 .. Len(e) : f[j] = e[j]
      /\ f[Len(e) + 1] = y
  BY <1>0, AppendIs DEF FlowTypes
<1> HIDE DEF f
<1>2. FlowTypes(h, x, f, m)
  BY <1>0, <1>1 DEF FlowTypes
<1>3. Begins(h, x, f)
  <2>1. Begins(h, x, e)
    BY DEF Orderly
  <2>2. e # <<>> => Len(e) >= 1
    BY <1>0, <1>1, EmptyIs DEF FlowTypes
  <2>3. h = <<>> /\ x = NoItem => f[1] = "Connected"
    BY <1>1, <2>1, <2>2 DEF Begins
  <2>4. ASSUME NEW j \in 1 .. Len(f), f[j] = "Connected" PROVE j = 1 /\ h = <<>> /\ x = NoItem
    <3>1. j \in 1 .. Len(e)
      BY <1>1, <2>4
    <3> QED
      BY <1>1, <2>1, <2>4, <3>1 DEF Begins
  <2> QED
    BY <1>1, <2>1, <2>3, <2>4 DEF Begins
<1>4. Ends(h, x, f, c)
  <2>1. Ends(h, x, e, TRUE)
    BY DEF Orderly
  <2>2. ASSUME NEW j \in 1 .. Len(f), f[j] = "Disconnected" PROVE j = Len(f) /\ ~c
    <3>1. j \notin 1 .. Len(e)
      BY <1>1, <2>1, <2>2 DEF Ends
    <3>2. j = Len(e) + 1
      BY <1>1, <3>1
    <3> QED
      BY <1>1, <2>2, <3>2
  <2> QED
    BY <2>1, <2>2 DEF Ends
<1>5. \A z : Before(z, NoItem)
  BY EventsAreNotOrdered
<1>6. Ordered(h, x, m) /\ Arrived(h, x, m, n, NoItem)
  BY <1>5 DEF Orderly, Arrived
<1> QED
  BY <1>2, <1>3, <1>4, <1>6 DEF Orderly, f

\* A message of a session that is connected, which has come after all others.
LEMMA FlowGetsMessage ==
    ASSUME ExtendersAssumption, NEW g \in Msgs, NEW n, UpTo(g, n),
           NEW h, NEW x, NEW e, NEW m, NEW c, Orderly(h, x, e, m, c, n, g)
    PROVE  Orderly(h, x, e, Append(m, g), c, n, NoItem)
<1> DEFINE q == Append(m, g)
<1>0. FlowTypes(h, x, e, m) /\ Begins(h, x, e) /\ Ends(h, x, e, c) /\ Ordered(h, x, m)
      /\ Arrived(h, x, m, n, g)
  BY DEF Orderly
<1>1. /\ q \in Seq(Msgs) /\ Len(q) = Len(m) + 1 /\ Len(m) \in Nat
      /\ \A j \in 1 .. Len(m) : q[j] = m[j]
      /\ q[Len(m) + 1] = g
  BY <1>0, AppendIs DEF FlowTypes
<1> HIDE DEF q
<1>2. FlowTypes(h, x, e, q)
  BY <1>0, <1>1 DEF FlowTypes
<1>3. \A z : Before(z, NoItem)
  BY EventsAreNotOrdered
<1>4. ASSUME NEW k \in 1 .. Len(q)
      PROVE  \/ k \in 1 .. Len(m) /\ q[k] = m[k]
             \/ k = Len(m) + 1 /\ q[k] = g
  <2>1. CASE k \in 1 .. Len(m)
    BY <1>1, <2>1
  <2>2. CASE k \notin 1 .. Len(m)
    <3>1. k = Len(m) + 1
      BY <1>1, <2>2
    <3> QED
      BY <1>1, <3>1
  <2> QED
    BY <2>1, <2>2
<1>5. Ordered(h, x, q)
  <2>1. ASSUME NEW j \in 1 .. Len(q), NEW k \in 1 .. Len(q), j < k PROVE Before(q[j], q[k])
    <3>1. j \in 1 .. Len(m) /\ q[j] = m[j]
      BY <1>1, <2>1
    <3> QED
      BY <1>0, <1>4, <2>1, <3>1 DEF Ordered, Arrived
  <2>2. ASSUME NEW k \in 1 .. Len(q)
        PROVE  Before(x, q[k]) /\ \A j \in 1 .. Len(h) : Before(h[j], q[k])
    BY <1>0, <1>4 DEF Ordered, Arrived
  <2> QED
    BY <1>0, <2>1, <2>2 DEF Ordered
<1>6. Arrived(h, x, q, n, NoItem)
  BY <1>0, <1>3, <1>4 DEF Arrived
<1> QED
  BY <1>0, <1>2, <1>5, <1>6 DEF Orderly, q

\* A peer that has handed over what it was about to.
LEMMA FlowIsLeft ==
    ASSUME ExtendersAssumption, NEW h, NEW x, NEW e, NEW m, NEW c, NEW n, NEW g,
           Orderly(h, x, e, m, c, n, g)
    PROVE  Orderly(h, x, e, m, c, n, NoItem)
<1>1. \A z : Before(z, NoItem)
  BY EventsAreNotOrdered
<1> QED
  BY <1>1 DEF Orderly, Arrived

\* A peer that is about to hand over an event.
LEMMA FlowSeesEvent ==
    ASSUME ExtendersAssumption, NEW h, NEW x, NEW e, NEW m, NEW c, NEW n, NEW g,
           NEW y \in Events \cup {NoItem}, Orderly(h, x, e, m, c, n, g)
    PROVE  Orderly(h, x, e, m, c, n, y)
<1>1. \A z : Before(z, y)
  BY EventsAreNotOrdered
<1> QED
  BY <1>1 DEF Orderly, Arrived

\* A message comes: that of the session's peer, or another.
LEMMA FlowSeesMessage ==
    ASSUME ExtendersAssumption, NEW n \in Nat, n + 1 \in DOMAIN Messages,
           NEW h, NEW x, NEW e, NEW m, NEW c, NEW g, NEW y \in {g, Messages[n + 1]},
           Orderly(h, x, e, m, c, n, g)
    PROVE  Orderly(h, x, e, m, c, n + 1, y)
<1>1. Arrived(h, x, m, n, g)
  BY DEF Orderly
<1>2. ASSUME NEW z, UpTo(z, n), Before(z, g) PROVE UpTo(z, n + 1) /\ Before(z, y)
  BY <1>2, NextIsAfter, UpToMore
<1>3. Arrived(h, x, m, n + 1, y)
  BY <1>1, <1>2 DEF Arrived
<1> QED
  BY <1>3 DEF Orderly

\* A thread takes the next event.
LEMMA FlowTakesEvent ==
    ASSUME ExtendersAssumption, NEW h, NEW e, e # <<>>, NEW m, NEW c, NEW n, NEW g,
           Orderly(h, NoItem, e, m, c, n, g)
    PROVE  Orderly(h, Head(e), Tail(e), m, c, n, g)
<1> DEFINE f == Tail(e)
           x == Head(e)
<1>0. FlowTypes(h, NoItem, e, m) /\ Begins(h, NoItem, e) /\ Ends(h, NoItem, e, c)
      /\ Ordered(h, NoItem, m) /\ Arrived(h, NoItem, m, n, g)
  BY DEF Orderly
<1>1. /\ x \in Events /\ x = e[1] /\ Len(e) \in Nat /\ Len(e) >= 1
      /\ f \in Seq(Events) /\ Len(f) = Len(e) - 1
      /\ \A j \in 1 .. Len(e) - 1 : f[j] = e[j + 1]
  BY <1>0, TailIs DEF FlowTypes
<1> HIDE DEF f, x
<1>2. FlowTypes(h, x, f, m)
  BY <1>0, <1>1 DEF FlowTypes, Items
<1>3. ASSUME NEW j \in 1 .. Len(f)
      PROVE  j + 1 \in 1 .. Len(e) /\ f[j] = e[j + 1] /\ j + 1 # 1 /\ (j + 1 = Len(e) => j = Len(f))
  BY <1>1
<1>4. 1 \in 1 .. Len(e) /\ x # NoItem
  BY <1>1, ItemsAre
<1>5. Begins(h, x, f)
  BY <1>0, <1>1, <1>3, <1>4 DEF Begins
<1>6. Ends(h, x, f, c)
  <2>1. ASSUME NEW j \in 1 .. Len(h), h[j] = "Disconnected"
        PROVE  FALSE
    <3>1. e = <<>>
      BY <1>0, <2>1 DEF Ends
    <3>2. Len(e) = 0
      BY <1>0, <3>1, EmptyIs DEF FlowTypes
    <3> QED
      BY <1>1, <3>2
  <2>2. ASSUME x = "Disconnected" PROVE f = <<>> /\ ~c
    <3>1. Len(e) = 1 /\ ~c
      BY <1>0, <1>1, <1>4, <2>2 DEF Ends
    <3>2. Len(f) = 0
      BY <1>1, <3>1
    <3> QED
      BY <1>1, <3>1, <3>2, EmptyIs
  <2>3. ASSUME NEW j \in 1 .. Len(f), f[j] = "Disconnected" PROVE j = Len(f) /\ ~c
    BY <1>0, <1>3, <2>3 DEF Ends
  <2> QED
    BY <2>1, <2>2, <2>3 DEF Ends
<1>7. \A z : Before(x, z) /\ Before(z, x) /\ UpTo(x, n)
  BY <1>1, EventsAreNotOrdered
<1>8. Ordered(h, x, m) /\ Arrived(h, x, m, n, g)
  BY <1>0, <1>7 DEF Ordered, Arrived
<1> QED
  BY <1>2, <1>5, <1>6, <1>8 DEF Orderly, f, x

\* A thread takes the next message of a session that is connected and has begun.
LEMMA FlowTakesMessage ==
    ASSUME ExtendersAssumption, NEW h, h # <<>>, NEW e, NEW m, m # <<>>, NEW n, NEW g,
           Orderly(h, NoItem, e, m, TRUE, n, g)
    PROVE  Orderly(h, Head(m), e, Tail(m), TRUE, n, g)
<1> DEFINE q == Tail(m)
           x == Head(m)
<1>0. FlowTypes(h, NoItem, e, m) /\ Begins(h, NoItem, e) /\ Ends(h, NoItem, e, TRUE)
      /\ Ordered(h, NoItem, m) /\ Arrived(h, NoItem, m, n, g)
  BY DEF Orderly
<1>1. /\ x \in Msgs /\ x = m[1] /\ Len(m) \in Nat /\ Len(m) >= 1
      /\ q \in Seq(Msgs) /\ Len(q) = Len(m) - 1
      /\ \A j \in 1 .. Len(m) - 1 : q[j] = m[j + 1]
  BY <1>0, TailIs DEF FlowTypes
<1> HIDE DEF q, x
<1>2. x # "Connected" /\ x # "Disconnected" /\ x # NoItem
  BY <1>1, ItemsAre
<1>3. FlowTypes(h, x, e, q) /\ Begins(h, x, e)
  BY <1>0, <1>1, <1>2 DEF FlowTypes, Items, Begins
<1>4. Ends(h, x, e, TRUE)
  BY <1>0, <1>2 DEF Ends
<1>5. 1 \in 1 .. Len(m)
  BY <1>1
<1>6. ASSUME NEW j \in 1 .. Len(q)
      PROVE  j + 1 \in 1 .. Len(m) /\ q[j] = m[j + 1] /\ 1 < j + 1
  BY <1>1
<1>7. Ordered(h, x, q)
  <2>1. ASSUME NEW j \in 1 .. Len(q), NEW k \in 1 .. Len(q), j < k PROVE Before(q[j], q[k])
    <3>1. j + 1 < k + 1
      BY <1>1, <2>1
    <3> QED
      BY <1>0, <1>6, <3>1 DEF Ordered
  <2>2. \A k \in 1 .. Len(q) : Before(x, q[k])
    BY <1>0, <1>1, <1>5, <1>6 DEF Ordered
  <2>3. \A j \in 1 .. Len(h) : Before(h[j], x) /\ \A k \in 1 .. Len(q) : Before(h[j], q[k])
    BY <1>0, <1>1, <1>5, <1>6 DEF Ordered
  <2> QED
    BY <1>0, <2>1, <2>2, <2>3 DEF Ordered
<1>8. Arrived(h, x, q, n, g)
  BY <1>0, <1>1, <1>5, <1>6 DEF Arrived
<1> QED
  BY <1>3, <1>4, <1>7, <1>8 DEF Orderly, q, x

\* A thread passes on what it has in hand.
LEMMA FlowIsHeard ==
    ASSUME ExtendersAssumption, NEW h, NEW x \in Items, NEW e, NEW m, NEW c, NEW n, NEW g,
           Orderly(h, x, e, m, c, n, g)
    PROVE  Orderly(Append(h, x), NoItem, e, m, c, n, g) /\ Append(h, x) # <<>>
<1> DEFINE b == Append(h, x)
<1>0. FlowTypes(h, x, e, m) /\ Begins(h, x, e) /\ Ends(h, x, e, c)
      /\ Ordered(h, x, m) /\ Arrived(h, x, m, n, g)
  BY DEF Orderly
<1>1. /\ b \in Seq(Items) /\ b # <<>> /\ Len(b) = Len(h) + 1 /\ Len(h) \in Nat
      /\ \A j \in 1 .. Len(h) : b[j] = h[j]
      /\ b[Len(h) + 1] = x
  BY <1>0, AppendIs DEF FlowTypes
<1> HIDE DEF b
<1>2. x # NoItem
  BY DEF ExtendersAssumption
<1>3. FlowTypes(b, NoItem, e, m)
  BY <1>0, <1>1 DEF FlowTypes
<1>4. ASSUME NEW j \in 1 .. Len(b)
      PROVE  \/ j \in 1 .. Len(h) /\ b[j] = h[j]
             \/ j = Len(h) + 1 /\ b[j] = x
  <2>1. CASE j \in 1 .. Len(h)
    BY <1>1, <2>1
  <2>2. CASE j \notin 1 .. Len(h)
    <3>1. j = Len(h) + 1
      BY <1>1, <2>2
    <3> QED
      BY <1>1, <3>1
  <2> QED
    BY <2>1, <2>2
<1>5. h = <<>> <=> Len(h) = 0
  BY <1>0, EmptyIs DEF FlowTypes
<1>6. Begins(b, NoItem, e)
  <2>1. ASSUME NEW j \in 1 .. Len(b) PROVE b[j] = "Connected" <=> j = 1
    <3>1. CASE j \in 1 .. Len(h) /\ b[j] = h[j]
      BY <1>0, <3>1 DEF Begins
    <3>2. CASE j = Len(h) + 1 /\ b[j] = x
      <4>1. j = 1 <=> h = <<>>
        BY <1>1, <1>5, <3>2
      <4> QED
        BY <1>0, <1>2, <3>2, <4>1 DEF Begins
    <3> QED
      BY <1>4, <3>1, <3>2
  <2>2. ASSUME NEW j \in 1 .. Len(e), e[j] = "Connected" PROVE FALSE
    BY <1>0, <1>2, <2>2 DEF Begins
  <2> QED
    BY <1>1, <2>1, <2>2 DEF Begins
<1>7. Ends(b, NoItem, e, c)
  <2>1. ASSUME NEW j \in 1 .. Len(b), b[j] = "Disconnected"
        PROVE  j = Len(b) /\ e = <<>> /\ ~c
    <3>1. CASE j \in 1 .. Len(h) /\ b[j] = h[j]
      BY <1>0, <1>2, <2>1, <3>1 DEF Ends
    <3>2. CASE j = Len(h) + 1 /\ b[j] = x
      BY <1>0, <1>1, <2>1, <3>2 DEF Ends
    <3> QED
      BY <1>4, <3>1, <3>2
  <2>2. NoItem # "Disconnected"
    BY ItemsAre
  <2> QED
    BY <1>0, <2>1, <2>2 DEF Ends
<1>8. \A z : Before(z, NoItem) /\ Before(NoItem, z) /\ UpTo(NoItem, n)
  BY EventsAreNotOrdered
<1>9. Ordered(b, NoItem, m)
  <2>1. ASSUME NEW j \in 1 .. Len(b), NEW k \in 1 .. Len(b), j < k PROVE Before(b[j], b[k])
    <3>1. j \in 1 .. Len(h) /\ b[j] = h[j]
      BY <1>1, <2>1
    <3> QED
      BY <1>0, <1>4, <2>1, <3>1 DEF Ordered
  <2>2. \A j \in 1 .. Len(b), k \in 1 .. Len(m) : Before(b[j], m[k])
    BY <1>0, <1>4 DEF Ordered
  <2> QED
    BY <1>0, <1>8, <2>1, <2>2 DEF Ordered
<1>10. Arrived(b, NoItem, m, n, g)
  BY <1>0, <1>4, <1>8 DEF Arrived
<1> QED
  BY <1>1, <1>3, <1>6, <1>7, <1>9, <1>10 DEF Orderly, b

-----------------------------------------------------------------------------
(* Init, and steps that do not touch what an extender is told.             *)

LEMMA InitIsEmpty ==
    ASSUME ExtendersAssumption, ExtendersInit
    PROVE  KInv
<1>0. /\ setting \in Settings /\ setting.messages \in Nat
      /\ spent = [starts |-> 0, changes |-> 0, messages |-> 0]
      /\ sessions = <<>> /\ heard = <<>> /\ Len(<<>>) = 0 /\ step = "idle"
      /\ status = "Stopped" /\ calling = [p \in Peers |-> NoItem]
      /\ known = [p \in Peers |-> NoItem] /\ queue = [k \in Pools |-> <<>>]
  BY EmptySeq DEF ExtendersInit, ExtendersAssumption
<1>1. ManagerTypes
  <2>1. spent \in [starts : Nat, changes : Nat, messages : Nat] /\ spent.messages <= setting.messages
    BY <1>0
  <2>2. /\ present \in BOOLEAN /\ enabled \in BOOLEAN /\ listed \in BOOLEAN
        /\ recent \in BOOLEAN /\ dropped \subseteq Peers /\ left \subseteq Peers
    BY DEF ExtendersInit
  <2>3. status \in Statuses /\ step \in Steps
    BY <1>0 DEF Statuses, Steps
  <2> QED
    BY <1>0, <2>1, <2>2, <2>3 DEF ManagerTypes
<1>2. PeerTypes
  BY DEF ExtendersInit, PeerTypes, PeerRecords
<1>3. QueueTypes
  <2>1. /\ <<>> \in Seq(SessionRecords) /\ <<>> \in Seq(Seq(Items))
        /\ <<>> \in Seq(1 .. Len(<<>>))
    BY EmptySeq
  <2> QED
    BY <1>0, <2>1 DEF QueueTypes
<1>4. \A w \in Threads : thread[w] = NoWork("gone")
  BY DEF ExtendersInit
<1>5. NoWork("gone") \in WorkerRecords /\ WorkerIsSound(NoWork("gone"))
      /\ NoWork("gone").id = NoItem /\ NoWork("gone").at = "gone"
  BY DEF NoWork, WorkerRecords, WorkerIsSound, Places
<1>6. WorkerTypes
  BY <1>4, <1>5 DEF WorkerTypes, ExtendersInit
<1>7. OneToken /\ NothingWithoutPools /\ StepFollowsStatus /\ KnownIsConnected
  <2>1. \A k \in Pools : queue[k] = <<>> /\ Len(queue[k]) = 0
    BY <1>0
  <2> QED
    BY <1>0, <1>4, <1>5, <2>1 DEF OneToken, QueueHasTokens, ThreadsHaveTokens, NothingWithoutPools,
       StepFollowsStatus, KnownIsConnected, HasPools
<1>8. SessionsAreOrderly /\ FirstIsNotSkipped
  BY <1>0, <1>4, <1>5 DEF SessionsAreOrderly, FirstIsNotSkipped, SkipsNothing, ending
<1>9. CallsHaveCome
  BY <1>0, EventsAreNotOrdered DEF CallsHaveCome
<1>10. PeersAreKnown
  BY <1>0, ItemsAre DEF PeersAreKnown, IsFit, ExtendersInit, Untold, IsOurs
<1> QED
  BY <1>1, <1>2, <1>3, <1>6, <1>7, <1>8, <1>9, <1>10 DEF KInv, IInv, Types

\* The manager, or a peer that hears of the extender, does something.
LEMMA QuietStep ==
    ASSUME IInv, UNCHANGED <<calling, controlVars, thread, heard, setting>>,
           ManagerTypes', peer' \in [Peers -> PeerRecords], spent'.messages = spent.messages,
           HasPools => HasPools', StepFollowsStatus',
           \A w \in Threads : ending(w) => ending(w)'
    PROVE  IInv'
<1>1. UNCHANGED <<calling, sessions, known, queue, thread, heard, setting>>
  BY DEF controlVars
<1>2. Pools' = Pools /\ Threads' = Threads
  BY <1>1 DEF Pools, Threads
<1>3. Types'
  BY <1>1, <1>2 DEF IInv, Types, PeerTypes, QueueTypes, WorkerTypes, WorkerIsSound, SessionRecords
<1>4. OneToken'
  BY <1>1, <1>2 DEF IInv, OneToken, QueueHasTokens, ThreadsHaveTokens, Held
<1>5. NothingWithoutPools' /\ KnownIsConnected'
  BY <1>1, <1>2 DEF IInv, NothingWithoutPools, KnownIsConnected
<1>6. SessionsAreOrderly' /\ CallsHaveCome'
  BY <1>1, <1>2 DEF IInv, SessionsAreOrderly, InHand, Held, Flow, CallsHaveCome
<1>7. FirstIsNotSkipped'
  BY <1>1, <1>2 DEF IInv, FirstIsNotSkipped, SkipsNothing, ending
<1> QED
  BY <1>3, <1>4, <1>5, <1>6, <1>7 DEF IInv

LEMMA SpendKeepsType ==
    ASSUME ManagerTypes, NEW what \in {"starts", "changes"}, Count(what)
    PROVE  /\ spent' \in [starts : Nat, changes : Nat, messages : Nat]
           /\ spent'.messages = spent.messages
BY DEF ManagerTypes, Count

\* A pool that is told to stop does nothing yet.
LEMMA ShutdownPoolIs ==
    ASSUME NEW k \in Pools, ShutdownPool(k)
    PROVE  UNCHANGED <<present, enabled, status, listed, recent, step, bulk, left, peer, calling,
                       controlVars, sessions, known, queue, thread, heard, dropped, setting, spent>>
BY DEF ShutdownPool, controlVars

LEMMA ShutdownPoolKeeps ==
    ASSUME IInv, NEW k \in Pools, ShutdownPool(k)
    PROVE  IInv'
<1>1. UNCHANGED <<present, enabled, status, listed, recent, step, left, peer, calling,
                  controlVars, thread, heard, dropped, setting, spent>>
  BY ShutdownPoolIs
<1>2. ManagerTypes' /\ peer' \in [Peers -> PeerRecords] /\ spent'.messages = spent.messages
      /\ StepFollowsStatus' /\ (HasPools => HasPools')
  BY <1>1 DEF IInv, Types, ManagerTypes, PeerTypes, StepFollowsStatus, HasPools
<1>3. \A w \in Threads : ending(w) => ending(w)'
  BY DEF ending, ShutdownPool
<1> QED
  BY <1>1, <1>2, <1>3, QuietStep

LEMMA ManagerKeeps ==
    ASSUME IInv,
           \/ AddExtender \/ StartExtenders \/ StopOne \/ StopAll \/ RemoveExtender \/ GraceEnds
           \/ Activate \/ BeginBroadcast \/ EndBroadcast \/ Deactivate \/ ShutdownThreadPools
    PROVE  IInv'
<1>1. ManagerTypes /\ StepFollowsStatus /\ PeerTypes
  BY DEF IInv, Types
<1>2. UNCHANGED <<peer, calling, controlVars, thread, heard, setting>>
  BY DEF AddExtender, StartExtenders, StopOne, StopAll, ShutdownExtender, RemoveExtender, GraceEnds,
     Activate, BeginBroadcast, EndBroadcast, Deactivate, ShutdownThreadPools
<1>3. spent' = spent \/ Count("starts")
  BY DEF AddExtender, StartExtenders, StartExtender, StopOne, StopAll, ShutdownExtender,
     RemoveExtender, GraceEnds, Activate, BeginBroadcast, EndBroadcast, Deactivate,
     ShutdownThreadPools
<1>4. spent' \in [starts : Nat, changes : Nat, messages : Nat] /\ spent'.messages = spent.messages
  BY <1>1, <1>3, SpendKeepsType DEF ManagerTypes
<1>5. peer' \in [Peers -> PeerRecords]
  BY <1>1, <1>2 DEF PeerTypes
<1>6. CASE AddExtender \/ StartExtenders
  <2>1. ManagerTypes'
    BY <1>1, <1>2, <1>4, <1>6 DEF ManagerTypes, AddExtender, StartExtenders, StartExtender,
       Statuses, Steps
  <2>2. (HasPools => HasPools') /\ StepFollowsStatus' /\ (\A w \in Threads : ending(w) => ending(w)')
    BY <1>1, <1>6 DEF ending, AddExtender, StartExtenders, StartExtender, HasPools, StepFollowsStatus
  <2> QED
    BY <1>2, <1>4, <1>5, <2>1, <2>2, QuietStep
<1>7. CASE StopOne \/ StopAll \/ RemoveExtender \/ GraceEnds
  <2>1. ManagerTypes'
    BY <1>1, <1>2, <1>4, <1>7 DEF ManagerTypes, StopOne, StopAll, ShutdownExtender, RemoveExtender,
       GraceEnds, Statuses, Steps
  <2>2. (HasPools => HasPools') /\ StepFollowsStatus' /\ (\A w \in Threads : ending(w) => ending(w)')
    BY <1>1, <1>7 DEF ending, StopOne, StopAll, ShutdownExtender, RemoveExtender, GraceEnds, HasPools,
       StepFollowsStatus
  <2> QED
    BY <1>2, <1>4, <1>5, <2>1, <2>2, QuietStep
<1>8. CASE Activate \/ BeginBroadcast \/ EndBroadcast \/ Deactivate \/ ShutdownThreadPools
  <2>1. ManagerTypes'
    BY <1>1, <1>2, <1>4, <1>8 DEF ManagerTypes, Activate, BeginBroadcast, EndBroadcast, Deactivate,
       ShutdownThreadPools, Proceed, Steps
  <2>2. (HasPools => HasPools') /\ StepFollowsStatus' /\ (\A w \in Threads : ending(w) => ending(w)')
    BY <1>1, <1>8 DEF ending, Activate, BeginBroadcast, EndBroadcast, Deactivate, ShutdownThreadPools,
       Proceed, HasPools, StepFollowsStatus
  <2> QED
    BY <1>2, <1>4, <1>5, <2>1, <2>2, QuietStep
<1> QED
  BY <1>6, <1>7, <1>8

LEMMA UpdatesKeep ==
    ASSUME IInv, NEW p \in Peers, Broadcast(p) \/ HearUpdate(p)
    PROVE  IInv'
<1>1. ManagerTypes /\ StepFollowsStatus /\ PeerTypes
  BY DEF IInv, Types
<1>2. UNCHANGED <<calling, controlVars, thread, heard, setting, spent, status, step, ended>>
  BY DEF Broadcast, HearUpdate, managerVars
<1>3. ManagerTypes'
  BY <1>1, <1>2 DEF ManagerTypes, Broadcast, HearUpdate, managerVars
<1>4. peer' \in [Peers -> PeerRecords]
  BY <1>1 DEF PeerTypes, PeerRecords, Broadcast, HearUpdate, ManagerTypes
<1>5. (HasPools => HasPools') /\ StepFollowsStatus' /\ (\A w \in Threads : ending(w) => ending(w)')
  BY <1>1, <1>2 DEF ending, HasPools, StepFollowsStatus
<1> QED
  BY <1>2, <1>3, <1>4, <1>5, QuietStep

-----------------------------------------------------------------------------
(* A peer takes note of what it is to hand over.                           *)

LEMMA PoolsStay ==
    ASSUME setting' = setting
    PROVE  Pools' = Pools /\ Threads' = Threads /\ SessionRecords' = SessionRecords
BY DEF Pools, Threads, SessionRecords

LEMMA SessionIs ==
    ASSUME QueueTypes, NEW i \in 1 .. Len(sessions)
    PROVE  /\ sessions[i] \in SessionRecords
           /\ sessions[i].peer \in Peers /\ sessions[i].pool \in Pools
           /\ heard[i] \in Seq(Items)
<1>1. sessions[i] \in SessionRecords
  BY ElementOfSeq DEF QueueTypes
<1>2. heard[i] \in Seq(Items)
  BY ElementOfSeq DEF QueueTypes
<1> QED
  BY <1>1, <1>2 DEF SessionRecords

\* An event of a peer, or none.
LEMMA EventStep ==
    ASSUME ExtendersAssumption, IInv, NEW p \in Peers, NEW y \in Events \cup {NoItem},
           calling' = [calling EXCEPT ![p] = y],
           UNCHANGED <<status, step, ended, controlVars, thread, heard, setting>>, ManagerTypes',
           spent'.messages = spent.messages, peer' \in [Peers -> PeerRecords]
    PROVE  IInv'
<1>1. UNCHANGED <<status, step, ended, sessions, known, queue, thread, heard, setting>>
  BY DEF controlVars
<1>2. Pools' = Pools /\ Threads' = Threads /\ SessionRecords' = SessionRecords
  BY <1>1, PoolsStay
<1>3. PeerTypes
  BY DEF IInv, Types
<1>4. \A q \in Peers : calling'[q] = IF q = p THEN y ELSE calling[q]
  BY <1>3 DEF PeerTypes
<1>5. Types'
  <2>1. PeerTypes'
    BY <1>3 DEF PeerTypes, Items
  <2> QED
    BY <1>1, <1>2, <2>1 DEF IInv, Types, QueueTypes, WorkerTypes, WorkerIsSound
<1>6. OneToken'
  BY <1>1, <1>2 DEF IInv, OneToken, QueueHasTokens, ThreadsHaveTokens, Held
<1>7. NothingWithoutPools' /\ KnownIsConnected' /\ StepFollowsStatus'
  BY <1>1, <1>2 DEF IInv, NothingWithoutPools, KnownIsConnected, StepFollowsStatus, HasPools
<1>8. SessionsAreOrderly'
  <2> SUFFICES ASSUME NEW i \in 1 .. Len(sessions), NEW x, InHand(i, x) PROVE Flow(i, x)'
    BY <1>1, <1>2 DEF SessionsAreOrderly, InHand, Held
  <2>1. Flow(i, x)
    BY DEF IInv, SessionsAreOrderly
  <2>2. sessions[i].peer \in Peers
    BY SessionIs DEF IInv, Types
  <2>3. CASE sessions[i].peer = p
    <3>1. calling'[sessions[i].peer] = y
      BY <1>4, <2>3
    <3> QED
      BY <1>1, <2>1, <3>1, FlowSeesEvent DEF Flow
  <2>4. CASE sessions[i].peer # p
    <3>1. calling'[sessions[i].peer] = calling[sessions[i].peer]
      BY <1>4, <2>2, <2>4
    <3> QED
      BY <1>1, <2>1, <3>1 DEF Flow
  <2> QED
    BY <2>3, <2>4
<1>9. CallsHaveCome'
  <2>1. UpTo(y, spent.messages)
    BY EventsAreNotOrdered
  <2> QED
    BY <1>4, <2>1 DEF IInv, CallsHaveCome
<1>10. FirstIsNotSkipped'
  BY <1>1, <1>2 DEF IInv, FirstIsNotSkipped, SkipsNothing, ending
<1> QED
  BY <1>5, <1>6, <1>7, <1>8, <1>9, <1>10 DEF IInv

LEMMA PeerChanges ==
    ASSUME ExtendersAssumption, IInv, NEW p \in Peers,
           BecomeReady(p) \/ Suspend(p) \/ Resume(p) \/ Disconnect(p) \/ PeerExtenderUpdate(p)
    PROVE  IInv'
<1>1. ManagerTypes /\ PeerTypes
  BY DEF IInv, Types
<1>2. UNCHANGED <<managerVars, controlVars, thread, heard, dropped, setting>>
  BY DEF BecomeReady, Suspend, Resume, Disconnect, ChangeStatus, PeerExtenderUpdate
<1>3. spent' = spent \/ Count("changes")
  BY DEF BecomeReady, Suspend, Resume, Disconnect, ChangeStatus, PeerExtenderUpdate
<1>4. spent' \in [starts : Nat, changes : Nat, messages : Nat] /\ spent'.messages = spent.messages
  BY <1>1, <1>3, SpendKeepsType DEF ManagerTypes
<1>5. peer' \in [Peers -> PeerRecords]
  <2>1. peer \in [Peers -> PeerRecords] /\ peer[p] \in PeerRecords /\ listed \in BOOLEAN
    BY <1>1 DEF PeerTypes, ManagerTypes
  <2>2. CASE BecomeReady(p)
    <3>1. peer' = [peer EXCEPT ![p] = [peer[p] EXCEPT !.st = "Ready", !.told = listed,
                                                      !.sent = listed]]
      BY <2>2 DEF BecomeReady
    <3> QED
      BY <2>1, <3>1 DEF PeerRecords
  <2>3. CASE Suspend(p) \/ Resume(p) \/ Disconnect(p)
    <3>1. \E from, item : \E to \in {"Ready", "Suspended", "Disconnected"} :
              ChangeStatus(p, from, to, item)
      BY <2>3 DEF Suspend, Resume, Disconnect
    <3>2. PICK from, item : \E to \in {"Ready", "Suspended", "Disconnected"} :
              ChangeStatus(p, from, to, item)
      BY <3>1
    <3>3. PICK to \in {"Ready", "Suspended", "Disconnected"} : ChangeStatus(p, from, to, item)
      BY <3>2
    <3>4. peer' = [peer EXCEPT ![p] = [peer[p] EXCEPT !.st = to,
                       !.sent = IF item = "Resumed" THEN listed ELSE peer[p].sent]]
      BY <3>3 DEF ChangeStatus
    <3> QED
      BY <2>1, <3>4 DEF PeerRecords
  <2>4. CASE PeerExtenderUpdate(p)
    <3>1. peer' = [peer EXCEPT ![p] = [peer[p] EXCEPT !.has = ~peer[p].has]]
      BY <2>4 DEF PeerExtenderUpdate
    <3> QED
      BY <2>1, <3>1 DEF PeerRecords
  <2> QED
    BY <2>2, <2>3, <2>4
<1>6. \E y \in Events \cup {NoItem} : calling' = [calling EXCEPT ![p] = y]
  <2>1. Unlocked(p) /\ (\/ calling' = calling
                        \/ \E item \in Events : Notify(p, item))
    BY DEF BecomeReady, Suspend, Resume, Disconnect, ChangeStatus, PeerExtenderUpdate, Events
  <2>2. CASE calling' = calling
    <3>1. calling' = [calling EXCEPT ![p] = NoItem]
      BY <1>1, <2>1, <2>2 DEF Unlocked, PeerTypes
    <3> QED
      BY <3>1
  <2>3. CASE \E item \in Events : Notify(p, item)
    BY <2>3 DEF Notify
  <2> QED
    BY <2>1, <2>2, <2>3
<1>7. UNCHANGED <<status, step, ended>> /\ ManagerTypes'
  BY <1>1, <1>2, <1>4 DEF ManagerTypes, managerVars
<1> QED
  BY <1>2, <1>4, <1>5, <1>6, <1>7, EventStep, ZenonT(60)

LEMMA MessageComes ==
    ASSUME ExtendersAssumption, IInv, NEW p \in Peers, Message(p)
    PROVE  IInv'
<1> DEFINE n == spent.messages
           y == IF status = "Running" THEN Messages[n + 1] ELSE NoItem
<1>1. ManagerTypes /\ PeerTypes /\ CallsHaveCome /\ n \in Nat
  BY DEF IInv, Types, ManagerTypes
<1>2. UNCHANGED <<managerVars, status, step, ended, peer, sessions, known, queue, thread, heard, setting>>
      /\ dropped' \subseteq Peers
  BY <1>1 DEF Message, ManagerTypes, managerVars, controlVars
<1>3. n + 1 \in DOMAIN Messages
  <2>1. n < setting.messages /\ setting.messages \in 0 .. Len(Messages)
    BY <1>1 DEF Message, Within, ManagerTypes, ExtendersAssumption
  <2> QED
    BY <1>1, <2>1 DEF ExtendersAssumption
<1>4. /\ spent' = [spent EXCEPT !.messages = n + 1]
      /\ spent' \in [starts : Nat, changes : Nat, messages : Nat]
      /\ spent'.messages = n + 1 /\ n + 1 <= setting.messages
  <2>1. n < setting.messages /\ setting.messages \in 0 .. Len(Messages)
    BY <1>1 DEF Message, Within, ManagerTypes, ExtendersAssumption
  <2>2. spent' = [spent EXCEPT !.messages = n + 1]
    BY DEF Message, Count
  <2> QED
    BY <1>1, <2>1, <2>2 DEF ManagerTypes, ExtendersAssumption
<1>5. calling' = [calling EXCEPT ![p] = y] /\ calling[p] = NoItem
  BY DEF Message, Notify, Unlocked
<1>6. y \in {NoItem, Messages[n + 1]} /\ Messages[n + 1] \in Msgs
  BY <1>3 DEF Msgs
<1> HIDE DEF y
<1>7. \A q \in Peers : calling'[q] = IF q = p THEN y ELSE calling[q]
  BY <1>1, <1>5 DEF PeerTypes
<1>8. Pools' = Pools /\ Threads' = Threads /\ SessionRecords' = SessionRecords
  BY <1>2, PoolsStay
<1>9. Types'
  <2>1. ManagerTypes'
    BY <1>1, <1>2, <1>4 DEF ManagerTypes, managerVars
  <2>2. PeerTypes'
    BY <1>1, <1>2, <1>5, <1>6 DEF PeerTypes, Items
  <2> QED
    BY <1>2, <1>8, <2>1, <2>2 DEF IInv, Types, QueueTypes, WorkerTypes, WorkerIsSound
<1>10. OneToken' /\ FirstIsNotSkipped'
  BY <1>2, <1>8 DEF IInv, OneToken, QueueHasTokens, ThreadsHaveTokens, Held,
     FirstIsNotSkipped, SkipsNothing, ending
<1>11. NothingWithoutPools' /\ KnownIsConnected' /\ StepFollowsStatus'
  BY <1>2, <1>8 DEF IInv, NothingWithoutPools, KnownIsConnected, StepFollowsStatus, HasPools
<1>12. SessionsAreOrderly'
  <2> SUFFICES ASSUME NEW i \in 1 .. Len(sessions), NEW x, InHand(i, x) PROVE Flow(i, x)'
    BY <1>2, <1>8 DEF SessionsAreOrderly, InHand, Held
  <2> DEFINE g == calling[sessions[i].peer]
             z == calling'[sessions[i].peer]
  <2>1. Flow(i, x)
    BY DEF IInv, SessionsAreOrderly
  <2>2. sessions[i].peer \in Peers
    BY SessionIs DEF IInv, Types
  <2>3. z \in {g, Messages[n + 1]}
    BY <1>5, <1>6, <1>7, <2>2
  <2> HIDE DEF g, z
  <2>4. Orderly(heard[i], x, sessions[i].events, sessions[i].messages, sessions[i].connected, n, g)
    BY <2>1 DEF Flow, g
  <2>5. Orderly(heard[i], x, sessions[i].events, sessions[i].messages, sessions[i].connected,
                n + 1, z)
    BY <1>1, <1>3, <2>3, <2>4, FlowSeesMessage
  <2> QED
    BY <1>2, <1>4, <2>5 DEF Flow, z
<1>13. CallsHaveCome'
  <2> SUFFICES ASSUME NEW q \in Peers PROVE UpTo(calling'[q], n + 1)
    BY <1>4 DEF CallsHaveCome
  <2>1. CASE q = p /\ y = Messages[n + 1]
    <3>1. UpTo(Messages[n + 1], n + 1)
      BY <1>1, <1>3 DEF UpTo, ExtendersAssumption
    <3> QED
      BY <1>7, <2>1, <3>1
  <2>2. CASE q # p \/ y # Messages[n + 1]
    <3>1. calling'[q] = calling[q]
      BY <1>5, <1>6, <1>7, <2>2
    <3> QED
      BY <1>1, <3>1, UpToMore DEF CallsHaveCome
  <2> QED
    BY <2>1, <2>2
<1> QED
  BY <1>9, <1>10, <1>11, <1>12, <1>13 DEF IInv

-----------------------------------------------------------------------------
(* Sessions with the threads.                                              *)

LEMMA HandOfHolder ==
    ASSUME OneToken, NEW w \in Threads, NEW i, i = thread[w].id, i # NoItem, NEW x
    PROVE  Held(i) /\ (InHand(i, x) <=> x = thread[w].item)
<1>1. Held(i)
  BY DEF Held
<1>2. \A v \in Threads : thread[v].id = i => v = w
  BY DEF OneToken, ThreadsHaveTokens
<1> QED
  BY <1>1, <1>2 DEF InHand

\* Sessions that a thread neither has nor gets.
LEMMA HandOfOthers ==
    ASSUME WorkerTypes, NEW w \in Threads, NEW r, thread' = [thread EXCEPT ![w] = r],
           setting' = setting, NEW i, i # thread[w].id, i # r.id
    PROVE  /\ Held(i)' <=> Held(i)
           /\ \A x : InHand(i, x)' <=> InHand(i, x)
<1>1. Threads' = Threads
  BY PoolsStay
<1>2. \A v \in Threads : v # w => thread'[v] = thread[v]
  BY DEF WorkerTypes
<1>3. thread'[w] = r
  BY DEF WorkerTypes
<1> QED
  BY <1>1, <1>2, <1>3 DEF Held, InHand

\* A thread does something with the session it has, and keeps it.
LEMMA HolderKeeps ==
    ASSUME ExtendersAssumption, IInv, NEW w \in Threads, NEW i, i = thread[w].id, i # NoItem,
           NEW r \in WorkerRecords, r.id = i, thread' = [thread EXCEPT ![w] = r],
           WorkerIsSound(r),
           UNCHANGED <<managerVars, peer, calling, known, queue, dropped, setting, spent>>,
           sessions' \in Seq(SessionRecords), Len(sessions') = Len(sessions),
           \A j \in 1 .. Len(sessions) : j # i => sessions'[j] = sessions[j],
           sessions'[i].peer = sessions[i].peer, sessions'[i].pool = sessions[i].pool,
           sessions'[i].connected = sessions[i].connected,
           sessions'[i].inQueue = sessions[i].inQueue,
           heard' \in Seq(Seq(Items)), Len(heard') = Len(heard),
           \A j \in 1 .. Len(sessions) : j # i => heard'[j] = heard[j],
           heard'[i] = <<>> => heard[i] = <<>>,
           r.item = NoItem /\ heard'[i] = <<>> =>
               /\ r.at \in {"events", "messages", "requeue"} /\ r.num = 0
               /\ r.at # "events" => ending(w),
           Orderly(heard'[i], r.item, sessions'[i].events, sessions'[i].messages,
                   sessions[i].connected, spent.messages, calling[sessions[i].peer])
    PROVE  IInv'
<1>1. UNCHANGED <<managerVars, status, step, ended, left, peer, calling, known, queue, dropped, setting,
                  spent>>
  BY DEF managerVars
<1>2. Pools' = Pools /\ Threads' = Threads /\ SessionRecords' = SessionRecords
  BY <1>1, PoolsStay
<1>3. Types /\ OneToken /\ SessionsAreOrderly /\ FirstIsNotSkipped /\ CallsHaveCome
      /\ NothingWithoutPools /\ KnownIsConnected /\ StepFollowsStatus
  BY DEF IInv
<1>4. ManagerTypes /\ PeerTypes /\ QueueTypes /\ WorkerTypes
  BY <1>3 DEF Types
<1>5. thread'[w] = r /\ \A v \in Threads : v # w => thread'[v] = thread[v]
  BY <1>4 DEF WorkerTypes
<1>6. \A v \in Threads : thread'[v].id = thread[v].id
  BY <1>5
<1>7. i \in 1 .. Len(sessions)
  BY <1>4 DEF WorkerTypes, WorkerIsSound
<1>8. \A j \in 1 .. Len(sessions) :
          /\ sessions'[j].peer = sessions[j].peer /\ sessions'[j].pool = sessions[j].pool
          /\ sessions'[j].connected = sessions[j].connected
          /\ sessions'[j].inQueue = sessions[j].inQueue
  OBVIOUS
<1>9. Types'
  <2>1. ManagerTypes' /\ PeerTypes'
    BY <1>1, <1>4 DEF ManagerTypes, PeerTypes, managerVars
  <2>2. QueueTypes'
    BY <1>1, <1>2, <1>4 DEF QueueTypes
  <2>3. thread' \in [Threads -> WorkerRecords]
    BY <1>4 DEF WorkerTypes
  <2>4. \A v \in Threads : WorkerIsSound(thread'[v])
    BY <1>4, <1>5 DEF WorkerTypes
  <2>5. WorkerTypes'
    BY <1>2, <2>3, <2>4 DEF WorkerTypes, WorkerIsSound
  <2> QED
    BY <2>1, <2>2, <2>5 DEF Types
<1>10. \A j : Held(j)' <=> Held(j)
  BY <1>2, <1>6 DEF Held
<1>11. OneToken'
  <2>1. ASSUME NEW k \in Pools, NEW j \in 1 .. Len(queue[k])
        PROVE  queue[k][j] \in 1 .. Len(sessions)
    BY <1>4, ElementOfSeq DEF QueueTypes
  <2>2. QueueHasTokens'
    <3> SUFFICES ASSUME NEW k \in Pools, NEW j \in 1 .. Len(queue[k])
                 PROVE  /\ sessions'[queue[k][j]].inQueue /\ sessions'[queue[k][j]].pool = k
                        /\ ~Held(queue[k][j])'
                        /\ \A l \in 1 .. Len(queue[k]) : queue[k][l] = queue[k][j] => l = j
      BY <1>1, <1>2 DEF QueueHasTokens
    <3>1. /\ sessions[queue[k][j]].inQueue /\ sessions[queue[k][j]].pool = k
          /\ ~Held(queue[k][j])
          /\ \A l \in 1 .. Len(queue[k]) : queue[k][l] = queue[k][j] => l = j
      BY <1>3 DEF OneToken, QueueHasTokens
    <3> QED
      BY <1>8, <1>10, <2>1, <3>1
  <2>3. \A v \in Threads : thread[v].id # NoItem => thread[v].id \in 1 .. Len(sessions)
    BY <1>4 DEF WorkerTypes, WorkerIsSound
  <2>4. ThreadsHaveTokens'
    BY <1>2, <1>3, <1>6, <1>8, <2>3 DEF OneToken, ThreadsHaveTokens
  <2> QED
    BY <2>2, <2>4 DEF OneToken
<1>12. NothingWithoutPools'
  <2>1. thread[w].at # "gone"
    BY <1>4 DEF WorkerTypes, WorkerIsSound
  <2> QED
    BY <1>1, <1>3, <2>1 DEF NothingWithoutPools, HasPools
<1>13. StepFollowsStatus' /\ CallsHaveCome'
  BY <1>1, <1>3 DEF StepFollowsStatus, CallsHaveCome
<1>14. KnownIsConnected'
  <2> SUFFICES ASSUME NEW p \in Peers, known[p] # NoItem
               PROVE  sessions'[known[p]].connected /\ sessions'[known[p]].peer = p
    BY <1>1 DEF KnownIsConnected
  <2>1. known[p] \in 1 .. Len(sessions)
    BY <1>4 DEF QueueTypes
  <2>2. sessions[known[p]].connected /\ sessions[known[p]].peer = p
    BY <1>3 DEF KnownIsConnected
  <2> QED
    BY <1>8, <2>1, <2>2
<1>15. SessionsAreOrderly'
  <2> SUFFICES ASSUME NEW j \in 1 .. Len(sessions), NEW x, InHand(j, x)' PROVE Flow(j, x)'
    BY DEF SessionsAreOrderly
  <2>1. CASE j = i
    <3>1. Held(i)'
      BY <1>2, <1>5 DEF Held
    <3>2. \E v \in Threads : thread'[v].id = i /\ thread'[v].item = x
      BY <1>2, <2>1, <3>1 DEF InHand
    <3>3. x = r.item
      BY <1>3, <1>5, <1>6, <3>2 DEF OneToken, ThreadsHaveTokens
    <3> QED
      BY <1>1, <1>8, <2>1, <3>3 DEF Flow
  <2>2. CASE j # i
    <3>1. InHand(j, x)
      BY <1>1, <1>4, <2>2, HandOfOthers
    <3>2. Flow(j, x)
      BY <1>3, <3>1 DEF SessionsAreOrderly
    <3> QED
      BY <1>1, <2>2, <3>2 DEF Flow
  <2> QED
    BY <2>1, <2>2
<1>16. FirstIsNotSkipped'
  <2> SUFFICES ASSUME NEW v \in Threads PROVE SkipsNothing(v, thread[v])'
    BY <1>2 DEF FirstIsNotSkipped
  <2>1. CASE v = w
    BY <1>1, <1>5, <2>1 DEF SkipsNothing, ending
  <2>2. CASE v # w
    <3>1. SkipsNothing(v, thread[v])
      BY <1>3 DEF FirstIsNotSkipped
    <3>2. thread[v].id # NoItem => thread[v].id \in 1 .. Len(sessions) /\ thread[v].id # i
      BY <1>3, <1>4, <2>2 DEF WorkerTypes, WorkerIsSound, OneToken, ThreadsHaveTokens
    <3> QED
      BY <1>1, <1>5, <2>2, <3>1, <3>2 DEF SkipsNothing, ending
  <2> QED
    BY <2>1, <2>2
<1> QED
  BY <1>9, <1>11, <1>12, <1>13, <1>14, <1>15, <1>16 DEF IInv

\* What is known of a thread that has a session.
LEMMA HolderIs ==
    ASSUME IInv, NEW w \in Threads, thread[w].at \notin {"gone", "wait"}
    PROVE  /\ thread[w] \in WorkerRecords /\ WorkerIsSound(thread[w])
           /\ thread[w].id # NoItem /\ thread[w].id \in 1 .. Len(sessions)
           /\ sessions[thread[w].id] \in SessionRecords
           /\ Flow(thread[w].id, thread[w].item) /\ SkipsNothing(w, thread[w])
<1>1. /\ thread[w] \in WorkerRecords /\ WorkerIsSound(thread[w]) /\ OneToken /\ QueueTypes
      /\ SessionsAreOrderly /\ SkipsNothing(w, thread[w])
  BY DEF IInv, Types, WorkerTypes, FirstIsNotSkipped
<1>2. thread[w].id # NoItem /\ thread[w].id \in 1 .. Len(sessions)
  BY <1>1 DEF WorkerIsSound
<1>3. InHand(thread[w].id, thread[w].item)
  BY DEF InHand
<1> QED
  BY <1>1, <1>2, <1>3, SessionIs DEF SessionsAreOrderly

LEMMA NextEventKeeps ==
    ASSUME ExtendersAssumption, IInv, NEW w \in Threads, NextEvent(w)
    PROVE  IInv'
<1> DEFINE i == thread[w].id
           s == sessions[i]
<1>1. /\ thread[w] \in WorkerRecords /\ WorkerIsSound(thread[w]) /\ i # NoItem
      /\ i \in 1 .. Len(sessions) /\ s \in SessionRecords
      /\ Flow(i, thread[w].item) /\ SkipsNothing(w, thread[w])
  BY HolderIs DEF NextEvent
<1>2. /\ sessions \in Seq(SessionRecords) /\ heard \in Seq(Seq(Items)) /\ Len(heard) = Len(sessions)
      /\ PeerTypes
  BY DEF IInv, Types, QueueTypes
<1>3. UNCHANGED <<managerVars, peer, calling, known, queue, dropped, setting, spent>> /\ heard' = heard
  BY DEF NextEvent, KeepOthers
<1>4. thread[w].at = "events" /\ thread[w].item = NoItem
  BY <1>1 DEF NextEvent, WorkerIsSound
<1>5. Orderly(heard[i], NoItem, s.events, s.messages, s.connected, spent.messages, calling[s.peer])
  BY <1>1, <1>4 DEF Flow
<1>6. CASE More(w) /\ s.events # <<>>
  <2> DEFINE r == [thread[w] EXCEPT !.at = "event", !.num = @ + 1, !.item = Head(s.events)]
             t == [s EXCEPT !.events = Tail(@)]
  <2>1. thread' = [thread EXCEPT ![w] = r] /\ sessions' = [sessions EXCEPT ![i] = t]
    BY <1>6 DEF NextEvent, ToStep, Session
  <2>2. Head(s.events) \in Events /\ Tail(s.events) \in Seq(Events)
    BY <1>1, <1>6, TailIs DEF SessionRecords
  <2>3. /\ t \in SessionRecords /\ t.peer = s.peer /\ t.pool = s.pool /\ t.connected = s.connected
        /\ t.inQueue = s.inQueue /\ t.events = Tail(s.events) /\ t.messages = s.messages
    BY <1>1, <2>2 DEF SessionRecords
  <2>4. /\ r \in WorkerRecords /\ r.id = i /\ r.at = "event" /\ r.item = Head(s.events)
    <3>1. thread[w].num + 1 \in Nat /\ "event" \in Places /\ Head(s.events) \in Items
      BY <1>1, <2>2 DEF WorkerRecords, Items, Places
    <3> QED
      BY <1>1, <3>1 DEF WorkerRecords
  <2> HIDE DEF r, t
  <2>5. WorkerIsSound(r) /\ r.item # NoItem
    BY <1>1, <2>2, <2>4, ItemsAre DEF WorkerIsSound
  <2>6. /\ sessions' \in Seq(SessionRecords) /\ Len(sessions') = Len(sessions) /\ sessions'[i] = t
        /\ \A j \in 1 .. Len(sessions) : j # i => sessions'[j] = sessions[j]
    BY <1>1, <1>2, <2>1, <2>3, ExceptSeq
  <2>7. Orderly(heard[i], r.item, t.events, t.messages, s.connected, spent.messages, calling[s.peer])
    BY <1>5, <1>6, <2>3, <2>4, FlowTakesEvent, ZenonT(60)
  <2>8. /\ sessions'[i].peer = sessions[i].peer /\ sessions'[i].pool = sessions[i].pool
        /\ sessions'[i].connected = sessions[i].connected
        /\ sessions'[i].inQueue = sessions[i].inQueue
        /\ Orderly(heard'[i], r.item, sessions'[i].events, sessions'[i].messages,
                   sessions[i].connected, spent.messages, calling[sessions[i].peer])
    BY <1>3, <2>3, <2>6, <2>7
  <2> QED
    BY <1>1, <1>2, <1>3, <2>1, <2>4, <2>5, <2>6, <2>8, HolderKeeps, ZenonT(60)
<1>7. CASE ~(More(w) /\ s.events # <<>>)
  <2> DEFINE r == [thread[w] EXCEPT !.at = "messages"]
  <2>1. thread' = [thread EXCEPT ![w] = r] /\ sessions' = sessions
    BY <1>7 DEF NextEvent, ToStep, Session
  <2>2. /\ r \in WorkerRecords /\ r.id = i /\ r.at = "messages" /\ r.item = NoItem
        /\ r.num = thread[w].num
    BY <1>1, <1>4 DEF WorkerRecords, Places
  <2> HIDE DEF r
  <2>3. WorkerIsSound(r)
    BY <1>1, <2>2 DEF WorkerIsSound
  <2>4. ASSUME heard[i] = <<>> PROVE r.num = 0 /\ ending(w)
    <3>1. thread[w].num = 0
      BY <1>1, <1>4, <2>4 DEF SkipsNothing, ending
    <3>2. s.events # <<>>
      BY <1>5, <2>4 DEF Orderly, Begins
    <3> QED
      BY <1>7, <2>2, <3>1, <3>2 DEF More, ending, ExtendersAssumption
  <2> QED
    BY <1>1, <1>2, <1>3, <1>5, <2>1, <2>2, <2>3, <2>4, HolderKeeps, ZenonT(60)
<1> QED
  BY <1>6, <1>7

LEMMA NextMessageKeeps ==
    ASSUME ExtendersAssumption, IInv, NEW w \in Threads, NextMessage(w)
    PROVE  IInv'
<1> DEFINE i == thread[w].id
           s == sessions[i]
<1>1. /\ thread[w] \in WorkerRecords /\ WorkerIsSound(thread[w]) /\ i # NoItem
      /\ i \in 1 .. Len(sessions) /\ s \in SessionRecords
      /\ Flow(i, thread[w].item) /\ SkipsNothing(w, thread[w])
  BY HolderIs DEF NextMessage
<1>2. /\ sessions \in Seq(SessionRecords) /\ heard \in Seq(Seq(Items)) /\ Len(heard) = Len(sessions)
      /\ PeerTypes
  BY DEF IInv, Types, QueueTypes
<1>3. UNCHANGED <<managerVars, peer, calling, known, queue, dropped, setting, spent>> /\ heard' = heard
  BY DEF NextMessage, KeepOthers
<1>4. thread[w].at = "messages" /\ thread[w].item = NoItem
  BY <1>1 DEF NextMessage, WorkerIsSound
<1>5. Orderly(heard[i], NoItem, s.events, s.messages, s.connected, spent.messages, calling[s.peer])
  BY <1>1, <1>4 DEF Flow
<1>6. heard[i] = <<>> => thread[w].num = 0 /\ ending(w)
  BY <1>1, <1>4 DEF SkipsNothing, ending
<1>7. CASE More(w) /\ s.messages # <<>> /\ s.connected
  <2> DEFINE r == [thread[w] EXCEPT !.at = "message", !.num = @ + 1, !.item = Head(s.messages)]
             t == [s EXCEPT !.messages = Tail(@)]
  <2>1. thread' = [thread EXCEPT ![w] = r] /\ sessions' = [sessions EXCEPT ![i] = t]
    BY <1>7 DEF NextMessage, ToStep, Session
  <2>2. Head(s.messages) \in Msgs /\ Tail(s.messages) \in Seq(Msgs)
    BY <1>1, <1>7, TailIs DEF SessionRecords
  <2>3. /\ t \in SessionRecords /\ t.peer = s.peer /\ t.pool = s.pool /\ t.connected = s.connected
        /\ t.inQueue = s.inQueue /\ t.events = s.events /\ t.messages = Tail(s.messages)
    BY <1>1, <2>2 DEF SessionRecords
  <2>4. /\ r \in WorkerRecords /\ r.id = i /\ r.at = "message" /\ r.item = Head(s.messages)
    <3>1. thread[w].num + 1 \in Nat /\ "message" \in Places /\ Head(s.messages) \in Items
      BY <1>1, <2>2 DEF WorkerRecords, Items, Places
    <3> QED
      BY <1>1, <3>1 DEF WorkerRecords
  <2> HIDE DEF r, t
  <2>5. WorkerIsSound(r) /\ r.item # NoItem
    BY <1>1, <2>2, <2>4, ItemsAre DEF WorkerIsSound
  <2>6. /\ sessions' \in Seq(SessionRecords) /\ Len(sessions') = Len(sessions) /\ sessions'[i] = t
        /\ \A j \in 1 .. Len(sessions) : j # i => sessions'[j] = sessions[j]
    BY <1>1, <1>2, <2>1, <2>3, ExceptSeq
  <2>7. heard[i] # <<>> /\ s.connected = TRUE
    BY <1>1, <1>6, <1>7 DEF More, ending, SessionRecords
  <2>8. Orderly(heard[i], r.item, t.events, t.messages, s.connected, spent.messages, calling[s.peer])
    BY <1>5, <1>7, <2>3, <2>4, <2>7, FlowTakesMessage, ZenonT(60)
  <2>9. /\ sessions'[i].peer = sessions[i].peer /\ sessions'[i].pool = sessions[i].pool
        /\ sessions'[i].connected = sessions[i].connected
        /\ sessions'[i].inQueue = sessions[i].inQueue
        /\ Orderly(heard'[i], r.item, sessions'[i].events, sessions'[i].messages,
                   sessions[i].connected, spent.messages, calling[sessions[i].peer])
    BY <1>3, <2>3, <2>6, <2>8
  <2> QED
    BY <1>1, <1>2, <1>3, <2>1, <2>4, <2>5, <2>6, <2>9, HolderKeeps, ZenonT(60)
<1>8. CASE ~(More(w) /\ s.messages # <<>> /\ s.connected)
  <2> DEFINE r == [thread[w] EXCEPT !.at = "requeue"]
  <2>1. thread' = [thread EXCEPT ![w] = r] /\ sessions' = sessions
    BY <1>8 DEF NextMessage, ToStep, Session
  <2>2. /\ r \in WorkerRecords /\ r.id = i /\ r.at = "requeue" /\ r.item = NoItem
        /\ r.num = thread[w].num
    BY <1>1, <1>4 DEF WorkerRecords, Places
  <2> HIDE DEF r
  <2>3. WorkerIsSound(r)
    BY <1>1, <2>2 DEF WorkerIsSound
  <2> QED
    BY <1>1, <1>2, <1>3, <1>5, <1>6, <2>1, <2>2, <2>3, HolderKeeps, ZenonT(60)
<1> QED
  BY <1>7, <1>8

LEMMA HandleKeeps ==
    ASSUME ExtendersAssumption, IInv, NEW w \in Threads, NEW next \in Places,
           thread[w].at \in {"event", "message"}, next \in {"events", "messages", "unhandled"},
           Handle(w, next)
    PROVE  IInv'
<1> DEFINE i == thread[w].id
           s == sessions[i]
           x == thread[w].item
           h == Append(heard[i], x)
           r == [thread[w] EXCEPT !.at = next, !.item = NoItem]
<1>1. /\ thread[w] \in WorkerRecords /\ WorkerIsSound(thread[w]) /\ i # NoItem
      /\ i \in 1 .. Len(sessions) /\ s \in SessionRecords /\ Flow(i, x)
  BY HolderIs
<1>2. /\ sessions \in Seq(SessionRecords) /\ heard \in Seq(Seq(Items)) /\ Len(heard) = Len(sessions)
      /\ PeerTypes
  BY DEF IInv, Types, QueueTypes
<1>3. /\ UNCHANGED <<managerVars, peer, calling, known, queue, dropped, setting, spent>>
      /\ sessions' = sessions /\ heard' = [heard EXCEPT ![i] = h]
      /\ thread' = [thread EXCEPT ![w] = r]
  BY DEF Handle, ToStep, KeepOthers
<1>4. x \in Items
  BY <1>1 DEF WorkerIsSound, Items
<1>5. Orderly(heard[i], x, s.events, s.messages, s.connected, spent.messages, calling[s.peer])
  BY <1>1 DEF Flow
<1>6. h \in Seq(Items)
  BY <1>4, <1>5, AppendIs DEF Orderly, FlowTypes
<1>7. Orderly(h, NoItem, s.events, s.messages, s.connected, spent.messages, calling[s.peer])
      /\ h # <<>>
  BY <1>4, <1>5, FlowIsHeard, ZenonT(60)
<1>8. r \in WorkerRecords /\ r.id = i /\ r.at = next /\ r.item = NoItem
  BY <1>1 DEF WorkerRecords
<1> HIDE DEF r, h
<1>9. WorkerIsSound(r)
  BY <1>1, <1>8 DEF WorkerIsSound
<1>10. /\ heard' \in Seq(Seq(Items)) /\ Len(heard') = Len(heard) /\ heard'[i] = h
       /\ \A j \in 1 .. Len(sessions) : j # i => heard'[j] = heard[j]
  BY <1>1, <1>2, <1>3, <1>6, ExceptSeq
<1> QED
  BY <1>1, <1>2, <1>3, <1>7, <1>8, <1>9, <1>10, HolderKeeps, ZenonT(60)

LEMMA ReportKeeps ==
    ASSUME ExtendersAssumption, IInv, NEW w \in Threads, ReportUnhandled(w)
    PROVE  IInv'
<1> DEFINE i == thread[w].id
           s == sessions[i]
           r == [thread[w] EXCEPT !.at = "requeue"]
<1>1. /\ thread[w] \in WorkerRecords /\ WorkerIsSound(thread[w]) /\ i # NoItem
      /\ i \in 1 .. Len(sessions) /\ s \in SessionRecords
      /\ Flow(i, thread[w].item) /\ SkipsNothing(w, thread[w])
  BY HolderIs DEF ReportUnhandled
<1>2. /\ sessions \in Seq(SessionRecords) /\ heard \in Seq(Seq(Items)) /\ Len(heard) = Len(sessions)
  BY DEF IInv, Types, QueueTypes
<1>3. /\ UNCHANGED <<managerVars, peer, calling, known, queue, dropped, setting, spent>>
      /\ sessions' = sessions /\ heard' = heard /\ thread' = [thread EXCEPT ![w] = r]
  BY DEF ReportUnhandled, ToStep, KeepOthers
<1>4. thread[w].at = "unhandled" /\ thread[w].item = NoItem
  BY <1>1 DEF ReportUnhandled, WorkerIsSound
<1>5. Orderly(heard[i], NoItem, s.events, s.messages, s.connected, spent.messages, calling[s.peer])
      /\ heard[i] # <<>>
  BY <1>1, <1>4 DEF Flow, SkipsNothing, ending
<1>6. r \in WorkerRecords /\ r.id = i /\ r.at = "requeue" /\ r.item = NoItem
  BY <1>1, <1>4 DEF WorkerRecords, Places
<1> HIDE DEF r
<1>7. WorkerIsSound(r)
  BY <1>1, <1>6 DEF WorkerIsSound
<1> QED
  BY <1>1, <1>2, <1>3, <1>5, <1>6, <1>7, HolderKeeps, ZenonT(60)

-----------------------------------------------------------------------------
(* Sessions between the queues and the threads.                            *)

LEMMA QueuedIs ==
    ASSUME QueueTypes, NEW k \in Pools, NEW j \in 1 .. Len(queue[k])
    PROVE  /\ queue[k] \in Seq(1 .. Len(sessions)) /\ Len(queue[k]) \in Nat
           /\ queue[k][j] \in 1 .. Len(sessions)
<1>1. queue[k] \in Seq(1 .. Len(sessions))
  BY DEF QueueTypes
<1> QED
  BY <1>1, ElementOfSeq, EmptyIs

\* A thread that has nothing in hand takes a session, or gives up the one it has.
LEMMA PassStep ==
    ASSUME ExtendersAssumption, IInv, NEW w \in Threads, NEW r \in WorkerRecords,
           thread' = [thread EXCEPT ![w] = r], WorkerIsSound(r),
           r.item = NoItem, thread[w].item = NoItem, thread[w].at # "gone",
           r.id # NoItem => ~Held(r.id),
           SkipsNothing(w, r), heard' = heard,
           UNCHANGED <<managerVars, peer, calling, known, dropped, setting, spent>>,
           sessions' \in Seq(SessionRecords), Len(sessions') = Len(sessions),
           \A j \in 1 .. Len(sessions) :
               /\ sessions'[j].peer = sessions[j].peer
               /\ sessions'[j].connected = sessions[j].connected
               /\ sessions'[j].events = sessions[j].events
               /\ sessions'[j].messages = sessions[j].messages,
           queue' \in [Pools -> Seq(1 .. Len(sessions))],
           OneToken'
    PROVE  IInv'
<1>1. UNCHANGED <<managerVars, status, step, ended, left, peer, calling, known, dropped, setting, spent>>
  BY DEF managerVars
<1>2. Pools' = Pools /\ Threads' = Threads /\ SessionRecords' = SessionRecords
  BY <1>1, PoolsStay
<1>3. Types /\ SessionsAreOrderly /\ FirstIsNotSkipped /\ CallsHaveCome
      /\ NothingWithoutPools /\ KnownIsConnected /\ StepFollowsStatus
  BY DEF IInv
<1>4. ManagerTypes /\ PeerTypes /\ QueueTypes /\ WorkerTypes
  BY <1>3 DEF Types
<1>5. thread'[w] = r /\ \A v \in Threads : v # w => thread'[v] = thread[v]
  BY <1>4 DEF WorkerTypes
<1>6. Types'
  <2>1. ManagerTypes' /\ PeerTypes'
    BY <1>1, <1>4 DEF ManagerTypes, PeerTypes, managerVars
  <2>2. QueueTypes'
    BY <1>1, <1>2, <1>4 DEF QueueTypes
  <2>3. thread' \in [Threads -> WorkerRecords]
    BY <1>4 DEF WorkerTypes
  <2>4. \A v \in Threads : WorkerIsSound(thread'[v])
    BY <1>4, <1>5 DEF WorkerTypes
  <2>5. WorkerTypes'
    BY <1>2, <2>3, <2>4 DEF WorkerTypes, WorkerIsSound
  <2> QED
    BY <2>1, <2>2, <2>5 DEF Types
<1>7. NothingWithoutPools'
  BY <1>1, <1>3 DEF NothingWithoutPools, HasPools
<1>8. StepFollowsStatus' /\ CallsHaveCome'
  BY <1>1, <1>3 DEF StepFollowsStatus, CallsHaveCome
<1>9. KnownIsConnected'
  <2> SUFFICES ASSUME NEW p \in Peers, known[p] # NoItem
               PROVE  sessions'[known[p]].connected /\ sessions'[known[p]].peer = p
    BY <1>1 DEF KnownIsConnected
  <2>1. known[p] \in 1 .. Len(sessions)
    BY <1>4 DEF QueueTypes
  <2>2. sessions[known[p]].connected /\ sessions[known[p]].peer = p
    BY <1>3 DEF KnownIsConnected
  <2> QED
    BY <2>1, <2>2
<1>10. SessionsAreOrderly'
  <2> SUFFICES ASSUME NEW j \in 1 .. Len(sessions), NEW x, InHand(j, x)' PROVE Flow(j, x)'
    BY DEF SessionsAreOrderly
  <2>1. CASE \E v \in Threads : thread'[v].id = j /\ thread'[v].item = x
    <3>1. PICK v \in Threads : thread'[v].id = j /\ thread'[v].item = x
      BY <2>1
    <3>2. InHand(j, x)
      <4>1. CASE v = w
        <5>1. r.id = j /\ x = NoItem
          BY <1>5, <3>1, <4>1
        <5>2. j # NoItem
          BY <1>4, EmptyIs DEF QueueTypes, ExtendersAssumption
        <5> QED
          BY <5>1, <5>2 DEF InHand
      <4>2. CASE v # w
        BY <1>5, <3>1, <4>2 DEF InHand
      <4> QED
        BY <4>1, <4>2
    <3>3. Flow(j, x)
      BY <1>3, <3>2 DEF SessionsAreOrderly
    <3> QED
      BY <1>1, <3>3 DEF Flow
  <2>2. CASE x = NoItem /\ \A v \in Threads : thread'[v].id # j
    <3>1. InHand(j, x)
      BY <1>5, <2>2 DEF InHand, Held
    <3>2. Flow(j, x)
      BY <1>3, <3>1 DEF SessionsAreOrderly
    <3> QED
      BY <1>1, <3>2 DEF Flow
  <2> QED
    BY <1>2, <2>1, <2>2 DEF InHand, Held
<1>11. FirstIsNotSkipped'
  <2> SUFFICES ASSUME NEW v \in Threads PROVE SkipsNothing(v, thread[v])'
    BY <1>2 DEF FirstIsNotSkipped
  <2> QED
    BY <1>1, <1>3, <1>5 DEF SkipsNothing, ending, FirstIsNotSkipped
<1> QED
  BY <1>6, <1>7, <1>8, <1>9, <1>10, <1>11 DEF IInv

LEMMA ExitKeeps ==
    ASSUME ExtendersAssumption, IInv, NEW w \in Threads, ThreadExits(w)
    PROVE  IInv'
<1> DEFINE r == NoWork("gone")
<1>1. /\ QueueTypes /\ WorkerTypes /\ OneToken /\ thread[w] \in WorkerRecords
      /\ WorkerIsSound(thread[w])
  BY DEF IInv, Types, WorkerTypes
<1>2. /\ thread' = [thread EXCEPT ![w] = r] /\ thread[w].at = "wait"
      /\ UNCHANGED <<managerVars, peer, calling, known, dropped, setting, spent, sessions, queue,
                     heard>>
  BY DEF ThreadExits, ToStep, KeepOthers
<1>3. /\ r \in WorkerRecords /\ r.id = NoItem /\ r.item = NoItem /\ WorkerIsSound(r) /\ SkipsNothing(w, r)
  BY DEF NoWork, WorkerRecords, Places, WorkerIsSound, SkipsNothing, ending
<1> HIDE DEF r
<1>4. thread[w].id = NoItem /\ thread[w].item = NoItem
  BY <1>1, <1>2 DEF WorkerIsSound
<1>5. \A v \in Threads : thread'[v].id = thread[v].id
  BY <1>1, <1>2, <1>3, <1>4 DEF WorkerTypes
<1>6. Pools' = Pools /\ Threads' = Threads
  BY <1>2, PoolsStay
<1>7. OneToken'
  BY <1>1, <1>2, <1>5, <1>6 DEF OneToken, QueueHasTokens, ThreadsHaveTokens, Held
<1>8. sessions' \in Seq(SessionRecords) /\ queue' \in [Pools -> Seq(1 .. Len(sessions))]
  BY <1>1, <1>2 DEF QueueTypes
<1> QED
  BY <1>2, <1>3, <1>4, <1>7, <1>8, PassStep, ZenonT(60)

LEMMA TakeKeeps ==
    ASSUME ExtendersAssumption, IInv, NEW w \in Threads, TakeSession(w)
    PROVE  IInv'
<1> DEFINE k == w[1]
           i == Head(queue[k])
           r == [at |-> "events", id |-> i, num |-> 0, item |-> NoItem]
           q == Tail(queue[k])
<1>1. /\ QueueTypes /\ WorkerTypes /\ OneToken /\ thread[w] \in WorkerRecords
      /\ WorkerIsSound(thread[w])
  BY DEF IInv, Types, WorkerTypes
<1>2. k \in Pools
  BY DEF Pools, Threads
<1>3. /\ thread' = [thread EXCEPT ![w] = r] /\ thread[w].at = "wait" /\ queue[k] # <<>>
      /\ queue' = [queue EXCEPT ![k] = q]
      /\ UNCHANGED <<managerVars, peer, calling, known, dropped, setting, spent, sessions, heard>>
  BY DEF TakeSession, ToStep, KeepOthers
<1>4. /\ queue[k] \in Seq(1 .. Len(sessions)) /\ Len(queue[k]) \in Nat /\ Len(queue[k]) >= 1
      /\ i \in 1 .. Len(sessions) /\ i = queue[k][1]
      /\ q \in Seq(1 .. Len(sessions)) /\ Len(q) = Len(queue[k]) - 1
      /\ \A j \in 1 .. Len(queue[k]) - 1 : q[j] = queue[k][j + 1]
  <2>1. queue[k] \in Seq(1 .. Len(sessions))
    BY <1>1, <1>2 DEF QueueTypes
  <2> QED
    BY <1>3, <2>1, TailIs
<1> HIDE DEF i, q
<1>5. Len(sessions) \in Nat /\ i \in Nat /\ i # NoItem
  <2>1. Len(sessions) \in Nat
    BY <1>1, EmptyIs DEF QueueTypes
  <2> QED
    BY <1>4, <2>1 DEF ExtendersAssumption
<1>6. /\ r \in WorkerRecords /\ r.id = i /\ r.item = NoItem /\ r.num = 0 /\ r.at = "events"
  BY <1>5 DEF WorkerRecords, Places
<1> HIDE DEF r
<1>7. WorkerIsSound(r) /\ SkipsNothing(w, r)
  BY <1>4, <1>5, <1>6 DEF WorkerIsSound, SkipsNothing, ending
<1>8. thread[w].id = NoItem /\ thread[w].item = NoItem
  BY <1>1, <1>3 DEF WorkerIsSound
<1>9. /\ sessions[i].inQueue /\ sessions[i].pool = k /\ ~Held(i)
      /\ \A l \in 1 .. Len(queue[k]) : queue[k][l] = i => l = 1
  <2>1. 1 \in 1 .. Len(queue[k])
    BY <1>4
  <2> QED
    BY <1>1, <1>2, <1>4, <2>1 DEF OneToken, QueueHasTokens
<1>10. Pools' = Pools /\ Threads' = Threads
  BY <1>3, PoolsStay
<1>11. queue' \in [Pools -> Seq(1 .. Len(sessions))] /\ queue'[k] = q
       /\ \A o \in Pools : o # k => queue'[o] = queue[o]
  BY <1>1, <1>2, <1>3, <1>4 DEF QueueTypes
<1>12. thread'[w] = r /\ \A v \in Threads : v # w => thread'[v] = thread[v]
  BY <1>1, <1>3 DEF WorkerTypes
<1>13. \A e : e # i /\ ~Held(e) => \A v \in Threads : thread'[v].id # e
  BY <1>6, <1>10, <1>12 DEF Held
<1>14. QueueHasTokens'
  <2> SUFFICES ASSUME NEW o \in Pools, NEW j \in 1 .. Len(queue'[o])
               PROVE  /\ sessions[queue'[o][j]].inQueue /\ sessions[queue'[o][j]].pool = o
                      /\ \A v \in Threads : thread'[v].id # queue'[o][j]
                      /\ \A l \in 1 .. Len(queue'[o]) : queue'[o][l] = queue'[o][j] => l = j
    BY <1>3, <1>10 DEF QueueHasTokens, Held
  <2>1. CASE o = k
    <3>1. ASSUME NEW l \in 1 .. Len(q) PROVE l + 1 \in 1 .. Len(queue[k]) /\ q[l] = queue[k][l + 1]
      <4>1. Len(queue[k]) \in Nat
        BY <1>1, <1>2, EmptyIs DEF QueueTypes
      <4>2. l \in 1 .. Len(queue[k]) - 1
        BY <1>4
      <4>3. l + 1 \in 1 .. Len(queue[k])
        BY <4>1, <4>2
      <4>4. q[l] = queue[k][l + 1]
        BY <1>4, <4>2
      <4> QED
        BY <4>3, <4>4
    <3>2. j \in 1 .. Len(q) /\ queue'[o] = q
      BY <1>11, <2>1
    <3>3. /\ sessions[q[j]].inQueue /\ sessions[q[j]].pool = k /\ ~Held(q[j])
          /\ \A l \in 1 .. Len(queue[k]) : queue[k][l] = q[j] => l = j + 1
      BY <1>1, <1>2, <3>1, <3>2 DEF OneToken, QueueHasTokens
    <3>4. q[j] # i
      <4>1. j + 1 # 1
        BY <1>4, <3>2
      <4> QED
        BY <1>9, <3>1, <3>2, <4>1
    <3>5. ASSUME NEW l \in 1 .. Len(q), q[l] = q[j] PROVE l = j
      <4>1. l + 1 = j + 1
        BY <3>1, <3>3, <3>5
      <4> QED
        BY <1>4, <3>2, <4>1
    <3> QED
      BY <1>13, <2>1, <3>2, <3>3, <3>4, <3>5
  <2>2. CASE o # k
    <3>1. queue'[o] = queue[o]
      BY <1>11, <2>2
    <3>2. /\ sessions[queue[o][j]].inQueue /\ sessions[queue[o][j]].pool = o
          /\ ~Held(queue[o][j])
          /\ \A l \in 1 .. Len(queue[o]) : queue[o][l] = queue[o][j] => l = j
      BY <1>1, <3>1 DEF OneToken, QueueHasTokens
    <3> QED
      BY <1>9, <1>13, <2>2, <3>1, <3>2
  <2> QED
    BY <2>1, <2>2
<1>15. ThreadsHaveTokens'
  <2>1. \A v \in Threads : thread[v].id # i
    BY <1>9 DEF Held
  <2> SUFFICES ASSUME NEW v \in Threads, thread'[v].id # NoItem
               PROVE  /\ sessions[thread'[v].id].inQueue /\ sessions[thread'[v].id].pool = v[1]
                      /\ \A u \in Threads : thread'[u].id = thread'[v].id => u = v
    BY <1>3, <1>10 DEF ThreadsHaveTokens
  <2>2. CASE v = w
    BY <1>6, <1>9, <1>12, <2>1, <2>2
  <2>3. CASE v # w
    BY <1>1, <1>6, <1>12, <2>1, <2>3 DEF OneToken, ThreadsHaveTokens
  <2> QED
    BY <2>2, <2>3
<1>16. OneToken'
  BY <1>14, <1>15 DEF OneToken
<1>17. sessions' \in Seq(SessionRecords)
  BY <1>1, <1>3 DEF QueueTypes
<1> QED
  BY <1>3, <1>6, <1>7, <1>8, <1>9, <1>11, <1>16, <1>17, PassStep, ZenonT(60)

NotQueued(i) == \A k \in Pools : \A l \in 1 .. Len(queue[k]) : queue[k][l] # i

\* A session that is with a thread, or is not marked, is in no queue.
LEMMA IsNotQueued ==
    ASSUME OneToken, NEW i, Held(i) \/ ~sessions[i].inQueue
    PROVE  NotQueued(i)
BY DEF OneToken, QueueHasTokens, NotQueued

\* A session is neither put in a queue nor taken by a thread.
LEMMA TokensStay ==
    ASSUME ExtendersAssumption, QueueTypes, WorkerTypes, OneToken, setting' = setting,
           queue' = queue,
           \A v \in Threads : thread'[v].id # NoItem => thread'[v].id = thread[v].id,
           \A j \in 1 .. Len(sessions) :
               \/ sessions'[j].inQueue = sessions[j].inQueue /\ sessions'[j].pool = sessions[j].pool
               \/ NotQueued(j) /\ \A v \in Threads : thread'[v].id # j
    PROVE  OneToken'
<1>1. Pools' = Pools /\ Threads' = Threads
  BY PoolsStay
<1>2. QueueHasTokens'
  <2> SUFFICES ASSUME NEW o \in Pools, NEW j \in 1 .. Len(queue[o])
               PROVE  /\ sessions'[queue[o][j]].inQueue /\ sessions'[queue[o][j]].pool = o
                      /\ \A v \in Threads : thread'[v].id # queue[o][j]
                      /\ \A l \in 1 .. Len(queue[o]) : queue[o][l] = queue[o][j] => l = j
    BY <1>1 DEF QueueHasTokens, Held
  <2> DEFINE e == queue[o][j]
  <2>1. /\ sessions[e].inQueue /\ sessions[e].pool = o /\ ~Held(e)
        /\ \A l \in 1 .. Len(queue[o]) : queue[o][l] = e => l = j
    BY DEF OneToken, QueueHasTokens
  <2>2. e \in 1 .. Len(sessions)
    BY QueuedIs
  <2>3. ~NotQueued(e)
    BY DEF NotQueued
  <2>4. sessions'[e].inQueue /\ sessions'[e].pool = o
    BY <2>1, <2>2, <2>3
  <2>5. ASSUME NEW v \in Threads, thread'[v].id = e PROVE FALSE
    <3>1. e # NoItem
      BY <2>2, EmptyIs DEF QueueTypes, ExtendersAssumption
    <3> QED
      BY <2>1, <2>5, <3>1 DEF Held
  <2> QED
    BY <2>1, <2>4, <2>5
<1>3. ThreadsHaveTokens'
  <2> SUFFICES ASSUME NEW v \in Threads, thread'[v].id # NoItem
               PROVE  /\ sessions'[thread'[v].id].inQueue /\ sessions'[thread'[v].id].pool = v[1]
                      /\ \A u \in Threads : thread'[u].id = thread'[v].id => u = v
    BY <1>1 DEF ThreadsHaveTokens
  <2>1. thread'[v].id = thread[v].id /\ thread[v].id \in 1 .. Len(sessions)
    BY DEF WorkerTypes, WorkerIsSound
  <2>2. /\ sessions[thread[v].id].inQueue /\ sessions[thread[v].id].pool = v[1]
        /\ \A u \in Threads : thread[u].id = thread[v].id => u = v
    BY <2>1 DEF OneToken, ThreadsHaveTokens
  <2> QED
    BY <2>1, <2>2
<1> QED
  BY <1>2, <1>3 DEF OneToken

\* A session that is neither in a queue nor with a thread is put in the queue of its pool.
LEMMA TokenAdded ==
    ASSUME ExtendersAssumption, QueueTypes, WorkerTypes, OneToken, setting' = setting,
           NEW k \in Pools, NEW i \in Nat, NotQueued(i), queue' = [queue EXCEPT ![k] = Append(@, i)],
           NEW n, queue[k] \in Seq(n), i \in n,
           \A v \in Threads : thread'[v].id # NoItem => thread'[v].id = thread[v].id,
           \A v \in Threads : thread'[v].id # i,
           sessions'[i].inQueue, sessions'[i].pool = k,
           \A j \in 1 .. Len(sessions) : j # i =>
               sessions'[j].inQueue = sessions[j].inQueue /\ sessions'[j].pool = sessions[j].pool
    PROVE  OneToken'
<1>1. Pools' = Pools /\ Threads' = Threads
  BY PoolsStay
<1>2. Len(sessions) \in Nat
  BY EmptyIs DEF QueueTypes
<1> DEFINE q == Append(queue[k], i)
<1>3. /\ Len(queue[k]) \in Nat /\ Len(q) = Len(queue[k]) + 1 /\ q[Len(queue[k]) + 1] = i
      /\ \A j \in 1 .. Len(queue[k]) : q[j] = queue[k][j]
  BY AppendIs
<1> HIDE DEF q
<1>4. queue'[k] = q /\ \A o \in Pools : o # k => queue'[o] = queue[o]
  BY DEF QueueTypes, q
<1>5. ASSUME NEW o \in Pools, NEW j \in 1 .. Len(queue[o])
      PROVE  /\ queue[o][j] # i
             /\ sessions'[queue[o][j]].inQueue /\ sessions'[queue[o][j]].pool = o
             /\ \A v \in Threads : thread'[v].id # queue[o][j]
             /\ \A l \in 1 .. Len(queue[o]) : queue[o][l] = queue[o][j] => l = j
  <2> DEFINE e == queue[o][j]
  <2>1. /\ sessions[e].inQueue /\ sessions[e].pool = o /\ ~Held(e)
        /\ \A l \in 1 .. Len(queue[o]) : queue[o][l] = e => l = j
    BY DEF OneToken, QueueHasTokens
  <2>2. e \in 1 .. Len(sessions)
    BY QueuedIs
  <2>3. e # i /\ e # NoItem
    BY <1>2, <2>2 DEF NotQueued, ExtendersAssumption
  <2> HIDE DEF e
  <2>4. sessions'[e].inQueue /\ sessions'[e].pool = o
    BY <2>1, <2>2, <2>3
  <2>5. \A v \in Threads : thread'[v].id # e
    BY <2>1, <2>3 DEF Held
  <2> QED
    BY <2>1, <2>3, <2>4, <2>5 DEF e
<1>6. QueueHasTokens'
  <2> SUFFICES ASSUME NEW o \in Pools, NEW j \in 1 .. Len(queue'[o])
               PROVE  /\ sessions'[queue'[o][j]].inQueue /\ sessions'[queue'[o][j]].pool = o
                      /\ \A v \in Threads : thread'[v].id # queue'[o][j]
                      /\ \A l \in 1 .. Len(queue'[o]) : queue'[o][l] = queue'[o][j] => l = j
    BY <1>1 DEF QueueHasTokens, Held
  <2>1. CASE o # k
    BY <1>4, <1>5, <2>1
  <2>2. CASE o = k /\ j \in 1 .. Len(queue[k])
    <3>1. queue'[o] = q /\ q[j] = queue[k][j] /\ q[j] # i
      BY <1>3, <1>4, <1>5, <2>2
    <3>2. ASSUME NEW l \in 1 .. Len(q), q[l] = q[j] PROVE l = j
      <4>1. l # Len(queue[k]) + 1
        BY <1>3, <3>1, <3>2
      <4>2. l \in 1 .. Len(queue[k])
        BY <1>3, <4>1
      <4> QED
        BY <1>3, <1>5, <2>2, <3>1, <3>2, <4>2
    <3> QED
      BY <1>5, <2>2, <3>1, <3>2
  <2>3. CASE o = k /\ j \notin 1 .. Len(queue[k])
    <3>1. queue'[o] = q
      BY <1>4, <2>3
    <3>2. j = Len(queue[k]) + 1
      BY <1>3, <2>3, <3>1
    <3>3. q[j] = i
      BY <1>3, <3>2
    <3>4. ASSUME NEW l \in 1 .. Len(q), q[l] = i PROVE l = j
      <4>1. l \notin 1 .. Len(queue[k])
        BY <1>3, <1>5, <3>4
      <4> QED
        BY <1>3, <3>2, <4>1
    <3> QED
      BY <2>3, <3>1, <3>3, <3>4
  <2> QED
    BY <2>1, <2>2, <2>3
<1>7. ThreadsHaveTokens'
  <2> SUFFICES ASSUME NEW v \in Threads, thread'[v].id # NoItem
               PROVE  /\ sessions'[thread'[v].id].inQueue /\ sessions'[thread'[v].id].pool = v[1]
                      /\ \A u \in Threads : thread'[u].id = thread'[v].id => u = v
    BY <1>1 DEF ThreadsHaveTokens
  <2>1. thread'[v].id = thread[v].id /\ thread[v].id \in 1 .. Len(sessions) /\ thread[v].id # i
    BY DEF WorkerTypes, WorkerIsSound
  <2>2. /\ sessions[thread[v].id].inQueue /\ sessions[thread[v].id].pool = v[1]
        /\ \A u \in Threads : thread[u].id = thread[v].id => u = v
    BY <2>1 DEF OneToken, ThreadsHaveTokens
  <2> QED
    BY <2>1, <2>2
<1> QED
  BY <1>6, <1>7 DEF OneToken

LEMMA RequeueKeeps ==
    ASSUME ExtendersAssumption, IInv, NEW w \in Threads, Requeue(w)
    PROVE  IInv'
<1> DEFINE i == thread[w].id
           s == sessions[i]
           r == NoWork("wait")
           t == [s EXCEPT !.inQueue = IsUnfinished(s)]
<1>1. /\ thread[w] \in WorkerRecords /\ WorkerIsSound(thread[w]) /\ i # NoItem
      /\ i \in 1 .. Len(sessions) /\ s \in SessionRecords
  BY HolderIs DEF Requeue
<1>2. QueueTypes /\ WorkerTypes /\ OneToken
  BY DEF IInv, Types
<1>3. /\ thread' = [thread EXCEPT ![w] = r] /\ thread[w].at = "requeue" /\ heard' = heard
      /\ sessions' = [sessions EXCEPT ![i] = t]
      /\ queue' = IF IsUnfinished(s) THEN [queue EXCEPT ![w[1]] = Append(@, i)] ELSE queue
      /\ UNCHANGED <<managerVars, peer, calling, known, dropped, setting, spent>>
  BY DEF Requeue, ToStep, KeepOthers, Session
<1>4. /\ r \in WorkerRecords /\ r.id = NoItem /\ r.item = NoItem /\ WorkerIsSound(r) /\ SkipsNothing(w, r)
  BY DEF NoWork, WorkerRecords, Places, WorkerIsSound, SkipsNothing, ending
<1>5. thread[w].item = NoItem
  BY <1>1, <1>3 DEF WorkerIsSound
<1>6. IsUnfinished(s) \in BOOLEAN
  BY DEF IsUnfinished
<1>7. /\ t \in SessionRecords /\ t.peer = s.peer /\ t.pool = s.pool /\ t.connected = s.connected
      /\ t.events = s.events /\ t.messages = s.messages /\ t.inQueue = IsUnfinished(s)
  BY <1>1, <1>6 DEF SessionRecords
<1> HIDE DEF r, t
<1>8. /\ sessions' \in Seq(SessionRecords) /\ Len(sessions') = Len(sessions) /\ sessions'[i] = t
      /\ \A j \in 1 .. Len(sessions) : j # i => sessions'[j] = sessions[j]
  BY <1>1, <1>2, <1>3, <1>7, ExceptSeq DEF QueueTypes
<1>9. /\ \A v \in Threads : thread'[v].id # NoItem => thread'[v].id = thread[v].id
      /\ \A v \in Threads : thread'[v].id # i
  <2>1. thread'[w] = r /\ \A v \in Threads : v # w => thread'[v] = thread[v]
    BY <1>2, <1>3 DEF WorkerTypes
  <2>2. \A v \in Threads : thread[v].id = i => v = w
    BY <1>1, <1>2 DEF OneToken, ThreadsHaveTokens
  <2> QED
    BY <1>1, <1>4, <2>1, <2>2
<1>10. Held(i) /\ NotQueued(i)
  <2>1. Held(i)
    BY DEF Held
  <2> QED
    BY <1>2, <2>1, IsNotQueued
<1>11. s.pool = w[1] /\ w[1] \in Pools
  BY <1>1, <1>2 DEF OneToken, ThreadsHaveTokens, Pools, Threads
<1>12. queue[w[1]] \in Seq(1 .. Len(sessions)) /\ i \in Nat
  BY <1>1, <1>2, <1>11, EmptyIs DEF QueueTypes
<1>13. CASE IsUnfinished(s)
  <2>1. queue' = [queue EXCEPT ![w[1]] = Append(@, i)]
    BY <1>3, <1>13
  <2>2. sessions'[i].inQueue /\ sessions'[i].pool = w[1]
    BY <1>7, <1>8, <1>11, <1>13
  <2>3. OneToken'
    <3>1. \A j \in 1 .. Len(sessions) : j # i =>
              sessions'[j].inQueue = sessions[j].inQueue /\ sessions'[j].pool = sessions[j].pool
      BY <1>8
    <3>2. i \in 1 .. Len(sessions) /\ NotQueued(i) /\ w[1] \in Pools /\ setting' = setting
      BY <1>1, <1>3, <1>10, <1>11
    <3> HIDE DEF i, s
    <3> QED
      BY ONLY ExtendersAssumption, <1>2, <1>9, <1>12, <2>1, <2>2, <3>1, <3>2, TokenAdded, ZenonT(60)
  <2>4. Append(queue[w[1]], i) \in Seq(1 .. Len(sessions))
    BY <1>1, <1>12, AppendIs
  <2>5. queue' \in [Pools -> Seq(1 .. Len(sessions))]
    BY <1>2, <2>1, <2>4 DEF QueueTypes
  <2> QED
    BY <1>3, <1>4, <1>5, <1>7, <1>8, <2>3, <2>5, PassStep, ZenonT(60)
<1>14. CASE ~IsUnfinished(s)
  <2>1. queue' = queue
    BY <1>3, <1>14
  <2>2. OneToken'
    BY <1>2, <1>3, <1>8, <1>9, <1>10, <2>1, TokensStay, ZenonT(60)
  <2>3. queue' \in [Pools -> Seq(1 .. Len(sessions))]
    BY <1>2, <2>1 DEF QueueTypes
  <2> QED
    BY <1>3, <1>4, <1>5, <1>7, <1>8, <2>2, <2>3, PassStep, ZenonT(60)
<1> QED
  BY <1>13, <1>14

-----------------------------------------------------------------------------
(* A peer's event or message reaches its session.                          *)

\* What Enqueue makes of the session it is given.
Enqueued(all, i, y) ==
    /\ sessions' \in Seq(SessionRecords) /\ Len(sessions') = Len(all)
    /\ \A j \in 1 .. Len(all) : j # i => sessions'[j] = all[j]
    /\ sessions'[i].peer = all[i].peer /\ sessions'[i].pool = all[i].pool
    /\ sessions'[i].connected = all[i].connected /\ sessions'[i].inQueue = TRUE
    /\ sessions'[i].events = IF y \in Events THEN Append(all[i].events, y) ELSE all[i].events
    /\ sessions'[i].messages = IF y \in Events THEN all[i].messages
                               ELSE Append(all[i].messages, y)
    /\ queue' = IF all[i].inQueue THEN queue ELSE [queue EXCEPT ![all[i].pool] = Append(@, i)]

LEMMA EnqueueIs ==
    ASSUME ExtendersAssumption, NEW all \in Seq(SessionRecords), NEW i \in 1 .. Len(all),
           NEW y \in Items, Enqueue(all, i, y)
    PROVE  Enqueued(all, i, y)
<1> DEFINE s == IF y \in Events THEN [all[i] EXCEPT !.events = Append(@, y)]
                ELSE [all[i] EXCEPT !.messages = Append(@, y)]
           t == [s EXCEPT !.inQueue = TRUE]
<1>1. all[i] \in SessionRecords
  BY ElementOfSeq
<1>2. /\ s \in SessionRecords /\ s.peer = all[i].peer /\ s.pool = all[i].pool
      /\ s.connected = all[i].connected /\ s.inQueue = all[i].inQueue
      /\ s.events = IF y \in Events THEN Append(all[i].events, y) ELSE all[i].events
      /\ s.messages = IF y \in Events THEN all[i].messages ELSE Append(all[i].messages, y)
  <2>1. all[i].events \in Seq(Events) /\ all[i].messages \in Seq(Msgs)
    BY <1>1 DEF SessionRecords
  <2>2. CASE y \in Events
    <3>1. Append(all[i].events, y) \in Seq(Events)
      BY <2>1, <2>2, AppendIs
    <3> QED
      BY <1>1, <2>2, <3>1 DEF SessionRecords
  <2>3. CASE y \notin Events
    <3>1. Append(all[i].messages, y) \in Seq(Msgs)
      BY <2>1, <2>3, AppendIs DEF Items
    <3> QED
      BY <1>1, <2>3, <3>1 DEF SessionRecords
  <2> QED
    BY <2>2, <2>3
<1>3. /\ sessions' = [all EXCEPT ![i] = t]
      /\ queue' = IF s.inQueue THEN queue ELSE [queue EXCEPT ![s.pool] = Append(@, i)]
  BY DEF Enqueue
<1> HIDE DEF s
<1>4. /\ t \in SessionRecords /\ t.peer = s.peer /\ t.pool = s.pool /\ t.connected = s.connected
      /\ t.inQueue = TRUE /\ t.events = s.events /\ t.messages = s.messages
  BY <1>2 DEF SessionRecords
<1> HIDE DEF t
<1>5. /\ sessions' \in Seq(SessionRecords) /\ Len(sessions') = Len(all) /\ sessions'[i] = t
      /\ \A j \in 1 .. Len(all) : j # i => sessions'[j] = all[j]
  BY <1>3, <1>4, ExceptSeq
<1> QED
  BY <1>2, <1>3, <1>4, <1>5 DEF Enqueued

\* Whatever is told of one session: the flow of that one, and nothing of the others, changes,
\* but the peer has handed over.
LEMMA TellStep ==
    ASSUME ExtendersAssumption, IInv, NEW p \in Peers, calling' = [calling EXCEPT ![p] = NoItem],
           UNCHANGED <<status, step, ended, peer, thread, setting, spent>>, ManagerTypes', HasPools,
           QueueTypes', OneToken', KnownIsConnected',
           NEW i \in 1 .. Len(sessions'), Len(sessions) <= Len(sessions'),
           \A j \in 1 .. Len(sessions') : j # i =>
               /\ j \in 1 .. Len(sessions)
               /\ sessions'[j].peer = sessions[j].peer
               /\ sessions'[j].connected = sessions[j].connected
               /\ sessions'[j].events = sessions[j].events
               /\ sessions'[j].messages = sessions[j].messages
               /\ heard'[j] = heard[j],
           \A j \in 1 .. Len(sessions) : heard'[j] = heard[j],
           \A x : InHand(i, x) =>
               Orderly(heard'[i], x, sessions'[i].events, sessions'[i].messages,
                       sessions'[i].connected, spent.messages, calling'[sessions'[i].peer])
    PROVE  IInv'
<1>1. UNCHANGED <<status, step, ended, peer, thread, setting, spent>>
  OBVIOUS
<1>2. Pools' = Pools /\ Threads' = Threads /\ SessionRecords' = SessionRecords
  BY <1>1, PoolsStay
<1>3. Types /\ SessionsAreOrderly /\ FirstIsNotSkipped /\ CallsHaveCome /\ StepFollowsStatus
  BY DEF IInv
<1>4. ManagerTypes /\ PeerTypes /\ QueueTypes /\ WorkerTypes
  BY <1>3 DEF Types
<1>5. \A q \in Peers : calling'[q] = IF q = p THEN NoItem ELSE calling[q]
  BY <1>4 DEF PeerTypes
<1>6. Len(sessions) \in Nat /\ Len(sessions') \in Nat
  BY <1>4, EmptyIs DEF QueueTypes
<1>7. Types'
  <2>2. PeerTypes'
    BY <1>1, <1>4 DEF PeerTypes
  <2>3. ASSUME NEW w \in Threads PROVE WorkerIsSound(thread[w])'
    <3>1. WorkerIsSound(thread[w])
      BY <1>4 DEF WorkerTypes
    <3> QED
      BY <1>1, <1>6, <3>1 DEF WorkerIsSound
  <2>4. WorkerTypes'
    BY <1>1, <1>2, <1>4, <2>3 DEF WorkerTypes
  <2> QED
    BY <2>2, <2>4 DEF Types
<1>8. NothingWithoutPools' /\ StepFollowsStatus'
  BY <1>1, <1>3 DEF NothingWithoutPools, StepFollowsStatus, HasPools
<1>9. CallsHaveCome'
  <2>1. UpTo(NoItem, spent.messages)
    BY EventsAreNotOrdered
  <2> QED
    BY <1>1, <1>3, <1>5, <2>1 DEF CallsHaveCome
<1>10. FirstIsNotSkipped'
  <2> SUFFICES ASSUME NEW w \in Threads PROVE SkipsNothing(w, thread[w])'
    BY <1>2 DEF FirstIsNotSkipped
  <2>1. SkipsNothing(w, thread[w])
    BY <1>3 DEF FirstIsNotSkipped
  <2>2. thread[w].id # NoItem => thread[w].id \in 1 .. Len(sessions)
    BY <1>4 DEF WorkerTypes, WorkerIsSound
  <2> QED
    BY <1>1, <2>1, <2>2 DEF SkipsNothing, ending
<1>11. \A j, x : InHand(j, x)' <=> InHand(j, x)
  BY <1>1, <1>2 DEF InHand, Held
<1>12. SessionsAreOrderly'
  <2> SUFFICES ASSUME NEW j \in 1 .. Len(sessions'), NEW x, InHand(j, x) PROVE Flow(j, x)'
    BY <1>11 DEF SessionsAreOrderly
  <2>1. CASE j = i
    BY <1>1, <2>1 DEF Flow
  <2>2. CASE j # i
    <3>1. j \in 1 .. Len(sessions)
      BY <2>2
    <3>2. Flow(j, x) /\ sessions[j].peer \in Peers
      BY <1>3, <1>4, <3>1, SessionIs DEF SessionsAreOrderly
    <3>3. CASE sessions[j].peer = p
      <4>1. Orderly(heard[j], x, sessions[j].events, sessions[j].messages, sessions[j].connected,
                    spent.messages, NoItem)
        BY <3>2, FlowIsLeft DEF Flow
      <4>2. calling'[sessions'[j].peer] = NoItem
        BY <1>5, <2>2, <3>1, <3>3
      <4> QED
        BY <1>1, <2>2, <3>1, <4>1, <4>2 DEF Flow
    <3>4. CASE sessions[j].peer # p
      <4>1. calling'[sessions'[j].peer] = calling[sessions[j].peer]
        BY <1>5, <2>2, <3>1, <3>2, <3>4
      <4> QED
        BY <1>1, <2>2, <3>1, <3>2, <4>1 DEF Flow
    <3> QED
      BY <3>3, <3>4
  <2> QED
    BY <2>1, <2>2
<1> QED
  BY <1>7, <1>8, <1>9, <1>10, <1>12 DEF IInv

LEMMA SessionIsMade ==
    ASSUME ExtendersAssumption, IInv, NEW p \in Peers, calling' = [calling EXCEPT ![p] = NoItem],
           UNCHANGED <<status, step, ended, peer, thread, setting, spent>>, ManagerTypes', HasPools,
           AddPeerEvent(p, "Connected"), known[p] = NoItem
    PROVE  IInv' /\ known' = [known EXCEPT ![p] = Len(sessions) + 1] /\ known'[p] # NoItem
<1> DEFINE i == Len(sessions) + 1
<1>1. /\ Types /\ OneToken /\ KnownIsConnected /\ QueueTypes /\ WorkerTypes /\ PeerTypes
  BY DEF IInv, Types
<1>2. Len(sessions) \in Nat /\ i \in Nat /\ i # NoItem
  BY <1>1, EmptyIs DEF QueueTypes, ExtendersAssumption
<1>3. PICK k \in Pools :
          Enqueue(Append(sessions, [peer |-> p, pool |-> k, connected |-> TRUE, events |-> <<>>,
                                    messages |-> <<>>, inQueue |-> FALSE]), i, "Connected")
  BY DEF AddPeerEvent, LeastBusy
<1> DEFINE new == [peer |-> p, pool |-> k, connected |-> TRUE, events |-> <<>>,
                   messages |-> <<>>, inQueue |-> FALSE]
           all == Append(sessions, new)
<1>4. known' = [known EXCEPT ![p] = i] /\ heard' = Append(heard, <<>>)
  BY DEF AddPeerEvent
<1>5. /\ new \in SessionRecords /\ new.peer = p /\ new.pool = k /\ new.connected = TRUE
      /\ new.events = <<>> /\ new.messages = <<>> /\ new.inQueue = FALSE
  BY EmptySeq DEF SessionRecords
<1> HIDE DEF new
<1>6. /\ all \in Seq(SessionRecords) /\ Len(all) = i /\ all[i] = new
      /\ \A j \in 1 .. Len(sessions) : all[j] = sessions[j]
  BY <1>1, <1>5, AppendIs DEF QueueTypes
<1> HIDE DEF all
<1>7. i \in 1 .. Len(all) /\ "Connected" \in Items /\ "Connected" \in Events
  BY <1>2, <1>6 DEF Items, Events
<1>8. /\ sessions' \in Seq(SessionRecords) /\ Len(sessions') = i
      /\ \A j \in 1 .. i : j # i => sessions'[j] = all[j]
      /\ sessions'[i].peer = p /\ sessions'[i].pool = k
      /\ sessions'[i].connected = TRUE /\ sessions'[i].inQueue = TRUE
      /\ sessions'[i].events = Append(<<>>, "Connected") /\ sessions'[i].messages = <<>>
      /\ queue' = [queue EXCEPT ![k] = Append(@, i)]
  <2>1. PICK a, b : a = all /\ b = i
    OBVIOUS
  <2>2. Enqueue(a, b, "Connected")
    BY <1>3, <2>1 DEF all, new, Enqueue
  <2>3. a \in Seq(SessionRecords) /\ b \in 1 .. Len(a)
    BY <1>6, <1>7, <2>1
  <2>4. Enqueued(a, b, "Connected")
    BY <1>7, <2>2, <2>3, EnqueueIs
  <2> QED
    BY <1>5, <1>6, <1>7, <2>1, <2>4 DEF Enqueued
<1>9. ASSUME NEW j \in 1 .. i, j # i
      PROVE  j \in 1 .. Len(sessions) /\ sessions'[j] = sessions[j]
  <2>1. j \in 1 .. Len(sessions)
    BY <1>2, <1>9
  <2> QED
    BY <1>6, <1>8, <1>9, <2>1
<1>10. \A j \in 1 .. Len(sessions) : j \in 1 .. i /\ j # i /\ sessions'[j] = sessions[j]
  BY <1>2, <1>9
<1>11. <<>> \in Seq(Items) /\ heard \in Seq(Seq(Items)) /\ Len(heard) = Len(sessions)
  BY <1>1, EmptySeq DEF QueueTypes
<1>12. /\ heard' \in Seq(Seq(Items)) /\ Len(heard') = i /\ heard'[i] = <<>>
       /\ \A j \in 1 .. Len(sessions) : heard'[j] = heard[j]
  BY <1>4, <1>11, AppendIs
<1>13. Pools' = Pools /\ Threads' = Threads /\ SessionRecords' = SessionRecords
  BY PoolsStay
<1>14. \A o \in Pools : queue[o] \in Seq(1 .. i)
  <2>1. 1 .. Len(sessions) \subseteq 1 .. i
    BY <1>2
  <2> QED
    BY <1>1, <2>1, SeqMonotonic DEF QueueTypes
<1>15. i \in 1 .. i
  BY <1>2
<1>16. QueueTypes'
  <2>1. Append(queue[k], i) \in Seq(1 .. i)
    BY <1>14, <1>15, AppendIs
  <2>2. queue' \in [Pools -> Seq(1 .. i)]
    BY <1>1, <1>8, <1>14, <2>1 DEF QueueTypes
  <2>3. known' \in [Peers -> (1 .. i) \cup {NoItem}]
    BY <1>1, <1>4, <1>10, <1>15 DEF QueueTypes
  <2> QED
    BY <1>8, <1>12, <1>13, <2>2, <2>3 DEF QueueTypes
<1>17. NotQueued(i) /\ \A v \in Threads : thread[v].id # i
  <2>1. \A j \in 1 .. Len(sessions) : j # i
    BY <1>10
  <2>2. NotQueued(i)
    BY <1>1, <2>1, QueuedIs DEF NotQueued
  <2> QED
    BY <1>1, <1>2, <2>1, <2>2 DEF WorkerTypes, WorkerIsSound
<1>18. OneToken'
  <2>1. \A v \in Threads : thread'[v].id # i /\ (thread'[v].id # NoItem => thread'[v].id = thread[v].id)
    BY <1>17
  <2>2. sessions'[i].inQueue /\ sessions'[i].pool = k
    BY <1>8
  <2>3. \A j \in 1 .. Len(sessions) : j # i =>
            sessions'[j].inQueue = sessions[j].inQueue /\ sessions'[j].pool = sessions[j].pool
    BY <1>10
  <2>4. queue[k] \in Seq(1 .. i) /\ queue' = [queue EXCEPT ![k] = Append(@, i)]
    BY <1>8, <1>14
  <2> QED
    BY <1>1, <1>2, <1>15, <1>17, <2>1, <2>2, <2>3, <2>4, TokenAdded, ZenonT(60)
<1>19. KnownIsConnected'
  <2> SUFFICES ASSUME NEW q \in Peers, known'[q] # NoItem
               PROVE  sessions'[known'[q]].connected /\ sessions'[known'[q]].peer = q
    BY DEF KnownIsConnected
  <2>1. CASE q = p
    BY <1>1, <1>4, <1>8, <2>1 DEF QueueTypes
  <2>2. CASE q # p
    <3>1. known'[q] = known[q] /\ known[q] \in 1 .. Len(sessions)
      BY <1>1, <1>4, <2>2 DEF QueueTypes
    <3>2. sessions[known[q]].connected /\ sessions[known[q]].peer = q
      BY <1>1, <3>1 DEF KnownIsConnected
    <3> QED
      BY <1>10, <3>1, <3>2
  <2> QED
    BY <2>1, <2>2
<1>20. ASSUME NEW x, InHand(i, x)
       PROVE  Orderly(heard'[i], x, sessions'[i].events, sessions'[i].messages,
                      sessions'[i].connected, spent.messages, calling'[sessions'[i].peer])
  <2>1. x = NoItem
    BY <1>17, <1>20 DEF InHand
  <2>2. calling'[p] = NoItem
    BY <1>1 DEF PeerTypes
  <2> QED
    BY <1>8, <1>12, <2>1, <2>2, FlowBegins
<1>21. i \in 1 .. Len(sessions') /\ Len(sessions) <= Len(sessions')
  BY <1>2, <1>8
<1>22. IInv'
  BY <1>8, <1>9, <1>12, <1>16, <1>18, <1>19, <1>20, <1>21, TellStep, ZenonT(60)
<1> QED
  BY <1>1, <1>2, <1>4, <1>22 DEF QueueTypes

\* An event or a message of a session that is known.
LEMMA SessionIsTold ==
    ASSUME ExtendersAssumption, IInv, NEW p \in Peers, calling' = [calling EXCEPT ![p] = NoItem],
           UNCHANGED <<status, step, ended, peer, thread, setting, spent>>, ManagerTypes', HasPools,
           NEW y \in Items \ {"Connected"}, y \in Msgs => calling[p] = y,
           AddPeerEvent(p, y), known[p] # NoItem
    PROVE  IInv' /\ known' = IF y = "Disconnected" THEN [known EXCEPT ![p] = NoItem] ELSE known
<1>1. /\ Types /\ OneToken /\ KnownIsConnected /\ QueueTypes /\ WorkerTypes /\ PeerTypes
      /\ SessionsAreOrderly /\ CallsHaveCome
  BY DEF IInv, Types
<1>2. PICK i : i = known[p]
  OBVIOUS
<1>3. /\ i \in 1 .. Len(sessions) /\ i \in Nat /\ i # NoItem /\ Len(sessions) \in Nat
      /\ sessions[i] \in SessionRecords /\ sessions[i].connected = TRUE /\ sessions[i].peer = p
      /\ sessions[i].pool \in Pools
  <2>1. i \in 1 .. Len(sessions) /\ Len(sessions) \in Nat
    BY <1>1, <1>2, EmptyIs DEF QueueTypes
  <2>2. sessions[i] \in SessionRecords /\ sessions[i].connected /\ sessions[i].peer = p
    BY <1>1, <1>2, <2>1, SessionIs DEF KnownIsConnected
  <2> QED
    BY <1>2, <2>1, <2>2 DEF SessionRecords
<1>4. PICK c : c = (y # "Disconnected")
  OBVIOUS
<1>5. PICK all : all = IF y = "Disconnected" THEN [sessions EXCEPT ![i].connected = FALSE]
                       ELSE sessions
  OBVIOUS
<1>6. Enqueue(all, i, y) /\ heard' = heard
      /\ known' = IF y = "Disconnected" THEN [known EXCEPT ![p] = NoItem] ELSE known
  BY <1>2, <1>5 DEF AddPeerEvent, Enqueue
<1>7. /\ all \in Seq(SessionRecords) /\ Len(all) = Len(sessions)
      /\ \A j \in 1 .. Len(sessions) : j # i => all[j] = sessions[j]
      /\ all[i].peer = p /\ all[i].pool = sessions[i].pool /\ all[i].connected = c
      /\ all[i].events = sessions[i].events /\ all[i].messages = sessions[i].messages
      /\ all[i].inQueue = sessions[i].inQueue
  <2>1. CASE y = "Disconnected"
    <3> DEFINE t == [sessions[i] EXCEPT !.connected = FALSE]
    <3>1. all = [sessions EXCEPT ![i] = t]
      BY <1>5, <2>1
    <3>2. /\ t \in SessionRecords /\ t.peer = p /\ t.pool = sessions[i].pool /\ t.connected = FALSE
          /\ t.events = sessions[i].events /\ t.messages = sessions[i].messages
          /\ t.inQueue = sessions[i].inQueue
      BY <1>3 DEF SessionRecords
    <3> HIDE DEF t
    <3>3. /\ all \in Seq(SessionRecords) /\ Len(all) = Len(sessions) /\ all[i] = t
          /\ \A j \in 1 .. Len(sessions) : j # i => all[j] = sessions[j]
      BY <1>1, <1>3, <3>1, <3>2, ExceptSeq DEF QueueTypes
    <3> QED
      BY <1>4, <2>1, <3>2, <3>3
  <2>2. CASE y # "Disconnected"
    BY <1>1, <1>3, <1>4, <1>5, <2>2 DEF QueueTypes
  <2> QED
    BY <2>1, <2>2
<1>8. /\ sessions' \in Seq(SessionRecords) /\ Len(sessions') = Len(all)
      /\ \A j \in 1 .. Len(all) : j # i => sessions'[j] = all[j]
      /\ sessions'[i].peer = all[i].peer /\ sessions'[i].pool = all[i].pool
      /\ sessions'[i].connected = all[i].connected /\ sessions'[i].inQueue = TRUE
      /\ sessions'[i].events = IF y \in Events THEN Append(all[i].events, y) ELSE all[i].events
      /\ sessions'[i].messages = IF y \in Events THEN all[i].messages
                                 ELSE Append(all[i].messages, y)
      /\ queue' = IF all[i].inQueue THEN queue ELSE [queue EXCEPT ![all[i].pool] = Append(@, i)]
  <2>1. Enqueued(all, i, y)
    BY <1>3, <1>6, <1>7, EnqueueIs
  <2> QED
    BY <2>1 DEF Enqueued
<1>9. /\ sessions'[i].peer = p /\ sessions'[i].pool = sessions[i].pool
      /\ sessions'[i].connected = c /\ sessions'[i].inQueue = TRUE
      /\ \A j \in 1 .. Len(sessions) : j # i => sessions'[j] = sessions[j]
      /\ queue' = IF sessions[i].inQueue THEN queue
                  ELSE [queue EXCEPT ![sessions[i].pool] = Append(@, i)]
  BY <1>7, <1>8
<1>10. OneToken' /\ queue' \in [Pools -> Seq(1 .. Len(sessions))]
  <2>1. CASE sessions[i].inQueue
    <3>1. \A j \in 1 .. Len(sessions) :
              sessions'[j].inQueue = sessions[j].inQueue /\ sessions'[j].pool = sessions[j].pool
      BY <1>3, <1>9, <2>1 DEF SessionRecords
    <3>2. queue' = queue /\ \A v \in Threads : thread'[v].id = thread[v].id
      BY <1>9, <2>1
    <3>3. OneToken'
      BY <1>1, <3>1, <3>2, TokensStay, ZenonT(60)
    <3> QED
      BY <1>1, <3>2, <3>3 DEF QueueTypes
  <2>2. CASE ~sessions[i].inQueue
    <3>1. queue' = [queue EXCEPT ![sessions[i].pool] = Append(@, i)]
      BY <1>9, <2>2
    <3>2. NotQueued(i) /\ \A v \in Threads : thread[v].id # i
      BY <1>1, <1>3, <2>2, IsNotQueued DEF OneToken, ThreadsHaveTokens
    <3>3. PICK k \in Pools : k = sessions[i].pool
      BY <1>3
    <3>4. queue[k] \in Seq(1 .. Len(sessions))
      BY <1>1 DEF QueueTypes
    <3>5. \A v \in Threads : thread'[v].id # i /\ (thread'[v].id # NoItem => thread'[v].id = thread[v].id)
      BY <3>2
    <3>6. \A j \in 1 .. Len(sessions) : j # i =>
              sessions'[j].inQueue = sessions[j].inQueue /\ sessions'[j].pool = sessions[j].pool
      BY <1>9
    <3>7. sessions'[i].inQueue /\ sessions'[i].pool = k /\ queue' = [queue EXCEPT ![k] = Append(@, i)]
      BY <1>9, <3>1, <3>3
    <3>8. OneToken'
      BY <1>1, <1>3, <3>2, <3>4, <3>5, <3>6, <3>7, TokenAdded, ZenonT(60)
    <3>9. Append(queue[k], i) \in Seq(1 .. Len(sessions))
      BY <1>3, <3>4, AppendIs
    <3> QED
      BY <1>1, <3>7, <3>8, <3>9 DEF QueueTypes
  <2> QED
    BY <2>1, <2>2
<1>11. Pools' = Pools /\ SessionRecords' = SessionRecords
  BY PoolsStay
<1>12. known' \in [Peers -> (1 .. Len(sessions)) \cup {NoItem}]
  BY <1>1, <1>6 DEF QueueTypes
<1>13. QueueTypes'
  BY <1>1, <1>6, <1>7, <1>8, <1>10, <1>11, <1>12 DEF QueueTypes
<1>14. KnownIsConnected'
  <2> SUFFICES ASSUME NEW q \in Peers, known'[q] # NoItem
               PROVE  sessions'[known'[q]].connected /\ sessions'[known'[q]].peer = q
    BY DEF KnownIsConnected
  <2>1. CASE q = p
    <3>1. y # "Disconnected" /\ known'[q] = i
      BY <1>1, <1>2, <1>6, <2>1 DEF QueueTypes
    <3> QED
      BY <1>4, <1>9, <2>1, <3>1
  <2>2. CASE q # p
    <3>1. known'[q] = known[q] /\ known[q] \in 1 .. Len(sessions)
      BY <1>1, <1>6, <2>2 DEF QueueTypes
    <3>2. sessions[known[q]].connected /\ sessions[known[q]].peer = q
      BY <1>1, <3>1 DEF KnownIsConnected
    <3>3. known[q] # i
      BY <1>3, <2>2, <3>2
    <3> QED
      BY <1>9, <3>1, <3>2, <3>3
  <2> QED
    BY <2>1, <2>2
<1>15. ASSUME NEW x, InHand(i, x)
       PROVE  Orderly(heard'[i], x, sessions'[i].events, sessions'[i].messages,
                      sessions'[i].connected, spent.messages, calling'[sessions'[i].peer])
  <2>1. Orderly(heard[i], x, sessions[i].events, sessions[i].messages, TRUE, spent.messages, calling[p])
    BY <1>1, <1>3, <1>15 DEF SessionsAreOrderly, Flow
  <2>2. calling'[sessions'[i].peer] = NoItem
    BY <1>1, <1>9 DEF PeerTypes
  <2>3. CASE y \in Events
    <3>1. Orderly(heard[i], x, Append(sessions[i].events, y), sessions[i].messages, c, spent.messages,
                  NoItem)
      BY <1>4, <2>1, <2>3, FlowGetsEvent, ZenonT(60)
    <3> QED
      BY <1>6, <1>7, <1>8, <1>9, <2>2, <2>3, <3>1
  <2>4. CASE y \notin Events
    <3>1. y \in Msgs /\ calling[p] = y /\ c = TRUE
      BY <1>4, <2>4 DEF Items, Events
    <3>2. UpTo(y, spent.messages)
      BY <1>1, <3>1 DEF CallsHaveCome
    <3>3. Orderly(heard[i], x, sessions[i].events, Append(sessions[i].messages, y), TRUE,
                  spent.messages, NoItem)
      BY <2>1, <3>1, <3>2, FlowGetsMessage, ZenonT(60)
    <3> QED
      BY <1>6, <1>7, <1>8, <1>9, <2>2, <2>4, <3>1, <3>3
  <2> QED
    BY <2>3, <2>4
<1>16. i \in 1 .. Len(sessions') /\ Len(sessions) <= Len(sessions')
  BY <1>3, <1>7, <1>8
<1>17. IInv'
  BY <1>6, <1>7, <1>8, <1>9, <1>10, <1>13, <1>14, <1>15, <1>16, TellStep, ZenonT(60)
<1> QED
  BY <1>6, <1>17

LEMMA AddPeerEventKeeps ==
    ASSUME ExtendersAssumption, IInv, NEW p \in Peers, calling' = [calling EXCEPT ![p] = NoItem],
           UNCHANGED <<status, step, ended, peer, thread, setting, spent>>, ManagerTypes',
           NEW y \in Items, y \in Msgs => calling[p] = y, AddPeerEvent(p, y)
    PROVE  /\ IInv'
           /\ \A q \in Peers : q # p => known'[q] = known[q]
           /\ y = "Connected" /\ HasPools => known'[p] # NoItem
           /\ y = "Disconnected" => known'[p] = NoItem
           /\ y \notin {"Connected", "Disconnected"} => known'[p] = known[p]
<1>1. QueueTypes /\ PeerTypes /\ NothingWithoutPools
  BY DEF IInv, Types
<1>2. known \in [Peers -> (1 .. Len(sessions)) \cup {NoItem}]
  BY <1>1 DEF QueueTypes
<1>3. ASSUME UNCHANGED <<controlVars, heard>> PROVE IInv' /\ known' = known
  <2>1. peer' \in [Peers -> PeerRecords]
    BY <1>1 DEF PeerTypes
  <2>2. UNCHANGED <<status, step, ended, controlVars, thread, heard, setting>>
    BY <1>3
  <2>3. NoItem \in Events \cup {NoItem} /\ spent'.messages = spent.messages
    OBVIOUS
  <2> QED
    BY <2>1, <2>2, <2>3, EventStep DEF controlVars
<1>4. CASE y = "Connected"
  <2>1. CASE ~HasPools \/ known[p] # NoItem
    <3>1. UNCHANGED <<controlVars, heard>>
      BY <1>4, <2>1 DEF AddPeerEvent, Fault
    <3> QED
      BY <1>3, <1>4, <2>1, <3>1
  <2>2. CASE HasPools /\ known[p] = NoItem
    <3>1. AddPeerEvent(p, "Connected")
      BY <1>4
    <3>2. IInv' /\ known' = [known EXCEPT ![p] = Len(sessions) + 1] /\ known'[p] # NoItem
      BY <2>2, <3>1, SessionIsMade, ZenonT(60)
    <3> QED
      BY <1>2, <1>4, <3>2
  <2> QED
    BY <2>1, <2>2
<1>5. CASE y # "Connected" /\ known[p] = NoItem
  <2>1. UNCHANGED <<controlVars, heard>>
    BY <1>5 DEF AddPeerEvent, Fault
  <2> QED
    BY <1>3, <1>5, <2>1
<1>6. CASE y # "Connected" /\ known[p] # NoItem
  <2>1. HasPools
    <3>1. known[p] \in 1 .. Len(sessions)
      BY <1>2, <1>6
    <3>2. Len(<<>>) = 0
      OBVIOUS
    <3>3. sessions # <<>>
      BY <3>1, <3>2
    <3> QED
      BY <1>1, <3>3 DEF NothingWithoutPools
  <2>2. IInv' /\ known' = IF y = "Disconnected" THEN [known EXCEPT ![p] = NoItem] ELSE known
    BY <1>6, <2>1, SessionIsTold, ZenonT(60)
  <2> QED
    BY <1>2, <1>6, <2>2
<1> QED
  BY <1>4, <1>5, <1>6

LEMMA HandOverIs ==
    ASSUME IInv, NEW p \in Peers, HandOver(p)
    PROVE  /\ calling[p] \in Items /\ AddPeerEvent(p, calling[p]) /\ step # "join"
           /\ calling' = [calling EXCEPT ![p] = NoItem]
           /\ UNCHANGED <<status, step, ended, left, peer, thread, setting, spent>> /\ ManagerTypes'
<1>1. ManagerTypes /\ PeerTypes
  BY DEF IInv, Types
<1>2. /\ calling' = [calling EXCEPT ![p] = NoItem]
      /\ UNCHANGED <<managerVars, peer, thread, setting, spent>> /\ dropped' \subseteq Peers
  BY <1>1 DEF HandOver, ManagerTypes
<1>3. ManagerTypes'
  BY <1>1, <1>2 DEF ManagerTypes, managerVars
<1> QED
  BY <1>1, <1>2, <1>3 DEF HandOver, PeerTypes, Unlocked, managerVars

LEMMA HandOverKeeps ==
    ASSUME ExtendersAssumption, IInv, NEW p \in Peers, HandOver(p)
    PROVE  /\ IInv'
           /\ \A q \in Peers : q # p => known'[q] = known[q]
           /\ calling[p] = "Connected" /\ HasPools => known'[p] # NoItem
           /\ calling[p] = "Disconnected" => known'[p] = NoItem
           /\ calling[p] \notin {"Connected", "Disconnected"} => known'[p] = known[p]
<1>1. PICK y \in Items : y = calling[p]
  BY HandOverIs
<1>2. AddPeerEvent(p, y)
  <2>1. CASE y = "Connected"
    <3>1. CASE ~HasPools \/ known[p] # NoItem
      BY <1>1, <2>1, <3>1, HandOverIs DEF AddPeerEvent, Fault
    <3>2. CASE HasPools /\ known[p] = NoItem
      BY <1>1, <2>1, <3>2, HandOverIs DEF AddPeerEvent
    <3> QED
      BY <3>1, <3>2
  <2>2. CASE y # "Connected" /\ known[p] = NoItem
    BY <1>1, <2>2, HandOverIs DEF AddPeerEvent, Fault
  <2>3. CASE y # "Connected" /\ known[p] # NoItem
    <3>1. CASE y = "Disconnected"
      <4>1. calling[p] = "Disconnected" /\ AddPeerEvent(p, calling[p])
        BY <1>1, <3>1, HandOverIs
      <4>2. UNCHANGED <<alarms, heard>> /\ known' = [known EXCEPT ![p] = NoItem]
        BY <2>3, <4>1 DEF AddPeerEvent
      <4>3. Enqueue([sessions EXCEPT ![known[p]].connected = FALSE], known[p], "Disconnected")
        BY <2>3, <4>1 DEF AddPeerEvent, Enqueue
      <4> QED
        BY <2>3, <3>1, <4>2, <4>3 DEF AddPeerEvent, Enqueue
    <3>2. CASE y # "Disconnected"
      BY <1>1, <2>3, <3>2, HandOverIs DEF AddPeerEvent, Enqueue
    <3> QED
      BY <3>1, <3>2
  <2> QED
    BY <2>1, <2>2, <2>3
<1> QED
  BY <1>1, <1>2, HandOverIs, AddPeerEventKeeps, ZenonT(60)

LEMMA TellIs ==
    ASSUME IInv, NEW p \in Peers, Tell(p)
    PROVE  /\ step = "tell" /\ status = "Running" /\ calling[p] = NoItem /\ left' = left \ {p}
           /\ calling' = [calling EXCEPT ![p] = NoItem] /\ calling' = calling
           /\ UNCHANGED <<status, step, ended, peer, thread, setting, spent>> /\ ManagerTypes'
<1>1. ManagerTypes /\ PeerTypes /\ StepFollowsStatus
  BY DEF IInv, Types
<1>2. ManagerTypes'
  BY <1>1 DEF Tell, ManagerTypes
<1> QED
  BY <1>1, <1>2 DEF Tell, Unlocked, PeerTypes, StepFollowsStatus

LEMMA TellKeeps ==
    ASSUME ExtendersAssumption, IInv, NEW p \in Peers, Tell(p)
    PROVE  /\ IInv'
           /\ \A q \in Peers : q # p => known'[q] = known[q]
           /\ IsOurs(p) => known'[p] # NoItem
           /\ ~IsOurs(p) => known'[p] = known[p]
<1>1. PeerTypes /\ HasPools
  BY TellIs DEF IInv, Types, HasPools
<1>2. CASE IsOurs(p)
  <2>1. "Connected" \in Items /\ "Connected" \notin Msgs
    BY ItemsAre DEF Items, Events
  <2>2. AddPeerEvent(p, "Connected")
    BY <1>2 DEF Tell, IsOurs
  <2>3. /\ IInv' /\ known'[p] # NoItem
        /\ \A q \in Peers : q # p => known'[q] = known[q]
    BY <1>1, <2>1, <2>2, TellIs, AddPeerEventKeeps, ZenonT(60)
  <2> QED
    BY <1>2, <2>3
<1>3. CASE ~IsOurs(p)
  <2>1. UNCHANGED <<controlVars, heard>>
    BY <1>3 DEF Tell, IsOurs
  <2>2. UNCHANGED <<status, step, ended, controlVars, thread, heard, setting>>
    BY <2>1, TellIs
  <2>3. /\ peer' \in [Peers -> PeerRecords] /\ NoItem \in Events \cup {NoItem}
        /\ spent'.messages = spent.messages
    BY <1>1, TellIs DEF PeerTypes
  <2>4. IInv'
    BY <2>2, <2>3, TellIs, EventStep, ZenonT(60)
  <2>5. known' = known
    BY <2>1 DEF controlVars
  <2> QED
    BY <1>3, <2>4, <2>5
<1> QED
  BY <1>2, <1>3

-----------------------------------------------------------------------------
(* The pools are made, and forgotten.                                      *)

LEMMA EmptyStep ==
    ASSUME ExtendersAssumption, IInv, UNCHANGED <<peer, calling, setting, spent>>, ManagerTypes',
           sessions' = <<>>, heard' = <<>>, known' = [p \in Peers |-> NoItem],
           queue' = [k \in Pools |-> <<>>],
           thread' \in [Threads -> WorkerRecords],
           \A w \in Threads : /\ thread'[w].id = NoItem /\ thread'[w].item = NoItem
                              /\ thread'[w].at \in {"gone", "wait"}
                              /\ ~HasPools' => thread'[w].at = "gone",
           StepFollowsStatus'
    PROVE  IInv'
<1>1. Pools' = Pools /\ Threads' = Threads
  BY PoolsStay
<1>2. Len(<<>>) = 0
  OBVIOUS
<1>3. PeerTypes /\ CallsHaveCome
  BY DEF IInv, Types
<1>4. QueueTypes'
  <2>1. <<>> \in Seq(SessionRecords)' /\ <<>> \in Seq(Seq(Items)) /\ <<>> \in Seq(1 .. Len(<<>>))
    BY EmptySeq
  <2> QED
    BY <1>1, <2>1 DEF QueueTypes
<1>5. WorkerTypes'
  BY <1>1 DEF WorkerTypes, WorkerIsSound
<1>6. Types'
  BY <1>3, <1>4, <1>5 DEF Types, PeerTypes
<1>7. OneToken'
  <2>1. \A k \in Pools : Len(queue'[k]) = 0
    BY <1>2
  <2> QED
    BY <1>1, <2>1 DEF OneToken, QueueHasTokens, ThreadsHaveTokens
<1>8. NothingWithoutPools' /\ KnownIsConnected'
  BY <1>1 DEF NothingWithoutPools, KnownIsConnected
<1>9. SessionsAreOrderly' /\ FirstIsNotSkipped' /\ CallsHaveCome'
  BY <1>1, <1>2, <1>3 DEF SessionsAreOrderly, FirstIsNotSkipped, SkipsNothing, ending, CallsHaveCome
<1> QED
  BY <1>6, <1>7, <1>8, <1>9 DEF IInv

LEMMA PoolsKeep ==
    ASSUME ExtendersAssumption, IInv, StartupThreadPools \/ Stopped
    PROVE  IInv'
<1>1. ManagerTypes /\ PeerTypes /\ QueueTypes /\ WorkerTypes /\ StepFollowsStatus /\ NothingWithoutPools
  BY DEF IInv, Types
<1>2. UNCHANGED <<peer, calling, setting, spent>>
      /\ sessions' = <<>> /\ heard' = <<>> /\ known' = [p \in Peers |-> NoItem]
  BY DEF StartupThreadPools, Stopped
<1>3. \A place \in {"gone", "wait"} :
          /\ NoWork(place) \in WorkerRecords /\ NoWork(place).id = NoItem /\ NoWork(place).item = NoItem
          /\ NoWork(place).at = place
  BY DEF NoWork, WorkerRecords, Places
<1>4. ASSUME NEW w \in Threads, thread[w].at = "gone"
      PROVE  thread[w].id = NoItem /\ thread[w].item = NoItem
  BY <1>1, <1>4 DEF WorkerTypes, WorkerIsSound
<1>5. CASE StartupThreadPools
  <2>1. ~HasPools
    BY <1>1, <1>5 DEF StartupThreadPools, StepFollowsStatus, HasPools
  <2>2. queue' = [k \in Pools |-> <<>>] /\ \A w \in Threads : thread[w].at = "gone"
    BY <1>1, <1>5, <2>1 DEF StartupThreadPools, NothingWithoutPools, QueueTypes
  <2>3. CASE status' = "Running"
    <3>1. step' = "activate" /\ thread' = [w \in Threads |-> NoWork("wait")] /\ recent' = recent
      BY <1>5, <2>3 DEF StartupThreadPools
    <3>2. ManagerTypes'
      BY <1>1, <1>2, <1>5, <2>3, <3>1 DEF StartupThreadPools, ManagerTypes, Statuses, Steps
    <3>3. StepFollowsStatus' /\ HasPools'
      BY <2>3, <3>1 DEF StepFollowsStatus, HasPools
    <3> QED
      BY <1>2, <1>3, <2>2, <3>1, <3>2, <3>3, EmptyStep, ZenonT(60)
  <2>4. CASE status' # "Running"
    <3>1. step' = "idle" /\ status' = "Stopped" /\ thread' = thread /\ recent' = TRUE
      BY <1>5, <2>4 DEF StartupThreadPools
    <3>2. ManagerTypes'
      BY <1>1, <1>2, <1>5, <3>1 DEF StartupThreadPools, ManagerTypes, Statuses, Steps
    <3>3. StepFollowsStatus'
      BY <3>1 DEF StepFollowsStatus
    <3>4. thread' \in [Threads -> WorkerRecords]
      BY <1>1, <3>1 DEF WorkerTypes
    <3> QED
      BY <1>2, <1>4, <2>2, <3>1, <3>2, <3>3, <3>4, EmptyStep, ZenonT(60)
  <2> QED
    BY <2>3, <2>4
<1>6. CASE Stopped
  <2>1. /\ step' = "broadcast" /\ status' = "Stopped" /\ thread' = thread
        /\ queue' = [k \in Pools |-> <<>>] /\ \A w \in Threads : thread[w].at = "gone"
    BY <1>6 DEF Stopped, Proceed
  <2>2. ManagerTypes'
    BY <1>1, <1>2, <1>6, <2>1 DEF Stopped, ManagerTypes, Statuses, Steps
  <2>3. StepFollowsStatus'
    BY <2>1 DEF StepFollowsStatus
  <2>4. thread' \in [Threads -> WorkerRecords]
    BY <1>1, <2>1 DEF WorkerTypes
  <2> QED
    BY <1>2, <1>4, <2>1, <2>2, <2>3, <2>4, EmptyStep, ZenonT(60)
<1> QED
  BY <1>5, <1>6

-----------------------------------------------------------------------------
LEMMA NextKeeps ==
    ASSUME ExtendersAssumption, IInv, [ExtendersNext]_extVars
    PROVE  IInv'
<1>1. CASE ExtendersNext
  <2>1. ASSUME NEW p \in Peers, PeerStep(p) PROVE IInv'
    BY <2>1, PeerChanges, MessageComes, HandOverKeeps, UpdatesKeep DEF PeerStep
  <2>2. ASSUME ManagerNext PROVE IInv'
    BY <2>2, PoolsKeep, ManagerKeeps, TellKeeps, UpdatesKeep, ShutdownPoolKeeps DEF ManagerNext
  <2>3. ASSUME NEW w \in Threads, ThreadStep(w) PROVE IInv'
    <3>1. CASE HandleEvent(w)
      <4>1. Handle(w, "events") /\ thread[w].at \in {"event", "message"} /\ "events" \in Places
        BY <3>1 DEF HandleEvent, Places
      <4> QED
        BY <4>1, HandleKeeps
    <3>2. CASE HandleMessage(w)
      <4>1. PICK next \in {"messages", "unhandled"} : Handle(w, next) /\ thread[w].at = "message"
        BY <3>2 DEF HandleMessage
      <4>2. next \in Places
        BY DEF Places
      <4> QED
        BY <4>1, <4>2, HandleKeeps
    <3> QED
      BY <2>3, <3>1, <3>2, TakeKeeps, ExitKeeps, NextEventKeeps, NextMessageKeeps, ReportKeeps,
         RequeueKeeps DEF ThreadStep
  <2> QED
    BY <1>1, <2>1, <2>2, <2>3, ManagerKeeps DEF ExtendersNext
<1>2. CASE UNCHANGED extVars
  <2>1. UNCHANGED <<calling, controlVars, thread, heard, setting, status, step, ended>>
        /\ UNCHANGED <<managerVars, peer, spent, dropped>>
    BY <1>2 DEF extVars, managerVars, controlVars
  <2>2. ManagerTypes' /\ peer' \in [Peers -> PeerRecords] /\ spent'.messages = spent.messages
        /\ StepFollowsStatus' /\ (HasPools => HasPools') /\ (\A w \in Threads : ending(w) => ending(w)')
    BY <2>1 DEF ending, IInv, Types, ManagerTypes, PeerTypes, managerVars, StepFollowsStatus, HasPools
  <2> QED
    BY <2>1, <2>2, QuietStep
<1> QED
  BY <1>1, <1>2

(* The peers that are known.                                               *)

\* Nothing changes for the peer.
LEMMA FitStays ==
    ASSUME NEW q, IsFit(q), peer'[q].st = peer[q].st, peer'[q].has = peer[q].has,
           calling'[q] = calling[q], known'[q] = known[q],
           status' = "Running" => status = "Running" /\ (Untold(q) => Untold(q)')
    PROVE  IsFit(q)'
BY DEF IsFit, IsOurs

LEMMA ManagerKnows ==
    ASSUME KInv,
           \/ AddExtender \/ StartExtenders \/ StopOne \/ StopAll \/ RemoveExtender \/ GraceEnds
           \/ Activate \/ BeginBroadcast \/ EndBroadcast \/ Deactivate \/ ShutdownThreadPools
    PROVE  PeersAreKnown'
<1>1. UNCHANGED <<peer, calling, known, setting>>
  BY DEF AddExtender, StartExtenders, StopOne, StopAll, ShutdownExtender, RemoveExtender, GraceEnds,
     Activate, BeginBroadcast, EndBroadcast, Deactivate, ShutdownThreadPools, controlVars
<1>2. SUFFICES ASSUME NEW q \in Peers, IsFit(q) PROVE IsFit(q)'
  BY <1>1 DEF KInv, PeersAreKnown
<1>3. status' = "Running" => status = "Running" /\ (Untold(q) => Untold(q)')
  <2>1. CASE AddExtender \/ StartExtenders
    BY <2>1 DEF AddExtender, StartExtenders, StartExtender, Untold
  <2>2. CASE StopOne \/ StopAll \/ RemoveExtender \/ GraceEnds
    BY <2>2 DEF StopOne, StopAll, ShutdownExtender, RemoveExtender, GraceEnds, Untold
  <2>3. CASE Activate \/ BeginBroadcast \/ EndBroadcast \/ Deactivate \/ ShutdownThreadPools
    BY <2>3 DEF Activate, BeginBroadcast, EndBroadcast, Deactivate, ShutdownThreadPools, Proceed,
       Untold
  <2> QED
    BY <2>1, <2>2, <2>3
<1> QED
  BY <1>1, <1>2, <1>3, FitStays

LEMMA ShutdownPoolKnows ==
    ASSUME KInv, NEW k \in Pools, ShutdownPool(k)
    PROVE  PeersAreKnown'
<1>1. UNCHANGED <<peer, calling, known, setting, status, step, left>>
  BY ShutdownPoolIs
<1> QED BY <1>1 DEF KInv, PeersAreKnown, IsFit, IsOurs, Untold

LEMMA PoolsKnow ==
    ASSUME ExtendersAssumption, KInv, StartupThreadPools \/ Stopped
    PROVE  PeersAreKnown'
<1>1. UNCHANGED <<peer, calling, setting>> /\ known' = [p \in Peers |-> NoItem]
  BY DEF StartupThreadPools, Stopped
<1>2. status' = "Running" => step' = "activate"
  BY DEF StartupThreadPools, Stopped
<1> QED
  BY <1>1, <1>2 DEF KInv, PeersAreKnown, IsFit, IsOurs, Untold

LEMMA UpdatesKnow ==
    ASSUME KInv, NEW p \in Peers, Broadcast(p) \/ HearUpdate(p)
    PROVE  PeersAreKnown'
<1>1. UNCHANGED <<calling, known, setting, status, step>>
  BY DEF Broadcast, HearUpdate, managerVars, controlVars
<1>2. SUFFICES ASSUME NEW q \in Peers, IsFit(q) PROVE IsFit(q)'
  BY <1>1 DEF KInv, PeersAreKnown
<1>3. peer'[q].st = peer[q].st /\ peer'[q].has = peer[q].has
  <2>1. peer \in [Peers -> PeerRecords]
    BY DEF KInv, IInv, Types, PeerTypes
  <2> QED
    BY <2>1 DEF Broadcast, HearUpdate, PeerRecords
<1>4. Untold(q) => Untold(q)'
  <2>1. step = "broadcast" \/ left' = left
    BY DEF Broadcast, HearUpdate, managerVars
  <2> QED
    BY <1>1, <2>1 DEF Untold
<1> QED
  BY <1>1, <1>2, <1>3, <1>4, FitStays

LEMMA PeerKnows ==
    ASSUME ExtendersAssumption, KInv, NEW p \in Peers,
           \/ BecomeReady(p) \/ Suspend(p) \/ Resume(p) \/ Disconnect(p) \/ PeerExtenderUpdate(p)
           \/ Message(p)
    PROVE  PeersAreKnown'
<1>1. /\ peer \in [Peers -> PeerRecords] /\ calling \in [Peers -> Items \cup {NoItem}]
      /\ spent.messages \in Nat /\ ManagerTypes
  BY DEF KInv, IInv, Types, PeerTypes, ManagerTypes
<1>2. UNCHANGED <<status, step, left, known, setting>> /\ Unlocked(p)
  BY DEF BecomeReady, Suspend, Resume, Disconnect, ChangeStatus, PeerExtenderUpdate, Message,
     managerVars, controlVars
<1>3. SUFFICES ASSUME ~setting.suspend, \A r \in Peers : IsFit(r), NEW q \in Peers PROVE IsFit(q)'
  BY <1>2 DEF KInv, PeersAreKnown
<1>4. IsFit(p) /\ IsFit(q) /\ calling[p] = NoItem
  BY <1>2, <1>3 DEF Unlocked
<1>5. Untold(q) => Untold(q)'
  BY <1>2 DEF Untold
<1>6. CASE q # p
  <2>1. peer'[q] = peer[q] /\ calling'[q] = calling[q]
    BY <1>1, <1>6 DEF BecomeReady, Suspend, Resume, Disconnect, ChangeStatus, PeerExtenderUpdate,
       Message, Notify
  <2> QED
    BY <1>2, <1>4, <1>5, <2>1, FitStays
<1>7. CASE q = p
  <2>1. CASE BecomeReady(p)
    <3>1. /\ peer[p].st = "SessionInit" /\ peer'[p].st = "Ready" /\ peer'[p].has = peer[p].has
          /\ calling'[p] = IF peer[p].has /\ status = "Running" THEN "Connected" ELSE NoItem
      BY <1>1, <1>4, <2>1 DEF BecomeReady, Notify, PeerRecords
    <3> QED
      BY <1>2, <1>4, <1>5, <1>7, <3>1, ItemsAre DEF IsFit, IsOurs
  <2>2. ~Suspend(p) /\ ~Resume(p)
    BY <1>3, <1>4 DEF Suspend, Resume, ChangeStatus, IsFit
  <2>3. CASE Disconnect(p)
    <3>1. /\ peer[p].st \in {"Ready", "Suspended"} /\ peer'[p].st = "Disconnected"
          /\ calling'[p] = IF peer[p].has /\ status = "Running" THEN "Disconnected" ELSE NoItem
      BY <1>1, <1>4, <2>3 DEF Disconnect, ChangeStatus, Notify, PeerRecords
    <3> QED
      BY <1>2, <1>4, <1>5, <1>7, <3>1, ItemsAre DEF IsFit, IsOurs
  <2>4. CASE PeerExtenderUpdate(p)
    <3>1. /\ peer[p].st = "Ready" /\ peer'[p].st = "Ready" /\ peer'[p].has = ~peer[p].has
          /\ calling'[p] = IF status # "Running" THEN NoItem
                           ELSE IF peer[p].has THEN "Disconnected" ELSE "Connected"
      BY <1>1, <1>4, <2>4 DEF PeerExtenderUpdate, Notify, PeerRecords
    <3> QED
      BY <1>2, <1>4, <1>5, <1>7, <3>1, ItemsAre DEF IsFit, IsOurs
  <2>5. CASE Message(p)
    <3>1. peer' = peer /\ calling'[p] \in {NoItem, Messages[spent.messages + 1]}
      BY <1>1, <2>5 DEF Message, Notify
    <3>2. Messages[spent.messages + 1] \in Msgs
      <4>1. spent.messages < setting.messages /\ setting.messages \in 0 .. Len(Messages)
        BY <1>1, <2>5 DEF Message, Within, ManagerTypes, ExtendersAssumption
      <4>2. spent.messages + 1 \in DOMAIN Messages
        BY <1>1, <4>1 DEF ExtendersAssumption
      <4> QED
        BY <4>2 DEF Msgs
    <3>3. calling'[p] # "Connected" /\ calling'[p] # "Disconnected"
      BY <3>1, <3>2, ItemsAre
    <3> QED
      BY <1>2, <1>4, <1>5, <1>7, <3>1, <3>3, ItemsAre DEF IsFit, IsOurs
  <2> QED
    BY <2>1, <2>2, <2>3, <2>4, <2>5
<1> QED
  BY <1>6, <1>7

LEMMA HandOverKnows ==
    ASSUME ExtendersAssumption, KInv, NEW p \in Peers, HandOver(p)
    PROVE  PeersAreKnown'
<1>1. IInv /\ PeerTypes
  BY DEF KInv, IInv, Types
<1>2. PICK y \in Items : y = calling[p]
  BY <1>1, HandOverIs
<1>3. /\ \A q \in Peers : q # p => known'[q] = known[q]
      /\ y = "Connected" /\ HasPools => known'[p] # NoItem
      /\ y = "Disconnected" => known'[p] = NoItem
      /\ y \notin {"Connected", "Disconnected"} => known'[p] = known[p]
  BY <1>1, <1>2, HandOverKeeps
<1>4. /\ UNCHANGED <<status, step, left, peer, setting>> /\ calling'[p] = NoItem
      /\ \A q \in Peers : q # p => calling'[q] = calling[q]
  BY <1>1, HandOverIs DEF PeerTypes
<1>5. SUFFICES ASSUME \A r \in Peers : IsFit(r), NEW q \in Peers PROVE IsFit(q)'
  BY <1>4 DEF KInv, PeersAreKnown
<1>6. IsFit(q) /\ (Untold(q) => Untold(q)')
  BY <1>4, <1>5 DEF Untold
<1>7. CASE q # p
  BY <1>3, <1>4, <1>6, <1>7, FitStays
<1>8. CASE q = p
  <2>1. status = "Running" => HasPools
    BY DEF HasPools
  <2> QED
    BY <1>2, <1>3, <1>4, <1>6, <1>8, <2>1, ItemsAre DEF IsFit, IsOurs
<1> QED
  BY <1>7, <1>8

LEMMA TellKnows ==
    ASSUME ExtendersAssumption, KInv, NEW p \in Peers, Tell(p)
    PROVE  PeersAreKnown'
<1>1. IInv /\ PeerTypes
  BY DEF KInv, IInv, Types
<1>2. /\ \A q \in Peers : q # p => known'[q] = known[q]
      /\ IsOurs(p) => known'[p] # NoItem
      /\ ~IsOurs(p) => known'[p] = known[p]
  BY <1>1, TellKeeps
<1>3. /\ UNCHANGED <<status, step, peer, setting, calling>> /\ left' = left \ {p}
      /\ calling[p] = NoItem
  BY <1>1, TellIs
<1>4. SUFFICES ASSUME \A r \in Peers : IsFit(r), NEW q \in Peers PROVE IsFit(q)'
  BY <1>3 DEF KInv, PeersAreKnown
<1>5. CASE q # p
  <2>1. Untold(q) => Untold(q)'
    BY <1>3, <1>5 DEF Untold
  <2> QED
    BY <1>2, <1>3, <1>4, <1>5, <2>1, FitStays
<1>6. CASE q = p
  BY <1>2, <1>3, <1>4, <1>6, ItemsAre DEF IsFit, IsOurs
<1> QED
  BY <1>5, <1>6

LEMMA NextKnows ==
    ASSUME ExtendersAssumption, KInv, [ExtendersNext]_extVars
    PROVE  PeersAreKnown'
<1>1. CASE ExtendersNext
  <2>1. ASSUME NEW p \in Peers, PeerStep(p) PROVE PeersAreKnown'
    BY <2>1, PeerKnows, HandOverKnows, UpdatesKnow DEF PeerStep
  <2>2. ASSUME ManagerNext PROVE PeersAreKnown'
    BY <2>2, PoolsKnow, ManagerKnows, TellKnows, UpdatesKnow, ShutdownPoolKnows DEF ManagerNext
  <2>3. ASSUME NEW w \in Threads, ThreadStep(w) PROVE PeersAreKnown'
    <3>1. KeepOthers
      BY <2>3 DEF ThreadStep, TakeSession, ThreadExits, NextEvent, HandleEvent, NextMessage,
         HandleMessage, Handle,
         ReportUnhandled, Requeue
    <3>2. UNCHANGED <<status, step, left, peer, calling, known, setting>>
      BY <3>1 DEF KeepOthers, managerVars
    <3> QED
      BY <3>2 DEF KInv, PeersAreKnown, IsFit, IsOurs, Untold
  <2> QED
    BY <1>1, <2>1, <2>2, <2>3, ManagerKnows DEF ExtendersNext
<1>2. CASE UNCHANGED extVars
  <2>1. UNCHANGED <<status, step, left, peer, calling, known, setting>>
    BY <1>2 DEF extVars, managerVars, controlVars
  <2> QED
    BY <2>1 DEF KInv, PeersAreKnown, IsFit, IsOurs, Untold
<1> QED
  BY <1>1, <1>2

-----------------------------------------------------------------------------
(* Which peers are condemned.                                              *)

Honest == ~setting.suspend /\ ~setting.bulk /\ setting.starts = 1

\* No peer believes that we run the extender, nor is about to hear it.
NobodyTold == ~listed /\ \A p \in Peers : ~peer[p].told /\ ~peer[p].sent

\* The one start: before it, and as long as the extender is not on the list, nobody is told,
\* and when it has stopped the grace period lasts as long as anybody believes that it runs.
StartsOnce ==
    /\ ~bulk /\ spent.starts <= 1
    /\ spent.starts = 0 => status = "Stopped" /\ step = "idle" /\ NobodyTold
    /\ status = "Startup" \/ step = "activate" \/ (status = "Stopped" /\ ~recent) => NobodyTold
    /\ status = "Stopped" => ~listed
    /\ step \in {"deactivate", "end", "join"} => status \notin {"Running", "Startup"}

\* Nobody is handing anything over when the peers are about to be forgotten, or are.
QuietAtStop ==
    status \in {"Stopped", "Startup"} \/ step \in {"end", "join"} =>
        \A p \in Peers : calling[p] = NoItem

\* A peer that hands over a message is known; so is one that has been told of the extender
\* before the extender is told of it.
SenderIsKnown(p) ==
    /\ calling[p] \in Msgs => known[p] # NoItem
    /\ /\ step = "tell" /\ p \in left /\ IsOurs(p) /\ (peer[p].told \/ peer[p].sent)
       /\ calling[p] # "Connected"
       => known[p] # NoItem

HonestInv ==
    Honest => /\ StartsOnce /\ QuietAtStop /\ dropped = {}
              /\ \A p \in Peers : SenderIsKnown(p)

HInv == KInv /\ HonestInv

HonestParts == /\ StartsOnce /\ QuietAtStop /\ dropped = {}
               /\ \A p \in Peers : SenderIsKnown(p)

LEMMA HonestStays ==
    ASSUME HonestParts,
           UNCHANGED <<managerVars, peer, calling, known, dropped, setting, spent>>
    PROVE  HonestParts'
BY DEF HonestParts, StartsOnce, NobodyTold, QuietAtStop, SenderIsKnown, IsOurs, managerVars

LEMMA SpentIs ==
    ASSUME KInv
    PROVE  /\ spent \in [starts : Nat, changes : Nat, messages : Nat]
           /\ spent.starts \in Nat
           /\ \A what \in {"changes", "messages"} : Count(what) => spent'.starts = spent.starts
           /\ Count("starts") => spent'.starts = spent.starts + 1
<1>1. spent \in [starts : Nat, changes : Nat, messages : Nat]
  BY DEF KInv, IInv, Types, ManagerTypes
<1> QED
  BY <1>1 DEF Count

\* Without pools nobody begins to hand over anything.
LEMMA NotifyIs ==
    ASSUME KInv, NEW p \in Peers, NEW item, Notify(p, item)
    PROVE  /\ calling'[p] = IF status = "Running" THEN item ELSE NoItem
           /\ \A q \in Peers : q # p => calling'[q] = calling[q]
<1>1. calling \in [Peers -> Items \cup {NoItem}]
  BY DEF KInv, IInv, Types, PeerTypes
<1> QED
  BY <1>1 DEF Notify

LEMMA PeerIsHonest ==
    ASSUME ExtendersAssumption, KInv, Honest, HonestParts, NEW p \in Peers,
           \/ BecomeReady(p) \/ Suspend(p) \/ Resume(p) \/ Disconnect(p) \/ PeerExtenderUpdate(p)
           \/ Message(p)
    PROVE  HonestParts'
<1>1. /\ peer \in [Peers -> PeerRecords] /\ calling \in [Peers -> Items \cup {NoItem}]
      /\ spent.messages \in Nat /\ ManagerTypes /\ IsFit(p) /\ StepFollowsStatus
  BY DEF KInv, IInv, Types, PeerTypes, ManagerTypes, PeersAreKnown, Honest
<1>2. /\ UNCHANGED <<present, enabled, status, listed, recent, step, bulk, left, known, setting>>
      /\ calling[p] = NoItem
  BY DEF BecomeReady, Suspend, Resume, Disconnect, ChangeStatus, PeerExtenderUpdate, Message,
     managerVars, controlVars, Unlocked
<1>3. ~Suspend(p) /\ ~Resume(p)
  BY <1>1, <1>2 DEF Suspend, Resume, ChangeStatus, IsFit, Honest
<1>4. spent'.starts = spent.starts
  BY <1>3, SpentIs DEF BecomeReady, Disconnect, ChangeStatus, PeerExtenderUpdate, Message
<1>5. /\ \A q \in Peers : q # p => peer'[q] = peer[q] /\ calling'[q] = calling[q]
      /\ status # "Running" => calling'[p] = NoItem
  <2>1. \A q \in Peers : q # p => peer'[q] = peer[q]
    BY <1>1, <1>3 DEF BecomeReady, Disconnect, ChangeStatus, PeerExtenderUpdate, Message
  <2>2. calling' = calling \/ \E item : Notify(p, item)
    BY <1>3 DEF BecomeReady, Disconnect, ChangeStatus, PeerExtenderUpdate, Message
  <2> QED
    BY <1>2, <2>1, <2>2, NotifyIs
<1>6. /\ peer'[p].told \in {peer[p].told, listed} /\ peer'[p].sent \in {peer[p].sent, listed}
  BY <1>1, <1>3 DEF BecomeReady, Disconnect, ChangeStatus, PeerExtenderUpdate, Message, PeerRecords
<1>7. NobodyTold => NobodyTold'
  BY <1>2, <1>5, <1>6 DEF NobodyTold
<1>8. StartsOnce'
  BY <1>2, <1>4, <1>7 DEF HonestParts, StartsOnce
<1>9. QuietAtStop'
  BY <1>2, <1>5 DEF HonestParts, StartsOnce, QuietAtStop
<1>10. dropped' = {}
  <2>1. CASE Message(p)
    <3>1. ~(status = "Stopped" /\ ~recent)
      BY <2>1 DEF Message, HonestParts, StartsOnce, NobodyTold
    <3> QED
      BY <2>1, <3>1 DEF Message, HonestParts
  <2>2. CASE ~Message(p)
    BY <1>3, <2>2 DEF BecomeReady, Disconnect, ChangeStatus, PeerExtenderUpdate, HonestParts
  <2> QED
    BY <2>1, <2>2
<1>11. ASSUME NEW q \in Peers, q # p PROVE SenderIsKnown(q)'
  BY <1>2, <1>5, <1>11 DEF HonestParts, SenderIsKnown, IsOurs
<1>12. SenderIsKnown(p) /\ (step = "tell" => status = "Running")
  BY <1>1 DEF HonestParts, StepFollowsStatus
<1>13. SenderIsKnown(p)'
  <2>1. CASE BecomeReady(p)
    <3>1. /\ peer'[p].st = "Ready" /\ peer'[p].has = peer[p].has
          /\ calling'[p] = IF peer[p].has /\ status = "Running" THEN "Connected" ELSE NoItem
      BY <1>1, <1>2, <2>1, NotifyIs DEF BecomeReady, PeerRecords
    <3> QED
      BY <1>2, <1>12, <3>1, ItemsAre DEF SenderIsKnown, IsOurs
  <2>2. CASE Disconnect(p)
    <3>1. /\ peer'[p].st = "Disconnected"
          /\ calling'[p] = IF peer[p].has /\ status = "Running" THEN "Disconnected" ELSE NoItem
      BY <1>1, <1>2, <2>2, NotifyIs DEF Disconnect, ChangeStatus, PeerRecords
    <3> QED
      BY <1>2, <3>1, ItemsAre DEF SenderIsKnown, IsOurs
  <2>3. CASE PeerExtenderUpdate(p)
    <3>1. /\ peer'[p].has = ~peer[p].has
          /\ calling'[p] = IF status # "Running" THEN NoItem
                           ELSE IF peer[p].has THEN "Disconnected" ELSE "Connected"
      BY <1>1, <2>3, NotifyIs DEF PeerExtenderUpdate, PeerRecords
    <3> QED
      BY <1>2, <1>12, <3>1, ItemsAre DEF SenderIsKnown, IsOurs
  <2>4. CASE Message(p)
    <3>1. /\ peer' = peer /\ IsOurs(p) /\ peer[p].told
          /\ status # "Running" => calling'[p] = NoItem
      BY <1>5, <2>4 DEF Message, IsOurs
    <3>2. status = "Running" => known[p] # NoItem
      <4>1. ~(step = "activate")
        BY <3>1 DEF HonestParts, StartsOnce, NobodyTold
      <4>2. step = "tell" /\ p \in left => known[p] # NoItem
        BY <1>2, <1>12, <3>1, ItemsAre DEF SenderIsKnown
      <4> QED
        BY <1>1, <1>2, <3>1, <4>1, <4>2, ItemsAre DEF IsFit, Untold
    <3> QED
      BY <1>2, <1>12, <3>1, <3>2, ItemsAre DEF SenderIsKnown
  <2> QED
    BY <1>3, <2>1, <2>2, <2>3, <2>4
<1> QED
  BY <1>8, <1>9, <1>10, <1>11, <1>13 DEF HonestParts

LEMMA HandOverIsHonest ==
    ASSUME ExtendersAssumption, KInv, Honest, HonestParts, NEW p \in Peers, HandOver(p)
    PROVE  HonestParts'
<1>1. IInv /\ PeerTypes /\ IsFit(p) /\ StepFollowsStatus
  BY DEF KInv, IInv, Types, PeersAreKnown, Honest
<1>2. PICK y \in Items : y = calling[p]
  BY <1>1, HandOverIs
<1>3. /\ \A q \in Peers : q # p => known'[q] = known[q]
      /\ y = "Connected" /\ HasPools => known'[p] # NoItem
      /\ y = "Disconnected" => known'[p] = NoItem
      /\ y \notin {"Connected", "Disconnected"} => known'[p] = known[p]
  BY <1>1, <1>2, HandOverKeeps
<1>4. /\ UNCHANGED <<managerVars, peer, setting, spent>> /\ calling'[p] = NoItem
      /\ \A q \in Peers : q # p => calling'[q] = calling[q]
  BY <1>1 DEF PeerTypes, HandOver
<1>5. UNCHANGED <<present, enabled, status, listed, recent, step, bulk, left>>
  BY <1>4 DEF managerVars
<1>6. StartsOnce'
  BY <1>4, <1>5 DEF HonestParts, StartsOnce, NobodyTold
<1>7. QuietAtStop'
  BY <1>4, <1>5 DEF HonestParts, QuietAtStop
<1>8. dropped' = {}
  <2>1. y \in Events \/ y \in Msgs
    BY DEF Items
  <2>2. y \in Msgs => known[p] # NoItem
    BY <1>2 DEF HonestParts, SenderIsKnown
  <2> QED
    BY <1>2, <2>1, <2>2 DEF HandOver, HonestParts
<1>9. ASSUME NEW q \in Peers, q # p PROVE SenderIsKnown(q)'
  BY <1>3, <1>4, <1>5, <1>9 DEF HonestParts, SenderIsKnown, IsOurs
<1>10. SenderIsKnown(p)'
  <2>1. step = "tell" => HasPools
    BY <1>1 DEF StepFollowsStatus, HasPools
  <2>2. SenderIsKnown(p) /\ (y = "Disconnected" => ~IsOurs(p))
    BY <1>1, <1>2 DEF HonestParts, IsFit
  <2> QED
    BY <1>2, <1>3, <1>4, <1>5, <2>1, <2>2, ItemsAre DEF SenderIsKnown, IsOurs
<1> QED
  BY <1>6, <1>7, <1>8, <1>9, <1>10 DEF HonestParts

LEMMA UpdatesAreHonest ==
    ASSUME KInv, HonestParts, NEW p \in Peers, Broadcast(p) \/ HearUpdate(p)
    PROVE  HonestParts'
<1>1. /\ UNCHANGED <<enabled, status, listed, recent, step, bulk, calling, known, setting, spent>>
      /\ dropped' = dropped
  BY DEF Broadcast, HearUpdate, managerVars, controlVars
<1>2. peer \in [Peers -> PeerRecords]
  BY DEF KInv, IInv, Types, PeerTypes
<1>3. \A q \in Peers : peer'[q].st = peer[q].st /\ peer'[q].has = peer[q].has
  BY <1>2 DEF Broadcast, HearUpdate, PeerRecords
<1>4. \A q \in Peers : /\ peer'[q].told \in {peer[q].told, peer[q].sent}
                       /\ peer'[q].sent \in {peer[q].sent, listed}
  BY <1>2 DEF Broadcast, HearUpdate, PeerRecords
<1>5. step = "broadcast" \/ (left' = left /\ \A q \in Peers : peer'[q].sent = peer[q].sent)
  BY <1>2 DEF Broadcast, HearUpdate, PeerRecords, managerVars
<1>6. NobodyTold => NobodyTold'
  BY <1>1, <1>4 DEF NobodyTold
<1>7. StartsOnce' /\ QuietAtStop'
  BY <1>1, <1>6 DEF HonestParts, StartsOnce, QuietAtStop
<1>8. \A q \in Peers : SenderIsKnown(q)'
  BY <1>1, <1>3, <1>4, <1>5 DEF HonestParts, SenderIsKnown, IsOurs
<1> QED
  BY <1>1, <1>7, <1>8 DEF HonestParts

LEMMA TellIsHonest ==
    ASSUME ExtendersAssumption, KInv, HonestParts, NEW p \in Peers, Tell(p)
    PROVE  HonestParts'
<1>1. IInv
  BY DEF KInv
<1>2. /\ \A q \in Peers : q # p => known'[q] = known[q]
      /\ calling[p] = NoItem /\ left' = left \ {p}
      /\ UNCHANGED <<status, step, peer, setting, spent, calling>>
  BY <1>1, TellKeeps, TellIs
<1>3. UNCHANGED <<listed, recent, bulk, dropped>>
  BY DEF Tell
<1>4. StartsOnce' /\ QuietAtStop'
  BY <1>2, <1>3 DEF HonestParts, StartsOnce, QuietAtStop, NobodyTold
<1>5. \A q \in Peers : SenderIsKnown(q)'
  BY <1>2, ItemsAre DEF HonestParts, SenderIsKnown, IsOurs
<1> QED
  BY <1>3, <1>4, <1>5 DEF HonestParts

\* Steps of the manager that leave the peers alone and change who is known only when nobody
\* hands over anything.
LEMMA ManagerIsHonest ==
    ASSUME ExtendersAssumption, UNCHANGED <<peer, calling, dropped>>,
           StartsOnce', QuietAtStop', HonestParts,
           \A q \in Peers : calling[q] \in Msgs => known'[q] = known[q],
           step' = "tell" => NobodyTold \/ (step = "tell" /\ left' = left /\ known' = known)
    PROVE  HonestParts'
<1>1. ASSUME NEW q \in Peers PROVE SenderIsKnown(q)'
  BY DEF HonestParts, SenderIsKnown, IsOurs, NobodyTold
<1> QED
  BY <1>1 DEF HonestParts

LEMMA StartIsHonest ==
    ASSUME ExtendersAssumption, KInv, Honest, HonestParts, AddExtender \/ StartExtenders
    PROVE  HonestParts'
<1>1. AddExtender
  BY DEF StartExtenders, Honest
<1>2. /\ UNCHANGED <<peer, calling, dropped, known, listed, setting>>
      /\ status' \in {status, "Startup"} /\ step' \in {"pools", "idle"} /\ recent' = FALSE
      /\ bulk' = FALSE \/ bulk' = bulk
      /\ status' = "Stopped" => step' = "idle" /\ step = "idle"
      /\ Count("starts") /\ Within("starts") /\ step = "idle"
  BY <1>1 DEF AddExtender, StartExtender, controlVars
<1>3. spent.starts = 0
  BY <1>2, SpentIs DEF Within, Honest
<1>4. NobodyTold /\ status = "Stopped" /\ ~bulk /\ \A q \in Peers : calling[q] = NoItem
  BY <1>3 DEF HonestParts, StartsOnce, QuietAtStop
<1>5. spent'.starts = 1
  BY <1>2, <1>3, SpentIs
<1>6. NobodyTold'
  BY <1>2, <1>4 DEF NobodyTold
<1>7. StartsOnce'
  BY <1>2, <1>4, <1>5, <1>6 DEF StartsOnce, NobodyTold
<1>8. QuietAtStop'
  BY <1>2, <1>4 DEF QuietAtStop
<1> QED
  BY <1>2, <1>7, <1>8, ManagerIsHonest

LEMMA StopIsHonest ==
    ASSUME ExtendersAssumption, KInv, Honest, HonestParts,
           StopOne \/ StopAll \/ RemoveExtender \/ GraceEnds
    PROVE  HonestParts'
<1>1. UNCHANGED <<peer, calling, dropped, known, listed, spent, left>>
  BY DEF StopOne, StopAll, ShutdownExtender, RemoveExtender, GraceEnds, controlVars
<1>2. CASE StopOne \/ StopAll
  <2>1. /\ status # "Stopped" /\ status' = "Shutdown" /\ step' = "deactivate" /\ ~bulk'
    BY <1>2 DEF StopOne, StopAll, ShutdownExtender, Honest
  <2>2. StartsOnce' /\ QuietAtStop'
    BY <1>1, <2>1 DEF HonestParts, StartsOnce, QuietAtStop
  <2> QED
    BY <1>1, <2>1, <2>2, ManagerIsHonest
<1>3. CASE RemoveExtender \/ GraceEnds
  <2>1. UNCHANGED <<status, step, bulk>> /\ step = "idle" /\ status = "Stopped"
    BY <1>3 DEF RemoveExtender, GraceEnds
  <2>2. status = "Stopped" /\ ~recent' => NobodyTold
    BY <1>3 DEF RemoveExtender, GraceEnds, HonestParts, StartsOnce, NobodyTold
  <2>3. StartsOnce' /\ QuietAtStop'
    BY <1>1, <2>1, <2>2 DEF HonestParts, StartsOnce, QuietAtStop, NobodyTold
  <2> QED
    BY <1>1, <2>1, <2>3, ManagerIsHonest
<1> QED
  BY <1>2, <1>3

LEMMA ProceedIsHonest ==
    ASSUME ExtendersAssumption, KInv, Honest, HonestParts,
           Activate \/ BeginBroadcast \/ EndBroadcast \/ Deactivate \/ ShutdownThreadPools
    PROVE  HonestParts'
<1>1. UNCHANGED <<peer, calling, dropped, known, spent, status, recent, bulk>>
  BY DEF Activate, BeginBroadcast, EndBroadcast, Deactivate, ShutdownThreadPools, controlVars
<1>2. StepFollowsStatus /\ spent.starts # 0
  BY DEF KInv, IInv, HonestParts, StartsOnce, Activate, BeginBroadcast, EndBroadcast, Deactivate,
     ShutdownThreadPools, Proceed
<1>3. CASE Activate
  <2>1. step = "activate" /\ step' = "tell" /\ NobodyTold /\ status = "Running"
    BY <1>2, <1>3 DEF Activate, Proceed, HonestParts, StartsOnce, StepFollowsStatus
  <2>2. StartsOnce' /\ QuietAtStop'
    BY <1>1, <1>2, <2>1 DEF HonestParts, StartsOnce, QuietAtStop
  <2> QED
    BY <1>1, <2>1, <2>2, ManagerIsHonest
<1>4. CASE BeginBroadcast \/ EndBroadcast
  <2>1. step \in {"tell", "broadcast"} /\ step' \in {"broadcast", "idle"} /\ listed' = listed
    BY <1>4 DEF BeginBroadcast, EndBroadcast, Proceed
  <2>2. StartsOnce' /\ QuietAtStop'
    BY <1>1, <1>2, <2>1 DEF HonestParts, StartsOnce, QuietAtStop, NobodyTold
  <2> QED
    BY <1>1, <2>1, <2>2, ManagerIsHonest
<1>5. CASE Deactivate
  <2>1. step = "deactivate" /\ step' = "end" /\ listed' = FALSE
    BY <1>5 DEF Deactivate, Proceed
  <2>2. \A q \in Peers : calling[q] = NoItem
    BY <1>5 DEF Deactivate, Alone, Unlocked, HonestParts, StartsOnce
  <2>3. StartsOnce' /\ QuietAtStop'
    BY <1>1, <1>2, <2>1, <2>2 DEF HonestParts, StartsOnce, QuietAtStop, NobodyTold
  <2> QED
    BY <1>1, <2>1, <2>3, ManagerIsHonest
<1>6. CASE ShutdownThreadPools
  <2>1. step = "end" /\ step' = "join" /\ listed' = listed
    BY <1>6 DEF ShutdownThreadPools, Proceed
  <2>2. StartsOnce' /\ QuietAtStop'
    BY <1>1, <1>2, <2>1 DEF HonestParts, StartsOnce, QuietAtStop, NobodyTold
  <2> QED
    BY <1>1, <2>1, <2>2, ManagerIsHonest
<1> QED
  BY <1>3, <1>4, <1>5, <1>6

LEMMA ShutdownPoolIsHonest ==
    ASSUME HonestParts, NEW k \in Pools, ShutdownPool(k)
    PROVE  HonestParts'
<1>1. UNCHANGED <<status, listed, recent, step, bulk, left, peer, calling, known, dropped, spent>>
  BY ShutdownPoolIs
<1> QED
  BY <1>1 DEF HonestParts, StartsOnce, NobodyTold, QuietAtStop, SenderIsKnown, IsOurs

LEMMA SettingStays ==
    ASSUME [ExtendersNext]_extVars
    PROVE  setting' = setting
BY DEF ExtendersNext, extVars, AddExtender, StartExtenders, StopOne, StopAll, ShutdownExtender,
   RemoveExtender, GraceEnds, ManagerNext, StartupThreadPools, Activate, Tell, Broadcast,
   BeginBroadcast, EndBroadcast, Deactivate, ShutdownThreadPools, ShutdownPool, Stopped, PeerStep,
   BecomeReady, Suspend, Resume, Disconnect, ChangeStatus, PeerExtenderUpdate, Message, HandOver,
   HearUpdate, ThreadStep, TakeSession, ThreadExits, NextEvent, HandleEvent, NextMessage,
   HandleMessage, Handle, ReportUnhandled, Requeue, KeepOthers

LEMMA PoolsAreHonest ==
    ASSUME ExtendersAssumption, KInv, Honest, HonestParts, StartupThreadPools \/ Stopped
    PROVE  HonestParts'
<1>1. UNCHANGED <<peer, calling, dropped, spent, bulk>> /\ step \in {"pools", "join"}
  BY DEF StartupThreadPools, Stopped, Proceed
<1>2. StepFollowsStatus
  BY DEF KInv, IInv
<1>3. /\ \A q \in Peers : calling[q] = NoItem /\ calling[q] \notin Msgs
      /\ spent.starts # 0
  BY <1>1, <1>2, ItemsAre DEF HonestParts, StartsOnce, QuietAtStop, StepFollowsStatus
<1>4. CASE StartupThreadPools
  <2>1. /\ step = "pools" /\ NobodyTold /\ listed' = listed
        /\ \/ step' = "activate" /\ status' = "Running"
           \/ step' = "idle" /\ status' = "Stopped" /\ recent' = TRUE
    BY <1>2, <1>4 DEF StartupThreadPools, HonestParts, StartsOnce, StepFollowsStatus
  <2>2. NobodyTold'
    BY <1>1, <2>1 DEF NobodyTold
  <2>3. StartsOnce' /\ QuietAtStop'
    BY <1>1, <1>3, <2>1, <2>2 DEF HonestParts, StartsOnce, QuietAtStop, NobodyTold
  <2> QED
    BY <1>1, <1>3, <2>1, <2>3, ManagerIsHonest
<1>5. CASE Stopped
  <2>1. step' = "broadcast" /\ status' = "Stopped" /\ recent' = TRUE /\ listed' = FALSE
    BY <1>5 DEF Stopped, Proceed
  <2>2. StartsOnce' /\ QuietAtStop'
    BY <1>1, <1>3, <2>1 DEF HonestParts, StartsOnce, QuietAtStop
  <2> QED
    BY <1>1, <1>3, <2>1, <2>2, ManagerIsHonest
<1> QED
  BY <1>4, <1>5

LEMMA NextIsHonest ==
    ASSUME ExtendersAssumption, KInv, HonestInv, [ExtendersNext]_extVars
    PROVE  HonestInv'
<1>1. setting' = setting
  BY SettingStays
<1>2. SUFFICES ASSUME Honest, HonestParts PROVE HonestParts'
  BY <1>1 DEF HonestInv, Honest, HonestParts
<1>3. CASE ExtendersNext
  <2>1. ASSUME NEW p \in Peers, PeerStep(p) PROVE HonestParts'
    BY <1>2, <2>1, PeerIsHonest, HandOverIsHonest, UpdatesAreHonest DEF PeerStep
  <2>2. ASSUME ManagerNext PROVE HonestParts'
    BY <1>2, <2>2, PoolsAreHonest, ProceedIsHonest, TellIsHonest, UpdatesAreHonest,
       ShutdownPoolIsHonest DEF ManagerNext
  <2>3. ASSUME NEW w \in Threads, ThreadStep(w) PROVE HonestParts'
    <3>1. KeepOthers
      BY <2>3 DEF ThreadStep, TakeSession, ThreadExits, NextEvent, HandleEvent, NextMessage,
         HandleMessage, Handle, ReportUnhandled, Requeue
    <3> QED
      BY <1>2, <3>1, HonestStays DEF KeepOthers
  <2> QED
    BY <1>2, <1>3, <2>1, <2>2, <2>3, StartIsHonest, StopIsHonest DEF ExtendersNext
<1>4. CASE UNCHANGED extVars
  BY <1>2, <1>4, HonestStays DEF extVars, controlVars
<1> QED
  BY <1>3, <1>4

LEMMA InitIsHonest ==
    ASSUME ExtendersAssumption, ExtendersInit
    PROVE  HonestInv
<1>1. /\ \A p \in Peers : ~peer[p].told /\ ~peer[p].sent /\ calling[p] = NoItem
      /\ spent.starts = 0 /\ status = "Stopped" /\ step = "idle" /\ ~bulk /\ ~listed
      /\ dropped = {}
  BY DEF ExtendersInit
<1> QED
  BY <1>1, ItemsAre DEF HonestInv, StartsOnce, NobodyTold, QuietAtStop, SenderIsKnown

LEMMA HonestInductive == ExtendersAssumption => (ExtendersSpec => []HInv)
<1> SUFFICES ASSUME ExtendersAssumption PROVE ExtendersSpec => []HInv
  OBVIOUS
<1>1. HInv /\ [ExtendersNext]_extVars => HInv'
  BY NextKeeps, NextKnows, NextIsHonest DEF HInv, KInv
<1>2. ExtendersInit => HInv
  BY InitIsEmpty, InitIsHonest DEF HInv
<1> QED
  BY <1>1, <1>2, PTL DEF ExtendersSpec

-----------------------------------------------------------------------------
LEMMA Inductive == ExtendersAssumption => (ExtendersSpec => []KInv)
<1> SUFFICES ASSUME ExtendersAssumption PROVE ExtendersSpec => []KInv
  OBVIOUS
<1>1. KInv /\ [ExtendersNext]_extVars => KInv'
  BY NextKeeps, NextKnows DEF KInv
<1> QED
  BY <1>1, InitIsEmpty, PTL DEF ExtendersSpec

\* What is told to stop is a pool.
EndedArePools == ended \subseteq Pools

LEMMA EndedStep ==
    ASSUME EndedArePools, [ExtendersNext]_extVars
    PROVE  EndedArePools'
<1>1. Pools' = Pools
  BY SettingStays, PoolsStay
<1>2. \/ ended' = ended \/ ended' = {}
      \/ \E k \in Pools : ended' = ended \cup {k}
  <2>1. ASSUME NEW p \in Peers, PeerStep(p) PROVE ended' = ended
    BY <2>1 DEF PeerStep, BecomeReady, Suspend, Resume, Disconnect, ChangeStatus,
       PeerExtenderUpdate, Message, HandOver, HearUpdate, managerVars
  <2>2. ASSUME NEW w \in Threads, ThreadStep(w) PROVE ended' = ended
    BY <2>2 DEF ThreadStep, TakeSession, ThreadExits, NextEvent, HandleEvent, NextMessage,
       HandleMessage, Handle, ReportUnhandled, Requeue, KeepOthers, managerVars
  <2>3. ASSUME ManagerNext
        PROVE  ended' \in {ended, {}} \/ \E k \in Pools : ended' = ended \cup {k}
    BY <2>3 DEF ManagerNext, StartupThreadPools, Activate, Tell, Broadcast, BeginBroadcast,
       EndBroadcast, Deactivate, ShutdownThreadPools, ShutdownPool, Stopped
  <2>4. CASE AddExtender \/ StartExtenders \/ StopOne \/ StopAll \/ RemoveExtender \/ GraceEnds
    BY <2>4 DEF AddExtender, StartExtenders, StopOne, StopAll, ShutdownExtender, RemoveExtender,
       GraceEnds
  <2>5. CASE UNCHANGED extVars
    BY <2>5 DEF extVars, managerVars
  <2> QED BY <2>1, <2>2, <2>3, <2>4, <2>5 DEF ExtendersNext
<1> QED BY <1>1, <1>2 DEF EndedArePools

\* The state of Core/Extender/ExtenderControl.cpp stays within its types: whatever is known,
\* queued or reported of a session is of one made since the last start.
THEOREM TypeCorrect == ExtendersSpec => []ExtendersTypeOK
<1>0. ExtendersAssumption
  BY ExtendersConstants
<1>1. ASSUME KInv, EndedArePools PROVE ExtendersTypeOK
  <2>1. ManagerTypes /\ QueueTypes
    BY <1>1 DEF KInv, IInv, Types
  <2>2. DOMAIN sessions = 1 .. Len(sessions) /\ DOMAIN heard = DOMAIN sessions
    BY <2>1 DEF QueueTypes
  <2>3. ASSUME NEW k \in Pools PROVE ToSet(queue[k]) \subseteq DOMAIN sessions
    <3>1. queue[k] \in Seq(1 .. Len(sessions))
      BY <2>1 DEF QueueTypes
    <3>2. \A j \in DOMAIN queue[k] : queue[k][j] \in 1 .. Len(sessions)
      BY <3>1
    <3> QED
      BY <2>2, <3>2 DEF ToSet
  <2> QED
    BY <1>1, <2>1, <2>2, <2>3
    DEF ExtendersTypeOK, ManagerTypes, QueueTypes, Steps, EndedArePools
<1>2. ExtendersInit => EndedArePools
  BY DEF ExtendersInit, EndedArePools
<1>3. ExtendersSpec => []EndedArePools
  BY <1>2, EndedStep, PTL DEF ExtendersSpec
<1> QED
  BY <1>0, <1>1, <1>3, Inductive, PTL

\* In whatever order the threads of a pool take a session from its queue and put it back
\* (Control::WorkerThreadProcessor), while the thread of its peer adds to it
\* (Control::AddPeerEvent), the extender hears of the session its Connected event first and
\* once, nothing after the Disconnected event, and messages in the order of their arrival.
THEOREM SessionsOrderly == ExtendersSpec => []SessionIsOrderly
<1>0. ExtendersAssumption
  BY ExtendersConstants
<1>1. ASSUME KInv PROVE SessionIsOrderly
  <2>1. QueueTypes /\ SessionsAreOrderly
    BY <1>1 DEF KInv, IInv, Types
  <2> SUFFICES ASSUME NEW i \in DOMAIN heard
               PROVE  /\ \A j \in DOMAIN heard[i] : (heard[i][j] = "Connected") <=> (j = 1)
                      /\ \A j \in DOMAIN heard[i] : heard[i][j] = "Disconnected" => j = Len(heard[i])
                      /\ \A j, k \in DOMAIN heard[i], a, b \in DOMAIN Messages :
                             j < k /\ heard[i][j] = Messages[a] /\ heard[i][k] = Messages[b] => a < b
    BY DEF SessionIsOrderly
  <2>2. i \in 1 .. Len(sessions) /\ heard[i] \in Seq(Items)
    BY <2>1, SessionIs DEF QueueTypes
  <2>3. DOMAIN heard[i] = 1 .. Len(heard[i])
    BY <2>2
  <2>4. \E x : InHand(i, x)
    BY DEF InHand, Held
  <2>5. PICK x : InHand(i, x)
    BY <2>4
  <2>6. Flow(i, x)
    BY <2>1, <2>2, <2>5 DEF SessionsAreOrderly
  <2>7. /\ Begins(heard[i], x, sessions[i].events)
        /\ Ends(heard[i], x, sessions[i].events, sessions[i].connected)
        /\ Ordered(heard[i], x, sessions[i].messages)
    BY <2>6 DEF Flow, Orderly
  <2>8. \A j, k \in 1 .. Len(heard[i]) : j < k => Before(heard[i][j], heard[i][k])
    BY <2>7 DEF Ordered
  <2> QED
    BY <2>3, <2>7, <2>8 DEF Begins, Ends, Before
<1> QED
  BY <1>0, <1>1, Inductive, PTL

\* However the start of the extender (Manager::StartExtender, Peer::OnLocalExtenderUpdate) races
\* with the peers that become ready, change their own extenders and disconnect, the running
\* extender knows exactly the peers that are ready and run it too.
THEOREM KnowsPeers == ExtendersSpec => []KnowsItsPeers
<1>0. ExtendersAssumption
  BY ExtendersConstants
<1>1. ASSUME KInv PROVE KnowsItsPeers
  <2> SUFFICES ASSUME step = "idle", status = "Running", ~setting.suspend,
                      NEW p \in Peers, Unlocked(p)
               PROVE  (known[p] # NoItem) <=> (peer[p].st \in {"Ready", "Suspended"} /\ peer[p].has)
    BY DEF KnowsItsPeers
  <2>1. IsFit(p) /\ calling[p] = NoItem
    BY <1>1 DEF KInv, PeersAreKnown, Unlocked
  <2>2. known[p] # NoItem <=> IsOurs(p)
    BY <1>0, <2>1, ItemsAre DEF IsFit, Untold
  <2> QED
    BY <2>1, <2>2 DEF IsFit, IsOurs
<1> QED
  BY <1>0, <1>1, Inductive, PTL

\* No peer is condemned for a message (Manager::OnPeerMessage, Control::AddPeerEvent) to an
\* extender that is being started or has been stopped, once, while the message was on its way:
\* whoever may send one is known, or the grace period lasts, and stopping one extender waits for
\* those who are handing something over.
THEOREM HonestKept == ExtendersSpec => []HonestPeerIsKept
<1>0. ExtendersAssumption
  BY ExtendersConstants
<1>1. HInv => HonestPeerIsKept
  BY DEF HInv, HonestInv, Honest, HonestPeerIsKept
<1> QED
  BY <1>0, <1>1, HonestInductive, PTL

\* What the extender hears of its peers, which it knows and which are condemned, for any
\* peers, pools, threads, messages and bursts, is as it should be.
THEOREM ExtenderServed == ExtendersSpec => []ExtenderIsServed
BY SessionsOrderly, KnowsPeers, HonestKept, PTL DEF ExtenderIsServed
=============================================================================
