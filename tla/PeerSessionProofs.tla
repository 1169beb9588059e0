------------------------- MODULE PeerSessionProofs -------------------------
(***************************************************************************)
(* Proofs about PeerSession, for any number of counter values, any receive *)
(* rate, any priorities and any scenario: the types; and that whoever is   *)
(* ready was accepted by both ends, the message counters of the two ends   *)
(* agree with what is under way between them, and whenever the keys are    *)
(* settled both ends use those of the last update.                         *)
(***************************************************************************)
EXTENDS PeerSession, SequenceTheorems, WellFoundedInduction, TLAPS

USE PeerSessionAssumption

-----------------------------------------------------------------------------
(* Counting modulo the number of counter values.                           *)

LEMMA Quotient ==
    ASSUME NEW M \in Nat, M > 0, NEW x \in Nat
    PROVE  \E q \in Int : x = M * q + (x % M)
<1>1. x \div M \in Int
  OBVIOUS
<1>2. x % M = x - M * (x \div M)
  OBVIOUS
<1> DEFINE q == x \div M
<1>3. q \in Int /\ x % M = x - M * q /\ M * q \in Int
  BY <1>1, <1>2
<1> HIDE DEF q
<1>4. x = M * q + (x % M)
  BY <1>3
<1> QED
  BY <1>3, <1>4

LEMMA Remainder ==
    ASSUME NEW M \in Nat, M > 0, NEW x \in Nat, NEW q \in Int, NEW r \in 0 .. M - 1, x = M * q + r
    PROVE  x % M = r
OBVIOUS

LEMMA CountOn ==
    ASSUME NEW M \in Nat, M > 0, NEW x \in Nat, NEW y \in Nat
    PROVE  ((x % M) + y) % M = (x + y) % M
<1>1. PICK q \in Int : x = M * q + (x % M)
  BY Quotient
<1>2. x % M \in 0 .. M - 1 /\ x % M \in Nat
  OBVIOUS
<1> DEFINE z == (x % M) + y
<1>3. z \in Nat
  BY <1>2
<1>4. PICK p \in Int : z = M * p + (z % M)
  BY <1>3, Quotient
<1>5. z % M \in 0 .. M - 1
  BY <1>3
<1>6. z = (x % M) + y
  OBVIOUS
<1> HIDE DEF z
<1> DEFINE w == x % M
<1>7. x = M * q + w /\ z = w + y /\ z = M * p + (z % M) /\ w \in Nat /\ z % M \in Nat /\ M * q \in Int
      /\ M * p \in Int
  BY <1>1, <1>2, <1>4, <1>5, <1>6
<1> HIDE DEF w
<1>8. x + y = M * q + (M * p + (z % M))
  BY <1>7
<1>9. M * q + M * p = M * (q + p) /\ q + p \in Int
  OBVIOUS
<1>10. x + y = M * (q + p) + (z % M) /\ x + y \in Nat
  BY <1>7, <1>8, <1>9
<1>11. (x + y) % M = z % M
  BY <1>10, <1>5, <1>9, Remainder
<1> QED
  BY <1>11 DEF z

LEMMA CounterRange ==
    ASSUME NEW x \in Nat
    PROVE  x % CounterModulus \in 0 .. CounterModulus - 1 /\ x % CounterModulus # None
<1>1. CounterModulus \in Nat /\ CounterModulus > 0 /\ None \notin Nat
  OBVIOUS
<1>2. x % CounterModulus \in 0 .. CounterModulus - 1
  BY <1>1
<1> QED
  BY <1>1, <1>2

LEMMA NextCounterType ==
    ASSUME NEW c \in Counters
    PROVE  /\ NextCounter(c) \in Counters
           /\ NextCounter(c) = None <=> c = None
           /\ c # None => c \in Nat /\ NextCounter(c) = (c + 1) % CounterModulus
<1>1. CASE c = None
  BY <1>1 DEF NextCounter, Counters
<1>2. CASE c # None
  <2>1. c \in Nat /\ NextCounter(c) = (c + 1) % CounterModulus
    BY <1>2 DEF NextCounter, Counters
  <2>2. NextCounter(c) \in 0 .. CounterModulus - 1 /\ NextCounter(c) # None
    BY <2>1, CounterRange
  <2> QED
    BY <1>2, <2>1, <2>2 DEF Counters
<1> QED
  BY <1>1, <1>2

-----------------------------------------------------------------------------
(* A stream of transports: from the k-th on they carry the counters after  *)
(* a, and the sender's counter is the last of them.                        *)

Counted(w, local, a, k) ==
    /\ \A i \in 1 .. Len(w) : i >= k => w[i].counter = (a + (i - k)) % CounterModulus
    /\ local = (a + (Len(w) - k)) % CounterModulus

LEMMA CountedLocal ==
    ASSUME NEW w \in Seq(Transports), NEW local, NEW a \in Nat, NEW k \in 0 .. Len(w),
           Counted(w, local, a, k)
    PROVE  local \in 0 .. CounterModulus - 1 /\ local # None
<1>1. Len(w) \in Nat /\ a + (Len(w) - k) \in Nat
  BY LenProperties
<1> QED
  BY <1>1, CounterRange DEF Counted

LEMMA CountedSend ==
    ASSUME NEW w \in Seq(Transports), NEW local, NEW a \in Nat, NEW k \in 0 .. Len(w),
           Counted(w, local, a, k), NEW t \in Transports, t.counter = NextCounter(local)
    PROVE  Counted(Append(w, t), NextCounter(local), a, k)
<1>1. Len(w) \in Nat /\ a + (Len(w) - k) \in Nat
  BY LenProperties
<1> DEFINE x == a + (Len(w) - k)
<1>2. local = x % CounterModulus /\ local # None
  BY CountedLocal DEF Counted
<1>3. NextCounter(local) = ((x % CounterModulus) + 1) % CounterModulus
  BY <1>2 DEF NextCounter
<1>4. CounterModulus \in Nat /\ CounterModulus > 0
  OBVIOUS
<1>5. x \in Nat
  BY <1>1
<1> HIDE DEF x
<1>6. NextCounter(local) = (x + 1) % CounterModulus
  BY <1>3, <1>4, <1>5, CountOn
<1>7. x + 1 = a + ((Len(w) + 1) - k)
  BY <1>1 DEF x
<1>8. /\ Len(Append(w, t)) = Len(w) + 1
      /\ \A i \in 1 .. Len(w) : Append(w, t)[i] = w[i]
      /\ Append(w, t)[Len(w) + 1] = t
  BY AppendProperties
<1>9. ASSUME NEW i \in 1 .. Len(w) + 1, i >= k
      PROVE  Append(w, t)[i].counter = (a + (i - k)) % CounterModulus
  <2>1. CASE i = Len(w) + 1
    BY <1>6, <1>7, <1>8, <2>1
  <2>2. CASE i # Len(w) + 1
    <3>1. i \in 1 .. Len(w)
      BY <1>1, <2>2
    <3> QED
      BY <1>8, <1>9, <3>1 DEF Counted
  <2> QED
    BY <2>1, <2>2
<1> QED
  BY <1>6, <1>7, <1>8, <1>9 DEF Counted

\* The stream without its first transport.
LEMMA TailOf ==
    ASSUME NEW S, NEW w \in Seq(S), w # <<>>
    PROVE  /\ Tail(w) \in Seq(S) /\ Len(Tail(w)) = Len(w) - 1 /\ Len(w) \in Nat /\ Len(w) >= 1
           /\ Len(Tail(w)) \in Nat
           /\ \A i \in 1 .. Len(Tail(w)) : i + 1 \in 1 .. Len(w) /\ Tail(w)[i] = w[i + 1]
           /\ Head(w) = w[1] /\ Head(w) \in S
<1>1. Len(w) \in Nat /\ Len(w) >= 1
  BY EmptySeq, LenProperties
<1>2. Tail(w) \in Seq(S) /\ Len(Tail(w)) = Len(w) - 1
      /\ \A i \in 1 .. Len(Tail(w)) : Tail(w)[i] = w[i + 1]
  BY HeadTailProperties
<1>3. Head(w) = w[1] /\ Head(w) \in S
  BY HeadTailProperties
<1> QED
  BY <1>1, <1>2, <1>3

LEMMA CountedLater ==
    ASSUME NEW w \in Seq(Transports), w # <<>>, NEW local, NEW a \in Nat, NEW k \in 1 .. Len(w),
           Counted(w, local, a, k)
    PROVE  Counted(Tail(w), local, a, k - 1)
<1>1. /\ Len(Tail(w)) = Len(w) - 1 /\ Len(w) \in Nat /\ Len(w) >= 1
      /\ \A i \in 1 .. Len(Tail(w)) : i + 1 \in 1 .. Len(w) /\ Tail(w)[i] = w[i + 1]
  BY TailOf
<1>2. (Len(w) - 1) - (k - 1) = Len(w) - k
  BY <1>1
<1>3. local = (a + (Len(Tail(w)) - (k - 1))) % CounterModulus
  BY <1>1, <1>2 DEF Counted
<1>4. ASSUME NEW i \in 1 .. Len(Tail(w)), i >= k - 1
      PROVE  Tail(w)[i].counter = (a + (i - (k - 1))) % CounterModulus
  <2>1. i + 1 \in 1 .. Len(w) /\ i + 1 >= k /\ Tail(w)[i] = w[i + 1]
    BY <1>1, <1>4
  <2>2. w[i + 1].counter = (a + ((i + 1) - k)) % CounterModulus
    BY <2>1 DEF Counted
  <2>3. (i + 1) - k = i - (k - 1)
    BY <1>1
  <2> QED
    BY <2>1, <2>2, <2>3
<1> QED
  BY <1>3, <1>4 DEF Counted

LEMMA CountedTake ==
    ASSUME NEW w \in Seq(Transports), w # <<>>, NEW local, NEW a \in Nat,
           Counted(w, local, a, 0)
    PROVE  Counted(Tail(w), local, (a + 1) % CounterModulus, 0)
<1>1. /\ Len(Tail(w)) = Len(w) - 1 /\ Len(w) \in Nat /\ Len(w) >= 1
      /\ \A i \in 1 .. Len(Tail(w)) : i + 1 \in 1 .. Len(w) /\ Tail(w)[i] = w[i + 1]
  BY TailOf
<1>2. CounterModulus \in Nat /\ CounterModulus > 0 /\ a + 1 \in Nat
  OBVIOUS
<1>3. ASSUME NEW j \in Nat
      PROVE  (((a + 1) % CounterModulus) + (j - 0)) % CounterModulus
             = (a + ((j + 1) - 0)) % CounterModulus
  <2>1. (((a + 1) % CounterModulus) + j) % CounterModulus = ((a + 1) + j) % CounterModulus
    BY <1>2, CountOn
  <2>2. (a + 1) + j = a + (j + 1) /\ j - 0 = j /\ (j + 1) - 0 = j + 1
    OBVIOUS
  <2> QED
    BY <2>1, <2>2
<1>4. local = (((a + 1) % CounterModulus) + (Len(Tail(w)) - 0)) % CounterModulus
  <2>1. Len(w) - 1 \in Nat /\ (Len(w) - 1) + 1 = Len(w)
    BY <1>1
  <2>2. local = (a + (((Len(w) - 1) + 1) - 0)) % CounterModulus
    BY <2>1 DEF Counted
  <2> QED
    BY <1>1, <1>3, <2>1, <2>2
<1>5. ASSUME NEW i \in 1 .. Len(Tail(w)), i >= 0
      PROVE  Tail(w)[i].counter = (((a + 1) % CounterModulus) + (i - 0)) % CounterModulus
  <2>1. i + 1 \in 1 .. Len(w) /\ i \in Nat /\ i + 1 >= 0
    BY <1>1
  <2>2. w[i + 1].counter = (a + ((i + 1) - 0)) % CounterModulus
    BY <2>1 DEF Counted
  <2> QED
    BY <1>1, <1>3, <2>1, <2>2
<1> QED
  BY <1>4, <1>5 DEF Counted

-----------------------------------------------------------------------------
(* Symmetric keys.                                                         *)

KeyLists == {k \in Seq(KeyPairs) : Len(k) <= MaxKeyPairs}

LEMMA KeyNameTypes ==
    ASSUME NEW n \in Numbers
    PROVE  Primary(n) \in KeyNames /\ Secondary(n) \in KeyNames
BY DEF Primary, Secondary, KeyNames

LEMMA OtherKeyNames == SharedSecret \in KeyNames /\ AutoGen \in KeyNames
BY DEF SharedSecret, AutoGen, KeyNames, Numbers

LEMMA AddKeyPairType ==
    ASSUME NEW keys \in KeyLists, NEW name \in KeyNames, NEW encrypt \in BOOLEAN
    PROVE  AddKeyPair(keys, name, encrypt) \in KeyLists
<1> DEFINE pair == [name |-> name, encrypt |-> encrypt, age |-> "current"]
           longer == <<pair>> \o keys
<1>1. pair \in KeyPairs
  BY DEF KeyPairs
<1>2. keys \in Seq(KeyPairs) /\ Len(keys) <= 4
  BY DEF KeyLists, MaxKeyPairs
<1> HIDE DEF pair
<1>3. <<pair>> \in Seq(KeyPairs) /\ Len(<<pair>>) = 1
  BY <1>1
<1>4. longer \in Seq(KeyPairs) /\ Len(longer) = 1 + Len(keys)
  BY <1>2, <1>3, ConcatProperties
<1>5. Len(keys) \in Nat /\ Len(longer) \in Nat
  BY <1>2, <1>4, LenProperties
<1>6. AddKeyPair(keys, name, encrypt) = IF Len(longer) > 4 THEN Front(longer) ELSE longer
  BY DEF AddKeyPair, pair, MaxKeyPairs
<1> HIDE DEF longer
<1>7. CASE Len(longer) > 4
  <2>1. Front(longer) = SubSeq(longer, 1, Len(longer) - 1)
    BY DEF Front
  <2>2. /\ SubSeq(longer, 1, Len(longer) - 1) \in Seq(KeyPairs)
        /\ Len(SubSeq(longer, 1, Len(longer) - 1)) = Len(longer) - 1
    <3>1. 1 \in 1 .. Len(longer) + 1 /\ Len(longer) - 1 \in 1 - 1 .. Len(longer)
      BY <1>5, <1>7
    <3>2. \A i \in 1 .. Len(longer) - 1 : longer[i] \in KeyPairs
      BY <1>4, <1>5, ElementOfSeq
    <3> QED
      BY <1>4, <1>5, <1>7, <3>1, <3>2, SubSeqProperties
  <2>3. Len(longer) - 1 <= 4
    BY <1>2, <1>4, <1>5
  <2> QED
    BY <1>6, <1>7, <2>1, <2>2, <2>3 DEF KeyLists, MaxKeyPairs
<1>8. CASE ~(Len(longer) > 4)
  BY <1>4, <1>5, <1>6, <1>8 DEF KeyLists, MaxKeyPairs
<1> QED
  BY <1>7, <1>8

\* A list made pair by pair from another one.
LEMMA KeysEachType ==
    ASSUME NEW keys \in KeyLists, NEW new \in [DOMAIN keys -> KeyPairs]
    PROVE  new \in KeyLists
<1>1. keys \in Seq(KeyPairs) /\ DOMAIN keys = 1 .. Len(keys) /\ Len(keys) \in Nat
  BY LenProperties DEF KeyLists
<1>2. new \in Seq(KeyPairs)
  BY <1>1, SeqDef
<1>3. Len(new) = Len(keys)
  <2>1. DOMAIN new = 1 .. Len(keys)
    BY <1>1
  <2> QED
    BY <1>1, <1>2, <2>1, LenProperties
<1> QED
  BY <1>1, <1>2, <1>3 DEF KeyLists

LEMMA KeyElement ==
    ASSUME NEW keys \in KeyLists, NEW i \in DOMAIN keys
    PROVE  keys[i] \in KeyPairs /\ i \in 1 .. Len(keys) /\ Len(keys) \in Nat
BY LenProperties, ElementOfSeq DEF KeyLists

LEMMA StartUsingType ==
    ASSUME NEW keys \in KeyLists, NEW name
    PROVE  StartUsing(keys, name) \in KeyLists
<1>0. \A k \in KeyPairs : [k EXCEPT !.encrypt = TRUE] \in KeyPairs
  BY DEF KeyPairs
<1>1. \A i \in DOMAIN keys : [keys[i] EXCEPT !.encrypt = TRUE] \in KeyPairs /\ keys[i] \in KeyPairs
  BY <1>0, KeyElement
<1>2. StartUsing(keys, name) \in [DOMAIN keys -> KeyPairs]
  BY <1>1 DEF StartUsing
<1> QED
  BY <1>2, KeysEachType

LEMMA ExpireType ==
    ASSUME NEW keys \in KeyLists
    PROVE  ExpireAllExceptLatest(keys) \in KeyLists
<1>1. \A i \in DOMAIN keys : [keys[i] EXCEPT !.age = "grace"] \in KeyPairs /\ keys[i] \in KeyPairs
  BY KeyElement DEF KeyPairs
<1>2. ExpireAllExceptLatest(keys) \in [DOMAIN keys -> KeyPairs]
  BY <1>1 DEF ExpireAllExceptLatest
<1> QED
  BY <1>2, KeysEachType

LEMMA ExchangeKeysType ==
    ASSUME NEW keys \in KeyLists, NEW type, NEW n \in Numbers
    PROVE  ExchangeKeys(keys, type, n) \in KeyLists
<1>1. Primary(n) \in KeyNames /\ Secondary(n) \in KeyNames
  BY KeyNameTypes
<1>2. /\ AddKeyPair(keys, Primary(n), FALSE) \in KeyLists
      /\ AddKeyPair(keys, Primary(n), TRUE) \in KeyLists
      /\ AddKeyPair(keys, Secondary(n), TRUE) \in KeyLists
  BY <1>1, AddKeyPairType
<1>3. StartUsing(keys, Primary(n)) \in KeyLists /\ StartUsing(keys, Secondary(n)) \in KeyLists
  BY StartUsingType
<1>4. AddKeyPair(StartUsing(keys, Primary(n)), Secondary(n), FALSE) \in KeyLists
  BY <1>1, <1>3, AddKeyPairType
<1> QED
  BY <1>2, <1>3, <1>4 DEF ExchangeKeys

LEMMA LeastElement ==
    ASSUME NEW T, T \subseteq Nat, T # {}
    PROVE  \E i \in T : \A j \in T : i <= j
<1>1. PICK i \in T : \A j \in T : <<j, i>> \notin OpToRel(<, Nat)
  BY NatLessThanWellFounded, WFMin
<1>2. \A j \in T : ~(j < i)
  BY <1>1 DEF OpToRel
<1>3. \A j \in T : i <= j
  BY <1>2
<1> QED
  BY <1>3

\* The key a peer encrypts with.
LEMMA EncryptionKeyType ==
    ASSUME NEW r \in PeerRecords, EncryptionKey(r) # None
    PROVE  EncryptionKey(r) \in KeyNames
<1>1. r.keys \in KeyLists
  BY DEF PeerRecords, KeyLists
<1>2. CASE Usable(r) # {}
  <2>1. Usable(r) \subseteq Nat /\ Usable(r) \subseteq DOMAIN r.keys
    BY <1>1, KeyElement DEF Usable
  <2>3. \E i \in Usable(r) : \A j \in Usable(r) : i <= j
    BY <1>2, <2>1, LeastElement
  <2>4. (CHOOSE i \in Usable(r) : \A j \in Usable(r) : i <= j) \in Usable(r)
    BY <2>3
  <2>5. \A i \in DOMAIN r.keys : r.keys[i].name \in KeyNames
    BY <1>1, KeyElement DEF KeyPairs
  <2> QED
    BY <1>2, <2>1, <2>4, <2>5 DEF EncryptionKey
<1>3. CASE Usable(r) = {}
  BY <1>3, OtherKeyNames DEF EncryptionKey
<1> QED
  BY <1>2, <1>3
-----------------------------------------------------------------------------
(* What the operators on a peer leave alone.                               *)

\* Everything but the keys, the key update and what is only remembered.
Outer(r) == <<r.status, r.normal, r.delayed, r.expedited, r.deferred, r.held, r.localCounter,
              r.peerCounter, r.accepts, r.condition>>

LEMMA ReleaseFields ==
    ASSUME NEW r \in PeerRecords
    PROVE  ReleaseKeyExchange(r) \in PeerRecords /\ Outer(ReleaseKeyExchange(r)) = Outer(r)
<1>1. r.keys \in KeyLists
  BY DEF PeerRecords, KeyLists
<1>2. ExpireAllExceptLatest(r.keys) \in KeyLists
  BY <1>1, ExpireType
<1> DEFINE e == ExpireAllExceptLatest(r.keys)
<1>3. ReleaseKeyExchange(r) = [r EXCEPT !.exchange = None, !.keys = e]
  BY DEF ReleaseKeyExchange
<1> HIDE DEF e
<1>4. e \in {k \in Seq(KeyPairs) : Len(k) <= MaxKeyPairs}
  BY <1>2 DEF e, KeyLists
<1> QED
  BY <1>3, <1>4 DEF PeerRecords, Numbers, Outer

LEMMA SetUpdateStatusFields ==
    ASSUME NEW r \in PeerRecords, NEW st \in UpdateStatuses
    PROVE  SetUpdateStatus(r, st) \in PeerRecords /\ Outer(SetUpdateStatus(r, st)) = Outer(r)
<1> DEFINE n == [r EXCEPT !.update = st]
<1>1. n \in PeerRecords /\ Outer(n) = Outer(r)
  BY DEF PeerRecords, Outer
<1>2. [n EXCEPT !.resume = r.update] \in PeerRecords /\ Outer([n EXCEPT !.resume = r.update]) = Outer(r)
  BY DEF PeerRecords, Outer
<1>3. ReleaseKeyExchange(n) \in PeerRecords /\ Outer(ReleaseKeyExchange(n)) = Outer(r)
  BY <1>1, ReleaseFields
<1> QED
  BY <1>1, <1>2, <1>3 DEF SetUpdateStatus

LEMMA NewKeysFields ==
    ASSUME NEW r \in PeerRecords, NEW type, NEW n \in Numbers
    PROVE  LET s == [r EXCEPT !.keys = ExchangeKeys(@, type, n)]
           IN  s \in PeerRecords /\ Outer(s) = Outer(r)
<1>1. r.keys \in KeyLists
  BY DEF PeerRecords, KeyLists
<1> DEFINE k == ExchangeKeys(r.keys, type, n)
<1>2. k \in {x \in Seq(KeyPairs) : Len(x) <= MaxKeyPairs}
  BY <1>1, ExchangeKeysType DEF KeyLists
<1> HIDE DEF k
<1>3. [r EXCEPT !.keys = k] \in PeerRecords /\ Outer([r EXCEPT !.keys = k]) = Outer(r)
  BY <1>2 DEF PeerRecords, Outer
<1> QED
  BY <1>3 DEF k

LEMMA CondemnFields ==
    ASSUME NEW r \in PeerRecords, NEW why \in Conditions
    PROVE  /\ Condemn(r, why) \in PeerRecords
           /\ Condemn(r, why).condition # None
           /\ Outer(Condemn(r, why)) = Outer([r EXCEPT !.condition = Condemn(r, why).condition])
BY DEF Condemn, PeerRecords, Outer

-----------------------------------------------------------------------------
(* Ordinary steps of a peer: it starts no session and moves no message      *)
(* counter.                                                                *)

SessionTypes == {"BeginSessionInit", "EndSessionInit"}
IsSession(m) == m.type \in SessionTypes

Handshaking == {"Connected", "MetaExchange", "PrimaryKeyExchange", "SecondaryKeyExchange",
                "Authentication"}
NotReady == Handshaking \cup {"SessionInit"}

LEMMA StatusSet == Statuses = NotReady \cup {"Ready", "Suspended", "Disconnected"}
BY DEF Statuses, Handshake, ToSet, NotReady, Handshaking

StatusMoves(p, r, s) ==
    \/ s.status = r.status
    \/ r.status \in {"Ready", "Suspended"} /\ s.status \in {"Ready", "Suspended"}
    \/ s.status = "Disconnected"
    \/ r.status \in Handshaking /\ s.status \in Handshaking
    \/ r.status = "Authentication" /\ p = Outbound /\ r.accepts /\ s.status = "SessionInit"

QueuesGrow(p, r, s) ==
    /\ \/ s.normal = r.normal
       \/ /\ r.status \notin NotReady
          /\ \E m \in Messages : /\ s.normal = Append(r.normal, m)
                                 /\ ~IsSession(m) /\ m.type # "EndAuthentication"
    /\ \/ s.delayed = r.delayed
       \/ \E m \in Messages : /\ s.delayed = Append(r.delayed, m)
                              /\ ~IsSession(m)
                              /\ m.type = "EndAuthentication" => p = Outbound /\ r.accepts
    /\ s.expedited = r.expedited \/ s.expedited = Append(r.expedited, Extender)
    /\ s.deferred = r.deferred

Ordinary(p, r, s) ==
    /\ s \in PeerRecords
    /\ s.accepts = r.accepts /\ s.localCounter = r.localCounter /\ s.peerCounter = r.peerCounter
    /\ s.condition = None => r.condition = None
    /\ r.status \in NotReady => s.held = r.held
    /\ StatusMoves(p, r, s)
    /\ QueuesGrow(p, r, s)

LEMMA OuterIsOrdinary ==
    ASSUME NEW p, NEW r \in PeerRecords, NEW s \in PeerRecords, Outer(s) = Outer(r)
    PROVE  Ordinary(p, r, s)
BY DEF Outer, Ordinary, StatusMoves, QueuesGrow

LEMMA CondemnedIsOrdinary ==
    ASSUME NEW p, NEW r \in PeerRecords, NEW s \in PeerRecords, Ordinary(p, r, s), NEW why \in Conditions
    PROVE  Ordinary(p, r, Condemn(s, why)) /\ Condemn(s, why).condition # None
<1> DEFINE t == Condemn(s, why)
<1>1. t \in PeerRecords /\ t.condition # None /\ Outer(t) = Outer([s EXCEPT !.condition = t.condition])
  BY CondemnFields
<1> HIDE DEF t
<1>2. /\ t.status = s.status /\ t.normal = s.normal /\ t.delayed = s.delayed /\ t.held = s.held
      /\ t.expedited = s.expedited /\ t.deferred = s.deferred /\ t.accepts = s.accepts
      /\ t.localCounter = s.localCounter /\ t.peerCounter = s.peerCounter
  BY <1>1 DEF Outer, PeerRecords
<1>3. Ordinary(p, r, t)
  BY <1>1, <1>2 DEF Ordinary, StatusMoves, QueuesGrow
<1> QED
  BY <1>1, <1>3 DEF t

\* The parts of an ordinary step that queues a message of a key update.
LEMMA NormalFields ==
    ASSUME NEW p, NEW r \in PeerRecords, r.status \notin NotReady, NEW s \in PeerRecords,
           Outer(s) = Outer(r), NEW m \in Messages, ~IsSession(m), m.type # "EndAuthentication"
    PROVE  LET t == Queue(s, m, "normal")
           IN  t \in PeerRecords /\ \A u \in PeerRecords : Outer(u) = Outer(t) => Ordinary(p, r, u)
<1> DEFINE t == Queue(s, m, "normal")
<1>1. t = [s EXCEPT !.normal = Append(@, m)]
  BY DEF Queue
<1>2. s.normal \in Seq(Messages) /\ Append(s.normal, m) \in Seq(Messages)
  BY AppendProperties DEF PeerRecords
<1> HIDE DEF t
<1>3. /\ t \in PeerRecords
      /\ t.normal = Append(r.normal, m) /\ t.status = r.status /\ t.delayed = r.delayed
      /\ t.held = r.held /\ t.expedited = r.expedited /\ t.deferred = r.deferred
      /\ t.accepts = r.accepts /\ t.condition = r.condition
      /\ t.localCounter = r.localCounter /\ t.peerCounter = r.peerCounter
  BY <1>1, <1>2 DEF Outer, PeerRecords
<1>4. ASSUME NEW u \in PeerRecords, Outer(u) = Outer(t)
      PROVE  Ordinary(p, r, u)
  <2>1. /\ u.normal = Append(r.normal, m) /\ u.status = r.status /\ u.delayed = r.delayed
        /\ u.held = r.held /\ u.expedited = r.expedited /\ u.deferred = r.deferred
        /\ u.accepts = r.accepts /\ u.condition = r.condition
        /\ u.localCounter = r.localCounter /\ u.peerCounter = r.peerCounter
    BY <1>3, <1>4 DEF Outer
  <2> QED
    BY <2>1 DEF Ordinary, StatusMoves, QueuesGrow
<1> QED
  BY <1>3, <1>4 DEF t
-----------------------------------------------------------------------------
(* Messages.                                                               *)

LEMMA KnownTypes ==
    /\ {"Noise", "ExtenderCommunication", "ExtenderUpdate", "KeyUpdateReady",
        "BeginPrimaryUpdate"} \subseteq Types
    /\ \A s \in HandshakeSteps \cup UpdateSteps : s.type \in Types
BY DEF Types

LEMMA RepliesAreKnown ==
    /\ {"BeginMeta", "EndMeta", "BeginPrimary", "EndPrimary", "BeginSecondary", "EndSecondary",
        "BeginAuthentication", "EndAuthentication"} \subseteq Types
    /\ {"BeginSessionInit", "EndSessionInit"} \subseteq Types
    /\ {"EndPrimaryUpdate", "BeginSecondaryUpdate", "EndSecondaryUpdate", "KeyUpdateReady"}
       \subseteq Types
<1>1. /\ Step(Outbound, "MetaExchange", "BeginMeta", "EndMeta", "PrimaryKeyExchange") \in HandshakeSteps
      /\ Step(Inbound, "MetaExchange", "EndMeta", "BeginPrimary", "PrimaryKeyExchange") \in HandshakeSteps
      /\ Step(Outbound, "PrimaryKeyExchange", "BeginPrimary", "EndPrimary", "SecondaryKeyExchange") \in HandshakeSteps
      /\ Step(Inbound, "PrimaryKeyExchange", "EndPrimary", "BeginSecondary", "SecondaryKeyExchange") \in HandshakeSteps
      /\ Step(Outbound, "SecondaryKeyExchange", "BeginSecondary", "EndSecondary", "Authentication") \in HandshakeSteps
      /\ Step(Inbound, "SecondaryKeyExchange", "EndSecondary", "BeginAuthentication", "Authentication") \in HandshakeSteps
      /\ Step(Outbound, "Authentication", "BeginAuthentication", "EndAuthentication", "SessionInit") \in HandshakeSteps
      /\ Step(Inbound, "Authentication", "EndAuthentication", "BeginSessionInit", "SessionInit") \in HandshakeSteps
      /\ Step(Outbound, "SessionInit", "BeginSessionInit", "EndSessionInit", "Ready") \in HandshakeSteps
      /\ Step(Inbound, "SessionInit", "EndSessionInit", None, "Ready") \in HandshakeSteps
  BY DEF HandshakeSteps
<1>2. /\ Step(Inbound, "PrimaryExchange", "EndPrimaryUpdate", "BeginSecondaryUpdate", "SecondaryExchange") \in UpdateSteps
      /\ Step(Outbound, "SecondaryExchange", "BeginSecondaryUpdate", "EndSecondaryUpdate", "ReadyWait") \in UpdateSteps
      /\ Step(Inbound, "SecondaryExchange", "EndSecondaryUpdate", "KeyUpdateReady", "ReadyWait") \in UpdateSteps
  BY DEF UpdateSteps
<1>3. \A side, at, type, reply, next : Step(side, at, type, reply, next).type = type
  BY DEF Step
<1> HIDE DEF HandshakeSteps, UpdateSteps
<1>4. \A side, at, type, reply, next :
        Step(side, at, type, reply, next) \in HandshakeSteps \cup UpdateSteps => type \in Types
  BY <1>3, KnownTypes
<1> QED
  BY <1>1, <1>2, <1>4, KnownTypes

LEMMA MessageType ==
    ASSUME NEW type \in Types, NEW n \in Numbers, NEW c \in Counters
    PROVE  Msg(type, n, c) \in Messages /\ Msg(type, n, c).type = type /\ Msg(type, n, c).counter = c
BY DEF Msg, Messages

LEMMA PlainMessages ==
    /\ Noise \in Messages /\ ~IsSession(Noise) /\ Noise.type = "Noise"
    /\ Extender \in Messages /\ ~IsSession(Extender) /\ Extender.type = "ExtenderCommunication"
BY KnownTypes DEF Noise, Extender, Msg, Messages, IsSession, SessionTypes, Numbers, Counters

\* What an update's steps are.
LEMMA UpdateStepKinds ==
    \A s \in UpdateSteps :
        /\ s.next \in UpdateStatuses
        /\ s.reply = None \/ s.reply \in {"BeginSecondaryUpdate", "EndSecondaryUpdate", "KeyUpdateReady"}
BY DEF UpdateSteps, Step, UpdateStatuses

LEMMA OuterTrans ==
    ASSUME NEW r, NEW s, NEW t, Outer(s) = Outer(r), Outer(t) = Outer(s)
    PROVE  Outer(t) = Outer(r)
OBVIOUS

LEMMA BeginUpdateOrdinary ==
    ASSUME NEW p, NEW r \in PeerRecords, r.status \notin NotReady, NEW m \in Messages
    PROVE  Ordinary(p, r, BeginUpdateMessage(p, r, m).peer)
<1> DEFINE a == SetUpdateStatus(r, "PrimaryExchange")
           b == [a EXCEPT !.exchange = m.n]
           d == [b EXCEPT !.keys = ExchangeKeys(@, "BeginPrimary", m.n)]
           q == Queue(d, Msg("EndPrimaryUpdate", m.n, None), "normal")
           e == SetUpdateStatus(q, "SecondaryExchange")
<1>1. a \in PeerRecords /\ Outer(a) = Outer(r)
  BY SetUpdateStatusFields DEF UpdateStatuses
<1>2. m.n \in Numbers
  BY DEF Messages
<1>3. b \in PeerRecords /\ Outer(b) = Outer(a)
  <2> HIDE DEF a
  <2> QED
    BY <1>1, <1>2 DEF PeerRecords, Outer
<1>4. d \in PeerRecords /\ Outer(d) = Outer(b)
  BY <1>2, <1>3, NewKeysFields
<1>5. Outer(d) = Outer(r)
  BY <1>1, <1>3, <1>4
<1>6. /\ Msg("EndPrimaryUpdate", m.n, None) \in Messages
      /\ Msg("EndPrimaryUpdate", m.n, None).type = "EndPrimaryUpdate"
  BY <1>2, RepliesAreKnown, MessageType DEF Counters
<1>7. q \in PeerRecords /\ \A u \in PeerRecords : Outer(u) = Outer(q) => Ordinary(p, r, u)
  <2> HIDE DEF d
  <2>1. ~IsSession(Msg("EndPrimaryUpdate", m.n, None))
    BY <1>6 DEF IsSession, SessionTypes
  <2> QED
    BY <1>4, <1>5, <1>6, <2>1, NormalFields
<1>8. e \in PeerRecords /\ Outer(e) = Outer(q)
  BY <1>7, SetUpdateStatusFields DEF UpdateStatuses
<1>9. Ordinary(p, r, e)
  BY <1>7, <1>8
<1>10. Ordinary(p, r, r) /\ Ordinary(p, r, a)
  BY <1>1, OuterIsOrdinary
<1>11. d = [a EXCEPT !.exchange = m.n, !.keys = ExchangeKeys(@, "BeginPrimary", m.n)]
  <2> HIDE DEF a
  <2> QED
    BY <1>1 DEF PeerRecords
<1>12. BeginUpdateMessage(p, r, m).peer \in {r, a, e}
  BY <1>11 DEF BeginUpdateMessage, Unhandled, Done
<1> QED
  BY <1>9, <1>10, <1>12

LEMMA KeyUpdateOrdinary ==
    ASSUME NEW p, NEW r \in PeerRecords, r.status \notin NotReady, NEW m \in Messages
    PROVE  Ordinary(p, r, KeyUpdateMessage(p, r, m).peer)
<1> DEFINE steps == {s \in UpdateSteps : s.side = p /\ s.at = r.update /\ s.type = m.type}
           step  == CHOOSE s \in steps : TRUE
           keyed == [r EXCEPT !.keys = ExchangeKeys(@, Exchange(m.type), r.exchange)]
           sent  == IF step.reply = None THEN keyed
                    ELSE Queue(keyed, Msg(step.reply, r.exchange, None), "normal")
           next  == SetUpdateStatus(sent, step.next)
           last  == SetUpdateStatus(next, "UpdateWait")
<1>1. CASE m.type = "BeginPrimaryUpdate"
  BY <1>1, BeginUpdateOrdinary DEF KeyUpdateMessage
<1>2. CASE m.type # "BeginPrimaryUpdate" /\ steps = {}
  <2>1. KeyUpdateMessage(p, r, m).peer = r
    BY <1>2 DEF KeyUpdateMessage, Unhandled
  <2> QED
    BY <2>1, OuterIsOrdinary
<1>3. CASE m.type # "BeginPrimaryUpdate" /\ steps # {}
  <2>1. step \in UpdateSteps
    BY <1>3
  <2> HIDE DEF step
  <2>2. r.exchange \in Numbers
    BY DEF PeerRecords
  <2>3. keyed \in PeerRecords /\ Outer(keyed) = Outer(r)
    BY <2>2, NewKeysFields
  <2> HIDE DEF keyed
  <2>4. sent \in PeerRecords /\ \A u \in PeerRecords : Outer(u) = Outer(sent) => Ordinary(p, r, u)
    <3>1. CASE step.reply = None
      BY <2>3, <3>1, OuterIsOrdinary
    <3>2. CASE step.reply # None
      <4>1. step.reply \in {"BeginSecondaryUpdate", "EndSecondaryUpdate", "KeyUpdateReady"}
        BY <2>1, <3>2, UpdateStepKinds
      <4> DEFINE x == Msg(step.reply, r.exchange, None)
      <4>2. x \in Messages /\ x.type = step.reply
        BY <2>2, <4>1, RepliesAreKnown, MessageType DEF Counters
      <4>3. ~IsSession(x) /\ x.type # "EndAuthentication"
        BY <4>1, <4>2 DEF IsSession, SessionTypes
      <4> QED
        BY <2>3, <3>2, <4>2, <4>3, NormalFields
    <3> QED
      BY <3>1, <3>2
  <2> HIDE DEF sent
  <2>5. next \in PeerRecords /\ Outer(next) = Outer(sent)
    BY <2>1, <2>4, UpdateStepKinds, SetUpdateStatusFields
  <2> HIDE DEF next
  <2>6. last \in PeerRecords /\ Outer(last) = Outer(next)
    BY <2>5, SetUpdateStatusFields DEF UpdateStatuses
  <2>7. KeyUpdateMessage(p, r, m).peer \in {next, last}
    BY <1>3 DEF KeyUpdateMessage, Done, step, keyed, sent, next
  <2> QED
    BY <2>4, <2>5, <2>6, <2>7
<1> QED
  BY <1>1, <1>2, <1>3

LEMMA ReadyMessageOrdinary ==
    ASSUME NEW p, NEW r \in PeerRecords, r.status \notin NotReady, NEW m \in Messages, NEW late, HasRoom(r, m)
    PROVE  Ordinary(p, r, ReadyMessage(p, r, m, late).peer)
<1>1. CASE m.type = "ExtenderCommunication"
  <2>1. r.held \in 0 .. ReceiveRoom /\ r.held < ReceiveRoom /\ ReceiveRoom \in Nat
    BY <1>1 DEF HasRoom, PeerRecords
  <2>2. r.held + 1 \in 0 .. ReceiveRoom
    BY <2>1
  <2> DEFINE s == [r EXCEPT !.held = @ + 1]
  <2>3. s \in PeerRecords /\ Ordinary(p, r, s)
    BY <2>2 DEF PeerRecords, Ordinary, StatusMoves, QueuesGrow
  <2>4. ReadyMessage(p, r, m, late).peer \in {r, s}
    BY <1>1 DEF ReadyMessage, ExtenderMessage, Done, Failed, Unhandled
  <2> QED
    BY <2>3, <2>4, OuterIsOrdinary
<1>2. CASE m.type = "ExtenderUpdate"
  <2> DEFINE s == [r EXCEPT !.peerExtenders = m.n]
  <2>1. s \in PeerRecords /\ Outer(s) = Outer(r)
    BY DEF PeerRecords, Outer, Messages
  <2>2. ReadyMessage(p, r, m, late).peer \in {r, s}
    BY <1>2 DEF ReadyMessage, Done, Failed
  <2> QED
    BY <2>1, <2>2, OuterIsOrdinary
<1>3. CASE m.type \notin {"ExtenderCommunication", "ExtenderUpdate"}
  <2>1. ReadyMessage(p, r, m, late) = KeyUpdateMessage(p, r, m)
    BY <1>3 DEF ReadyMessage
  <2> QED
    BY <2>1, KeyUpdateOrdinary
<1> QED
  BY <1>1, <1>2, <1>3
-----------------------------------------------------------------------------
(* The handshake.                                                          *)

Kept(r, s) ==
    /\ s.delayed = r.delayed /\ s.expedited = r.expedited /\ s.deferred = r.deferred
    /\ s.held = r.held /\ s.accepts = r.accepts /\ s.condition = r.condition

\* The counter starts at c; the session message, queued, tells the value after it.
StartsCounter(r, c, s, type) ==
    /\ s.localCounter = c
    /\ \E x \in Messages : /\ x.type = type /\ x.counter = NextCounter(c)
                           /\ s.normal = Append(r.normal, x)

BeginsSession(p, r, m, c, s) ==
    /\ p = Inbound /\ r.status = "Authentication" /\ r.accepts /\ m.type = "EndAuthentication"
    /\ s \in PeerRecords /\ s.status = "SessionInit" /\ Kept(r, s)
    /\ s.peerCounter = r.peerCounter /\ StartsCounter(r, c, s, "BeginSessionInit")

AnswersSession(p, r, m, c, s) ==
    /\ p = Outbound /\ r.status = "SessionInit" /\ m.type = "BeginSessionInit"
    /\ s \in PeerRecords /\ s.status = "Ready" /\ Kept(r, s)
    /\ s.peerCounter = m.counter /\ StartsCounter(r, c, s, "EndSessionInit")

EndsSession(p, r, m, s) ==
    /\ p = Inbound /\ r.status = "SessionInit" /\ m.type = "EndSessionInit"
    /\ s \in PeerRecords /\ s.status = "Ready" /\ Kept(r, s)
    /\ s.peerCounter = m.counter /\ s.localCounter = r.localCounter /\ s.normal = r.normal

EarlyReplies == {"BeginMeta", "EndMeta", "BeginPrimary", "EndPrimary", "BeginSecondary",
                 "EndSecondary", "BeginAuthentication"}

LEMMA HandshakeStepKinds ==
    \A s \in HandshakeSteps :
        \/ /\ s.at \in Handshaking /\ s.next \in Handshaking /\ s.reply \in EarlyReplies
           /\ s.type \notin SessionTypes
        \/ /\ s.side = Outbound /\ s.at = "Authentication" /\ s.next = "SessionInit"
           /\ s.type = "BeginAuthentication" /\ s.reply = "EndAuthentication"
        \/ /\ s.side = Inbound /\ s.at = "Authentication" /\ s.next = "SessionInit"
           /\ s.type = "EndAuthentication" /\ s.reply = "BeginSessionInit"
        \/ /\ s.side = Outbound /\ s.at = "SessionInit" /\ s.next = "Ready"
           /\ s.type = "BeginSessionInit" /\ s.reply = "EndSessionInit"
        \/ /\ s.side = Inbound /\ s.at = "SessionInit" /\ s.next = "Ready"
           /\ s.type = "EndSessionInit" /\ s.reply = None
BY DEF HandshakeSteps, Step, Handshaking, EarlyReplies, SessionTypes

LEMMA EarlyRepliesKnown == EarlyReplies \subseteq Types /\ EarlyReplies \cap SessionTypes = {}
                           /\ "EndAuthentication" \notin EarlyReplies /\ None \notin EarlyReplies
BY RepliesAreKnown DEF EarlyReplies, SessionTypes

LEMMA EnterReadyFields ==
    ASSUME NEW r \in PeerRecords
    PROVE  /\ EnterReady(r) \in PeerRecords
           /\ Outer(EnterReady(r)) = Outer([r EXCEPT !.status = "Ready"])
<1> DEFINE a == [r EXCEPT !.status = "Ready"]
           b == ReleaseKeyExchange(a)
<1>1. a \in PeerRecords
  BY StatusSet DEF PeerRecords
<1> HIDE DEF a
<1>2. b \in PeerRecords /\ Outer(b) = Outer(a)
  BY <1>1, ReleaseFields
<1> HIDE DEF b
<1>3. SetUpdateStatus(b, "UpdateWait") \in PeerRecords /\ Outer(SetUpdateStatus(b, "UpdateWait")) = Outer(b)
  BY <1>2, SetUpdateStatusFields DEF UpdateStatuses
<1>4. EnterReady(r) = SetUpdateStatus(b, "UpdateWait")
  BY DEF EnterReady, a, b
<1> QED
  BY <1>2, <1>3, <1>4 DEF a

LEMMA SessionReplyFields ==
    ASSUME NEW p \in Peers, NEW r \in PeerRecords, NEW type \in SessionTypes, NEW c \in CounterStarts,
           extenders \in [Peers -> Nat]
    PROVE  LET s == Reply(p, r, type, c)
           IN  /\ s \in PeerRecords /\ Kept(r, s) /\ s.status = r.status
               /\ s.peerCounter = r.peerCounter /\ StartsCounter(r, c, s, type)
<1> DEFINE x == Msg(type, extenders[p], NextCounter(c))
           a == [r EXCEPT !.localCounter = c]
           s == Reply(p, r, type, c)
<1>1. c \in Counters /\ extenders[p] \in Numbers /\ type \in Types /\ type # None
  BY RepliesAreKnown DEF Counters, Numbers, SessionTypes
<1>2. NextCounter(c) \in Counters
  BY <1>1, NextCounterType
<1>3. x \in Messages /\ x.type = type /\ x.counter = NextCounter(c)
  BY <1>1, <1>2, MessageType, ZenonT(60)
<1>4. s = [a EXCEPT !.normal = Append(@, x)]
  BY <1>1 DEF Reply, Queue, SessionTypes
<1> HIDE DEF x, s
<1>5. Append(r.normal, x) \in Seq(Messages)
  BY <1>3, AppendProperties DEF PeerRecords
<1>6. s = [r EXCEPT !.localCounter = c, !.normal = Append(@, x)]
  BY <1>4 DEF PeerRecords
<1>7. /\ s \in PeerRecords /\ s.localCounter = c /\ s.normal = Append(r.normal, x)
      /\ s.status = r.status /\ s.peerCounter = r.peerCounter
  BY <1>1, <1>5, <1>6 DEF PeerRecords
<1>8. Kept(r, s)
  BY <1>6 DEF Kept, PeerRecords
<1>9. StartsCounter(r, c, s, type)
  BY <1>3, <1>7 DEF StartsCounter
<1> QED
  BY <1>7, <1>8, <1>9 DEF s

LEMMA HandshakeKinds ==
    ASSUME NEW p \in Peers, NEW r \in PeerRecords, r.status \in NotReady, NEW m \in Messages,
           NEW c \in CounterStarts, extenders \in [Peers -> Nat],
           HandshakeMessage(p, r, m, c).handled
    PROVE  LET s == HandshakeMessage(p, r, m, c).peer
           IN  /\ \/ Ordinary(p, r, s)
                  \/ BeginsSession(p, r, m, c, s) \/ AnswersSession(p, r, m, c, s)
                  \/ EndsSession(p, r, m, s)
               /\ m.type # "ExtenderCommunication"
<1> DEFINE steps == {s \in HandshakeSteps : s.side = p /\ s.at = r.status /\ s.type = m.type}
           step  == CHOOSE s \in steps : TRUE
           seen  == IF m.type \in {"BeginSessionInit", "EndSessionInit"}
                    THEN [r EXCEPT !.peerCounter = m.counter, !.peerExtenders = m.n]
                    ELSE [r EXCEPT !.keys = ExchangeKeys(@, m.type, 0)]
           s == HandshakeMessage(p, r, m, c).peer
<1>1. steps # {}
  BY DEF HandshakeMessage, Unhandled
<1>2. step \in HandshakeSteps /\ step.side = p /\ step.at = r.status /\ step.type = m.type
  BY <1>1
<1>3. s = IF m.type \in {"BeginAuthentication", "EndAuthentication"} /\ ~r.accepts
          THEN Condemn(r, "PeerNotAllowed")
          ELSE Enter(Reply(p, seen, step.reply, c), step.next)
  BY <1>1 DEF HandshakeMessage, Done
<1> HIDE DEF s, step, steps
<1>0. m.type # "ExtenderCommunication"
  BY <1>2 DEF HandshakeSteps, Step
<1>4. CASE m.type \in {"BeginAuthentication", "EndAuthentication"} /\ ~r.accepts
  <2>1. Ordinary(p, r, r)
    BY OuterIsOrdinary
  <2>2. Ordinary(p, r, s)
    BY <1>3, <1>4, <2>1, CondemnedIsOrdinary DEF Conditions
  <2> QED
    BY <1>0, <2>2 DEF s
<1>5. ASSUME ~(m.type \in {"BeginAuthentication", "EndAuthentication"} /\ ~r.accepts)
      PROVE  \/ Ordinary(p, r, s)
             \/ BeginsSession(p, r, m, c, s) \/ AnswersSession(p, r, m, c, s) \/ EndsSession(p, r, m, s)
  <2>0. s = Enter(Reply(p, seen, step.reply, c), step.next)
    BY <1>3, <1>5
  <2>1. m.type \notin SessionTypes => seen \in PeerRecords /\ Outer(seen) = Outer(r)
    BY NewKeysFields DEF SessionTypes, Numbers
  <2>2. m.type \in SessionTypes =>
          seen \in PeerRecords /\ Outer(seen) = Outer([r EXCEPT !.peerCounter = m.counter])
    BY DEF SessionTypes, PeerRecords, Messages, Outer
  <2> HIDE DEF seen
  \* A reply of the handshake before the session messages.
  <2>3. ASSUME step.reply \in EarlyReplies \cup {"EndAuthentication"}, step.type \notin SessionTypes,
               step.next \in NotReady, step.reply = "EndAuthentication" => p = Outbound /\ r.accepts,
               \/ step.at \in Handshaking /\ step.next \in Handshaking
               \/ step.at = "Authentication" /\ p = Outbound /\ r.accepts /\ step.next = "SessionInit"
        PROVE  Ordinary(p, r, s)
    <3> DEFINE x == Msg(step.reply, 0, None)
    <3>1. step.reply \in Types /\ step.reply \notin SessionTypes /\ step.reply # None
      BY <2>3, EarlyRepliesKnown, RepliesAreKnown DEF SessionTypes
    <3>2. x \in Messages /\ x.type = step.reply
      <4>1. 0 \in Numbers /\ None \in Counters
        BY DEF Numbers, Counters
      <4>2. \A n \in Numbers, k \in Counters :
              Msg(step.reply, n, k) \in Messages /\ Msg(step.reply, n, k).type = step.reply
        BY <3>1, MessageType
      <4> QED
        BY <4>1, <4>2
    <3>3. seen \in PeerRecords /\ Outer(seen) = Outer(r)
      BY <1>2, <2>1, <2>3
    <3>4. Reply(p, seen, step.reply, c) = [seen EXCEPT !.delayed = Append(@, x)]
      BY <3>1 DEF Reply, Queue, SessionTypes
    <3>5. s = [[seen EXCEPT !.delayed = Append(@, x)] EXCEPT !.status = step.next]
      BY <2>0, <2>3, <3>4 DEF Enter, NotReady, Handshaking
    <3>6. Append(seen.delayed, x) \in Seq(Messages) /\ step.next \in Statuses
      BY <2>3, <3>2, <3>3, AppendProperties, StatusSet DEF PeerRecords
    <3> HIDE DEF x
    <3>7. /\ s \in PeerRecords /\ s.delayed = Append(seen.delayed, x) /\ s.status = step.next
          /\ s.normal = seen.normal /\ s.expedited = seen.expedited /\ s.deferred = seen.deferred
          /\ s.held = seen.held /\ s.accepts = seen.accepts /\ s.condition = seen.condition
          /\ s.localCounter = seen.localCounter /\ s.peerCounter = seen.peerCounter
      BY <3>3, <3>5, <3>6 DEF PeerRecords
    <3>8. /\ s.delayed = Append(r.delayed, x)
          /\ s.normal = r.normal /\ s.expedited = r.expedited /\ s.deferred = r.deferred
          /\ s.held = r.held /\ s.accepts = r.accepts /\ s.condition = r.condition
          /\ s.localCounter = r.localCounter /\ s.peerCounter = r.peerCounter
      BY <3>3, <3>7 DEF Outer
    <3>9. ~IsSession(x) /\ (x.type = "EndAuthentication" => p = Outbound /\ r.accepts)
      BY <2>3, <3>1, <3>2 DEF IsSession
    <3>10. StatusMoves(p, r, s)
      BY <1>2, <2>3, <3>7 DEF StatusMoves
    <3>11. QueuesGrow(p, r, s)
      BY <3>2, <3>8, <3>9 DEF QueuesGrow
    <3> QED
      BY <3>7, <3>8, <3>10, <3>11 DEF Ordinary
  <2>4. CASE step.at \in Handshaking /\ step.next \in Handshaking /\ step.reply \in EarlyReplies
             /\ step.type \notin SessionTypes
    BY <2>3, <2>4, EarlyRepliesKnown DEF NotReady
  <2>5. CASE step.side = Outbound /\ step.at = "Authentication" /\ step.next = "SessionInit"
             /\ step.type = "BeginAuthentication" /\ step.reply = "EndAuthentication"
    <3>1. r.accepts
      BY <1>2, <1>5, <2>5 DEF PeerRecords
    <3> QED
      BY <1>2, <2>3, <2>5, <3>1 DEF NotReady, SessionTypes
  <2>6. CASE step.side = Inbound /\ step.at = "Authentication" /\ step.next = "SessionInit"
             /\ step.type = "EndAuthentication" /\ step.reply = "BeginSessionInit"
    <3>1. r.accepts
      BY <1>2, <1>5, <2>6 DEF PeerRecords
    <3>2. seen \in PeerRecords /\ Outer(seen) = Outer(r)
      BY <1>2, <2>1, <2>6 DEF SessionTypes
    <3> DEFINE t == Reply(p, seen, "BeginSessionInit", c)
    <3>3. /\ t \in PeerRecords /\ Kept(seen, t) /\ t.status = seen.status
          /\ t.peerCounter = seen.peerCounter /\ StartsCounter(seen, c, t, "BeginSessionInit")
      BY <3>2, SessionReplyFields DEF SessionTypes
    <3>4. s = [t EXCEPT !.status = "SessionInit"]
      BY <2>0, <2>6 DEF Enter
    <3> HIDE DEF t
    <3>5. /\ s \in PeerRecords /\ s.status = "SessionInit" /\ s.normal = t.normal
          /\ s.localCounter = t.localCounter /\ s.peerCounter = t.peerCounter /\ Kept(t, s)
      BY <3>3, <3>4, StatusSet DEF PeerRecords, NotReady, Kept
    <3>6. Kept(r, s) /\ s.peerCounter = r.peerCounter /\ StartsCounter(r, c, s, "BeginSessionInit")
      BY <3>2, <3>3, <3>5 DEF Outer, Kept, StartsCounter
    <3> QED
      BY <1>2, <2>6, <3>1, <3>5, <3>6 DEF BeginsSession
  <2>7. CASE step.side = Outbound /\ step.at = "SessionInit" /\ step.next = "Ready"
             /\ step.type = "BeginSessionInit" /\ step.reply = "EndSessionInit"
    <3>2. seen \in PeerRecords /\ Outer(seen) = Outer([r EXCEPT !.peerCounter = m.counter])
      BY <1>2, <2>2, <2>7 DEF SessionTypes
    <3> DEFINE t == Reply(p, seen, "EndSessionInit", c)
    <3>3. /\ t \in PeerRecords /\ Kept(seen, t) /\ t.status = seen.status
          /\ t.peerCounter = seen.peerCounter /\ StartsCounter(seen, c, t, "EndSessionInit")
      BY <3>2, SessionReplyFields DEF SessionTypes
    <3>4. s = EnterReady(t)
      BY <2>0, <2>7 DEF Enter
    <3> HIDE DEF t
    <3>5. s \in PeerRecords /\ Outer(s) = Outer([t EXCEPT !.status = "Ready"])
      BY <3>3, <3>4, EnterReadyFields
    <3>6. /\ s.status = "Ready" /\ s.normal = t.normal
          /\ s.localCounter = t.localCounter /\ s.peerCounter = t.peerCounter /\ Kept(t, s)
      BY <3>3, <3>5 DEF Outer, PeerRecords, Kept
    <3>7. seen.peerCounter = m.counter /\ Kept(r, seen) /\ seen.normal = r.normal
      BY <3>2 DEF Outer, PeerRecords, Kept
    <3>8. Kept(r, s) /\ s.peerCounter = m.counter /\ StartsCounter(r, c, s, "EndSessionInit")
      BY <3>3, <3>6, <3>7 DEF Kept, StartsCounter
    <3> QED
      BY <1>2, <2>7, <3>5, <3>6, <3>8 DEF AnswersSession
  <2>8. CASE step.side = Inbound /\ step.at = "SessionInit" /\ step.next = "Ready"
             /\ step.type = "EndSessionInit" /\ step.reply = None
    <3>2. seen \in PeerRecords /\ Outer(seen) = Outer([r EXCEPT !.peerCounter = m.counter])
      BY <1>2, <2>2, <2>8 DEF SessionTypes
    <3>4. s = EnterReady(seen)
      BY <2>0, <2>8 DEF Enter, Reply
    <3>5. s \in PeerRecords /\ Outer(s) = Outer([seen EXCEPT !.status = "Ready"])
      BY <3>2, <3>4, EnterReadyFields
    <3>6. /\ s.status = "Ready" /\ s.normal = seen.normal
          /\ s.localCounter = seen.localCounter /\ s.peerCounter = seen.peerCounter /\ Kept(seen, s)
      BY <3>2, <3>5 DEF Outer, PeerRecords, Kept
    <3>7. /\ seen.peerCounter = m.counter /\ Kept(r, seen) /\ seen.normal = r.normal
          /\ seen.localCounter = r.localCounter
      BY <3>2 DEF Outer, PeerRecords, Kept
    <3>8. Kept(r, s)
      BY <3>6, <3>7 DEF Kept
    <3> QED
      BY <1>2, <2>8, <3>5, <3>6, <3>7, <3>8 DEF EndsSession
  <2> QED
    BY <1>2, <2>4, <2>5, <2>6, <2>7, <2>8, HandshakeStepKinds
<1> QED
  BY <1>0, <1>4, <1>5 DEF s

\* Processing a message is ordinary, or one of the steps that start the session; who is not
\* ready does not take a message of an extender.
LEMMA ProcessKinds ==
    ASSUME NEW p \in Peers, NEW r \in PeerRecords, r.status # "Disconnected", NEW m \in Messages,
           HasRoom(r, m), NEW c \in CounterStarts, NEW late, extenders \in [Peers -> Nat]
    PROVE  LET s == ProcessMessage(p, r, m, c, late)
           IN  \/ /\ Ordinary(p, r, s)
                  /\ r.status \in NotReady /\ m.type = "ExtenderCommunication" => s.condition # None
               \/ BeginsSession(p, r, m, c, s) \/ AnswersSession(p, r, m, c, s)
               \/ EndsSession(p, r, m, s)
<1> DEFINE result == IF r.status \in {"Ready", "Suspended"} THEN ReadyMessage(p, r, m, late)
                     ELSE HandshakeMessage(p, r, m, c)
           t == result.peer
           s == ProcessMessage(p, r, m, c, late)
<1>1. s = t \/ s = Condemn(t, "ReceiveError")
  BY DEF ProcessMessage
<1>2. ~result.handled => s = Condemn(t, "ReceiveError")
  BY DEF ProcessMessage
<1> HIDE DEF s
<1>3. CASE r.status \in {"Ready", "Suspended"}
  <2>1. t = ReadyMessage(p, r, m, late).peer /\ r.status \notin NotReady
    BY <1>3 DEF NotReady, Handshaking
  <2>2. Ordinary(p, r, t)
    BY <2>1, ReadyMessageOrdinary
  <2> HIDE DEF result
  <2>3. Ordinary(p, r, s)
    BY <1>1, <2>2, CondemnedIsOrdinary DEF Ordinary, Conditions
  <2> QED
    BY <2>1, <2>3 DEF s
<1>4. CASE r.status \notin {"Ready", "Suspended"}
  <2>0. r.status \in NotReady
    BY <1>4, StatusSet DEF PeerRecords
  <2>1. result = HandshakeMessage(p, r, m, c)
    BY <1>4
  <2>2. CASE ~HandshakeMessage(p, r, m, c).handled
    <3>1. HandshakeMessage(p, r, m, c).peer = r
      BY <2>2 DEF HandshakeMessage, Unhandled, Done
    <3>2. s = Condemn(r, "ReceiveError")
      BY <1>2, <2>1, <2>2, <3>1
    <3>3. Ordinary(p, r, r)
      BY OuterIsOrdinary
    <3>4. Ordinary(p, r, s) /\ s.condition # None
      BY <3>2, <3>3, CondemnedIsOrdinary DEF Conditions
    <3> QED
      BY <3>4 DEF s
  <2>3. CASE HandshakeMessage(p, r, m, c).handled
    <3>1. /\ \/ Ordinary(p, r, t)
             \/ BeginsSession(p, r, m, c, t) \/ AnswersSession(p, r, m, c, t)
             \/ EndsSession(p, r, m, t)
          /\ m.type # "ExtenderCommunication"
      BY <2>0, <2>1, <2>3, HandshakeKinds
    <3>2. s = t
      BY <2>1, <2>3 DEF s, ProcessMessage, HandshakeMessage, Done, Unhandled
    <3> QED
      BY <3>1, <3>2 DEF s
  <2> QED
    BY <2>2, <2>3
<1> QED
  BY <1>3, <1>4
-----------------------------------------------------------------------------
(* The inductive invariant.                                                *)

\* The session message of p is not made yet.
BeforeSession(p) == IF p = Outbound THEN NotReady ELSE Handshaking

\* Only who has made its session message counts, and it is the first in its queue; only who is
\* ready counts what comes.
RecordOK(p, r) ==
    /\ r.status \in BeforeSession(p) => r.localCounter = None /\ r.normal = <<>>
    /\ r.status \in NotReady => r.held = 0 /\ r.deferred = <<>> /\ r.peerCounter = None
    /\ \A i \in 1 .. Len(r.normal) : IsSession(r.normal[i]) => i = 1
    /\ \A i \in 1 .. Len(r.delayed) : ~IsSession(r.delayed[i])
    /\ \A i \in 1 .. Len(r.expedited) : r.expedited[i].type = "ExtenderCommunication"

\* What a message, and a status, tell about who accepts whom; a is who accepts the other end.
Told(a, m) ==
    /\ m.type = "EndAuthentication" => a[Outbound]
    /\ IsSession(m) => \A q \in Peers : a[q]

RecordTold(a, r) ==
    /\ \A i \in 1 .. Len(r.normal) : Told(a, r.normal[i])
    /\ \A i \in 1 .. Len(r.delayed) : Told(a, r.delayed[i])
    /\ \A i \in 1 .. Len(r.deferred) : Told(a, r.deferred[i])

StatusTold(a, p, r) ==
    /\ r.status \in {"Ready", "Suspended"} => \A q \in Peers : a[q]
    /\ r.status = "SessionInit" => IF p = Inbound THEN \A q \in Peers : a[q] ELSE a[Outbound]

WireTold(a, w) == \A i \in 1 .. Len(w) : Told(a, w[i].message)

RecordInv(a, p, r) == RecordOK(p, r) /\ RecordTold(a, r) /\ StatusTold(a, p, r)

\* The counters of the transports w to r, of their sender and of the messages in its queue: what r
\* counts goes on with them; and as long as r is not ready, the session message that it gets
\* tells the number of its own transport.  (A message of an extender ahead of it ends the session.)
NoExtender(w, n) == \A j \in 1 .. n : w[j].message.type # "ExtenderCommunication"

Numbered(r, w, local, queue) ==
    r.condition = None =>
        /\ r.peerCounter # None => Counted(w, local, r.peerCounter, 0)
        /\ r.status \in NotReady =>
            /\ \A k \in 1 .. Len(w) : IsSession(w[k].message) /\ NoExtender(w, k - 1) =>
                 w[k].message.counter \in Nat /\ Counted(w, local, w[k].message.counter, k)
            /\ NoExtender(w, Len(w)) => \A i \in 1 .. Len(queue) : IsSession(queue[i]) =>
                 queue[i].counter = NextCounter(local) /\ local # None

Accepted == [p \in Peers |-> peer[p].accepts]

RestOK ==
    /\ suspended \in [Peers -> BOOLEAN] /\ unannounced \in [Peers -> BOOLEAN]
    /\ extenders \in [Peers -> Nat]
    /\ scenario \in Scenarios
    /\ used \in [updates : Nat, messages : Nat, changes : Nat, noise : Nat, suspensions : Nat,
                 timeouts : Nat]

\* The types of all but the loops.
PartsOK ==
    /\ peer \in [Peers -> PeerRecords]
    /\ wire \in [Peers -> Seq(Transports)]
    /\ RestOK

SessionInv ==
    /\ PartsOK
    /\ \A p \in Peers : /\ RecordInv(Accepted, p, peer[p])
                        /\ WireTold(Accepted, wire[p])
                        /\ Numbered(peer[p], wire[p], peer[Other(p)].localCounter,
                                    peer[Other(p)].normal)

-----------------------------------------------------------------------------
(* Steps of one record.                                                    *)

LEMMA StatusNames ==
    /\ NotReady \cap {"Ready", "Suspended", "Disconnected"} = {}
    /\ Handshaking \subseteq NotReady /\ "SessionInit" \in NotReady /\ "SessionInit" \notin Handshaking
    /\ "Authentication" \in Handshaking
    /\ \A p : BeforeSession(p) \subseteq NotReady /\ Handshaking \subseteq BeforeSession(p)
    /\ Peers = {Inbound, Outbound} /\ Inbound # Outbound
    /\ "SessionInit" \in BeforeSession(Outbound) /\ "SessionInit" \notin BeforeSession(Inbound)
BY DEF NotReady, Handshaking, BeforeSession, Peers, Inbound, Outbound

\* A queue with one more message.
LEMMA Longer ==
    ASSUME NEW S, NEW q \in Seq(S), NEW m \in S
    PROVE  /\ Append(q, m) \in Seq(S) /\ Len(Append(q, m)) = Len(q) + 1 /\ Len(q) \in Nat
           /\ \A i \in 1 .. Len(q) + 1 :
                \/ i \in 1 .. Len(q) /\ Append(q, m)[i] = q[i]
                \/ i = Len(q) + 1 /\ Append(q, m)[i] = m
<1>1. Append(q, m) \in Seq(S) /\ Len(Append(q, m)) = Len(q) + 1
      /\ (\A i \in 1 .. Len(q) : Append(q, m)[i] = q[i]) /\ Append(q, m)[Len(q) + 1] = m
  BY AppendProperties
<1>2. Len(q) \in Nat
  BY LenProperties
<1> QED
  BY <1>1, <1>2

LEMMA MovesKeep ==
    ASSUME NEW p \in Peers, NEW r \in PeerRecords, NEW s \in PeerRecords, StatusMoves(p, r, s)
    PROVE  /\ s.status \in NotReady => r.status \in NotReady
           /\ s.status \in BeforeSession(p) => r.status \in BeforeSession(p)
<1>1. CASE s.status = r.status
  BY <1>1
<1>2. CASE s.status \in {"Ready", "Suspended", "Disconnected"}
  BY <1>2, StatusNames
<1>3. CASE r.status \in Handshaking
  BY <1>3, StatusNames
<1> QED
  BY <1>1, <1>2, <1>3, StatusNames DEF StatusMoves

LEMMA OrdinaryRecord ==
    ASSUME NEW p \in Peers, NEW r \in PeerRecords, NEW s, Ordinary(p, r, s), NEW a,
           a[p] = r.accepts, RecordInv(a, p, r)
    PROVE  RecordInv(a, p, s)
<1>1. /\ s \in PeerRecords /\ s.localCounter = r.localCounter /\ s.peerCounter = r.peerCounter
      /\ s.status \in NotReady => r.status \in NotReady
      /\ s.status \in BeforeSession(p) => r.status \in BeforeSession(p)
  BY MovesKeep DEF Ordinary
<1>2. QueuesGrow(p, r, s) /\ s.deferred = r.deferred
  BY DEF Ordinary, QueuesGrow
<1>3. r.normal \in Seq(Messages) /\ r.delayed \in Seq(Messages) /\ r.expedited \in Seq(Messages)
  BY DEF PeerRecords
<1>4. /\ s.status \in BeforeSession(p) => s.normal = <<>>
      /\ \A i \in 1 .. Len(s.normal) : (IsSession(s.normal[i]) => i = 1) /\ Told(a, s.normal[i])
  <2>1. CASE s.normal = r.normal
    BY <1>1, <2>1 DEF RecordInv, RecordOK, RecordTold
  <2>2. ASSUME r.status \notin NotReady, NEW m \in Messages, s.normal = Append(r.normal, m),
               ~IsSession(m), m.type # "EndAuthentication"
        PROVE  /\ s.status \in BeforeSession(p) => s.normal = <<>>
               /\ \A i \in 1 .. Len(s.normal) : (IsSession(s.normal[i]) => i = 1) /\ Told(a, s.normal[i])
    <3>1. s.status \notin BeforeSession(p)
      BY <1>1, <2>2, StatusNames
    <3>2. Told(a, m)
      BY <2>2 DEF Told
    <3> QED
      BY <1>3, <2>2, <3>1, <3>2, Longer DEF RecordInv, RecordOK, RecordTold
  <2> QED
    BY <1>2, <2>1, <2>2 DEF QueuesGrow
<1>5. \A i \in 1 .. Len(s.delayed) : ~IsSession(s.delayed[i]) /\ Told(a, s.delayed[i])
  <2>1. CASE s.delayed = r.delayed
    BY <2>1 DEF RecordInv, RecordOK, RecordTold
  <2>2. ASSUME NEW m \in Messages, s.delayed = Append(r.delayed, m), ~IsSession(m),
               m.type = "EndAuthentication" => p = Outbound /\ r.accepts
        PROVE  \A i \in 1 .. Len(s.delayed) : ~IsSession(s.delayed[i]) /\ Told(a, s.delayed[i])
    <3>1. Told(a, m)
      BY <2>2 DEF Told
    <3> QED
      BY <1>3, <2>2, <3>1, Longer DEF RecordInv, RecordOK, RecordTold
  <2> QED
    BY <1>2, <2>1, <2>2 DEF QueuesGrow
<1>6. \A i \in 1 .. Len(s.expedited) : s.expedited[i].type = "ExtenderCommunication"
  <2>1. CASE s.expedited = r.expedited
    BY <2>1 DEF RecordInv, RecordOK
  <2>2. CASE s.expedited = Append(r.expedited, Extender)
    BY <1>3, <2>2, Longer, PlainMessages DEF RecordInv, RecordOK
  <2> QED
    BY <1>2, <2>1, <2>2 DEF QueuesGrow
<1>7. s.status \in NotReady => s.held = 0 /\ s.deferred = <<>> /\ s.peerCounter = None
  BY <1>1, <1>2 DEF Ordinary, RecordInv, RecordOK
<1>8. s.status \in BeforeSession(p) => s.localCounter = None
  BY <1>1 DEF RecordInv, RecordOK
<1>9. RecordOK(p, s)
  BY <1>4, <1>5, <1>6, <1>7, <1>8 DEF RecordOK
<1>10. RecordTold(a, s)
  BY <1>2, <1>4, <1>5 DEF RecordTold, RecordInv
<1>11. StatusTold(a, p, s)
  <2>1. StatusMoves(p, r, s)
    BY DEF Ordinary
  <2>2. CASE s.status = r.status
    BY <2>2 DEF RecordInv, StatusTold
  <2>3. CASE r.status \in {"Ready", "Suspended"} /\ s.status \in {"Ready", "Suspended"}
    BY <2>3 DEF RecordInv, StatusTold
  <2>4. CASE s.status = "Disconnected"
    BY <2>4 DEF StatusTold
  <2>5. CASE s.status \in Handshaking
    BY <2>5 DEF StatusTold, Handshaking
  <2>6. CASE p = Outbound /\ r.accepts /\ s.status = "SessionInit"
    BY <2>6, StatusNames DEF StatusTold
  <2> QED
    BY <2>1, <2>2, <2>3, <2>4, <2>5, <2>6 DEF StatusMoves
<1> QED
  BY <1>9, <1>10, <1>11 DEF RecordInv

LEMMA OrdinaryReceiver ==
    ASSUME NEW p \in Peers, NEW r \in PeerRecords, NEW s, Ordinary(p, r, s), NEW w, NEW local,
           NEW queue, Numbered(r, w, local, queue)
    PROVE  Numbered(s, w, local, queue)
<1>1. /\ s.condition = None => r.condition = None
      /\ s.peerCounter = r.peerCounter
      /\ s.status \in NotReady => r.status \in NotReady
  BY MovesKeep DEF Ordinary
<1> QED
  BY <1>1 DEF Numbered

\* A step of the sender's record that sends nothing.
StepKinds(p, r, m, c, s) ==
    Ordinary(p, r, s) \/ BeginsSession(p, r, m, c, s) \/ AnswersSession(p, r, m, c, s)
                      \/ EndsSession(p, r, m, s)

LEMMA StartsNumbered ==
    ASSUME NEW o \in PeerRecords, NEW w \in Seq(Transports), Numbered(o, w, None, <<>>),
           NEW r, r.normal = <<>>, NEW c \in CounterStarts, NEW s, NEW type,
           StartsCounter(r, c, s, type)
    PROVE  Numbered(o, w, s.localCounter, s.normal)
<1>1. PICK x \in Messages : s.normal = Append(<<>>, x) /\ x.counter = NextCounter(c)
  BY DEF StartsCounter
<1>2. s.localCounter = c /\ c # None
  BY DEF StartsCounter
<1>3. Len(s.normal) = 1 /\ s.normal[1] = x
  BY <1>1
<1>4. SUFFICES ASSUME o.condition = None
               PROVE  /\ o.peerCounter # None => Counted(w, c, o.peerCounter, 0)
                      /\ o.status \in NotReady =>
                          /\ \A k \in 1 .. Len(w) : IsSession(w[k].message) /\ NoExtender(w, k - 1) =>
                               w[k].message.counter \in Nat /\ Counted(w, c, w[k].message.counter, k)
                          /\ NoExtender(w, Len(w)) => \A i \in 1 .. Len(s.normal) : IsSession(s.normal[i]) =>
                               s.normal[i].counter = NextCounter(c) /\ c # None
  BY <1>2 DEF Numbered
<1>5. o.peerCounter = None
  <2>1. ASSUME o.peerCounter # None
        PROVE  FALSE
    <3>1. Counted(w, None, o.peerCounter, 0)
      BY <1>4, <2>1 DEF Numbered
    <3>2. o.peerCounter \in Nat
      BY <2>1 DEF PeerRecords, Counters
    <3>3. 0 \in 0 .. Len(w)
      BY LenProperties
    <3> QED
      BY <3>1, <3>2, <3>3, CountedLocal
  <2> QED
    BY <2>1
<1>6. ASSUME o.status \in NotReady, NEW k \in 1 .. Len(w), IsSession(w[k].message), NoExtender(w, k - 1)
      PROVE  FALSE
  <2>1. w[k].message.counter \in Nat /\ Counted(w, None, w[k].message.counter, k)
    BY <1>4, <1>6 DEF Numbered
  <2>2. k \in 0 .. Len(w)
    BY LenProperties
  <2> QED
    BY <2>1, <2>2, CountedLocal
<1>7. \A i \in 1 .. Len(s.normal) : s.normal[i].counter = NextCounter(c)
  BY <1>1, <1>3
<1> QED
  BY <1>2, <1>5, <1>6, <1>7

LEMMA SenderStep ==
    ASSUME NEW p \in Peers, NEW r \in PeerRecords, NEW a, RecordInv(a, p, r), NEW m, NEW c \in CounterStarts,
           NEW s, StepKinds(p, r, m, c, s), NEW o \in PeerRecords, NEW w \in Seq(Transports),
           Numbered(o, w, r.localCounter, r.normal)
    PROVE  Numbered(o, w, s.localCounter, s.normal)
<1>1. CASE Ordinary(p, r, s)
  <2>1. s.localCounter = r.localCounter
    BY <1>1 DEF Ordinary
  <2>2. CASE s.normal = r.normal
    BY <2>1, <2>2
  <2>3. ASSUME NEW x \in Messages, s.normal = Append(r.normal, x), ~IsSession(x)
        PROVE  Numbered(o, w, s.localCounter, s.normal)
    <3>1. r.normal \in Seq(Messages)
      BY DEF PeerRecords
    <3>2. \A i \in 1 .. Len(s.normal) : IsSession(s.normal[i]) =>
             i \in 1 .. Len(r.normal) /\ s.normal[i] = r.normal[i]
      BY <2>3, <3>1, Longer
    <3> QED
      BY <2>1, <3>2 DEF Numbered
  <2> QED
    BY <1>1, <2>2, <2>3 DEF Ordinary, QueuesGrow
<1>2. CASE BeginsSession(p, r, m, c, s)
  <2>1. r.localCounter = None /\ r.normal = <<>>
    BY <1>2, StatusNames DEF BeginsSession, RecordInv, RecordOK
  <2>2. StartsCounter(r, c, s, "BeginSessionInit")
    BY <1>2 DEF BeginsSession
  <2> QED
    BY <2>1, <2>2, StartsNumbered
<1>3. CASE AnswersSession(p, r, m, c, s)
  <2>1. r.localCounter = None /\ r.normal = <<>>
    BY <1>3, StatusNames DEF AnswersSession, RecordInv, RecordOK
  <2>2. StartsCounter(r, c, s, "EndSessionInit")
    BY <1>3 DEF AnswersSession
  <2> QED
    BY <2>1, <2>2, StartsNumbered
<1>4. CASE EndsSession(p, r, m, s)
  BY <1>4 DEF EndsSession
<1> QED
  BY <1>1, <1>2, <1>3, <1>4 DEF StepKinds

LEMMA StartsRecord ==
    ASSUME NEW p \in Peers, NEW r \in PeerRecords, NEW s \in PeerRecords, NEW a, RecordInv(a, p, r),
           NEW c, NEW type \in SessionTypes, StartsCounter(r, c, s, type), Kept(r, s),
           s.status \notin BeforeSession(p), r.normal = <<>>, \A q \in Peers : a[q],
           r.status \in NotReady, s.status \in NotReady => s.peerCounter = r.peerCounter
    PROVE  RecordInv(a, p, s)
<1>1. PICK x \in Messages : s.normal = Append(<<>>, x)
  BY DEF StartsCounter
<1>2. Len(s.normal) = 1 /\ s.normal[1] = x
  BY <1>1
<1>3. RecordOK(p, s)
  BY <1>2 DEF Kept, RecordInv, RecordOK
<1>4. \A y : Told(a, y)
  BY StatusNames DEF Told
<1>5. RecordTold(a, s) /\ StatusTold(a, p, s)
  BY <1>4, StatusNames DEF RecordTold, StatusTold
<1> QED
  BY <1>3, <1>5 DEF RecordInv

LEMMA RecordStep ==
    ASSUME NEW p \in Peers, NEW r \in PeerRecords, NEW a, a[p] = r.accepts, RecordInv(a, p, r),
           NEW m, Told(a, m), NEW c, NEW s, StepKinds(p, r, m, c, s)
    PROVE  RecordInv(a, p, s) /\ s \in PeerRecords /\ s.accepts = r.accepts
<1>1. CASE Ordinary(p, r, s)
  BY <1>1, OrdinaryRecord DEF Ordinary
<1>2. CASE BeginsSession(p, r, m, c, s)
  <2>1. \A q \in Peers : a[q]
    BY <1>2, StatusNames DEF BeginsSession, Told
  <2>2. r.normal = <<>> /\ r.status \in NotReady /\ s.status \notin BeforeSession(p)
    BY <1>2, StatusNames DEF BeginsSession, RecordInv, RecordOK
  <2> QED
    BY <1>2, <2>1, <2>2, StartsRecord DEF BeginsSession, SessionTypes, Kept
<1>3. CASE AnswersSession(p, r, m, c, s)
  <2>1. \A q \in Peers : a[q]
    BY <1>3 DEF AnswersSession, Told, IsSession, SessionTypes
  <2>2. r.normal = <<>> /\ r.status \in NotReady /\ s.status \notin BeforeSession(p)
        /\ s.status \notin NotReady
    BY <1>3, StatusNames DEF AnswersSession, RecordInv, RecordOK
  <2> QED
    BY <1>3, <2>1, <2>2, StartsRecord DEF AnswersSession, SessionTypes, Kept
<1>4. CASE EndsSession(p, r, m, s)
  <2>1. \A q \in Peers : a[q]
    BY <1>4 DEF EndsSession, Told, IsSession, SessionTypes
  <2>2. /\ s \in PeerRecords /\ s.status = "Ready" /\ s.normal = r.normal /\ s.delayed = r.delayed
        /\ s.expedited = r.expedited /\ s.deferred = r.deferred /\ s.accepts = r.accepts
    BY <1>4 DEF EndsSession, Kept
  <2>3. s.status \notin NotReady /\ s.status \notin BeforeSession(p)
    BY <2>2, StatusNames
  <2>4. RecordOK(p, s)
    BY <2>2, <2>3 DEF RecordInv, RecordOK
  <2>5. RecordTold(a, s) /\ StatusTold(a, p, s)
    BY <2>1, <2>2 DEF RecordInv, RecordTold, StatusTold
  <2> QED
    BY <2>2, <2>4, <2>5 DEF RecordInv
<1> QED
  BY <1>1, <1>2, <1>3, <1>4 DEF StepKinds
-----------------------------------------------------------------------------
(* Receiving.                                                              *)

CountedIn(r) == [r EXCEPT !.heard = TRUE, !.peerCounter = NextCounter(@)]

LEMMA CountedInFields ==
    ASSUME NEW p \in Peers, NEW r \in PeerRecords, NEW a, RecordInv(a, p, r)
    PROVE  LET d == CountedIn(r)
           IN  /\ d \in PeerRecords /\ d.status = r.status /\ d.condition = r.condition
               /\ d.accepts = r.accepts /\ d.localCounter = r.localCounter /\ d.normal = r.normal
               /\ d.held = r.held /\ d.deferred = r.deferred
               /\ d.peerCounter = NextCounter(r.peerCounter)
               /\ RecordInv(a, p, d)
<1> DEFINE d == CountedIn(r)
<1>1. r.peerCounter \in Counters
  BY DEF PeerRecords
<1>2. NextCounter(r.peerCounter) \in Counters /\ (r.peerCounter = None => NextCounter(r.peerCounter) = None)
  BY <1>1, NextCounterType
<1>3. /\ d \in PeerRecords /\ d.status = r.status /\ d.condition = r.condition
      /\ d.accepts = r.accepts /\ d.localCounter = r.localCounter /\ d.normal = r.normal
      /\ d.held = r.held /\ d.deferred = r.deferred /\ d.delayed = r.delayed
      /\ d.expedited = r.expedited /\ d.peerCounter = NextCounter(r.peerCounter)
  BY <1>2 DEF CountedIn, PeerRecords
<1> HIDE DEF d
<1>4. RecordInv(a, p, d)
  BY <1>2, <1>3 DEF RecordInv, RecordOK, RecordTold, StatusTold
<1> QED
  BY <1>3, <1>4 DEF d

\* What is under way after the first transport is taken, if its message does not end the session.
LEMMA TakeNumbered ==
    ASSUME NEW p \in Peers, NEW r \in PeerRecords, NEW a, RecordInv(a, p, r), r.condition = None,
           NEW w \in Seq(Transports), w # <<>>, NEW local, NEW queue, Numbered(r, w, local, queue),
           ~(r.status \in NotReady /\ Head(w).message.type = "ExtenderCommunication")
    PROVE  Numbered(CountedIn(r), Tail(w), local, queue)
<1> DEFINE d == CountedIn(r)
           v == Tail(w)
<1>1. /\ d.status = r.status /\ d.condition = r.condition /\ d.peerCounter = NextCounter(r.peerCounter)
  BY CountedInFields
<1>2. /\ v \in Seq(Transports) /\ Len(v) = Len(w) - 1 /\ Len(w) \in Nat /\ Len(w) >= 1 /\ Len(v) \in Nat
      /\ \A i \in 1 .. Len(v) : i + 1 \in 1 .. Len(w) /\ v[i] = w[i + 1]
      /\ Head(w) = w[1]
  BY TailOf
<1>3. r.peerCounter \in Counters
  BY DEF PeerRecords
<1> HIDE DEF d
<1>4. ASSUME d.peerCounter # None
      PROVE  Counted(v, local, d.peerCounter, 0)
  <2>1. r.peerCounter # None /\ r.peerCounter \in Nat
        /\ d.peerCounter = (r.peerCounter + 1) % CounterModulus
    BY <1>1, <1>3, <1>4, NextCounterType
  <2>2. Counted(w, local, r.peerCounter, 0)
    BY <2>1 DEF Numbered
  <2> QED
    BY <2>1, <2>2, CountedTake
<1>5. ASSUME r.status \in NotReady, NEW n \in 0 .. Len(v), NoExtender(v, n)
      PROVE  NoExtender(w, n + 1)
  <2> SUFFICES ASSUME NEW j \in 1 .. n + 1
               PROVE  w[j].message.type # "ExtenderCommunication"
    BY DEF NoExtender
  <2>1. CASE j = 1
    BY <1>2, <1>5, <2>1
  <2>2. CASE j # 1
    <3>1. j - 1 \in 1 .. n /\ j - 1 \in 1 .. Len(v) /\ (j - 1) + 1 = j
      BY <1>2, <2>2
    <3>2. v[j - 1] = w[j]
      BY <1>2, <3>1
    <3> QED
      BY <1>5, <3>1, <3>2 DEF NoExtender
  <2> QED
    BY <2>1, <2>2
<1>6. ASSUME r.status \in NotReady, NEW k \in 1 .. Len(v), IsSession(v[k].message), NoExtender(v, k - 1)
      PROVE  v[k].message.counter \in Nat /\ Counted(v, local, v[k].message.counter, k)
  <2>1. k + 1 \in 1 .. Len(w) /\ v[k] = w[k + 1] /\ k - 1 \in 0 .. Len(v) /\ (k - 1) + 1 = k
        /\ (k + 1) - 1 = k
    BY <1>2
  <2>2. NoExtender(w, (k + 1) - 1)
    BY <1>5, <1>6, <2>1
  <2>3. w[k + 1].message.counter \in Nat /\ Counted(w, local, w[k + 1].message.counter, k + 1)
    BY <1>6, <2>1, <2>2 DEF Numbered
  <2>4. Counted(v, local, w[k + 1].message.counter, (k + 1) - 1)
    BY <2>1, <2>3, CountedLater
  <2> QED
    BY <2>1, <2>3, <2>4
<1>7. ASSUME r.status \in NotReady, NoExtender(v, Len(v))
      PROVE  \A i \in 1 .. Len(queue) : IsSession(queue[i]) =>
               queue[i].counter = NextCounter(local) /\ local # None
  <2>1. NoExtender(w, Len(v) + 1) /\ Len(v) + 1 = Len(w)
    BY <1>2, <1>5, <1>7
  <2> QED
    BY <1>7, <2>1 DEF Numbered
<1>8. Numbered(d, v, local, queue)
  BY <1>1, <1>4, <1>6, <1>7 DEF Numbered
<1> QED
  BY <1>8 DEF d

\* A record that was condemned counts no more.
LEMMA CondemnedNumbered ==
    ASSUME NEW s, s.condition # None, NEW w, NEW local, NEW queue
    PROVE  Numbered(s, w, local, queue)
BY DEF Numbered

LEMMA ReceiveStep ==
    ASSUME NEW p \in Peers, NEW r \in PeerRecords, NEW a, a[p] = r.accepts, RecordInv(a, p, r),
           r.condition = None, r.status # "Disconnected",
           NEW w \in Seq(Transports), w # <<>>, WireTold(a, w),
           NEW local, NEW queue, Numbered(r, w, local, queue),
           NEW c \in CounterStarts, NEW late, extenders \in [Peers -> Nat]
    PROVE  LET d == CountedIn(r)
               m == Head(w).message
               s == QueueOrProcess(p, d, m, c, late)
           IN  /\ RecordInv(a, p, s) /\ s \in PeerRecords /\ s.accepts = r.accepts
               /\ Numbered(s, Tail(w), local, queue)
               /\ \A o \in PeerRecords : \A x \in Seq(Transports) :
                    Numbered(o, x, r.localCounter, r.normal) => Numbered(o, x, s.localCounter, s.normal)
<1> DEFINE d == CountedIn(r)
           m == Head(w).message
           s == QueueOrProcess(p, d, m, c, late)
<1>1. /\ d \in PeerRecords /\ d.status = r.status /\ d.condition = r.condition
      /\ d.accepts = r.accepts /\ d.localCounter = r.localCounter /\ d.normal = r.normal
      /\ d.held = r.held /\ d.deferred = r.deferred
      /\ RecordInv(a, p, d)
  BY CountedInFields
<1>2. Head(w) = w[1] /\ Head(w) \in Transports /\ Len(w) >= 1 /\ Len(w) \in Nat
  BY TailOf
<1>3. m \in Messages /\ Told(a, m)
  BY <1>2 DEF Transports, WireTold
<1> HIDE DEF d, m
<1>4. ASSUME ~(r.status \in NotReady /\ m.type = "ExtenderCommunication")
      PROVE  Numbered(d, Tail(w), local, queue)
  BY <1>4, TakeNumbered DEF d, m
<1>5. CASE m.type = "Noise"
  <2>1. s = d
    BY <1>5 DEF QueueOrProcess
  <2> QED
    BY <1>1, <1>4, <1>5, <2>1 DEF d, m
<1>6. CASE m.type # "Noise" /\ ShouldDefer(d, m)
  <2>1. s = [d EXCEPT !.deferred = Append(@, m)]
    BY <1>6 DEF QueueOrProcess
  <2>2. d.deferred \in Seq(Messages)
    BY <1>1 DEF PeerRecords
  <2> HIDE DEF s
  <2>3. /\ s \in PeerRecords /\ s.deferred = Append(d.deferred, m) /\ s.status = d.status
        /\ s.condition = d.condition /\ s.accepts = d.accepts /\ s.localCounter = d.localCounter
        /\ s.normal = d.normal /\ s.delayed = d.delayed /\ s.expedited = d.expedited
        /\ s.held = d.held /\ s.peerCounter = d.peerCounter
    BY <1>1, <1>3, <2>1, <2>2, Longer DEF PeerRecords
  <2>4. d.status \notin NotReady
    <3>1. ASSUME d.status \in NotReady
          PROVE  FALSE
      <4>1. d.held = 0 /\ d.deferred = <<>>
        BY <1>1, <3>1 DEF RecordInv, RecordOK
      <4> QED
        BY <1>6, <4>1 DEF ShouldDefer, HasRoom
    <3> QED
      BY <3>1
  <2>5. s.status \notin BeforeSession(p)
    BY <2>3, <2>4, StatusNames
  <2>6. RecordOK(p, s)
    BY <1>1, <2>3, <2>4, <2>5 DEF RecordInv, RecordOK
  <2>7. RecordTold(a, s)
    BY <1>1, <1>3, <2>2, <2>3, Longer DEF RecordInv, RecordTold
  <2>8. StatusTold(a, p, s)
    BY <1>1, <2>3 DEF RecordInv, StatusTold
  <2>9. Numbered(s, Tail(w), local, queue)
    <3>1. Numbered(d, Tail(w), local, queue)
      BY <1>1, <1>4, <2>4
    <3> QED
      BY <2>3, <3>1 DEF Numbered
  <2> QED
    BY <1>1, <2>3, <2>6, <2>7, <2>8, <2>9 DEF RecordInv, s, d, m
<1>7. CASE m.type # "Noise" /\ ~ShouldDefer(d, m)
  <2>1. s = ProcessMessage(p, d, m, c, late) /\ HasRoom(d, m)
    BY <1>7 DEF QueueOrProcess, ShouldDefer
  <2>2. \/ /\ Ordinary(p, d, s)
           /\ d.status \in NotReady /\ m.type = "ExtenderCommunication" => s.condition # None
        \/ BeginsSession(p, d, m, c, s) \/ AnswersSession(p, d, m, c, s)
        \/ EndsSession(p, d, m, s)
    BY <1>1, <1>3, <2>1, ProcessKinds
  <2> HIDE DEF s
  <2>3. StepKinds(p, d, m, c, s)
    BY <2>2 DEF StepKinds
  <2>4. RecordInv(a, p, s) /\ s \in PeerRecords /\ s.accepts = d.accepts
    BY <1>1, <1>3, <2>3, RecordStep
  <2>5. \A o \in PeerRecords : \A x \in Seq(Transports) :
          Numbered(o, x, d.localCounter, d.normal) => Numbered(o, x, s.localCounter, s.normal)
    BY <1>1, <2>3, SenderStep
  <2>6. Numbered(s, Tail(w), local, queue)
    <3>1. CASE Ordinary(p, d, s) /\ ~(r.status \in NotReady /\ m.type = "ExtenderCommunication")
      BY <1>1, <1>4, <3>1, OrdinaryReceiver
    <3>2. CASE Ordinary(p, d, s) /\ s.condition # None
      BY <3>2, CondemnedNumbered
    <3>3. CASE BeginsSession(p, d, m, c, s)
      <4>1. /\ m.type = "EndAuthentication" /\ s.status \in NotReady /\ d.status \in NotReady
            /\ s.peerCounter = d.peerCounter /\ s.condition = d.condition
        BY <3>3, StatusNames DEF BeginsSession, Kept
      <4>2. Numbered(d, Tail(w), local, queue)
        BY <1>4, <4>1
      <4> QED
        BY <4>1, <4>2 DEF Numbered
    <3>4. CASE AnswersSession(p, d, m, c, s) \/ EndsSession(p, d, m, s)
      <4>1. /\ IsSession(m) /\ d.status \in NotReady /\ s.status \notin NotReady
            /\ s.peerCounter = m.counter
        BY <3>4, StatusNames DEF AnswersSession, EndsSession, IsSession, SessionTypes
      <4>2. r.status \in NotReady /\ m = w[1].message /\ 1 \in 1 .. Len(w) /\ NoExtender(w, 1 - 1)
        BY <1>1, <1>2, <4>1 DEF NoExtender, m
      <4>3. m.counter \in Nat /\ Counted(w, local, m.counter, 1)
        BY <4>1, <4>2 DEF Numbered
      <4>4. Counted(Tail(w), local, m.counter, 1 - 1)
        BY <4>2, <4>3, CountedLater
      <4> QED
        BY <4>1, <4>4 DEF Numbered
    <3> QED
      BY <1>1, <2>2, <3>1, <3>2, <3>3, <3>4
  <2> QED
    BY <1>1, <2>4, <2>5, <2>6 DEF s, d, m
<1> QED
  BY <1>5, <1>6, <1>7
-----------------------------------------------------------------------------
(* Sending.                                                                *)

\* A queue without its first message.
Shorter(r, q) ==
    CASE q = "normal"    -> [r EXCEPT !.normal = Tail(@), !.localCounter = NextCounter(@)]
      [] q = "delayed"   -> [r EXCEPT !.delayed = Tail(@), !.localCounter = NextCounter(@)]
      [] q = "expedited" -> [r EXCEPT !.expedited = Tail(@), !.localCounter = NextCounter(@)]

FirstOf(r, q) == CASE q = "normal"    -> Head(r.normal)
                   [] q = "delayed"   -> Head(r.delayed)
                   [] q = "expedited" -> Head(r.expedited)

\* The queue a message leaves from, by priority.
MayLeave(r, q) ==
    \/ q = "expedited" /\ r.expedited # <<>>
    \/ q = "normal" /\ r.normal # <<>>
    \/ q = "delayed" /\ r.delayed # <<>> /\ r.normal = <<>>

LEMMA TailHas ==
    ASSUME NEW S, NEW w \in Seq(S), w # <<>>, NEW m, \E i \in 1 .. Len(Tail(w)) : m = Tail(w)[i]
    PROVE  \E i \in 1 .. Len(w) : i > 1 /\ m = w[i]
<1>1. PICK i \in 1 .. Len(Tail(w)) : m = Tail(w)[i]
  OBVIOUS
<1>2. i + 1 \in 1 .. Len(w) /\ Tail(w)[i] = w[i + 1] /\ i + 1 > 1
  BY TailOf
<1> QED
  BY <1>1, <1>2

\* What is left of the record that sends.
LEMMA SentRecord ==
    ASSUME NEW p \in Peers, NEW r \in PeerRecords, NEW a, RecordInv(a, p, r), NEW q, MayLeave(r, q)
    PROVE  LET s == Shorter(r, q)
               m == FirstOf(r, q)
           IN  /\ s \in PeerRecords /\ s.status = r.status /\ s.condition = r.condition
               /\ s.accepts = r.accepts /\ s.peerCounter = r.peerCounter
               /\ s.localCounter = NextCounter(r.localCounter)
               /\ RecordInv(a, p, s)
               /\ m \in Messages /\ Told(a, m)
               /\ \A i \in 1 .. Len(s.normal) : IsSession(s.normal[i]) => q = "expedited"
               /\ q = "expedited" => m.type = "ExtenderCommunication" /\ s.normal = r.normal
               /\ IsSession(m) => 1 \in 1 .. Len(r.normal) /\ m = r.normal[1]
<1> DEFINE s == Shorter(r, q)
           m == FirstOf(r, q)
<1>1. /\ r.localCounter \in Counters
      /\ r.normal \in Seq(Messages) /\ r.delayed \in Seq(Messages) /\ r.expedited \in Seq(Messages)
  BY DEF PeerRecords
<1>2. NextCounter(r.localCounter) \in Counters
      /\ (r.localCounter = None => NextCounter(r.localCounter) = None)
  BY <1>1, NextCounterType
<1>3. RecordOK(p, r) /\ RecordTold(a, r) /\ StatusTold(a, p, r)
  BY DEF RecordInv
<1>4. CASE q = "normal" /\ r.normal # <<>>
  <2>1. /\ Tail(r.normal) \in Seq(Messages) /\ Len(r.normal) >= 1 /\ Len(r.normal) \in Nat
        /\ \A i \in 1 .. Len(Tail(r.normal)) :
             i + 1 \in 1 .. Len(r.normal) /\ Tail(r.normal)[i] = r.normal[i + 1]
        /\ Head(r.normal) = r.normal[1] /\ Head(r.normal) \in Messages
    BY <1>1, <1>4, TailOf
  <2>2. s = [r EXCEPT !.normal = Tail(@), !.localCounter = NextCounter(@)] /\ m = Head(r.normal)
    BY <1>4 DEF Shorter, FirstOf
  <2> HIDE DEF s, m
  <2>3. /\ s \in PeerRecords /\ s.status = r.status /\ s.condition = r.condition
        /\ s.accepts = r.accepts /\ s.peerCounter = r.peerCounter
        /\ s.localCounter = NextCounter(r.localCounter) /\ s.held = r.held
        /\ s.normal = Tail(r.normal) /\ s.delayed = r.delayed /\ s.expedited = r.expedited
        /\ s.deferred = r.deferred
    BY <1>2, <2>1, <2>2 DEF PeerRecords
  <2>4. 1 \in 1 .. Len(r.normal)
    BY <2>1
  <2>5. Told(a, m)
    BY <1>3, <2>1, <2>2, <2>4 DEF RecordTold
  <2>6. \A i \in 1 .. Len(s.normal) : ~IsSession(s.normal[i]) /\ Told(a, s.normal[i])
    <3> TAKE i \in 1 .. Len(s.normal)
    <3>1. i + 1 \in 1 .. Len(r.normal) /\ s.normal[i] = r.normal[i + 1] /\ i + 1 # 1
      BY <2>1, <2>3
    <3> QED
      BY <1>3, <3>1 DEF RecordOK, RecordTold
  <2>7. r.status \notin BeforeSession(p)
    BY <1>3, <1>4 DEF RecordOK
  <2>8. RecordInv(a, p, s)
    BY <1>3, <2>3, <2>6, <2>7 DEF RecordInv, RecordOK, RecordTold, StatusTold
  <2> QED
    BY <1>4, <2>1, <2>2, <2>3, <2>4, <2>5, <2>6, <2>8 DEF s, m
<1>5. CASE q = "delayed" /\ r.delayed # <<>> /\ r.normal = <<>>
  <2>1. /\ Tail(r.delayed) \in Seq(Messages) /\ Len(r.delayed) >= 1 /\ Len(r.delayed) \in Nat
        /\ \A i \in 1 .. Len(Tail(r.delayed)) :
             i + 1 \in 1 .. Len(r.delayed) /\ Tail(r.delayed)[i] = r.delayed[i + 1]
        /\ Head(r.delayed) = r.delayed[1] /\ Head(r.delayed) \in Messages
    BY <1>1, <1>5, TailOf
  <2>2. s = [r EXCEPT !.delayed = Tail(@), !.localCounter = NextCounter(@)] /\ m = Head(r.delayed)
    BY <1>5 DEF Shorter, FirstOf
  <2> HIDE DEF s, m
  <2>3. /\ s \in PeerRecords /\ s.status = r.status /\ s.condition = r.condition
        /\ s.accepts = r.accepts /\ s.peerCounter = r.peerCounter
        /\ s.localCounter = NextCounter(r.localCounter) /\ s.held = r.held
        /\ s.delayed = Tail(r.delayed) /\ s.normal = r.normal /\ s.expedited = r.expedited
        /\ s.deferred = r.deferred
    BY <1>2, <2>1, <2>2 DEF PeerRecords
  <2>4. 1 \in 1 .. Len(r.delayed)
    BY <2>1
  <2>5. Told(a, m) /\ ~IsSession(m)
    BY <1>3, <2>1, <2>2, <2>4 DEF RecordTold, RecordOK
  <2>6. \A i \in 1 .. Len(s.delayed) : ~IsSession(s.delayed[i]) /\ Told(a, s.delayed[i])
    BY <1>3, <2>1, <2>3 DEF RecordOK, RecordTold
  <2>7. Len(s.normal) = 0
    BY <1>5, <2>3
  <2>8. RecordInv(a, p, s)
    BY <1>2, <1>3, <2>3, <2>6 DEF RecordInv, RecordOK, RecordTold, StatusTold
  <2> QED
    BY <1>5, <2>1, <2>2, <2>3, <2>5, <2>7, <2>8 DEF s, m
<1>6. CASE q = "expedited" /\ r.expedited # <<>>
  <2>1. /\ Tail(r.expedited) \in Seq(Messages) /\ Len(r.expedited) >= 1 /\ Len(r.expedited) \in Nat
        /\ \A i \in 1 .. Len(Tail(r.expedited)) :
             i + 1 \in 1 .. Len(r.expedited) /\ Tail(r.expedited)[i] = r.expedited[i + 1]
        /\ Head(r.expedited) = r.expedited[1] /\ Head(r.expedited) \in Messages
    BY <1>1, <1>6, TailOf
  <2>2. s = [r EXCEPT !.expedited = Tail(@), !.localCounter = NextCounter(@)]
        /\ m = Head(r.expedited)
    BY <1>6 DEF Shorter, FirstOf
  <2> HIDE DEF s, m
  <2>3. /\ s \in PeerRecords /\ s.status = r.status /\ s.condition = r.condition
        /\ s.accepts = r.accepts /\ s.peerCounter = r.peerCounter
        /\ s.localCounter = NextCounter(r.localCounter) /\ s.held = r.held
        /\ s.expedited = Tail(r.expedited) /\ s.delayed = r.delayed /\ s.normal = r.normal
        /\ s.deferred = r.deferred
    BY <1>2, <2>1, <2>2 DEF PeerRecords
  <2>4. 1 \in 1 .. Len(r.expedited)
    BY <2>1
  <2>5. m.type = "ExtenderCommunication"
    BY <1>3, <2>1, <2>2, <2>4 DEF RecordOK
  <2>6. Told(a, m) /\ ~IsSession(m)
    BY <2>5 DEF Told, IsSession, SessionTypes
  <2>7. \A i \in 1 .. Len(s.expedited) : s.expedited[i].type = "ExtenderCommunication"
    BY <1>3, <2>1, <2>3 DEF RecordOK
  <2>8. RecordInv(a, p, s)
    BY <1>2, <1>3, <2>3, <2>7 DEF RecordInv, RecordOK, RecordTold, StatusTold
  <2> QED
    BY <1>6, <2>1, <2>2, <2>3, <2>5, <2>6, <2>8 DEF s, m
<1> QED
  BY <1>4, <1>5, <1>6 DEF MayLeave

\* The receiver's numbers, after one more transport is on its way to it.
LEMMA SentNumbered ==
    ASSUME NEW p \in Peers, NEW r \in PeerRecords, NEW a, RecordInv(a, p, r), NEW q, MayLeave(r, q),
           NEW o \in PeerRecords, NEW w \in Seq(Transports), Numbered(o, w, r.localCounter, r.normal),
           NEW t \in Transports, t.counter = NextCounter(r.localCounter), t.message = FirstOf(r, q)
    PROVE  LET s == Shorter(r, q)
           IN  Numbered(o, Append(w, t), s.localCounter, s.normal)
<1> DEFINE s == Shorter(r, q)
           m == FirstOf(r, q)
           v == Append(w, t)
           next == NextCounter(r.localCounter)
<1>1. /\ s.localCounter = next
      /\ \A i \in 1 .. Len(s.normal) : IsSession(s.normal[i]) => q = "expedited"
      /\ q = "expedited" => m.type = "ExtenderCommunication"
      /\ IsSession(m) => 1 \in 1 .. Len(r.normal) /\ m = r.normal[1]
  BY SentRecord
<1>2. /\ v \in Seq(Transports) /\ Len(v) = Len(w) + 1 /\ Len(w) \in Nat
      /\ \A i \in 1 .. Len(w) + 1 : \/ i \in 1 .. Len(w) /\ v[i] = w[i]
                                    \/ i = Len(w) + 1 /\ v[i] = t
  BY Longer
<1>3. r.localCounter \in Counters
  BY DEF PeerRecords
<1> HIDE DEF s, m, v
<1>4. SUFFICES ASSUME o.condition = None
               PROVE  /\ o.peerCounter # None => Counted(v, next, o.peerCounter, 0)
                      /\ o.status \in NotReady =>
                          /\ \A k \in 1 .. Len(v) : IsSession(v[k].message) /\ NoExtender(v, k - 1) =>
                               v[k].message.counter \in Nat /\ Counted(v, next, v[k].message.counter, k)
                          /\ NoExtender(v, Len(v)) => \A i \in 1 .. Len(s.normal) : IsSession(s.normal[i]) =>
                               s.normal[i].counter = NextCounter(next) /\ next # None
  BY <1>1 DEF Numbered, s, v
<1>5. ASSUME o.peerCounter # None
      PROVE  Counted(v, next, o.peerCounter, 0)
  <2>1. o.peerCounter \in Nat /\ 0 \in 0 .. Len(w)
    BY <1>2, <1>5 DEF PeerRecords, Counters
  <2>2. Counted(w, r.localCounter, o.peerCounter, 0)
    BY <1>4, <1>5 DEF Numbered
  <2> QED
    BY <2>1, <2>2, CountedSend DEF v
<1>6. ASSUME NEW n \in 0 .. Len(w), NoExtender(v, n)
      PROVE  NoExtender(w, n)
  <2> SUFFICES ASSUME NEW j \in 1 .. n
               PROVE  w[j].message.type # "ExtenderCommunication"
    BY DEF NoExtender
  <2>1. j \in 1 .. Len(w) /\ j \in 1 .. Len(w) + 1 /\ j # Len(w) + 1
    BY <1>2
  <2> QED
    BY <1>2, <1>6, <2>1 DEF NoExtender
<1>7. ASSUME o.status \in NotReady, NEW k \in 1 .. Len(v), IsSession(v[k].message), NoExtender(v, k - 1)
      PROVE  v[k].message.counter \in Nat /\ Counted(v, next, v[k].message.counter, k)
  <2>1. k \in 1 .. Len(w) + 1 /\ k - 1 \in 0 .. Len(w)
    BY <1>2
  <2>2. NoExtender(w, k - 1)
    BY <1>6, <1>7, <2>1
  <2>3. CASE k \in 1 .. Len(w) /\ v[k] = w[k]
    <3>1. w[k].message.counter \in Nat /\ Counted(w, r.localCounter, w[k].message.counter, k)
      BY <1>4, <1>7, <2>2, <2>3 DEF Numbered
    <3>2. k \in 0 .. Len(w)
      BY <1>2, <2>3
    <3> QED
      BY <2>3, <3>1, <3>2, CountedSend DEF v
  <2>4. CASE k = Len(w) + 1 /\ v[k] = t
    <3>1. IsSession(m) /\ k - 1 = Len(w)
      BY <1>2, <1>7, <2>4 DEF m
    <3>2. m = r.normal[1] /\ 1 \in 1 .. Len(r.normal) /\ IsSession(r.normal[1])
      BY <1>1, <3>1
    <3>3. m.counter = next /\ r.localCounter # None
      BY <1>4, <1>7, <2>2, <3>1, <3>2 DEF Numbered
    <3>4. r.localCounter \in Nat /\ next = (r.localCounter + 1) % CounterModulus
          /\ r.localCounter + 1 \in Nat
      BY <1>3, <3>3, NextCounterType
    <3>5. next \in 0 .. CounterModulus - 1
      <4>1. (r.localCounter + 1) % CounterModulus \in 0 .. CounterModulus - 1
        BY <3>4, CounterRange
      <4> QED
        BY <3>4, <4>1
    <3>6. next = (next + 0) % CounterModulus /\ next \in Nat
      <4>1. CounterModulus \in Nat /\ CounterModulus > 0
        OBVIOUS
      <4> HIDE DEF next
      <4> QED
        BY <3>5, <4>1
    <3>7. t.counter = next /\ t.message.counter = next
      BY <3>3 DEF m
    <3>8. Len(v) - k = 0 /\ k - k = 0
      BY <1>2, <2>4
    <3>9. \A i \in 1 .. Len(v) : i >= k => i = k
      BY <1>2, <2>4
    <3>10. v[k].message.counter = next
      BY <2>4, <3>7
    <3>11. \A i \in 1 .. Len(v) : i >= k => v[i].counter = (next + (i - k)) % CounterModulus
      BY <2>4, <3>6, <3>7, <3>8, <3>9
    <3>12. next = (next + (Len(v) - k)) % CounterModulus
      BY <3>6, <3>8
    <3> QED
      BY <3>6, <3>10, <3>11, <3>12 DEF Counted
  <2> QED
    BY <1>2, <2>1, <2>3, <2>4
<1>8. ASSUME NoExtender(v, Len(v)), NEW i \in 1 .. Len(s.normal), IsSession(s.normal[i])
      PROVE  FALSE
  <2>1. m.type = "ExtenderCommunication"
    BY <1>1, <1>8
  <2>2. Len(v) \in 1 .. Len(v) /\ v[Len(v)] = t
    BY <1>2
  <2> QED
    BY <1>8, <2>1, <2>2 DEF NoExtender, m
<1> QED
  BY <1>5, <1>7, <1>8
-----------------------------------------------------------------------------
(* Steps of the whole: one record changes, the other stays.                *)

LEMMA Ends == \A p \in Peers : Other(p) \in Peers /\ Other(p) # p /\ Other(Other(p)) = p
                               /\ \A q \in Peers : q = p \/ q = Other(p)
BY DEF Peers, Other, Inbound, Outbound

LEMMA OneStep ==
    ASSUME SessionInv, NEW p \in Peers, NEW s \in PeerRecords, peer' = [peer EXCEPT ![p] = s],
           s.accepts = peer[p].accepts, RestOK', wire' \in [Peers -> Seq(Transports)],
           RecordInv(Accepted, p, s), \A q \in Peers : WireTold(Accepted, wire'[q]),
           Numbered(s, wire'[p], peer[Other(p)].localCounter, peer[Other(p)].normal),
           Numbered(peer[Other(p)], wire'[Other(p)], s.localCounter, s.normal)
    PROVE  SessionInv'
<1>1. peer \in [Peers -> PeerRecords]
  BY DEF SessionInv, PartsOK, RestOK
<1>2. peer' \in [Peers -> PeerRecords] /\ peer'[p] = s /\ peer'[Other(p)] = peer[Other(p)]
  BY <1>1, Ends
<1>3. Accepted' = Accepted
  <2>1. \A q \in Peers : peer'[q].accepts = peer[q].accepts
    BY <1>1, <1>2, Ends
  <2> QED
    BY <2>1 DEF Accepted
<1>4. PartsOK'
  BY <1>2 DEF RestOK, PartsOK
<1>5. \A q \in Peers : RecordInv(Accepted, q, peer'[q])
  <2>1. RecordInv(Accepted, Other(p), peer[Other(p)])
    BY Ends DEF SessionInv
  <2> QED
    BY <1>2, <2>1, Ends
<1>6. \A q \in Peers : Numbered(peer'[q], wire'[q], peer'[Other(q)].localCounter, peer'[Other(q)].normal)
  <2>1. Other(Other(p)) = p
    BY Ends
  <2> QED
    BY <1>2, <2>1, Ends
<1> QED
  BY <1>3, <1>4, <1>5, <1>6 DEF SessionInv

\* Nothing is sent or received, and the record makes a step of those a message makes.
LEMMA QuietStep ==
    ASSUME SessionInv, NEW p \in Peers, NEW s, peer' = [peer EXCEPT ![p] = s], wire' = wire,
           RestOK', Ordinary(p, peer[p], s)
    PROVE  SessionInv'
<1>1. /\ peer[p] \in PeerRecords /\ peer[Other(p)] \in PeerRecords
      /\ wire[p] \in Seq(Transports) /\ wire[Other(p)] \in Seq(Transports)
      /\ wire \in [Peers -> Seq(Transports)]
  BY Ends DEF SessionInv, PartsOK, RestOK
<1>2. s \in PeerRecords /\ s.accepts = peer[p].accepts
  BY DEF Ordinary
<1>3. RecordInv(Accepted, p, peer[p]) /\ Accepted[p] = peer[p].accepts
  BY DEF SessionInv, Accepted
<1>4. RecordInv(Accepted, p, s)
  BY <1>1, <1>3, OrdinaryRecord
<1>5. Numbered(s, wire[p], peer[Other(p)].localCounter, peer[Other(p)].normal)
  <2>1. Numbered(peer[p], wire[p], peer[Other(p)].localCounter, peer[Other(p)].normal)
    BY DEF SessionInv
  <2> QED
    BY <1>1, <2>1, OrdinaryReceiver
<1>6. Numbered(peer[Other(p)], wire[Other(p)], s.localCounter, s.normal)
  <2>1. Numbered(peer[Other(p)], wire[Other(p)], peer[p].localCounter, peer[p].normal)
    BY Ends DEF SessionInv
  <2>2. CASE CounterStarts = {}
    <3>1. s.localCounter = peer[p].localCounter
      BY DEF Ordinary
    <3>2. CASE s.normal = peer[p].normal
      BY <2>1, <3>1, <3>2
    <3>3. ASSUME NEW x \in Messages, s.normal = Append(peer[p].normal, x), ~IsSession(x)
          PROVE  Numbered(peer[Other(p)], wire[Other(p)], s.localCounter, s.normal)
      <4>1. peer[p].normal \in Seq(Messages)
        BY <1>1 DEF PeerRecords
      <4>2. \A i \in 1 .. Len(s.normal) : IsSession(s.normal[i]) =>
               i \in 1 .. Len(peer[p].normal) /\ s.normal[i] = peer[p].normal[i]
        BY <3>3, <4>1, Longer
      <4> QED
        BY <2>1, <3>1, <4>2 DEF Numbered
    <3> QED
      BY <3>2, <3>3 DEF Ordinary, QueuesGrow
  <2>3. ASSUME NEW c \in CounterStarts
        PROVE  Numbered(peer[Other(p)], wire[Other(p)], s.localCounter, s.normal)
    <3>1. \A m : StepKinds(p, peer[p], m, c, s)
      BY DEF StepKinds
    <3> QED
      BY <1>1, <1>3, <2>1, <3>1, SenderStep
  <2> QED
    BY <2>2, <2>3
<1>7. \A q \in Peers : WireTold(Accepted, wire[q])
  BY DEF SessionInv
<1> QED
  BY <1>1, <1>2, <1>4, <1>5, <1>6, <1>7, OneStep

LEMMA RestStays ==
    ASSUME SessionInv, UNCHANGED <<suspended, extenders, unannounced, scenario, used>>
    PROVE  RestOK'
BY DEF SessionInv, PartsOK, RestOK

LEMMA ScenarioTypes ==
    ASSUME SessionInv
    PROVE  /\ \A p \in Peers : peer[p] \in PeerRecords /\ wire[p] \in Seq(Transports)
           /\ RestOK
           /\ \A p \in Peers : extenders[p] \in Numbers
BY DEF SessionInv, PartsOK, RestOK, Numbers

-----------------------------------------------------------------------------
(* The actions.                                                            *)

LEMMA DelayedFields ==
    ASSUME NEW p, NEW r \in PeerRecords, NEW m \in Messages, ~IsSession(m), m.type # "EndAuthentication"
    PROVE  Ordinary(p, r, Queue(r, m, "delayed"))
<1> DEFINE s == Queue(r, m, "delayed")
<1>1. s = [r EXCEPT !.delayed = Append(@, m)]
  BY DEF Queue
<1>2. Append(r.delayed, m) \in Seq(Messages)
  BY Longer DEF PeerRecords
<1> HIDE DEF s
<1>3. /\ s \in PeerRecords /\ s.delayed = Append(r.delayed, m) /\ s.status = r.status
      /\ s.condition = r.condition /\ s.accepts = r.accepts /\ s.localCounter = r.localCounter
      /\ s.normal = r.normal /\ s.expedited = r.expedited /\ s.deferred = r.deferred
      /\ s.held = r.held /\ s.peerCounter = r.peerCounter
  BY <1>1, <1>2 DEF PeerRecords
<1>4. Ordinary(p, r, s)
  BY <1>3 DEF Ordinary, StatusMoves, QueuesGrow
<1> QED
  BY <1>4 DEF s

LEMMA CondemnOrdinary ==
    ASSUME NEW p, NEW r \in PeerRecords, NEW why \in Conditions
    PROVE  Ordinary(p, r, Condemn(r, why))
BY CondemnedIsOrdinary, OuterIsOrdinary

LEMMA BeginHandshakeStep ==
    ASSUME SessionInv, NEW p \in Peers, BeginHandshake(p)
    PROVE  SessionInv'
<1> DEFINE m == IF p = Inbound THEN Msg("BeginMeta", 0, None) ELSE Noise
           r == [peer[p] EXCEPT !.status = "MetaExchange", !.exchange = 0]
           s == Queue(r, m, "delayed")
<1>1. peer' = [peer EXCEPT ![p] = s] /\ wire' = wire /\ peer[p].status = "Connected"
  BY DEF BeginHandshake
<1>2. RestOK'
  BY RestStays DEF BeginHandshake
<1>3. m \in Messages /\ ~IsSession(m) /\ m.type # "EndAuthentication"
  <2>1. Msg("BeginMeta", 0, None) \in Messages /\ Msg("BeginMeta", 0, None).type = "BeginMeta"
    <3>1. "BeginMeta" \in Types
      BY RepliesAreKnown
    <3>2. 0 \in Numbers /\ None \in Counters
      BY DEF Numbers, Counters
    <3> QED
      BY <3>1, <3>2, MessageType
  <2> QED
    BY <2>1, PlainMessages DEF IsSession, SessionTypes
<1>4. peer[p] \in PeerRecords
  BY ScenarioTypes
<1>5. /\ r \in PeerRecords /\ r.status = "MetaExchange"
      /\ Outer(r) = Outer([peer[p] EXCEPT !.status = "MetaExchange"])
  BY <1>4, StatusSet DEF PeerRecords, Numbers, NotReady, Handshaking, Outer
<1> HIDE DEF m, s, r
<1>6. Ordinary(p, r, s)
  BY <1>3, <1>5, DelayedFields DEF s
<1>7. Ordinary(p, peer[p], s)
  <2>1. /\ r.accepts = peer[p].accepts /\ r.localCounter = peer[p].localCounter
        /\ r.peerCounter = peer[p].peerCounter /\ r.condition = peer[p].condition
        /\ r.held = peer[p].held /\ r.normal = peer[p].normal /\ r.delayed = peer[p].delayed
        /\ r.expedited = peer[p].expedited /\ r.deferred = peer[p].deferred
    BY <1>4, <1>5 DEF Outer, PeerRecords
  <2>2. s.status = "MetaExchange"
    BY <1>5 DEF s, Queue, PeerRecords
  <2>3. StatusMoves(p, peer[p], s)
    BY <1>1, <2>2 DEF StatusMoves, Handshaking
  <2>4. QueuesGrow(p, peer[p], s)
    <3>1. QueuesGrow(p, r, s) /\ r.status \in NotReady /\ peer[p].status \in NotReady
      BY <1>1, <1>5, <1>6 DEF Ordinary, NotReady, Handshaking
    <3> QED
      BY <2>1, <3>1 DEF QueuesGrow
  <2>5. r.status \in NotReady
    BY <1>5 DEF NotReady, Handshaking
  <2> QED
    BY <1>6, <2>1, <2>3, <2>4, <2>5 DEF Ordinary
<1> QED
  BY <1>1, <1>2, <1>7, QuietStep

LEMMA EnableSendStep ==
    ASSUME SessionInv, NEW p \in Peers, EnableSend(p)
    PROVE  SessionInv'
<1> DEFINE s == [peer[p] EXCEPT !.sendDisabled = FALSE]
<1>1. peer' = [peer EXCEPT ![p] = s] /\ wire' = wire /\ RestOK'
  BY RestStays DEF EnableSend
<1>2. peer[p] \in PeerRecords
  BY ScenarioTypes
<1>3. s \in PeerRecords /\ Outer(s) = Outer(peer[p])
  BY <1>2 DEF PeerRecords, Outer
<1>4. Ordinary(p, peer[p], s)
  BY <1>2, <1>3, OuterIsOrdinary
<1> QED
  BY <1>1, <1>4, QuietStep

\* An action that condemns the peer and leaves the rest in its types.
LEMMA CondemnStep ==
    ASSUME SessionInv, NEW p \in Peers, NEW why \in Conditions,
           peer' = [peer EXCEPT ![p] = Condemn(peer[p], why)], wire' = wire, RestOK'
    PROVE  SessionInv'
<1>1. Ordinary(p, peer[p], Condemn(peer[p], why))
  BY ScenarioTypes, CondemnOrdinary
<1> QED
  BY <1>1, QuietStep

LEMMA UsedMore ==
    ASSUME SessionInv,
           UNCHANGED <<suspended, extenders, unannounced, scenario>>,
           \E f \in {"updates", "messages", "changes", "noise", "suspensions", "timeouts"} :
              used' = [used EXCEPT ![f] = @ + 1]
    PROVE  RestOK'
<1>1. used \in [updates : Nat, messages : Nat, changes : Nat, noise : Nat, suspensions : Nat,
                timeouts : Nat]
  BY DEF SessionInv, PartsOK, RestOK
<1>2. used' \in [updates : Nat, messages : Nat, changes : Nat, noise : Nat, suspensions : Nat,
                 timeouts : Nat]
  BY <1>1
<1> QED
  BY <1>2, RestStays DEF RestOK, SessionInv, PartsOK

LEMMA TimeoutSteps ==
    ASSUME SessionInv, NEW p \in Peers, HandshakeTimesOut(p) \/ KeyUpdateTimesOut(p) \/ ConnectionClosed(p)
    PROVE  SessionInv'
<1>1. CASE HandshakeTimesOut(p)
  <2>1. RestOK'
    BY <1>1, UsedMore DEF HandshakeTimesOut
  <2> QED
    BY <1>1, <2>1, CondemnStep DEF HandshakeTimesOut, Conditions
<1>2. CASE KeyUpdateTimesOut(p)
  <2>1. RestOK'
    BY <1>2, UsedMore DEF KeyUpdateTimesOut
  <2> QED
    BY <1>2, <2>1, CondemnStep DEF KeyUpdateTimesOut, Conditions
<1>3. CASE ConnectionClosed(p)
  <2>1. RestOK'
    BY <1>3, RestStays DEF ConnectionClosed
  <2> QED
    BY <1>3, <2>1, CondemnStep DEF ConnectionClosed, Conditions
<1> QED
  BY <1>1, <1>2, <1>3

\* Between ready and suspended, with the key update following.
LEMMA TurnOrdinary ==
    ASSUME NEW p, NEW r \in PeerRecords, r.status \in {"Ready", "Suspended"},
           NEW st \in {"Ready", "Suspended"}, NEW up \in UpdateStatuses
    PROVE  LET t == [r EXCEPT !.status = st]
           IN  /\ Ordinary(p, r, SetUpdateStatus(t, up))
               /\ Ordinary(p, r, Condemn(t, "GeneralFailure"))
<1> DEFINE t == [r EXCEPT !.status = st]
<1>1. /\ t \in PeerRecords /\ t.status = st /\ t.normal = r.normal /\ t.delayed = r.delayed
      /\ t.held = r.held /\ t.expedited = r.expedited /\ t.deferred = r.deferred
      /\ t.accepts = r.accepts /\ t.condition = r.condition
      /\ t.localCounter = r.localCounter /\ t.peerCounter = r.peerCounter
  BY StatusSet DEF PeerRecords
<1> HIDE DEF t
<1>2. ASSUME NEW u \in PeerRecords, Outer(u) = Outer(t)
      PROVE  Ordinary(p, r, u)
  BY <1>1, <1>2 DEF Outer, Ordinary, StatusMoves, QueuesGrow
<1>3. Ordinary(p, r, SetUpdateStatus(t, up))
  BY <1>1, <1>2, SetUpdateStatusFields
<1>4. Ordinary(p, r, t)
  BY <1>1, <1>2
<1>5. Ordinary(p, r, Condemn(t, "GeneralFailure"))
  BY <1>1, <1>4, CondemnedIsOrdinary DEF Conditions
<1> QED
  BY <1>3, <1>5 DEF t

LEMMA SuspendStep ==
    ASSUME SessionInv, NEW p \in Peers, Suspend(p) \/ Resume(p)
    PROVE  SessionInv'
<1>0. peer[p] \in PeerRecords /\ peer[p].resume \in UpdateStatuses /\ "Suspended" \in UpdateStatuses
  BY ScenarioTypes DEF PeerRecords, UpdateStatuses
<1>1. RestOK' /\ wire' = wire
  BY RestStays DEF Suspend, Resume
<1>2. CASE Suspend(p)
  <2> DEFINE t == [peer[p] EXCEPT !.status = "Suspended"]
             s == IF UpdateStatusAllowed(peer[p], "Suspended") THEN SetUpdateStatus(t, "Suspended")
                  ELSE Condemn(t, "GeneralFailure")
  <2>1. peer' = [peer EXCEPT ![p] = s] /\ peer[p].status = "Ready"
    BY <1>2 DEF Suspend
  <2>2. Ordinary(p, peer[p], s)
    BY <1>0, <2>1, TurnOrdinary
  <2> QED
    BY <1>1, <2>1, <2>2, QuietStep
<1>3. CASE Resume(p)
  <2> DEFINE t == [peer[p] EXCEPT !.status = "Ready"]
             s == IF UpdateStatusAllowed(peer[p], peer[p].resume)
                  THEN SetUpdateStatus(t, peer[p].resume)
                  ELSE Condemn(t, "GeneralFailure")
  <2>1. peer' = [peer EXCEPT ![p] = s] /\ peer[p].status = "Suspended"
    BY <1>3 DEF Resume
  <2>2. Ordinary(p, peer[p], s)
    BY <1>0, <2>1, TurnOrdinary
  <2> QED
    BY <1>1, <2>1, <2>2, QuietStep
<1> QED
  BY <1>2, <1>3

LEMMA ReceiveActionStep ==
    ASSUME SessionInv, NEW p \in Peers, Receive(p)
    PROVE  SessionInv'
<1> DEFINE r == peer[p]
           t == Head(wire[p])
           d == CountedIn(r)
           o == Other(p)
<1>1. /\ wire[p] # <<>> /\ r.condition = None /\ r.status # "Disconnected"
      /\ wire' = [wire EXCEPT ![p] = Tail(wire[p])]
  BY DEF Receive, Active
<1>2. PICK c \in CounterStarts, late \in {FALSE, LateMessages} :
        peer' = [peer EXCEPT ![p] =
           IF ~CanDecrypt(r, t.key) THEN Condemn(r, "ReceiveError")
           ELSE IF d.peerCounter \notin {None, t.counter} THEN Condemn(d, "ReceiveError")
           ELSE QueueOrProcess(p, d, t.message, c, late)]
  BY DEF Receive, CountedIn
<1>3. RestOK'
  BY RestStays DEF Receive
<1>4. /\ r \in PeerRecords /\ wire[p] \in Seq(Transports) /\ wire \in [Peers -> Seq(Transports)]
      /\ Accepted[p] = r.accepts /\ o \in Peers /\ o # p /\ Other(o) = p /\ peer[o] \in PeerRecords
      /\ extenders \in [Peers -> Nat]
  BY Ends DEF SessionInv, PartsOK, RestOK, Accepted
<1>5. /\ RecordInv(Accepted, p, r) /\ WireTold(Accepted, wire[p]) /\ WireTold(Accepted, wire[o])
      /\ Numbered(r, wire[p], peer[o].localCounter, peer[o].normal)
      /\ Numbered(peer[o], wire[o], r.localCounter, r.normal)
  BY <1>4 DEF SessionInv
<1>6. /\ Tail(wire[p]) \in Seq(Transports) /\ wire' \in [Peers -> Seq(Transports)]
      /\ wire'[p] = Tail(wire[p]) /\ wire'[o] = wire[o]
  BY <1>1, <1>4, TailOf
<1>7. \A q \in Peers : WireTold(Accepted, wire'[q])
  <2>1. WireTold(Accepted, Tail(wire[p]))
    <3>1. \A i \in 1 .. Len(Tail(wire[p])) : i + 1 \in 1 .. Len(wire[p]) /\ Tail(wire[p])[i] = wire[p][i + 1]
      BY <1>1, <1>4, TailOf
    <3> QED
      BY <1>5, <3>1 DEF WireTold
  <2> QED
    BY <1>5, <1>6, <2>1, Ends
<1>8. wire[o] \in Seq(Transports)
  BY <1>4
<1>9. /\ d \in PeerRecords /\ d.accepts = r.accepts /\ d.localCounter = r.localCounter
      /\ d.normal = r.normal /\ RecordInv(Accepted, p, d)
  BY <1>4, <1>5, CountedInFields
<1> HIDE DEF r, t, d, o
<1>10. ASSUME NEW u \in PeerRecords, u.accepts = r.accepts, u.localCounter = r.localCounter,
              u.normal = r.normal, RecordInv(Accepted, p, u),
              peer' = [peer EXCEPT ![p] = Condemn(u, "ReceiveError")]
       PROVE  SessionInv'
  <2> DEFINE s == Condemn(u, "ReceiveError")
  <2>1. Ordinary(p, u, s) /\ s.condition # None
    BY <1>10, OuterIsOrdinary, CondemnedIsOrdinary DEF Conditions
  <2>2. s \in PeerRecords /\ s.accepts = u.accepts /\ s.localCounter = u.localCounter
    BY <2>1 DEF Ordinary
  <2>3. s.normal = u.normal
    BY <1>10 DEF Condemn, PeerRecords
  <2>4. RecordInv(Accepted, p, s)
    BY <1>4, <1>10, <2>1, OrdinaryRecord
  <2> HIDE DEF s
  <2>5. Numbered(s, wire'[p], peer[o].localCounter, peer[o].normal)
    BY <2>1, CondemnedNumbered
  <2>6. Numbered(peer[o], wire'[o], s.localCounter, s.normal)
    BY <1>5, <1>6, <1>10, <2>2, <2>3
  <2> QED
    BY <1>3, <1>6, <1>7, <1>10, <2>2, <2>4, <2>5, <2>6, OneStep DEF o, s, r
<1>11. CASE ~CanDecrypt(r, t.key)
  BY <1>2, <1>4, <1>5, <1>10, <1>11
<1>12. CASE CanDecrypt(r, t.key) /\ d.peerCounter \notin {None, t.counter}
  BY <1>2, <1>9, <1>10, <1>12
<1>13. CASE CanDecrypt(r, t.key) /\ d.peerCounter \in {None, t.counter}
  <2> DEFINE s == QueueOrProcess(p, d, t.message, c, late)
  <2>1. peer' = [peer EXCEPT ![p] = s]
    BY <1>2, <1>13
  <2>2. /\ RecordInv(Accepted, p, s) /\ s \in PeerRecords /\ s.accepts = r.accepts
        /\ Numbered(s, Tail(wire[p]), peer[o].localCounter, peer[o].normal)
        /\ \A e \in PeerRecords : \A x \in Seq(Transports) :
             Numbered(e, x, r.localCounter, r.normal) => Numbered(e, x, s.localCounter, s.normal)
    <3>1. LET d1 == CountedIn(r)
              m1 == Head(wire[p]).message
              s1 == QueueOrProcess(p, d1, m1, c, late)
          IN  /\ RecordInv(Accepted, p, s1) /\ s1 \in PeerRecords /\ s1.accepts = r.accepts
              /\ Numbered(s1, Tail(wire[p]), peer[o].localCounter, peer[o].normal)
              /\ \A e \in PeerRecords : \A x \in Seq(Transports) :
                   Numbered(e, x, r.localCounter, r.normal) => Numbered(e, x, s1.localCounter, s1.normal)
      <4>1. /\ r \in PeerRecords /\ Accepted[p] = r.accepts /\ RecordInv(Accepted, p, r)
            /\ r.condition = None /\ r.status # "Disconnected" /\ wire[p] \in Seq(Transports)
            /\ wire[p] # <<>> /\ WireTold(Accepted, wire[p])
            /\ Numbered(r, wire[p], peer[o].localCounter, peer[o].normal)
            /\ extenders \in [Peers -> Nat]
        BY <1>1, <1>4, <1>5
      <4> QED
        BY ONLY <4>1, c \in CounterStarts, p \in Peers, ReceiveStep
    <3> QED
      BY <3>1 DEF d, t
  <2> HIDE DEF s
  <2>3. Numbered(peer[o], wire'[o], s.localCounter, s.normal)
    BY <1>4, <1>5, <1>6, <1>8, <2>2
  <2> QED
    BY <1>3, <1>6, <1>7, <2>1, <2>2, <2>3, OneStep DEF o, r
<1> QED
  BY <1>11, <1>12, <1>13

LEMMA ProcessDeferredStep ==
    ASSUME SessionInv, NEW p \in Peers, ProcessDeferred(p)
    PROVE  SessionInv'
<1> DEFINE r == peer[p]
           m == Head(r.deferred)
           d == [r EXCEPT !.deferred = Tail(@)]
<1>1. /\ r.condition = None /\ r.status # "Disconnected" /\ r.deferred # <<>>
      /\ HasRoom(r, m) /\ wire' = wire
  BY DEF ProcessDeferred, Active
<1>2. PICK c \in CounterStarts, late \in {FALSE, LateMessages} : peer' = [peer EXCEPT ![p] = ProcessMessage(p, d, m, c, late)]
  BY DEF ProcessDeferred
<1>3. RestOK'
  BY RestStays DEF ProcessDeferred
<1>4. r \in PeerRecords /\ RecordInv(Accepted, p, r) /\ Accepted[p] = r.accepts
  BY DEF SessionInv, PartsOK, RestOK, Accepted
<1>5. r.deferred \in Seq(Messages)
  BY <1>4 DEF PeerRecords
<1>6. /\ Tail(r.deferred) \in Seq(Messages) /\ m \in Messages
      /\ \A i \in 1 .. Len(Tail(r.deferred)) :
           i + 1 \in 1 .. Len(r.deferred) /\ Tail(r.deferred)[i] = r.deferred[i + 1]
  BY <1>1, <1>5, TailOf
<1>7. /\ d \in PeerRecords /\ d.deferred = Tail(r.deferred) /\ d.status = r.status
      /\ d.condition = r.condition /\ d.accepts = r.accepts /\ d.localCounter = r.localCounter
      /\ d.normal = r.normal /\ d.delayed = r.delayed /\ d.expedited = r.expedited
      /\ d.held = r.held /\ d.peerCounter = r.peerCounter
  BY <1>4, <1>6 DEF PeerRecords
<1>8. r.status \notin NotReady
  BY <1>1, <1>4 DEF RecordInv, RecordOK
<1> HIDE DEF d, m
<1>9. RecordInv(Accepted, p, d)
  <2>1. RecordTold(Accepted, d)
    BY <1>4, <1>6, <1>7 DEF RecordInv, RecordTold
  <2>2. RecordOK(p, d)
    <3>1. d.status \notin BeforeSession(p)
      BY <1>7, <1>8, StatusNames
    <3> QED
      BY <1>4, <1>7, <1>8, <3>1 DEF RecordInv, RecordOK
  <2> QED
    BY <1>4, <1>7, <2>1, <2>2 DEF RecordInv, StatusTold
<1> DEFINE s == ProcessMessage(p, d, m, c, late)
<1>10. Ordinary(p, d, s)
  <2>1. HasRoom(d, m)
    BY <1>1, <1>7 DEF HasRoom
  <2>2. extenders \in [Peers -> Nat]
    BY DEF SessionInv, PartsOK, RestOK
  <2>3. \/ Ordinary(p, d, s)
        \/ BeginsSession(p, d, m, c, s) \/ AnswersSession(p, d, m, c, s) \/ EndsSession(p, d, m, s)
    BY <1>1, <1>6, <1>7, <2>1, <2>2, ProcessKinds
  <2>4. d.status # "Authentication" /\ d.status # "SessionInit"
    BY <1>7, <1>8 DEF NotReady, Handshaking
  <2> QED
    BY <2>3, <2>4 DEF BeginsSession, AnswersSession, EndsSession
<1> HIDE DEF s
<1>11. s \in PeerRecords /\ s.accepts = r.accepts /\ RecordInv(Accepted, p, s)
  BY <1>4, <1>7, <1>9, <1>10, OrdinaryRecord DEF Ordinary
<1>12. /\ peer[Other(p)] \in PeerRecords /\ wire \in [Peers -> Seq(Transports)]
       /\ wire[p] \in Seq(Transports) /\ wire[Other(p)] \in Seq(Transports)
       /\ Other(p) \in Peers /\ Other(Other(p)) = p
  BY Ends DEF SessionInv, PartsOK, RestOK
<1>13. Numbered(s, wire[p], peer[Other(p)].localCounter, peer[Other(p)].normal)
  <2>1. Numbered(r, wire[p], peer[Other(p)].localCounter, peer[Other(p)].normal)
    BY DEF SessionInv
  <2>2. Numbered(d, wire[p], peer[Other(p)].localCounter, peer[Other(p)].normal)
    BY <1>7, <2>1 DEF Numbered
  <2> QED
    BY <1>7, <1>10, <2>2, OrdinaryReceiver
<1>14. Numbered(peer[Other(p)], wire[Other(p)], s.localCounter, s.normal)
  <2>1. Numbered(peer[Other(p)], wire[Other(p)], r.localCounter, r.normal)
    BY <1>12 DEF SessionInv
  <2>2. Numbered(peer[Other(p)], wire[Other(p)], d.localCounter, d.normal)
    BY <1>7, <2>1
  <2>3. StepKinds(p, d, m, c, s)
    BY <1>10 DEF StepKinds
  <2> QED
    BY <1>7, <1>9, <1>12, <2>2, <2>3, SenderStep
<1>15. \A q \in Peers : WireTold(Accepted, wire[q])
  BY DEF SessionInv
<1> QED
  BY <1>1, <1>2, <1>3, <1>11, <1>12, <1>13, <1>14, <1>15, OneStep DEF s

LEMMA SendStep ==
    ASSUME SessionInv, NEW p \in Peers, Send(p)
    PROVE  SessionInv'
<1> DEFINE r == peer[p]
           o == Other(p)
           q == NextQueue(r)
           counter == NextCounter(r.localCounter)
<1>1. RestOK' /\ q # None
  BY RestStays DEF Send
<1>2. CASE EncryptionKey(r) = None
  BY <1>1, <1>2, CondemnStep DEF Send, Conditions
<1>3. CASE EncryptionKey(r) # None
  <2> DEFINE t == [key |-> EncryptionKey(r), counter |-> counter, message |-> FirstOf(r, q)]
             s == Shorter(r, q)
  <2>1. MayLeave(r, q) /\ q \in Queues
    BY <1>1 DEF MayLeave, NextQueue, Queues
  <2>2. /\ r \in PeerRecords /\ wire \in [Peers -> Seq(Transports)]
        /\ Accepted[p] = r.accepts /\ o \in Peers /\ o # p /\ Other(o) = p /\ peer[o] \in PeerRecords
        /\ wire[o] \in Seq(Transports) /\ wire[p] \in Seq(Transports)
    BY Ends DEF SessionInv, PartsOK, RestOK, Accepted
  <2>3. /\ RecordInv(Accepted, p, r) /\ WireTold(Accepted, wire[p]) /\ WireTold(Accepted, wire[o])
        /\ Numbered(r, wire[p], peer[o].localCounter, peer[o].normal)
        /\ Numbered(peer[o], wire[o], r.localCounter, r.normal)
    BY <2>2 DEF SessionInv
  <2>4. FirstOf(r, q) = Head(r[q])
    BY <2>1 DEF FirstOf, Queues
  <2>5. s = [r EXCEPT ![q] = Tail(@), !.localCounter = counter]
    <3>1. CASE q = "normal"
      BY <2>2, <3>1 DEF Shorter, PeerRecords
    <3>2. CASE q = "delayed"
      BY <2>2, <3>2 DEF Shorter, PeerRecords
    <3>3. CASE q = "expedited"
      BY <2>2, <3>3 DEF Shorter, PeerRecords
    <3> QED
      BY <2>1, <3>1, <3>2, <3>3 DEF Queues
  <2>6. peer' = [peer EXCEPT ![p] = s] /\ wire' = [wire EXCEPT ![o] = Append(wire[o], t)]
    <3>1. /\ peer' = [peer EXCEPT ![p] = [r EXCEPT ![q] = Tail(@), !.localCounter = counter]]
          /\ wire' = [wire EXCEPT ![o] = Append(@, [key |-> EncryptionKey(r), counter |-> counter,
                                                    message |-> Head(r[q])])]
      BY <1>3 DEF Send
    <3> QED
      BY <2>4, <2>5, <3>1
  <2>7. /\ s \in PeerRecords /\ s.status = r.status /\ s.condition = r.condition
        /\ s.accepts = r.accepts /\ s.peerCounter = r.peerCounter /\ s.localCounter = counter
        /\ RecordInv(Accepted, p, s)
        /\ FirstOf(r, q) \in Messages /\ Told(Accepted, FirstOf(r, q))
    BY <2>1, <2>2, <2>3, SentRecord
  <2>8. t \in Transports /\ t.counter = counter /\ t.message = FirstOf(r, q)
    <3>1. EncryptionKey(r) \in KeyNames
      BY <1>3, <2>2, EncryptionKeyType
    <3>2. counter \in Counters
      BY <2>2, NextCounterType DEF PeerRecords
    <3> QED
      BY <2>7, <3>1, <3>2 DEF Transports
  <2> HIDE DEF s, t, q
  <2>9. /\ Append(wire[o], t) \in Seq(Transports) /\ wire' \in [Peers -> Seq(Transports)]
        /\ wire'[o] = Append(wire[o], t) /\ wire'[p] = wire[p]
    BY <2>2, <2>6, <2>8, Longer
  <2>10. \A e \in Peers : WireTold(Accepted, wire'[e])
    <3>1. WireTold(Accepted, Append(wire[o], t))
      <4>1. /\ Len(Append(wire[o], t)) = Len(wire[o]) + 1
            /\ \A i \in 1 .. Len(wire[o]) + 1 :
                 \/ i \in 1 .. Len(wire[o]) /\ Append(wire[o], t)[i] = wire[o][i]
                 \/ i = Len(wire[o]) + 1 /\ Append(wire[o], t)[i] = t
        BY <2>2, <2>8, Longer
      <4> QED
        BY <2>3, <2>7, <2>8, <4>1 DEF WireTold
    <3> QED
      BY <2>3, <2>9, <3>1, Ends
  <2>11. Numbered(s, wire'[p], peer[o].localCounter, peer[o].normal)
    BY <2>3, <2>7, <2>9 DEF Numbered
  <2>12. Numbered(peer[o], wire'[o], s.localCounter, s.normal)
    <3>1. s = Shorter(r, q)
      BY DEF s
    <3>2. t.counter = NextCounter(r.localCounter)
      BY <2>8 DEF counter
    <3> HIDE DEF s, t, r, o, q, counter
    <3>3. Numbered(peer[o], Append(wire[o], t), s.localCounter, s.normal)
      BY ONLY p \in Peers, <2>1, <2>2, <2>3, <2>8, <3>1, <3>2, SentNumbered
    <3> QED
      BY <2>9, <3>3
  <2> QED
    BY <1>1, <2>6, <2>7, <2>9, <2>10, <2>11, <2>12, OneStep
<1> QED
  BY <1>2, <1>3

LEMMA QueueNoiseStep ==
    ASSUME SessionInv, NEW p \in Peers, QueueNoise(p)
    PROVE  SessionInv'
<1>1. RestOK'
  BY UsedMore DEF QueueNoise
<1>2. peer' = [peer EXCEPT ![p] = Queue(peer[p], Noise, "delayed")] /\ wire' = wire
  BY DEF QueueNoise
<1>3. Noise \in Messages /\ ~IsSession(Noise) /\ Noise.type # "EndAuthentication"
  BY PlainMessages
<1>4. Ordinary(p, peer[p], Queue(peer[p], Noise, "delayed"))
  BY <1>3, ScenarioTypes, DelayedFields
<1> QED
  BY <1>1, <1>2, <1>4, QuietStep

LEMMA UpdateMessage ==
    ASSUME NEW n \in Numbers
    PROVE  LET m == Msg("ExtenderUpdate", n, None)
           IN  m \in Messages /\ ~IsSession(m) /\ m.type # "EndAuthentication"
<1>1. "ExtenderUpdate" \in Types /\ None \in Counters
  BY KnownTypes DEF Counters
<1>2. Msg("ExtenderUpdate", n, None) \in Messages /\ Msg("ExtenderUpdate", n, None).type = "ExtenderUpdate"
  BY <1>1, MessageType
<1> QED
  BY <1>2 DEF IsSession, SessionTypes

LEMMA SendExtenderUpdateStep ==
    ASSUME SessionInv, NEW p \in Peers, SendExtenderUpdate(p)
    PROVE  SessionInv'
<1> DEFINE r == [peer[p] EXCEPT !.needsUpdate = FALSE]
           m == Msg("ExtenderUpdate", extenders[p], None)
           s == Queue(r, m, "normal")
<1>1. RestOK' /\ wire' = wire /\ peer[p].status = "Ready" /\ peer' = [peer EXCEPT ![p] = s]
  BY RestStays DEF SendExtenderUpdate
<1>2. peer[p] \in PeerRecords
  BY ScenarioTypes
<1>3. r \in PeerRecords /\ Outer(r) = Outer(peer[p])
  BY <1>2 DEF PeerRecords, Outer
<1>4. m \in Messages /\ ~IsSession(m) /\ m.type # "EndAuthentication"
  BY ScenarioTypes, UpdateMessage
<1>5. peer[p].status \notin NotReady
  BY <1>1, StatusNames
<1> HIDE DEF r, m
<1>6. Ordinary(p, peer[p], s)
  BY <1>2, <1>3, <1>4, <1>5, NormalFields
<1> QED
  BY <1>1, <1>6, QuietStep

LEMMA BroadcastStep ==
    ASSUME SessionInv, NEW p \in Peers, BroadcastExtenderUpdate(p)
    PROVE  SessionInv'
<1> DEFINE m == Msg("ExtenderUpdate", extenders[p], None)
<1>1. RestOK' /\ wire' = wire
  BY DEF BroadcastExtenderUpdate, SessionInv, PartsOK, RestOK
<1>2. peer[p] \in PeerRecords
  BY ScenarioTypes
<1>3. CASE peer[p].status = "Ready"
  <2>1. peer' = [peer EXCEPT ![p] = Queue(peer[p], m, "normal")]
    BY <1>3 DEF BroadcastExtenderUpdate
  <2>2. m \in Messages /\ ~IsSession(m) /\ m.type # "EndAuthentication"
    BY ScenarioTypes, UpdateMessage
  <2>3. peer[p].status \notin NotReady
    BY <1>3, StatusNames
  <2> HIDE DEF m
  <2>4. Ordinary(p, peer[p], Queue(peer[p], m, "normal"))
    BY <1>2, <2>2, <2>3, NormalFields
  <2> QED
    BY <1>1, <2>1, <2>4, QuietStep
<1>4. CASE peer[p].status \in {"SessionInit", "Suspended"}
  <2> DEFINE s == [peer[p] EXCEPT !.needsUpdate = TRUE]
  <2>1. peer' = [peer EXCEPT ![p] = s]
    BY <1>4 DEF BroadcastExtenderUpdate
  <2>2. s \in PeerRecords /\ Outer(s) = Outer(peer[p])
    BY <1>2 DEF PeerRecords, Outer
  <2>3. Ordinary(p, peer[p], s)
    BY <1>2, <2>2, OuterIsOrdinary
  <2> QED
    BY <1>1, <2>1, <2>3, QuietStep
<1>5. CASE peer[p].status \notin {"Ready", "SessionInit", "Suspended"}
  <2>1. peer' = [peer EXCEPT ![p] = peer[p]]
    BY <1>5 DEF BroadcastExtenderUpdate
  <2>2. Ordinary(p, peer[p], peer[p])
    BY <1>2, OuterIsOrdinary
  <2> QED
    BY <1>1, <2>1, <2>2, QuietStep
<1> QED
  BY <1>3, <1>4, <1>5

LEMMA BeginKeyUpdateStep ==
    ASSUME SessionInv, NEW p \in Peers, BeginKeyUpdate(p)
    PROVE  SessionInv'
<1> DEFINE n == used.updates + 1
           r == [peer[p] EXCEPT !.exchange = n]
           m == Msg("BeginPrimaryUpdate", n, None)
           s == SetUpdateStatus(Queue(r, m, "normal"), "PrimaryExchange")
<1>1. wire' = wire /\ peer[p].status = "Ready"
  BY DEF BeginKeyUpdate
<1>2. RestOK'
  BY UsedMore DEF BeginKeyUpdate
<1>3. peer[p] \in PeerRecords
  BY ScenarioTypes
<1>4. CASE peer[p].exchange # None
  BY <1>1, <1>2, <1>4, CondemnStep DEF BeginKeyUpdate, Conditions
<1>5. CASE peer[p].exchange = None
  <2>1. peer' = [peer EXCEPT ![p] = s]
    BY <1>5 DEF BeginKeyUpdate
  <2>2. n \in Nat /\ n \in Numbers
    BY DEF SessionInv, PartsOK, RestOK, Numbers
  <2> HIDE DEF n
  <2>3. r \in PeerRecords /\ Outer(r) = Outer(peer[p])
    BY <1>3, <2>2 DEF PeerRecords, Outer
  <2>4. m \in Messages /\ m.type = "BeginPrimaryUpdate"
    <3>1. "BeginPrimaryUpdate" \in Types /\ None \in Counters
      BY KnownTypes DEF Counters
    <3> QED
      BY <2>2, <3>1, MessageType
  <2>5. ~IsSession(m) /\ m.type # "EndAuthentication"
    BY <2>4 DEF IsSession, SessionTypes
  <2>6. peer[p].status \notin NotReady
    BY <1>1, StatusNames
  <2> DEFINE t == Queue(r, m, "normal")
  <2> HIDE DEF r, m
  <2>7. t \in PeerRecords /\ \A u \in PeerRecords : Outer(u) = Outer(t) => Ordinary(p, peer[p], u)
    BY <1>3, <2>3, <2>4, <2>5, <2>6, NormalFields
  <2> HIDE DEF t
  <2>8. SetUpdateStatus(t, "PrimaryExchange") \in PeerRecords
        /\ Outer(SetUpdateStatus(t, "PrimaryExchange")) = Outer(t)
    BY <2>7, SetUpdateStatusFields DEF UpdateStatuses
  <2>9. Ordinary(p, peer[p], s)
    BY <2>7, <2>8 DEF t
  <2> QED
    BY <1>1, <1>2, <2>1, <2>9, QuietStep
<1> QED
  BY <1>4, <1>5

LEMMA GraceEndsStep ==
    ASSUME SessionInv, NEW p \in Peers, GraceEnds(p)
    PROVE  SessionInv'
<1> DEFINE old(k) == {i \in DOMAIN k : k[i].age = "grace"}
           K(k) == [i \in DOMAIN k |-> IF i \in old(k) THEN [k[i] EXCEPT !.age = "expired"] ELSE k[i]]
           s == [peer[p] EXCEPT !.keys = K(peer[p].keys)]
<1>1. RestOK' /\ wire' = wire
  BY RestStays DEF GraceEnds
<1>2. peer[p] \in PeerRecords /\ peer[p].keys \in KeyLists
  BY ScenarioTypes, SMTT(60) DEF PeerRecords, KeyLists
<1>3. peer' = [peer EXCEPT ![p] = s]
  BY DEF GraceEnds
<1>4. \A i \in DOMAIN peer[p].keys : K(peer[p].keys)[i] \in KeyPairs
  <2> TAKE i \in DOMAIN peer[p].keys
  <2>1. peer[p].keys[i] \in KeyPairs
    BY <1>2, KeyElement
  <2>2. [peer[p].keys[i] EXCEPT !.age = "expired"] \in KeyPairs
    BY <2>1 DEF KeyPairs
  <2> QED
    BY <2>1, <2>2
<1>5. K(peer[p].keys) \in KeyLists
  BY <1>2, <1>4, KeysEachType
<1> DEFINE k == K(peer[p].keys)
<1>6. s = [peer[p] EXCEPT !.keys = k]
  OBVIOUS
<1> HIDE DEF k, s, K
<1>7. k \in {x \in Seq(KeyPairs) : Len(x) <= MaxKeyPairs}
  BY <1>5 DEF KeyLists, k
<1>8. s \in PeerRecords /\ Outer(s) = Outer(peer[p])
  BY <1>2, <1>6, <1>7 DEF PeerRecords, Outer
<1>9. Ordinary(p, peer[p], s)
  BY <1>2, <1>8, OuterIsOrdinary
<1> QED
  BY <1>1, <1>3, <1>9, QuietStep

LEMMA DisconnectStep ==
    ASSUME SessionInv, NEW p \in Peers, Disconnect(p)
    PROVE  SessionInv'
<1> DEFINE s == [peer[p] EXCEPT !.status = "Disconnected"]
<1>1. RestOK' /\ wire' = wire /\ peer' = [peer EXCEPT ![p] = s]
  BY RestStays DEF Disconnect
<1>2. peer[p] \in PeerRecords
  BY ScenarioTypes
<1>3. /\ s \in PeerRecords /\ s.status = "Disconnected" /\ s.normal = peer[p].normal
      /\ s.delayed = peer[p].delayed /\ s.held = peer[p].held /\ s.expedited = peer[p].expedited
      /\ s.deferred = peer[p].deferred /\ s.accepts = peer[p].accepts
      /\ s.condition = peer[p].condition
      /\ s.localCounter = peer[p].localCounter /\ s.peerCounter = peer[p].peerCounter
  BY <1>2, StatusSet DEF PeerRecords
<1>4. Ordinary(p, peer[p], s)
  BY <1>3 DEF Ordinary, StatusMoves, QueuesGrow
<1> QED
  BY <1>1, <1>4, QuietStep

LEMMA ExtenderFinishesStep ==
    ASSUME SessionInv, NEW p \in Peers, ExtenderFinishes(p)
    PROVE  SessionInv'
<1> DEFINE h == peer[p].held - 1
           s == [peer[p] EXCEPT !.held = h]
<1>1. RestOK' /\ wire' = wire /\ peer' = [peer EXCEPT ![p] = s] /\ peer[p].held > 0
  BY RestStays DEF ExtenderFinishes
<1>2. peer[p] \in PeerRecords /\ peer[p].held \in 0 .. ReceiveRoom /\ ReceiveRoom \in Nat
  BY ScenarioTypes DEF PeerRecords
<1>3. h \in 0 .. ReceiveRoom
  BY <1>1, <1>2
<1> HIDE DEF h
<1>4. /\ s \in PeerRecords /\ s.status = peer[p].status /\ s.normal = peer[p].normal
      /\ s.delayed = peer[p].delayed /\ s.expedited = peer[p].expedited
      /\ s.deferred = peer[p].deferred /\ s.accepts = peer[p].accepts
      /\ s.condition = peer[p].condition
      /\ s.localCounter = peer[p].localCounter /\ s.peerCounter = peer[p].peerCounter
  BY <1>2, <1>3 DEF PeerRecords
<1>5. peer[p].status \notin NotReady
  <2>1. RecordOK(p, peer[p])
    BY DEF SessionInv, RecordInv
  <2> QED
    BY <1>1, <2>1 DEF RecordOK
<1>6. Ordinary(p, peer[p], s)
  BY <1>4, <1>5 DEF Ordinary, StatusMoves, QueuesGrow
<1> QED
  BY <1>1, <1>6, QuietStep

LEMMA ExtenderSendsStep ==
    ASSUME SessionInv, NEW p \in Peers, ExtenderSends(p)
    PROVE  SessionInv'
<1>1. RestOK' /\ wire' = wire /\ peer[p].status = "Ready"
  BY UsedMore DEF ExtenderSends
<1>2. peer[p] \in PeerRecords /\ peer[p].status \notin NotReady
  BY <1>1, ScenarioTypes, StatusNames
<1>3. PICK priority \in Priorities : peer' = [peer EXCEPT ![p] = Queue(peer[p], Extender, priority)]
  BY DEF ExtenderSends
<1>4. Extender \in Messages /\ ~IsSession(Extender) /\ Extender.type # "EndAuthentication"
  BY PlainMessages
<1>5. priority \in {"expedited", "normal", "delayed"}
  BY DEF Queues
<1>6. Ordinary(p, peer[p], Queue(peer[p], Extender, priority))
  <2>1. CASE priority = "normal"
    BY <1>2, <1>4, <2>1, NormalFields
  <2>2. CASE priority = "delayed"
    BY <1>2, <1>4, <2>2, DelayedFields
  <2>3. CASE priority = "expedited"
    <3> DEFINE s == Queue(peer[p], Extender, priority)
    <3>1. s = [peer[p] EXCEPT !.expedited = Append(@, Extender)]
      BY <2>3 DEF Queue
    <3>2. Append(peer[p].expedited, Extender) \in Seq(Messages)
      BY <1>2, <1>4, Longer DEF PeerRecords
    <3> HIDE DEF s
    <3>3. /\ s \in PeerRecords /\ s.expedited = Append(peer[p].expedited, Extender)
          /\ s.status = peer[p].status /\ s.normal = peer[p].normal
          /\ s.delayed = peer[p].delayed /\ s.held = peer[p].held
          /\ s.deferred = peer[p].deferred /\ s.accepts = peer[p].accepts
          /\ s.condition = peer[p].condition
          /\ s.localCounter = peer[p].localCounter /\ s.peerCounter = peer[p].peerCounter
      BY <1>2, <3>1, <3>2 DEF PeerRecords
    <3>4. Ordinary(p, peer[p], s)
      BY <3>3 DEF Ordinary, StatusMoves, QueuesGrow
    <3> QED
      BY <3>4 DEF s
  <2> QED
    BY <1>5, <2>1, <2>2, <2>3
<1> QED
  BY <1>1, <1>3, <1>6, QuietStep

\* Steps of the environment that leave both records alone.
LEMMA OutsideStep ==
    ASSUME SessionInv, UNCHANGED <<peer, wire>>, RestOK'
    PROVE  SessionInv'
<1>1. Accepted' = Accepted
  BY DEF Accepted
<1>2. PartsOK'
  BY DEF SessionInv, PartsOK, RestOK
<1> QED
  BY <1>1, <1>2 DEF SessionInv

LEMMA OutsideSteps ==
    ASSUME SessionInv, NEW p \in Peers,
           ExtenderListChanges(p) \/ ConnectionSuspends(p) \/ ConnectionResumes(p)
    PROVE  SessionInv'
<1>1. RestOK
  BY ScenarioTypes
<1>2. CASE ExtenderListChanges(p)
  <2>1. used' \in [updates : Nat, messages : Nat, changes : Nat, noise : Nat, suspensions : Nat,
                   timeouts : Nat]
    BY <1>1, <1>2 DEF RestOK, ExtenderListChanges
  <2>2. extenders' \in [Peers -> Nat] /\ unannounced' \in [Peers -> BOOLEAN]
    BY <1>1, <1>2 DEF RestOK, ExtenderListChanges
  <2> QED
    BY <1>1, <1>2, <2>1, <2>2, OutsideStep DEF RestOK, ExtenderListChanges
<1>3. CASE ConnectionSuspends(p)
  <2>1. used' \in [updates : Nat, messages : Nat, changes : Nat, noise : Nat, suspensions : Nat,
                   timeouts : Nat]
    BY <1>1, <1>3 DEF RestOK, ConnectionSuspends
  <2>2. suspended' \in [Peers -> BOOLEAN]
    BY <1>1, <1>3 DEF RestOK, ConnectionSuspends
  <2> QED
    BY <1>1, <1>3, <2>1, <2>2, OutsideStep DEF RestOK, ConnectionSuspends
<1>4. CASE ConnectionResumes(p)
  <2>1. suspended' \in [Peers -> BOOLEAN]
    BY <1>1, <1>4 DEF RestOK, ConnectionResumes
  <2> QED
    BY <1>1, <1>4, <2>1, OutsideStep DEF RestOK, ConnectionResumes
<1> QED
  BY <1>2, <1>3, <1>4

LEMMA SessionStep == SessionInv /\ [Next]_vars => SessionInv'
<1> SUFFICES ASSUME SessionInv, [Next]_vars
             PROVE  SessionInv'
  OBVIOUS
<1>1. ASSUME NEW p \in Peers, Handling(p)
      PROVE  SessionInv'
  BY <1>1, BeginHandshakeStep, EnableSendStep, SuspendStep, ReceiveActionStep, ProcessDeferredStep,
     SendExtenderUpdateStep, SendStep, DisconnectStep, TimeoutSteps, ExtenderFinishesStep,
     BroadcastStep, OutsideSteps DEF Handling, AfterLoop
<1>2. ASSUME NEW p \in Peers, Environment(p)
      PROVE  SessionInv'
  BY <1>2, TimeoutSteps, QueueNoiseStep, BeginKeyUpdateStep, GraceEndsStep, ExtenderSendsStep,
     OutsideSteps DEF Environment
<1>3. CASE UNCHANGED vars
  <2>1. UNCHANGED <<peer, wire>> /\ RestOK'
    BY <1>3, RestStays DEF vars
  <2> QED
    BY <2>1, OutsideStep
<1> QED
  BY <1>1, <1>2, <1>3 DEF Next

LEMMA NewPeerFields ==
    ASSUME NEW p \in Peers, NEW secret \in BOOLEAN, NEW mute \in BOOLEAN, NEW accepts \in BOOLEAN, NEW a
    PROVE  LET r == NewPeer(p, secret, mute, accepts)
           IN  /\ r \in PeerRecords /\ r.accepts = accepts /\ r.peerCounter = None
               /\ r.normal = <<>> /\ RecordInv(a, p, r)
<1> DEFINE pair == [name |-> SharedSecret, encrypt |-> TRUE, age |-> "current"]
           k == IF secret THEN <<pair>> ELSE <<>>
           r == NewPeer(p, secret, mute, accepts)
<1>1. pair \in KeyPairs
  BY OtherKeyNames DEF KeyPairs
<1> HIDE DEF pair
<1>2. k \in {x \in Seq(KeyPairs) : Len(x) <= MaxKeyPairs}
  BY <1>1 DEF MaxKeyPairs
<1>3. r = [status |-> "Connected", normal |-> <<>>, delayed |-> <<>>, expedited |-> <<>>,
           deferred |-> <<>>, held |-> 0, exchange |-> None, keys |-> k,
           update |-> "Unknown", resume |-> "Unknown",
           localCounter |-> None, peerCounter |-> None, peerExtenders |-> 0,
           needsUpdate |-> FALSE, sendDisabled |-> mute, heard |-> FALSE,
           accepts |-> accepts, condition |-> None]
  BY DEF NewPeer, pair
<1> HIDE DEF k, r
<1>4. /\ "Connected" \in Statuses /\ "Unknown" \in UpdateStatuses /\ 0 \in 0 .. ReceiveRoom
      /\ None \in Numbers /\ 0 \in Numbers /\ None \in Counters /\ <<>> \in Seq(Messages)
  BY StatusSet DEF UpdateStatuses, Numbers, Counters, NotReady, Handshaking
<1>5. r \in PeerRecords
  BY <1>2, <1>3, <1>4 DEF PeerRecords
<1>6. Len(r.normal) = 0 /\ Len(r.delayed) = 0 /\ Len(r.expedited) = 0 /\ Len(r.deferred) = 0
  BY <1>3
<1>7. RecordInv(a, p, r)
  BY <1>3, <1>6 DEF RecordInv, RecordOK, RecordTold, StatusTold
<1> QED
  BY <1>3, <1>5, <1>7 DEF r

LEMMA SessionBegins == Init => SessionInv
<1> SUFFICES ASSUME Init
             PROVE  SessionInv
  OBVIOUS
<1>1. PICK accepts \in [Peers -> BOOLEAN] :
        peer = [p \in Peers |-> NewPeer(p, scenario.secret, scenario.mute /\ p = Inbound, accepts[p])]
  BY DEF Init
<1>2. scenario \in Scenarios /\ scenario.secret \in BOOLEAN /\ scenario.mute \in BOOLEAN
  BY ScenarioAssumption DEF Init
<1>3. ASSUME NEW p \in Peers
      PROVE  /\ peer[p] \in PeerRecords /\ peer[p].peerCounter = None /\ peer[p].normal = <<>>
             /\ RecordInv(Accepted, p, peer[p])
  <2> DEFINE m == scenario.mute /\ p = Inbound
  <2>1. m \in BOOLEAN /\ accepts[p] \in BOOLEAN
    BY <1>2
  <2>2. peer[p] = NewPeer(p, scenario.secret, m, accepts[p])
    BY <1>1
  <2> HIDE DEF m
  <2> QED
    BY <1>2, <2>1, <2>2, NewPeerFields
<1>4. \A p \in Peers : wire[p] = <<>> /\ Len(wire[p]) = 0
  BY DEF Init
<1>5. peer \in [Peers -> PeerRecords]
  BY <1>1, <1>3
<1>6. wire \in [Peers -> Seq(Transports)] /\ suspended \in [Peers -> BOOLEAN]
      /\ unannounced \in [Peers -> BOOLEAN] /\ extenders \in [Peers -> Nat]
      /\ used \in [updates : Nat, messages : Nat, changes : Nat, noise : Nat, suspensions : Nat,
                   timeouts : Nat]
  BY DEF Init
<1>7. PartsOK
  BY <1>2, <1>5, <1>6 DEF PartsOK, RestOK
<1>8. \A p \in Peers : WireTold(Accepted, wire[p])
  BY <1>4 DEF WireTold
<1>9. ASSUME NEW p \in Peers
      PROVE  Numbered(peer[p], wire[p], peer[Other(p)].localCounter, peer[Other(p)].normal)
  <2>1. Len(peer[Other(p)].normal) = 0
    BY <1>3, Ends
  <2> QED
    BY <1>3, <1>4, <2>1 DEF Numbered
<1> QED
  BY <1>3, <1>7, <1>8, <1>9 DEF SessionInv

THEOREM SessionInvariant == Spec => []SessionInv
BY SessionBegins, SessionStep, PTL DEF Spec

\* Every field of a peer, and every transport under way, always has its type: no counter leaves its
\* range, no queue or key list holds anything else, at most four key pairs are kept
\* (SymmetricKeys.h, MessageTransport.h) and the rate limit is never exceeded.
THEOREM TypeCorrect == Spec => []TypeOK
<1>1. Init => reading \subseteq Peers
  BY DEF Init
<1>2. reading \subseteq Peers /\ [Next]_vars => (reading \subseteq Peers)'
  BY DEF Next, Handling, Environment, vars
<1>3. SessionInv /\ reading \subseteq Peers => TypeOK
  BY DEF SessionInv, PartsOK, RestOK, TypeOK
<1> QED
  BY <1>1, <1>2, <1>3, SessionInvariant, PTL DEF Spec

LEMMA InvAgrees == SessionInv => EndsAgree
<1> SUFFICES ASSUME SessionInv
             PROVE  EndsAgree
  OBVIOUS
<1>1. ReadyMeansBothAccept
  <2> SUFFICES ASSUME NEW p \in Peers, peer[p].status \in {"Ready", "Suspended"}, NEW q \in Peers
               PROVE  peer[q].accepts
    BY DEF ReadyMeansBothAccept
  <2>1. StatusTold(Accepted, p, peer[p])
    BY DEF SessionInv, RecordInv
  <2>2. Accepted[q]
    BY <2>1 DEF StatusTold
  <2> QED
    BY <2>2 DEF Accepted
<1>2. CountersAgree
  <2> SUFFICES ASSUME NEW p \in Peers, peer[p].peerCounter # None, peer[p].condition = None
               PROVE  /\ peer[Other(p)].localCounter = (peer[p].peerCounter + Len(wire[p])) % CounterModulus
                      /\ \A i \in 1 .. Len(wire[p]) :
                           wire[p][i].counter = (peer[p].peerCounter + i) % CounterModulus
    BY DEF CountersAgree
  <2>1. Counted(wire[p], peer[Other(p)].localCounter, peer[p].peerCounter, 0)
    BY DEF SessionInv, Numbered
  <2>2. Len(wire[p]) \in Nat
    BY ScenarioTypes, LenProperties
  <2>3. Len(wire[p]) - 0 = Len(wire[p]) /\ \A i \in 1 .. Len(wire[p]) : i - 0 = i /\ i >= 0
    BY <2>2
  <2> QED
    BY <2>1, <2>3 DEF Counted
<1> QED
  BY <1>1, <1>2 DEF EndsAgree

\* Whoever is ready was accepted by both ends, and as long as an end has no reason to disconnect,
\* the counter it expects is the one that the first transport on its way carries, and the last
\* carries that of the sender, however the counters wrap (Peer::ProcessMessageTransport,
\* MessageTransport::Write, PeerMessageProcessor).
THEOREM EndsAgreement == Spec => []EndsAgree
BY InvAgrees, SessionInvariant, PTL

-----------------------------------------------------------------------------
(* Messages of key updates on their way: u are those of s, in order.        *)

UpdateTypes == {"BeginPrimaryUpdate", "EndPrimaryUpdate", "BeginSecondaryUpdate",
                "EndSecondaryUpdate", "KeyUpdateReady"}
IsUpdate(m) == m.type \in UpdateTypes

Bears(s, u) ==
    \E g \in [1 .. Len(u) -> 1 .. Len(s)] :
        /\ \A i, j \in 1 .. Len(u) : i < j => g[i] < g[j]
        /\ \A i \in 1 .. Len(u) : u[i] = s[g[i]]
        /\ \A k \in 1 .. Len(s) : IsUpdate(s[k]) => \E i \in 1 .. Len(u) : g[i] = k
        /\ \A i \in 1 .. Len(u) : IsUpdate(s[g[i]])

LEMMA BearsNothing ==
    ASSUME NEW u \in Seq(Messages), Bears(<<>>, u)
    PROVE  u = <<>>
<1>1. PICK g \in [1 .. Len(u) -> 1 .. Len(<<>>)] : TRUE
  BY DEF Bears
<1>2. Len(<<>>) = 0
  OBVIOUS
<1>3. Len(u) \in Nat /\ (u # <<>> => Len(u) # 0)
  BY EmptySeq, LenProperties
<1>4. ~(1 \in 1 .. Len(u))
  BY <1>1, <1>2
<1> QED
  BY <1>3, <1>4

LEMMA NothingBorne ==
    ASSUME NEW s \in Seq(Messages), \A k \in 1 .. Len(s) : ~IsUpdate(s[k])
    PROVE  Bears(s, <<>>)
<1>1. Len(<<>>) = 0
  OBVIOUS
<1> DEFINE g == [i \in 1 .. Len(<<>>) |-> 1]
<1>2. 1 .. Len(<<>>) = {}
  BY <1>1
<1>3. g \in [1 .. Len(<<>>) -> 1 .. Len(s)]
  BY <1>2
<1> HIDE DEF g
<1> QED
  BY <1>2, <1>3 DEF Bears

LEMMA BearsAppendPlain ==
    ASSUME NEW s \in Seq(Messages), NEW u \in Seq(Messages), Bears(s, u), NEW x \in Messages,
           ~IsUpdate(x)
    PROVE  Bears(Append(s, x), u)
<1>1. PICK g \in [1 .. Len(u) -> 1 .. Len(s)] :
        /\ \A i, j \in 1 .. Len(u) : i < j => g[i] < g[j]
        /\ \A i \in 1 .. Len(u) : u[i] = s[g[i]]
        /\ \A k \in 1 .. Len(s) : IsUpdate(s[k]) => \E i \in 1 .. Len(u) : g[i] = k
        /\ \A i \in 1 .. Len(u) : IsUpdate(s[g[i]])
  BY DEF Bears
<1> DEFINE t == Append(s, x)
<1>2. /\ Len(t) = Len(s) + 1 /\ Len(s) \in Nat
      /\ \A i \in 1 .. Len(s) : t[i] = s[i]
      /\ t[Len(s) + 1] = x
  BY AppendProperties, LenProperties
<1> HIDE DEF t
<1>3. g \in [1 .. Len(u) -> 1 .. Len(t)]
  BY <1>2
<1>4. \A i \in 1 .. Len(u) : u[i] = t[g[i]] /\ IsUpdate(t[g[i]])
  BY <1>1, <1>2
<1>5. ASSUME NEW k \in 1 .. Len(t), IsUpdate(t[k])
      PROVE  \E i \in 1 .. Len(u) : g[i] = k
  <2>1. k \in 1 .. Len(s)
    BY <1>2, <1>5
  <2> QED
    BY <1>1, <1>2, <1>5, <2>1
<1>6. Bears(t, u)
  BY <1>1, <1>3, <1>4, <1>5, ZenonT(60) DEF Bears
<1> QED
  BY <1>6 DEF t

LEMMA BearsAppendUpdate ==
    ASSUME NEW s \in Seq(Messages), NEW u \in Seq(Messages), Bears(s, u), NEW x \in Messages,
           IsUpdate(x)
    PROVE  Bears(Append(s, x), Append(u, x))
<1>1. PICK g \in [1 .. Len(u) -> 1 .. Len(s)] :
        /\ \A i, j \in 1 .. Len(u) : i < j => g[i] < g[j]
        /\ \A i \in 1 .. Len(u) : u[i] = s[g[i]]
        /\ \A k \in 1 .. Len(s) : IsUpdate(s[k]) => \E i \in 1 .. Len(u) : g[i] = k
        /\ \A i \in 1 .. Len(u) : IsUpdate(s[g[i]])
  BY DEF Bears
<1> DEFINE t == Append(s, x)
           v == Append(u, x)
<1>2. /\ Len(t) = Len(s) + 1 /\ Len(s) \in Nat
      /\ \A i \in 1 .. Len(s) : t[i] = s[i]
      /\ t[Len(s) + 1] = x
  BY AppendProperties, LenProperties
<1>3. /\ Len(v) = Len(u) + 1 /\ Len(u) \in Nat
      /\ \A i \in 1 .. Len(u) : v[i] = u[i]
      /\ v[Len(u) + 1] = x
  BY AppendProperties, LenProperties
<1> HIDE DEF t, v
<1> DEFINE h == [i \in 1 .. Len(v) |-> IF i = Len(v) THEN Len(t) ELSE g[i]]
<1>4. \A i \in 1 .. Len(u) : h[i] = g[i] /\ g[i] \in 1 .. Len(s)
  <2> TAKE i \in 1 .. Len(u)
  <2>1. i \in 1 .. Len(v) /\ i # Len(v)
    BY <1>3
  <2>2. g[i] \in 1 .. Len(s)
    OBVIOUS
  <2> QED
    BY <2>1, <2>2
<1>5. h[Len(u) + 1] = Len(s) + 1 /\ h \in [1 .. Len(v) -> 1 .. Len(t)]
  <2>1. \A i \in 1 .. Len(v) : h[i] \in 1 .. Len(t)
    <3> TAKE i \in 1 .. Len(v)
    <3>1. CASE i = Len(v)
      <4>1. h[i] = Len(t)
        BY <3>1
      <4> QED
        BY <1>2, <4>1
    <3>2. CASE i # Len(v)
      <4>1. i \in 1 .. Len(u)
        BY <1>3, <3>2
      <4> QED
        BY <1>2, <1>4, <4>1
    <3> QED
      BY <3>1, <3>2
  <2>2. Len(u) + 1 \in 1 .. Len(v)
    BY <1>3
  <2>3. h[Len(u) + 1] = Len(s) + 1
    BY <1>2, <1>3, <2>2
  <2> QED
    BY <2>1, <2>3
<1> HIDE DEF h
<1>6. \A i, j \in 1 .. Len(v) : i < j => h[i] < h[j]
  <2> TAKE i, j \in 1 .. Len(v)
  <2> HAVE i < j
  <2>1. i \in 1 .. Len(u)
    BY <1>3
  <2>2. CASE j \in 1 .. Len(u)
    BY <1>1, <1>4, <2>1, <2>2
  <2>3. CASE j = Len(u) + 1
    BY <1>2, <1>4, <1>5, <2>1, <2>3
  <2>4. j \in 1 .. Len(u) \/ j = Len(u) + 1
    BY ONLY <1>3, j \in 1 .. Len(v)
  <2> QED
    BY <2>2, <2>3, <2>4
<1>7. ASSUME NEW i \in 1 .. Len(v)
      PROVE  v[i] = t[h[i]] /\ IsUpdate(t[h[i]])
  <2>1. CASE i \in 1 .. Len(u)
    BY <1>1, <1>2, <1>3, <1>4, <2>1
  <2>2. CASE i = Len(u) + 1
    BY <1>2, <1>3, <1>5, <2>2
  <2> QED
    BY <1>3, <2>1, <2>2
<1>8. ASSUME NEW k \in 1 .. Len(t), IsUpdate(t[k])
      PROVE  \E i \in 1 .. Len(v) : h[i] = k
  <2>1. CASE k \in 1 .. Len(s)
    <3>1. PICK i \in 1 .. Len(u) : g[i] = k
      BY <1>1, <1>2, <1>8, <2>1
    <3>2. i \in 1 .. Len(v)
      BY <1>3
    <3> QED
      BY <1>4, <3>1, <3>2
  <2>2. CASE k = Len(s) + 1
    <3>1. Len(u) + 1 \in 1 .. Len(v)
      BY <1>3
    <3> QED
      BY <1>5, <2>2, <3>1
  <2> QED
    BY <1>2, <2>1, <2>2
<1>9. Bears(t, v)
  BY <1>5, <1>6, <1>7, <1>8 DEF Bears
<1> QED
  BY <1>9 DEF t, v

LEMMA BearsTailPlain ==
    ASSUME NEW s \in Seq(Messages), NEW u \in Seq(Messages), Bears(s, u), s # <<>>,
           ~IsUpdate(Head(s))
    PROVE  Bears(Tail(s), u)
<1>1. PICK g \in [1 .. Len(u) -> 1 .. Len(s)] :
        /\ \A i, j \in 1 .. Len(u) : i < j => g[i] < g[j]
        /\ \A i \in 1 .. Len(u) : u[i] = s[g[i]]
        /\ \A k \in 1 .. Len(s) : IsUpdate(s[k]) => \E i \in 1 .. Len(u) : g[i] = k
        /\ \A i \in 1 .. Len(u) : IsUpdate(s[g[i]])
  BY DEF Bears
<1> DEFINE t == Tail(s)
           x == Head(s)
<1>2. /\ Len(t) = Len(s) - 1 /\ Len(s) \in Nat /\ Len(s) >= 1 /\ Len(t) \in Nat
      /\ \A i \in 1 .. Len(t) : i + 1 \in 1 .. Len(s) /\ t[i] = s[i + 1]
      /\ x = s[1]
  BY TailOf
<1>3. ~IsUpdate(x) /\ Len(u) \in Nat
  BY LenProperties
<1> HIDE DEF t, x
<1> DEFINE h == [i \in 1 .. Len(u) |-> g[i] - 1]
<1>4. \A i \in 1 .. Len(u) : g[i] \in 1 .. Len(s) /\ g[i] # 1 /\ h[i] = g[i] - 1 /\ h[i] \in 1 .. Len(t)
  <2>1. \A i \in 1 .. Len(u) : g[i] \in 1 .. Len(s) /\ g[i] # 1
    BY <1>1, <1>2, <1>3
  <2> QED
    BY <1>2, <2>1
<1>5. h \in [1 .. Len(u) -> 1 .. Len(t)]
  BY <1>4
<1> HIDE DEF h
<1>6. \A i, j \in 1 .. Len(u) : i < j => h[i] < h[j]
  <2> TAKE i, j \in 1 .. Len(u)
  <2> HAVE i < j
  <2>1. g[i] < g[j] /\ g[i] \in Nat /\ g[j] \in Nat
    BY <1>1, <1>2, <1>4
  <2> QED
    BY <1>4, <2>1
<1>7. ASSUME NEW i \in 1 .. Len(u)
      PROVE  u[i] = t[h[i]] /\ IsUpdate(t[h[i]])
  <2>1. t[h[i]] = s[h[i] + 1] /\ h[i] + 1 = g[i]
    BY <1>2, <1>4
  <2> QED
    BY <1>1, <2>1
<1>8. ASSUME NEW k \in 1 .. Len(t), IsUpdate(t[k])
      PROVE  \E i \in 1 .. Len(u) : h[i] = k
  <2>1. k + 1 \in 1 .. Len(s) /\ IsUpdate(s[k + 1])
    BY <1>2, <1>8
  <2>2. PICK i \in 1 .. Len(u) : g[i] = k + 1
    BY <1>1, <2>1
  <2>3. h[i] = k
    BY <1>2, <1>4, <2>2
  <2> QED
    BY <2>3
<1>9. Bears(t, u)
  BY <1>5, <1>6, <1>7, <1>8 DEF Bears
<1> QED
  BY <1>9 DEF t

LEMMA BearsTailUpdate ==
    ASSUME NEW s \in Seq(Messages), NEW u \in Seq(Messages), Bears(s, u), s # <<>>,
           IsUpdate(Head(s))
    PROVE  u # <<>> /\ Head(u) = Head(s) /\ Bears(Tail(s), Tail(u))
<1>1. PICK g \in [1 .. Len(u) -> 1 .. Len(s)] :
        /\ \A i, j \in 1 .. Len(u) : i < j => g[i] < g[j]
        /\ \A i \in 1 .. Len(u) : u[i] = s[g[i]]
        /\ \A k \in 1 .. Len(s) : IsUpdate(s[k]) => \E i \in 1 .. Len(u) : g[i] = k
        /\ \A i \in 1 .. Len(u) : IsUpdate(s[g[i]])
  BY DEF Bears
<1> DEFINE t == Tail(s)
           x == Head(s)
           v == Tail(u)
<1>2. /\ Len(t) = Len(s) - 1 /\ Len(s) \in Nat /\ Len(s) >= 1 /\ Len(t) \in Nat
      /\ \A i \in 1 .. Len(t) : i + 1 \in 1 .. Len(s) /\ t[i] = s[i + 1]
      /\ x = s[1] /\ 1 \in 1 .. Len(s)
  BY TailOf
<1>3. IsUpdate(x) /\ Len(u) \in Nat
  BY LenProperties
<1>4. PICK i1 \in 1 .. Len(u) : g[i1] = 1
  <2>1. IsUpdate(s[1])
    BY <1>2, <1>3
  <2> QED
    BY <1>1, <1>2, <2>1
<1>5. u # <<>>
  <2>1. Len(<<>>) = 0
    OBVIOUS
  <2> QED
    BY <1>3, <1>4, <2>1
<1>6. i1 = 1
  <2>1. SUFFICES ASSUME i1 # 1 PROVE FALSE
    OBVIOUS
  <2>2. 1 \in 1 .. Len(u) /\ 1 < i1 /\ g[1] \in 1 .. Len(s)
    BY <1>3, <2>1
  <2>3. g[1] < g[i1] /\ g[1] >= 1
    BY <1>1, <1>2, <2>2
  <2> QED
    BY <1>2, <1>4, <2>2, <2>3
<1>7. Head(u) = u[1] /\ u[1] = s[1]
  BY <1>1, <1>4, <1>5, <1>6, TailOf
<1>8. /\ Len(v) = Len(u) - 1 /\ Len(u) >= 1 /\ Len(v) \in Nat
      /\ \A i \in 1 .. Len(v) : i + 1 \in 1 .. Len(u) /\ v[i] = u[i + 1]
  BY <1>5, TailOf
<1>9. Head(u) = x
  BY <1>2, <1>7
<1> HIDE DEF t, x, v
<1> DEFINE h == [i \in 1 .. Len(v) |-> g[i + 1] - 1]
<1>10. ASSUME NEW i \in 1 .. Len(v)
       PROVE  /\ i + 1 \in 1 .. Len(u) /\ g[i + 1] \in 1 .. Len(s) /\ g[i + 1] > 1
              /\ h[i] = g[i + 1] - 1 /\ h[i] \in 1 .. Len(t) /\ h[i] + 1 = g[i + 1]
  <2>1. i + 1 \in 1 .. Len(u) /\ 1 \in 1 .. Len(u) /\ 1 < i + 1
    BY <1>3, <1>8
  <2>2. g[i + 1] \in 1 .. Len(s) /\ g[1] < g[i + 1]
    BY <1>1, <2>1
  <2>3. g[i + 1] > 1
    BY <1>4, <1>6, <2>2
  <2> QED
    BY <1>2, <2>1, <2>2, <2>3
<1>11. h \in [1 .. Len(v) -> 1 .. Len(t)]
  BY <1>10
<1> HIDE DEF h
<1>12. \A i, j \in 1 .. Len(v) : i < j => h[i] < h[j]
  <2> TAKE i, j \in 1 .. Len(v)
  <2> HAVE i < j
  <2>0. i \in Nat /\ j \in Nat /\ i + 1 < j + 1
    BY <1>8
  <2>1. g[i + 1] < g[j + 1] /\ g[i + 1] \in Nat /\ g[j + 1] \in Nat
    BY <1>1, <1>2, <1>10, <2>0
  <2>2. h[i] = g[i + 1] - 1 /\ h[j] = g[j + 1] - 1
    BY <1>10
  <2> QED
    BY <2>1, <2>2
<1>13. ASSUME NEW i \in 1 .. Len(v)
       PROVE  v[i] = t[h[i]] /\ IsUpdate(t[h[i]])
  <2>1. t[h[i]] = s[h[i] + 1] /\ h[i] + 1 = g[i + 1] /\ i + 1 \in 1 .. Len(u) /\ v[i] = u[i + 1]
    BY <1>2, <1>8, <1>10
  <2> QED
    BY <1>1, <2>1
<1>14. ASSUME NEW k \in 1 .. Len(t), IsUpdate(t[k])
       PROVE  \E i \in 1 .. Len(v) : h[i] = k
  <2>1. k + 1 \in 1 .. Len(s) /\ IsUpdate(s[k + 1])
    BY <1>2, <1>14
  <2>2. PICK i \in 1 .. Len(u) : g[i] = k + 1
    BY <1>1, <2>1
  <2>3. i # 1 /\ k \in Nat
    BY <1>2, <1>4, <1>6, <2>2
  <2>4. i - 1 \in 1 .. Len(v) /\ (i - 1) + 1 = i
    BY <1>3, <1>8, <2>3
  <2>5. h[i - 1] = g[i] - 1
    BY <1>10, <2>4
  <2>6. h[i - 1] = k
    BY <2>2, <2>3, <2>5
  <2> QED
    BY <2>4, <2>6
<1>15. Bears(t, v)
  BY <1>11, <1>12, <1>13, <1>14 DEF Bears
<1> QED
  BY <1>5, <1>9, <1>15 DEF t, v, x

\* The messages of the transports on a wire.
Bodies(w) == [i \in 1 .. Len(w) |-> w[i].message]

LEMMA BodiesAre ==
    ASSUME NEW w \in Seq(Transports)
    PROVE  /\ Bodies(w) \in Seq(Messages) /\ Len(Bodies(w)) = Len(w)
           /\ \A i \in 1 .. Len(w) : Bodies(w)[i] = w[i].message
<1>1. Len(w) \in Nat /\ \A i \in 1 .. Len(w) : w[i] \in Transports
  BY LenProperties, ElementOfSeq
<1>2. \A i \in 1 .. Len(w) : w[i].message \in Messages
  BY <1>1 DEF Transports
<1>3. Bodies(w) \in [1 .. Len(w) -> Messages]
  BY <1>2 DEF Bodies
<1> QED
  BY <1>1, <1>3 DEF Bodies

LEMMA BodiesAppend ==
    ASSUME NEW w \in Seq(Transports), NEW t \in Transports
    PROVE  Bodies(Append(w, t)) = Append(Bodies(w), t.message) /\ t.message \in Messages
<1>1. t.message \in Messages
  BY DEF Transports
<1>2. Append(w, t) \in Seq(Transports) /\ Len(Append(w, t)) = Len(w) + 1 /\ Len(w) \in Nat
      /\ (\A i \in 1 .. Len(w) : Append(w, t)[i] = w[i]) /\ Append(w, t)[Len(w) + 1] = t
  BY AppendProperties, LenProperties
<1> DEFINE x == t.message
           a == Bodies(Append(w, t))
           b == Append(Bodies(w), x)
<1>3. a \in Seq(Messages) /\ Len(a) = Len(w) + 1
      /\ \A i \in 1 .. Len(w) + 1 : a[i] = Append(w, t)[i].message
  BY <1>2, BodiesAre
<1>4. Bodies(w) \in Seq(Messages) /\ Len(Bodies(w)) = Len(w)
      /\ \A i \in 1 .. Len(w) : Bodies(w)[i] = w[i].message
  BY BodiesAre
<1>5. b \in Seq(Messages) /\ Len(b) = Len(w) + 1
      /\ (\A i \in 1 .. Len(w) : b[i] = Bodies(w)[i]) /\ b[Len(w) + 1] = x
  BY <1>1, <1>4, AppendProperties
<1> HIDE DEF a, b
<1>6. ASSUME NEW i \in 1 .. Len(a)
      PROVE  a[i] = b[i]
  <2>1. CASE i \in 1 .. Len(w)
    BY <1>2, <1>3, <1>4, <1>5, <2>1
  <2>2. CASE i = Len(w) + 1
    BY <1>2, <1>3, <1>5, <2>2
  <2> QED
    BY <1>2, <1>3, <2>1, <2>2
<1>7. a = b
  BY <1>3, <1>5, <1>6, SeqEqual
<1> QED
  BY <1>1, <1>7 DEF a, b

LEMMA BodiesTail ==
    ASSUME NEW w \in Seq(Transports), w # <<>>
    PROVE  /\ Bodies(w) # <<>> /\ Head(Bodies(w)) = Head(w).message
           /\ Bodies(Tail(w)) = Tail(Bodies(w))
<1>1. /\ Tail(w) \in Seq(Transports) /\ Len(Tail(w)) = Len(w) - 1 /\ Len(w) \in Nat /\ Len(w) >= 1
      /\ \A i \in 1 .. Len(Tail(w)) : i + 1 \in 1 .. Len(w) /\ Tail(w)[i] = w[i + 1]
      /\ Head(w) = w[1]
  BY TailOf
<1>2. Bodies(w) \in Seq(Messages) /\ Len(Bodies(w)) = Len(w)
      /\ \A i \in 1 .. Len(w) : Bodies(w)[i] = w[i].message
  BY BodiesAre
<1>3. Bodies(w) # <<>>
  <2>1. Len(<<>>) = 0
    OBVIOUS
  <2> QED
    BY <1>1, <1>2, <2>1
<1>4. /\ Tail(Bodies(w)) \in Seq(Messages) /\ Len(Tail(Bodies(w))) = Len(w) - 1
      /\ \A i \in 1 .. Len(Tail(Bodies(w))) : Tail(Bodies(w))[i] = Bodies(w)[i + 1]
      /\ Head(Bodies(w)) = Bodies(w)[1]
  BY <1>2, <1>3, TailOf, SMTT(60)
<1>5. Bodies(Tail(w)) \in Seq(Messages) /\ Len(Bodies(Tail(w))) = Len(w) - 1
      /\ \A i \in 1 .. Len(w) - 1 : Bodies(Tail(w))[i] = Tail(w)[i].message
  BY <1>1, BodiesAre
<1> DEFINE a == Bodies(Tail(w))
           b == Tail(Bodies(w))
<1>6. ASSUME NEW i \in 1 .. Len(a)
      PROVE  a[i] = b[i]
  <2>1. a[i] = w[i + 1].message /\ i + 1 \in 1 .. Len(w)
    BY <1>1, <1>5
  <2>2. b[i] = Bodies(w)[i + 1]
    BY <1>4, <1>5
  <2> QED
    BY <1>2, <2>1, <2>2
<1>7. a = b
  BY <1>4, <1>5, <1>6, SeqEqual
<1>8. Head(Bodies(w)) = Head(w).message
  BY <1>1, <1>2, <1>4
<1> QED
  BY <1>3, <1>7, <1>8

\* The updates on their way to an end: deferred there, on the wire, and queued by the other.
Flight(d, w, q, u) ==
    \E a, b, c \in Seq(Messages) :
        Bears(d, a) /\ Bears(Bodies(w), b) /\ Bears(q, c) /\ u = (a \o b) \o c

LEMMA FlightType ==
    ASSUME NEW d, NEW w, NEW q, NEW u, Flight(d, w, q, u)
    PROVE  u \in Seq(Messages)
BY ConcatProperties DEF Flight

LEMMA ConcatTail ==
    ASSUME NEW S, NEW a \in Seq(S), a # <<>>, NEW b \in Seq(S)
    PROVE  a \o b # <<>> /\ Head(a \o b) = Head(a) /\ Tail(a \o b) = Tail(a) \o b
<1>1. /\ Tail(a) \in Seq(S) /\ Len(Tail(a)) = Len(a) - 1 /\ Len(a) \in Nat /\ Len(a) >= 1
      /\ \A i \in 1 .. Len(Tail(a)) : Tail(a)[i] = a[i + 1]
      /\ Head(a) = a[1]
  BY TailOf
<1>2. /\ a \o b \in Seq(S) /\ Len(a \o b) = Len(a) + Len(b) /\ Len(b) \in Nat
      /\ \A i \in 1 .. Len(a) + Len(b) : (a \o b)[i] = IF i <= Len(a) THEN a[i] ELSE b[i - Len(a)]
  BY ConcatProperties, LenProperties
<1>3. a \o b # <<>>
  BY ConcatEqualIffEmpty
<1>4. /\ Tail(a \o b) \in Seq(S) /\ Len(Tail(a \o b)) = Len(a) + Len(b) - 1
      /\ \A i \in 1 .. Len(Tail(a \o b)) : Tail(a \o b)[i] = (a \o b)[i + 1]
      /\ Head(a \o b) = (a \o b)[1]
  BY <1>2, <1>3, TailOf
<1>5. /\ Tail(a) \o b \in Seq(S) /\ Len(Tail(a) \o b) = Len(Tail(a)) + Len(b)
      /\ \A i \in 1 .. Len(Tail(a)) + Len(b) :
           (Tail(a) \o b)[i] = IF i <= Len(Tail(a)) THEN Tail(a)[i] ELSE b[i - Len(Tail(a))]
  BY <1>1, ConcatProperties
<1>6. Head(a \o b) = Head(a)
  BY <1>1, <1>2, <1>4
<1> DEFINE x == Tail(a \o b)
           y == Tail(a) \o b
<1>7. ASSUME NEW i \in 1 .. Len(x)
      PROVE  x[i] = y[i]
  <2>1. x[i] = (a \o b)[i + 1] /\ i + 1 \in 1 .. Len(a) + Len(b) /\ i \in 1 .. Len(Tail(a)) + Len(b)
        /\ i \in Nat
    BY <1>1, <1>2, <1>4
  <2>2. CASE i + 1 <= Len(a)
    <3>1. i <= Len(Tail(a)) /\ i \in 1 .. Len(Tail(a))
      BY <1>1, <2>1, <2>2
    <3> QED
      BY <1>1, <1>2, <1>5, <2>1, <2>2, <3>1
  <2>3. CASE ~(i + 1 <= Len(a))
    <3>1. ~(i <= Len(Tail(a))) /\ (i + 1) - Len(a) = i - Len(Tail(a))
      BY <1>1, <2>1, <2>3
    <3> QED
      BY <1>2, <1>5, <2>1, <2>3, <3>1
  <2> QED
    BY <2>2, <2>3
<1>8. Len(x) = Len(y)
  BY <1>1, <1>2, <1>4, <1>5
<1>9. x = y
  BY <1>4, <1>5, <1>7, <1>8, SeqEqual
<1> QED
  BY <1>3, <1>6, <1>9

Associate(e, f, g) == (e \o f) \o g = e \o (f \o g)

LEMMA MessagesAssociate ==
    ASSUME NEW e \in Seq(Messages), NEW f \in Seq(Messages), NEW g \in Seq(Messages)
    PROVE  Associate(e, f, g)
BY ConcatAssociative DEF Associate

\* A message is queued.
LEMMA FlightQueued ==
    ASSUME NEW d, NEW w, NEW q \in Seq(Messages), NEW u, Flight(d, w, q, u), NEW x \in Messages
    PROVE  Flight(d, w, Append(q, x), IF IsUpdate(x) THEN Append(u, x) ELSE u)
<1>1. PICK a \in Seq(Messages), b \in Seq(Messages), c \in Seq(Messages) :
        Bears(d, a) /\ Bears(Bodies(w), b) /\ Bears(q, c) /\ u = (a \o b) \o c
  BY DEF Flight
<1>2. CASE ~IsUpdate(x)
  <2>1. Bears(Append(q, x), c)
    BY <1>1, <1>2, BearsAppendPlain
  <2> QED
    BY <1>1, <1>2, <2>1 DEF Flight
<1>3. CASE IsUpdate(x)
  <2>1. Bears(Append(q, x), Append(c, x)) /\ Append(c, x) \in Seq(Messages)
    BY <1>1, <1>3, BearsAppendUpdate, AppendProperties
  <2>2. (a \o b) \o Append(c, x) = Append(u, x)
    <3>1. a \o b \in Seq(Messages) /\ <<x>> \in Seq(Messages) /\ u \in Seq(Messages)
      BY <1>1, ConcatProperties
    <3>2. Append(c, x) = c \o <<x>> /\ Append(u, x) = u \o <<x>>
      BY <3>1, AppendIsConcat
    <3>4. ((a \o b) \o c) \o <<x>> = (a \o b) \o (c \o <<x>>)
      <4>1. Associate(a \o b, c, <<x>>)
        BY <3>1, MessagesAssociate
      <4> QED
        BY ONLY <4>1 DEF Associate
    <3> QED
      BY <1>1, <3>2, <3>4
  <2> QED
    BY <1>1, <1>3, <2>1, <2>2 DEF Flight
<1> QED
  BY <1>2, <1>3

\* The first of what is deferred is taken.
LEMMA FlightDeferredTaken ==
    ASSUME NEW d \in Seq(Messages), d # <<>>, NEW w, NEW q, NEW u, Flight(d, w, q, u)
    PROVE  /\ ~IsUpdate(Head(d)) => Flight(Tail(d), w, q, u)
           /\ IsUpdate(Head(d)) => u # <<>> /\ Head(u) = Head(d) /\ Flight(Tail(d), w, q, Tail(u))
<1>1. PICK a \in Seq(Messages), b \in Seq(Messages), c \in Seq(Messages) :
        Bears(d, a) /\ Bears(Bodies(w), b) /\ Bears(q, c) /\ u = (a \o b) \o c
  BY DEF Flight
<1>2. CASE ~IsUpdate(Head(d))
  <2>1. Bears(Tail(d), a)
    BY <1>1, <1>2, BearsTailPlain
  <2> QED
    BY <1>1, <1>2, <2>1 DEF Flight
<1>3. CASE IsUpdate(Head(d))
  <2>1. a # <<>> /\ Head(a) = Head(d) /\ Bears(Tail(d), Tail(a)) /\ Tail(a) \in Seq(Messages)
    BY <1>1, <1>3, BearsTailUpdate, HeadTailProperties
  <2>2. a \o b # <<>> /\ Head(a \o b) = Head(a) /\ Tail(a \o b) = Tail(a) \o b
        /\ a \o b \in Seq(Messages)
    BY <2>1, ConcatTail, ConcatProperties
  <2>3. u # <<>> /\ Head(u) = Head(a) /\ Tail(u) = (Tail(a) \o b) \o c
    <3>1. ASSUME NEW e \in Seq(Messages), e # <<>>
          PROVE  e \o c # <<>> /\ Head(e \o c) = Head(e) /\ Tail(e \o c) = Tail(e) \o c
      BY <3>1, ConcatTail
    <3> QED
      BY <1>1, <2>2, <3>1
  <2> QED
    BY <1>1, <1>3, <2>1, <2>3 DEF Flight
<1> QED
  BY <1>2, <1>3

\* The first on the wire is taken, when nothing is deferred.
LEMMA FlightTaken ==
    ASSUME NEW w \in Seq(Transports), w # <<>>, NEW q, NEW u, Flight(<<>>, w, q, u)
    PROVE  LET m == Head(w).message
           IN  /\ ~IsUpdate(m) => Flight(<<>>, Tail(w), q, u)
               /\ IsUpdate(m) => u # <<>> /\ Head(u) = m /\ Flight(<<>>, Tail(w), q, Tail(u))
<1> DEFINE m == Head(w).message
<1>1. PICK a \in Seq(Messages), b \in Seq(Messages), c \in Seq(Messages) :
        Bears(<<>>, a) /\ Bears(Bodies(w), b) /\ Bears(q, c) /\ u = (a \o b) \o c
  BY DEF Flight
<1>2. Bodies(w) \in Seq(Messages) /\ Bodies(w) # <<>> /\ Head(Bodies(w)) = m
      /\ Bodies(Tail(w)) = Tail(Bodies(w))
  BY BodiesAre, BodiesTail
<1>3. a = <<>> /\ <<>> \o b = b
  BY <1>1, BearsNothing, ConcatEmptySeq
<1> HIDE DEF m
<1>4. CASE ~IsUpdate(m)
  <2>1. Bears(Tail(Bodies(w)), b)
    BY <1>1, <1>2, <1>4, BearsTailPlain
  <2>2. Flight(<<>>, Tail(w), q, u)
    BY <1>1, <1>2, <2>1 DEF Flight
  <2> QED
    BY <1>4, <2>2 DEF m
<1>5. CASE IsUpdate(m)
  <2>1. b # <<>> /\ Head(b) = m /\ Bears(Tail(Bodies(w)), Tail(b)) /\ Tail(b) \in Seq(Messages)
    BY <1>1, <1>2, <1>5, BearsTailUpdate, HeadTailProperties
  <2>2. u = b \o c
    BY <1>1, <1>3
  <2>3. u # <<>> /\ Head(u) = Head(b) /\ Tail(u) = Tail(b) \o c
    BY <1>1, <2>1, <2>2, ConcatTail
  <2>4. Tail(u) = (<<>> \o Tail(b)) \o c
    BY <2>1, <2>3, ConcatEmptySeq
  <2>5. Bears(<<>>, <<>>) /\ <<>> \in Seq(Messages)
    BY <1>1, <1>3
  <2>6. Flight(<<>>, Tail(w), q, Tail(u))
    BY <1>1, <1>2, <2>1, <2>4, <2>5 DEF Flight
  <2> QED
    BY <1>5, <2>1, <2>3, <2>6 DEF m
<1> QED
  BY <1>4, <1>5 DEF m

LEMMA FirstAndRest ==
    ASSUME NEW c \in Seq(Messages), c # <<>>, NEW m \in Messages, Head(c) = m
    PROVE  c = <<m>> \o Tail(c)
<1>1. /\ Len(Tail(c)) = Len(c) - 1 /\ Len(c) \in Nat /\ c[1] = m /\ Len(c) >= 1
      /\ \A i \in 1 .. Len(Tail(c)) : Tail(c)[i] = c[i + 1]
      /\ Tail(c) \in Seq(Messages)
  BY TailOf
<1> DEFINE f == <<m>> \o Tail(c)
<1>2. <<m>> \in Seq(Messages) /\ Len(<<m>>) = 1 /\ <<m>>[1] = m
  OBVIOUS
<1>3. /\ f \in Seq(Messages) /\ Len(f) = 1 + Len(Tail(c))
      /\ \A i \in 1 .. 1 + Len(Tail(c)) : f[i] = IF i <= 1 THEN <<m>>[i] ELSE Tail(c)[i - 1]
  BY <1>1, <1>2, ConcatProperties
<1> HIDE DEF f
<1>4. ASSUME NEW i \in 1 .. Len(c)
      PROVE  c[i] = f[i]
  <2>1. i \in 1 .. 1 + Len(Tail(c))
    BY <1>1
  <2>2. CASE i = 1
    BY <1>1, <1>2, <1>3, <2>1, <2>2
  <2>3. CASE i # 1
    <3>1. ~(i <= 1) /\ i - 1 \in 1 .. Len(Tail(c)) /\ (i - 1) + 1 = i
      BY <1>1, <2>3
    <3> QED
      BY <1>1, <1>3, <2>1, <3>1
  <2> QED
    BY <2>2, <2>3
<1>5. c = f
  BY <1>1, <1>3, <1>4, SeqEqual
<1> QED
  BY <1>5 DEF f

\* The first on the wire is deferred, whatever is deferred already.
LEMMA FlightDeferred ==
    ASSUME NEW d \in Seq(Messages), NEW w \in Seq(Transports), w # <<>>, NEW q, NEW u, Flight(d, w, q, u)
    PROVE  LET m == Head(w).message
           IN  /\ ~IsUpdate(m) => Flight(d, Tail(w), q, u)
               /\ Flight(Append(d, m), Tail(w), q, u)
<1> DEFINE m == Head(w).message
           e == Append(d, m)
<1>1. PICK a \in Seq(Messages), b \in Seq(Messages), c \in Seq(Messages) :
        Bears(d, a) /\ Bears(Bodies(w), b) /\ Bears(q, c) /\ u = (a \o b) \o c
  BY DEF Flight
<1>2. Bodies(w) \in Seq(Messages) /\ Bodies(w) # <<>> /\ Head(Bodies(w)) = m
      /\ Bodies(Tail(w)) = Tail(Bodies(w)) /\ m \in Messages
  BY BodiesAre, BodiesTail, HeadTailProperties
<1> HIDE DEF m
<1>4. CASE ~IsUpdate(m)
  <2>1. Bears(Tail(Bodies(w)), b)
    BY <1>1, <1>2, <1>4, BearsTailPlain
  <2>2. Bears(e, a)
    BY <1>1, <1>2, <1>4, BearsAppendPlain
  <2>3. Flight(e, Tail(w), q, u) /\ Flight(d, Tail(w), q, u)
    BY <1>1, <1>2, <2>1, <2>2 DEF Flight
  <2> QED
    BY <2>3 DEF m
<1>5. CASE IsUpdate(m)
  <2>1. b # <<>> /\ Head(b) = m /\ Bears(Tail(Bodies(w)), Tail(b)) /\ Tail(b) \in Seq(Messages)
    BY <1>1, <1>2, <1>5, BearsTailUpdate, HeadTailProperties
  <2>2. Bears(e, Append(a, m)) /\ Append(a, m) \in Seq(Messages)
    BY <1>1, <1>2, <1>5, BearsAppendUpdate, AppendProperties
  <2>3. b = <<m>> \o Tail(b)
    BY <1>1, <1>2, <2>1, FirstAndRest
  <2>4. Append(a, m) \o Tail(b) = a \o b
    <3>1. <<m>> \in Seq(Messages)
      BY <1>2
    <3>2. Append(a, m) = a \o <<m>>
      BY <1>1, <1>2, AppendIsConcat
    <3>3. (a \o <<m>>) \o Tail(b) = a \o (<<m>> \o Tail(b))
      <4>1. Associate(a, <<m>>, Tail(b))
        BY <1>1, <2>1, <3>1, MessagesAssociate
      <4> QED
        BY ONLY <4>1 DEF Associate
    <3> QED
      BY <2>3, <3>2, <3>3
  <2>5. u = (Append(a, m) \o Tail(b)) \o c
    BY <1>1, <2>4
  <2>6. Flight(e, Tail(w), q, u)
    BY <1>1, <1>2, <2>1, <2>2, <2>5 DEF Flight
  <2> QED
    BY <1>5, <2>6 DEF m
<1> QED
  BY <1>4, <1>5

\* A message leaves its queue, the one whose updates count or another.
LEMMA FlightSent ==
    ASSUME NEW d, NEW w \in Seq(Transports), NEW q \in Seq(Messages), q # <<>>, NEW u,
           Flight(d, w, q, u), NEW t \in Transports, t.message = Head(q)
    PROVE  Flight(d, Append(w, t), Tail(q), u)
<1> DEFINE m == t.message
<1>1. PICK a \in Seq(Messages), b \in Seq(Messages), c \in Seq(Messages) :
        Bears(d, a) /\ Bears(Bodies(w), b) /\ Bears(q, c) /\ u = (a \o b) \o c
  BY DEF Flight
<1>2. Bodies(Append(w, t)) = Append(Bodies(w), m) /\ m \in Messages /\ Bodies(w) \in Seq(Messages)
  BY BodiesAppend, BodiesAre
<1>3. m = Head(q)
  OBVIOUS
<1> HIDE DEF m
<1>4. CASE ~IsUpdate(m)
  <2>1. Bears(Append(Bodies(w), m), b)
    BY <1>1, <1>2, <1>4, BearsAppendPlain
  <2>2. Bears(Tail(q), c)
    BY <1>1, <1>3, <1>4, BearsTailPlain
  <2> QED
    BY <1>1, <1>2, <2>1, <2>2 DEF Flight
<1>5. CASE IsUpdate(m)
  <2>1. Bears(Append(Bodies(w), m), Append(b, m)) /\ Append(b, m) \in Seq(Messages)
    BY <1>1, <1>2, <1>5, BearsAppendUpdate, AppendProperties
  <2>2. c # <<>> /\ Head(c) = m /\ Bears(Tail(q), Tail(c)) /\ Tail(c) \in Seq(Messages)
    BY <1>1, <1>3, <1>5, BearsTailUpdate, HeadTailProperties
  <2>3. c = <<m>> \o Tail(c)
    BY <1>1, <1>2, <2>2, FirstAndRest
  <2>4. (a \o Append(b, m)) \o Tail(c) = u
    <3>1. <<m>> \in Seq(Messages) /\ a \o b \in Seq(Messages) /\ b \o <<m>> \in Seq(Messages)
      BY <1>1, <1>2, ConcatProperties
    <3>2. Append(b, m) = b \o <<m>>
      BY <1>2, AppendIsConcat
    <3>3. a \o (b \o <<m>>) = (a \o b) \o <<m>>
      BY <3>1, ConcatAssociative
    <3>4. ((a \o b) \o <<m>>) \o Tail(c) = (a \o b) \o (<<m>> \o Tail(c))
      <4>1. Associate(a \o b, <<m>>, Tail(c))
        BY <2>2, <3>1, MessagesAssociate
      <4> QED
        BY ONLY <4>1 DEF Associate
    <3> QED
      BY <1>1, <2>3, <3>2, <3>3, <3>4
  <2>5. u = (a \o Append(b, m)) \o Tail(c)
    BY <2>4
  <2> QED
    BY <1>1, <1>2, <2>1, <2>2, <2>5 DEF Flight
<1> QED
  BY <1>4, <1>5

LEMMA FlightPassed ==
    ASSUME NEW d, NEW w \in Seq(Transports), NEW q, NEW u, Flight(d, w, q, u),
           NEW t \in Transports, ~IsUpdate(t.message)
    PROVE  Flight(d, Append(w, t), q, u)
<1>1. PICK a \in Seq(Messages), b \in Seq(Messages), c \in Seq(Messages) :
        Bears(d, a) /\ Bears(Bodies(w), b) /\ Bears(q, c) /\ u = (a \o b) \o c
  BY DEF Flight
<1>2. Bodies(Append(w, t)) = Append(Bodies(w), t.message) /\ t.message \in Messages
      /\ Bodies(w) \in Seq(Messages)
  BY BodiesAppend, BodiesAre
<1>3. Bears(Append(Bodies(w), t.message), b)
  BY <1>1, <1>2, BearsAppendPlain
<1> QED
  BY <1>1, <1>2, <1>3 DEF Flight

-----------------------------------------------------------------------------
(* The newest pair of keys.                                                 *)

NewestKey(keys, name, encrypt) ==
    /\ Len(keys) >= 1
    /\ keys[1].name = name /\ keys[1].encrypt = encrypt /\ keys[1].age = "current"

LEMMA NewestAdded ==
    ASSUME NEW keys \in KeyLists, NEW name \in KeyNames, NEW encrypt \in BOOLEAN
    PROVE  NewestKey(AddKeyPair(keys, name, encrypt), name, encrypt)
<1> DEFINE pair == [name |-> name, encrypt |-> encrypt, age |-> "current"]
           longer == <<pair>> \o keys
<1>1. pair \in KeyPairs
  BY DEF KeyPairs
<1>2. keys \in Seq(KeyPairs) /\ Len(keys) \in Nat
  BY LenProperties DEF KeyLists
<1> DEFINE k == AddKeyPair(keys, name, encrypt)
<1>4. Len(k) >= 1 /\ k[1] = pair => NewestKey(k, name, encrypt)
  BY DEF NewestKey
<1>5. k = IF Len(longer) > 4 THEN Front(longer) ELSE longer
  BY DEF AddKeyPair, MaxKeyPairs
<1> HIDE DEF pair
<1>6. <<pair>> \in Seq(KeyPairs) /\ Len(<<pair>>) = 1 /\ <<pair>>[1] = pair
  BY <1>1
<1>7. /\ longer \in Seq(KeyPairs) /\ Len(longer) = 1 + Len(keys)
      /\ longer[1] = pair
  BY <1>2, <1>6, ConcatProperties
<1> HIDE DEF k, longer
<1>8. CASE Len(longer) > 4
  <2>1. Front(longer) = SubSeq(longer, 1, Len(longer) - 1)
    BY DEF Front
  <2>2. \A i \in 1 .. Len(longer) - 1 : longer[i] \in KeyPairs
    BY <1>2, <1>7, ElementOfSeq
  <2>3. /\ Len(SubSeq(longer, 1, Len(longer) - 1)) = Len(longer) - 1
        /\ SubSeq(longer, 1, Len(longer) - 1)[1] = longer[1]
    BY <1>2, <1>7, <1>8, <2>2, SubSeqProperties
  <2>4. k = SubSeq(longer, 1, Len(longer) - 1)
    BY <1>5, <1>8, <2>1
  <2>5. k[1] = pair
    BY <1>7, <2>3, <2>4
  <2>6. Len(k) = Len(longer) - 1
    BY <2>3, <2>4
  <2>7. Len(k) >= 1
    BY <1>2, <1>7, <1>8, <2>6
  <2> QED
    BY <1>4, <2>5, <2>7 DEF k
<1>9. CASE ~(Len(longer) > 4)
  <2>1. k = longer
    BY <1>5, <1>9
  <2>2. k[1] = pair
    BY <1>7, <2>1
  <2>3. Len(longer) >= 1
    BY <1>2, <1>7
  <2> QED
    BY <1>4, <2>1, <2>2, <2>3 DEF k
<1> QED
  BY <1>8, <1>9 DEF k

LEMMA FirstUsed ==
    ASSUME NEW keys \in KeyLists, NEW name, NewestKey(keys, name, FALSE)
    PROVE  NewestKey(StartUsing(keys, name), name, TRUE)
<1>1. StartUsing(keys, name) \in KeyLists
  BY StartUsingType
<1>2. DOMAIN keys = 1 .. Len(keys) /\ Len(keys) \in Nat /\ 1 \in DOMAIN keys
  BY LenProperties DEF KeyLists, NewestKey
<1>3. DOMAIN StartUsing(keys, name) = DOMAIN keys
  BY DEF StartUsing
<1>4. Len(StartUsing(keys, name)) = Len(keys)
  <2>1. Len(StartUsing(keys, name)) \in Nat
        /\ DOMAIN StartUsing(keys, name) = 1 .. Len(StartUsing(keys, name))
    BY <1>1, LenProperties DEF KeyLists
  <2> QED
    BY <1>2, <1>3, <2>1
<1>5. keys[1].name = name /\ keys[1] \in KeyPairs /\ keys[1].age = "current"
  BY <1>2, KeyElement DEF NewestKey
<1>6. StartUsing(keys, name)[1] = [keys[1] EXCEPT !.encrypt = TRUE]
  BY <1>2, <1>5 DEF StartUsing
<1>7. PICK x, y : x = keys[1] /\ y = [keys[1] EXCEPT !.encrypt = TRUE]
  OBVIOUS
<1>8. y.name = name /\ y.encrypt = TRUE /\ y.age = "current"
  BY <1>5, <1>7 DEF KeyPairs
<1> QED
  BY <1>2, <1>4, <1>6, <1>7, <1>8 DEF NewestKey

LEMMA FirstStays ==
    ASSUME NEW keys \in KeyLists, NEW name, NEW encrypt, NewestKey(keys, name, encrypt)
    PROVE  NewestKey(ExpireAllExceptLatest(keys), name, encrypt)
<1>1. ExpireAllExceptLatest(keys) \in KeyLists
  BY ExpireType
<1>2. DOMAIN keys = 1 .. Len(keys) /\ Len(keys) \in Nat /\ 1 \in DOMAIN keys
  BY LenProperties DEF KeyLists, NewestKey
<1>3. DOMAIN ExpireAllExceptLatest(keys) = DOMAIN keys
      /\ ExpireAllExceptLatest(keys)[1] = keys[1]
  BY <1>2 DEF ExpireAllExceptLatest
<1>4. Len(ExpireAllExceptLatest(keys)) = Len(keys)
  <2>1. Len(ExpireAllExceptLatest(keys)) \in Nat
        /\ DOMAIN ExpireAllExceptLatest(keys) = 1 .. Len(ExpireAllExceptLatest(keys))
    BY <1>1, LenProperties DEF KeyLists
  <2> QED
    BY <1>2, <1>3, <2>1
<1> QED
  BY <1>3, <1>4 DEF NewestKey

LEMMA NewestEncrypts ==
    ASSUME NEW r \in PeerRecords, NEW name, NewestKey(r.keys, name, TRUE)
    PROVE  EncryptionKey(r) = name
<1>1. r.keys \in KeyLists
  BY DEF PeerRecords, KeyLists
<1>2. DOMAIN r.keys = 1 .. Len(r.keys) /\ Len(r.keys) \in Nat /\ 1 \in DOMAIN r.keys
  BY <1>1, LenProperties DEF KeyLists, NewestKey
<1>3. r.keys[1].encrypt /\ r.keys[1].age = "current" /\ r.keys[1].name = name
  BY DEF NewestKey
<1>4. 1 \in Usable(r) /\ \A j \in Usable(r) : j \in Nat /\ 1 <= j
  BY <1>2, <1>3 DEF Usable
<1> DEFINE T == Usable(r)
           c == CHOOSE i \in T : \A j \in T : i <= j
<1>5. EncryptionKey(r) = r.keys[c].name
  BY <1>4 DEF EncryptionKey
<1> HIDE DEF T
<1>6. c \in T /\ \A j \in T : c <= j
  BY <1>4 DEF T
<1>7. c = 1
  BY <1>4, <1>6 DEF T
<1> QED
  BY <1>3, <1>5, <1>7

-----------------------------------------------------------------------------
(* Where an end stands between two updates, or in one.                      *)

IsReady(r) == r.status \in {"Ready", "Suspended"}
Effective(r) == IF r.update = "Suspended" THEN r.resume ELSE r.update

\* No update is under way, and the newest keys, in use, are those of the n-th.
AtRest(r, n) ==
    \/ r.status \in NotReady /\ n = 0
    \/ /\ IsReady(r) /\ Effective(r) = "UpdateWait" /\ r.exchange = None
       /\ NewestKey(r.keys, Secondary(n), TRUE)

InStage(r, stage, n) == IsReady(r) /\ Effective(r) = stage /\ r.exchange = n

\* The newest keys are those of the n-th update, and not used before the other has them.
Waits(r, n) == InStage(r, "ReadyWait", n) /\ NewestKey(r.keys, Secondary(n), FALSE)

\* A deferred request for an update was worked off while the connection was suspended: the
\* answer is queued, and the end will not be able to go back to the status it had.
Begun(p, r) ==
    /\ p = Outbound /\ r.update = "SecondaryExchange" /\ r.resume = "UpdateWait"
    /\ \E i \in 1 .. Len(r.normal) : r.normal[i].type = "EndPrimaryUpdate"

KeyRecord(p, r) ==
    /\ r.status # "Disconnected"
    /\ \A i \in 1 .. Len(r.delayed) : ~IsUpdate(r.delayed[i])
    /\ r.status \in NotReady => r.update = "Unknown"
    /\ r.status = "Authentication" =>
         IF p = Inbound THEN NewestKey(r.keys, Secondary(0), TRUE)
         ELSE NewestKey(r.keys, Secondary(0), FALSE)
    /\ r.status = "SessionInit" => NewestKey(r.keys, Secondary(0), TRUE)
    /\ r.status = "Ready" => r.update \notin {"Unknown", "Suspended"}
    /\ r.status = "Suspended" => r.resume \notin {"Unknown", "Suspended"}
                                 /\ (r.update = "Suspended" \/ Begun(p, r))

Update(type, n) == Msg(type, n, None)

\* The two ends i and o, the updates under way to each, and the number of the last update.
Position(i, o, ui, uo, n) ==
    \/ AtRest(i, n) /\ AtRest(o, n) /\ ui = <<>> /\ uo = <<>>
    \/ AtRest(i, n) /\ Waits(o, n) /\ ui = <<>> /\ uo = <<Update("KeyUpdateReady", n)>>
    \/ /\ n > 0 /\ InStage(i, "PrimaryExchange", n) /\ AtRest(o, n - 1)
       /\ ui = <<>> /\ uo = <<Update("BeginPrimaryUpdate", n)>>
    \/ /\ n > 0 /\ InStage(i, "PrimaryExchange", n) /\ Waits(o, n - 1)
       /\ ui = <<>> /\ uo = <<Update("KeyUpdateReady", n - 1), Update("BeginPrimaryUpdate", n)>>
    \/ /\ InStage(i, "PrimaryExchange", n) /\ InStage(o, "SecondaryExchange", n)
       /\ ui = <<Update("EndPrimaryUpdate", n)>> /\ uo = <<>>
    \/ /\ InStage(i, "SecondaryExchange", n) /\ InStage(o, "SecondaryExchange", n)
       /\ ui = <<>> /\ uo = <<Update("BeginSecondaryUpdate", n)>>
    \/ /\ InStage(i, "SecondaryExchange", n) /\ Waits(o, n)
       /\ ui = <<Update("EndSecondaryUpdate", n)>> /\ uo = <<>>

InStep ==
    LET i == peer[Inbound]
        o == peer[Outbound]
    IN  \E ui, uo : /\ Flight(i.deferred, wire[Inbound], o.normal, ui)
                    /\ Flight(o.deferred, wire[Outbound], i.normal, uo)
                    /\ Position(i, o, ui, uo, used.updates)

NotCondemned == \A p \in Peers : peer[p].condition = None

KeyNow == NotCondemned /\ (\A p \in Peers : KeyRecord(p, peer[p])) /\ InStep

KeyInv == NotCondemned => KeyNow

LEMMA StandsApart ==
    ASSUME NEW r, NEW n, IsReady(r)
    PROVE  /\ AtRest(r, n) <=> Effective(r) = "UpdateWait" /\ r.exchange = None
                               /\ NewestKey(r.keys, Secondary(n), TRUE)
           /\ r.status \notin NotReady
BY DEF AtRest, IsReady, NotReady, Handshaking

LEMMA KeysAgreeAtRest == SessionInv /\ KeyInv => KeysSettle
<1> SUFFICES ASSUME SessionInv, KeyInv, Settled
             PROVE  /\ EncryptionKey(peer[Inbound]) = EncryptionKey(peer[Outbound])
                    /\ EncryptionKey(peer[Inbound]) = Secondary(used.updates)
                    /\ \A p \in Peers : peer[p].exchange = None
  BY DEF KeysSettle
<1> DEFINE i == peer[Inbound]
           o == peer[Outbound]
           n == used.updates
<1>1. i \in PeerRecords /\ o \in PeerRecords /\ Peers = {Inbound, Outbound}
  BY ScenarioTypes DEF Peers
<1>2. /\ i.status = "Ready" /\ o.status = "Ready" /\ i.update = "UpdateWait" /\ o.update = "UpdateWait"
      /\ InStep
  BY <1>1 DEF Settled, KeyInv, KeyNow, NotCondemned
<1>3. IsReady(i) /\ IsReady(o) /\ Effective(i) = "UpdateWait" /\ Effective(o) = "UpdateWait"
  BY <1>2 DEF IsReady, Effective
<1>4. PICK ui, uo : Position(i, o, ui, uo, n)
  BY <1>2 DEF InStep
<1> HIDE DEF i, o, n
<1>5. AtRest(i, n) /\ AtRest(o, n)
  BY <1>3, <1>4 DEF Position, InStage, Waits
<1>6. /\ i.exchange = None /\ o.exchange = None
      /\ NewestKey(i.keys, Secondary(n), TRUE) /\ NewestKey(o.keys, Secondary(n), TRUE)
  BY <1>3, <1>5, StandsApart
<1>7. EncryptionKey(i) = Secondary(n) /\ EncryptionKey(o) = Secondary(n)
  BY <1>1, <1>6, NewestEncrypts
<1> QED
  BY <1>1, <1>6, <1>7 DEF i, o, n

-----------------------------------------------------------------------------
(* Steps of one end, and what they do to where it stands.                   *)

Core(r) == <<r.status, r.update, r.resume, r.exchange, r.keys>>

\* Wherever r stands, s stands.
Alike(r, s) ==
    \A n : /\ AtRest(r, n) => AtRest(s, n)
           /\ Waits(r, n) => Waits(s, n)
           /\ \A stage : InStage(r, stage, n) => InStage(s, stage, n)

LEMMA CoreIsAlike ==
    ASSUME NEW r, NEW s, Core(s) = Core(r)
    PROVE  Alike(r, s)
<1>1. /\ s.status = r.status /\ s.update = r.update /\ s.resume = r.resume
      /\ s.exchange = r.exchange /\ s.keys = r.keys
  BY DEF Core
<1>2. IsReady(s) = IsReady(r) /\ Effective(s) = Effective(r)
  BY <1>1 DEF IsReady, Effective
<1> QED
  BY <1>1, <1>2 DEF Alike, AtRest, Waits, InStage

LEMMA NotReadyIsAlike ==
    ASSUME NEW r, NEW s, r.status \in NotReady, s.status \in NotReady
    PROVE  Alike(r, s)
<1>1. ~IsReady(r)
  BY DEF IsReady, NotReady, Handshaking
<1> QED
  BY <1>1 DEF Alike, AtRest, Waits, InStage

LEMMA ReadyIsAlike ==
    ASSUME NEW r, NEW s, IsReady(r), IsReady(s), Effective(s) = Effective(r),
           s.exchange = r.exchange,
           \A name, encrypt : NewestKey(r.keys, name, encrypt) => NewestKey(s.keys, name, encrypt)
    PROVE  Alike(r, s)
<1>1. r.status \notin NotReady
  BY DEF IsReady, NotReady, Handshaking
<1> QED
  BY <1>1 DEF Alike, AtRest, Waits, InStage

\* The position, told from one of the ends.
Standing(p, x, y, ux, uy, n) ==
    IF p = Inbound THEN Position(x, y, ux, uy, n) ELSE Position(y, x, uy, ux, n)

LEMMA AlikeStanding ==
    ASSUME NEW p, NEW x, NEW y, NEW ux, NEW uy, NEW n, Standing(p, x, y, ux, uy, n), NEW s, Alike(x, s)
    PROVE  Standing(p, s, y, ux, uy, n)
<1>1. CASE p = Inbound
  <2>1. Position(x, y, ux, uy, n)
    BY <1>1 DEF Standing
  <2>2. Position(s, y, ux, uy, n)
    BY <2>1 DEF Position, Alike
  <2> QED
    BY <1>1, <2>2 DEF Standing
<1>2. CASE p # Inbound
  <2>1. Position(y, x, uy, ux, n)
    BY <1>2 DEF Standing
  <2>2. Position(y, s, uy, ux, n)
    BY <2>1 DEF Position, Alike
  <2> QED
    BY <1>2, <2>2 DEF Standing
<1> QED
  BY <1>1, <1>2

LEMMA InStepFrom ==
    ASSUME NEW p \in Peers
    PROVE  InStep <=>
             \E up, uq : /\ Flight(peer[p].deferred, wire[p], peer[Other(p)].normal, up)
                         /\ Flight(peer[Other(p)].deferred, wire[Other(p)], peer[p].normal, uq)
                         /\ Standing(p, peer[p], peer[Other(p)], up, uq, used.updates)
<1>1. CASE p = Inbound
  <2>1. Other(p) = Outbound
    BY <1>1 DEF Other
  <2> QED
    BY <1>1, <2>1 DEF InStep, Standing
<1>2. CASE p = Outbound
  <2>1. Other(p) = Inbound /\ p # Inbound
    BY <1>2 DEF Other, Inbound, Outbound
  <2> QED
    BY <1>2, <2>1 DEF InStep, Standing
<1> QED
  BY <1>1, <1>2 DEF Peers

LEMMA InStepAfter ==
    ASSUME NEW p \in Peers, NEW s, NEW t, peer'[p] = s, peer'[Other(p)] = t,
           NEW wp, NEW wq, wire'[p] = wp, wire'[Other(p)] = wq, NEW n, used'.updates = n,
           NEW vp, NEW vq, Flight(s.deferred, wp, t.normal, vp), Flight(t.deferred, wq, s.normal, vq),
           Standing(p, s, t, vp, vq, n)
    PROVE  InStep'
<1>1. CASE p = Inbound
  <2>1. Other(p) = Outbound
    BY <1>1 DEF Other
  <2>2. /\ peer'[Inbound] = s /\ peer'[Outbound] = t /\ wire'[Inbound] = wp /\ wire'[Outbound] = wq
        /\ Position(s, t, vp, vq, n)
    BY <1>1, <2>1 DEF Standing
  <2> QED
    BY <2>2 DEF InStep
<1>2. CASE p = Outbound
  <2>1. Other(p) = Inbound /\ p # Inbound
    BY <1>2 DEF Other, Inbound, Outbound
  <2>2. /\ peer'[Outbound] = s /\ peer'[Inbound] = t /\ wire'[Outbound] = wp /\ wire'[Inbound] = wq
        /\ Position(t, s, vq, vp, n)
    BY <1>2, <2>1 DEF Standing
  <2> QED
    BY <2>2 DEF InStep
<1> QED
  BY <1>1, <1>2 DEF Peers

\* A step of one end: the updates up on their way to it and uq on their way from it become vp, vq.
LEMMA KeyTurn ==
    ASSUME SessionInv, KeyNow, NEW p \in Peers, NEW s, peer' = [peer EXCEPT ![p] = s],
           NEW wp, NEW wq, wire'[p] = wp, wire'[Other(p)] = wq, NEW n, used'.updates = n,
           s.condition = None => peer[p].condition = None /\ KeyRecord(p, s),
           s.condition = None =>
             \A up, uq :
               /\ Flight(peer[p].deferred, wire[p], peer[Other(p)].normal, up)
               /\ Flight(peer[Other(p)].deferred, wire[Other(p)], peer[p].normal, uq)
               /\ Standing(p, peer[p], peer[Other(p)], up, uq, used.updates)
               => \E vp, vq :
                    /\ Flight(s.deferred, wp, peer[Other(p)].normal, vp)
                    /\ Flight(peer[Other(p)].deferred, wq, s.normal, vq)
                    /\ Standing(p, s, peer[Other(p)], vp, vq, n)
    PROVE  KeyInv'
<1>1. peer \in [Peers -> PeerRecords]
  BY DEF SessionInv, PartsOK, RestOK
<1>2. peer'[p] = s /\ peer'[Other(p)] = peer[Other(p)]
  BY <1>1, Ends
<1>3. ASSUME \A q \in Peers : peer'[q].condition = None
      PROVE  KeyNow'
  <2>1. s.condition = None
    BY <1>2, <1>3
  <2>2. KeyRecord(Other(p), peer[Other(p)])
    BY Ends DEF KeyNow
  <2>3. \A q \in Peers : KeyRecord(q, peer'[q])
    BY <1>2, <2>1, <2>2, Ends
  <2>4. PICK up, uq : /\ Flight(peer[p].deferred, wire[p], peer[Other(p)].normal, up)
                      /\ Flight(peer[Other(p)].deferred, wire[Other(p)], peer[p].normal, uq)
                      /\ Standing(p, peer[p], peer[Other(p)], up, uq, used.updates)
    BY InStepFrom DEF KeyNow
  <2>5. PICK vp, vq : /\ Flight(s.deferred, wp, peer[Other(p)].normal, vp)
                      /\ Flight(peer[Other(p)].deferred, wq, s.normal, vq)
                      /\ Standing(p, s, peer[Other(p)], vp, vq, n)
    BY <2>1, <2>4
  <2>6. PICK t : t = peer[Other(p)]
    OBVIOUS
  <2>7. /\ Flight(s.deferred, wp, t.normal, vp) /\ Flight(t.deferred, wq, s.normal, vq)
        /\ Standing(p, s, t, vp, vq, n) /\ peer'[Other(p)] = t
    BY <1>2, <2>5, <2>6
  <2>8. InStep'
    BY <1>2, <2>7, InStepAfter
  <2> QED
    BY <1>3, <2>3, <2>8 DEF KeyNow, NotCondemned
<1> QED
  BY <1>3 DEF KeyInv, NotCondemned

\* A step that leaves the end where it stood, and the updates under way.
LEMMA KeyQuiet ==
    ASSUME SessionInv, KeyNow, NEW p \in Peers, NEW s, peer' = [peer EXCEPT ![p] = s],
           NEW wp, NEW wq, wire'[p] = wp, wire'[Other(p)] = wq, used'.updates = used.updates,
           s.condition = None => peer[p].condition = None /\ KeyRecord(p, s) /\ Alike(peer[p], s),
           s.condition = None =>
             \A u : Flight(peer[p].deferred, wire[p], peer[Other(p)].normal, u)
                      => Flight(s.deferred, wp, peer[Other(p)].normal, u),
           s.condition = None =>
             \A u : Flight(peer[Other(p)].deferred, wire[Other(p)], peer[p].normal, u)
                      => Flight(peer[Other(p)].deferred, wq, s.normal, u)
    PROVE  KeyInv'
<1>1. PICK n : n = used.updates
  OBVIOUS
<1>2. ASSUME s.condition = None, NEW up, NEW uq,
             Flight(peer[p].deferred, wire[p], peer[Other(p)].normal, up),
             Flight(peer[Other(p)].deferred, wire[Other(p)], peer[p].normal, uq),
             Standing(p, peer[p], peer[Other(p)], up, uq, used.updates)
      PROVE  \E vp, vq :
                    /\ Flight(s.deferred, wp, peer[Other(p)].normal, vp)
                    /\ Flight(peer[Other(p)].deferred, wq, s.normal, vq)
                    /\ Standing(p, s, peer[Other(p)], vp, vq, n)
  <2>1. Standing(p, s, peer[Other(p)], up, uq, n)
    BY <1>1, <1>2, AlikeStanding
  <2> QED
    BY <1>2, <2>1
<1>3. used'.updates = n
  BY <1>1
<1> QED
  BY <1>2, <1>3, KeyTurn

\* The queue of a step that queues a message which is no update, or none.
GrowsPlainly(q, t) == t = q \/ \E m \in Messages : t = Append(q, m) /\ ~IsUpdate(m)

LEMMA PlainGrowth ==
    ASSUME NEW d, NEW w, NEW q \in Seq(Messages), NEW t, GrowsPlainly(q, t), NEW u, Flight(d, w, q, u)
    PROVE  Flight(d, w, t, u)
<1>1. CASE t = q
  BY <1>1
<1>2. ASSUME NEW m \in Messages, t = Append(q, m), ~IsUpdate(m)
      PROVE  Flight(d, w, t, u)
  BY <1>2, FlightQueued
<1> QED
  BY <1>1, <1>2 DEF GrowsPlainly

LEMMA PlainStays ==
    ASSUME NEW q \in Seq(Messages), NEW t, GrowsPlainly(q, t), \A i \in 1 .. Len(q) : ~IsUpdate(q[i])
    PROVE  \A i \in 1 .. Len(t) : ~IsUpdate(t[i])
<1>1. CASE t = q
  BY <1>1
<1>2. ASSUME NEW m \in Messages, t = Append(q, m), ~IsUpdate(m)
      PROVE  \A i \in 1 .. Len(t) : ~IsUpdate(t[i])
  BY <1>2, Longer
<1> QED
  BY <1>1, <1>2 DEF GrowsPlainly

LEMMA BegunStays ==
    ASSUME NEW p, NEW r, r.normal \in Seq(Messages), NEW s, Core(s) = Core(r),
           GrowsPlainly(r.normal, s.normal), Begun(p, r)
    PROVE  Begun(p, s)
<1>1. s.update = r.update /\ s.resume = r.resume
  BY DEF Core
<1>2. PICK i \in 1 .. Len(r.normal) : r.normal[i].type = "EndPrimaryUpdate"
  BY DEF Begun
<1>3. \E j \in 1 .. Len(s.normal) : s.normal[j].type = "EndPrimaryUpdate"
  <2>1. CASE s.normal = r.normal
    BY <1>2, <2>1
  <2>2. ASSUME NEW m \in Messages, s.normal = Append(r.normal, m)
        PROVE  \E j \in 1 .. Len(s.normal) : s.normal[j].type = "EndPrimaryUpdate"
    <3>1. /\ Len(s.normal) = Len(r.normal) + 1 /\ Len(r.normal) \in Nat
          /\ s.normal[i] = r.normal[i]
      BY <2>2, AppendProperties, LenProperties
    <3> QED
      BY <1>2, <3>1
  <2> QED
    BY <2>1, <2>2 DEF GrowsPlainly
<1> QED
  BY <1>1, <1>3 DEF Begun

LEMMA RecordStays ==
    ASSUME NEW p, NEW r \in PeerRecords, KeyRecord(p, r), r.condition = None, NEW s, Core(s) = Core(r),
           GrowsPlainly(r.normal, s.normal), GrowsPlainly(r.delayed, s.delayed)
    PROVE  KeyRecord(p, s)
<1>1. /\ s.status = r.status /\ s.update = r.update /\ s.resume = r.resume
      /\ s.exchange = r.exchange /\ s.keys = r.keys
  BY DEF Core
<1>2. r.normal \in Seq(Messages) /\ r.delayed \in Seq(Messages)
  BY DEF PeerRecords
<1>3. \A i \in 1 .. Len(s.delayed) : ~IsUpdate(s.delayed[i])
  BY <1>2, PlainStays DEF KeyRecord
<1>4. Begun(p, r) => Begun(p, s)
  BY <1>2, BegunStays
<1> QED
  BY <1>1, <1>3, <1>4 DEF KeyRecord

\* A step of one end that leaves its keys alone and queues at most a message that is no update.
LEMMA KeyPlain ==
    ASSUME SessionInv, KeyNow, NEW p \in Peers, NEW s, peer' = [peer EXCEPT ![p] = s], wire' = wire,
           used'.updates = used.updates, s.condition = None => peer[p].condition = None,
           Core(s) = Core(peer[p]), s.deferred = peer[p].deferred,
           GrowsPlainly(peer[p].normal, s.normal), GrowsPlainly(peer[p].delayed, s.delayed)
    PROVE  KeyInv'
<1>1. peer[p] \in PeerRecords /\ peer[p].normal \in Seq(Messages) /\ KeyRecord(p, peer[p])
  BY ScenarioTypes DEF PeerRecords, KeyNow
<1>2. s.condition = None => peer[p].condition = None /\ KeyRecord(p, s) /\ Alike(peer[p], s)
  BY <1>1, RecordStays, CoreIsAlike
<1>3. \A u : Flight(peer[p].deferred, wire[p], peer[Other(p)].normal, u)
               => Flight(s.deferred, wire[p], peer[Other(p)].normal, u)
  OBVIOUS
<1>4. ASSUME NEW u, Flight(peer[Other(p)].deferred, wire[Other(p)], peer[p].normal, u)
      PROVE  Flight(peer[Other(p)].deferred, wire[Other(p)], s.normal, u)
  BY <1>1, <1>4, PlainGrowth
<1>5. PICK wp, wq : wp = wire[p] /\ wq = wire[Other(p)]
  OBVIOUS
<1>6. /\ \A u : Flight(peer[p].deferred, wire[p], peer[Other(p)].normal, u)
                  => Flight(s.deferred, wp, peer[Other(p)].normal, u)
      /\ \A u : Flight(peer[Other(p)].deferred, wire[Other(p)], peer[p].normal, u)
                  => Flight(peer[Other(p)].deferred, wq, s.normal, u)
      /\ wire'[p] = wp /\ wire'[Other(p)] = wq
  BY <1>3, <1>4, <1>5
<1> QED
  BY <1>2, <1>6, KeyQuiet

LEMMA KeyCondemned ==
    ASSUME SessionInv, KeyNow, NEW p \in Peers, NEW s, peer' = [peer EXCEPT ![p] = s], s.condition # None
    PROVE  KeyInv'
<1>1. PICK wp, wq, n : wp = wire'[p] /\ wq = wire'[Other(p)] /\ n = used'.updates
  OBVIOUS
<1> QED
  BY <1>1, KeyTurn

-----------------------------------------------------------------------------
(* The actions that process no message.                                     *)

LEMMA QueueFields ==
    ASSUME NEW r \in PeerRecords, NEW m \in Messages, NEW priority \in Queues
    PROVE  LET s == Queue(r, m, priority)
           IN  /\ s \in PeerRecords /\ Core(s) = Core(r)
               /\ s.status = r.status /\ s.update = r.update /\ s.resume = r.resume
               /\ s.exchange = r.exchange /\ s.keys = r.keys
               /\ s.deferred = r.deferred /\ s.condition = r.condition
               /\ s.normal = IF priority = "normal" THEN Append(r.normal, m) ELSE r.normal
               /\ s.delayed = IF priority = "delayed" THEN Append(r.delayed, m) ELSE r.delayed
<1> DEFINE s == Queue(r, m, priority)
<1>1. /\ r.normal \in Seq(Messages) /\ r.delayed \in Seq(Messages) /\ r.expedited \in Seq(Messages)
      /\ Append(r.normal, m) \in Seq(Messages) /\ Append(r.delayed, m) \in Seq(Messages)
      /\ Append(r.expedited, m) \in Seq(Messages)
  BY Longer DEF PeerRecords
<1>2. PICK x, y, z : x = Append(r.normal, m) /\ y = Append(r.delayed, m) /\ z = Append(r.expedited, m)
  OBVIOUS
<1>3. CASE priority = "normal"
  <2>1. s = [r EXCEPT !.normal = x]
    BY <1>2, <1>3 DEF Queue
  <2> HIDE DEF s
  <2>2. x \in Seq(Messages)
    BY <1>1, <1>2
  <2>3. /\ s \in PeerRecords
        /\ s.status = r.status /\ s.update = r.update /\ s.resume = r.resume
        /\ s.exchange = r.exchange /\ s.keys = r.keys
        /\ s.deferred = r.deferred /\ s.condition = r.condition
        /\ s.normal = x /\ s.delayed = r.delayed
    BY <2>1, <2>2 DEF PeerRecords
  <2> QED
    BY <1>2, <1>3, <2>3 DEF Core, s
<1>4. CASE priority = "delayed"
  <2>1. s = [r EXCEPT !.delayed = y]
    BY <1>2, <1>4 DEF Queue
  <2> HIDE DEF s
  <2>2. y \in Seq(Messages)
    BY <1>1, <1>2
  <2>3. /\ s \in PeerRecords
        /\ s.status = r.status /\ s.update = r.update /\ s.resume = r.resume
        /\ s.exchange = r.exchange /\ s.keys = r.keys
        /\ s.deferred = r.deferred /\ s.condition = r.condition
        /\ s.delayed = y /\ s.normal = r.normal
    BY <2>1, <2>2 DEF PeerRecords
  <2> QED
    BY <1>2, <1>4, <2>3 DEF Core, s
<1>5. CASE priority = "expedited"
  <2>1. s = [r EXCEPT !.expedited = z]
    BY <1>2, <1>5 DEF Queue
  <2> HIDE DEF s
  <2>2. z \in Seq(Messages)
    BY <1>1, <1>2
  <2>3. /\ s \in PeerRecords
        /\ s.status = r.status /\ s.update = r.update /\ s.resume = r.resume
        /\ s.exchange = r.exchange /\ s.keys = r.keys
        /\ s.deferred = r.deferred /\ s.condition = r.condition
        /\ s.normal = r.normal /\ s.delayed = r.delayed
    BY <2>1, <2>2 DEF PeerRecords
  <2> QED
    BY <1>5, <2>3 DEF Core, s
<1> QED
  BY <1>3, <1>4, <1>5 DEF Queues

LEMMA QueuePlain ==
    ASSUME NEW r \in PeerRecords, NEW m \in Messages, ~IsUpdate(m), NEW priority \in Queues
    PROVE  LET s == Queue(r, m, priority)
           IN  /\ Core(s) = Core(r) /\ s.deferred = r.deferred /\ s.condition = r.condition
               /\ GrowsPlainly(r.normal, s.normal) /\ GrowsPlainly(r.delayed, s.delayed)
BY QueueFields, ZenonT(60) DEF GrowsPlainly

LEMMA SmallMessages ==
    /\ Noise \in Messages /\ ~IsUpdate(Noise) /\ Extender \in Messages /\ ~IsUpdate(Extender)
    /\ Msg("BeginMeta", 0, None) \in Messages /\ ~IsUpdate(Msg("BeginMeta", 0, None))
    /\ \A n \in Numbers : Msg("ExtenderUpdate", n, None) \in Messages
                          /\ ~IsUpdate(Msg("ExtenderUpdate", n, None))
<1>1. Noise.type = "Noise" /\ Extender.type = "ExtenderCommunication"
      /\ Noise \in Messages /\ Extender \in Messages
  BY PlainMessages
<1>2. "BeginMeta" \in Types /\ "ExtenderUpdate" \in Types /\ 0 \in Numbers /\ None \in Counters
  BY RepliesAreKnown, KnownTypes DEF Numbers, Counters
<1>3. Msg("BeginMeta", 0, None) \in Messages /\ Msg("BeginMeta", 0, None).type = "BeginMeta"
  BY <1>2, MessageType
<1>4. \A n \in Numbers : Msg("ExtenderUpdate", n, None) \in Messages
                         /\ Msg("ExtenderUpdate", n, None).type = "ExtenderUpdate"
  BY <1>2, MessageType
<1> QED
  BY <1>1, <1>3, <1>4 DEF IsUpdate, UpdateTypes

LEMMA BeginHandshakeKeys ==
    ASSUME SessionInv, KeyNow, NEW p \in Peers, BeginHandshake(p)
    PROVE  KeyInv'
<1> DEFINE m == IF p = Inbound THEN Msg("BeginMeta", 0, None) ELSE Noise
           r == [peer[p] EXCEPT !.status = "MetaExchange", !.exchange = 0]
           s == Queue(r, m, "delayed")
<1>1. /\ peer' = [peer EXCEPT ![p] = s] /\ wire' = wire /\ used' = used
      /\ peer[p].status = "Connected" /\ peer[p].condition = None
  BY DEF BeginHandshake, Active
<1>2. m \in Messages /\ ~IsUpdate(m)
  BY SmallMessages
<1>3. /\ peer[p] \in PeerRecords /\ peer[p].normal \in Seq(Messages)
      /\ peer[p].delayed \in Seq(Messages) /\ KeyRecord(p, peer[p])
  BY ScenarioTypes DEF PeerRecords, KeyNow
<1>4. /\ r \in PeerRecords /\ r.status = "MetaExchange" /\ r.update = peer[p].update
      /\ r.normal = peer[p].normal /\ r.delayed = peer[p].delayed
      /\ r.deferred = peer[p].deferred /\ r.condition = peer[p].condition
  BY <1>3, StatusSet DEF PeerRecords, Numbers, NotReady, Handshaking
<1> HIDE DEF m, r
<1>5. /\ s.status = "MetaExchange" /\ s.update = peer[p].update /\ s.deferred = peer[p].deferred
      /\ s.condition = peer[p].condition /\ s.normal = peer[p].normal
      /\ GrowsPlainly(peer[p].delayed, s.delayed)
  <2>1. /\ s.status = r.status /\ s.update = r.update
        /\ s.deferred = r.deferred /\ s.condition = r.condition
        /\ s.normal = r.normal /\ s.delayed = Append(r.delayed, m)
    BY <1>2, <1>4, QueueFields, ZenonT(60) DEF Queues
  <2> HIDE DEF s
  <2>2. GrowsPlainly(peer[p].delayed, s.delayed)
    BY <1>2, <1>4, <2>1 DEF GrowsPlainly
  <2> QED
    BY <1>4, <2>1, <2>2
<1> HIDE DEF s
<1>6. "Connected" \in NotReady /\ "MetaExchange" \in NotReady
  BY DEF NotReady, Handshaking
<1>7. KeyRecord(p, s)
  <2>1. \A i \in 1 .. Len(s.delayed) : ~IsUpdate(s.delayed[i])
    BY <1>1, <1>3, <1>5, PlainStays DEF KeyRecord
  <2>2. s.update = "Unknown"
    BY <1>1, <1>3, <1>5, <1>6 DEF KeyRecord
  <2> QED
    BY <1>5, <2>1, <2>2 DEF KeyRecord
<1>8. Alike(peer[p], s)
  BY <1>1, <1>5, <1>6, NotReadyIsAlike
<1>9. PICK wp, wq : wp = wire[p] /\ wq = wire[Other(p)]
  OBVIOUS
<1> QED
  BY <1>1, <1>5, <1>7, <1>8, <1>9, KeyQuiet

LEMMA EnableSendKeys ==
    ASSUME SessionInv, KeyNow, NEW p \in Peers, EnableSend(p)
    PROVE  KeyInv'
<1> DEFINE s == [peer[p] EXCEPT !.sendDisabled = FALSE]
<1>1. peer' = [peer EXCEPT ![p] = s] /\ wire' = wire /\ used' = used
  BY DEF EnableSend
<1>2. peer[p] \in PeerRecords
  BY ScenarioTypes
<1>3. /\ Core(s) = Core(peer[p]) /\ s.deferred = peer[p].deferred /\ s.condition = peer[p].condition
      /\ s.normal = peer[p].normal /\ s.delayed = peer[p].delayed
  BY <1>2 DEF PeerRecords, Core
<1> HIDE DEF s
<1> QED
  BY <1>1, <1>3, KeyPlain DEF GrowsPlainly

LEMMA TimeoutKeys ==
    ASSUME SessionInv, KeyNow, NEW p \in Peers,
           HandshakeTimesOut(p) \/ KeyUpdateTimesOut(p) \/ ConnectionClosed(p)
    PROVE  KeyInv'
<1>1. PICK why \in Conditions : peer' = [peer EXCEPT ![p] = Condemn(peer[p], why)]
  BY DEF HandshakeTimesOut, KeyUpdateTimesOut, ConnectionClosed, Conditions
<1>2. Condemn(peer[p], why).condition # None
  BY ScenarioTypes, CondemnFields
<1> QED
  BY <1>1, <1>2, KeyCondemned

LEMMA DisconnectKeys ==
    ASSUME SessionInv, KeyNow, NEW p \in Peers, Disconnect(p)
    PROVE  KeyInv'
<1> DEFINE s == [peer[p] EXCEPT !.status = "Disconnected"]
<1>1. peer' = [peer EXCEPT ![p] = s] /\ peer[p].condition # None /\ peer[p] \in PeerRecords
  BY ScenarioTypes DEF Disconnect
<1>2. s.condition # None
  BY <1>1 DEF PeerRecords
<1> HIDE DEF s
<1> QED
  BY <1>1, <1>2, KeyCondemned

\* A suspended end stands where it did: Effective looks through the suspension.
LEMMA SuspendKeys ==
    ASSUME SessionInv, KeyNow, NEW p \in Peers, Suspend(p)
    PROVE  KeyInv'
<1> DEFINE r == peer[p]
           t == [r EXCEPT !.status = "Suspended"]
           s == SetUpdateStatus(t, "Suspended")
<1>1. /\ r.condition = None /\ r.status = "Ready" /\ wire' = wire /\ used' = used
      /\ r \in PeerRecords /\ KeyRecord(p, r)
  BY ScenarioTypes DEF Suspend, Active, KeyNow
<1>2. r.update \notin {"Unknown", "Suspended"}
  BY <1>1 DEF KeyRecord
<1>3. UpdateStatusAllowed(r, "Suspended")
  BY <1>2 DEF UpdateStatusAllowed
<1>4. peer' = [peer EXCEPT ![p] = s]
  BY <1>3 DEF Suspend
<1>5. t.update = r.update
  BY <1>1 DEF PeerRecords
<1>6. s = [[t EXCEPT !.update = "Suspended"] EXCEPT !.resume = t.update]
  BY DEF SetUpdateStatus
<1>7. /\ s.status = "Suspended" /\ s.update = "Suspended" /\ s.resume = r.update
      /\ s.exchange = r.exchange /\ s.keys = r.keys /\ s.condition = r.condition
      /\ s.normal = r.normal /\ s.delayed = r.delayed /\ s.deferred = r.deferred
  BY <1>1, <1>5, <1>6, ZenonT(60) DEF PeerRecords
<1> HIDE DEF s, r
<1>8. KeyRecord(p, s)
  BY <1>1, <1>2, <1>7 DEF KeyRecord, NotReady, Handshaking
<1>9. Alike(r, s)
  <2>1. IsReady(r) /\ IsReady(s) /\ Effective(s) = Effective(r)
    BY <1>1, <1>2, <1>7 DEF IsReady, Effective
  <2> QED
    BY <1>7, <2>1, ReadyIsAlike
<1>10. PICK wp, wq : wp = wire[p] /\ wq = wire[Other(p)]
  OBVIOUS
<1> QED
  BY <1>1, <1>4, <1>7, <1>8, <1>9, <1>10, KeyQuiet DEF r

LEMMA ResumeKeys ==
    ASSUME SessionInv, KeyNow, NEW p \in Peers, Resume(p)
    PROVE  KeyInv'
<1> DEFINE r == peer[p]
           t == [r EXCEPT !.status = "Ready"]
           s == SetUpdateStatus(t, r.resume)
<1>1. /\ r.condition = None /\ r.status = "Suspended" /\ wire' = wire /\ used' = used
      /\ r \in PeerRecords /\ KeyRecord(p, r)
  BY ScenarioTypes DEF Resume, Active, KeyNow
<1>2. r.resume \notin {"Unknown", "Suspended"} /\ (r.update = "Suspended" \/ Begun(p, r))
  BY <1>1 DEF KeyRecord
<1>3. CASE ~UpdateStatusAllowed(r, r.resume)
  <2>1. peer' = [peer EXCEPT ![p] = Condemn(t, "GeneralFailure")]
    BY <1>3 DEF Resume
  <2>2. t \in PeerRecords
    BY <1>1, StatusSet DEF PeerRecords
  <2>3. Condemn(t, "GeneralFailure").condition # None
    BY <2>2, CondemnFields DEF Conditions
  <2> QED
    BY <2>1, <2>3, KeyCondemned
<1>4. CASE UpdateStatusAllowed(r, r.resume)
  <2>1. peer' = [peer EXCEPT ![p] = s]
    BY <1>4 DEF Resume
  <2>2. r.update = "Suspended"
    <3>1. CASE Begun(p, r)
      <4>1. r.update = "SecondaryExchange" /\ r.resume = "UpdateWait"
        BY <3>1 DEF Begun
      <4> QED
        BY <1>4, <4>1 DEF UpdateStatusAllowed, UpdateStep
    <3> QED
      BY <1>2, <3>1
  <2>3. t.update = r.update
    BY <1>1 DEF PeerRecords
  <2>4. s = [t EXCEPT !.update = r.resume]
    BY <1>2, <2>2, <2>3 DEF SetUpdateStatus
  <2>5. /\ s.status = "Ready" /\ s.update = r.resume
        /\ s.exchange = r.exchange /\ s.keys = r.keys /\ s.condition = r.condition
        /\ s.normal = r.normal /\ s.delayed = r.delayed /\ s.deferred = r.deferred
    BY <1>1, <2>4 DEF PeerRecords
  <2> HIDE DEF s, r
  <2>6. KeyRecord(p, s)
    BY <1>1, <1>2, <2>5 DEF KeyRecord, NotReady, Handshaking
  <2>7. Alike(r, s)
    <3>1. IsReady(r) /\ IsReady(s) /\ Effective(s) = Effective(r)
      BY <1>1, <1>2, <2>2, <2>5 DEF IsReady, Effective
    <3> QED
      BY <2>5, <3>1, ReadyIsAlike
  <2>8. PICK wp, wq : wp = wire[p] /\ wq = wire[Other(p)]
    OBVIOUS
  <2> QED
    BY <1>1, <2>1, <2>5, <2>6, <2>7, <2>8, KeyQuiet DEF r
<1> QED
  BY <1>3, <1>4

LEMMA QueueNoiseKeys ==
    ASSUME SessionInv, KeyNow, NEW p \in Peers, QueueNoise(p)
    PROVE  KeyInv'
<1> DEFINE s == Queue(peer[p], Noise, "delayed")
<1>1. peer' = [peer EXCEPT ![p] = s] /\ wire' = wire /\ used'.updates = used.updates
  BY ScenarioTypes DEF QueueNoise, RestOK
<1>2. /\ Core(s) = Core(peer[p]) /\ s.deferred = peer[p].deferred /\ s.condition = peer[p].condition
      /\ GrowsPlainly(peer[p].normal, s.normal) /\ GrowsPlainly(peer[p].delayed, s.delayed)
  BY ScenarioTypes, SmallMessages, QueuePlain DEF Queues
<1> HIDE DEF s
<1> QED
  BY <1>1, <1>2, KeyPlain

LEMMA ExtenderSendsKeys ==
    ASSUME SessionInv, KeyNow, NEW p \in Peers, ExtenderSends(p)
    PROVE  KeyInv'
<1>1. /\ wire' = wire /\ used'.updates = used.updates
      /\ \E priority \in Priorities : peer' = [peer EXCEPT ![p] = Queue(peer[p], Extender, priority)]
  BY ScenarioTypes DEF ExtenderSends, RestOK
<1>2. PICK priority \in Queues : peer' = [peer EXCEPT ![p] = Queue(peer[p], Extender, priority)]
  BY <1>1
<1> DEFINE s == Queue(peer[p], Extender, priority)
<1>3. /\ Core(s) = Core(peer[p]) /\ s.deferred = peer[p].deferred /\ s.condition = peer[p].condition
      /\ GrowsPlainly(peer[p].normal, s.normal) /\ GrowsPlainly(peer[p].delayed, s.delayed)
  BY ScenarioTypes, SmallMessages, QueuePlain
<1>4. peer' = [peer EXCEPT ![p] = s]
  BY <1>2
<1> HIDE DEF s
<1> QED
  BY <1>1, <1>3, <1>4, KeyPlain

LEMMA SendExtenderUpdateKeys ==
    ASSUME SessionInv, KeyNow, NEW p \in Peers, SendExtenderUpdate(p)
    PROVE  KeyInv'
<1> DEFINE m == Msg("ExtenderUpdate", extenders[p], None)
           r == [peer[p] EXCEPT !.needsUpdate = FALSE]
           s == Queue(r, m, "normal")
<1>1. peer' = [peer EXCEPT ![p] = s] /\ wire' = wire /\ used' = used
  BY DEF SendExtenderUpdate
<1>2. m \in Messages /\ ~IsUpdate(m) /\ peer[p] \in PeerRecords
  BY ScenarioTypes, SmallMessages
<1>3. /\ r \in PeerRecords /\ Core(r) = Core(peer[p]) /\ r.deferred = peer[p].deferred
      /\ r.condition = peer[p].condition /\ r.normal = peer[p].normal /\ r.delayed = peer[p].delayed
  BY <1>2 DEF PeerRecords, Core
<1> HIDE DEF r, m
<1>4. /\ Core(s) = Core(peer[p]) /\ s.deferred = peer[p].deferred /\ s.condition = peer[p].condition
      /\ GrowsPlainly(peer[p].normal, s.normal) /\ GrowsPlainly(peer[p].delayed, s.delayed)
  BY <1>2, <1>3, QueuePlain DEF Queues
<1> HIDE DEF s
<1> QED
  BY <1>1, <1>4, KeyPlain

LEMMA BroadcastKeys ==
    ASSUME SessionInv, KeyNow, NEW p \in Peers, BroadcastExtenderUpdate(p)
    PROVE  KeyInv'
<1> DEFINE m == Msg("ExtenderUpdate", extenders[p], None)
           a == Queue(peer[p], m, "normal")
           b == [peer[p] EXCEPT !.needsUpdate = TRUE]
           s == IF peer[p].status = "Ready" THEN a
                ELSE IF peer[p].status \in {"SessionInit", "Suspended"} THEN b ELSE peer[p]
<1>1. peer' = [peer EXCEPT ![p] = s] /\ wire' = wire /\ used' = used
  BY DEF BroadcastExtenderUpdate
<1>2. m \in Messages /\ ~IsUpdate(m) /\ peer[p] \in PeerRecords
  BY ScenarioTypes, SmallMessages
<1>3. /\ Core(a) = Core(peer[p]) /\ a.deferred = peer[p].deferred /\ a.condition = peer[p].condition
      /\ GrowsPlainly(peer[p].normal, a.normal) /\ GrowsPlainly(peer[p].delayed, a.delayed)
  BY <1>2, QueuePlain DEF Queues
<1>4. /\ Core(b) = Core(peer[p]) /\ b.deferred = peer[p].deferred /\ b.condition = peer[p].condition
      /\ b.normal = peer[p].normal /\ b.delayed = peer[p].delayed
  BY <1>2 DEF PeerRecords, Core
<1> HIDE DEF a, b
<1>5. /\ Core(s) = Core(peer[p]) /\ s.deferred = peer[p].deferred /\ s.condition = peer[p].condition
      /\ GrowsPlainly(peer[p].normal, s.normal) /\ GrowsPlainly(peer[p].delayed, s.delayed)
  BY <1>3, <1>4 DEF GrowsPlainly
<1> HIDE DEF s
<1> QED
  BY <1>1, <1>5, KeyPlain

LEMMA ExtenderFinishesKeys ==
    ASSUME SessionInv, KeyNow, NEW p \in Peers, ExtenderFinishes(p)
    PROVE  KeyInv'
<1> DEFINE s == [peer[p] EXCEPT !.held = @ - 1]
<1>1. peer' = [peer EXCEPT ![p] = s] /\ wire' = wire /\ used' = used
  BY DEF ExtenderFinishes
<1>2. peer[p] \in PeerRecords
  BY ScenarioTypes
<1>3. /\ Core(s) = Core(peer[p]) /\ s.deferred = peer[p].deferred /\ s.condition = peer[p].condition
      /\ s.normal = peer[p].normal /\ s.delayed = peer[p].delayed
  BY <1>2 DEF PeerRecords, Core
<1> HIDE DEF s
<1> QED
  BY <1>1, <1>3, KeyPlain DEF GrowsPlainly

LEMMA OutsideKeys ==
    ASSUME SessionInv, KeyNow, UNCHANGED <<peer, wire>>, used'.updates = used.updates
    PROVE  KeyInv'
BY DEF KeyInv, KeyNow, InStep

LEMMA ShorterRecord ==
    ASSUME NEW p, NEW r, KeyRecord(p, r), r.condition = None, r.status # "Suspended",
           NEW s, Core(s) = Core(r), \A i \in 1 .. Len(s.delayed) : ~IsUpdate(s.delayed[i])
    PROVE  KeyRecord(p, s)
<1>1. /\ s.status = r.status /\ s.update = r.update /\ s.resume = r.resume
      /\ s.exchange = r.exchange /\ s.keys = r.keys
  BY DEF Core
<1> QED
  BY <1>1 DEF KeyRecord

\* What a record loses when it sends.
LEMMA SentFields ==
    ASSUME NEW p \in Peers, NEW r \in PeerRecords, RecordOK(p, r), KeyRecord(p, r), r.condition = None,
           NEW q, MayLeave(r, q)
    PROVE  LET s == Shorter(r, q)
               m == FirstOf(r, q)
           IN  /\ Core(s) = Core(r) /\ s.deferred = r.deferred
               /\ \A i \in 1 .. Len(s.delayed) : ~IsUpdate(s.delayed[i])
               /\ \/ q = "normal" /\ r.normal # <<>> /\ m = Head(r.normal) /\ s.normal = Tail(r.normal)
                  \/ m \in Messages /\ ~IsUpdate(m) /\ s.normal = r.normal
<1> DEFINE s == Shorter(r, q)
           m == FirstOf(r, q)
<1>0. /\ r.normal \in Seq(Messages) /\ r.delayed \in Seq(Messages) /\ r.expedited \in Seq(Messages)
      /\ \A i \in 1 .. Len(r.delayed) : ~IsUpdate(r.delayed[i])
  BY DEF PeerRecords, KeyRecord
<1>1. CASE q = "normal" /\ r.normal # <<>>
  <2>1. s = [r EXCEPT !.normal = Tail(@), !.localCounter = NextCounter(@)] /\ m = Head(r.normal)
    BY <1>1 DEF Shorter, FirstOf
  <2> HIDE DEF s, m
  <2>2. /\ Core(s) = Core(r) /\ s.deferred = r.deferred /\ s.delayed = r.delayed
        /\ s.normal = Tail(r.normal)
    BY <2>1 DEF PeerRecords, Core
  <2> QED
    BY <1>0, <1>1, <2>1, <2>2 DEF s, m
<1>2. CASE q = "delayed" /\ r.delayed # <<>>
  <2>1. s = [r EXCEPT !.delayed = Tail(@), !.localCounter = NextCounter(@)] /\ m = Head(r.delayed)
    BY <1>2 DEF Shorter, FirstOf
  <2> HIDE DEF s, m
  <2>2. /\ Core(s) = Core(r) /\ s.deferred = r.deferred /\ s.delayed = Tail(r.delayed)
        /\ s.normal = r.normal
    BY <2>1 DEF PeerRecords, Core
  <2>3. /\ m \in Messages /\ m = r.delayed[1] /\ 1 \in 1 .. Len(r.delayed)
        /\ \A i \in 1 .. Len(Tail(r.delayed)) :
             i + 1 \in 1 .. Len(r.delayed) /\ Tail(r.delayed)[i] = r.delayed[i + 1]
    BY <1>0, <1>2, <2>1, TailOf
  <2>4. ~IsUpdate(m) /\ \A i \in 1 .. Len(s.delayed) : ~IsUpdate(s.delayed[i])
    BY <1>0, <2>2, <2>3
  <2> QED
    BY <2>2, <2>3, <2>4 DEF s, m
<1>3. CASE q = "expedited" /\ r.expedited # <<>>
  <2>1. s = [r EXCEPT !.expedited = Tail(@), !.localCounter = NextCounter(@)] /\ m = Head(r.expedited)
    BY <1>3 DEF Shorter, FirstOf
  <2> HIDE DEF s, m
  <2>2. /\ Core(s) = Core(r) /\ s.deferred = r.deferred /\ s.delayed = r.delayed
        /\ s.normal = r.normal
    BY <2>1 DEF PeerRecords, Core
  <2>3. m \in Messages /\ m = r.expedited[1] /\ 1 \in 1 .. Len(r.expedited)
    BY <1>0, <1>3, <2>1, TailOf
  <2>4. m.type = "ExtenderCommunication"
    BY <2>3 DEF RecordOK
  <2>5. ~IsUpdate(m)
    BY <2>4 DEF IsUpdate, UpdateTypes
  <2> QED
    BY <1>0, <2>2, <2>3, <2>5 DEF s, m
<1> QED
  BY <1>1, <1>2, <1>3 DEF MayLeave

LEMMA SendKeys ==
    ASSUME SessionInv, KeyNow, NEW p \in Peers, Send(p)
    PROVE  KeyInv'
<1> DEFINE r == peer[p]
           o == Other(p)
           q == NextQueue(r)
           counter == NextCounter(r.localCounter)
<1>1. /\ q # None /\ used' = used /\ r.condition = None /\ r.status # "Suspended"
  BY DEF Send, Active, Open
<1>2. CASE EncryptionKey(r) = None
  <2>1. peer' = [peer EXCEPT ![p] = Condemn(r, "SendError")]
    BY <1>2 DEF Send
  <2>2. Condemn(r, "SendError").condition # None
    BY ScenarioTypes, CondemnFields DEF Conditions
  <2> QED
    BY <2>1, <2>2, KeyCondemned
<1>3. CASE EncryptionKey(r) # None
  <2> DEFINE t == [key |-> EncryptionKey(r), counter |-> counter, message |-> FirstOf(r, q)]
             s == Shorter(r, q)
  <2>1. MayLeave(r, q) /\ q \in Queues
    BY <1>1 DEF MayLeave, NextQueue, Queues
  <2>2. /\ r \in PeerRecords /\ wire \in [Peers -> Seq(Transports)]
        /\ o \in Peers /\ o # p /\ wire[o] \in Seq(Transports) /\ RecordOK(p, r) /\ KeyRecord(p, r)
        /\ r.normal \in Seq(Messages)
    BY Ends DEF SessionInv, PartsOK, RestOK, KeyNow, RecordInv, PeerRecords
  <2>4. FirstOf(r, q) = Head(r[q])
    BY <2>1 DEF FirstOf, Queues
  <2>5. s = [r EXCEPT ![q] = Tail(@), !.localCounter = counter]
    <3>1. CASE q = "normal"
      BY <2>2, <3>1 DEF Shorter, PeerRecords
    <3>2. CASE q = "delayed"
      BY <2>2, <3>2 DEF Shorter, PeerRecords
    <3>3. CASE q = "expedited"
      BY <2>2, <3>3 DEF Shorter, PeerRecords
    <3> QED
      BY <2>1, <3>1, <3>2, <3>3 DEF Queues
  <2>6. peer' = [peer EXCEPT ![p] = s] /\ wire' = [wire EXCEPT ![o] = Append(wire[o], t)]
    <3>1. /\ peer' = [peer EXCEPT ![p] = [r EXCEPT ![q] = Tail(@), !.localCounter = counter]]
          /\ wire' = [wire EXCEPT ![o] = Append(@, [key |-> EncryptionKey(r), counter |-> counter,
                                                    message |-> Head(r[q])])]
      BY <1>3 DEF Send
    <3> QED
      BY <2>4, <2>5, <3>1
  <2>7. s.condition = r.condition /\ FirstOf(r, q) \in Messages
    <3>1. RecordInv(Accepted, p, r)
      BY DEF SessionInv
    <3> QED
      BY <2>1, <2>2, <3>1, SentRecord
  <2>8. t \in Transports /\ t.message = FirstOf(r, q)
    <3>1. EncryptionKey(r) \in KeyNames
      BY <1>3, <2>2, EncryptionKeyType
    <3>2. counter \in Counters
      BY <2>2, NextCounterType DEF PeerRecords
    <3> QED
      BY <2>7, <3>1, <3>2 DEF Transports
  <2>9. /\ Core(s) = Core(r) /\ s.deferred = r.deferred
        /\ \A i \in 1 .. Len(s.delayed) : ~IsUpdate(s.delayed[i])
        /\ \/ q = "normal" /\ r.normal # <<>> /\ t.message = Head(r.normal) /\ s.normal = Tail(r.normal)
           \/ ~IsUpdate(t.message) /\ s.normal = r.normal
    BY <1>1, <2>1, <2>2, <2>8, SentFields
  <2> HIDE DEF s, t, q, r
  <2>10. KeyRecord(p, s) /\ Alike(r, s)
    BY <1>1, <2>2, <2>9, ShorterRecord, CoreIsAlike
  <2>11. PICK wq, d : wq = Append(wire[o], t) /\ d = peer[o].deferred
    OBVIOUS
  <2>12. wire'[o] = wq /\ wire'[p] = wire[p]
    BY <2>2, <2>6, <2>11
  <2>13. ASSUME NEW u, Flight(d, wire[o], r.normal, u)
         PROVE  Flight(d, wq, s.normal, u)
    BY <2>2, <2>8, <2>9, <2>11, <2>13, FlightSent, FlightPassed
  <2>14. \A u : Flight(peer[p].deferred, wire[p], peer[o].normal, u)
                  => Flight(s.deferred, wire[p], peer[o].normal, u)
    BY <2>9 DEF r
  <2>15. PICK wp : wp = wire[p]
    OBVIOUS
  <2>16. /\ \A u : Flight(peer[p].deferred, wire[p], peer[Other(p)].normal, u)
                     => Flight(s.deferred, wp, peer[Other(p)].normal, u)
         /\ \A u : Flight(peer[Other(p)].deferred, wire[Other(p)], peer[p].normal, u)
                     => Flight(peer[Other(p)].deferred, wq, s.normal, u)
         /\ wire'[p] = wp /\ wire'[Other(p)] = wq
    BY <2>11, <2>12, <2>13, <2>14, <2>15 DEF r
  <2>17. peer[p].condition = None /\ Alike(peer[p], s) /\ used'.updates = used.updates
    BY <1>1, <2>10 DEF r
  <2> HIDE DEF o
  <2> QED
    BY <2>6, <2>10, <2>16, <2>17, KeyQuiet
<1> QED
  BY <1>2, <1>3

\* The newest pair is never one whose grace period ends.
LEMMA GraceEndsKeys ==
    ASSUME SessionInv, KeyNow, NEW p \in Peers, GraceEnds(p)
    PROVE  KeyInv'
<1> DEFINE r == peer[p]
           K(x) == [i \in DOMAIN x |-> IF i \in {j \in DOMAIN x : x[j].age = "grace"}
                                       THEN [x[i] EXCEPT !.age = "expired"] ELSE x[i]]
<1>1. /\ wire' = wire /\ used' = used /\ r.condition = None /\ r.status # "Disconnected"
      /\ peer' = [peer EXCEPT ![p] = [r EXCEPT !.keys = K(r.keys)]]
  BY DEF GraceEnds, Active
<1>2. /\ r \in PeerRecords /\ r.keys \in KeyLists /\ KeyRecord(p, r)
      /\ r.normal \in Seq(Messages) /\ r.delayed \in Seq(Messages)
  BY ScenarioTypes DEF PeerRecords, KeyLists, KeyNow
<1>3. \A i \in DOMAIN r.keys : K(r.keys)[i] \in KeyPairs
  <2> TAKE i \in DOMAIN r.keys
  <2>1. r.keys[i] \in KeyPairs
    BY <1>2, KeyElement
  <2>2. [r.keys[i] EXCEPT !.age = "expired"] \in KeyPairs
    BY <2>1 DEF KeyPairs
  <2> QED
    BY <2>1, <2>2
<1>4. K(r.keys) \in KeyLists
  BY <1>2, <1>3, KeysEachType
<1>5. DOMAIN K(r.keys) = DOMAIN r.keys
      /\ \A i \in DOMAIN r.keys : r.keys[i].age = "current" => K(r.keys)[i] = r.keys[i]
  OBVIOUS
<1>6. PICK k : k = K(r.keys)
  OBVIOUS
<1> DEFINE s == [r EXCEPT !.keys = k]
<1>7. peer' = [peer EXCEPT ![p] = s]
  BY <1>1, <1>6
<1> HIDE DEF K, r
<1>8. /\ s.status = r.status /\ s.update = r.update /\ s.resume = r.resume
      /\ s.exchange = r.exchange /\ s.keys = k /\ s.condition = r.condition
      /\ s.normal = r.normal /\ s.delayed = r.delayed /\ s.deferred = r.deferred
  BY <1>2 DEF PeerRecords
<1> HIDE DEF s
<1>9. ASSUME NEW name, NEW encrypt, NewestKey(r.keys, name, encrypt)
      PROVE  NewestKey(s.keys, name, encrypt)
  <2>1. DOMAIN r.keys = 1 .. Len(r.keys) /\ Len(r.keys) \in Nat /\ 1 \in DOMAIN r.keys
    BY <1>2, <1>9, LenProperties DEF KeyLists, NewestKey
  <2>2. DOMAIN k = 1 .. Len(k) /\ Len(k) \in Nat
    BY <1>4, <1>6, LenProperties DEF KeyLists
  <2>3. DOMAIN k = DOMAIN r.keys /\ k[1] = r.keys[1]
    BY <1>5, <1>6, <1>9, <2>1 DEF NewestKey
  <2>4. Len(k) >= 1
    BY <2>1, <2>2, <2>3
  <2> QED
    BY <1>8, <1>9, <2>3, <2>4 DEF NewestKey
<1>10. Alike(r, s)
  <2>1. CASE r.status \in NotReady
    BY <1>8, <2>1, NotReadyIsAlike
  <2>2. CASE r.status \notin NotReady
    <3>1. IsReady(r)
      BY <1>1, <1>2, <2>2, StatusSet DEF IsReady, PeerRecords
    <3>2. IsReady(s) /\ Effective(s) = Effective(r)
      BY <1>8, <3>1 DEF IsReady, Effective
    <3> QED
      BY <1>8, <1>9, <3>1, <3>2, ReadyIsAlike
  <2> QED
    BY <2>1, <2>2
<1>11. KeyRecord(p, s)
  <2>1. Begun(p, r) => Begun(p, s)
    BY <1>8 DEF Begun
  <2> QED
    BY <1>1, <1>2, <1>8, <1>9, <2>1 DEF KeyRecord
<1>12. PICK wp, wq : wp = wire[p] /\ wq = wire[Other(p)]
  OBVIOUS
<1> QED
  BY <1>1, <1>7, <1>8, <1>10, <1>11, <1>12, KeyQuiet DEF r

\* The messages of an update.
LEMMA UpdateIs ==
    ASSUME NEW type \in UpdateTypes, NEW n \in Numbers
    PROVE  /\ Update(type, n) \in Messages /\ Update(type, n).type = type /\ Update(type, n).n = n
           /\ IsUpdate(Update(type, n))
<1>1. type \in Types /\ None \in Counters
  BY KnownTypes, RepliesAreKnown DEF UpdateTypes, Counters
<1>2. Msg(type, n, None) \in Messages /\ Msg(type, n, None).type = type
  BY <1>1, MessageType
<1>3. Msg(type, n, None).n = n
  BY DEF Msg
<1> QED
  BY <1>2, <1>3 DEF Update, IsUpdate

LEMMA AppendToFew ==
    ASSUME NEW x \in Messages, NEW y \in Messages
    PROVE  Append(<<>>, x) = <<x>> /\ Append(<<x>>, y) = <<x, y>>
<1>1. /\ <<>> \in Seq(Messages) /\ <<x>> \in Seq(Messages) /\ <<x, y>> \in Seq(Messages)
      /\ Len(<<>>) = 0 /\ Len(<<x>>) = 1 /\ Len(<<x, y>>) = 2
      /\ <<x>>[1] = x /\ <<x, y>>[1] = x /\ <<x, y>>[2] = y
  OBVIOUS
<1> DEFINE none == <<>>
           one == <<x>>
           two == <<x, y>>
           a == Append(none, x)
           b == Append(one, y)
<1>2. /\ none \in Seq(Messages) /\ one \in Seq(Messages) /\ two \in Seq(Messages)
      /\ Len(none) = 0 /\ Len(one) = 1 /\ Len(two) = 2
      /\ one[1] = x /\ two[1] = x /\ two[2] = y
  BY <1>1
<1> HIDE DEF none, one, two
<1>3. a \in Seq(Messages) /\ Len(a) = 1 /\ a[1] = x
  BY <1>2, AppendProperties
<1>4. b \in Seq(Messages) /\ Len(b) = 2 /\ b[1] = x /\ b[2] = y
  BY <1>2, AppendProperties
<1> HIDE DEF a, b
<1>5. \A i \in 1 .. 1 : i = 1
  OBVIOUS
<1>6. \A i \in 1 .. 2 : i = 1 \/ i = 2
  OBVIOUS
<1>7. a = one
  BY <1>2, <1>3, <1>5, SeqEqual
<1>8. b = two
  BY <1>2, <1>4, <1>6, SeqEqual
<1> QED
  BY <1>7, <1>8 DEF a, b, none, one, two

LEMMA BeginKeyUpdateKeys ==
    ASSUME SessionInv, KeyNow, NEW p \in Peers, BeginKeyUpdate(p)
    PROVE  KeyInv'
<1>0. PICK last : last = used.updates
  OBVIOUS
<1> DEFINE n == last + 1
           r == peer[p]
           o == peer[Other(p)]
           a == [r EXCEPT !.exchange = n]
           m == Update("BeginPrimaryUpdate", n)
           b == Queue(a, m, "normal")
           s == SetUpdateStatus(b, "PrimaryExchange")
<1>1. /\ wire' = wire /\ r.status = "Ready" /\ r.update = "UpdateWait" /\ p = Inbound
      /\ r.condition = None
  BY DEF BeginKeyUpdate, Active
<1>2. /\ r \in PeerRecords /\ r.normal \in Seq(Messages) /\ KeyRecord(p, r)
  BY ScenarioTypes DEF PeerRecords, KeyNow
<1>3. CASE r.exchange # None
  <2>1. peer' = [peer EXCEPT ![p] = Condemn(r, "GeneralFailure")]
    BY <1>3 DEF BeginKeyUpdate
  <2>2. Condemn(r, "GeneralFailure").condition # None
    BY <1>2, CondemnFields DEF Conditions
  <2> QED
    BY <2>1, <2>2, KeyCondemned
<1>4. CASE r.exchange = None
  <2>1. peer' = [peer EXCEPT ![p] = s] /\ used' = [used EXCEPT !.updates = @ + 1]
    BY <1>0, <1>4 DEF BeginKeyUpdate, Update
  <2>2. last \in Nat /\ used'.updates = n
    BY <1>0, <2>1 DEF SessionInv, PartsOK, RestOK
  <2>3. n \in Nat /\ n > 0 /\ n - 1 = last /\ n \in Numbers
    BY <2>2 DEF Numbers
  <2> HIDE DEF n
  <2>4. m \in Messages /\ IsUpdate(m) /\ ~(m.type = "EndPrimaryUpdate")
    BY <2>3, UpdateIs DEF UpdateTypes
  <2>5. /\ a \in PeerRecords /\ a.status = "Ready" /\ a.update = "UpdateWait" /\ a.exchange = n
        /\ a.normal = r.normal /\ a.delayed = r.delayed /\ a.deferred = r.deferred
        /\ a.condition = None
    BY <1>1, <1>2, <2>3 DEF PeerRecords
  <2> HIDE DEF a, m
  <2>6. /\ b \in PeerRecords /\ b.status = "Ready" /\ b.update = "UpdateWait" /\ b.exchange = n
        /\ b.normal = Append(r.normal, m) /\ b.delayed = r.delayed /\ b.deferred = r.deferred
        /\ b.condition = None
    <3>1. "normal" \in Queues
      BY DEF Queues
    <3>2. LET t == Queue(a, m, "normal")
          IN  /\ t \in PeerRecords
              /\ t.status = a.status /\ t.update = a.update /\ t.exchange = a.exchange
              /\ t.deferred = a.deferred /\ t.condition = a.condition
              /\ t.normal = Append(a.normal, m) /\ t.delayed = a.delayed
      BY <2>4, <2>5, <3>1, QueueFields, ZenonT(60)
    <3>3. /\ b \in PeerRecords
          /\ b.status = a.status /\ b.update = a.update /\ b.exchange = a.exchange
          /\ b.deferred = a.deferred /\ b.condition = a.condition
          /\ b.normal = Append(a.normal, m) /\ b.delayed = a.delayed
      BY <3>2
    <3> HIDE DEF b
    <3> QED
      BY <2>5, <3>3
  <2> HIDE DEF b
  <2>7. s = [b EXCEPT !.update = "PrimaryExchange"]
    BY <2>6 DEF SetUpdateStatus
  <2> HIDE DEF s
  <2>8. /\ s.status = "Ready" /\ s.update = "PrimaryExchange" /\ s.exchange = n
        /\ s.normal = Append(r.normal, m) /\ s.delayed = r.delayed /\ s.deferred = r.deferred
    BY <2>6, <2>7 DEF PeerRecords
  <2> HIDE DEF r, o
  <2>9. KeyRecord(p, s)
    BY <1>1, <1>2, <2>8 DEF KeyRecord, NotReady, Handshaking
  <2>10. InStage(s, "PrimaryExchange", n)
    BY <2>8 DEF InStage, IsReady, Effective
  <2>11. ASSUME NEW up, NEW uq, Flight(o.deferred, wire[Other(p)], r.normal, uq),
                Standing(p, r, o, up, uq, last)
         PROVE  /\ Flight(o.deferred, wire[Other(p)], s.normal, Append(uq, m))
                /\ Standing(p, s, o, up, Append(uq, m), n)
    <3>1. Flight(o.deferred, wire[Other(p)], s.normal, Append(uq, m))
      BY <1>2, <2>4, <2>8, <2>11, FlightQueued
    <3>2. Position(r, o, up, uq, last)
      BY <1>1, <2>11 DEF Standing
    <3>3. Effective(r) = "UpdateWait"
      BY <1>1 DEF Effective
    <3>4. \/ AtRest(o, last) /\ up = <<>> /\ uq = <<>>
          \/ Waits(o, last) /\ up = <<>> /\ uq = <<Update("KeyUpdateReady", last)>>
      BY <3>2, <3>3 DEF Position, InStage
    <3>5. Position(s, o, up, Append(uq, m), n)
      <4>1. CASE AtRest(o, last) /\ up = <<>> /\ uq = <<>>
        <5>1. Append(uq, m) = <<m>>
          BY <2>4, <4>1, AppendToFew
        <5>2. AtRest(o, n - 1)
          BY <2>3, <4>1
        <5> QED
          BY <2>3, <2>10, <4>1, <5>1, <5>2 DEF Position, m
      <4>2. CASE Waits(o, last) /\ up = <<>> /\ uq = <<Update("KeyUpdateReady", last)>>
        <5>1. Append(uq, m) = <<Update("KeyUpdateReady", last), m>>
          BY <2>2, <2>4, <4>2, UpdateIs, AppendToFew DEF UpdateTypes, Numbers
        <5>2. Waits(o, n - 1) /\ Append(uq, m) = <<Update("KeyUpdateReady", n - 1), m>>
          BY <2>3, <4>2, <5>1
        <5> QED
          BY <2>3, <2>10, <4>2, <5>2 DEF Position, m
      <4> QED
        BY <3>4, <4>1, <4>2
    <3> QED
      BY <1>1, <3>1, <3>5 DEF Standing
  <2>12. PICK wp, wq : wp = wire[p] /\ wq = wire[Other(p)]
    OBVIOUS
  <2>13. \A up, uq :
               /\ Flight(peer[p].deferred, wire[p], peer[Other(p)].normal, up)
               /\ Flight(peer[Other(p)].deferred, wire[Other(p)], peer[p].normal, uq)
               /\ Standing(p, peer[p], peer[Other(p)], up, uq, used.updates)
               => \E vp, vq :
                    /\ Flight(s.deferred, wp, peer[Other(p)].normal, vp)
                    /\ Flight(peer[Other(p)].deferred, wq, s.normal, vq)
                    /\ Standing(p, s, peer[Other(p)], vp, vq, n)
    BY <1>0, <2>8, <2>11, <2>12 DEF r, o
  <2>14. peer[p].condition = None /\ wire'[p] = wp /\ wire'[Other(p)] = wq
    BY <1>1, <2>12 DEF r
  <2> QED
    BY <2>1, <2>2, <2>9, <2>13, <2>14, KeyTurn
<1> QED
  BY <1>3, <1>4

-----------------------------------------------------------------------------
(* What the messages of an update do to the record of their receiver.       *)

Rest(r) == <<r.status, r.resume, r.delayed, r.deferred, r.condition>>

LEMMA ReleaseKeys ==
    ASSUME NEW r \in PeerRecords
    PROVE  LET s == ReleaseKeyExchange(r)
           IN  /\ s \in PeerRecords /\ Rest(s) = Rest(r) /\ s.update = r.update
               /\ s.exchange = None /\ s.keys = ExpireAllExceptLatest(r.keys) /\ s.normal = r.normal
<1> DEFINE s == ReleaseKeyExchange(r)
<1>1. s \in PeerRecords
  BY ReleaseFields
<1>2. PICK k : k = ExpireAllExceptLatest(r.keys)
  OBVIOUS
<1>3. s = [r EXCEPT !.exchange = None, !.keys = k]
  BY <1>2 DEF ReleaseKeyExchange
<1> HIDE DEF s
<1>4. /\ Rest(s) = Rest(r) /\ s.update = r.update /\ s.exchange = None /\ s.keys = k
      /\ s.normal = r.normal
  BY <1>3 DEF PeerRecords, Rest
<1> QED
  BY <1>1, <1>2, <1>4 DEF s

LEMMA UpdateStatusSet ==
    ASSUME NEW r \in PeerRecords, NEW st \in UpdateStatuses, st # "Suspended",
           ~(r.update = "ReadyWait" /\ st = "UpdateWait")
    PROVE  LET s == SetUpdateStatus(r, st)
           IN  /\ s \in PeerRecords /\ Rest(s) = Rest(r) /\ s.update = st
               /\ s.exchange = r.exchange /\ s.keys = r.keys /\ s.normal = r.normal
<1> DEFINE s == SetUpdateStatus(r, st)
<1>1. s \in PeerRecords
  BY SetUpdateStatusFields
<1>2. s = [r EXCEPT !.update = st]
  BY DEF SetUpdateStatus
<1> HIDE DEF s
<1>3. /\ Rest(s) = Rest(r) /\ s.update = st
      /\ s.exchange = r.exchange /\ s.keys = r.keys /\ s.normal = r.normal
  BY <1>2 DEF PeerRecords, Rest
<1> QED
  BY <1>1, <1>3 DEF s

LEMMA UpdateStatusReleased ==
    ASSUME NEW r \in PeerRecords, r.update = "ReadyWait"
    PROVE  LET s == SetUpdateStatus(r, "UpdateWait")
           IN  /\ s \in PeerRecords /\ Rest(s) = Rest(r) /\ s.update = "UpdateWait"
               /\ s.exchange = None /\ s.keys = ExpireAllExceptLatest(r.keys) /\ s.normal = r.normal
<1> DEFINE t == [r EXCEPT !.update = "UpdateWait"]
<1>1. /\ t \in PeerRecords /\ Rest(t) = Rest(r) /\ t.update = "UpdateWait" /\ t.keys = r.keys
      /\ t.normal = r.normal
  BY DEF PeerRecords, Rest, UpdateStatuses
<1>2. SetUpdateStatus(r, "UpdateWait") = ReleaseKeyExchange(t)
  BY DEF SetUpdateStatus
<1> HIDE DEF t
<1> QED
  BY <1>1, <1>2, ReleaseKeys

LEMMA KeysSet ==
    ASSUME NEW r \in PeerRecords, NEW type, NEW n \in Numbers
    PROVE  LET s == [r EXCEPT !.keys = ExchangeKeys(@, type, n)]
           IN  /\ s \in PeerRecords /\ Rest(s) = Rest(r) /\ s.update = r.update
               /\ s.exchange = r.exchange /\ s.keys = ExchangeKeys(r.keys, type, n)
               /\ s.normal = r.normal
<1>1. PICK k : k = ExchangeKeys(r.keys, type, n)
  OBVIOUS
<1> DEFINE s == [r EXCEPT !.keys = ExchangeKeys(@, type, n)]
<1>2. s \in PeerRecords
  BY NewKeysFields
<1>3. s = [r EXCEPT !.keys = k]
  BY <1>1
<1> HIDE DEF s
<1>4. /\ Rest(s) = Rest(r) /\ s.update = r.update
      /\ s.exchange = r.exchange /\ s.keys = k /\ s.normal = r.normal
  BY <1>3 DEF PeerRecords, Rest
<1> QED
  BY <1>1, <1>2, <1>4 DEF s

LEMMA NormalQueued ==
    ASSUME NEW r \in PeerRecords, NEW m \in Messages
    PROVE  LET s == Queue(r, m, "normal")
           IN  /\ s \in PeerRecords /\ Rest(s) = Rest(r) /\ s.update = r.update
               /\ s.exchange = r.exchange /\ s.keys = r.keys /\ s.normal = Append(r.normal, m)
<1> DEFINE s == Queue(r, m, "normal")
<1>1. "normal" \in Queues
  BY DEF Queues
<1>2. /\ s \in PeerRecords
      /\ s.status = r.status /\ s.update = r.update /\ s.resume = r.resume
      /\ s.exchange = r.exchange /\ s.keys = r.keys
      /\ s.deferred = r.deferred /\ s.condition = r.condition
      /\ s.normal = Append(r.normal, m) /\ s.delayed = r.delayed
  BY <1>1, QueueFields
<1> HIDE DEF s
<1>3. Rest(s) = Rest(r)
  BY <1>2 DEF Rest
<1> QED
  BY <1>2, <1>3 DEF s

\* The five turns of an update.
Requested(p, r, m, s) ==
    /\ p = Outbound /\ m.type = "BeginPrimaryUpdate" /\ r.update \in {"UpdateWait", "Suspended"}
    /\ r.exchange = None
    /\ s.update = "SecondaryExchange" /\ s.exchange = m.n
    /\ s.normal = Append(r.normal, Update("EndPrimaryUpdate", m.n))

Answered(p, r, m, s) ==
    /\ p = Inbound /\ m.type = "EndPrimaryUpdate" /\ r.update = "PrimaryExchange"
    /\ s.update = "SecondaryExchange" /\ s.exchange = r.exchange
    /\ s.normal = Append(r.normal, Update("BeginSecondaryUpdate", r.exchange))

Offered(p, r, m, s) ==
    /\ p = Outbound /\ m.type = "BeginSecondaryUpdate" /\ r.update = "SecondaryExchange"
    /\ s.update = "ReadyWait" /\ s.exchange = r.exchange
    /\ s.keys = ExchangeKeys(r.keys, "BeginSecondary", r.exchange)
    /\ s.normal = Append(r.normal, Update("EndSecondaryUpdate", r.exchange))

Replaced(p, r, m, s) ==
    /\ p = Inbound /\ m.type = "EndSecondaryUpdate" /\ r.update = "SecondaryExchange"
    /\ s.update = "UpdateWait" /\ s.exchange = None
    /\ s.keys = ExpireAllExceptLatest(ExchangeKeys(r.keys, "EndSecondary", r.exchange))
    /\ s.normal = Append(r.normal, Update("KeyUpdateReady", r.exchange))

Completed(p, r, m, s) ==
    /\ p = Outbound /\ m.type = "KeyUpdateReady" /\ r.update = "ReadyWait"
    /\ s.update = "UpdateWait" /\ s.exchange = None
    /\ s.keys = ExpireAllExceptLatest(ExchangeKeys(r.keys, "KeyUpdateReady", r.exchange))
    /\ s.normal = r.normal

UpdateTurn(p, r, m, s) ==
    /\ Rest(s) = Rest(r)
    /\ \/ Requested(p, r, m, s) \/ Answered(p, r, m, s) \/ Offered(p, r, m, s)
       \/ Replaced(p, r, m, s) \/ Completed(p, r, m, s)

LEMMA RequestTurn ==
    ASSUME NEW p, NEW r \in PeerRecords, NEW m \in Messages, m.type = "BeginPrimaryUpdate",
           BeginUpdateMessage(p, r, m).handled
    PROVE  UpdateTurn(p, r, m, BeginUpdateMessage(p, r, m).peer)
<1> DEFINE a == SetUpdateStatus(r, "PrimaryExchange")
           b == [a EXCEPT !.exchange = m.n]
           d == [b EXCEPT !.keys = ExchangeKeys(@, "BeginPrimary", m.n)]
           x == Update("EndPrimaryUpdate", m.n)
           q == Queue(d, x, "normal")
           e == SetUpdateStatus(q, "SecondaryExchange")
<1>1. p = Outbound /\ UpdateStatusAllowed(r, "PrimaryExchange") /\ r.exchange = None
  BY DEF BeginUpdateMessage, Unhandled
<1>2. r.update \in {"UpdateWait", "Suspended"}
  BY <1>1 DEF UpdateStatusAllowed, UpdateStep
<1>3. m.n \in Numbers
  BY DEF Messages
<1>4. a \in PeerRecords /\ Rest(a) = Rest(r) /\ a.update = "PrimaryExchange" /\ a.normal = r.normal
  BY UpdateStatusSet DEF UpdateStatuses
<1> HIDE DEF a
<1>5. /\ b \in PeerRecords /\ Rest(b) = Rest(r) /\ b.update = "PrimaryExchange"
      /\ b.exchange = m.n /\ b.normal = r.normal
  BY <1>3, <1>4 DEF PeerRecords, Rest
<1>6. d = [a EXCEPT !.exchange = m.n, !.keys = ExchangeKeys(@, "BeginPrimary", m.n)]
  BY <1>4 DEF PeerRecords
<1>7. BeginUpdateMessage(p, r, m).peer = e
  BY <1>1, <1>6 DEF BeginUpdateMessage, Done, a, Update
<1> HIDE DEF b
<1>8. /\ d \in PeerRecords /\ Rest(d) = Rest(r) /\ d.update = "PrimaryExchange"
      /\ d.exchange = m.n /\ d.normal = r.normal
  BY <1>3, <1>5, KeysSet
<1> HIDE DEF d
<1>9. x \in Messages
  BY <1>3, UpdateIs DEF UpdateTypes
<1> HIDE DEF x
<1>10. /\ q \in PeerRecords /\ Rest(q) = Rest(r) /\ q.update = "PrimaryExchange"
       /\ q.exchange = m.n /\ q.normal = Append(r.normal, x)
  BY <1>8, <1>9, NormalQueued
<1> HIDE DEF q
<1>11. /\ Rest(e) = Rest(r) /\ e.update = "SecondaryExchange"
       /\ e.exchange = m.n /\ e.normal = Append(r.normal, x)
  BY <1>10, UpdateStatusSet DEF UpdateStatuses
<1> HIDE DEF e
<1>12. Requested(p, r, m, e)
  BY <1>1, <1>2, <1>11 DEF Requested, x
<1> QED
  BY <1>7, <1>11, <1>12 DEF UpdateTurn

LEMMA UpdateStepsAre ==
    \A s \in UpdateSteps :
        \/ /\ s.side = Inbound /\ s.at = "PrimaryExchange" /\ s.type = "EndPrimaryUpdate"
           /\ s.reply = "BeginSecondaryUpdate" /\ s.next = "SecondaryExchange"
        \/ /\ s.side = Outbound /\ s.at = "SecondaryExchange" /\ s.type = "BeginSecondaryUpdate"
           /\ s.reply = "EndSecondaryUpdate" /\ s.next = "ReadyWait"
        \/ /\ s.side = Inbound /\ s.at = "SecondaryExchange" /\ s.type = "EndSecondaryUpdate"
           /\ s.reply = "KeyUpdateReady" /\ s.next = "ReadyWait"
        \/ /\ s.side = Outbound /\ s.at = "ReadyWait" /\ s.type = "KeyUpdateReady"
           /\ s.reply = None /\ s.next = "UpdateWait"
BY DEF UpdateSteps, Step

LEMMA UpdateTurns ==
    ASSUME NEW p, NEW r \in PeerRecords, NEW m \in Messages, KeyUpdateMessage(p, r, m).handled
    PROVE  IsUpdate(m) /\ UpdateTurn(p, r, m, KeyUpdateMessage(p, r, m).peer)
<1>1. CASE m.type = "BeginPrimaryUpdate"
  <2>1. KeyUpdateMessage(p, r, m) = BeginUpdateMessage(p, r, m)
    BY <1>1 DEF KeyUpdateMessage
  <2> QED
    BY <1>1, <2>1, RequestTurn DEF IsUpdate, UpdateTypes
<1>2. CASE m.type # "BeginPrimaryUpdate"
  <2> DEFINE steps == {s \in UpdateSteps : s.side = p /\ s.at = r.update /\ s.type = m.type}
             step  == CHOOSE s \in steps : TRUE
             keyed == [r EXCEPT !.keys = ExchangeKeys(@, Exchange(m.type), r.exchange)]
             x     == Msg(step.reply, r.exchange, None)
             sent  == IF step.reply = None THEN keyed ELSE Queue(keyed, x, "normal")
             next  == SetUpdateStatus(sent, step.next)
             last  == IF step.reply = "KeyUpdateReady" THEN SetUpdateStatus(next, "UpdateWait") ELSE next
  <2>1. steps # {} /\ KeyUpdateMessage(p, r, m).peer = last
    BY <1>2 DEF KeyUpdateMessage, Done, Unhandled
  <2>2. step \in steps
    BY <2>1
  <2>3. step \in UpdateSteps /\ step.side = p /\ step.at = r.update /\ step.type = m.type
    BY <2>2
  <2> HIDE DEF step, steps
  <2>4. r.exchange \in Numbers
    BY DEF PeerRecords
  <2>5. /\ keyed \in PeerRecords /\ Rest(keyed) = Rest(r) /\ keyed.update = r.update
        /\ keyed.exchange = r.exchange /\ keyed.normal = r.normal
        /\ keyed.keys = ExchangeKeys(r.keys, Exchange(m.type), r.exchange)
    BY <2>4, KeysSet
  <2> HIDE DEF keyed
  <2>6. None \notin UpdateTypes
    BY KnownTypes, RepliesAreKnown DEF UpdateTypes
  <2>7. ASSUME step.reply \in UpdateTypes
        PROVE  /\ sent \in PeerRecords /\ Rest(sent) = Rest(r) /\ sent.update = r.update
               /\ sent.exchange = r.exchange /\ sent.keys = keyed.keys
               /\ sent.normal = Append(r.normal, Update(step.reply, r.exchange))
    <3>1. sent = Queue(keyed, x, "normal")
      BY <2>6, <2>7
    <3>2. x = Update(step.reply, r.exchange) /\ x \in Messages
      BY <2>4, <2>7, UpdateIs DEF Update
    <3> HIDE DEF x, sent
    <3> QED
      <4>1. PICK y : y = Update(step.reply, r.exchange)
        OBVIOUS
      <4>2. y \in Messages /\ sent = Queue(keyed, y, "normal")
        BY <3>1, <3>2, <4>1
      <4>3. /\ Queue(keyed, y, "normal") \in PeerRecords
            /\ Rest(Queue(keyed, y, "normal")) = Rest(keyed)
            /\ Queue(keyed, y, "normal").update = keyed.update
            /\ Queue(keyed, y, "normal").exchange = keyed.exchange
            /\ Queue(keyed, y, "normal").keys = keyed.keys
            /\ Queue(keyed, y, "normal").normal = Append(keyed.normal, y)
        BY ONLY <2>5, <4>2, NormalQueued
      <4>4. /\ sent \in PeerRecords /\ Rest(sent) = Rest(keyed) /\ sent.update = keyed.update
            /\ sent.exchange = keyed.exchange /\ sent.keys = keyed.keys
            /\ sent.normal = Append(keyed.normal, y)
        BY ONLY <4>2, <4>3
      <4>5. /\ Rest(sent) = Rest(r) /\ sent.update = r.update
            /\ sent.exchange = r.exchange /\ sent.normal = Append(r.normal, y)
        BY ONLY <2>5, <4>4
      <4> QED
        BY ONLY <4>1, <4>4, <4>5
  <2>8. CASE step.type = "EndPrimaryUpdate"
    <3>1. /\ p = Inbound /\ r.update = "PrimaryExchange" /\ step.reply = "BeginSecondaryUpdate"
          /\ step.next = "SecondaryExchange"
      BY <2>3, <2>8, UpdateStepsAre
    <3>2. /\ sent \in PeerRecords /\ Rest(sent) = Rest(r) /\ sent.update = r.update
          /\ sent.exchange = r.exchange
          /\ sent.normal = Append(r.normal, Update("BeginSecondaryUpdate", r.exchange))
      BY <2>7, <3>1 DEF UpdateTypes
    <3> HIDE DEF sent
    <3>3. /\ Rest(next) = Rest(r) /\ next.update = "SecondaryExchange"
          /\ next.exchange = r.exchange
          /\ next.normal = Append(r.normal, Update("BeginSecondaryUpdate", r.exchange))
      BY <3>1, <3>2, UpdateStatusSet DEF UpdateStatuses
    <3> HIDE DEF next
    <3>4. last = next
      BY <3>1
    <3>5. Answered(p, r, m, next)
      BY <2>3, <2>8, <3>1, <3>3 DEF Answered
    <3> QED
      BY <2>1, <2>3, <2>8, <3>3, <3>4, <3>5 DEF UpdateTurn, IsUpdate, UpdateTypes
  <2>9. CASE step.type = "BeginSecondaryUpdate"
    <3>1. /\ p = Outbound /\ r.update = "SecondaryExchange" /\ step.reply = "EndSecondaryUpdate"
          /\ step.next = "ReadyWait" /\ Exchange(m.type) = "BeginSecondary"
      BY <2>3, <2>9, UpdateStepsAre DEF Exchange
    <3>2. /\ sent \in PeerRecords /\ Rest(sent) = Rest(r) /\ sent.update = r.update
          /\ sent.exchange = r.exchange
          /\ sent.keys = ExchangeKeys(r.keys, "BeginSecondary", r.exchange)
          /\ sent.normal = Append(r.normal, Update("EndSecondaryUpdate", r.exchange))
      BY <2>5, <2>7, <3>1 DEF UpdateTypes
    <3> HIDE DEF sent
    <3>3. /\ Rest(next) = Rest(r) /\ next.update = "ReadyWait" /\ next.exchange = r.exchange
          /\ next.keys = ExchangeKeys(r.keys, "BeginSecondary", r.exchange)
          /\ next.normal = Append(r.normal, Update("EndSecondaryUpdate", r.exchange))
      BY <3>1, <3>2, UpdateStatusSet DEF UpdateStatuses
    <3> HIDE DEF next
    <3>4. last = next
      BY <3>1
    <3>5. Offered(p, r, m, next)
      BY <2>3, <2>9, <3>1, <3>3 DEF Offered
    <3> QED
      BY <2>1, <2>3, <2>9, <3>3, <3>4, <3>5 DEF UpdateTurn, IsUpdate, UpdateTypes
  <2>10. CASE step.type = "EndSecondaryUpdate"
    <3>1. /\ p = Inbound /\ r.update = "SecondaryExchange" /\ step.reply = "KeyUpdateReady"
          /\ step.next = "ReadyWait" /\ Exchange(m.type) = "EndSecondary"
      BY <2>3, <2>10, UpdateStepsAre DEF Exchange
    <3>2. /\ sent \in PeerRecords /\ Rest(sent) = Rest(r) /\ sent.update = r.update
          /\ sent.keys = ExchangeKeys(r.keys, "EndSecondary", r.exchange)
          /\ sent.normal = Append(r.normal, Update("KeyUpdateReady", r.exchange))
      BY <2>5, <2>7, <3>1 DEF UpdateTypes
    <3> HIDE DEF sent
    <3>3. /\ next \in PeerRecords /\ Rest(next) = Rest(r) /\ next.update = "ReadyWait"
          /\ next.keys = ExchangeKeys(r.keys, "EndSecondary", r.exchange)
          /\ next.normal = Append(r.normal, Update("KeyUpdateReady", r.exchange))
      BY <3>1, <3>2, UpdateStatusSet DEF UpdateStatuses
    <3> HIDE DEF next
    <3>4. last = SetUpdateStatus(next, "UpdateWait")
      BY <3>1
    <3> HIDE DEF last
    <3>5. /\ Rest(last) = Rest(r) /\ last.update = "UpdateWait" /\ last.exchange = None
          /\ last.keys = ExpireAllExceptLatest(ExchangeKeys(r.keys, "EndSecondary", r.exchange))
          /\ last.normal = Append(r.normal, Update("KeyUpdateReady", r.exchange))
      BY <3>3, <3>4, UpdateStatusReleased
    <3>6. Replaced(p, r, m, last)
      BY <2>3, <2>10, <3>1, <3>5 DEF Replaced
    <3> QED
      BY <2>1, <2>3, <2>10, <3>5, <3>6 DEF UpdateTurn, IsUpdate, UpdateTypes
  <2>11. CASE step.type = "KeyUpdateReady"
    <3>1. /\ p = Outbound /\ r.update = "ReadyWait" /\ step.reply = None
          /\ step.next = "UpdateWait" /\ Exchange(m.type) = "KeyUpdateReady"
      BY <2>3, <2>11, UpdateStepsAre DEF Exchange
    <3>2. sent = keyed
      BY <3>1
    <3> HIDE DEF sent
    <3>3. next = SetUpdateStatus(keyed, "UpdateWait")
      BY <3>1, <3>2
    <3> HIDE DEF next
    <3>4. /\ Rest(next) = Rest(r) /\ next.update = "UpdateWait" /\ next.exchange = None
          /\ next.keys = ExpireAllExceptLatest(ExchangeKeys(r.keys, "KeyUpdateReady", r.exchange))
          /\ next.normal = r.normal
      BY <2>5, <3>1, <3>3, UpdateStatusReleased
    <3>5. last = next
      BY <2>6, <3>1 DEF UpdateTypes
    <3>6. Completed(p, r, m, next)
      BY <2>3, <2>11, <3>1, <3>4 DEF Completed
    <3> QED
      BY <2>1, <2>3, <2>11, <3>4, <3>5, <3>6 DEF UpdateTurn, IsUpdate, UpdateTypes
  <2> QED
    BY <2>3, <2>8, <2>9, <2>10, <2>11, UpdateStepsAre
<1> QED
  BY <1>1, <1>2

-----------------------------------------------------------------------------
(* What the turns of an update do to where the two ends stand.              *)

LEMMA FewTaken ==
    ASSUME NEW x \in Messages, NEW y \in Messages
    PROVE  /\ <<x>> # <<>> /\ Head(<<x>>) = x /\ Tail(<<x>>) = <<>>
           /\ <<x, y>> # <<>> /\ Head(<<x, y>>) = x /\ Tail(<<x, y>>) = <<y>>
<1>1. /\ <<x>> \in Seq(Messages) /\ <<x, y>> \in Seq(Messages) /\ <<y>> \in Seq(Messages)
      /\ <<>> \in Seq(Messages) /\ Len(<<>>) = 0
      /\ Len(<<x>>) = 1 /\ Len(<<y>>) = 1 /\ Len(<<x, y>>) = 2
      /\ <<x>>[1] = x /\ <<y>>[1] = y /\ <<x, y>>[1] = x /\ <<x, y>>[2] = y
  OBVIOUS
<1> DEFINE none == <<>>
           one == <<x>>
           oney == <<y>>
           two == <<x, y>>
<1>2. /\ one \in Seq(Messages) /\ two \in Seq(Messages) /\ oney \in Seq(Messages)
      /\ none \in Seq(Messages) /\ Len(none) = 0
      /\ Len(one) = 1 /\ Len(oney) = 1 /\ Len(two) = 2
      /\ one[1] = x /\ oney[1] = y /\ two[1] = x /\ two[2] = y
  BY <1>1
<1> HIDE DEF none, one, oney, two
<1>3. one # none /\ two # none
  BY <1>2
<1>4. none = <<>>
  BY DEF none
<1>5. /\ Head(one) = x /\ Tail(one) \in Seq(Messages) /\ Len(Tail(one)) = 0
  BY <1>2, <1>3, <1>4, HeadTailProperties
<1>6. /\ Head(two) = x /\ Tail(two) \in Seq(Messages) /\ Len(Tail(two)) = 1 /\ Tail(two)[1] = two[2]
  <2>1. /\ Head(two) = two[1] /\ Tail(two) \in Seq(Messages) /\ Len(Tail(two)) = Len(two) - 1
        /\ \A i \in 1 .. Len(Tail(two)) : Tail(two)[i] = two[i + 1]
    BY <1>2, <1>3, <1>4, TailOf
  <2>2. Len(Tail(two)) = 1
    BY <1>2, <2>1
  <2>3. 1 \in 1 .. Len(Tail(two)) /\ 1 + 1 = 2
    BY <2>2
  <2>4. Tail(two)[1] = two[2]
    BY <2>1, <2>3
  <2> QED
    BY <1>2, <2>1, <2>2, <2>4
<1>7. Tail(one) = none
  <2>1. Tail(one) \in Seq(Messages) /\ none \in Seq(Messages) /\ Len(Tail(one)) = Len(none)
    BY <1>2, <1>5
  <2>2. PICK t : t = Tail(one)
    OBVIOUS
  <2>3. \A i \in 1 .. Len(t) : t[i] = none[i]
    BY <1>5, <2>2
  <2>4. t = none
    BY ONLY <2>1, <2>2, <2>3, SeqEqual
  <2> QED
    BY <2>2, <2>4
<1>8. \A i \in 1 .. 1 : i = 1
  OBVIOUS
<1>9. Tail(two) = oney
  <2>1. PICK t : t = Tail(two)
    OBVIOUS
  <2>2. t \in Seq(Messages) /\ Len(t) = 1 /\ t[1] = oney[1]
    BY <1>2, <1>6, <2>1
  <2>3. \A i \in 1 .. Len(t) : t[i] = oney[i]
    BY <1>8, <2>2
  <2>4. Len(t) = Len(oney)
    BY <1>2, <2>2
  <2> QED
    BY <1>2, <2>1, <2>2, <2>3, <2>4, SeqEqual
<1> QED
  BY <1>3, <1>5, <1>6, <1>7, <1>9 DEF none, one, oney, two

LEMMA FlightEmpty ==
    ASSUME NEW d, NEW w, NEW q \in Seq(Messages), Flight(d, w, q, <<>>)
    PROVE  \A k \in 1 .. Len(q) : ~IsUpdate(q[k])
<1>1. PICK a, b, c \in Seq(Messages) :
        Bears(d, a) /\ Bears(Bodies(w), b) /\ Bears(q, c) /\ <<>> = (a \o b) \o c
  BY DEF Flight
<1>2. a \o b \in Seq(Messages)
  BY ConcatProperties
<1>3. PICK ab : ab = a \o b
  OBVIOUS
<1>4. Len(c) = 0
  <2>1. Len(<<>>) = 0
    OBVIOUS
  <2>2. Len(ab \o c) = Len(ab) + Len(c)
    BY <1>2, <1>3, ConcatProperties
  <2>3. ab \o c = <<>>
    BY <1>1, <1>3
  <2>4. Len(ab \o c) = 0
    BY <2>1, <2>3
  <2>5. Len(ab) \in Nat /\ Len(c) \in Nat
    BY <1>2, <1>3, LenProperties
  <2> QED
    BY <2>2, <2>4, <2>5
<1>5. PICK g \in [1 .. Len(c) -> 1 .. Len(q)] :
        \A k \in 1 .. Len(q) : IsUpdate(q[k]) => \E i \in 1 .. Len(c) : g[i] = k
  BY <1>1 DEF Bears
<1> QED
  BY <1>4, <1>5

LEMMA RecordReady ==
    ASSUME NEW p, NEW s, s.status = "Ready", s.update \notin {"Unknown", "Suspended"},
           \A i \in 1 .. Len(s.delayed) : ~IsUpdate(s.delayed[i])
    PROVE  KeyRecord(p, s)
BY DEF KeyRecord, NotReady, Handshaking

LEMMA ExchangesMake ==
    ASSUME NEW keys \in KeyLists, NEW n \in Numbers
    PROVE  /\ NewestKey(ExchangeKeys(keys, "BeginSecondary", n), Secondary(n), FALSE)
           /\ NewestKey(ExchangeKeys(keys, "EndSecondary", n), Secondary(n), TRUE)
           /\ \A type \in {"BeginAuthentication", "KeyUpdateReady"} :
                NewestKey(keys, Secondary(n), FALSE)
                  => NewestKey(ExchangeKeys(keys, type, n), Secondary(n), TRUE)
<1>1. /\ ExchangeKeys(keys, "BeginSecondary", n)
           = AddKeyPair(StartUsing(keys, Primary(n)), Secondary(n), FALSE)
      /\ ExchangeKeys(keys, "EndSecondary", n) = AddKeyPair(keys, Secondary(n), TRUE)
      /\ \A type \in {"BeginAuthentication", "KeyUpdateReady"} :
           ExchangeKeys(keys, type, n) = StartUsing(keys, Secondary(n))
  BY DEF ExchangeKeys
<1>2. StartUsing(keys, Primary(n)) \in KeyLists /\ Secondary(n) \in KeyNames
  BY StartUsingType, KeyNameTypes
<1>3. NewestKey(AddKeyPair(StartUsing(keys, Primary(n)), Secondary(n), FALSE), Secondary(n), FALSE)
  BY <1>2, NewestAdded
<1>4. NewestKey(AddKeyPair(keys, Secondary(n), TRUE), Secondary(n), TRUE)
  BY <1>2, NewestAdded
<1>5. NewestKey(keys, Secondary(n), FALSE) => NewestKey(StartUsing(keys, Secondary(n)), Secondary(n), TRUE)
  BY FirstUsed
<1> QED
  BY <1>1, <1>3, <1>4, <1>5

\* The update an end receives is the one its position makes it expect.
LEMMA UpdateMoves ==
    ASSUME NEW p \in Peers, NEW r \in PeerRecords, KeyRecord(p, r), r.condition = None, IsReady(r),
           NEW y, NEW m \in Messages, NEW s, UpdateTurn(p, r, m, s),
           NEW n \in Nat, NEW up, NEW uq, Standing(p, r, y, up, uq, n), up # <<>>, Head(up) = m,
           NEW dy, NEW wy, Flight(dy, wy, r.normal, uq)
    PROVE  /\ KeyRecord(p, s)
           /\ \E vq : Flight(dy, wy, s.normal, vq) /\ Standing(p, s, y, Tail(up), vq, n)
<1>1. /\ s.status = r.status /\ s.resume = r.resume /\ s.delayed = r.delayed
      /\ s.condition = r.condition
  BY DEF UpdateTurn, Rest
<1>2. /\ r.normal \in Seq(Messages) /\ r.keys \in KeyLists /\ r.exchange \in Numbers /\ n \in Numbers
      /\ \A i \in 1 .. Len(s.delayed) : ~IsUpdate(s.delayed[i])
      /\ r.status \notin NotReady /\ r.status \in {"Ready", "Suspended"}
  BY <1>1 DEF PeerRecords, KeyLists, Numbers, KeyRecord, IsReady, NotReady, Handshaking
<1>3. IsReady(s)
  BY <1>1 DEF IsReady
<1>4. \A type \in UpdateTypes : \A k \in Numbers :
         /\ Update(type, k) \in Messages /\ Update(type, k).type = type /\ Update(type, k).n = k
         /\ IsUpdate(Update(type, k))
  BY UpdateIs
<1>5. \A x \in Messages : /\ <<x>> # <<>> /\ Head(<<x>>) = x /\ Tail(<<x>>) = <<>>
                          /\ Append(<<>>, x) = <<x>>
  BY FewTaken, AppendToFew
<1>6. n > 0 => n - 1 \in Nat /\ n - 1 \in Numbers
  BY DEF Numbers
<1>7. n > 0 => LET x == Update("KeyUpdateReady", n - 1)
                   z == Update("BeginPrimaryUpdate", n)
               IN  Head(<<x, z>>) = x /\ Tail(<<x, z>>) = <<z>>
  BY <1>2, <1>4, <1>6, FewTaken DEF UpdateTypes
<1>8. ASSUME NEW type \in UpdateTypes, NEW k \in Numbers, s.normal = Append(r.normal, Update(type, k)),
             uq = <<>>
      PROVE  Flight(dy, wy, s.normal, <<Update(type, k)>>)
  <2>1. Flight(dy, wy, s.normal, Append(uq, Update(type, k)))
    <3>1. PICK x : x = Update(type, k)
      OBVIOUS
    <3>2. x \in Messages /\ IsUpdate(x) /\ s.normal = Append(r.normal, x)
      BY <1>4, <1>8, <3>1
    <3>3. PICK q : q = r.normal
      OBVIOUS
    <3>4. q \in Seq(Messages) /\ Flight(dy, wy, q, uq)
      BY <1>2, <3>3
    <3>5. Flight(dy, wy, Append(q, x), IF IsUpdate(x) THEN Append(uq, x) ELSE uq)
      BY <3>2, <3>4, FlightQueued
    <3> QED
      BY <3>1, <3>2, <3>3, <3>5
  <2> QED
    BY <1>4, <1>5, <1>8, <2>1
<1>9. CASE Requested(p, r, m, s)
  <2>1. p = Outbound /\ p # Inbound /\ m.type = "BeginPrimaryUpdate"
    BY <1>9 DEF Requested, Inbound, Outbound
  <2>2. Position(y, r, uq, up, n)
    BY <2>1 DEF Standing
  <2>3. /\ n > 0 /\ InStage(y, "PrimaryExchange", n) /\ AtRest(r, n - 1)
        /\ uq = <<>> /\ up = <<Update("BeginPrimaryUpdate", n)>>
    BY <1>2, <1>4, <1>5, <1>6, <1>7, <2>1, <2>2 DEF Position, UpdateTypes
  <2>4. m = Update("BeginPrimaryUpdate", n) /\ m.n = n /\ Tail(up) = <<>>
    BY <1>2, <1>4, <1>5, <2>3 DEF UpdateTypes
  <2>5. /\ s.update = "SecondaryExchange" /\ s.exchange = n
        /\ s.normal = Append(r.normal, Update("EndPrimaryUpdate", n))
        /\ r.update \in {"UpdateWait", "Suspended"}
    BY <1>9, <2>4 DEF Requested
  <2>6. Flight(dy, wy, s.normal, <<Update("EndPrimaryUpdate", n)>>)
    BY <1>2, <1>8, <2>3, <2>5 DEF UpdateTypes
  <2>7. InStage(s, "SecondaryExchange", n)
    BY <1>3, <2>5 DEF InStage, Effective
  <2>8. Position(y, s, <<Update("EndPrimaryUpdate", n)>>, Tail(up), n)
    BY <2>3, <2>4, <2>7 DEF Position
  <2>9. KeyRecord(p, s)
    <3>1. CASE r.status = "Ready"
      BY <1>1, <1>2, <2>5, <3>1, RecordReady
    <3>2. CASE r.status = "Suspended"
      <4>1. r.update = "Suspended" /\ r.resume \notin {"Unknown", "Suspended"}
        BY <2>5, <3>2 DEF KeyRecord, Begun
      <4>2. r.resume = "UpdateWait"
        BY <1>2, <2>3, <4>1 DEF AtRest, Effective
      <4>3. /\ Len(s.normal) = Len(r.normal) + 1 /\ Len(r.normal) \in Nat
            /\ s.normal[Len(r.normal) + 1] = Update("EndPrimaryUpdate", n)
        BY <1>2, <1>4, <2>5, AppendProperties, LenProperties DEF UpdateTypes
      <4>4. Update("EndPrimaryUpdate", n).type = "EndPrimaryUpdate"
        BY <1>2, <1>4 DEF UpdateTypes
      <4>5. \E i \in 1 .. Len(s.normal) : s.normal[i].type = "EndPrimaryUpdate"
        BY <4>3, <4>4
      <4>6. Begun(p, s)
        BY <1>1, <2>1, <2>5, <4>2, <4>5 DEF Begun
      <4> QED
        BY <1>1, <1>2, <2>5, <3>2, <4>1, <4>6 DEF KeyRecord, NotReady, Handshaking
    <3> QED
      BY <1>2, <3>1, <3>2
  <2> QED
    BY <2>1, <2>6, <2>8, <2>9 DEF Standing
<1>10. CASE Answered(p, r, m, s)
  <2>1. p = Inbound /\ m.type = "EndPrimaryUpdate" /\ r.update = "PrimaryExchange"
    BY <1>10 DEF Answered
  <2>2. Position(r, y, up, uq, n)
    BY <2>1 DEF Standing
  <2>3. /\ InStage(r, "PrimaryExchange", n) /\ InStage(y, "SecondaryExchange", n)
        /\ up = <<Update("EndPrimaryUpdate", n)>> /\ uq = <<>>
    BY <1>2, <1>4, <1>5, <2>1, <2>2 DEF Position, UpdateTypes
  <2>4. r.exchange = n /\ Tail(up) = <<>>
    BY <1>2, <1>4, <1>5, <2>3 DEF UpdateTypes, InStage
  <2>5. /\ s.update = "SecondaryExchange" /\ s.exchange = n
        /\ s.normal = Append(r.normal, Update("BeginSecondaryUpdate", n))
    BY <1>10, <2>4 DEF Answered
  <2>6. Flight(dy, wy, s.normal, <<Update("BeginSecondaryUpdate", n)>>)
    BY <1>2, <1>8, <2>3, <2>5 DEF UpdateTypes
  <2>7. InStage(s, "SecondaryExchange", n)
    BY <1>3, <2>5 DEF InStage, Effective
  <2>8. Position(s, y, Tail(up), <<Update("BeginSecondaryUpdate", n)>>, n)
    BY <2>3, <2>4, <2>7 DEF Position
  <2>9. r.status = "Ready"
    BY <1>2, <2>1 DEF KeyRecord, Begun, Inbound, Outbound
  <2>10. KeyRecord(p, s)
    BY <1>1, <1>2, <2>5, <2>9, RecordReady
  <2> QED
    BY <2>1, <2>6, <2>8, <2>10 DEF Standing
<1>11. CASE Offered(p, r, m, s)
  <2>1. /\ p = Outbound /\ p # Inbound /\ m.type = "BeginSecondaryUpdate"
        /\ r.update = "SecondaryExchange"
    BY <1>11 DEF Offered, Inbound, Outbound
  <2>2. Position(y, r, uq, up, n)
    BY <2>1 DEF Standing
  <2>3. /\ InStage(y, "SecondaryExchange", n) /\ InStage(r, "SecondaryExchange", n)
        /\ uq = <<>> /\ up = <<Update("BeginSecondaryUpdate", n)>>
    BY <1>2, <1>4, <1>5, <1>6, <1>7, <2>1, <2>2 DEF Position, UpdateTypes
  <2>4. r.exchange = n /\ Tail(up) = <<>>
    BY <1>2, <1>4, <1>5, <2>3 DEF UpdateTypes, InStage
  <2>5. /\ s.update = "ReadyWait" /\ s.exchange = n
        /\ s.keys = ExchangeKeys(r.keys, "BeginSecondary", n)
        /\ s.normal = Append(r.normal, Update("EndSecondaryUpdate", n))
    BY <1>11, <2>4 DEF Offered
  <2>6. Flight(dy, wy, s.normal, <<Update("EndSecondaryUpdate", n)>>)
    BY <1>2, <1>8, <2>3, <2>5 DEF UpdateTypes
  <2>7. Waits(s, n)
    BY <1>2, <1>3, <2>5, ExchangesMake DEF Waits, InStage, Effective
  <2>8. Position(y, s, <<Update("EndSecondaryUpdate", n)>>, Tail(up), n)
    BY <2>3, <2>4, <2>7 DEF Position
  <2>9. r.status = "Ready"
    <3>1. ~Begun(p, r)
      <4>1. \A k \in 1 .. Len(r.normal) : ~IsUpdate(r.normal[k])
        BY <1>2, <2>3, FlightEmpty
      <4> QED
        BY <4>1 DEF Begun, IsUpdate, UpdateTypes
    <3> QED
      BY <1>2, <2>1, <3>1 DEF KeyRecord
  <2>10. KeyRecord(p, s)
    BY <1>1, <1>2, <2>5, <2>9, RecordReady
  <2> QED
    BY <2>1, <2>6, <2>8, <2>10 DEF Standing
<1>12. CASE Replaced(p, r, m, s)
  <2>1. p = Inbound /\ m.type = "EndSecondaryUpdate" /\ r.update = "SecondaryExchange"
    BY <1>12 DEF Replaced
  <2>2. Position(r, y, up, uq, n)
    BY <2>1 DEF Standing
  <2>3. /\ InStage(r, "SecondaryExchange", n) /\ Waits(y, n)
        /\ up = <<Update("EndSecondaryUpdate", n)>> /\ uq = <<>>
    BY <1>2, <1>4, <1>5, <2>1, <2>2 DEF Position, UpdateTypes
  <2>4. r.exchange = n /\ Tail(up) = <<>>
    BY <1>2, <1>4, <1>5, <2>3 DEF UpdateTypes, InStage
  <2>5. /\ s.update = "UpdateWait" /\ s.exchange = None
        /\ s.keys = ExpireAllExceptLatest(ExchangeKeys(r.keys, "EndSecondary", n))
        /\ s.normal = Append(r.normal, Update("KeyUpdateReady", n))
    BY <1>12, <2>4 DEF Replaced
  <2>6. Flight(dy, wy, s.normal, <<Update("KeyUpdateReady", n)>>)
    BY <1>2, <1>8, <2>3, <2>5 DEF UpdateTypes
  <2>7. AtRest(s, n)
    <3>1. NewestKey(ExchangeKeys(r.keys, "EndSecondary", n), Secondary(n), TRUE)
          /\ ExchangeKeys(r.keys, "EndSecondary", n) \in KeyLists
      BY <1>2, ExchangesMake, ExchangeKeysType
    <3>2. NewestKey(s.keys, Secondary(n), TRUE)
      <4>1. PICK k, name : k = ExchangeKeys(r.keys, "EndSecondary", n) /\ name = Secondary(n)
        OBVIOUS
      <4>2. k \in KeyLists /\ NewestKey(k, name, TRUE)
        BY <3>1, <4>1
      <4>3. NewestKey(ExpireAllExceptLatest(k), name, TRUE)
        BY <4>2, FirstStays
      <4> QED
        BY <2>5, <4>1, <4>3
    <3> QED
      BY <1>3, <2>5, <3>2 DEF AtRest, Effective
  <2>8. Position(s, y, Tail(up), <<Update("KeyUpdateReady", n)>>, n)
    BY <2>3, <2>4, <2>7 DEF Position
  <2>9. r.status = "Ready"
    BY <1>2, <2>1 DEF KeyRecord, Begun, Inbound, Outbound
  <2>10. KeyRecord(p, s)
    BY <1>1, <1>2, <2>5, <2>9, RecordReady
  <2> QED
    BY <2>1, <2>6, <2>8, <2>10 DEF Standing
<1>13. CASE Completed(p, r, m, s)
  <2>1. p = Outbound /\ p # Inbound /\ m.type = "KeyUpdateReady" /\ r.update = "ReadyWait"
    BY <1>13 DEF Completed, Inbound, Outbound
  <2>2. Position(y, r, uq, up, n)
    BY <2>1 DEF Standing
  <2>3. /\ s.update = "UpdateWait" /\ s.exchange = None /\ s.normal = r.normal
        /\ s.keys = ExpireAllExceptLatest(ExchangeKeys(r.keys, "KeyUpdateReady", r.exchange))
    BY <1>13 DEF Completed
  <2>4. ASSUME NEW k \in Numbers, Waits(r, k)
        PROVE  AtRest(s, k)
    <3>1. r.exchange = k /\ NewestKey(r.keys, Secondary(k), FALSE)
      BY <2>4 DEF Waits, InStage
    <3>2. NewestKey(ExchangeKeys(r.keys, "KeyUpdateReady", k), Secondary(k), TRUE)
          /\ ExchangeKeys(r.keys, "KeyUpdateReady", k) \in KeyLists
      BY <1>2, <3>1, ExchangesMake, ExchangeKeysType
    <3>3. NewestKey(s.keys, Secondary(k), TRUE)
      <4>1. PICK e, name : e = ExchangeKeys(r.keys, "KeyUpdateReady", k) /\ name = Secondary(k)
        OBVIOUS
      <4>2. e \in KeyLists /\ NewestKey(e, name, TRUE)
        BY <3>2, <4>1
      <4>3. NewestKey(ExpireAllExceptLatest(e), name, TRUE)
        BY <4>2, FirstStays
      <4> QED
        BY <2>3, <3>1, <4>1, <4>3
    <3> QED
      BY <1>3, <2>3, <3>3 DEF AtRest, Effective
  <2>5. \/ AtRest(y, n) /\ Waits(r, n) /\ uq = <<>> /\ up = <<Update("KeyUpdateReady", n)>>
        \/ /\ n > 0 /\ InStage(y, "PrimaryExchange", n) /\ Waits(r, n - 1)
           /\ uq = <<>> /\ up = <<Update("KeyUpdateReady", n - 1), Update("BeginPrimaryUpdate", n)>>
    BY <1>2, <1>4, <1>5, <2>1, <2>2 DEF Position, UpdateTypes
  <2>6. Position(y, s, uq, Tail(up), n)
    <3>1. CASE AtRest(y, n) /\ Waits(r, n) /\ uq = <<>> /\ up = <<Update("KeyUpdateReady", n)>>
      <4>1. AtRest(s, n) /\ Tail(up) = <<>>
        BY <1>2, <1>4, <1>5, <2>4, <3>1 DEF UpdateTypes
      <4> QED
        BY <3>1, <4>1 DEF Position
    <3>2. CASE /\ n > 0 /\ InStage(y, "PrimaryExchange", n) /\ Waits(r, n - 1)
               /\ uq = <<>> /\ up = <<Update("KeyUpdateReady", n - 1), Update("BeginPrimaryUpdate", n)>>
      <4>1. AtRest(s, n - 1) /\ Tail(up) = <<Update("BeginPrimaryUpdate", n)>>
        BY <1>6, <1>7, <2>4, <3>2
      <4> QED
        BY <3>2, <4>1 DEF Position
    <3> QED
      BY <2>5, <3>1, <3>2
  <2>7. r.status = "Ready"
    BY <1>2, <2>1 DEF KeyRecord, Begun
  <2>8. KeyRecord(p, s)
    BY <1>1, <1>2, <2>3, <2>7, RecordReady
  <2>9. Flight(dy, wy, s.normal, uq)
    BY <2>3
  <2> QED
    BY <2>1, <2>6, <2>8, <2>9 DEF Standing
<1> QED
  BY <1>9, <1>10, <1>11, <1>12, <1>13 DEF UpdateTurn

-----------------------------------------------------------------------------
(* The messages of the handshake, and those that are no update.             *)

LEMMA HandshakeStepKeys ==
    \A s \in HandshakeSteps :
        /\ s.type \notin UpdateTypes
        /\ s.reply \in EarlyReplies \cup SessionTypes \cup {"EndAuthentication", None}
        /\ \/ s.next \in NotReady \ {"Authentication", "SessionInit"}
           \/ /\ s.next = "Authentication"
              /\ s.type = IF s.side = Inbound THEN "EndSecondary" ELSE "BeginSecondary"
           \/ /\ s.next = "SessionInit" /\ s.at = "Authentication"
              /\ s.type = IF s.side = Inbound THEN "EndAuthentication" ELSE "BeginAuthentication"
           \/ s.next = "Ready" /\ s.at = "SessionInit" /\ s.type \in SessionTypes
BY DEF HandshakeSteps, Step, NotReady, Handshaking, EarlyReplies, SessionTypes, UpdateTypes,
       Inbound, Outbound

\* The answer to a message of the handshake leaves the keys alone and is no update.
LEMMA ReplyKeys ==
    ASSUME NEW p \in Peers, NEW r \in PeerRecords, NEW c \in CounterStarts, extenders \in [Peers -> Nat],
           NEW type \in EarlyReplies \cup SessionTypes \cup {"EndAuthentication", None}
    PROVE  LET s == Reply(p, r, type, c)
           IN  /\ s \in PeerRecords /\ Core(s) = Core(r)
               /\ s.deferred = r.deferred /\ s.condition = r.condition
               /\ GrowsPlainly(r.normal, s.normal) /\ GrowsPlainly(r.delayed, s.delayed)
<1> DEFINE s == Reply(p, r, type, c)
<1>1. CASE type = None
  <2>1. s = r
    BY <1>1 DEF Reply
  <2> QED
    BY <2>1 DEF GrowsPlainly
<1>2. CASE type \in SessionTypes
  <2> DEFINE a == [r EXCEPT !.localCounter = c]
             m == Msg(type, extenders[p], NextCounter(c))
  <2>1. type \in Types /\ c \in Counters /\ extenders[p] \in Numbers /\ None \notin Types
    BY <1>2, RepliesAreKnown DEF Counters, Numbers, SessionTypes
  <2>2. NextCounter(c) \in Counters
    BY <2>1, NextCounterType
  <2>3. m \in Messages /\ ~IsUpdate(m)
    <3>1. m \in Messages /\ m.type = type
      BY <2>1, <2>2, MessageType, ZenonT(60)
    <3> QED
      BY <1>2, <3>1 DEF IsUpdate, UpdateTypes, SessionTypes
  <2>4. s = Queue(a, m, "normal")
    BY <1>2, <2>1 DEF Reply, SessionTypes
  <2>5. /\ a \in PeerRecords /\ Core(a) = Core(r) /\ a.deferred = r.deferred
        /\ a.condition = r.condition /\ a.normal = r.normal /\ a.delayed = r.delayed
    BY <2>1 DEF PeerRecords, Core
  <2> HIDE DEF a, m, s
  <2>6. "normal" \in Queues
    BY DEF Queues
  <2>7. s \in PeerRecords
    BY <2>3, <2>4, <2>5, <2>6, QueueFields
  <2>8. /\ Core(s) = Core(a) /\ s.deferred = a.deferred /\ s.condition = a.condition
        /\ GrowsPlainly(a.normal, s.normal) /\ GrowsPlainly(a.delayed, s.delayed)
    BY <2>3, <2>4, <2>5, <2>6, QueuePlain
  <2> QED
    BY <2>5, <2>7, <2>8 DEF s
<1>3. CASE type \in EarlyReplies \cup {"EndAuthentication"}
  <2> DEFINE m == Msg(type, 0, None)
  <2>1. type \in Types /\ 0 \in Numbers /\ None \in Counters /\ None \notin Types
    BY <1>3, RepliesAreKnown DEF Counters, Numbers, EarlyReplies
  <2>2. m \in Messages /\ ~IsUpdate(m)
    <3>1. m \in Messages /\ m.type = type
      BY <2>1, MessageType
    <3> QED
      BY <1>3, <3>1 DEF IsUpdate, UpdateTypes, EarlyReplies
  <2>3. s = Queue(r, m, "delayed")
    BY <1>3, <2>1 DEF Reply, EarlyReplies
  <2> HIDE DEF m, s
  <2>4. "delayed" \in Queues
    BY DEF Queues
  <2>5. s \in PeerRecords
    BY <2>2, <2>3, <2>4, QueueFields
  <2>6. /\ Core(s) = Core(r) /\ s.deferred = r.deferred /\ s.condition = r.condition
        /\ GrowsPlainly(r.normal, s.normal) /\ GrowsPlainly(r.delayed, s.delayed)
    BY <2>2, <2>3, <2>4, QueuePlain
  <2> QED
    BY <2>5, <2>6 DEF s
<1> QED
  BY <1>1, <1>2, <1>3

LEMMA EnterReadyKeys ==
    ASSUME NEW r \in PeerRecords, r.update = "Unknown"
    PROVE  LET s == EnterReady(r)
           IN  /\ s.status = "Ready" /\ s.update = "UpdateWait" /\ s.exchange = None
               /\ s.keys = ExpireAllExceptLatest(r.keys)
               /\ s.deferred = r.deferred /\ s.condition = r.condition
               /\ s.normal = r.normal /\ s.delayed = r.delayed
<1> DEFINE a == [r EXCEPT !.status = "Ready"]
           b == ReleaseKeyExchange(a)
           s == SetUpdateStatus(b, "UpdateWait")
<1>1. /\ a \in PeerRecords /\ a.status = "Ready" /\ a.update = "Unknown" /\ a.keys = r.keys
      /\ a.deferred = r.deferred /\ a.condition = r.condition
      /\ a.normal = r.normal /\ a.delayed = r.delayed
  BY StatusSet DEF PeerRecords
<1>2. EnterReady(r) = s
  BY DEF EnterReady
<1> HIDE DEF a
<1>3. /\ b \in PeerRecords /\ Rest(b) = Rest(a) /\ b.update = "Unknown" /\ b.exchange = None
      /\ b.keys = ExpireAllExceptLatest(r.keys) /\ b.normal = r.normal
  BY <1>1, ReleaseKeys
<1> HIDE DEF b
<1>4. /\ Rest(s) = Rest(b) /\ s.update = "UpdateWait" /\ s.exchange = None
      /\ s.keys = ExpireAllExceptLatest(r.keys) /\ s.normal = r.normal
  BY <1>3, UpdateStatusSet DEF UpdateStatuses
<1> HIDE DEF s
<1> QED
  BY <1>1, <1>2, <1>3, <1>4 DEF Rest

\* The record after a message that is no update.
Steady(p, r, s) ==
    /\ KeyRecord(p, s) /\ Alike(r, s) /\ s.deferred = r.deferred
    /\ GrowsPlainly(r.normal, s.normal)

LEMMA HandshakeKeys ==
    ASSUME NEW p \in Peers, NEW r \in PeerRecords, r.status \in NotReady, r.condition = None,
           KeyRecord(p, r), NEW m \in Messages, NEW c \in CounterStarts, extenders \in [Peers -> Nat],
           HandshakeMessage(p, r, m, c).handled, HandshakeMessage(p, r, m, c).peer.condition = None
    PROVE  ~IsUpdate(m) /\ Steady(p, r, HandshakeMessage(p, r, m, c).peer)
<1> DEFINE steps == {s \in HandshakeSteps : s.side = p /\ s.at = r.status /\ s.type = m.type}
           step  == CHOOSE s \in steps : TRUE
           k     == ExchangeKeys(r.keys, m.type, 0)
           seen  == IF m.type \in {"BeginSessionInit", "EndSessionInit"}
                    THEN [r EXCEPT !.peerCounter = m.counter, !.peerExtenders = m.n]
                    ELSE [r EXCEPT !.keys = ExchangeKeys(@, m.type, 0)]
           t == Reply(p, seen, step.reply, c)
           s == Enter(t, step.next)
<1>1. steps # {}
  BY DEF HandshakeMessage, Unhandled
<1>2. HandshakeMessage(p, r, m, c).peer = s
  <2>1. CASE m.type \in {"BeginAuthentication", "EndAuthentication"} /\ ~r.accepts
    <3>1. HandshakeMessage(p, r, m, c).peer = Condemn(r, "PeerNotAllowed")
      BY <1>1, <2>1 DEF HandshakeMessage, Done
    <3> QED
      BY <3>1, CondemnFields DEF Conditions
  <2>2. CASE ~(m.type \in {"BeginAuthentication", "EndAuthentication"} /\ ~r.accepts)
    BY <1>1, <2>2 DEF HandshakeMessage, Done
  <2> QED
    BY <2>1, <2>2
<1>3. step \in HandshakeSteps /\ step.side = p /\ step.at = r.status /\ step.type = m.type
  BY <1>1
<1> HIDE DEF step, steps
<1>4. ~IsUpdate(m)
  BY <1>3, HandshakeStepKeys DEF IsUpdate
<1>5. r.keys \in KeyLists /\ 0 \in Numbers /\ m.n \in Numbers /\ m.counter \in Counters
  BY DEF PeerRecords, KeyLists, Numbers, Messages
<1>6. /\ seen \in PeerRecords /\ seen.status = r.status /\ seen.update = r.update
      /\ seen.normal = r.normal /\ seen.delayed = r.delayed /\ seen.deferred = r.deferred
      /\ seen.condition = r.condition
      /\ m.type \in SessionTypes => seen.keys = r.keys
      /\ m.type \notin SessionTypes => seen.keys = k
  <2>1. CASE m.type \in SessionTypes
    <3>1. seen = [r EXCEPT !.peerCounter = m.counter, !.peerExtenders = m.n]
      BY <2>1 DEF SessionTypes
    <3> HIDE DEF seen
    <3> QED
      BY <1>5, <2>1, <3>1 DEF PeerRecords
  <2>2. CASE m.type \notin SessionTypes
    <3>1. seen = [r EXCEPT !.keys = ExchangeKeys(@, m.type, 0)]
      BY <2>2 DEF SessionTypes
    <3> HIDE DEF seen
    <3> QED
      BY <1>5, <2>2, <3>1, KeysSet DEF Rest
  <2> QED
    BY <2>1, <2>2
<1> HIDE DEF seen
<1>7. step.reply \in EarlyReplies \cup SessionTypes \cup {"EndAuthentication", None}
  BY <1>3, HandshakeStepKeys
<1>8. /\ t \in PeerRecords /\ Core(t) = Core(seen)
      /\ t.deferred = r.deferred /\ t.condition = None
      /\ GrowsPlainly(r.normal, t.normal) /\ GrowsPlainly(r.delayed, t.delayed)
  BY <1>6, <1>7, ReplyKeys
<1> HIDE DEF t
<1>9. t.status = r.status /\ t.update = "Unknown" /\ t.keys = seen.keys
  BY <1>6, <1>8 DEF Core, KeyRecord
<1>10. \A i \in 1 .. Len(t.delayed) : ~IsUpdate(t.delayed[i])
  <2>1. r.delayed \in Seq(Messages) /\ \A i \in 1 .. Len(r.delayed) : ~IsUpdate(r.delayed[i])
    BY DEF PeerRecords, KeyRecord
  <2> QED
    BY <1>8, <2>1, PlainStays
<1>11. CASE step.next = "Ready"
  <2>1. r.status = "SessionInit" /\ m.type \in SessionTypes
    BY <1>3, <1>11, HandshakeStepKeys DEF NotReady, Handshaking
  <2>2. NewestKey(t.keys, Secondary(0), TRUE) /\ t.keys \in KeyLists
    BY <1>5, <1>6, <1>9, <2>1 DEF KeyRecord
  <2>3. s = EnterReady(t)
    BY <1>11 DEF Enter
  <2> HIDE DEF s
  <2>4. /\ s.status = "Ready" /\ s.update = "UpdateWait" /\ s.exchange = None
        /\ s.keys = ExpireAllExceptLatest(t.keys)
        /\ s.deferred = t.deferred /\ s.condition = t.condition
        /\ s.normal = t.normal /\ s.delayed = t.delayed
    BY <1>8, <1>9, <2>3, EnterReadyKeys
  <2>5. NewestKey(s.keys, Secondary(0), TRUE)
    <3>1. PICK x, name : x = t.keys /\ name = Secondary(0)
      OBVIOUS
    <3>2. NewestKey(ExpireAllExceptLatest(x), name, TRUE)
      BY <2>2, <3>1, FirstStays
    <3> QED
      BY <2>4, <3>1, <3>2
  <2>6. KeyRecord(p, s)
    BY <1>10, <2>4, RecordReady
  <2>7. Alike(r, s)
    <3>1. IsReady(s) /\ Effective(s) = "UpdateWait"
      BY <2>4 DEF IsReady, Effective
    <3>2. AtRest(s, 0)
      BY <2>4, <2>5, <3>1 DEF AtRest
    <3>3. ~IsReady(r)
      BY <2>1 DEF IsReady
    <3> QED
      BY <3>2, <3>3 DEF Alike, AtRest, Waits, InStage
  <2> QED
    BY <1>2, <1>4, <1>8, <2>4, <2>6, <2>7 DEF Steady
<1>12. CASE step.next # "Ready"
  <2>1. s = [t EXCEPT !.status = step.next]
    BY <1>12 DEF Enter
  <2>2. step.next \in NotReady
    BY <1>3, <1>12, HandshakeStepKeys DEF NotReady, Handshaking
  <2> HIDE DEF s
  <2>3. /\ s.status = step.next /\ s.update = "Unknown" /\ s.keys = t.keys
        /\ s.deferred = t.deferred /\ s.normal = t.normal /\ s.delayed = t.delayed
    BY <1>8, <1>9, <2>1 DEF PeerRecords
  <2>4. /\ NewestKey(ExchangeKeys(r.keys, "BeginSecondary", 0), Secondary(0), FALSE)
        /\ NewestKey(ExchangeKeys(r.keys, "EndSecondary", 0), Secondary(0), TRUE)
        /\ NewestKey(r.keys, Secondary(0), FALSE)
             => NewestKey(ExchangeKeys(r.keys, "BeginAuthentication", 0), Secondary(0), TRUE)
    BY <1>5, ExchangesMake
  <2>5. ASSUME step.next = "Authentication"
        PROVE  IF p = Inbound THEN NewestKey(s.keys, Secondary(0), TRUE)
               ELSE NewestKey(s.keys, Secondary(0), FALSE)
    <3>1. m.type = IF p = Inbound THEN "EndSecondary" ELSE "BeginSecondary"
      BY <1>3, <2>5, HandshakeStepKeys
    <3>2. s.keys = k
      BY <1>6, <1>9, <2>3, <3>1 DEF SessionTypes
    <3> QED
      BY <2>4, <3>1, <3>2
  <2>6. ASSUME step.next = "SessionInit"
        PROVE  NewestKey(s.keys, Secondary(0), TRUE)
    <3>1. /\ m.type = IF p = Inbound THEN "EndAuthentication" ELSE "BeginAuthentication"
          /\ r.status = "Authentication"
      BY <1>3, <2>6, HandshakeStepKeys
    <3>2. s.keys = k
      BY <1>6, <1>9, <2>3, <3>1 DEF SessionTypes
    <3>3. CASE p = Inbound
      <4>1. k = r.keys
        BY <3>1, <3>3 DEF ExchangeKeys
      <4> QED
        BY <3>1, <3>2, <3>3, <4>1 DEF KeyRecord
    <3>4. CASE p # Inbound
      <4>1. NewestKey(r.keys, Secondary(0), FALSE)
        BY <3>1, <3>4 DEF KeyRecord
      <4> QED
        BY <2>4, <3>1, <3>2, <3>4, <4>1
    <3> QED
      BY <3>3, <3>4
  <2>7. KeyRecord(p, s)
    <3>1. s.status \notin {"Ready", "Suspended", "Disconnected"}
      BY <2>2, <2>3, StatusNames
    <3> QED
      BY <1>10, <2>3, <2>5, <2>6, <3>1 DEF KeyRecord
  <2>8. Alike(r, s)
    BY <2>2, <2>3, NotReadyIsAlike
  <2> QED
    BY <1>2, <1>4, <1>8, <2>3, <2>7, <2>8 DEF Steady
<1> QED
  BY <1>11, <1>12

LEMMA ReadyKeys ==
    ASSUME NEW p \in Peers, NEW r \in PeerRecords, IsReady(r), r.condition = None,
           KeyRecord(p, r), NEW m \in Messages, NEW late, ReadyMessage(p, r, m, late).handled \/ ReadyMessage(p, r, m, late).peer = r
    PROVE  LET s == ReadyMessage(p, r, m, late).peer
           IN  \/ ~IsUpdate(m) /\ Steady(p, r, s)
               \/ ~IsUpdate(m) /\ ~ReadyMessage(p, r, m, late).handled
               \/ IsUpdate(m) /\ (ReadyMessage(p, r, m, late).handled => UpdateTurn(p, r, m, s))
<1> DEFINE s == ReadyMessage(p, r, m, late).peer
<1>1. ASSUME NEW t, Core(t) = Core(r), t.normal = r.normal, t.delayed = r.delayed,
             t.deferred = r.deferred
      PROVE  Steady(p, r, t)
  <2>1. GrowsPlainly(r.normal, t.normal) /\ GrowsPlainly(r.delayed, t.delayed)
    BY <1>1 DEF GrowsPlainly
  <2> QED
    BY <1>1, <2>1, RecordStays, CoreIsAlike DEF Steady
<1>2. CASE m.type = "ExtenderCommunication"
  <2>1. ~IsUpdate(m)
    BY <1>2 DEF IsUpdate, UpdateTypes
  <2>2. CASE r.status = "Ready" /\ Has(r.peerExtenders) /\ Has(extenders[p])
    <3>1. s = [r EXCEPT !.held = @ + 1]
      BY <1>2, <2>2 DEF ReadyMessage, ExtenderMessage, Done
    <3> HIDE DEF s
    <3>2. Core(s) = Core(r) /\ s.normal = r.normal /\ s.delayed = r.delayed /\ s.deferred = r.deferred
      BY <3>1 DEF PeerRecords, Core
    <3>3. Steady(p, r, s)
      BY <1>1, <3>2
    <3> QED
      BY <2>1, <3>3 DEF s
  <2>3. CASE r.status # "Ready" \/ ~Has(r.peerExtenders) \/ ~Has(extenders[p])
    <3>1. s = r
      BY <1>2, <2>3 DEF ReadyMessage, ExtenderMessage, Unhandled, Failed
    <3> QED
      BY <1>1, <2>1, <3>1
  <2> QED
    BY <2>2, <2>3
<1>3. CASE m.type = "ExtenderUpdate"
  <2>1. ~IsUpdate(m)
    BY <1>3 DEF IsUpdate, UpdateTypes
  <2>2. CASE r.status = "Ready"
    <3>1. s = [r EXCEPT !.peerExtenders = m.n]
      BY <1>3, <2>2 DEF ReadyMessage, Done
    <3> HIDE DEF s
    <3>2. Core(s) = Core(r) /\ s.normal = r.normal /\ s.delayed = r.delayed /\ s.deferred = r.deferred
      BY <3>1 DEF PeerRecords, Core
    <3>3. Steady(p, r, s)
      BY <1>1, <3>2
    <3> QED
      BY <2>1, <3>3 DEF s
  <2>3. CASE r.status # "Ready"
    <3>1. s = r
      BY <1>3, <2>3 DEF ReadyMessage, Failed
    <3> QED
      BY <1>1, <2>1, <3>1
  <2> QED
    BY <2>2, <2>3
<1>4. CASE m.type \notin {"ExtenderCommunication", "ExtenderUpdate"}
  <2>1. ReadyMessage(p, r, m, late) = KeyUpdateMessage(p, r, m)
    BY <1>4 DEF ReadyMessage
  <2>2. CASE KeyUpdateMessage(p, r, m).handled
    BY <2>1, <2>2, UpdateTurns
  <2>3. CASE ~KeyUpdateMessage(p, r, m).handled
    BY <2>1, <2>3
  <2> QED
    BY <2>2, <2>3
<1> QED
  BY <1>2, <1>3, <1>4

\* A message either leaves the end where it stands, or is the next turn of an update, or ends the
\* session.
LEMMA ProcessKeys ==
    ASSUME NEW p \in Peers, NEW r \in PeerRecords, r.status # "Disconnected", r.condition = None,
           KeyRecord(p, r), NEW m \in Messages, HasRoom(r, m), NEW c \in CounterStarts, NEW late,
           extenders \in [Peers -> Nat], ProcessMessage(p, r, m, c, late).condition = None
    PROVE  LET s == ProcessMessage(p, r, m, c, late)
           IN  \/ ~IsUpdate(m) /\ Steady(p, r, s)
               \/ IsUpdate(m) /\ IsReady(r) /\ UpdateTurn(p, r, m, s)
<1> DEFINE s == ProcessMessage(p, r, m, c, late)
           why == "ReceiveError"
<1>1. ASSUME NEW t \in PeerRecords, s = Condemn(t, why)
      PROVE  FALSE
  BY <1>1, CondemnFields DEF Conditions
<1>2. CASE IsReady(r)
  <2> DEFINE result == ReadyMessage(p, r, m, late)
  <2>1. r.status \in {"Ready", "Suspended"} /\ r.status \notin NotReady
    BY <1>2 DEF IsReady, NotReady, Handshaking
  <2>2. result.peer \in PeerRecords
    BY <2>1, ReadyMessageOrdinary DEF Ordinary
  <2>3. s = IF ~result.handled THEN Condemn(result.peer, why)
            ELSE IF ~result.success /\ Stage(result.peer.status) < Stage("Ready")
            THEN Condemn(result.peer, why) ELSE result.peer
    BY <2>1 DEF ProcessMessage
  <2>4. result.handled /\ s = result.peer
    BY <1>1, <2>2, <2>3
  <2>5. \/ ~IsUpdate(m) /\ Steady(p, r, result.peer)
        \/ IsUpdate(m) /\ UpdateTurn(p, r, m, result.peer)
    BY <1>2, <2>4, ReadyKeys
  <2> QED
    BY <1>2, <2>4, <2>5
<1>3. CASE ~IsReady(r)
  <2> DEFINE result == HandshakeMessage(p, r, m, c)
  <2>1. r.status \in NotReady /\ r.status \notin {"Ready", "Suspended"}
    BY <1>3, StatusSet DEF IsReady, PeerRecords
  <2>2. s = IF ~result.handled THEN Condemn(result.peer, why)
            ELSE IF ~result.success /\ Stage(result.peer.status) < Stage("Ready")
            THEN Condemn(result.peer, why) ELSE result.peer
    BY <2>1 DEF ProcessMessage
  <2>3. ~result.handled => result.peer = r
    BY DEF HandshakeMessage, Unhandled, Done
  <2>4. result.handled => result.success
    BY DEF HandshakeMessage, Unhandled, Done
  <2>5. result.handled /\ s = result.peer
    BY <1>1, <2>2, <2>3, <2>4
  <2>6. ~IsUpdate(m) /\ Steady(p, r, result.peer)
    BY <2>1, <2>5, HandshakeKeys
  <2> QED
    BY <2>5, <2>6
<1> QED
  BY <1>2, <1>3

-----------------------------------------------------------------------------
(* The actions that process a message.                                      *)

LEMMA KeyProcess ==
    ASSUME SessionInv, KeyNow, NEW p \in Peers,
           peer[p].condition = None, peer[p].status # "Disconnected",
           NEW r \in PeerRecords, Core(r) = Core(peer[p]), r.normal = peer[p].normal,
           r.delayed = peer[p].delayed, r.condition = None,
           NEW m \in Messages, HasRoom(r, m), NEW c \in CounterStarts, NEW late,
           peer' = [peer EXCEPT ![p] = ProcessMessage(p, r, m, c, late)],
           NEW wp, wire'[p] = wp, wire'[Other(p)] = wire[Other(p)], used'.updates = used.updates,
           \A u : Flight(peer[p].deferred, wire[p], peer[Other(p)].normal, u) =>
             /\ ~IsUpdate(m) => Flight(r.deferred, wp, peer[Other(p)].normal, u)
             /\ IsUpdate(m) => /\ u # <<>> /\ Head(u) = m
                               /\ Flight(r.deferred, wp, peer[Other(p)].normal, Tail(u))
    PROVE  KeyInv'
<1> DEFINE s == ProcessMessage(p, r, m, c, late)
           x == peer[p]
           y == peer[Other(p)]
<1>1. x \in PeerRecords /\ KeyRecord(p, x) /\ extenders \in [Peers -> Nat] /\ used.updates \in Nat
      /\ r.normal \in Seq(Messages)
  BY DEF SessionInv, PartsOK, RestOK, KeyNow, PeerRecords
<1>2. KeyRecord(p, r) /\ Alike(x, r) /\ r.status # "Disconnected"
  <2>1. Core(r) = Core(x) /\ GrowsPlainly(x.normal, r.normal) /\ GrowsPlainly(x.delayed, r.delayed)
    BY DEF GrowsPlainly
  <2>2. r.status = x.status
    BY DEF Core
  <2> QED
    BY <1>1, <2>1, <2>2, RecordStays, CoreIsAlike
<1>3. s.condition = None =>
         \/ ~IsUpdate(m) /\ Steady(p, r, s)
         \/ IsUpdate(m) /\ IsReady(r) /\ UpdateTurn(p, r, m, s)
  BY <1>1, <1>2, ProcessKeys
<1>4. PICK wq, n : wq = wire[Other(p)] /\ n = used.updates
  OBVIOUS
<1> HIDE DEF s, x, y
<1>5. ASSUME s.condition = None, NEW up, NEW uq,
             Flight(x.deferred, wire[p], y.normal, up), Flight(y.deferred, wq, x.normal, uq),
             Standing(p, x, y, up, uq, n)
      PROVE  /\ KeyRecord(p, s)
             /\ \E vp, vq : /\ Flight(s.deferred, wp, y.normal, vp)
                            /\ Flight(y.deferred, wq, s.normal, vq)
                            /\ Standing(p, s, y, vp, vq, n)
  <2>1. Standing(p, r, y, up, uq, n)
    BY <1>2, <1>5, AlikeStanding
  <2>2. Flight(y.deferred, wq, r.normal, uq)
    BY <1>5 DEF x
  <2>3. CASE ~IsUpdate(m) /\ Steady(p, r, s)
    <3>1. /\ KeyRecord(p, s) /\ Alike(r, s) /\ s.deferred = r.deferred
          /\ GrowsPlainly(r.normal, s.normal)
      BY <2>3 DEF Steady
    <3>2. Flight(s.deferred, wp, y.normal, up)
      BY <1>5, <2>3, <3>1 DEF x, y
    <3>3. Flight(y.deferred, wq, s.normal, uq)
      BY <1>1, <2>2, <3>1, PlainGrowth
    <3>4. Standing(p, s, y, up, uq, n)
      BY <2>1, <3>1, AlikeStanding
    <3> QED
      BY <3>1, <3>2, <3>3, <3>4
  <2>4. CASE IsUpdate(m) /\ IsReady(r) /\ UpdateTurn(p, r, m, s)
    <3>1. up # <<>> /\ Head(up) = m /\ Flight(r.deferred, wp, y.normal, Tail(up))
      BY <1>5, <2>4 DEF x, y
    <3>2. s.deferred = r.deferred
      BY <2>4 DEF UpdateTurn, Rest
    <3>3. PICK d : d = y.deferred
      OBVIOUS
    <3>4. Flight(d, wq, r.normal, uq) /\ n \in Nat
      BY <1>1, <1>4, <2>2, <3>3
    <3>5. /\ KeyRecord(p, s)
          /\ \E vq : Flight(d, wq, s.normal, vq) /\ Standing(p, s, y, Tail(up), vq, n)
      BY ONLY p \in Peers, r \in PeerRecords, r.condition = None, m \in Messages,
              <1>2, <2>1, <2>4, <3>1, <3>4, UpdateMoves
    <3>6. PICK vp : vp = Tail(up)
      OBVIOUS
    <3> QED
      BY <3>1, <3>2, <3>3, <3>5, <3>6
  <2> QED
    BY <1>3, <1>5, <2>3, <2>4
<1>6. CASE s.condition # None
  BY <1>6, KeyCondemned DEF s
<1>7. CASE s.condition = None
  <2>2. InStep
    BY DEF KeyNow
  <2>3. PICK up, uq : /\ Flight(x.deferred, wire[p], y.normal, up)
                      /\ Flight(y.deferred, wq, x.normal, uq)
                      /\ Standing(p, x, y, up, uq, n)
    BY <1>4, <2>2, InStepFrom DEF x, y
  <2>4. KeyRecord(p, s)
    BY <1>5, <1>7, <2>3
  <2>5. peer' = [peer EXCEPT ![p] = s] /\ wire'[Other(p)] = wq /\ used'.updates = n
    BY <1>4 DEF s
  <2>6. \A eu, ew :
               /\ Flight(peer[p].deferred, wire[p], peer[Other(p)].normal, eu)
               /\ Flight(peer[Other(p)].deferred, wire[Other(p)], peer[p].normal, ew)
               /\ Standing(p, peer[p], peer[Other(p)], eu, ew, used.updates)
               => \E vp, vq :
                    /\ Flight(s.deferred, wp, peer[Other(p)].normal, vp)
                    /\ Flight(peer[Other(p)].deferred, wq, s.normal, vq)
                    /\ Standing(p, s, peer[Other(p)], vp, vq, n)
    BY <1>4, <1>5, <1>7 DEF x, y
  <2> QED
    BY <2>4, <2>5, <2>6, KeyTurn
<1> QED
  BY <1>6, <1>7

LEMMA ReceiveKeys ==
    ASSUME SessionInv, KeyNow, NEW p \in Peers, Receive(p)
    PROVE  KeyInv'
<1> DEFINE r == peer[p]
           t == Head(wire[p])
           m == t.message
           d == CountedIn(r)
           o == Other(p)
<1>1. /\ wire[p] # <<>> /\ r.condition = None /\ r.status # "Disconnected"
      /\ wire' = [wire EXCEPT ![p] = Tail(wire[p])] /\ used' = used
  BY DEF Receive, Active
<1>2. PICK c \in CounterStarts, late \in {FALSE, LateMessages} :
        peer' = [peer EXCEPT ![p] =
           IF ~CanDecrypt(r, t.key) THEN Condemn(r, "ReceiveError")
           ELSE IF d.peerCounter \notin {None, t.counter} THEN Condemn(d, "ReceiveError")
           ELSE QueueOrProcess(p, d, m, c, late)]
  BY DEF Receive, CountedIn
<1>3. /\ r \in PeerRecords /\ wire[p] \in Seq(Transports) /\ wire \in [Peers -> Seq(Transports)]
      /\ RecordInv(Accepted, p, r) /\ KeyRecord(p, r) /\ Other(p) \in Peers /\ Other(p) # p
  BY Ends DEF SessionInv, PartsOK, RestOK, KeyNow
<1>4. /\ wire'[p] = Tail(wire[p]) /\ wire'[Other(p)] = wire[Other(p)] /\ m \in Messages
  <2>1. Head(wire[p]) \in Transports
    BY <1>1, <1>3, TailOf
  <2> QED
    BY <1>1, <1>3, <2>1 DEF Transports
<1>5. /\ d \in PeerRecords /\ d.condition = None /\ d.deferred = r.deferred /\ d.normal = r.normal
      /\ d.delayed = r.delayed /\ Core(d) = Core(r)
  <2>1. NextCounter(r.peerCounter) \in Counters
    BY <1>3, NextCounterType DEF PeerRecords
  <2> QED
    BY <1>1, <1>3, <2>1 DEF CountedIn, PeerRecords, Core
<1>6. PICK w, v, q : w = wire[p] /\ v = Tail(wire[p]) /\ q = peer[Other(p)].normal
  OBVIOUS
<1> HIDE DEF d, m, t
<1>7. CASE ~CanDecrypt(r, t.key)
  <2>1. Condemn(r, "ReceiveError").condition # None
    BY <1>3, CondemnFields DEF Conditions
  <2>2. peer' = [peer EXCEPT ![p] = Condemn(r, "ReceiveError")]
    BY <1>2, <1>7
  <2> QED
    BY <2>1, <2>2, KeyCondemned
<1>8. CASE CanDecrypt(r, t.key) /\ d.peerCounter \notin {None, t.counter}
  <2>1. Condemn(d, "ReceiveError").condition # None
    BY <1>5, CondemnFields DEF Conditions
  <2>2. peer' = [peer EXCEPT ![p] = Condemn(d, "ReceiveError")]
    BY <1>2, <1>8
  <2> QED
    BY <2>1, <2>2, KeyCondemned
<1>9. CASE CanDecrypt(r, t.key) /\ d.peerCounter \in {None, t.counter}
  <2>1. peer' = [peer EXCEPT ![p] = QueueOrProcess(p, d, m, c, late)]
    BY <1>2, <1>9
  <2>2. ASSUME NEW u, Flight(r.deferred, w, q, u)
        PROVE  /\ r.deferred = <<>> /\ ~IsUpdate(m) => Flight(<<>>, v, q, u)
               /\ r.deferred = <<>> /\ IsUpdate(m) =>
                    u # <<>> /\ Head(u) = m /\ Flight(<<>>, v, q, Tail(u))
               /\ ~IsUpdate(m) => Flight(r.deferred, v, q, u)
               /\ Flight(Append(r.deferred, m), v, q, u)
    <3>1. PICK e : e = r.deferred
      OBVIOUS
    <3>2. e \in Seq(Messages) /\ Flight(e, w, q, u)
      BY <1>3, <2>2, <3>1 DEF PeerRecords
    <3>3. (~IsUpdate(m) => Flight(e, v, q, u)) /\ Flight(Append(e, m), v, q, u)
      BY <1>1, <1>3, <1>6, <3>2, FlightDeferred DEF m, t
    <3>4. e = <<>> => /\ ~IsUpdate(m) => Flight(<<>>, v, q, u)
                      /\ IsUpdate(m) => u # <<>> /\ Head(u) = m /\ Flight(<<>>, v, q, Tail(u))
      BY <1>1, <1>3, <1>6, <3>2, FlightTaken DEF m, t
    <3> QED
      BY <3>1, <3>3, <3>4
  <2>3. GrowsPlainly(r.normal, d.normal) /\ GrowsPlainly(r.delayed, d.delayed)
    BY <1>5 DEF GrowsPlainly
  <2>4. KeyRecord(p, d) /\ Alike(r, d)
    BY <1>1, <1>3, <1>5, <2>3, RecordStays, CoreIsAlike
  <2>5. PICK z : z = wire[Other(p)]
    OBVIOUS
  <2>6. wire'[p] = v /\ wire'[Other(p)] = z
    BY <1>4, <1>6, <2>5
  <2>7. CASE m.type = "Noise"
    <3>1. peer' = [peer EXCEPT ![p] = d] /\ ~IsUpdate(m)
      BY <2>1, <2>7 DEF QueueOrProcess, IsUpdate, UpdateTypes
    <3>2. \A u : Flight(peer[p].deferred, wire[p], peer[Other(p)].normal, u)
                   => Flight(d.deferred, v, peer[Other(p)].normal, u)
      BY <1>1, <1>5, <1>6, <2>2, <3>1
    <3>3. \A u : Flight(peer[Other(p)].deferred, wire[Other(p)], peer[p].normal, u)
                   => Flight(peer[Other(p)].deferred, z, d.normal, u)
      BY <1>5, <2>5
    <3> QED
      BY <1>1, <2>4, <2>6, <3>1, <3>2, <3>3, KeyQuiet
  <2>8. CASE m.type # "Noise" /\ ShouldDefer(d, m)
    <3> DEFINE s == [d EXCEPT !.deferred = Append(@, m)]
    <3>1. peer' = [peer EXCEPT ![p] = s]
      BY <2>1, <2>8 DEF QueueOrProcess
    <3>2. /\ s.deferred = Append(r.deferred, m) /\ Core(s) = Core(d) /\ s.normal = d.normal
          /\ s.delayed = d.delayed /\ s.condition = d.condition
      BY <1>5 DEF PeerRecords, Core
    <3> HIDE DEF s
    <3>3. Core(s) = Core(r) /\ GrowsPlainly(r.normal, s.normal) /\ GrowsPlainly(r.delayed, s.delayed)
      BY <1>5, <2>3, <3>2
    <3>4. KeyRecord(p, s) /\ Alike(r, s)
      BY <1>1, <1>3, <3>3, RecordStays, CoreIsAlike
    <3>5. \A u : Flight(peer[p].deferred, wire[p], peer[Other(p)].normal, u)
                   => Flight(s.deferred, v, peer[Other(p)].normal, u)
      BY <1>1, <1>6, <2>2, <3>2
    <3>6. \A u : Flight(peer[Other(p)].deferred, wire[Other(p)], peer[p].normal, u)
                   => Flight(peer[Other(p)].deferred, z, s.normal, u)
      BY <1>5, <2>5, <3>2
    <3> QED
      BY <1>1, <2>6, <3>1, <3>4, <3>5, <3>6, KeyQuiet
  <2>9. CASE m.type # "Noise" /\ ~ShouldDefer(d, m)
    <3>1. /\ peer' = [peer EXCEPT ![p] = ProcessMessage(p, d, m, c, late)] /\ HasRoom(d, m)
          /\ r.deferred = <<>>
      BY <1>5, <2>1, <2>9 DEF QueueOrProcess, ShouldDefer
    <3>2. \A u : Flight(peer[p].deferred, wire[p], peer[Other(p)].normal, u) =>
                   /\ ~IsUpdate(m) => Flight(d.deferred, v, peer[Other(p)].normal, u)
                   /\ IsUpdate(m) => /\ u # <<>> /\ Head(u) = m
                                     /\ Flight(d.deferred, v, peer[Other(p)].normal, Tail(u))
      BY <1>1, <1>5, <1>6, <2>2, <3>1
    <3> QED
      BY <1>1, <1>4, <1>5, <2>6, <3>1, <3>2, KeyProcess
  <2> QED
    BY <2>7, <2>8, <2>9
<1> QED
  BY <1>7, <1>8, <1>9

LEMMA ProcessDeferredKeys ==
    ASSUME SessionInv, KeyNow, NEW p \in Peers, ProcessDeferred(p)
    PROVE  KeyInv'
<1> DEFINE r == peer[p]
           m == Head(r.deferred)
           d == [r EXCEPT !.deferred = Tail(@)]
<1>1. /\ r.condition = None /\ r.status # "Disconnected" /\ r.deferred # <<>>
      /\ HasRoom(r, m) /\ wire' = wire /\ used' = used
  BY DEF ProcessDeferred, Active
<1>2. PICK c \in CounterStarts, late \in {FALSE, LateMessages} : peer' = [peer EXCEPT ![p] = ProcessMessage(p, d, m, c, late)]
  BY DEF ProcessDeferred
<1>3. r \in PeerRecords /\ r.deferred \in Seq(Messages)
  BY ScenarioTypes DEF PeerRecords
<1>4. Tail(r.deferred) \in Seq(Messages) /\ m \in Messages
  BY <1>1, <1>3, TailOf
<1>5. /\ d \in PeerRecords /\ d.deferred = Tail(r.deferred) /\ d.condition = r.condition
      /\ d.normal = r.normal /\ d.delayed = r.delayed /\ d.held = r.held /\ Core(d) = Core(r)
  BY <1>3, <1>4 DEF PeerRecords, Core
<1> HIDE DEF d
<1>6. HasRoom(d, m)
  BY <1>1, <1>5 DEF HasRoom
<1>7. PICK w, x, e : w = wire[p] /\ x = peer[Other(p)].normal /\ e = r.deferred
  OBVIOUS
<1>8. \A u : Flight(e, w, x, u) =>
               /\ ~IsUpdate(m) => Flight(Tail(e), w, x, u)
               /\ IsUpdate(m) => u # <<>> /\ Head(u) = m /\ Flight(Tail(e), w, x, Tail(u))
  BY <1>1, <1>3, <1>7, FlightDeferredTaken
<1>9. \A u : Flight(peer[p].deferred, wire[p], peer[Other(p)].normal, u) =>
               /\ ~IsUpdate(m) => Flight(d.deferred, w, peer[Other(p)].normal, u)
               /\ IsUpdate(m) => /\ u # <<>> /\ Head(u) = m
                                 /\ Flight(d.deferred, w, peer[Other(p)].normal, Tail(u))
  BY <1>5, <1>7, <1>8
<1>10. wire'[p] = w /\ wire'[Other(p)] = wire[Other(p)] /\ used'.updates = used.updates
  BY <1>1, <1>7
<1> HIDE DEF m
<1> QED
  BY <1>1, <1>2, <1>4, <1>5, <1>6, <1>9, <1>10, KeyProcess

-----------------------------------------------------------------------------
(* All steps, and the theorem.                                              *)

\* A peer that has a reason to disconnect keeps it.
LEMMA CondemnedStays ==
    ASSUME SessionInv, [Next]_vars, NEW p \in Peers, peer[p].condition # None
    PROVE  peer'[p].condition # None
<1>1. peer \in [Peers -> PeerRecords] /\ ~Active(p)
  BY DEF SessionInv, PartsOK, RestOK, Active
<1>2. CASE UNCHANGED vars
  BY <1>2 DEF vars
<1>3. ASSUME NEW q \in Peers, q # p, Handling(q) \/ Environment(q)
      PROVE  peer'[p].condition # None
  <2>1. peer'[p] = peer[p]
    BY <1>1, <1>3 DEF Handling, AfterLoop, Environment, BeginHandshake, EnableSend, Suspend, Resume, Receive,
       ProcessDeferred, SendExtenderUpdate, Send, Disconnect, ConnectionClosed, ExtenderFinishes,
       BroadcastExtenderUpdate, ConnectionResumes, HandshakeTimesOut, QueueNoise, BeginKeyUpdate,
       KeyUpdateTimesOut, GraceEnds, ExtenderSends, ExtenderListChanges, ConnectionSuspends
  <2> QED
    BY <2>1
<1>4. CASE Handling(p) \/ Environment(p)
  <2>1. \/ Disconnect(p) \/ ExtenderFinishes(p) \/ BroadcastExtenderUpdate(p)
        \/ ConnectionResumes(p) \/ ExtenderListChanges(p)
    BY <1>1, <1>4 DEF Handling, AfterLoop, Environment, BeginHandshake, EnableSend, Suspend, Resume, Receive,
       ProcessDeferred, SendExtenderUpdate, Send, ConnectionClosed, HandshakeTimesOut, QueueNoise,
       BeginKeyUpdate, KeyUpdateTimesOut, GraceEnds, ExtenderSends, ConnectionSuspends
  <2>2. CASE Disconnect(p)
    BY <1>1, <2>2 DEF Disconnect, PeerRecords
  <2>3. CASE ExtenderFinishes(p)
    BY <1>1, <2>3 DEF ExtenderFinishes, PeerRecords
  <2>4. CASE BroadcastExtenderUpdate(p)
    <3> DEFINE m == Msg("ExtenderUpdate", extenders[p], None)
    <3>1. m \in Messages /\ peer[p] \in PeerRecords
      BY <1>1, ScenarioTypes, SmallMessages
    <3>2. Queue(peer[p], m, "normal").condition = peer[p].condition
      BY <3>1, QueueFields DEF Queues
    <3>3. [peer[p] EXCEPT !.needsUpdate = TRUE].condition = peer[p].condition
      BY <3>1 DEF PeerRecords
    <3> QED
      BY <1>1, <2>4, <3>2, <3>3 DEF BroadcastExtenderUpdate
  <2>5. CASE ConnectionResumes(p) \/ ExtenderListChanges(p)
    BY <2>5 DEF ConnectionResumes, ExtenderListChanges
  <2> QED
    BY <2>1, <2>2, <2>3, <2>4, <2>5
<1> QED
  BY <1>2, <1>3, <1>4 DEF Next

LEMMA KeyStep == SessionInv /\ KeyInv /\ [Next]_vars => KeyInv'
<1> SUFFICES ASSUME SessionInv, KeyInv, [Next]_vars
             PROVE  KeyInv'
  OBVIOUS
<1>1. CASE ~NotCondemned
  <2>1. PICK p \in Peers : peer[p].condition # None
    BY <1>1 DEF NotCondemned
  <2>2. peer'[p].condition # None
    BY <2>1, CondemnedStays
  <2> QED
    BY <2>2 DEF KeyInv, NotCondemned
<1>2. CASE NotCondemned
  <2>1. KeyNow
    BY <1>2 DEF KeyInv
  <2>2. ASSUME NEW p \in Peers, ExtenderListChanges(p) \/ ConnectionSuspends(p) \/ ConnectionResumes(p)
        PROVE  KeyInv'
    <3>1. UNCHANGED <<peer, wire>> /\ used'.updates = used.updates
      BY <2>2, ScenarioTypes DEF ExtenderListChanges, ConnectionSuspends, ConnectionResumes, RestOK
    <3> QED
      BY <2>1, <3>1, OutsideKeys
  <2>3. ASSUME NEW p \in Peers, Handling(p)
        PROVE  KeyInv'
    BY <2>1, <2>2, <2>3, BeginHandshakeKeys, EnableSendKeys, SuspendKeys, ResumeKeys, ReceiveKeys,
       ProcessDeferredKeys, SendExtenderUpdateKeys, SendKeys, DisconnectKeys, TimeoutKeys,
       ExtenderFinishesKeys, BroadcastKeys DEF Handling, AfterLoop
  <2>4. ASSUME NEW p \in Peers, Environment(p)
        PROVE  KeyInv'
    BY <2>1, <2>2, <2>4, TimeoutKeys, QueueNoiseKeys, BeginKeyUpdateKeys, GraceEndsKeys,
       ExtenderSendsKeys DEF Environment
  <2>5. CASE UNCHANGED vars
    BY <2>1, <2>5, OutsideKeys DEF vars
  <2> QED
    BY <2>3, <2>4, <2>5 DEF Next
<1> QED
  BY <1>1, <1>2

LEMMA NothingUnderWay == Flight(<<>>, <<>>, <<>>, <<>>)
<1>1. Bodies(<<>>) = <<>>
  <2>1. <<>> \in Seq(Transports) /\ Len(<<>>) = 0
    OBVIOUS
  <2>2. Bodies(<<>>) \in Seq(Messages) /\ Len(Bodies(<<>>)) = 0
    BY <2>1, BodiesAre
  <2> QED
    BY <2>2, EmptySeq
<1>2. Bears(<<>>, <<>>)
  <2>1. <<>> \in Seq(Messages) /\ Len(<<>>) = 0
    OBVIOUS
  <2>2. \A k \in 1 .. Len(<<>>) : ~IsUpdate(<<>>[k])
    BY <2>1
  <2> QED
    BY <2>1, <2>2, NothingBorne
<1>3. <<>> \in Seq(Messages) /\ (<<>> \o <<>>) \o <<>> = <<>>
  OBVIOUS
<1> QED
  BY <1>1, <1>2, <1>3 DEF Flight

LEMMA KeysBegin == Init => KeyInv
<1> SUFFICES ASSUME Init
             PROVE  KeyInv
  OBVIOUS
<1>1. ASSUME NEW p \in Peers
      PROVE  /\ peer[p].status = "Connected" /\ peer[p].update = "Unknown"
             /\ peer[p].normal = <<>> /\ peer[p].delayed = <<>> /\ peer[p].deferred = <<>>
  BY <1>1 DEF Init, NewPeer
<1>2. \A p \in Peers : wire[p] = <<>>
  BY DEF Init
<1>3. used.updates = 0
  BY DEF Init
<1>4. "Connected" \in NotReady
  BY DEF NotReady, Handshaking
<1>5. Len(<<>>) = 0
  OBVIOUS
<1>6. ASSUME NEW p \in Peers
      PROVE  KeyRecord(p, peer[p])
  <2>1. \A i \in 1 .. Len(peer[p].delayed) : ~IsUpdate(peer[p].delayed[i])
    BY <1>1, <1>5
  <2> QED
    BY <1>1, <2>1 DEF KeyRecord
<1>7. \A p \in Peers : AtRest(peer[p], 0)
  BY <1>1, <1>4 DEF AtRest
<1>8. Inbound \in Peers /\ Outbound \in Peers
  BY DEF Peers
<1>9. Position(peer[Inbound], peer[Outbound], <<>>, <<>>, used.updates)
  BY <1>3, <1>7, <1>8 DEF Position
<1>10. InStep
  <2>1. /\ Flight(peer[Inbound].deferred, wire[Inbound], peer[Outbound].normal, <<>>)
        /\ Flight(peer[Outbound].deferred, wire[Outbound], peer[Inbound].normal, <<>>)
    BY <1>1, <1>2, <1>8, NothingUnderWay
  <2> QED
    BY <1>9, <2>1 DEF InStep
<1> QED
  BY <1>6, <1>10 DEF KeyInv, KeyNow

\* Whenever both ends are ready, no update of the keys is under way and nothing is on its way
\* between them, both encrypt with the same keys, those of the last update that was begun, and
\* neither still holds a key exchange: whatever the two queues, the deferred messages, suspensions
\* and grace periods did in between (KeyUpdate.cpp, PeerKeyExchange, SymmetricKeys.h).
THEOREM KeysSettled == Spec => []KeysSettle
<1>1. Init => SessionInv /\ KeyInv
  BY SessionBegins, KeysBegin
<1>2. SessionInv /\ KeyInv /\ [Next]_vars => SessionInv' /\ KeyInv'
  BY SessionStep, KeyStep
<1> QED
  BY <1>1, <1>2, KeysAgreeAtRest, PTL DEF Spec
-----------------------------------------------------------------------------
(* The list of extenders, told.  The messages that bring a list.            *)

HIDE PeerSessionAssumption

ListTypes == SessionTypes \cup {"ExtenderUpdate"}
IsList(m) == m.type \in ListTypes
IsExtender(m) == m.type = "ExtenderCommunication"

\* What an end that knows list b knows after a message.
After(b, m) == IF IsList(m) THEN m.n ELSE b

\* Who knows list b knows v after the messages of s.
Brings(s, b, v) ==
    \/ v = b /\ \A i \in 1 .. Len(s) : ~IsList(s[i])
    \/ \E i \in 1 .. Len(s) : /\ IsList(s[i]) /\ s[i].n = v
                              /\ \A j \in i + 1 .. Len(s) : ~IsList(s[j])

LEMMA BringsNothing == \A b, v : Brings(<<>>, b, v) <=> v = b
BY DEF Brings

LEMMA BringsAppend ==
    ASSUME NEW s \in Seq(Messages), NEW m \in Messages, NEW b, NEW v, Brings(s, b, v)
    PROVE  Brings(Append(s, m), b, After(v, m))
<1> DEFINE t == Append(s, m)
           n == Len(s)
<1>1. /\ t \in Seq(Messages) /\ Len(t) = n + 1 /\ n \in Nat
      /\ \A i \in 1 .. n : t[i] = s[i]
      /\ t[n + 1] = m
  BY AppendProperties, LenProperties
<1> HIDE DEF t, n
<1>2. CASE IsList(m)
  <2>1. n + 1 \in 1 .. Len(t) /\ IsList(t[n + 1]) /\ t[n + 1].n = m.n
    BY <1>1, <1>2
  <2>2. \A j \in n + 1 + 1 .. Len(t) : ~IsList(t[j])
    BY <1>1
  <2>3. After(v, m) = m.n
    BY <1>2 DEF After
  <2> QED
    BY <2>1, <2>2, <2>3 DEF Brings, t
<1>3. CASE ~IsList(m)
  <2>1. After(v, m) = v
    BY <1>3 DEF After
  <2>2. CASE v = b /\ \A i \in 1 .. n : ~IsList(s[i])
    <3>1. ASSUME NEW i \in 1 .. Len(t)
          PROVE  ~IsList(t[i])
      <4>1. i \in 1 .. n \/ i = n + 1
        BY <1>1
      <4> QED
        BY <1>1, <1>3, <2>2, <4>1
    <3> QED
      BY <2>1, <2>2, <3>1 DEF Brings, t
  <2>3. ASSUME NEW i \in 1 .. n, IsList(s[i]), s[i].n = v, \A j \in i + 1 .. n : ~IsList(s[j])
        PROVE  Brings(t, b, v)
    <3>1. i \in 1 .. Len(t) /\ IsList(t[i]) /\ t[i].n = v
      BY <1>1, <2>3
    <3>2. ASSUME NEW j \in i + 1 .. Len(t)
          PROVE  ~IsList(t[j])
      <4>1. (j \in i + 1 .. n /\ j \in 1 .. n) \/ j = n + 1
        BY <1>1
      <4> QED
        BY <1>1, <1>3, <2>3, <4>1
    <3> QED
      BY <3>1, <3>2 DEF Brings
  <2> QED
    BY <2>1, <2>2, <2>3 DEF Brings, n, t
<1> QED
  BY <1>2, <1>3

LEMMA BringsTail ==
    ASSUME NEW s \in Seq(Messages), s # <<>>, NEW b, NEW v, Brings(s, b, v)
    PROVE  Brings(Tail(s), After(b, Head(s)), v)
<1> DEFINE t == Tail(s)
           m == Head(s)
           n == Len(t)
<1>1. /\ t \in Seq(Messages) /\ Len(s) = n + 1 /\ n \in Nat
      /\ \A i \in 1 .. n : i + 1 \in 1 .. Len(s) /\ t[i] = s[i + 1]
      /\ m = s[1]
  BY TailOf
<1> HIDE DEF t, m, n
<1>2. n = Len(t)
  BY DEF n
<1>3. CASE v = b /\ \A i \in 1 .. Len(s) : ~IsList(s[i])
  <2>1. ~IsList(m) /\ \A i \in 1 .. n : ~IsList(t[i])
    BY <1>1, <1>3
  <2>2. After(b, m) = v
    BY <1>3, <2>1 DEF After
  <2> QED
    BY <1>2, <2>1, <2>2 DEF Brings, t, m
<1>4. ASSUME NEW i \in 1 .. Len(s), IsList(s[i]), s[i].n = v,
             \A j \in i + 1 .. Len(s) : ~IsList(s[j])
      PROVE  Brings(t, After(b, m), v)
  <2>1. CASE i = 1
    <3>1. After(b, m) = v
      BY <1>1, <1>4, <2>1 DEF After
    <3>2. \A k \in 1 .. n : ~IsList(t[k])
      <4>1. \A k \in 1 .. n : k + 1 \in i + 1 .. Len(s) /\ t[k] = s[k + 1]
        BY <1>1, <2>1
      <4> QED
        BY <1>4, <4>1
    <3> QED
      BY <1>2, <3>1, <3>2 DEF Brings
  <2>2. CASE i # 1
    <3>1. PICK k \in 1 .. n : k = i - 1
      BY <1>1, <2>2
    <3>2. t[k] = s[i]
      BY <1>1, <3>1
    <3>3. \A j \in k + 1 .. n : j + 1 \in i + 1 .. Len(s) /\ t[j] = s[j + 1]
      BY <1>1, <3>1
    <3>4. \A j \in k + 1 .. n : ~IsList(t[j])
      BY <1>4, <3>3
    <3> QED
      BY <1>2, <1>4, <3>2, <3>4 DEF Brings
  <2> QED
    BY <2>1, <2>2
<1> QED
  BY <1>3, <1>4 DEF Brings, t, m

\* What an end knows when all has reached it that is deferred there, on the wire, and queued by
\* the other.
Chain(d, w, q, b, v) ==
    \E x, y : Brings(d, b, x) /\ Brings(Bodies(w), x, y) /\ Brings(q, y, v)

LEMMA ChainQueued ==
    ASSUME NEW d, NEW w, NEW q \in Seq(Messages), NEW m \in Messages, NEW b, NEW v, Chain(d, w, q, b, v)
    PROVE  Chain(d, w, Append(q, m), b, After(v, m))
BY BringsAppend DEF Chain

\* Sent: from the queue, or a message that brings no list past it.
LEMMA ChainSent ==
    ASSUME NEW d, NEW w \in Seq(Transports), NEW q \in Seq(Messages), NEW t \in Transports,
           NEW b, NEW v, Chain(d, w, q, b, v)
    PROVE  /\ q # <<>> /\ t.message = Head(q) => Chain(d, Append(w, t), Tail(q), b, v)
           /\ ~IsList(t.message) => Chain(d, Append(w, t), q, b, v)
<1>1. PICK x, y : Brings(d, b, x) /\ Brings(Bodies(w), x, y) /\ Brings(q, y, v)
  BY DEF Chain
<1>2. Bodies(w) \in Seq(Messages) /\ t.message \in Messages
      /\ Bodies(Append(w, t)) = Append(Bodies(w), t.message)
  BY BodiesAre, BodiesAppend
<1>3. Brings(Bodies(Append(w, t)), x, After(y, t.message))
  BY <1>1, <1>2, BringsAppend
<1>4. ASSUME q # <<>>, t.message = Head(q)
      PROVE  Chain(d, Append(w, t), Tail(q), b, v)
  <2>1. Brings(Tail(q), After(y, t.message), v)
    BY <1>1, <1>4, BringsTail
  <2> QED
    BY <1>1, <1>3, <2>1 DEF Chain
<1>5. ASSUME ~IsList(t.message)
      PROVE  Chain(d, Append(w, t), q, b, v)
  <2>1. After(y, t.message) = y
    BY <1>5 DEF After
  <2> QED
    BY <1>1, <1>3, <2>1 DEF Chain
<1> QED
  BY <1>4, <1>5

\* Received: processed when nothing is deferred, deferred behind the others, or dropped.
LEMMA ChainReceived ==
    ASSUME NEW d \in Seq(Messages), NEW w \in Seq(Transports), w # <<>>, NEW q, NEW b, NEW v,
           Chain(d, w, q, b, v)
    PROVE  LET m == Head(w).message
           IN  /\ d = <<>> => Chain(d, Tail(w), q, After(b, m), v)
               /\ Chain(Append(d, m), Tail(w), q, b, v)
               /\ ~IsList(m) => Chain(d, Tail(w), q, b, v)
<1> DEFINE m == Head(w).message
<1>1. PICK x, y : Brings(d, b, x) /\ Brings(Bodies(w), x, y) /\ Brings(q, y, v)
  BY DEF Chain
<1>2. /\ Bodies(w) \in Seq(Messages) /\ Bodies(w) # <<>> /\ Head(Bodies(w)) = m
      /\ Bodies(Tail(w)) = Tail(Bodies(w))
  BY BodiesAre, BodiesTail
<1>3. m \in Messages
  <2>1. Head(w) \in Transports
    BY TailOf
  <2> QED
    BY <2>1 DEF Transports
<1> HIDE DEF m
<1>4. Brings(Bodies(Tail(w)), After(x, m), y)
  BY <1>1, <1>2, BringsTail
<1>5. Brings(Append(d, m), b, After(x, m))
  BY <1>1, <1>3, BringsAppend
<1>6. Chain(Append(d, m), Tail(w), q, b, v)
  BY <1>1, <1>4, <1>5 DEF Chain
<1>7. ASSUME ~IsList(m)
      PROVE  Chain(d, Tail(w), q, b, v)
  <2>1. After(x, m) = x
    BY <1>7 DEF After
  <2> QED
    BY <1>1, <1>4, <2>1 DEF Chain
<1>8. ASSUME d = <<>>
      PROVE  Chain(d, Tail(w), q, After(b, m), v)
  <2>1. x = b /\ Brings(d, After(b, m), After(b, m))
    BY <1>1, <1>8, BringsNothing
  <2> QED
    BY <1>1, <1>4, <2>1 DEF Chain
<1> QED
  BY <1>6, <1>7, <1>8 DEF m

\* Worked off.
LEMMA ChainWorkedOff ==
    ASSUME NEW d \in Seq(Messages), d # <<>>, NEW w, NEW q, NEW b, NEW v, Chain(d, w, q, b, v)
    PROVE  Chain(Tail(d), w, q, After(b, Head(d)), v)
BY BringsTail DEF Chain

\* The session message of p is made, or was, and no change of the list waits to be announced.
Speaks(p, r, un) == r.status \notin BeforeSession(p) /\ r.needsUpdate = FALSE /\ un = FALSE

\* When all that is under way has arrived, the other end knows the list of p, or p will still tell.
Tells(p) ==
    \E v : /\ Chain(peer[Other(p)].deferred, wire[Other(p)], peer[p].normal,
                    peer[Other(p)].peerExtenders, v)
           /\ Speaks(p, peer[p], unannounced[p]) => v = extenders[p]

NoExtenders(q) == \A i \in 1 .. Len(q) : ~IsExtender(q[i])

Idle(r) == /\ r.deferred = <<>> /\ r.expedited = <<>>
           /\ NoExtenders(r.normal) /\ NoExtenders(r.delayed)

\* Lists are not delayed; as long as no extender has sent, nothing is deferred; as long as the
\* connection has not been suspended, nobody is.  Nobody parts.
Calm(p) ==
    /\ peer[p].status # "Disconnected"
    /\ \A i \in 1 .. Len(peer[p].delayed) : ~IsList(peer[p].delayed[i])
    /\ used.messages = 0 => Idle(peer[p]) /\ NoExtenders(Bodies(wire[p]))
    /\ used.suspensions = 0 => suspended[p] = FALSE /\ peer[p].status # "Suspended"

\* No deferred message is worked off during a suspension.
NoLoss == used.messages = 0 \/ used.suspensions = 0

TellNow == NotCondemned /\ NoLoss /\ \A p \in Peers : Tells(p) /\ Calm(p)

TellInv == NotCondemned /\ NoLoss => TellNow

-----------------------------------------------------------------------------
(* What a message does to what its receiver tells and has heard.            *)

Side(r) == <<r.status, r.delayed, r.expedited, r.deferred, r.condition, r.peerExtenders,
             r.needsUpdate>>

LEMMA ReleaseSide ==
    ASSUME NEW r \in PeerRecords
    PROVE  LET s == ReleaseKeyExchange(r)
           IN  s \in PeerRecords /\ Side(s) = Side(r) /\ s.normal = r.normal
<1> DEFINE s == ReleaseKeyExchange(r)
<1>1. s \in PeerRecords
  BY ReleaseFields
<1>2. PICK k : k = ExpireAllExceptLatest(r.keys)
  OBVIOUS
<1>3. s = [r EXCEPT !.exchange = None, !.keys = k]
  BY <1>2 DEF ReleaseKeyExchange
<1> HIDE DEF s
<1>4. Side(s) = Side(r) /\ s.normal = r.normal
  BY <1>3 DEF PeerRecords, Side
<1> QED
  BY <1>1, <1>4 DEF s

LEMMA UpdateStatusSide ==
    ASSUME NEW r \in PeerRecords, NEW st \in UpdateStatuses
    PROVE  LET s == SetUpdateStatus(r, st)
           IN  s \in PeerRecords /\ Side(s) = Side(r) /\ s.normal = r.normal
<1> DEFINE n == [r EXCEPT !.update = st]
           t == [n EXCEPT !.resume = r.update]
<1>1. n \in PeerRecords /\ Side(n) = Side(r) /\ n.normal = r.normal
  BY DEF PeerRecords, Side
<1>2. t \in PeerRecords /\ Side(t) = Side(r) /\ t.normal = r.normal
  BY DEF PeerRecords, Side
<1>3. SetUpdateStatus(r, st) \in {n, t, ReleaseKeyExchange(n)}
  BY DEF SetUpdateStatus
<1> HIDE DEF n, t
<1>4. /\ ReleaseKeyExchange(n) \in PeerRecords /\ Side(ReleaseKeyExchange(n)) = Side(n)
      /\ ReleaseKeyExchange(n).normal = n.normal
  BY <1>1, ReleaseSide
<1> QED
  BY <1>1, <1>2, <1>3, <1>4

LEMMA KeysSide ==
    ASSUME NEW r \in PeerRecords, NEW type, NEW n \in Numbers
    PROVE  LET s == [r EXCEPT !.keys = ExchangeKeys(@, type, n)]
           IN  s \in PeerRecords /\ Side(s) = Side(r) /\ s.normal = r.normal
<1>1. PICK k : k = ExchangeKeys(r.keys, type, n)
  OBVIOUS
<1> DEFINE s == [r EXCEPT !.keys = ExchangeKeys(@, type, n)]
<1>2. s \in PeerRecords
  BY NewKeysFields
<1>3. s = [r EXCEPT !.keys = k]
  BY <1>1
<1> HIDE DEF s
<1>4. Side(s) = Side(r) /\ s.normal = r.normal
  BY <1>3 DEF PeerRecords, Side
<1> QED
  BY <1>2, <1>4 DEF s

LEMMA QueueSide ==
    ASSUME NEW r \in PeerRecords, NEW m \in Messages, NEW priority \in Queues
    PROVE  LET s == Queue(r, m, priority)
           IN  /\ s \in PeerRecords /\ s.status = r.status /\ s.deferred = r.deferred
               /\ s.condition = r.condition /\ s.peerExtenders = r.peerExtenders
               /\ s.needsUpdate = r.needsUpdate
               /\ s.normal = IF priority = "normal" THEN Append(r.normal, m) ELSE r.normal
               /\ s.delayed = IF priority = "delayed" THEN Append(r.delayed, m) ELSE r.delayed
               /\ s.expedited = IF priority = "expedited" THEN Append(r.expedited, m)
                                ELSE r.expedited
<1> DEFINE s == Queue(r, m, priority)
<1>1. s \in PeerRecords
  BY QueueFields
<1>2. PICK x, y, z : x = Append(r.normal, m) /\ y = Append(r.delayed, m) /\ z = Append(r.expedited, m)
  OBVIOUS
<1>3. CASE priority = "normal"
  <2>1. s = [r EXCEPT !.normal = x]
    BY <1>2, <1>3 DEF Queue
  <2> HIDE DEF s
  <2>2. /\ s.status = r.status /\ s.deferred = r.deferred
        /\ s.condition = r.condition /\ s.peerExtenders = r.peerExtenders
        /\ s.needsUpdate = r.needsUpdate /\ s.normal = x /\ s.delayed = r.delayed
        /\ s.expedited = r.expedited
    BY <2>1 DEF PeerRecords
  <2> QED
    BY <1>1, <1>2, <1>3, <2>2 DEF s
<1>4. CASE priority = "delayed"
  <2>1. s = [r EXCEPT !.delayed = y]
    BY <1>2, <1>4 DEF Queue
  <2> HIDE DEF s
  <2>2. /\ s.status = r.status /\ s.deferred = r.deferred
        /\ s.condition = r.condition /\ s.peerExtenders = r.peerExtenders
        /\ s.needsUpdate = r.needsUpdate /\ s.normal = r.normal /\ s.delayed = y
        /\ s.expedited = r.expedited
    BY <2>1 DEF PeerRecords
  <2> QED
    BY <1>1, <1>2, <1>4, <2>2 DEF s
<1>5. CASE priority = "expedited"
  <2>1. s = [r EXCEPT !.expedited = z]
    BY <1>2, <1>5 DEF Queue
  <2> HIDE DEF s
  <2>2. /\ s.status = r.status /\ s.deferred = r.deferred
        /\ s.condition = r.condition /\ s.peerExtenders = r.peerExtenders
        /\ s.needsUpdate = r.needsUpdate /\ s.normal = r.normal /\ s.delayed = r.delayed
        /\ s.expedited = z
    BY <2>1 DEF PeerRecords
  <2> QED
    BY <1>1, <1>2, <1>5, <2>2 DEF s
<1> QED
  BY <1>3, <1>4, <1>5 DEF Queues

\* A queue grows by at most a message that brings no list, and by one of an extender only if u of
\* them have been sent.
AddsTo(q, t, u) ==
    t = q \/ \E k \in Messages : t = Append(q, k) /\ ~IsList(k) /\ (IsExtender(k) => u # 0)

\* The messages of a key update.
LEMMA UpdateIsPlain ==
    ASSUME NEW type \in UpdateTypes, NEW n \in Numbers
    PROVE  LET k == Msg(type, n, None) IN k \in Messages /\ ~IsList(k) /\ ~IsExtender(k)
<1>1. type \in Types /\ None \in Counters
  BY RepliesAreKnown, KnownTypes DEF UpdateTypes, Counters
<1>2. Msg(type, n, None) \in Messages /\ Msg(type, n, None).type = type
  BY <1>1, MessageType
<1> QED
  BY <1>2 DEF IsList, IsExtender, ListTypes, SessionTypes, UpdateTypes

LEMMA BeginUpdateSide ==
    ASSUME NEW p, NEW r \in PeerRecords, NEW m \in Messages
    PROVE  LET s == BeginUpdateMessage(p, r, m).peer
           IN  s \in PeerRecords /\ Side(s) = Side(r) /\ AddsTo(r.normal, s.normal, 0)
<1> DEFINE a == SetUpdateStatus(r, "PrimaryExchange")
           b == [a EXCEPT !.exchange = m.n]
           d == [b EXCEPT !.keys = ExchangeKeys(@, "BeginPrimary", m.n)]
           k == Msg("EndPrimaryUpdate", m.n, None)
           q == Queue(d, k, "normal")
           e == SetUpdateStatus(q, "SecondaryExchange")
<1>1. a \in PeerRecords /\ Side(a) = Side(r) /\ a.normal = r.normal
  BY UpdateStatusSide DEF UpdateStatuses
<1>2. m.n \in Numbers
  BY DEF Messages
<1>11. d = [a EXCEPT !.exchange = m.n, !.keys = ExchangeKeys(@, "BeginPrimary", m.n)]
  <2> HIDE DEF a
  <2> QED
    BY <1>1 DEF PeerRecords
<1>12. BeginUpdateMessage(p, r, m).peer \in {r, a, e}
  BY <1>11 DEF BeginUpdateMessage, Unhandled, Done
<1> HIDE DEF a
<1>3. b \in PeerRecords /\ Side(b) = Side(a) /\ b.normal = a.normal
  BY <1>1, <1>2 DEF PeerRecords, Side
<1> HIDE DEF b
<1>4. d \in PeerRecords /\ Side(d) = Side(b) /\ d.normal = b.normal
  BY <1>2, <1>3, KeysSide
<1> HIDE DEF d
<1>5. k \in Messages /\ ~IsList(k) /\ ~IsExtender(k)
  BY <1>2, UpdateIsPlain DEF UpdateTypes
<1> HIDE DEF k
<1>6. q \in PeerRecords /\ Side(q) = Side(d) /\ q.normal = Append(d.normal, k)
  <2>1. "normal" \in Queues
    BY DEF Queues
  <2>2. /\ q \in PeerRecords /\ q.status = d.status /\ q.deferred = d.deferred
        /\ q.condition = d.condition /\ q.peerExtenders = d.peerExtenders
        /\ q.needsUpdate = d.needsUpdate
        /\ q.normal = Append(d.normal, k) /\ q.delayed = d.delayed /\ q.expedited = d.expedited
    BY <1>4, <1>5, <2>1, QueueSide
  <2> HIDE DEF q
  <2> QED
    BY <2>2 DEF Side
<1> HIDE DEF q
<1>7. e \in PeerRecords /\ Side(e) = Side(q) /\ e.normal = q.normal
  BY <1>6, UpdateStatusSide DEF UpdateStatuses
<1> HIDE DEF e
<1>8. AddsTo(r.normal, e.normal, 0)
  BY <1>1, <1>3, <1>4, <1>5, <1>6, <1>7 DEF AddsTo
<1>9. AddsTo(r.normal, r.normal, 0) /\ AddsTo(r.normal, a.normal, 0)
  BY <1>1 DEF AddsTo
<1> QED
  BY <1>1, <1>3, <1>4, <1>6, <1>7, <1>8, <1>9, <1>12

LEMMA KeyUpdateSide ==
    ASSUME NEW p, NEW r \in PeerRecords, NEW m \in Messages
    PROVE  LET s == KeyUpdateMessage(p, r, m).peer
           IN  /\ s \in PeerRecords /\ Side(s) = Side(r) /\ AddsTo(r.normal, s.normal, 0)
               /\ KeyUpdateMessage(p, r, m).handled => ~IsList(m)
<1> DEFINE steps == {s \in UpdateSteps : s.side = p /\ s.at = r.update /\ s.type = m.type}
           step  == CHOOSE s \in steps : TRUE
           keyed == [r EXCEPT !.keys = ExchangeKeys(@, Exchange(m.type), r.exchange)]
           k     == Msg(step.reply, r.exchange, None)
           sent  == IF step.reply = None THEN keyed ELSE Queue(keyed, k, "normal")
           next  == SetUpdateStatus(sent, step.next)
           last  == SetUpdateStatus(next, "UpdateWait")
<1>0. AddsTo(r.normal, r.normal, 0)
  BY DEF AddsTo
<1>1. CASE m.type = "BeginPrimaryUpdate"
  <2>1. ~IsList(m)
    BY <1>1 DEF IsList, ListTypes, SessionTypes
  <2>2. KeyUpdateMessage(p, r, m) = BeginUpdateMessage(p, r, m)
    BY <1>1 DEF KeyUpdateMessage
  <2> QED
    BY <2>1, <2>2, BeginUpdateSide
<1>2. CASE m.type # "BeginPrimaryUpdate" /\ steps = {}
  <2>1. KeyUpdateMessage(p, r, m).peer = r /\ ~KeyUpdateMessage(p, r, m).handled
    BY <1>2 DEF KeyUpdateMessage, Unhandled
  <2> QED
    BY <1>0, <2>1
<1>3. CASE m.type # "BeginPrimaryUpdate" /\ steps # {}
  <2>1. step \in UpdateSteps /\ step.type = m.type
    BY <1>3
  <2>7. KeyUpdateMessage(p, r, m).peer \in {next, last}
    BY <1>3 DEF KeyUpdateMessage, Done
  <2> HIDE DEF step
  <2>2. r.exchange \in Numbers
    BY DEF PeerRecords
  <2>3. keyed \in PeerRecords /\ Side(keyed) = Side(r) /\ keyed.normal = r.normal
    BY <2>2, KeysSide
  <2> HIDE DEF keyed
  <2>4. sent \in PeerRecords /\ Side(sent) = Side(r) /\ AddsTo(r.normal, sent.normal, 0)
    <3>1. CASE step.reply = None
      BY <1>0, <2>3, <3>1
    <3>2. CASE step.reply # None
      <4>1. step.reply \in UpdateTypes
        BY <2>1, <3>2, UpdateStepKinds DEF UpdateTypes
      <4>2. k \in Messages /\ ~IsList(k) /\ ~IsExtender(k)
        BY <2>2, <4>1, UpdateIsPlain
      <4> DEFINE q == Queue(keyed, k, "normal")
      <4>3. "normal" \in Queues
        BY DEF Queues
      <4> HIDE DEF k
      <4>4. /\ q \in PeerRecords /\ q.status = keyed.status /\ q.deferred = keyed.deferred
            /\ q.condition = keyed.condition /\ q.peerExtenders = keyed.peerExtenders
            /\ q.needsUpdate = keyed.needsUpdate
            /\ q.normal = Append(keyed.normal, k) /\ q.delayed = keyed.delayed
            /\ q.expedited = keyed.expedited
        BY <2>3, <4>2, <4>3, QueueSide
      <4>5. sent = q
        BY <3>2
      <4> HIDE DEF q, sent
      <4>6. Side(q) = Side(keyed)
        BY <4>4 DEF Side
      <4>7. AddsTo(r.normal, q.normal, 0)
        BY <2>3, <4>2, <4>4 DEF AddsTo
      <4> QED
        BY <2>3, <4>4, <4>5, <4>6, <4>7
    <3> QED
      BY <3>1, <3>2
  <2> HIDE DEF sent
  <2>5. next \in PeerRecords /\ Side(next) = Side(sent) /\ next.normal = sent.normal
    BY <2>1, <2>4, UpdateStepKinds, UpdateStatusSide
  <2> HIDE DEF next
  <2>6. last \in PeerRecords /\ Side(last) = Side(next) /\ last.normal = next.normal
    BY <2>5, UpdateStatusSide DEF UpdateStatuses
  <2>8. ~IsList(m)
    <3>1. \A s \in UpdateSteps : s.type \notin ListTypes
      BY DEF UpdateSteps, Step, ListTypes, SessionTypes
    <3> QED
      BY <2>1, <3>1 DEF IsList
  <2> HIDE DEF last
  <2> QED
    BY <2>4, <2>5, <2>6, <2>7, <2>8
<1> QED
  BY <1>1, <1>2, <1>3

\* What becomes of the queue of messages with a list: plain messages, or the list itself.
Utters(p, r, s, n, u) ==
    \/ AddsTo(r.normal, s.normal, u) /\ (s.status \notin BeforeSession(p) => r.status \notin BeforeSession(p))
    \/ \E k \in Messages : s.normal = Append(r.normal, k) /\ IsList(k) /\ k.n = n

\* A message is handled: what the end knows, and what it tells in turn.
Handed(p, r, m, s) ==
    /\ s \in PeerRecords
    /\ s.peerExtenders = After(r.peerExtenders, m)
    /\ s.deferred = r.deferred /\ s.expedited = r.expedited /\ s.needsUpdate = r.needsUpdate
    /\ s.status \in {"Suspended", "Disconnected"} => s.status = r.status
    /\ AddsTo(r.delayed, s.delayed, 0)
    /\ Utters(p, r, s, extenders[p], 0)

LEMMA ReadyHands ==
    ASSUME NEW p \in Peers, NEW r \in PeerRecords, NEW m \in Messages, NEW late, ReadyMessage(p, r, m, late).handled,
           r.held < ReceiveRoom \/ ~IsExtender(m),
           m.type = "ExtenderUpdate" => r.status = "Ready"
    PROVE  Handed(p, r, m, ReadyMessage(p, r, m, late).peer)
<1> DEFINE s == ReadyMessage(p, r, m, late).peer
<1>0. AddsTo(r.normal, r.normal, 0) /\ AddsTo(r.delayed, r.delayed, 0)
  BY DEF AddsTo
<1>1. ASSUME NEW t \in PeerRecords, Side(t) = Side(r), AddsTo(r.normal, t.normal, 0), ~IsList(m)
      PROVE  Handed(p, r, m, t)
  <2>1. /\ t.status = r.status /\ t.delayed = r.delayed /\ t.expedited = r.expedited
        /\ t.deferred = r.deferred /\ t.peerExtenders = r.peerExtenders
        /\ t.needsUpdate = r.needsUpdate
    BY <1>1 DEF Side
  <2>2. Utters(p, r, t, extenders[p], 0)
    BY <1>1, <2>1 DEF Utters
  <2> QED
    BY <1>0, <1>1, <2>1, <2>2 DEF Handed, After
<1>2. CASE IsExtender(m)
  <2>1. s = [r EXCEPT !.held = @ + 1] \/ s = r
    BY <1>2 DEF ReadyMessage, ExtenderMessage, Unhandled, Failed, Done, IsExtender
  <2>2. r.held \in 0 .. ReceiveRoom /\ r.held < ReceiveRoom /\ ReceiveRoom \in Nat
    BY <1>2, PeerSessionAssumption DEF PeerRecords
  <2>3. r.held + 1 \in 0 .. ReceiveRoom
    BY <2>2
  <2> HIDE DEF s
  <2>4. s \in PeerRecords /\ Side(s) = Side(r) /\ s.normal = r.normal
    BY <2>1, <2>3 DEF PeerRecords, Side
  <2>5. ~IsList(m)
    BY <1>2 DEF IsList, IsExtender, ListTypes, SessionTypes
  <2> QED
    BY <1>0, <1>1, <2>4, <2>5 DEF s
<1>3. CASE m.type = "ExtenderUpdate"
  <2>1. s = [r EXCEPT !.peerExtenders = m.n] /\ m.n \in Numbers
    BY <1>3 DEF ReadyMessage, Done, Messages
  <2> HIDE DEF s
  <2>2. /\ s \in PeerRecords /\ s.peerExtenders = m.n
        /\ s.status = r.status /\ s.delayed = r.delayed /\ s.expedited = r.expedited
        /\ s.deferred = r.deferred /\ s.needsUpdate = r.needsUpdate /\ s.normal = r.normal
    BY <2>1 DEF PeerRecords
  <2>3. After(r.peerExtenders, m) = m.n
    BY <1>3 DEF After, IsList, ListTypes
  <2>4. Utters(p, r, s, extenders[p], 0)
    BY <1>0, <2>2 DEF Utters
  <2>5. Handed(p, r, m, s)
    BY <1>0, <2>2, <2>3, <2>4 DEF Handed
  <2> QED
    BY <2>5 DEF s
<1>4. CASE ~IsExtender(m) /\ m.type # "ExtenderUpdate"
  <2>1. ReadyMessage(p, r, m, late) = KeyUpdateMessage(p, r, m)
    BY <1>4 DEF ReadyMessage, IsExtender
  <2>2. /\ s \in PeerRecords /\ Side(s) = Side(r) /\ AddsTo(r.normal, s.normal, 0)
        /\ ~IsList(m)
    BY <2>1, KeyUpdateSide
  <2> QED
    BY <1>1, <2>2
<1> QED
  BY <1>2, <1>3, <1>4

\* The answer to a message of the handshake.
LEMMA ReplyUtters ==
    ASSUME NEW p \in Peers, NEW r \in PeerRecords, NEW c \in CounterStarts, extenders \in [Peers -> Nat],
           NEW type \in EarlyReplies \cup SessionTypes \cup {"EndAuthentication", None}
    PROVE  LET s == Reply(p, r, type, c)
           IN  /\ s \in PeerRecords /\ s.status = r.status /\ s.deferred = r.deferred
               /\ s.expedited = r.expedited /\ s.needsUpdate = r.needsUpdate
               /\ s.condition = r.condition /\ s.peerExtenders = r.peerExtenders
               /\ AddsTo(r.delayed, s.delayed, 0)
               /\ IF type \in SessionTypes
                  THEN \E k \in Messages : s.normal = Append(r.normal, k) /\ IsList(k)
                                           /\ k.n = extenders[p]
                  ELSE s.normal = r.normal
<1> DEFINE s == Reply(p, r, type, c)
<1>0. None \notin Types /\ None \notin SessionTypes
  BY RepliesAreKnown, PeerSessionAssumption DEF SessionTypes
<1>1. CASE type = None
  <2>1. s = r
    BY <1>1 DEF Reply
  <2> QED
    BY <1>0, <1>1, <2>1 DEF AddsTo
<1>2. CASE type \in SessionTypes
  <2> DEFINE a == [r EXCEPT !.localCounter = c]
             m == Msg(type, extenders[p], NextCounter(c))
  <2>1. type \in Types /\ c \in Counters /\ extenders[p] \in Numbers /\ type # None
    BY <1>0, <1>2, RepliesAreKnown, PeerSessionAssumption DEF Counters, Numbers, SessionTypes
  <2>2. NextCounter(c) \in Counters
    BY <2>1, NextCounterType
  <2>3. m \in Messages /\ IsList(m) /\ m.n = extenders[p]
    <3>1. m \in Messages /\ m.type = type
      BY <2>1, <2>2, MessageType, ZenonT(60)
    <3>2. m.n = extenders[p]
      BY DEF Msg
    <3> QED
      BY <1>2, <3>1, <3>2 DEF IsList, ListTypes
  <2>4. s = Queue(a, m, "normal")
    BY <1>2, <2>1 DEF Reply, SessionTypes
  <2>5. /\ a \in PeerRecords /\ a.status = r.status /\ a.deferred = r.deferred
        /\ a.expedited = r.expedited /\ a.needsUpdate = r.needsUpdate /\ a.delayed = r.delayed
        /\ a.condition = r.condition /\ a.peerExtenders = r.peerExtenders /\ a.normal = r.normal
    BY <2>1 DEF PeerRecords
  <2> HIDE DEF a, m, s
  <2>6. "normal" \in Queues
    BY DEF Queues
  <2>7. /\ s \in PeerRecords /\ s.status = a.status /\ s.deferred = a.deferred
        /\ s.condition = a.condition /\ s.peerExtenders = a.peerExtenders
        /\ s.needsUpdate = a.needsUpdate
        /\ s.normal = Append(a.normal, m) /\ s.delayed = a.delayed /\ s.expedited = a.expedited
    BY <2>3, <2>4, <2>5, <2>6, QueueSide
  <2>8. AddsTo(r.delayed, s.delayed, 0)
    BY <2>5, <2>7 DEF AddsTo
  <2>9. \E k \in Messages : s.normal = Append(r.normal, k) /\ IsList(k) /\ k.n = extenders[p]
    BY <2>3, <2>5, <2>7
  <2> QED
    BY <1>2, <2>5, <2>7, <2>8, <2>9 DEF s
<1>3. CASE type \in EarlyReplies \cup {"EndAuthentication"}
  <2> DEFINE m == Msg(type, 0, None)
  <2>1. type \in Types /\ 0 \in Numbers /\ None \in Counters /\ type # None
        /\ type \notin SessionTypes
    BY <1>0, <1>3, RepliesAreKnown DEF Counters, Numbers, EarlyReplies, SessionTypes
  <2>2. m \in Messages /\ ~IsList(m) /\ ~IsExtender(m)
    <3>1. m \in Messages /\ m.type = type
      BY <2>1, MessageType
    <3> QED
      BY <1>3, <3>1 DEF IsList, IsExtender, ListTypes, SessionTypes, EarlyReplies
  <2>3. s = Queue(r, m, "delayed")
    BY <2>1 DEF Reply, SessionTypes
  <2> HIDE DEF m, s
  <2>4. "delayed" \in Queues
    BY DEF Queues
  <2>5. /\ s \in PeerRecords /\ s.status = r.status /\ s.deferred = r.deferred
        /\ s.condition = r.condition /\ s.peerExtenders = r.peerExtenders
        /\ s.needsUpdate = r.needsUpdate
        /\ s.normal = r.normal /\ s.delayed = Append(r.delayed, m) /\ s.expedited = r.expedited
    BY <2>2, <2>3, <2>4, QueueSide
  <2>6. AddsTo(r.delayed, s.delayed, 0)
    BY <2>2, <2>5 DEF AddsTo
  <2> QED
    BY <2>1, <2>5, <2>6 DEF s
<1> QED
  BY <1>1, <1>2, <1>3

LEMMA EnterSide ==
    ASSUME NEW r \in PeerRecords, NEW status \in Statuses
    PROVE  LET s == Enter(r, status)
           IN  /\ s \in PeerRecords /\ s.status = status /\ s.deferred = r.deferred
               /\ s.expedited = r.expedited /\ s.needsUpdate = r.needsUpdate
               /\ s.condition = r.condition /\ s.peerExtenders = r.peerExtenders
               /\ s.delayed = r.delayed /\ s.normal = r.normal
<1> DEFINE a == [r EXCEPT !.status = status]
           b == ReleaseKeyExchange(a)
           d == SetUpdateStatus(b, "UpdateWait")
<1>1. /\ a \in PeerRecords /\ a.status = status /\ a.deferred = r.deferred
      /\ a.expedited = r.expedited /\ a.needsUpdate = r.needsUpdate
      /\ a.condition = r.condition /\ a.peerExtenders = r.peerExtenders
      /\ a.delayed = r.delayed /\ a.normal = r.normal
  BY DEF PeerRecords
<1>2. Enter(r, status) = IF status = "Ready" THEN d ELSE a
  BY DEF Enter, EnterReady
<1> HIDE DEF a
<1>3. b \in PeerRecords /\ Side(b) = Side(a) /\ b.normal = a.normal
  BY <1>1, ReleaseSide
<1> HIDE DEF b
<1>4. d \in PeerRecords /\ Side(d) = Side(b) /\ d.normal = b.normal
  BY <1>3, UpdateStatusSide DEF UpdateStatuses
<1> HIDE DEF d
<1>5. /\ d.status = a.status /\ d.deferred = a.deferred
      /\ d.expedited = a.expedited /\ d.needsUpdate = a.needsUpdate
      /\ d.condition = a.condition /\ d.peerExtenders = a.peerExtenders
      /\ d.delayed = a.delayed /\ d.normal = a.normal
  BY <1>3, <1>4 DEF Side
<1> QED
  BY <1>1, <1>2, <1>4, <1>5

LEMMA HandshakeHands ==
    ASSUME NEW p \in Peers, NEW r \in PeerRecords, r.status \in NotReady, r.condition = None,
           NEW m \in Messages, NEW c \in CounterStarts, extenders \in [Peers -> Nat],
           HandshakeMessage(p, r, m, c).handled, HandshakeMessage(p, r, m, c).peer.condition = None
    PROVE  Handed(p, r, m, HandshakeMessage(p, r, m, c).peer)
<1> DEFINE steps == {s \in HandshakeSteps : s.side = p /\ s.at = r.status /\ s.type = m.type}
           step  == CHOOSE s \in steps : TRUE
           seen  == IF m.type \in {"BeginSessionInit", "EndSessionInit"}
                    THEN [r EXCEPT !.peerCounter = m.counter, !.peerExtenders = m.n]
                    ELSE [r EXCEPT !.keys = ExchangeKeys(@, m.type, 0)]
           t == Reply(p, seen, step.reply, c)
           s == Enter(t, step.next)
<1>1. steps # {}
  BY DEF HandshakeMessage, Unhandled
<1>2. HandshakeMessage(p, r, m, c).peer = s
  <2>1. CASE m.type \in {"BeginAuthentication", "EndAuthentication"} /\ ~r.accepts
    <3>1. HandshakeMessage(p, r, m, c).peer = Condemn(r, "PeerNotAllowed")
      BY <1>1, <2>1 DEF HandshakeMessage, Done
    <3> QED
      BY <3>1, CondemnFields DEF Conditions
  <2>2. CASE ~(m.type \in {"BeginAuthentication", "EndAuthentication"} /\ ~r.accepts)
    BY <1>1, <2>2 DEF HandshakeMessage, Done
  <2> QED
    BY <2>1, <2>2
<1>3. /\ step \in HandshakeSteps /\ step.side = p /\ step.at = r.status /\ step.type = m.type
  BY <1>1
<1> HIDE DEF step
<1>4. /\ seen \in PeerRecords /\ seen.peerExtenders = After(r.peerExtenders, m)
      /\ seen.status = r.status /\ seen.delayed = r.delayed /\ seen.expedited = r.expedited
      /\ seen.deferred = r.deferred /\ seen.needsUpdate = r.needsUpdate /\ seen.normal = r.normal
  <2>1. CASE m.type \in SessionTypes
    <3>1. seen = [r EXCEPT !.peerCounter = m.counter, !.peerExtenders = m.n]
      BY <2>1 DEF SessionTypes
    <3> HIDE DEF seen
    <3>2. m.n \in Numbers /\ m.counter \in Counters
      BY DEF Messages
    <3>3. /\ seen \in PeerRecords /\ seen.peerExtenders = m.n
          /\ seen.status = r.status /\ seen.delayed = r.delayed /\ seen.expedited = r.expedited
          /\ seen.deferred = r.deferred /\ seen.needsUpdate = r.needsUpdate
          /\ seen.normal = r.normal
      BY <3>1, <3>2 DEF PeerRecords
    <3>4. After(r.peerExtenders, m) = m.n
      BY <2>1 DEF After, IsList, ListTypes
    <3> QED
      BY <3>3, <3>4
  <2>2. CASE m.type \notin SessionTypes
    <3>1. seen = [r EXCEPT !.keys = ExchangeKeys(@, m.type, 0)]
      BY <2>2 DEF SessionTypes
    <3>2. 0 \in Numbers
      BY DEF Numbers
    <3> DEFINE z == [r EXCEPT !.keys = ExchangeKeys(@, m.type, 0)]
    <3>3. z \in PeerRecords /\ Side(z) = Side(r) /\ z.normal = r.normal
      BY <3>2, KeysSide
    <3>4. seen = z
      BY <3>1
    <3> HIDE DEF seen, z
    <3>5. m.type # "ExtenderUpdate"
      <4>1. \A x \in HandshakeSteps : x.type # "ExtenderUpdate"
        BY DEF HandshakeSteps, Step
      <4> QED
        BY <1>3, <4>1
    <3>6. After(r.peerExtenders, m) = r.peerExtenders
      BY <2>2, <3>5 DEF After, IsList, ListTypes
    <3> QED
      BY <3>3, <3>4, <3>6 DEF Side
  <2> QED
    BY <2>1, <2>2
<1> HIDE DEF seen
<1>5. step.reply \in EarlyReplies \cup SessionTypes \cup {"EndAuthentication", None}
      /\ step.next \in Statuses /\ step.next \notin {"Suspended", "Disconnected"}
  <2>1. step.next \in NotReady \cup {"Ready"}
    BY <1>3, HandshakeStepKinds, StatusNames
  <2> QED
    BY <1>3, <2>1, HandshakeStepKeys, StatusSet, StatusNames
<1>6. /\ t \in PeerRecords /\ t.status = seen.status /\ t.deferred = seen.deferred
      /\ t.expedited = seen.expedited /\ t.needsUpdate = seen.needsUpdate
      /\ t.condition = seen.condition /\ t.peerExtenders = seen.peerExtenders
      /\ AddsTo(seen.delayed, t.delayed, 0)
      /\ IF step.reply \in SessionTypes
         THEN \E k \in Messages : t.normal = Append(seen.normal, k) /\ IsList(k) /\ k.n = extenders[p]
         ELSE t.normal = seen.normal
  BY <1>4, <1>5, ReplyUtters
<1> HIDE DEF t
<1>7. /\ s \in PeerRecords /\ s.status = step.next /\ s.deferred = t.deferred
      /\ s.expedited = t.expedited /\ s.needsUpdate = t.needsUpdate
      /\ s.condition = t.condition /\ s.peerExtenders = t.peerExtenders
      /\ s.delayed = t.delayed /\ s.normal = t.normal
  BY <1>5, <1>6, EnterSide
<1> HIDE DEF s
<1>8. Utters(p, r, s, extenders[p], 0)
  <2>1. CASE step.reply \in SessionTypes
    BY <1>4, <1>6, <1>7, <2>1 DEF Utters
  <2>2. CASE step.reply \notin SessionTypes
    <3>1. AddsTo(r.normal, s.normal, 0)
      BY <1>4, <1>6, <1>7, <2>2 DEF AddsTo
    <3>2. step.next \notin BeforeSession(p) => step.at \notin BeforeSession(p)
      BY <1>3, <2>2, HandshakeStepKinds, StatusNames DEF BeforeSession, SessionTypes
    <3> QED
      BY <1>3, <1>7, <3>1, <3>2 DEF Utters
  <2> QED
    BY <2>1, <2>2
<1>9. Handed(p, r, m, s)
  BY <1>4, <1>5, <1>6, <1>7, <1>8 DEF Handed
<1> QED
  BY <1>2, <1>9

\* Any message that does not end the session.
LEMMA ProcessHands ==
    ASSUME NEW p \in Peers, NEW r \in PeerRecords, r.status # "Disconnected", r.condition = None,
           NEW m \in Messages, HasRoom(r, m), NEW c \in CounterStarts, NEW late, extenders \in [Peers -> Nat],
           m.type = "ExtenderUpdate" => r.status # "Suspended",
           ProcessMessage(p, r, m, c, late).condition = None
    PROVE  Handed(p, r, m, ProcessMessage(p, r, m, c, late))
<1> DEFINE s == ProcessMessage(p, r, m, c, late)
           why == "ReceiveError"
<1>1. ASSUME NEW t \in PeerRecords, s = Condemn(t, why)
      PROVE  FALSE
  BY <1>1, CondemnFields DEF Conditions
<1>2. CASE IsReady(r)
  <2> DEFINE result == ReadyMessage(p, r, m, late)
  <2>1. r.status \in {"Ready", "Suspended"} /\ r.status \notin NotReady
    BY <1>2 DEF IsReady, NotReady, Handshaking
  <2>2. result.peer \in PeerRecords
    BY <2>1, ReadyMessageOrdinary DEF Ordinary
  <2>3. s = IF ~result.handled THEN Condemn(result.peer, why)
            ELSE IF ~result.success /\ Stage(result.peer.status) < Stage("Ready")
            THEN Condemn(result.peer, why) ELSE result.peer
    BY <2>1 DEF ProcessMessage
  <2>4. result.handled /\ s = result.peer
    BY <1>1, <2>2, <2>3
  <2>5. /\ r.held < ReceiveRoom \/ ~IsExtender(m)
        /\ m.type = "ExtenderUpdate" => r.status = "Ready"
    BY <2>1 DEF HasRoom, IsExtender
  <2>6. Handed(p, r, m, result.peer)
    BY <2>4, <2>5, ReadyHands
  <2> QED
    BY <2>4, <2>6
<1>3. CASE ~IsReady(r)
  <2> DEFINE result == HandshakeMessage(p, r, m, c)
  <2>1. r.status \in NotReady /\ r.status \notin {"Ready", "Suspended"}
    BY <1>3, StatusSet DEF IsReady, PeerRecords
  <2>2. s = IF ~result.handled THEN Condemn(result.peer, why)
            ELSE IF ~result.success /\ Stage(result.peer.status) < Stage("Ready")
            THEN Condemn(result.peer, why) ELSE result.peer
    BY <2>1 DEF ProcessMessage
  <2>3. ~result.handled => result.peer = r
    BY DEF HandshakeMessage, Unhandled, Done
  <2>4. result.handled => result.success
    BY DEF HandshakeMessage, Unhandled, Done
  <2>5. result.handled /\ s = result.peer
    BY <1>1, <2>2, <2>3, <2>4
  <2>6. Handed(p, r, m, result.peer)
    BY <2>1, <2>5, HandshakeHands
  <2> QED
    BY <2>5, <2>6
<1> QED
  BY <1>2, <1>3

-----------------------------------------------------------------------------
(* Steps of one end.                                                        *)

LEMMA TellMove ==
    ASSUME SessionInv, TellNow, NEW p \in Peers, NEW s, peer' = [peer EXCEPT ![p] = s],
           NEW wp, NEW wq, wire'[p] = wp, wire'[Other(p)] = wq, extenders' = extenders,
           unannounced'[Other(p)] = unannounced[Other(p)],
           suspended'[Other(p)] = suspended[Other(p)],
           used'.messages = 0 => used.messages = 0,
           used'.suspensions = 0 => used.suspensions = 0,
           \A v : Chain(peer[p].deferred, wire[p], peer[Other(p)].normal, peer[p].peerExtenders, v)
                    => Chain(s.deferred, wp, peer[Other(p)].normal, s.peerExtenders, v),
           \A v : Chain(peer[Other(p)].deferred, wire[Other(p)], peer[p].normal,
                        peer[Other(p)].peerExtenders, v)
                  /\ (Speaks(p, peer[p], unannounced[p]) => v = extenders[p])
                    => \E x : /\ Chain(peer[Other(p)].deferred, wq, s.normal,
                                       peer[Other(p)].peerExtenders, x)
                              /\ Speaks(p, s, unannounced'[p]) => x = extenders[p],
           s.status # "Disconnected", \A i \in 1 .. Len(s.delayed) : ~IsList(s.delayed[i]),
           used'.messages = 0 => Idle(s) /\ NoExtenders(Bodies(wp)) /\ NoExtenders(Bodies(wq)),
           used'.suspensions = 0 => suspended'[p] = FALSE /\ s.status # "Suspended"
    PROVE  TellInv'
<1> DEFINE o == Other(p)
<1>1. /\ o \in Peers /\ o # p /\ Other(o) = p /\ \A q \in Peers : q = p \/ q = o
      /\ peer'[p] = s /\ peer'[o] = peer[o]
  BY Ends DEF SessionInv, PartsOK
<1>2. Tells(p) /\ Tells(o) /\ Calm(o)
  BY <1>1 DEF TellNow
<1> HIDE DEF o
<1>3. Tells(p)'
  <2>1. PICK v : /\ Chain(peer[o].deferred, wire[o], peer[p].normal, peer[o].peerExtenders, v)
                 /\ Speaks(p, peer[p], unannounced[p]) => v = extenders[p]
    BY <1>2 DEF Tells, o
  <2>2. PICK x : /\ Chain(peer[o].deferred, wq, s.normal, peer[o].peerExtenders, x)
                 /\ Speaks(p, s, unannounced'[p]) => x = extenders[p]
    BY <2>1 DEF o
  <2> QED
    BY <1>1, <2>2 DEF Tells, o
<1>4. Tells(o)'
  <2>1. PICK v : /\ Chain(peer[p].deferred, wire[p], peer[o].normal, peer[p].peerExtenders, v)
                 /\ Speaks(o, peer[o], unannounced[o]) => v = extenders[o]
    BY <1>1, <1>2 DEF Tells
  <2>2. Chain(s.deferred, wp, peer[o].normal, s.peerExtenders, v)
    BY <2>1 DEF o
  <2>3. unannounced'[o] = unannounced[o]
    BY DEF o
  <2> QED
    BY <1>1, <2>1, <2>2, <2>3 DEF Tells
<1>5. Calm(p)'
  BY <1>1 DEF Calm
<1>6. Calm(o)'
  <2>1. suspended'[o] = suspended[o] /\ wire'[o] = wq
    BY DEF o
  <2> QED
    BY <1>1, <1>2, <2>1 DEF Calm
<1> QED
  BY <1>1, <1>3, <1>4, <1>5, <1>6 DEF TellInv, TellNow

LEMMA StillPlain ==
    ASSUME NEW q \in Seq(Messages), NEW t, NEW u, AddsTo(q, t, u)
    PROVE  /\ (\A i \in 1 .. Len(q) : ~IsList(q[i])) => \A i \in 1 .. Len(t) : ~IsList(t[i])
           /\ u = 0 /\ NoExtenders(q) => NoExtenders(t)
           /\ \A d, w, b, v : Chain(d, w, q, b, v) => Chain(d, w, t, b, v)
<1>1. CASE t = q
  BY <1>1
<1>2. ASSUME NEW k \in Messages, t = Append(q, k), ~IsList(k), IsExtender(k) => u # 0
      PROVE  /\ (\A i \in 1 .. Len(q) : ~IsList(q[i])) => \A i \in 1 .. Len(t) : ~IsList(t[i])
             /\ u = 0 /\ NoExtenders(q) => NoExtenders(t)
             /\ \A d, w, b, v : Chain(d, w, q, b, v) => Chain(d, w, t, b, v)
  <2>1. /\ Len(t) = Len(q) + 1 /\ Len(q) \in Nat
        /\ \A i \in 1 .. Len(q) + 1 : \/ i \in 1 .. Len(q) /\ t[i] = q[i]
                                      \/ i = Len(q) + 1 /\ t[i] = k
    BY <1>2, Longer
  <2>2. ASSUME NEW d, NEW w, NEW b, NEW v, Chain(d, w, q, b, v)
        PROVE  Chain(d, w, t, b, v)
    <3>1. After(v, k) = v
      BY <1>2 DEF After
    <3> QED
      BY <1>2, <2>2, <3>1, ChainQueued
  <2>3. (\A i \in 1 .. Len(q) : ~IsList(q[i])) => \A i \in 1 .. Len(t) : ~IsList(t[i])
    BY <1>2, <2>1
  <2>4. u = 0 /\ NoExtenders(q) => NoExtenders(t)
    BY <1>2, <2>1 DEF NoExtenders
  <2> QED
    BY <2>2, <2>3, <2>4
<1> QED
  BY <1>1, <1>2 DEF AddsTo

\* A step of an end that neither sends nor receives.
Tame(p, r, s, un, vn, u) ==
    /\ s.peerExtenders = r.peerExtenders /\ s.deferred = r.deferred
    /\ s.expedited = r.expedited \/ u # 0
    /\ AddsTo(r.delayed, s.delayed, u)
    /\ \/ AddsTo(r.normal, s.normal, u) /\ (Speaks(p, s, vn) => Speaks(p, r, un))
       \/ \E k \in Messages : s.normal = Append(r.normal, k) /\ IsList(k) /\ k.n = extenders[p]
    /\ s.status = "Suspended" => r.status = "Suspended" \/ suspended[p] = TRUE
    /\ s.status = "Disconnected" => r.status = "Disconnected"

\* A list that is queued is the list.
LEMMA ListQueued ==
    ASSUME NEW q \in Seq(Messages), NEW t, NEW k \in Messages, t = Append(q, k), IsList(k)
    PROVE  /\ \A d, w, b, v : Chain(d, w, q, b, v) => Chain(d, w, t, b, k.n)
           /\ NoExtenders(q) => NoExtenders(t)
<1>1. ASSUME NEW d, NEW w, NEW b, NEW v, Chain(d, w, q, b, v)
      PROVE  Chain(d, w, t, b, k.n)
  <2>1. After(v, k) = k.n
    BY DEF After
  <2> QED
    BY <1>1, <2>1, ChainQueued
<1>2. NoExtenders(q) => NoExtenders(t)
  <2>1. /\ Len(t) = Len(q) + 1 /\ Len(q) \in Nat
        /\ \A i \in 1 .. Len(q) + 1 : \/ i \in 1 .. Len(q) /\ t[i] = q[i]
                                      \/ i = Len(q) + 1 /\ t[i] = k
    BY Longer
  <2>2. ~IsExtender(k)
    BY DEF IsList, IsExtender, ListTypes, SessionTypes
  <2> QED
    BY <2>1, <2>2 DEF NoExtenders
<1> QED
  BY <1>1, <1>2

LEMMA TameStep ==
    ASSUME SessionInv, TellNow, NEW p \in Peers, NEW s, peer' = [peer EXCEPT ![p] = s],
           UNCHANGED <<wire, extenders, suspended>>,
           unannounced'[Other(p)] = unannounced[Other(p)],
           used'.messages = 0 => used.messages = 0,
           used'.suspensions = 0 => used.suspensions = 0,
           NEW u, u = used'.messages,
           Tame(p, peer[p], s, unannounced[p], unannounced'[p], u)
    PROVE  TellInv'
<1> DEFINE o == Other(p)
<1>1. /\ Calm(p) /\ Calm(o) /\ o \in Peers
      /\ peer[p].delayed \in Seq(Messages) /\ peer[p].normal \in Seq(Messages)
  BY Ends, ScenarioTypes DEF TellNow, PeerRecords
<1>2. PICK wp, wq : wp = wire[p] /\ wq = wire[o]
  OBVIOUS
<1>3. wire'[p] = wp /\ wire'[Other(p)] = wq
  BY <1>2
<1>4. s.status # "Disconnected" /\ \A i \in 1 .. Len(s.delayed) : ~IsList(s.delayed[i])
  BY <1>1, StillPlain DEF Calm, Tame
<1>5. ASSUME used'.messages = 0
      PROVE  Idle(s) /\ NoExtenders(Bodies(wp)) /\ NoExtenders(Bodies(wq))
  <2>1. Idle(peer[p]) /\ u = 0 /\ NoExtenders(Bodies(wp)) /\ NoExtenders(Bodies(wq))
    BY <1>1, <1>2, <1>5 DEF Calm
  <2>2. NoExtenders(s.delayed)
    BY <1>1, <2>1, StillPlain DEF Tame, Idle
  <2>3. NoExtenders(s.normal)
    <3>1. CASE AddsTo(peer[p].normal, s.normal, u)
      BY <1>1, <2>1, <3>1, StillPlain DEF Idle
    <3>2. ASSUME NEW k \in Messages, s.normal = Append(peer[p].normal, k), IsList(k)
          PROVE  NoExtenders(s.normal)
      BY <1>1, <2>1, <3>2, ListQueued DEF Idle
    <3> QED
      BY <3>1, <3>2 DEF Tame
  <2>4. s.deferred = <<>> /\ s.expedited = <<>>
    BY <2>1 DEF Tame, Idle
  <2> QED
    BY <2>1, <2>2, <2>3, <2>4 DEF Idle
<1>6. used'.suspensions = 0 => suspended'[p] = FALSE /\ s.status # "Suspended"
  BY <1>1 DEF Calm, Tame
<1>7. ASSUME NEW v, Chain(peer[o].deferred, wire[o], peer[p].normal, peer[o].peerExtenders, v),
             Speaks(p, peer[p], unannounced[p]) => v = extenders[p]
      PROVE  \E x : /\ Chain(peer[o].deferred, wq, s.normal, peer[o].peerExtenders, x)
                    /\ Speaks(p, s, unannounced'[p]) => x = extenders[p]
  <2>0. Chain(peer[o].deferred, wq, peer[p].normal, peer[o].peerExtenders, v)
    BY <1>2, <1>7
  <2>1. CASE /\ AddsTo(peer[p].normal, s.normal, u)
             /\ Speaks(p, s, unannounced'[p]) => Speaks(p, peer[p], unannounced[p])
    <3>1. Chain(peer[o].deferred, wq, s.normal, peer[o].peerExtenders, v)
      BY <1>1, <2>0, <2>1, StillPlain
    <3> QED
      BY <1>7, <2>1, <3>1
  <2>2. ASSUME NEW k \in Messages, s.normal = Append(peer[p].normal, k), IsList(k), k.n = extenders[p]
        PROVE  \E x : /\ Chain(peer[o].deferred, wq, s.normal, peer[o].peerExtenders, x)
                      /\ Speaks(p, s, unannounced'[p]) => x = extenders[p]
    <3>0. PICK d, b, q, t : /\ d = peer[o].deferred /\ b = peer[o].peerExtenders
                            /\ q = peer[p].normal /\ t = s.normal
      OBVIOUS
    <3>1. Chain(d, wq, t, b, k.n)
      <4>1. q \in Seq(Messages) /\ t = Append(q, k) /\ Chain(d, wq, q, b, v)
        BY <1>1, <2>0, <2>2, <3>0
      <4> QED
        BY <2>2, <4>1, ListQueued
    <3> QED
      BY <2>2, <3>0, <3>1
  <2> QED
    BY <2>1, <2>2 DEF Tame
<1>8. ASSUME NEW v, Chain(peer[p].deferred, wire[p], peer[o].normal, peer[p].peerExtenders, v)
      PROVE  Chain(s.deferred, wp, peer[o].normal, s.peerExtenders, v)
  BY <1>2, <1>8 DEF Tame
<1>9. \A v : Chain(peer[Other(p)].deferred, wire[Other(p)], peer[p].normal,
                   peer[Other(p)].peerExtenders, v)
             /\ (Speaks(p, peer[p], unannounced[p]) => v = extenders[p])
               => \E x : /\ Chain(peer[Other(p)].deferred, wq, s.normal,
                                  peer[Other(p)].peerExtenders, x)
                         /\ Speaks(p, s, unannounced'[p]) => x = extenders[p]
  BY <1>7
<1>10. suspended'[Other(p)] = suspended[Other(p)] /\ extenders' = extenders
  OBVIOUS
<1> HIDE DEF o
<1>11. \A v : Chain(peer[p].deferred, wire[p], peer[Other(p)].normal, peer[p].peerExtenders, v)
                => Chain(s.deferred, wp, peer[Other(p)].normal, s.peerExtenders, v)
  BY <1>8 DEF o
<1> QED
  BY <1>3, <1>4, <1>5, <1>6, <1>9, <1>10, <1>11, TellMove

-----------------------------------------------------------------------------
(* The actions that neither send nor receive.                               *)

LEMMA TellCondemned ==
    ASSUME SessionInv, NEW p \in Peers, NEW s, s.condition # None, peer' = [peer EXCEPT ![p] = s]
    PROVE  TellInv'
<1>1. peer'[p] = s
  BY DEF SessionInv, PartsOK
<1> QED
  BY <1>1 DEF TellInv, NotCondemned

\* What an end tells and knows stays.
LEMMA SideTame ==
    ASSUME NEW p, NEW r, NEW s, Side(s) = Side(r), AddsTo(r.normal, s.normal, 0), NEW un, NEW u
    PROVE  Tame(p, r, s, un, un, u)
<1>1. /\ s.status = r.status /\ s.delayed = r.delayed /\ s.expedited = r.expedited
      /\ s.deferred = r.deferred /\ s.peerExtenders = r.peerExtenders
      /\ s.needsUpdate = r.needsUpdate
  BY DEF Side
<1>2. AddsTo(r.normal, s.normal, u) /\ AddsTo(r.delayed, s.delayed, u)
  BY <1>1 DEF AddsTo
<1>3. Speaks(p, s, un) => Speaks(p, r, un)
  BY <1>1 DEF Speaks
<1> QED
  BY <1>1, <1>2, <1>3 DEF Tame

LEMMA BeginHandshakeTells ==
    ASSUME SessionInv, TellNow, NEW p \in Peers, BeginHandshake(p)
    PROVE  TellInv'
<1> DEFINE m == IF p = Inbound THEN Msg("BeginMeta", 0, None) ELSE Noise
           r == [peer[p] EXCEPT !.status = "MetaExchange", !.exchange = 0]
           s == Queue(r, m, "delayed")
<1>1. /\ peer' = [peer EXCEPT ![p] = s]
      /\ UNCHANGED <<wire, extenders, suspended, unannounced, used>>
  BY DEF BeginHandshake
<1>2. m \in Messages /\ ~IsList(m) /\ ~IsExtender(m)
  <2>1. "BeginMeta" \in Types /\ "Noise" \in Types /\ 0 \in Numbers /\ None \in Counters
    BY RepliesAreKnown, KnownTypes DEF Numbers, Counters
  <2>2. m \in Messages /\ m.type \in {"BeginMeta", "Noise"}
    BY <2>1, MessageType, PlainMessages
  <2> QED
    BY <2>2 DEF IsList, IsExtender, ListTypes, SessionTypes
<1>3. peer[p] \in PeerRecords
  BY ScenarioTypes
<1>4. /\ r \in PeerRecords /\ r.status = "MetaExchange"
      /\ r.normal = peer[p].normal /\ r.delayed = peer[p].delayed
      /\ r.expedited = peer[p].expedited /\ r.deferred = peer[p].deferred
      /\ r.peerExtenders = peer[p].peerExtenders
  BY <1>3, StatusSet DEF PeerRecords, Numbers, NotReady, Handshaking
<1> HIDE DEF m, r
<1>5. "delayed" \in Queues
  BY DEF Queues
<1>6. /\ s.status = "MetaExchange" /\ s.deferred = r.deferred /\ s.peerExtenders = r.peerExtenders
      /\ s.normal = r.normal /\ s.delayed = Append(r.delayed, m) /\ s.expedited = r.expedited
  BY <1>2, <1>4, <1>5, QueueSide
<1> HIDE DEF s
<1>7. "MetaExchange" \in BeforeSession(p)
  BY StatusNames DEF Handshaking
<1>8. Tame(p, peer[p], s, unannounced[p], unannounced'[p], used'.messages)
  BY <1>2, <1>4, <1>6, <1>7 DEF Tame, AddsTo, Speaks
<1> QED
  BY <1>1, <1>8, TameStep

LEMMA EnableSendTells ==
    ASSUME SessionInv, TellNow, NEW p \in Peers, EnableSend(p)
    PROVE  TellInv'
<1> DEFINE s == [peer[p] EXCEPT !.sendDisabled = FALSE]
<1>1. peer' = [peer EXCEPT ![p] = s] /\ UNCHANGED <<wire, extenders, suspended, unannounced, used>>
  BY DEF EnableSend
<1>2. Side(s) = Side(peer[p]) /\ AddsTo(peer[p].normal, s.normal, 0)
  BY ScenarioTypes DEF PeerRecords, Side, AddsTo
<1> HIDE DEF s
<1>3. Tame(p, peer[p], s, unannounced[p], unannounced'[p], used'.messages)
  BY <1>1, <1>2, SideTame
<1> QED
  BY <1>1, <1>3, TameStep

LEMMA SuspendTells ==
    ASSUME SessionInv, TellNow, NEW p \in Peers, Suspend(p)
    PROVE  TellInv'
<1> DEFINE r == peer[p]
           a == [r EXCEPT !.status = "Suspended"]
           s == SetUpdateStatus(a, "Suspended")
           t == Condemn(a, "GeneralFailure")
<1>1. /\ peer' = [peer EXCEPT ![p] = IF UpdateStatusAllowed(r, "Suspended") THEN s ELSE t]
      /\ UNCHANGED <<wire, extenders, suspended, unannounced, used>>
      /\ r.status = "Ready" /\ suspended[p]
  BY DEF Suspend
<1>2. /\ r \in PeerRecords /\ suspended[p] = TRUE
  BY <1>1, ScenarioTypes DEF RestOK
<1>3. /\ a \in PeerRecords /\ a.status = "Suspended" /\ a.normal = r.normal
      /\ a.delayed = r.delayed /\ a.expedited = r.expedited /\ a.deferred = r.deferred
      /\ a.peerExtenders = r.peerExtenders /\ a.needsUpdate = r.needsUpdate
  BY <1>2, StatusSet DEF PeerRecords
<1> HIDE DEF a
<1>4. CASE UpdateStatusAllowed(r, "Suspended")
  <2>1. s \in PeerRecords /\ Side(s) = Side(a) /\ s.normal = a.normal
    BY <1>3, UpdateStatusSide DEF UpdateStatuses
  <2>2. peer' = [peer EXCEPT ![p] = s]
    BY <1>1, <1>4
  <2> HIDE DEF s
  <2>3. /\ s.status = "Suspended" /\ s.normal = r.normal
        /\ s.delayed = r.delayed /\ s.expedited = r.expedited /\ s.deferred = r.deferred
        /\ s.peerExtenders = r.peerExtenders /\ s.needsUpdate = r.needsUpdate
    BY <1>3, <2>1 DEF Side
  <2>4. "Ready" \notin BeforeSession(p)
    BY StatusNames
  <2>5. Tame(p, r, s, unannounced[p], unannounced'[p], used'.messages)
    BY <1>1, <1>2, <2>3, <2>4 DEF Tame, AddsTo, Speaks
  <2> QED
    BY <1>1, <2>2, <2>5, TameStep
<1>5. CASE ~UpdateStatusAllowed(r, "Suspended")
  <2>1. t.condition # None /\ peer' = [peer EXCEPT ![p] = t]
    BY <1>1, <1>3, <1>5, CondemnFields DEF Conditions
  <2> QED
    BY <2>1, TellCondemned
<1> QED
  BY <1>4, <1>5

LEMMA ResumeTells ==
    ASSUME SessionInv, TellNow, NEW p \in Peers, Resume(p)
    PROVE  TellInv'
<1> DEFINE r == peer[p]
           a == [r EXCEPT !.status = "Ready"]
           s == SetUpdateStatus(a, r.resume)
           t == Condemn(a, "GeneralFailure")
<1>1. /\ peer' = [peer EXCEPT ![p] = IF UpdateStatusAllowed(r, r.resume) THEN s ELSE t]
      /\ UNCHANGED <<wire, extenders, suspended, unannounced, used>>
      /\ r.status = "Suspended"
  BY DEF Resume
<1>2. r \in PeerRecords
  BY ScenarioTypes
<1>3. /\ a \in PeerRecords /\ a.status = "Ready" /\ a.normal = r.normal
      /\ a.delayed = r.delayed /\ a.expedited = r.expedited /\ a.deferred = r.deferred
      /\ a.peerExtenders = r.peerExtenders /\ a.needsUpdate = r.needsUpdate
      /\ r.resume \in UpdateStatuses
  BY <1>2, StatusSet DEF PeerRecords
<1> HIDE DEF a
<1>4. CASE UpdateStatusAllowed(r, r.resume)
  <2>1. s \in PeerRecords /\ Side(s) = Side(a) /\ s.normal = a.normal
    BY <1>3, UpdateStatusSide
  <2>2. peer' = [peer EXCEPT ![p] = s]
    BY <1>1, <1>4
  <2> HIDE DEF s
  <2>3. /\ s.status = "Ready" /\ s.normal = r.normal
        /\ s.delayed = r.delayed /\ s.expedited = r.expedited /\ s.deferred = r.deferred
        /\ s.peerExtenders = r.peerExtenders /\ s.needsUpdate = r.needsUpdate
    BY <1>3, <2>1 DEF Side
  <2>4. "Suspended" \notin BeforeSession(p)
    BY StatusNames
  <2>5. Tame(p, r, s, unannounced[p], unannounced'[p], used'.messages)
    BY <1>1, <2>3, <2>4 DEF Tame, AddsTo, Speaks
  <2> QED
    BY <1>1, <2>2, <2>5, TameStep
<1>5. CASE ~UpdateStatusAllowed(r, r.resume)
  <2>1. t.condition # None /\ peer' = [peer EXCEPT ![p] = t]
    BY <1>1, <1>3, <1>5, CondemnFields DEF Conditions
  <2> QED
    BY <2>1, TellCondemned
<1> QED
  BY <1>4, <1>5

LEMMA QueueNoiseTells ==
    ASSUME SessionInv, TellNow, NEW p \in Peers, QueueNoise(p)
    PROVE  TellInv'
<1> DEFINE r == peer[p]
           s == Queue(r, Noise, "delayed")
<1>1. /\ peer' = [peer EXCEPT ![p] = s] /\ UNCHANGED <<wire, extenders, suspended, unannounced>>
      /\ used' = [used EXCEPT !.noise = @ + 1]
  BY DEF QueueNoise
<1>2. r \in PeerRecords /\ used'.messages = used.messages /\ used'.suspensions = used.suspensions
  BY <1>1, ScenarioTypes DEF RestOK
<1>3. Noise \in Messages /\ ~IsList(Noise) /\ ~IsExtender(Noise)
  BY PlainMessages DEF IsList, IsExtender, ListTypes, SessionTypes
<1>4. "delayed" \in Queues
  BY DEF Queues
<1>5. /\ s.status = r.status /\ s.deferred = r.deferred /\ s.peerExtenders = r.peerExtenders
      /\ s.needsUpdate = r.needsUpdate
      /\ s.normal = r.normal /\ s.delayed = Append(r.delayed, Noise) /\ s.expedited = r.expedited
  BY <1>2, <1>3, <1>4, QueueSide
<1> HIDE DEF s
<1>6. Tame(p, r, s, unannounced[p], unannounced'[p], used'.messages)
  BY <1>1, <1>3, <1>5 DEF Tame, AddsTo, Speaks
<1> QED
  BY <1>1, <1>2, <1>6, TameStep

LEMMA ExtenderSendsTells ==
    ASSUME SessionInv, TellNow, NEW p \in Peers, ExtenderSends(p)
    PROVE  TellInv'
<1>1. PICK priority \in Priorities : peer' = [peer EXCEPT ![p] = Queue(peer[p], Extender, priority)]
  BY DEF ExtenderSends
<1> DEFINE r == peer[p]
           s == Queue(r, Extender, priority)
<1>2. /\ UNCHANGED <<wire, extenders, suspended, unannounced>>
      /\ used' = [used EXCEPT !.messages = @ + 1] /\ peer' = [peer EXCEPT ![p] = s]
  BY <1>1 DEF ExtenderSends
<1>3. r \in PeerRecords /\ used'.messages # 0 /\ used'.suspensions = used.suspensions
  <2>1. used.messages \in Nat
    BY ScenarioTypes DEF RestOK
  <2>2. used'.messages = used.messages + 1 /\ used'.suspensions = used.suspensions
    BY <1>2, ScenarioTypes DEF RestOK
  <2> QED
    BY <2>1, <2>2, ScenarioTypes
<1>4. Extender \in Messages /\ ~IsList(Extender) /\ priority \in Queues
  BY PlainMessages, PeerSessionAssumption DEF IsList, ListTypes, SessionTypes
<1>5. /\ s.status = r.status /\ s.deferred = r.deferred /\ s.peerExtenders = r.peerExtenders
      /\ s.needsUpdate = r.needsUpdate
      /\ s.normal = IF priority = "normal" THEN Append(r.normal, Extender) ELSE r.normal
      /\ s.delayed = IF priority = "delayed" THEN Append(r.delayed, Extender) ELSE r.delayed
  BY <1>3, <1>4, QueueSide
<1> HIDE DEF s
<1>6. Tame(p, r, s, unannounced[p], unannounced'[p], used'.messages)
  <2>1. PICK u : u = used'.messages /\ u # 0
    BY <1>3
  <2>2. AddsTo(r.normal, s.normal, u) /\ AddsTo(r.delayed, s.delayed, u)
    BY <1>4, <1>5, <2>1 DEF AddsTo
  <2> QED
    BY <1>2, <1>5, <2>1, <2>2 DEF Tame, Speaks
<1> QED
  BY <1>2, <1>3, <1>6, TameStep

LEMMA ListMessage ==
    \A n \in Numbers : LET k == Msg("ExtenderUpdate", n, None)
                       IN  k \in Messages /\ IsList(k) /\ k.n = n
<1>1. "ExtenderUpdate" \in Types /\ None \in Counters
  BY KnownTypes DEF Counters
<1> QED
  BY <1>1 DEF IsList, ListTypes, Msg, Messages

LEMMA SendExtenderUpdateTells ==
    ASSUME SessionInv, TellNow, NEW p \in Peers, SendExtenderUpdate(p)
    PROVE  TellInv'
<1> DEFINE r == peer[p]
           a == [r EXCEPT !.needsUpdate = FALSE]
           k == Msg("ExtenderUpdate", extenders[p], None)
           s == Queue(a, k, "normal")
<1>1. /\ peer' = [peer EXCEPT ![p] = s] /\ UNCHANGED <<wire, extenders, suspended, unannounced, used>>
  BY DEF SendExtenderUpdate
<1>2. r \in PeerRecords /\ k \in Messages /\ IsList(k) /\ k.n = extenders[p] /\ "normal" \in Queues
  BY ScenarioTypes, ListMessage DEF Queues
<1>3. /\ a \in PeerRecords /\ a.status = r.status /\ a.normal = r.normal
      /\ a.delayed = r.delayed /\ a.expedited = r.expedited /\ a.deferred = r.deferred
      /\ a.peerExtenders = r.peerExtenders
  BY <1>2 DEF PeerRecords
<1> HIDE DEF a, k
<1>4. /\ s.status = a.status /\ s.deferred = a.deferred /\ s.peerExtenders = a.peerExtenders
      /\ s.normal = Append(a.normal, k) /\ s.delayed = a.delayed /\ s.expedited = a.expedited
  BY <1>2, <1>3, QueueSide
<1> HIDE DEF s
<1>5. Tame(p, r, s, unannounced[p], unannounced'[p], used'.messages)
  BY <1>2, <1>3, <1>4 DEF Tame, AddsTo
<1> QED
  BY <1>1, <1>5, TameStep

LEMMA BroadcastTells ==
    ASSUME SessionInv, TellNow, NEW p \in Peers, BroadcastExtenderUpdate(p)
    PROVE  TellInv'
<1> DEFINE r == peer[p]
           k == Msg("ExtenderUpdate", extenders[p], None)
           s == Queue(r, k, "normal")
           t == [r EXCEPT !.needsUpdate = TRUE]
<1>1. /\ peer' = [peer EXCEPT ![p] = IF r.status = "Ready" THEN s
                                     ELSE IF r.status \in {"SessionInit", "Suspended"} THEN t ELSE r]
      /\ UNCHANGED <<wire, extenders, suspended, used>>
      /\ unannounced' = [unannounced EXCEPT ![p] = FALSE]
  BY DEF BroadcastExtenderUpdate
<1>2. r \in PeerRecords /\ k \in Messages /\ IsList(k) /\ k.n = extenders[p] /\ "normal" \in Queues
  BY ScenarioTypes, ListMessage DEF Queues
<1>3. unannounced'[Other(p)] = unannounced[Other(p)]
  BY <1>1, Ends, ScenarioTypes DEF RestOK
<1> HIDE DEF k
<1>4. CASE r.status = "Ready"
  <2>1. /\ s.status = r.status /\ s.deferred = r.deferred /\ s.peerExtenders = r.peerExtenders
        /\ s.normal = Append(r.normal, k) /\ s.delayed = r.delayed /\ s.expedited = r.expedited
    BY <1>2, QueueSide
  <2>2. peer' = [peer EXCEPT ![p] = s]
    BY <1>1, <1>4
  <2> HIDE DEF s
  <2>3. Tame(p, r, s, unannounced[p], unannounced'[p], used'.messages)
    BY <1>2, <2>1 DEF Tame, AddsTo
  <2> QED
    BY <1>1, <1>3, <2>2, <2>3, TameStep
<1>5. CASE r.status \in {"SessionInit", "Suspended"}
  <2>1. /\ t.status = r.status /\ t.deferred = r.deferred /\ t.peerExtenders = r.peerExtenders
        /\ t.normal = r.normal /\ t.delayed = r.delayed /\ t.expedited = r.expedited
        /\ t.needsUpdate = TRUE
    BY <1>2 DEF PeerRecords
  <2>2. peer' = [peer EXCEPT ![p] = t]
    BY <1>1, <1>5
  <2> HIDE DEF t
  <2>3. Tame(p, r, t, unannounced[p], unannounced'[p], used'.messages)
    BY <2>1 DEF Tame, AddsTo, Speaks
  <2> QED
    BY <1>1, <1>3, <2>2, <2>3, TameStep
<1>6. CASE r.status \notin {"Ready", "SessionInit", "Suspended"}
  <2>1. peer' = [peer EXCEPT ![p] = r]
    BY <1>1, <1>6
  <2>2. r.status # "Disconnected"
    BY DEF TellNow, Calm
  <2>3. r.status \in BeforeSession(p)
    BY <1>2, <1>6, <2>2, StatusSet, StatusNames DEF PeerRecords, NotReady
  <2>4. Tame(p, r, r, unannounced[p], unannounced'[p], used'.messages)
    BY <2>3 DEF Tame, AddsTo, Speaks
  <2> QED
    BY <1>1, <1>3, <2>1, <2>4, TameStep
<1> QED
  BY <1>4, <1>5, <1>6

LEMMA ExtenderFinishesTells ==
    ASSUME SessionInv, TellNow, NEW p \in Peers, ExtenderFinishes(p)
    PROVE  TellInv'
<1> DEFINE s == [peer[p] EXCEPT !.held = @ - 1]
<1>1. peer' = [peer EXCEPT ![p] = s] /\ UNCHANGED <<wire, extenders, suspended, unannounced, used>>
  BY DEF ExtenderFinishes
<1>2. Side(s) = Side(peer[p]) /\ AddsTo(peer[p].normal, s.normal, 0)
  BY ScenarioTypes DEF PeerRecords, Side, AddsTo
<1> HIDE DEF s
<1>3. Tame(p, peer[p], s, unannounced[p], unannounced'[p], used'.messages)
  BY <1>1, <1>2, SideTame
<1> QED
  BY <1>1, <1>3, TameStep

LEMMA GraceEndsTells ==
    ASSUME SessionInv, TellNow, NEW p \in Peers, GraceEnds(p)
    PROVE  TellInv'
<1>1. /\ \E keys : peer' = [peer EXCEPT ![p] = [peer[p] EXCEPT !.keys = keys]]
      /\ UNCHANGED <<wire, extenders, suspended, unannounced, used>>
  BY DEF GraceEnds
<1>2. PICK keys : peer' = [peer EXCEPT ![p] = [peer[p] EXCEPT !.keys = keys]]
  BY <1>1
<1> DEFINE s == [peer[p] EXCEPT !.keys = keys]
<1>3. Side(s) = Side(peer[p]) /\ AddsTo(peer[p].normal, s.normal, 0)
  BY ScenarioTypes DEF PeerRecords, Side, AddsTo
<1> HIDE DEF s
<1>4. Tame(p, peer[p], s, unannounced[p], unannounced'[p], used'.messages)
  BY <1>1, <1>3, SideTame
<1> QED
  BY <1>1, <1>2, <1>4, TameStep DEF s

LEMMA BeginKeyUpdateTells ==
    ASSUME SessionInv, TellNow, NEW p \in Peers, BeginKeyUpdate(p)
    PROVE  TellInv'
<1> DEFINE r == peer[p]
           n == used.updates + 1
           a == [r EXCEPT !.exchange = n]
           k == Msg("BeginPrimaryUpdate", n, None)
           q == Queue(a, k, "normal")
           s == SetUpdateStatus(q, "PrimaryExchange")
           t == Condemn(r, "GeneralFailure")
<1>1. /\ peer' = [peer EXCEPT ![p] = IF r.exchange # None THEN t ELSE s]
      /\ UNCHANGED <<wire, extenders, suspended, unannounced>>
      /\ used' = [used EXCEPT !.updates = @ + 1]
  BY DEF BeginKeyUpdate
<1>2. /\ r \in PeerRecords /\ used'.messages = used.messages /\ used'.suspensions = used.suspensions
      /\ n \in Numbers
  BY <1>1, ScenarioTypes DEF RestOK, Numbers
<1>3. CASE r.exchange # None
  <2>1. t.condition # None /\ peer' = [peer EXCEPT ![p] = t]
    BY <1>1, <1>2, <1>3, CondemnFields DEF Conditions
  <2> QED
    BY <2>1, TellCondemned
<1>4. CASE r.exchange = None
  <2> HIDE DEF n
  <2>1. k \in Messages /\ ~IsList(k) /\ ~IsExtender(k)
    BY <1>2, UpdateIsPlain DEF UpdateTypes
  <2>2. a \in PeerRecords /\ Side(a) = Side(r) /\ a.normal = r.normal
    BY <1>2 DEF PeerRecords, Side
  <2>3. "normal" \in Queues
    BY DEF Queues
  <2>4. peer' = [peer EXCEPT ![p] = s]
    BY <1>1, <1>4
  <2> HIDE DEF a, k
  <2>5. /\ q \in PeerRecords /\ q.status = a.status /\ q.deferred = a.deferred
        /\ q.condition = a.condition /\ q.peerExtenders = a.peerExtenders
        /\ q.needsUpdate = a.needsUpdate
        /\ q.normal = Append(a.normal, k) /\ q.delayed = a.delayed /\ q.expedited = a.expedited
    BY <2>1, <2>2, <2>3, QueueSide
  <2> HIDE DEF q
  <2>6. s \in PeerRecords /\ Side(s) = Side(q) /\ s.normal = q.normal
    BY <2>5, UpdateStatusSide DEF UpdateStatuses
  <2> HIDE DEF s
  <2>7. Side(s) = Side(r)
    BY <2>2, <2>5, <2>6 DEF Side
  <2>8. AddsTo(r.normal, s.normal, 0)
    BY <2>1, <2>2, <2>5, <2>6 DEF AddsTo
  <2>9. Tame(p, r, s, unannounced[p], unannounced'[p], used'.messages)
    BY <1>1, <2>7, <2>8, SideTame
  <2> QED
    BY <1>1, <1>2, <2>4, <2>9, TameStep
<1> QED
  BY <1>3, <1>4

-----------------------------------------------------------------------------
(* The actions that send or receive.                                        *)

\* The first message of a queue, and the others, are those of the queue.
LEMMA RestOfQueue ==
    ASSUME NEW q \in Seq(Messages), q # <<>>
    PROVE  /\ Head(q) \in Messages /\ Tail(q) \in Seq(Messages)
           /\ NoExtenders(q) => NoExtenders(Tail(q)) /\ ~IsExtender(Head(q))
           /\ (\A i \in 1 .. Len(q) : ~IsList(q[i])) =>
                ~IsList(Head(q)) /\ \A i \in 1 .. Len(Tail(q)) : ~IsList(Tail(q)[i])
<1>1. /\ Head(q) \in Messages /\ Head(q) = q[1] /\ Tail(q) \in Seq(Messages) /\ Len(q) \in Nat
      /\ Len(q) >= 1
      /\ \A i \in 1 .. Len(Tail(q)) : i + 1 \in 1 .. Len(q) /\ Tail(q)[i] = q[i + 1]
  BY TailOf
<1>2. 1 \in 1 .. Len(q)
  BY <1>1
<1> QED
  BY <1>1, <1>2 DEF NoExtenders

\* A message is on the wire.
LEMMA WireLonger ==
    ASSUME NEW w \in Seq(Transports), NEW t \in Transports, NoExtenders(Bodies(w)), ~IsExtender(t.message)
    PROVE  NoExtenders(Bodies(Append(w, t)))
<1>1. Bodies(Append(w, t)) = Append(Bodies(w), t.message) /\ Bodies(w) \in Seq(Messages)
      /\ t.message \in Messages
  BY BodiesAppend, BodiesAre
<1> DEFINE q == Bodies(w)
           x == Append(q, t.message)
<1>2. /\ Len(x) = Len(q) + 1 /\ Len(q) \in Nat
      /\ \A i \in 1 .. Len(q) + 1 : \/ i \in 1 .. Len(q) /\ x[i] = q[i]
                                    \/ i = Len(q) + 1 /\ x[i] = t.message
  BY <1>1, Longer
<1>3. NoExtenders(x)
  <2> HIDE DEF x
  <2> QED
    BY <1>2 DEF NoExtenders
<1> QED
  BY <1>1, <1>3

\* What an end that sends tells.
LEMMA SentSide ==
    ASSUME NEW p \in Peers, NEW r \in PeerRecords, RecordOK(p, r),
           \A i \in 1 .. Len(r.delayed) : ~IsList(r.delayed[i]), NEW q, MayLeave(r, q)
    PROVE  LET s == Shorter(r, q)
               m == FirstOf(r, q)
           IN  /\ s.status = r.status /\ s.deferred = r.deferred
               /\ s.peerExtenders = r.peerExtenders /\ s.needsUpdate = r.needsUpdate
               /\ \A i \in 1 .. Len(s.delayed) : ~IsList(s.delayed[i])
               /\ Idle(r) => Idle(s) /\ ~IsExtender(m)
               /\ \/ r.normal # <<>> /\ m = Head(r.normal) /\ s.normal = Tail(r.normal)
                  \/ ~IsList(m) /\ s.normal = r.normal
<1> DEFINE s == Shorter(r, q)
           m == FirstOf(r, q)
<1>0. r.normal \in Seq(Messages) /\ r.delayed \in Seq(Messages) /\ r.expedited \in Seq(Messages)
  BY DEF PeerRecords
<1>1. CASE q = "normal" /\ r.normal # <<>>
  <2>1. s = [r EXCEPT !.normal = Tail(@), !.localCounter = NextCounter(@)] /\ m = Head(r.normal)
    BY <1>1 DEF Shorter, FirstOf
  <2> HIDE DEF s, m
  <2>2. /\ s.status = r.status /\ s.deferred = r.deferred
        /\ s.peerExtenders = r.peerExtenders /\ s.needsUpdate = r.needsUpdate
        /\ s.delayed = r.delayed /\ s.expedited = r.expedited /\ s.normal = Tail(r.normal)
    BY <2>1 DEF PeerRecords
  <2>3. Idle(r) => Idle(s) /\ ~IsExtender(m)
    BY <1>0, <1>1, <2>1, <2>2, RestOfQueue DEF Idle
  <2> QED
    BY <1>1, <2>1, <2>2, <2>3 DEF s, m
<1>2. CASE q = "delayed" /\ r.delayed # <<>>
  <2>1. s = [r EXCEPT !.delayed = Tail(@), !.localCounter = NextCounter(@)] /\ m = Head(r.delayed)
    BY <1>2 DEF Shorter, FirstOf
  <2> HIDE DEF s, m
  <2>2. /\ s.status = r.status /\ s.deferred = r.deferred
        /\ s.peerExtenders = r.peerExtenders /\ s.needsUpdate = r.needsUpdate
        /\ s.delayed = Tail(r.delayed) /\ s.expedited = r.expedited /\ s.normal = r.normal
    BY <2>1 DEF PeerRecords
  <2>3. Idle(r) => Idle(s) /\ ~IsExtender(m)
    BY <1>0, <1>2, <2>1, <2>2, RestOfQueue DEF Idle
  <2>4. ~IsList(m) /\ \A i \in 1 .. Len(s.delayed) : ~IsList(s.delayed[i])
    BY <1>0, <1>2, <2>1, <2>2, RestOfQueue
  <2> QED
    BY <2>2, <2>3, <2>4 DEF s, m
<1>3. CASE q = "expedited" /\ r.expedited # <<>>
  <2>1. s = [r EXCEPT !.expedited = Tail(@), !.localCounter = NextCounter(@)] /\ m = Head(r.expedited)
    BY <1>3 DEF Shorter, FirstOf
  <2> HIDE DEF s, m
  <2>2. /\ s.status = r.status /\ s.deferred = r.deferred
        /\ s.peerExtenders = r.peerExtenders /\ s.needsUpdate = r.needsUpdate
        /\ s.delayed = r.delayed /\ s.normal = r.normal
    BY <2>1 DEF PeerRecords
  <2>3. m = r.expedited[1] /\ 1 \in 1 .. Len(r.expedited)
    BY <1>0, <1>3, <2>1, TailOf
  <2>4. ~IsList(m)
    BY <2>3 DEF RecordOK, IsList, ListTypes, SessionTypes
  <2>5. ~Idle(r)
    BY <1>3 DEF Idle
  <2> QED
    BY <2>2, <2>4, <2>5 DEF s, m
<1> QED
  BY <1>1, <1>2, <1>3 DEF MayLeave

LEMMA SendTells ==
    ASSUME SessionInv, TellNow, NEW p \in Peers, Send(p)
    PROVE  TellInv'
<1> DEFINE r == peer[p]
           o == Other(p)
           q == NextQueue(r)
           counter == NextCounter(r.localCounter)
<1>1. /\ q # None /\ UNCHANGED <<used, extenders, suspended, unannounced>>
  BY DEF Send
<1>2. CASE EncryptionKey(r) = None
  <2>1. peer' = [peer EXCEPT ![p] = Condemn(r, "SendError")]
    BY <1>2 DEF Send
  <2>2. Condemn(r, "SendError").condition # None
    BY ScenarioTypes, CondemnFields DEF Conditions
  <2> QED
    BY <2>1, <2>2, TellCondemned
<1>3. CASE EncryptionKey(r) # None
  <2> DEFINE t == [key |-> EncryptionKey(r), counter |-> counter, message |-> FirstOf(r, q)]
             s == Shorter(r, q)
  <2>1. MayLeave(r, q) /\ q \in Queues
    BY <1>1 DEF MayLeave, NextQueue, Queues
  <2>2. /\ r \in PeerRecords /\ wire \in [Peers -> Seq(Transports)]
        /\ o \in Peers /\ o # p /\ wire[o] \in Seq(Transports) /\ RecordOK(p, r)
        /\ r.normal \in Seq(Messages) /\ Calm(p) /\ Calm(o)
    BY Ends DEF SessionInv, PartsOK, RestOK, RecordInv, PeerRecords, TellNow
  <2>4. FirstOf(r, q) = Head(r[q])
    BY <2>1 DEF FirstOf, Queues
  <2>5. s = [r EXCEPT ![q] = Tail(@), !.localCounter = counter]
    <3>1. CASE q = "normal"
      BY <2>2, <3>1 DEF Shorter, PeerRecords
    <3>2. CASE q = "delayed"
      BY <2>2, <3>2 DEF Shorter, PeerRecords
    <3>3. CASE q = "expedited"
      BY <2>2, <3>3 DEF Shorter, PeerRecords
    <3> QED
      BY <2>1, <3>1, <3>2, <3>3 DEF Queues
  <2>6. peer' = [peer EXCEPT ![p] = s] /\ wire' = [wire EXCEPT ![o] = Append(wire[o], t)]
    <3>1. /\ peer' = [peer EXCEPT ![p] = [r EXCEPT ![q] = Tail(@), !.localCounter = counter]]
          /\ wire' = [wire EXCEPT ![o] = Append(@, [key |-> EncryptionKey(r), counter |-> counter,
                                                    message |-> Head(r[q])])]
      BY <1>3 DEF Send
    <3> QED
      BY <2>4, <2>5, <3>1
  <2>7. FirstOf(r, q) \in Messages
    <3>1. RecordInv(Accepted, p, r)
      BY DEF SessionInv
    <3> QED
      BY <2>1, <2>2, <3>1, SentRecord
  <2>8. t \in Transports /\ t.message = FirstOf(r, q)
    <3>1. EncryptionKey(r) \in KeyNames
      BY <1>3, <2>2, EncryptionKeyType
    <3>2. counter \in Counters
      BY <2>2, NextCounterType DEF PeerRecords
    <3> QED
      BY <2>7, <3>1, <3>2 DEF Transports
  <2>9. /\ s.status = r.status /\ s.deferred = r.deferred
        /\ s.peerExtenders = r.peerExtenders /\ s.needsUpdate = r.needsUpdate
        /\ \A i \in 1 .. Len(s.delayed) : ~IsList(s.delayed[i])
        /\ Idle(r) => Idle(s) /\ ~IsExtender(t.message)
        /\ \/ r.normal # <<>> /\ t.message = Head(r.normal) /\ s.normal = Tail(r.normal)
           \/ ~IsList(t.message) /\ s.normal = r.normal
    BY <2>1, <2>2, <2>8, SentSide DEF Calm
  <2> HIDE DEF s, t, q, r
  <2>10. PICK wp, wq, d, b : /\ wp = wire[p] /\ wq = Append(wire[o], t)
                             /\ d = peer[o].deferred /\ b = peer[o].peerExtenders
    OBVIOUS
  <2>11. wire'[o] = wq /\ wire'[p] = wp
    BY <2>2, <2>6, <2>10
  <2>12. ASSUME NEW v, Chain(d, wire[o], r.normal, b, v)
         PROVE  Chain(d, wq, s.normal, b, v)
    BY <2>2, <2>8, <2>9, <2>10, <2>12, ChainSent
  <2>13. Speaks(p, s, unannounced'[p]) => Speaks(p, r, unannounced[p])
    BY <1>1, <2>9 DEF Speaks
  <2>14. ASSUME used'.messages = 0
         PROVE  Idle(s) /\ NoExtenders(Bodies(wp)) /\ NoExtenders(Bodies(wq))
    <3>1. Idle(r) /\ NoExtenders(Bodies(wp)) /\ NoExtenders(Bodies(wire[o]))
      BY <1>1, <2>2, <2>10, <2>14 DEF Calm, r
    <3>2. NoExtenders(Bodies(Append(wire[o], t)))
      BY <2>2, <2>8, <2>9, <3>1, WireLonger
    <3> QED
      BY <2>9, <2>10, <3>1, <3>2
  <2>15. /\ s.status # "Disconnected"
         /\ used'.suspensions = 0 => suspended'[p] = FALSE /\ s.status # "Suspended"
    BY <1>1, <2>2, <2>9 DEF Calm, r
  <2>16. \A v : Chain(peer[Other(p)].deferred, wire[Other(p)], peer[p].normal,
                      peer[Other(p)].peerExtenders, v)
                /\ (Speaks(p, peer[p], unannounced[p]) => v = extenders[p])
                  => \E x : /\ Chain(peer[Other(p)].deferred, wq, s.normal,
                                     peer[Other(p)].peerExtenders, x)
                            /\ Speaks(p, s, unannounced'[p]) => x = extenders[p]
    BY <2>10, <2>12, <2>13 DEF r
  <2>17. \A v : Chain(peer[p].deferred, wire[p], peer[Other(p)].normal, peer[p].peerExtenders, v)
                   => Chain(s.deferred, wp, peer[Other(p)].normal, s.peerExtenders, v)
    BY <2>9, <2>10 DEF r
  <2>18. /\ wire'[Other(p)] = wq /\ extenders' = extenders
         /\ suspended'[Other(p)] = suspended[Other(p)]
         /\ unannounced'[Other(p)] = unannounced[Other(p)]
         /\ used'.messages = 0 => used.messages = 0
         /\ used'.suspensions = 0 => used.suspensions = 0
    BY <1>1, <2>11
  <2> HIDE DEF o
  <2> QED
    BY <2>6, <2>9, <2>11, <2>14, <2>15, <2>16, <2>17, <2>18, TellMove
<1> QED
  BY <1>2, <1>3

\* A message that its receiver handles, however it got there.
LEMMA TellProcess ==
    ASSUME SessionInv, TellNow, NEW p \in Peers,
           NEW r \in PeerRecords, r.status = peer[p].status, r.condition = None,
           r.normal = peer[p].normal, r.delayed = peer[p].delayed,
           r.expedited = peer[p].expedited, r.needsUpdate = peer[p].needsUpdate,
           NEW m \in Messages, HasRoom(r, m), NEW c \in CounterStarts, NEW late,
           m.type = "ExtenderUpdate" => r.status # "Suspended",
           peer' = [peer EXCEPT ![p] = ProcessMessage(p, r, m, c, late)],
           NEW wp, wire'[p] = wp, wire'[Other(p)] = wire[Other(p)],
           UNCHANGED <<suspended, extenders, unannounced, used>>,
           used.messages = 0 => r.deferred = <<>> /\ NoExtenders(Bodies(wp)),
           \A v : Chain(peer[p].deferred, wire[p], peer[Other(p)].normal, peer[p].peerExtenders, v)
                    => Chain(r.deferred, wp, peer[Other(p)].normal, After(r.peerExtenders, m), v)
    PROVE  TellInv'
<1> DEFINE s == ProcessMessage(p, r, m, c, late)
           o == Other(p)
<1>1. CASE s.condition # None
  BY <1>1, TellCondemned
<1>2. CASE s.condition = None
  <2>1. /\ Calm(p) /\ Calm(o) /\ o \in Peers /\ extenders \in [Peers -> Nat]
        /\ r.delayed \in Seq(Messages) /\ r.normal \in Seq(Messages)
    BY Ends, ScenarioTypes DEF TellNow, PeerRecords, RestOK
  <2>2. r.status # "Disconnected"
    BY <2>1 DEF Calm
  <2>3. Handed(p, r, m, s)
    BY <1>2, <2>1, <2>2, ProcessHands
  <2>4. peer' = [peer EXCEPT ![p] = s]
    OBVIOUS
  <2> HIDE DEF s
  <2>5. PICK wq, d, b, q : /\ wq = wire[o] /\ d = peer[o].deferred /\ b = peer[o].peerExtenders
                           /\ q = s.normal
    OBVIOUS
  <2>6. /\ s.deferred = r.deferred /\ s.peerExtenders = After(r.peerExtenders, m)
        /\ s.needsUpdate = r.needsUpdate /\ s.expedited = r.expedited
        /\ s.status \in {"Suspended", "Disconnected"} => s.status = r.status
        /\ AddsTo(r.delayed, s.delayed, 0) /\ Utters(p, r, s, extenders[p], 0)
    BY <2>3 DEF Handed
  <2>7. s.status # "Disconnected" /\ \A i \in 1 .. Len(s.delayed) : ~IsList(s.delayed[i])
    BY <2>1, <2>2, <2>6, StillPlain DEF Calm
  <2>8. ASSUME used'.messages = 0
        PROVE  Idle(s) /\ NoExtenders(Bodies(wp)) /\ NoExtenders(Bodies(wq))
    <3>1. /\ Idle(peer[p]) /\ NoExtenders(Bodies(wp)) /\ NoExtenders(Bodies(wq))
          /\ r.deferred = <<>>
      BY <2>1, <2>5, <2>8 DEF Calm
    <3>2. NoExtenders(r.delayed) /\ NoExtenders(r.normal) /\ r.expedited = <<>>
      BY <3>1 DEF Idle
    <3>3. NoExtenders(s.delayed)
      BY <2>1, <2>6, <3>2, StillPlain
    <3>4. NoExtenders(s.normal)
      <4>1. CASE AddsTo(r.normal, s.normal, 0)
        BY <2>1, <3>2, <4>1, StillPlain
      <4>2. ASSUME NEW k \in Messages, s.normal = Append(r.normal, k), IsList(k)
            PROVE  NoExtenders(s.normal)
        BY <2>1, <3>2, <4>2, ListQueued
      <4> QED
        BY <2>6, <4>1, <4>2 DEF Utters
    <3> QED
      BY <2>6, <3>1, <3>2, <3>3, <3>4 DEF Idle
  <2>9. used'.suspensions = 0 => suspended'[p] = FALSE /\ s.status # "Suspended"
    BY <2>1, <2>6 DEF Calm
  <2>10. ASSUME NEW v, Chain(d, wq, r.normal, b, v),
                Speaks(p, peer[p], unannounced[p]) => v = extenders[p]
         PROVE  \E x : /\ Chain(d, wq, q, b, x)
                       /\ Speaks(p, s, unannounced'[p]) => x = extenders[p]
    <3>1. CASE /\ AddsTo(r.normal, q, 0)
               /\ s.status \notin BeforeSession(p) => r.status \notin BeforeSession(p)
      <4>1. Chain(d, wq, q, b, v)
        BY <2>1, <2>10, <3>1, StillPlain
      <4>2. Speaks(p, s, unannounced'[p]) => Speaks(p, peer[p], unannounced[p])
        BY <2>6, <3>1 DEF Speaks
      <4> QED
        BY <2>10, <4>1, <4>2
    <3>2. ASSUME NEW k \in Messages, q = Append(r.normal, k), IsList(k), k.n = extenders[p]
          PROVE  \E x : /\ Chain(d, wq, q, b, x)
                        /\ Speaks(p, s, unannounced'[p]) => x = extenders[p]
      <4>1. PICK t : t = r.normal
        OBVIOUS
      <4>2. t \in Seq(Messages) /\ q = Append(t, k) /\ Chain(d, wq, t, b, v)
        BY <2>1, <2>10, <3>2, <4>1
      <4>3. Chain(d, wq, q, b, k.n)
        BY <3>2, <4>2, ListQueued
      <4> QED
        BY <3>2, <4>3
    <3> QED
      BY <2>5, <2>6, <3>1, <3>2 DEF Utters
  <2>11. \A v : Chain(peer[Other(p)].deferred, wire[Other(p)], peer[p].normal,
                      peer[Other(p)].peerExtenders, v)
                /\ (Speaks(p, peer[p], unannounced[p]) => v = extenders[p])
                  => \E x : /\ Chain(peer[Other(p)].deferred, wq, s.normal,
                                     peer[Other(p)].peerExtenders, x)
                            /\ Speaks(p, s, unannounced'[p]) => x = extenders[p]
    BY <2>5, <2>10
  <2>12. \A v : Chain(peer[p].deferred, wire[p], peer[Other(p)].normal, peer[p].peerExtenders, v)
                   => Chain(s.deferred, wp, peer[Other(p)].normal, s.peerExtenders, v)
    BY <2>6
  <2>13. /\ wire'[Other(p)] = wq /\ extenders' = extenders
         /\ suspended'[Other(p)] = suspended[Other(p)]
         /\ unannounced'[Other(p)] = unannounced[Other(p)]
         /\ used'.messages = 0 => used.messages = 0
         /\ used'.suspensions = 0 => used.suspensions = 0
    BY <2>5
  <2> HIDE DEF o
  <2> QED
    BY ONLY SessionInv, TellNow, p \in Peers, wire'[p] = wp, <2>4, <2>7, <2>8, <2>9, <2>11, <2>12,
            <2>13, TellMove
<1> QED
  BY <1>1, <1>2

\* A message that is dropped or deferred.
LEMMA TellHeard ==
    ASSUME SessionInv, TellNow, NEW p \in Peers,
           NEW s, s.status = peer[p].status, s.normal = peer[p].normal,
           s.delayed = peer[p].delayed, s.expedited = peer[p].expedited,
           s.needsUpdate = peer[p].needsUpdate, s.peerExtenders = peer[p].peerExtenders,
           peer' = [peer EXCEPT ![p] = s],
           NEW wp, wire'[p] = wp, wire'[Other(p)] = wire[Other(p)],
           UNCHANGED <<suspended, extenders, unannounced, used>>,
           used.messages = 0 => s.deferred = <<>> /\ NoExtenders(Bodies(wp)),
           \A v : Chain(peer[p].deferred, wire[p], peer[Other(p)].normal, peer[p].peerExtenders, v)
                    => Chain(s.deferred, wp, peer[Other(p)].normal, peer[p].peerExtenders, v)
    PROVE  TellInv'
<1> DEFINE o == Other(p)
<1>1. Calm(p) /\ Calm(o)
  BY Ends DEF TellNow
<1>2. PICK wq : wq = wire[o]
  OBVIOUS
<1>3. s.status # "Disconnected" /\ \A i \in 1 .. Len(s.delayed) : ~IsList(s.delayed[i])
  BY <1>1 DEF Calm
<1>4. ASSUME used'.messages = 0
      PROVE  Idle(s) /\ NoExtenders(Bodies(wp)) /\ NoExtenders(Bodies(wq))
  BY <1>1, <1>2, <1>4 DEF Calm, Idle
<1>5. used'.suspensions = 0 => suspended'[p] = FALSE /\ s.status # "Suspended"
  BY <1>1 DEF Calm
<1>6. \A v : Chain(peer[Other(p)].deferred, wire[Other(p)], peer[p].normal,
                   peer[Other(p)].peerExtenders, v)
             /\ (Speaks(p, peer[p], unannounced[p]) => v = extenders[p])
               => \E x : /\ Chain(peer[Other(p)].deferred, wq, s.normal,
                                  peer[Other(p)].peerExtenders, x)
                         /\ Speaks(p, s, unannounced'[p]) => x = extenders[p]
  <2>1. Speaks(p, s, unannounced'[p]) => Speaks(p, peer[p], unannounced[p])
    BY DEF Speaks
  <2> QED
    BY <1>2, <2>1
<1>7. \A v : Chain(peer[p].deferred, wire[p], peer[Other(p)].normal, peer[p].peerExtenders, v)
                => Chain(s.deferred, wp, peer[Other(p)].normal, s.peerExtenders, v)
  OBVIOUS
<1>8. /\ wire'[Other(p)] = wq /\ extenders' = extenders
      /\ suspended'[Other(p)] = suspended[Other(p)]
      /\ unannounced'[Other(p)] = unannounced[Other(p)]
      /\ used'.messages = 0 => used.messages = 0
      /\ used'.suspensions = 0 => used.suspensions = 0
  BY <1>2
<1> QED
  BY ONLY SessionInv, TellNow, p \in Peers, peer' = [peer EXCEPT ![p] = s], wire'[p] = wp,
          <1>3, <1>4, <1>5, <1>6, <1>7, <1>8, TellMove

LEMMA ReceiveTells ==
    ASSUME SessionInv, TellNow, NEW p \in Peers, Receive(p)
    PROVE  TellInv'
<1> DEFINE r == peer[p]
           t == Head(wire[p])
           m == t.message
           d == CountedIn(r)
<1>1. /\ wire[p] # <<>> /\ r.condition = None /\ r.status # "Suspended"
      /\ wire' = [wire EXCEPT ![p] = Tail(wire[p])]
      /\ UNCHANGED <<suspended, extenders, unannounced, used>>
  BY DEF Receive, Active, Open
<1>2. PICK c \in CounterStarts, late \in {FALSE, LateMessages} :
        peer' = [peer EXCEPT ![p] =
           IF ~CanDecrypt(r, t.key) THEN Condemn(r, "ReceiveError")
           ELSE IF d.peerCounter \notin {None, t.counter} THEN Condemn(d, "ReceiveError")
           ELSE QueueOrProcess(p, d, m, c, late)]
  BY DEF Receive, CountedIn
<1>3. /\ r \in PeerRecords /\ wire[p] \in Seq(Transports) /\ wire \in [Peers -> Seq(Transports)]
      /\ Other(p) \in Peers /\ Other(p) # p /\ Calm(p)
  BY Ends DEF SessionInv, PartsOK, RestOK, TellNow
<1>4. /\ wire'[p] = Tail(wire[p]) /\ wire'[Other(p)] = wire[Other(p)] /\ m \in Messages
  <2>1. Head(wire[p]) \in Transports
    BY <1>1, <1>3, TailOf
  <2> QED
    BY <1>1, <1>3, <2>1 DEF Transports
<1>5. /\ d \in PeerRecords /\ d.condition = None /\ d.deferred = r.deferred /\ d.normal = r.normal
      /\ d.delayed = r.delayed /\ d.expedited = r.expedited /\ d.status = r.status
      /\ d.needsUpdate = r.needsUpdate /\ d.peerExtenders = r.peerExtenders
  <2>1. NextCounter(r.peerCounter) \in Counters
    BY <1>3, NextCounterType DEF PeerRecords
  <2> QED
    BY <1>1, <1>3, <2>1 DEF CountedIn, PeerRecords
<1>6. PICK w, x, q, e, b : /\ w = wire[p] /\ x = Tail(wire[p]) /\ q = peer[Other(p)].normal
                           /\ e = r.deferred /\ b = r.peerExtenders
  OBVIOUS
<1>10. used.messages = 0 => e = <<>> /\ ~IsExtender(m) /\ NoExtenders(Bodies(x))
  <2>1. Bodies(w) \in Seq(Messages) /\ Bodies(w) # <<>> /\ Head(Bodies(w)) = m
        /\ Bodies(x) = Tail(Bodies(w))
    BY <1>1, <1>3, <1>6, BodiesAre, BodiesTail
  <2>2. used.messages = 0 => e = <<>> /\ NoExtenders(Bodies(w))
    BY <1>3, <1>6 DEF Calm, Idle
  <2> HIDE DEF m
  <2> QED
    BY <2>1, <2>2, RestOfQueue
<1>11. ASSUME NEW v, Chain(e, w, q, b, v)
       PROVE  /\ e = <<>> => Chain(e, x, q, After(b, m), v)
              /\ Chain(Append(e, m), x, q, b, v)
              /\ ~IsList(m) => Chain(e, x, q, b, v)
  <2>1. e \in Seq(Messages) /\ w \in Seq(Transports) /\ w # <<>> /\ x = Tail(w)
    BY <1>1, <1>3, <1>6 DEF PeerRecords
  <2>2. m = Head(w).message
    BY <1>6
  <2> HIDE DEF m
  <2> QED
    BY <1>11, <2>1, <2>2, ChainReceived
<1> HIDE DEF d, m, t
<1>7. CASE ~CanDecrypt(r, t.key)
  <2>1. Condemn(r, "ReceiveError").condition # None
    BY <1>3, CondemnFields DEF Conditions
  <2>2. peer' = [peer EXCEPT ![p] = Condemn(r, "ReceiveError")]
    BY <1>2, <1>7
  <2> QED
    BY <2>1, <2>2, TellCondemned
<1>8. CASE CanDecrypt(r, t.key) /\ d.peerCounter \notin {None, t.counter}
  <2>1. Condemn(d, "ReceiveError").condition # None
    BY <1>5, CondemnFields DEF Conditions
  <2>2. peer' = [peer EXCEPT ![p] = Condemn(d, "ReceiveError")]
    BY <1>2, <1>8
  <2> QED
    BY <2>1, <2>2, TellCondemned
<1>9. CASE CanDecrypt(r, t.key) /\ d.peerCounter \in {None, t.counter}
  <2>1. peer' = [peer EXCEPT ![p] = QueueOrProcess(p, d, m, c, late)]
    BY <1>2, <1>9
  <2>2. wire'[p] = x
    BY <1>4, <1>6
  <2>3. CASE m.type = "Noise"
    <3>1. peer' = [peer EXCEPT ![p] = d] /\ ~IsList(m)
      BY <2>1, <2>3 DEF QueueOrProcess, IsList, ListTypes, SessionTypes
    <3>2. \A v : Chain(peer[p].deferred, wire[p], peer[Other(p)].normal, peer[p].peerExtenders, v)
                   => Chain(d.deferred, x, peer[Other(p)].normal, peer[p].peerExtenders, v)
      BY <1>5, <1>6, <1>11, <3>1
    <3>3. used.messages = 0 => d.deferred = <<>> /\ NoExtenders(Bodies(x))
      BY <1>5, <1>6, <1>10
    <3> QED
      BY <1>1, <1>4, <1>5, <2>2, <3>1, <3>2, <3>3, TellHeard
  <2>4. CASE m.type # "Noise" /\ ShouldDefer(d, m)
    <3> DEFINE s == [d EXCEPT !.deferred = Append(@, m)]
    <3>1. peer' = [peer EXCEPT ![p] = s]
      BY <2>1, <2>4 DEF QueueOrProcess
    <3>2. /\ s.deferred = Append(r.deferred, m) /\ s.status = r.status /\ s.normal = r.normal
          /\ s.delayed = r.delayed /\ s.expedited = r.expedited /\ s.needsUpdate = r.needsUpdate
          /\ s.peerExtenders = r.peerExtenders
      BY <1>5 DEF PeerRecords
    <3> HIDE DEF s
    <3>3. \A v : Chain(peer[p].deferred, wire[p], peer[Other(p)].normal, peer[p].peerExtenders, v)
                   => Chain(s.deferred, x, peer[Other(p)].normal, peer[p].peerExtenders, v)
      BY <1>6, <1>11, <3>2
    <3>4. used.messages # 0
      <4>1. e # <<>> \/ IsExtender(m)
        BY <1>5, <1>6, <2>4 DEF ShouldDefer, HasRoom, IsExtender
      <4> QED
        BY <1>10, <4>1
    <3> QED
      BY <1>1, <1>4, <2>2, <3>1, <3>2, <3>3, <3>4, TellHeard
  <2>5. CASE m.type # "Noise" /\ ~ShouldDefer(d, m)
    <3>1. /\ peer' = [peer EXCEPT ![p] = ProcessMessage(p, d, m, c, late)] /\ HasRoom(d, m)
          /\ e = <<>>
      BY <1>5, <1>6, <2>1, <2>5 DEF QueueOrProcess, ShouldDefer
    <3>2. \A v : Chain(peer[p].deferred, wire[p], peer[Other(p)].normal, peer[p].peerExtenders, v)
                   => Chain(d.deferred, x, peer[Other(p)].normal, After(d.peerExtenders, m), v)
      BY <1>5, <1>6, <1>11, <3>1
    <3>3. used.messages = 0 => d.deferred = <<>> /\ NoExtenders(Bodies(x))
      BY <1>5, <1>6, <1>10
    <3> QED
      BY <1>1, <1>4, <1>5, <2>2, <3>1, <3>2, <3>3, TellProcess
  <2> QED
    BY <2>3, <2>4, <2>5
<1> QED
  BY <1>7, <1>8, <1>9

\* A deferred message is worked off; as NoLoss has it, not during a suspension.
LEMMA ProcessDeferredTells ==
    ASSUME SessionInv, TellNow, NEW p \in Peers, ProcessDeferred(p)
    PROVE  TellInv'
<1> DEFINE r == peer[p]
           m == Head(r.deferred)
           d == [r EXCEPT !.deferred = Tail(@)]
<1>1. /\ r.condition = None /\ r.deferred # <<>> /\ HasRoom(r, m)
      /\ UNCHANGED <<wire, suspended, extenders, unannounced, used>>
  BY DEF ProcessDeferred, Active
<1>2. PICK c \in CounterStarts, late \in {FALSE, LateMessages} : peer' = [peer EXCEPT ![p] = ProcessMessage(p, d, m, c, late)]
  BY DEF ProcessDeferred
<1>3. r \in PeerRecords /\ r.deferred \in Seq(Messages)
  BY ScenarioTypes DEF PeerRecords
<1>4. Tail(r.deferred) \in Seq(Messages) /\ m \in Messages
  BY <1>1, <1>3, TailOf
<1>5. /\ d \in PeerRecords /\ d.deferred = Tail(r.deferred) /\ d.condition = r.condition
      /\ d.normal = r.normal /\ d.delayed = r.delayed /\ d.held = r.held
      /\ d.expedited = r.expedited /\ d.status = r.status
      /\ d.needsUpdate = r.needsUpdate /\ d.peerExtenders = r.peerExtenders
  BY <1>3, <1>4 DEF PeerRecords
<1>6. used.messages # 0 /\ r.status # "Suspended"
  <2>1. Calm(p) /\ NoLoss
    BY DEF TellNow
  <2>2. used.messages # 0
    BY <1>1, <2>1 DEF Calm, Idle
  <2> QED
    BY <2>1, <2>2 DEF Calm, NoLoss
<1> HIDE DEF d
<1>7. HasRoom(d, m)
  BY <1>1, <1>5 DEF HasRoom
<1>8. PICK w, x, e, b : /\ w = wire[p] /\ x = peer[Other(p)].normal /\ e = r.deferred
                        /\ b = r.peerExtenders
  OBVIOUS
<1>9. \A v : Chain(e, w, x, b, v) => Chain(Tail(e), w, x, After(b, m), v)
  BY <1>1, <1>3, <1>8, ChainWorkedOff
<1>10. \A v : Chain(peer[p].deferred, wire[p], peer[Other(p)].normal, peer[p].peerExtenders, v)
                => Chain(d.deferred, w, peer[Other(p)].normal, After(d.peerExtenders, m), v)
  BY <1>5, <1>8, <1>9
<1>11. wire'[p] = w /\ wire'[Other(p)] = wire[Other(p)]
  BY <1>1, <1>8
<1> HIDE DEF m
<1> QED
  BY <1>1, <1>2, <1>4, <1>5, <1>6, <1>7, <1>10, <1>11, TellProcess

-----------------------------------------------------------------------------
(* All steps, and the theorem.                                              *)

\* The other threads leave queues, streams and what is deferred alone.
LEMMA OutsideTells ==
    ASSUME SessionInv, TellNow, UNCHANGED <<peer, wire>>,
           used'.messages = 0 => used.messages = 0,
           used'.suspensions = 0 => used.suspensions = 0 /\ suspended' = suspended,
           \A p \in Peers : unannounced'[p] = FALSE =>
             unannounced[p] = FALSE /\ extenders'[p] = extenders[p]
    PROVE  TellInv'
<1>1. ASSUME NEW p \in Peers
      PROVE  Tells(p)' /\ Calm(p)'
  <2>1. Tells(p) /\ Calm(p)
    BY DEF TellNow
  <2>2. PICK v : /\ Chain(peer[Other(p)].deferred, wire[Other(p)], peer[p].normal,
                          peer[Other(p)].peerExtenders, v)
                 /\ Speaks(p, peer[p], unannounced[p]) => v = extenders[p]
    BY <2>1 DEF Tells
  <2>3. Speaks(p, peer[p], unannounced'[p]) => v = extenders'[p]
    BY <2>2 DEF Speaks
  <2>4. Tells(p)'
    BY <2>2, <2>3 DEF Tells
  <2>5. Calm(p)'
    BY <2>1 DEF Calm
  <2> QED
    BY <2>4, <2>5
<1>2. NotCondemned'
  BY DEF NotCondemned, TellNow
<1> QED
  BY <1>1, <1>2 DEF TellInv, TellNow

LEMMA EnvironmentTells ==
    ASSUME SessionInv, TellNow, NEW p \in Peers,
           ExtenderListChanges(p) \/ ConnectionSuspends(p) \/ ConnectionResumes(p)
    PROVE  TellInv'
<1>1. /\ used \in [updates : Nat, messages : Nat, changes : Nat, noise : Nat, suspensions : Nat,
                   timeouts : Nat]
      /\ unannounced \in [Peers -> BOOLEAN] /\ extenders \in [Peers -> Nat]
      /\ suspended \in [Peers -> BOOLEAN]
  BY ScenarioTypes DEF RestOK
<1>2. CASE ExtenderListChanges(p)
  <2>1. /\ UNCHANGED <<peer, wire, suspended>> /\ used' = [used EXCEPT !.changes = @ + 1]
        /\ extenders' = [extenders EXCEPT ![p] = @ + 1]
        /\ unannounced' = [unannounced EXCEPT ![p] = TRUE]
    BY <1>2 DEF ExtenderListChanges
  <2>2. used'.messages = used.messages /\ used'.suspensions = used.suspensions
    BY <1>1, <2>1
  <2>3. \A q \in Peers : unannounced'[q] = FALSE =>
          unannounced[q] = FALSE /\ extenders'[q] = extenders[q]
    BY <1>1, <2>1
  <2> QED
    BY <2>1, <2>2, <2>3, OutsideTells
<1>3. CASE ConnectionSuspends(p)
  <2>1. /\ UNCHANGED <<peer, wire, extenders, unannounced>>
        /\ used' = [used EXCEPT !.suspensions = @ + 1]
    BY <1>3 DEF ConnectionSuspends
  <2>2. used'.messages = used.messages /\ used'.suspensions # 0
    BY <1>1, <2>1
  <2> QED
    BY <2>1, <2>2, OutsideTells
<1>4. CASE ConnectionResumes(p)
  <2>1. UNCHANGED <<peer, wire, extenders, unannounced, used>> /\ suspended[p]
    BY <1>4 DEF ConnectionResumes
  <2>2. used.suspensions # 0
    BY <1>1, <2>1 DEF TellNow, Calm
  <2> QED
    BY <2>1, <2>2, OutsideTells
<1> QED
  BY <1>2, <1>3, <1>4

LEMMA ClosingTells ==
    ASSUME SessionInv, TellNow, NEW p \in Peers,
           \/ HandshakeTimesOut(p) \/ KeyUpdateTimesOut(p) \/ ConnectionClosed(p) \/ Disconnect(p)
    PROVE  TellInv'
<1>1. CASE HandshakeTimesOut(p) \/ KeyUpdateTimesOut(p) \/ ConnectionClosed(p)
  <2>1. PICK why \in Conditions : peer' = [peer EXCEPT ![p] = Condemn(peer[p], why)]
    BY <1>1 DEF HandshakeTimesOut, KeyUpdateTimesOut, ConnectionClosed, Conditions
  <2>2. Condemn(peer[p], why).condition # None
    BY ScenarioTypes, CondemnFields
  <2> QED
    BY <2>1, <2>2, TellCondemned
<1>2. CASE Disconnect(p)
  BY <1>2 DEF Disconnect, TellNow, NotCondemned
<1> QED
  BY <1>1, <1>2

\* What has been sent and suspended stays so.
LEMMA LossStays ==
    ASSUME SessionInv, [Next]_vars, NoLoss'
    PROVE  NoLoss
<1>1. used \in [updates : Nat, messages : Nat, changes : Nat, noise : Nat, suspensions : Nat,
                timeouts : Nat]
  BY ScenarioTypes DEF RestOK
<1>2. \/ used' = used
      \/ used' = [used EXCEPT !.timeouts = @ + 1] \/ used' = [used EXCEPT !.noise = @ + 1]
      \/ used' = [used EXCEPT !.updates = @ + 1] \/ used' = [used EXCEPT !.messages = @ + 1]
      \/ used' = [used EXCEPT !.suspensions = @ + 1] \/ used' = [used EXCEPT !.changes = @ + 1]
  BY DEF Next, vars, Handling, AfterLoop, Environment, BeginHandshake, EnableSend, Suspend, Resume,
     Receive, ProcessDeferred, SendExtenderUpdate, Send, Disconnect, ConnectionClosed,
     ExtenderFinishes, BroadcastExtenderUpdate, ConnectionResumes, HandshakeTimesOut, QueueNoise,
     BeginKeyUpdate, KeyUpdateTimesOut, GraceEnds, ExtenderSends, ExtenderListChanges,
     ConnectionSuspends
<1>3. used'.messages >= used.messages /\ used'.suspensions >= used.suspensions
  BY <1>1, <1>2
<1> QED
  BY <1>1, <1>3 DEF NoLoss

LEMMA TellStep == SessionInv /\ TellInv /\ [Next]_vars => TellInv'
<1> SUFFICES ASSUME SessionInv, TellInv, [Next]_vars
             PROVE  TellInv'
  OBVIOUS
<1>1. CASE ~NotCondemned
  <2>1. PICK p \in Peers : peer[p].condition # None
    BY <1>1 DEF NotCondemned
  <2>2. peer'[p].condition # None
    BY <2>1, CondemnedStays
  <2> QED
    BY <2>2 DEF TellInv, NotCondemned
<1>2. CASE ~NoLoss
  BY <1>2, LossStays DEF TellInv
<1>3. CASE NotCondemned /\ NoLoss
  <2>1. TellNow
    BY <1>3 DEF TellInv
  <2>2. ASSUME NEW p \in Peers, Handling(p)
        PROVE  TellInv'
    BY <2>1, <2>2, BeginHandshakeTells, EnableSendTells, SuspendTells, ResumeTells, ReceiveTells,
       ProcessDeferredTells, SendExtenderUpdateTells, SendTells, ClosingTells, EnvironmentTells,
       ExtenderFinishesTells, BroadcastTells DEF Handling, AfterLoop
  <2>3. ASSUME NEW p \in Peers, Environment(p)
        PROVE  TellInv'
    BY <2>1, <2>3, ClosingTells, QueueNoiseTells, BeginKeyUpdateTells, GraceEndsTells,
       ExtenderSendsTells, EnvironmentTells DEF Environment
  <2>4. CASE UNCHANGED vars
    BY <2>1, <2>4, OutsideTells DEF vars
  <2> QED
    BY <2>2, <2>3, <2>4 DEF Next
<1> QED
  BY <1>1, <1>2, <1>3

\* Nothing is under way.
LEMMA NoBodies == Bodies(<<>>) = <<>>
<1>1. <<>> \in Seq(Transports) /\ Len(<<>>) = 0
  OBVIOUS
<1>2. Bodies(<<>>) \in Seq(Messages) /\ Len(Bodies(<<>>)) = 0
  BY <1>1, BodiesAre
<1> QED
  BY <1>2, EmptySeq

LEMMA NothingTold ==
    ASSUME NEW b, NEW v
    PROVE  Chain(<<>>, <<>>, <<>>, b, v) <=> v = b
BY NoBodies, BringsNothing DEF Chain

LEMMA TellBegins == Init => TellInv
<1> SUFFICES ASSUME Init
             PROVE  TellNow
  BY DEF TellInv
<1>1. ASSUME NEW p \in Peers
      PROVE  /\ peer[p].status = "Connected" /\ peer[p].condition = None
             /\ peer[p].normal = <<>> /\ peer[p].delayed = <<>> /\ peer[p].deferred = <<>>
             /\ peer[p].expedited = <<>> /\ wire[p] = <<>> /\ suspended[p] = FALSE
  BY <1>1 DEF Init, NewPeer
<1>2. Len(<<>>) = 0 /\ NoExtenders(<<>>)
  BY DEF NoExtenders
<1>3. NoExtenders(Bodies(<<>>))
  BY <1>2, NoBodies
<1>4. ASSUME NEW p \in Peers
      PROVE  Tells(p) /\ Calm(p)
  <2>1. peer[p].status \in BeforeSession(p)
    BY <1>1 DEF BeforeSession, NotReady, Handshaking
  <2>2. Other(p) \in Peers
    BY Ends
  <2>3. Chain(<<>>, <<>>, <<>>, peer[Other(p)].peerExtenders, peer[Other(p)].peerExtenders)
    BY NothingTold
  <2>4. Tells(p)
    BY <1>1, <2>1, <2>2, <2>3 DEF Tells, Speaks
  <2>5. Calm(p)
    <3>1. Idle(peer[p]) /\ NoExtenders(Bodies(wire[p]))
      BY <1>1, <1>2, <1>3 DEF Idle
    <3>2. ASSUME NEW i \in 1 .. Len(peer[p].delayed)
          PROVE  FALSE
      <4>1. i \in 1 .. 0
        BY <1>1, <1>2, <3>2
      <4> QED
        BY <4>1
    <3> QED
      BY <1>1, <3>1, <3>2 DEF Calm
  <2> QED
    BY <2>4, <2>5
<1>5. NotCondemned /\ NoLoss
  BY <1>1 DEF NotCondemned, NoLoss, Init
<1> QED
  BY <1>4, <1>5 DEF TellNow

LEMMA TellAgrees == SessionInv /\ TellInv => (NoLoss => ExtendersAgree)
<1> SUFFICES ASSUME SessionInv, TellInv, NoLoss, NEW p \in Peers, Settled, ~peer[p].needsUpdate,
                    ~unannounced[p]
             PROVE  peer[Other(p)].peerExtenders = extenders[p]
  BY DEF ExtendersAgree
<1>1. /\ Other(p) \in Peers /\ peer[p] \in PeerRecords /\ unannounced[p] \in BOOLEAN
      /\ peer[p].needsUpdate \in BOOLEAN
  BY Ends, ScenarioTypes DEF RestOK, PeerRecords
<1>2. NotCondemned
  BY DEF Settled, NotCondemned
<1>3. Tells(p)
  BY <1>2 DEF TellInv, TellNow
<1>4. Speaks(p, peer[p], unannounced[p])
  BY <1>1, StatusNames DEF Speaks, Settled
<1>5. /\ peer[Other(p)].deferred = <<>> /\ wire[Other(p)] = <<>> /\ peer[p].normal = <<>>
  BY <1>1 DEF Settled, Quiet
<1>6. Chain(<<>>, <<>>, <<>>, peer[Other(p)].peerExtenders, extenders[p])
  BY <1>3, <1>4, <1>5 DEF Tells
<1> QED
  BY <1>6, NothingTold

\* Once nothing is left to send and no change of the list waits to be announced, each end knows the
\* extenders the other has now: through the session messages, the broadcast to all ready peers, and
\* the update kept for a peer that is not ready yet or is suspended (Manager::BroadcastExtenderUpdate,
\* Flags::NeedsExtenderUpdate, Peer::ProcessPeerExtenderUpdate).  As long as extenders have sent no
\* message or the connection has not been suspended: after both, a list that was deferred behind the
\* messages may be worked off, and dropped, during the suspension.
THEOREM ExtendersAgreement ==
    Spec => [](used.messages = 0 \/ used.suspensions = 0 => ExtendersAgree)
<1>1. Init => SessionInv /\ TellInv
  BY SessionBegins, TellBegins
<1>2. SessionInv /\ TellInv /\ [Next]_vars => SessionInv' /\ TellInv'
  BY SessionStep, TellStep
<1>3. SessionInv /\ TellInv => (used.messages = 0 \/ used.suspensions = 0 => ExtendersAgree)
  BY TellAgrees DEF NoLoss
<1> QED
  BY <1>1, <1>2, <1>3, PTL DEF Spec
=============================================================================
