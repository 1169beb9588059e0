---------------------------- MODULE UpkeepProofs ----------------------------
(* Proofs about the upkeep of a UDP connection.  MTUDiscovery, for any number *)
(* of message sizes, retries and changes of the network: what discovery finds *)
(* fits through the network it was done for, and is the largest size that     *)
(* does if nothing was lost.  UDPSuspension, for any durations, delays, moves *)
(* and losses: who hears whom, how long silence lasts, and what that means.   *)
EXTENDS MTUDiscovery, UDPSuspension, TLAPS

-----------------------------------------------------------------------------
(* MTUDiscovery.                                                            *)

Messages == [low : Nat, size : Nat, final : BOOLEAN, number : Nat, tries : Nat, acked : BOOLEAN]

TypeOK ==
    /\ mtudStatus \in {"start", "discovery", "none"}
    /\ index \in Nat /\ proven \in Nat /\ mtu \in Nat /\ number \in Nat
    /\ msg \in Messages
    /\ interface \in Bytes /\ path \in Bytes
    /\ noticed \in BOOLEAN /\ intact \in BOOLEAN
    /\ answers \subseteq Nat

\* Sequence numbers are not used twice.
NumbersAreFresh ==
    /\ msg.number <= number
    /\ mtudStatus = "discovery" => msg.number = number
    /\ \A n \in answers : n <= number

\* A probe is for the size after one that was answered, or is the exact one of that size.
ProbeIsShaped ==
    mtudStatus = "discovery" =>
        /\ index \in 2 .. Last
        /\ msg.low \in 1 .. Last
        /\ IF msg.final THEN msg.size = Exactly(msg.low)
                        ELSE msg.low = index - 1 /\ msg.size \in Between(index)

\* A probe whose answer is under way or has come fits through the network.
AnsweredFits ==
    mtudStatus = "discovery" /\ noticed /\ (msg.number \in answers \/ msg.acked) => msg.size <= Carried

\* What is proven fits.
ProvenFits ==
    /\ proven \in 1 .. Last
    /\ noticed => Exactly(proven) <= Carried
    /\ mtudStatus = "start" => proven = Least
    /\ mtudStatus = "none" => mtu = proven

\* Where nothing was lost, a probe that was sent and not answered does not fit; the size
\* before the one that is tried is at most a byte too large, and the one before is proven.
ProbeIsNext(m) ==
    /\ Carried >= Exactly(m.low) - 1
    /\ proven = IF m.acked THEN m.low ELSE IF m.low = 1 THEN 1 ELSE m.low - 1
    /\ m.final => m.low = Last \/ Carried < Exactly(m.low + 1)
    /\ ~m.acked /\ m.tries > 0 /\ m.number \notin answers => m.size > path

IsLargest(k) ==
    /\ k \in 1 .. Last
    /\ Exactly(k) <= Carried
    /\ k = Last \/ Carried < Exactly(k + 1)

SearchIsRight ==
    noticed /\ intact => /\ mtudStatus = "discovery" => ProbeIsNext(msg)
                         /\ mtudStatus = "none" => IsLargest(mtu)

DiscoveryInv ==
    TypeOK /\ NumbersAreFresh /\ ProbeIsShaped /\ AnsweredFits /\ ProvenFits /\ SearchIsRight

-----------------------------------------------------------------------------
LEMMA CarriedType ==
    ASSUME Last \in Nat, TypeOK
    PROVE  Carried \in Nat /\ Carried >= 2 /\ Carried <= interface /\ Carried <= path
           /\ interface \in Nat /\ path \in Nat /\ Carried \in {interface, path}
BY DEF TypeOK, Bytes, Carried

LEMMA LargestIsMax ==
    ASSUME Last \in Nat, TypeOK, NEW k, IsLargest(k)
    PROVE  k = Max({j \in 1 .. Last : Exactly(j) <= Carried})
<1> DEFINE S == {j \in 1 .. Last : Exactly(j) <= Carried}
<1>1. k \in S
  BY DEF IsLargest
<1>2. \A j \in S : j <= k
  BY CarriedType DEF IsLargest, Exactly
<1>3. \A x \in S : (\A y \in S : x >= y) => x = k
  BY <1>1, <1>2
<1>4. \A y \in S : k >= y
  BY <1>1, <1>2
<1> HIDE DEF S
<1> QED
  BY <1>1, <1>3, <1>4 DEF Max, S

LEMMA InitialDiscovery == DiscoveryInit => DiscoveryInv
BY DiscoveryAssumption DEF DiscoveryInit, DiscoveryInv, TypeOK, Messages, NoMessage, Least, Exactly, Bytes,
       NumbersAreFresh, ProbeIsShaped, AnsweredFits, ProvenFits, SearchIsRight, Carried

-----------------------------------------------------------------------------
(* Probes.                                                                 *)

\* A probe m that may be sent, for the size index'.
Sendable(m) ==
    /\ m \in Messages
    /\ index' \in 2 .. Last /\ m.low \in 1 .. Last
    /\ IF m.final THEN m.size = Exactly(m.low)
                  ELSE m.low = index' - 1 /\ m.size \in Between(index')
    /\ ~m.acked /\ m.number >= number
    /\ noticed /\ m.number \in answers => m.size <= Carried
    /\ noticed /\ intact => ProbeIsNext(m)

LEMMA FinishInv ==
    ASSUME DiscoveryInv, Finish, NoteNumber, index' \in Nat,
           UNCHANGED <<proven, networkVars>>,
           noticed /\ intact => IsLargest(proven)
    PROVE  DiscoveryInv'
<1>1. TypeOK'
  BY DiscoveryAssumption DEF DiscoveryInv, TypeOK, Messages, Finish, NoteNumber, networkVars
<1>2. NumbersAreFresh'
  BY DEF DiscoveryInv, TypeOK, Messages, NumbersAreFresh, Finish, NoteNumber
<1>3. ProbeIsShaped' /\ AnsweredFits'
  BY DEF Finish, ProbeIsShaped, AnsweredFits
<1>4. ProvenFits' /\ SearchIsRight'
  BY DEF DiscoveryInv, Finish, ProvenFits, SearchIsRight, IsLargest, Carried, networkVars
<1> QED
  BY <1>1, <1>2, <1>3, <1>4 DEF DiscoveryInv

LEMMA TransmitInv ==
    ASSUME DiscoveryInv, NEW m, Sendable(m), m.size <= interface,
           Transmit(m), NoteNumber, UNCHANGED <<proven, networkVars>>
    PROVE  DiscoveryInv'
<1>0. /\ m \in Messages /\ number \in Nat /\ proven \in Nat /\ msg \in Messages
      /\ m.number \in Nat /\ m.tries \in Nat /\ m.size \in Nat /\ m.low \in Nat
      /\ Carried \in Nat /\ Carried \in {interface, path} /\ interface \in Nat /\ path \in Nat
      /\ UNCHANGED <<Carried, interface, path, noticed, proven>>
  BY CarriedType, DiscoveryAssumption DEF DiscoveryInv, TypeOK, Sendable, Messages, Carried, networkVars
<1>1. CASE mtudStatus' = "none" /\ fragments' = TRUE /\ mtu' = proven /\ intact' = FALSE
           /\ UNCHANGED <<msg, answers>>
  <2>1. number' = number
    BY <1>0, <1>1 DEF DiscoveryInv, NumbersAreFresh, NoteNumber, Messages
  <2>2. index' \in Nat /\ UNCHANGED networkVars
    BY DiscoveryAssumption DEF Sendable
  <2>3. TypeOK'
    BY <1>0, <1>1, <2>1, <2>2 DEF DiscoveryInv, TypeOK, networkVars
  <2>4. NumbersAreFresh'
    BY <1>1, <2>1 DEF DiscoveryInv, NumbersAreFresh
  <2>5. ProbeIsShaped' /\ AnsweredFits' /\ SearchIsRight'
    BY <1>1 DEF ProbeIsShaped, AnsweredFits, SearchIsRight
  <2>6. ProvenFits'
    BY <1>0, <1>1 DEF DiscoveryInv, ProvenFits
  <2> QED
    BY <2>3, <2>4, <2>5, <2>6 DEF DiscoveryInv
<1>2. CASE /\ msg' = [m EXCEPT !.tries = @ + 1]
           /\ mtudStatus' = "discovery"
           /\ \/ m.size <= path /\ answers' = answers \cup {m.number} /\ UNCHANGED intact
              \/ UNCHANGED answers /\ intact' = (intact /\ m.size > path)
           /\ UNCHANGED mtu
  <2>1. /\ msg' \in Messages /\ msg'.low = m.low /\ msg'.size = m.size /\ msg'.final = m.final
        /\ msg'.number = m.number /\ msg'.tries = m.tries + 1 /\ msg'.acked = m.acked
    BY <1>0, <1>2 DEF Messages
  <2>2. number' \in Nat /\ number' >= number /\ m.number = number'
    BY <1>0, <2>1 DEF NoteNumber, Messages, Sendable
  <2>3. TypeOK'
    <3>1. index' \in Nat /\ UNCHANGED networkVars
      BY DiscoveryAssumption DEF Sendable
    <3>2. answers' \subseteq Nat /\ intact' \in BOOLEAN
      BY <1>0, <1>2 DEF DiscoveryInv, TypeOK
    <3> QED
      BY <1>0, <1>2, <2>1, <2>2, <3>1, <3>2 DEF DiscoveryInv, TypeOK, networkVars
  <2>4. NumbersAreFresh'
    BY <1>0, <1>2, <2>1, <2>2 DEF DiscoveryInv, TypeOK, NumbersAreFresh
  <2>5. ProbeIsShaped'
    BY <1>2, <2>1 DEF Sendable, ProbeIsShaped
  <2>6. AnsweredFits'
    BY <1>0, <1>2, <2>1 DEF AnsweredFits, Sendable
  <2>7. ProvenFits'
    BY <1>0, <1>2 DEF DiscoveryInv, ProvenFits
  <2>8. SearchIsRight'
    <3> SUFFICES ASSUME noticed', intact'
                 PROVE  ProbeIsNext(msg)'
      BY <1>2 DEF SearchIsRight
    <3>1. noticed /\ intact /\ ProbeIsNext(m)
      BY <1>0, <1>2 DEF Sendable, DiscoveryInv, TypeOK
    <3>2. m.number \notin answers' => m.size > path
      BY <1>0, <1>2
    <3> QED
      BY <1>0, <2>1, <3>1, <3>2 DEF ProbeIsNext
  <2> QED
    BY <2>3, <2>4, <2>5, <2>6, <2>7, <2>8 DEF DiscoveryInv
<1>3. CASE /\ m.tries = 0 /\ msg' = m /\ mtudStatus' = "discovery"
           /\ UNCHANGED <<mtu, answers, intact>>
  <2>1. number' \in Nat /\ number' >= number /\ m.number = number'
    BY <1>0, <1>3 DEF NoteNumber, Messages, Sendable
  <2>2. TypeOK' /\ NumbersAreFresh'
    BY <1>0, <1>3, <2>1, DiscoveryAssumption DEF DiscoveryInv, TypeOK, NumbersAreFresh, Sendable, networkVars
  <2>3. ProbeIsShaped' /\ AnsweredFits'
    BY <1>0, <1>3 DEF Sendable, ProbeIsShaped, AnsweredFits
  <2>4. ProvenFits' /\ SearchIsRight'
    BY <1>0, <1>3 DEF DiscoveryInv, ProvenFits, SearchIsRight, Sendable, ProbeIsNext
  <2> QED
    BY <2>2, <2>3, <2>4 DEF DiscoveryInv
<1> QED
  BY <1>1, <1>2, <1>3 DEF Transmit

\* A probe that is too large for the interface makes the size before the last to be tried.
LEMMA SendProbeInv ==
    ASSUME DiscoveryInv, NEW m, Sendable(m), NEW k \in Nat, ~m.final => k = index',
           SendProbe(m, k), NoteNumber, UNCHANGED <<proven, networkVars>>
    PROVE  DiscoveryInv'
<1>0. /\ m \in Messages /\ m.number \in Nat /\ m.size \in Nat /\ m.low \in 1 .. Last
      /\ m.final \in BOOLEAN /\ index' \in 2 .. Last /\ Last \in Nat
      /\ Carried \in Nat /\ Carried >= 2 /\ Carried <= interface /\ Carried <= path
      /\ interface \in Nat /\ path \in Nat /\ Carried \in {interface, path}
      /\ proven \in Nat /\ number \in Nat
  BY CarriedType, DiscoveryAssumption DEF DiscoveryInv, TypeOK, Sendable, Messages
<1>1. CASE ~TooLarge(m.size)
  <2>1. m.size <= interface /\ Transmit(m)
    BY <1>0, <1>1 DEF SendProbe, TooLarge
  <2> QED
    BY <2>1, TransmitInv
<1>2. CASE TooLarge(m.size) /\ m.final
  <2>1. m.size = 2 * m.low /\ m.size > interface
    BY <1>2 DEF Sendable, Exactly, TooLarge
  <2>2. ASSUME noticed, intact
        PROVE  IsLargest(proven)
    <3>1. /\ Carried >= 2 * m.low - 1
          /\ proven = IF m.low = 1 THEN 1 ELSE m.low - 1
      BY <2>2 DEF Sendable, ProbeIsNext, Exactly
    <3>2. m.low # 1
      BY <1>0, <2>1, <3>1
    <3> QED
      BY <1>0, <2>1, <3>1, <3>2 DEF IsLargest, Exactly
  <2>3. Finish
    BY <1>2 DEF SendProbe
  <2> QED
    BY <1>0, <2>2, <2>3, FinishInv
<1>3. CASE TooLarge(m.size) /\ ~m.final
  <2>1. k = index' /\ m.low = k - 1 /\ m.size \in {2 * k - 1, 2 * k} /\ m.size > interface
    BY <1>3 DEF Sendable, TooLarge, Between
  <2>0. /\ k \in Nat /\ k >= 2 /\ k <= Last /\ k - 1 \in Nat /\ k - 1 \in 1 .. Last
        /\ interface < 2 * k
    <3>1. k \in 2 .. Last
      BY <1>0, <2>1
    <3>2. k \in Nat /\ k >= 2 /\ k <= Last
      BY <1>0, <3>1
    <3>3. k - 1 \in Nat /\ k - 1 \in 1 .. Last
      BY <1>0, <3>2
    <3>4. m.size <= 2 * k
      BY <2>1, <3>2
    <3>5. interface < m.size
      BY <1>0, <2>1
    <3>6. interface < 2 * k
      BY <1>0, <3>2, <3>4, <3>5
    <3> QED
      BY <3>2, <3>3, <3>6
  <2>2. ASSUME noticed, intact
        PROVE  /\ Carried >= 2 * (k - 1) - 1
               /\ proven = IF k - 1 = 1 THEN 1 ELSE k - 2
               /\ Carried < 2 * k
    <3>1. /\ Carried >= 2 * m.low - 1
          /\ proven = IF m.low = 1 THEN 1 ELSE m.low - 1
      BY <2>2 DEF Sendable, ProbeIsNext, Exactly
    <3>2. Carried >= 2 * (k - 1) - 1
      BY <2>1, <3>1
    <3>3. proven = IF k - 1 = 1 THEN 1 ELSE k - 2
      <4>1. m.low = k - 1
        BY <2>1
      <4>2. proven = IF k - 1 = 1 THEN 1 ELSE (k - 1) - 1
        BY <3>1, <4>1
      <4> QED
        BY <2>0, <4>2
    <3>4. Carried < 2 * k
      BY <1>0, <2>0
    <3> QED
      BY <3>2, <3>3, <3>4
  <2>3. CASE TooLarge(Exactly(k - 1))
    <3>1. 2 * (k - 1) > interface
      BY <2>3 DEF TooLarge, Exactly
    <3>2. ASSUME noticed, intact
          PROVE  IsLargest(proven)
      <4>1. k - 1 # 1
        BY <1>0, <2>0, <3>1
      <4>2. proven = k - 2 /\ Carried >= 2 * (k - 1) - 1
        BY <2>2, <3>2, <4>1
      <4>3. k - 2 \in 1 .. Last /\ 2 * (k - 2) <= Carried /\ Carried < 2 * ((k - 2) + 1)
        BY <1>0, <2>0, <3>1, <4>1, <4>2
      <4> QED
        BY <4>2, <4>3 DEF IsLargest, Exactly
    <3>3. Finish
      BY <1>3, <2>3 DEF SendProbe
    <3> QED
      BY <1>0, <3>2, <3>3, FinishInv
  <2>4. CASE ~TooLarge(Exactly(k - 1))
    <3> DEFINE f == FinalProbe(k - 1, m.number + 1)
    <3>1. /\ f \in Messages /\ f.low = k - 1 /\ f.size = 2 * (k - 1) /\ f.final
          /\ f.number = m.number + 1 /\ f.tries = 0 /\ ~f.acked
      BY <1>0, <2>0 DEF FinalProbe, Messages, Exactly
    <3>2. f.size <= interface
      BY <1>0, <2>0, <2>4, <3>1 DEF TooLarge, Exactly
    <3>3. f.number > number
      BY <1>0, <3>1 DEF Sendable
    <3>4. f.number \notin answers
      BY <1>0, <3>1, <3>3 DEF DiscoveryInv, TypeOK, NumbersAreFresh
    <3>5. Transmit(f)
      BY <1>3, <2>4 DEF SendProbe
    <3> HIDE DEF f
    <3>6. noticed /\ intact => ProbeIsNext(f)
      BY <1>0, <2>0, <2>2, <3>1 DEF ProbeIsNext, Exactly
    <3>7. Sendable(f)
      BY <1>0, <2>0, <3>1, <3>3, <3>4, <3>6 DEF Sendable, Exactly
    <3> QED
      BY <3>2, <3>5, <3>7, TransmitInv
  <2> QED
    BY <2>3, <2>4
<1> QED
  BY <1>1, <1>2, <1>3

\* A new probe has a sequence number of its own.
LEMMA NewNumber ==
    ASSUME DiscoveryInv
    PROVE  number + 1 \in Nat /\ number + 1 >= number /\ number + 1 \notin answers
BY DEF DiscoveryInv, TypeOK, NumbersAreFresh

LEMMA SizesAreNumbers ==
    ASSUME Last \in Nat, NEW k \in 2 .. Last
    PROVE  k >= 2 /\ k - 1 \in 1 .. Last /\ 2 * k - 1 \in Nat /\ 2 * k \in Nat /\ k - 1 \in Nat
OBVIOUS

LEMMA NewProbeInv ==
    ASSUME DiscoveryInv, NEW k \in Nat, k = index', k \in 2 .. Last,
           NewProbe(k), NoteNumber, UNCHANGED <<proven, networkVars>>,
           noticed /\ intact => /\ Carried >= 2 * (k - 1) - 1
                                /\ proven = IF k = 2 THEN 1 ELSE k - 2
    PROVE  DiscoveryInv'
<1>0. PICK size \in Between(k) : SendProbe(Probe(k, size, number + 1), k)
  BY DEF NewProbe
<1> DEFINE m == Probe(k, size, number + 1)
<1>a. k \in 2 .. Last /\ Last \in Nat /\ k \in Nat
  BY DiscoveryAssumption
<1>b. k >= 2 /\ k - 1 \in 1 .. Last /\ 2 * k - 1 \in Nat /\ 2 * k \in Nat /\ k - 1 \in Nat
  BY <1>a, SizesAreNumbers
<1>1. size \in {2 * k - 1, 2 * k} /\ size \in Nat
  BY <1>0, <1>b DEF Between
<1>2. /\ m \in Messages /\ m.low = k - 1 /\ m.size = size /\ ~m.final
      /\ m.number = number + 1 /\ m.tries = 0 /\ ~m.acked
  BY <1>1, <1>b, NewNumber DEF Probe, Messages
<1>3. SendProbe(m, k)
  BY <1>0
<1> HIDE DEF m
<1>4. noticed /\ intact => ProbeIsNext(m)
  BY <1>1, <1>2 DEF ProbeIsNext, Exactly
<1>5. Sendable(m)
  <2>1. m.low = index' - 1 /\ m.size \in Between(index') /\ index' \in 2 .. Last
    BY <1>1, <1>2 DEF Between
  <2> QED
    BY <1>2, <1>4, <1>b, <2>1, NewNumber DEF Sendable
<1> QED
  BY <1>3, <1>5, SendProbeInv

LEMMA NewFinalProbeInv ==
    ASSUME DiscoveryInv, NEW k \in Nat, k \in 1 .. Last, index' \in 2 .. Last,
           NewFinalProbe(k), NoteNumber, UNCHANGED <<proven, networkVars>>,
           noticed /\ intact => /\ Carried >= 2 * k - 1
                                /\ proven = IF k = 1 THEN 1 ELSE k - 1
                                /\ k = Last \/ Carried < 2 * (k + 1)
    PROVE  DiscoveryInv'
<1> DEFINE m == FinalProbe(k, number + 1)
<1>2. /\ m \in Messages /\ m.low = k /\ m.size = 2 * k /\ m.final
      /\ m.number = number + 1 /\ m.tries = 0 /\ ~m.acked
  BY NewNumber, DiscoveryAssumption DEF FinalProbe, Messages, Exactly
<1>3. SendProbe(m, k)
  BY DEF NewFinalProbe
<1> HIDE DEF m
<1>4. noticed /\ intact => ProbeIsNext(m)
  BY <1>2 DEF ProbeIsNext, Exactly
<1>5. Sendable(m)
  BY <1>2, <1>4, NewNumber DEF Sendable, Exactly
<1> QED
  BY <1>2, <1>3, <1>5, SendProbeInv

-----------------------------------------------------------------------------
(* Process.                                                                *)

LEMMA StartInv ==
    ASSUME DiscoveryInv, Start
    PROVE  DiscoveryInv'
<1>0. /\ mtudStatus = "start" /\ index' = 2 /\ NoteNumber /\ UNCHANGED <<proven, networkVars>>
      /\ 2 \in 2 .. Last /\ proven = 1
  BY DiscoveryAssumption DEF Start, Least, DiscoveryInv, ProvenFits
<1>1. CASE NewProbe(Least + 1)
  <2>1. NewProbe(2)
    BY <1>1 DEF Least
  <2>2. Carried >= 2 * (2 - 1) - 1 /\ proven = IF 2 = 2 THEN 1 ELSE 2 - 2
    BY <1>0, CarriedType, DiscoveryAssumption DEF DiscoveryInv
  <2>3. 2 = index' /\ 2 \in Nat
    BY <1>0
  <2> QED
    BY <1>0, <2>1, <2>2, <2>3, NewProbeInv
<1>2. CASE /\ mtudStatus' = "none" /\ fragments' \in {fragments, TRUE} /\ mtu' = proven
           /\ intact' = FALSE
           /\ UNCHANGED <<msg, answers>>
  <2>1. number' = number
    BY <1>0, <1>2 DEF DiscoveryInv, NumbersAreFresh, NoteNumber, TypeOK, Messages
  <2>2. TypeOK'
    BY <1>0, <1>2, <2>1 DEF DiscoveryInv, TypeOK, networkVars
  <2>3. NumbersAreFresh'
    BY <1>2, <2>1 DEF DiscoveryInv, NumbersAreFresh
  <2>4. ProbeIsShaped' /\ AnsweredFits' /\ SearchIsRight'
    BY <1>2 DEF ProbeIsShaped, AnsweredFits, SearchIsRight
  <2>5. ProvenFits'
    BY <1>0, <1>2 DEF DiscoveryInv, ProvenFits, networkVars, Carried
  <2> QED
    BY <2>2, <2>3, <2>4, <2>5 DEF DiscoveryInv
<1> QED
  BY <1>1, <1>2 DEF Start

\* The probe that is under way, when its answer did not come in time.
LEMMA Unanswered ==
    ASSUME DiscoveryInv, NoAnswerInTime
    PROVE  /\ mtudStatus = "discovery" /\ ~msg.acked /\ msg \in Messages
           /\ index \in 2 .. Last /\ msg.low \in 1 .. Last /\ Last \in Nat
           /\ IF msg.final THEN msg.size = 2 * msg.low
              ELSE msg.low = index - 1 /\ msg.size \in {2 * index - 1, 2 * index}
           /\ noticed /\ msg.number \in answers => msg.size <= Carried
           /\ noticed /\ intact =>
                /\ ProbeIsNext(msg)
                /\ Carried >= 2 * msg.low - 1
                /\ proven = IF msg.low = 1 THEN 1 ELSE msg.low - 1
                /\ msg.final => msg.low = Last \/ Carried < 2 * (msg.low + 1)
                /\ msg.tries > 0 => msg.size > path
BY DiscoveryAssumption DEF DiscoveryInv, NoAnswerInTime, TypeOK, ProbeIsShaped, AnsweredFits,
       SearchIsRight, ProbeIsNext, Exactly, Between

LEMMA RetryInv ==
    ASSUME DiscoveryInv, Retry
    PROVE  DiscoveryInv'
<1>0. /\ NoAnswerInTime /\ SendProbe(msg, index) /\ NoteNumber /\ index' = index
      /\ UNCHANGED <<proven, networkVars>>
  BY DEF Retry
<1>1. msg.number >= number
  BY <1>0, Unanswered DEF DiscoveryInv, NumbersAreFresh, TypeOK
<1>2. Sendable(msg)
  BY <1>0, <1>1, Unanswered DEF Sendable, Exactly, Between
<1> QED
  BY <1>0, <1>2, SendProbeInv DEF DiscoveryInv, TypeOK

LEMMA GiveUpInv ==
    ASSUME DiscoveryInv, GiveUp
    PROVE  DiscoveryInv'
<1>0. /\ NoAnswerInTime /\ NoteNumber /\ index' = index /\ UNCHANGED <<proven, networkVars>>
      /\ index \in Nat
  BY DEF GiveUp, DiscoveryInv, TypeOK
<1>1. msg.tries > 0
  BY <1>0, Unanswered, DiscoveryAssumption DEF GiveUp, Messages
<1>2. Carried \in Nat /\ Carried >= 2 /\ Carried <= path /\ path \in Nat
  BY CarriedType, DiscoveryAssumption DEF DiscoveryInv
<1>3. CASE msg.final
  <2>1. Finish
    BY <1>3 DEF GiveUp
  <2>2. ASSUME noticed, intact
        PROVE  IsLargest(proven)
    <3>1. msg.size = 2 * msg.low /\ Carried >= 2 * msg.low - 1 /\ msg.size > path
          /\ msg.low \in 1 .. Last /\ Last \in Nat
          /\ proven = IF msg.low = 1 THEN 1 ELSE msg.low - 1
      BY <1>0, <1>1, <1>3, <2>2, Unanswered
    <3>2. msg.low # 1
      BY <1>2, <3>1
    <3> QED
      BY <1>2, <3>1, <3>2 DEF IsLargest, Exactly
  <2> QED
    BY <1>0, <2>1, <2>2, FinishInv
<1>4. CASE ~msg.final
  <2>1. NewFinalProbe(index - 1)
    BY <1>4 DEF GiveUp
  <2>2. /\ msg.low = index - 1 /\ msg.size \in {2 * index - 1, 2 * index}
        /\ index \in 2 .. Last /\ Last \in Nat
    BY <1>0, <1>4, Unanswered
  <2>3. ASSUME noticed, intact
        PROVE  /\ Carried >= 2 * (index - 1) - 1
               /\ proven = IF index - 1 = 1 THEN 1 ELSE (index - 1) - 1
               /\ Carried < 2 * ((index - 1) + 1)
    <3>1. /\ Carried >= 2 * msg.low - 1 /\ msg.size > path
          /\ proven = IF msg.low = 1 THEN 1 ELSE msg.low - 1
      BY <1>0, <1>1, <1>4, <2>3, Unanswered
    <3> QED
      BY <1>2, <2>2, <3>1
  <2>4. index - 1 \in 1 .. Last /\ index' \in 2 .. Last
    BY <1>0, <2>2
  <2> QED
    BY <1>0, <2>1, <2>3, <2>4, NewFinalProbeInv
<1> QED
  BY <1>3, <1>4

LEMMA ContinueInv ==
    ASSUME DiscoveryInv, Continue
    PROVE  DiscoveryInv'
<1>0. /\ mtudStatus = "discovery" /\ msg.acked /\ NoteNumber /\ UNCHANGED <<proven, networkVars>>
      /\ index \in 2 .. Last /\ msg.low \in 1 .. Last /\ Last \in Nat /\ index \in Nat
      /\ msg \in Messages
  BY DiscoveryAssumption DEF Continue, DiscoveryInv, TypeOK, ProbeIsShaped
<1>1. Carried \in Nat
  BY CarriedType, DiscoveryAssumption DEF DiscoveryInv
<1>2. /\ noticed => msg.size <= Carried
      /\ IF msg.final THEN msg.size = 2 * msg.low
         ELSE msg.low = index - 1 /\ msg.size \in {2 * index - 1, 2 * index}
      /\ noticed /\ intact =>
           /\ proven = msg.low
           /\ msg.final => msg.low = Last \/ Carried < 2 * (msg.low + 1)
  BY <1>0 DEF DiscoveryInv, AnsweredFits, ProbeIsShaped, SearchIsRight, ProbeIsNext, Exactly, Between
<1>3. CASE msg.final
  <2>1. Finish /\ index' = index
    BY <1>0, <1>3 DEF Continue
  <2>2. noticed /\ intact => IsLargest(proven)
    BY <1>0, <1>1, <1>2, <1>3 DEF IsLargest, Exactly
  <2> QED
    BY <1>0, <2>1, <2>2, FinishInv
<1>4. CASE ~msg.final /\ index = Last
  <2>1. NewFinalProbe(Last) /\ index' = index /\ Last \in 1 .. Last
    BY <1>0, <1>4 DEF Continue
  <2>2. noticed /\ intact => /\ Carried >= 2 * Last - 1
                             /\ proven = IF Last = 1 THEN 1 ELSE Last - 1
    BY <1>0, <1>1, <1>2, <1>4
  <2> QED
    BY <1>0, <2>1, <2>2, NewFinalProbeInv
<1>5. CASE ~msg.final /\ index # Last
  <2>1. NewProbe(index + 1) /\ index' = index + 1 /\ index + 1 \in 2 .. Last
    BY <1>0, <1>5 DEF Continue
  <2>2. noticed /\ intact => /\ Carried >= 2 * ((index + 1) - 1) - 1
                             /\ proven = IF index + 1 = 2 THEN 1 ELSE (index + 1) - 2
    BY <1>0, <1>1, <1>2, <1>5
  <2> QED
    BY <1>0, <2>1, <2>2, NewProbeInv
<1> QED
  BY <1>3, <1>4, <1>5

LEMMA ReceiveAckInv ==
    ASSUME DiscoveryInv, NEW n, ReceiveAck(n)
    PROVE  DiscoveryInv'
<1>0. /\ n \in answers /\ answers' = answers \ {n} /\ msg \in Messages
      /\ Carried \in Nat /\ Last \in Nat /\ index \in Nat
      /\ UNCHANGED <<mtudStatus, index, fragments, mtu, number, intact, Carried, interface, path, noticed>>
  BY CarriedType, DiscoveryAssumption DEF ReceiveAck, DiscoveryInv, TypeOK, networkVars, Carried
<1>1. CASE Expected(n)
  <2>1. mtudStatus = "discovery" /\ msg.number = n /\ proven' = msg.low
        /\ msg' = [msg EXCEPT !.acked = TRUE]
    BY <1>1 DEF Expected, ReceiveAck
  <2>2. /\ msg' \in Messages /\ msg'.low = msg.low /\ msg'.size = msg.size
        /\ msg'.final = msg.final /\ msg'.number = msg.number /\ msg'.tries = msg.tries
        /\ msg'.acked
    BY <1>0, <2>1 DEF Messages
  <2>3. /\ msg.low \in 1 .. Last /\ index \in 2 .. Last
        /\ IF msg.final THEN msg.size = 2 * msg.low
           ELSE msg.low = index - 1 /\ msg.size \in {2 * index - 1, 2 * index}
        /\ noticed => msg.size <= Carried
    BY <1>0, <2>1 DEF DiscoveryInv, ProbeIsShaped, AnsweredFits, Exactly, Between
  <2>4. TypeOK'
    BY <1>0, <2>1, <2>2, <2>3 DEF DiscoveryInv, TypeOK
  <2>5. NumbersAreFresh'
    BY <1>0, <2>2 DEF DiscoveryInv, NumbersAreFresh
  <2>6. ProbeIsShaped'
    BY <1>0, <2>1, <2>2 DEF DiscoveryInv, ProbeIsShaped
  <2>7. AnsweredFits'
    BY <1>0, <2>2, <2>3 DEF AnsweredFits
  <2>8. ProvenFits'
    <3>1. noticed => 2 * msg.low <= Carried
      BY <1>0, <2>3
    <3> QED
      BY <1>0, <2>1, <2>3, <3>1 DEF ProvenFits, Exactly
  <2>9. SearchIsRight'
    BY <1>0, <2>1, <2>2 DEF DiscoveryInv, SearchIsRight, ProbeIsNext
  <2> QED
    BY <2>4, <2>5, <2>6, <2>7, <2>8, <2>9 DEF DiscoveryInv
<1>2. CASE ~Expected(n)
  <2>1. UNCHANGED <<msg, proven>> /\ (mtudStatus = "discovery" => msg.number # n)
    BY <1>2 DEF ReceiveAck, Expected
  <2>2. TypeOK' /\ NumbersAreFresh'
    BY <1>0, <2>1 DEF DiscoveryInv, TypeOK, NumbersAreFresh
  <2>3. ProbeIsShaped' /\ AnsweredFits' /\ ProvenFits'
    BY <1>0, <2>1 DEF DiscoveryInv, ProbeIsShaped, AnsweredFits, ProvenFits
  <2>4. SearchIsRight'
    BY <1>0, <2>1 DEF DiscoveryInv, SearchIsRight, ProbeIsNext, IsLargest
  <2> QED
    BY <2>2, <2>3, <2>4 DEF DiscoveryInv
<1> QED
  BY <1>1, <1>2

-----------------------------------------------------------------------------
(* The connection and the network.                                         *)

LEMMA SameDiscovery ==
    ASSUME DiscoveryInv,
           UNCHANGED <<mtudStatus, index, proven, msg, mtu, answers, number, intact, networkVars>>
    PROVE  DiscoveryInv'
BY DEF DiscoveryInv, TypeOK, NumbersAreFresh, ProbeIsShaped, AnsweredFits, ProvenFits, SearchIsRight,
       ProbeIsNext, IsLargest, Carried, networkVars

LEMMA NetworkChangesInv ==
    ASSUME DiscoveryInv, NetworkChanges
    PROVE  DiscoveryInv'
<1>1. TypeOK'
  BY DEF NetworkChanges, DiscoveryInv, TypeOK
<1>2. NumbersAreFresh' /\ ProbeIsShaped'
  BY DEF NetworkChanges, DiscoveryInv, NumbersAreFresh, ProbeIsShaped
<1>3. AnsweredFits' /\ ProvenFits' /\ SearchIsRight'
  BY DEF NetworkChanges, DiscoveryInv, AnsweredFits, ProvenFits, SearchIsRight
<1> QED
  BY <1>1, <1>2, <1>3 DEF DiscoveryInv

LEMMA NoticeChangeInv ==
    ASSUME DiscoveryInv, NoticeChange
    PROVE  DiscoveryInv'
<1>0. Carried' >= 2 /\ Carried' = Carried /\ Last \in Nat /\ Last >= 2
  BY CarriedType, DiscoveryAssumption DEF NoticeChange, DiscoveryInv, Carried
<1>1. TypeOK'
  BY DEF NoticeChange, DiscoveryInv, TypeOK, Messages, NoMessage, Least, Exactly
<1>2. NumbersAreFresh' /\ ProbeIsShaped'
  BY DEF NoticeChange, DiscoveryInv, TypeOK, NumbersAreFresh, ProbeIsShaped, NoMessage
<1>3. AnsweredFits' /\ SearchIsRight'
  BY DEF NoticeChange, AnsweredFits, SearchIsRight
<1>4. ProvenFits'
  BY <1>0 DEF NoticeChange, ProvenFits, Least, Exactly
<1> QED
  BY <1>1, <1>2, <1>3, <1>4 DEF DiscoveryInv

LEMMA NetworkIsSlowInv ==
    ASSUME DiscoveryInv, NetworkIsSlow
    PROVE  DiscoveryInv'
<1>1. UNCHANGED Carried
  BY DEF NetworkIsSlow, networkVars, Carried
<1>2. TypeOK' /\ NumbersAreFresh' /\ ProbeIsShaped'
  BY DEF NetworkIsSlow, networkVars, DiscoveryInv, TypeOK, NumbersAreFresh, ProbeIsShaped
<1>3. AnsweredFits' /\ ProvenFits' /\ SearchIsRight'
  BY <1>1 DEF NetworkIsSlow, networkVars, DiscoveryInv, AnsweredFits, ProvenFits, SearchIsRight
<1> QED
  BY <1>2, <1>3 DEF DiscoveryInv

LEMMA NextDiscovery ==
    ASSUME DiscoveryInv, [DiscoveryNext]_discoveryVars
    PROVE  DiscoveryInv'
<1>1. CASE Start
  BY <1>1, StartInv
<1>2. CASE Retry
  BY <1>2, RetryInv
<1>3. CASE GiveUp
  BY <1>3, GiveUpInv
<1>4. CASE Continue
  BY <1>4, ContinueInv
<1>5. CASE AddMessage \/ ProcessSendQueue \/ UNCHANGED discoveryVars
  BY <1>5, SameDiscovery DEF AddMessage, ProcessSendQueue, discoveryVars, networkVars
<1>6. CASE NoticeChange
  BY <1>6, NoticeChangeInv
<1>7. CASE \E n \in answers : ReceiveAck(n)
  BY <1>7, ReceiveAckInv
<1>8. CASE NetworkChanges
  BY <1>8, NetworkChangesInv
<1>9. CASE NetworkIsSlow
  BY <1>9, NetworkIsSlowInv
<1> QED
  BY <1>1, <1>2, <1>3, <1>4, <1>5, <1>6, <1>7, <1>8, <1>9 DEF DiscoveryNext, Process

\* What discovery ends with fits through the network it was done for (MessagesFit), and is the
\* largest size that fits where nothing was lost or late (LargestIsFound): ProcessReceivedAck
\* proves the size before a random one, and the final probe the exact one.
THEOREM DiscoveryIsRight == DiscoverySpec => []MTUIsRight
<1>1. DiscoveryInit => DiscoveryInv
  BY InitialDiscovery
<1>2. DiscoveryInv /\ [DiscoveryNext]_discoveryVars => DiscoveryInv'
  BY NextDiscovery
<1>3. DiscoveryInv => MTUIsRight
  <2> SUFFICES ASSUME DiscoveryInv, mtudStatus = "none", noticed
               PROVE  Exactly(mtu) <= Carried
                      /\ (intact => mtu = Max({k \in 1 .. Last : Exactly(k) <= Carried}))
    BY DEF MTUIsRight, MessagesFit, LargestIsFound
  <2>1. Exactly(mtu) <= Carried
    BY DEF DiscoveryInv, ProvenFits
  <2>2. intact => IsLargest(mtu)
    BY DEF DiscoveryInv, SearchIsRight
  <2> QED
    BY <2>1, <2>2, LargestIsMax, DiscoveryAssumption DEF DiscoveryInv
<1> QED
  BY <1>1, <1>2, <1>3, PTL DEF DiscoverySpec

-----------------------------------------------------------------------------
(* UDPSuspension.                                                           *)

Connections ==
    [status : {"Connected", "Suspended", "Closed"},
     silence : 0..(MaxKeepAliveTimeout + MaxSuspendDuration),
     idle : 0..SuspendTimeout, keepalive : 1..SuspendTimeout,
     address : 0..MaxMoves, peer : 0..MaxMoves,
     data : {"none", "due", "sent", "acked"}, timedOut : BOOLEAN]

Datagrams ==
    [to : Ends, at : 0..MaxMoves, from : 0..MaxMoves, age : 0..Delay,
     type : {"Data", "EAck", "Null", "Reset"}]

\* A reset comes from an end that is closed.
ResetIsLast == \A m \in wire : m.type = "Reset" => ~Open(Other(m.to))

\* An end that is left alone has what was sent to it before, and nothing since: it hears
\* nothing later than Delay.
FateInv ==
    /\ FateIsShared
    /\ \A e \in Ends : Open(e) /\ Open(Other(e)) => alone = 0
    /\ \A e \in Ends : Open(e) /\ ~Open(Other(e)) =>
          /\ alone <= Delay + end[e].silence
          /\ \A m \in wire : m.to = e => m.age >= alone

\* The last datagram that was sent to e has been received, or one is on its way that was
\* sent within a keepalive of what was received last.
Hears(e) ==
    \/ end[e].silence <= end[Other(e)].idle
    \/ \E m \in wire : m.to = e /\ end[e].silence <= SuspendTimeout + m.age

\* Nothing lost, nobody moved: each end hears of the other in time, if only that it closes.
Undisturbed == faults.losses = 0 /\ faults.moves = {}
KeptAlive ==
    /\ \A e \in Ends : end[e].address = 0 /\ end[e].peer = 0 /\ end[e].status # "Suspended"
    /\ \A m \in wire : m.at = 0 /\ m.from = 0
    /\ \A e \in Ends : Open(e) =>
          IF Open(Other(e)) THEN Hears(e)
          ELSE /\ \E m \in wire : m.to = e /\ m.type = "Reset"
               /\ \E m \in wire : m.to = e /\ end[e].silence <= SuspendTimeout + m.age

\* Only e has moved, once at most.
OnlyMoves(e) ==
    /\ SuspensionsAreLong
    /\ faults.losses = 0 /\ faults.closes = 0
    /\ end[Other(e)].address = 0 /\ end[e].address <= 1

\* Of e and the other end: both are there, and the other end hears e.
Followed(e) ==
    /\ \A x \in Ends : Open(x) /\ ~end[x].timedOut
    /\ end[e].peer = 0 /\ end[Other(e)].peer <= end[e].address
    /\ \A m \in wire :
          /\ m.type # "Reset"
          /\ m.to = e => m.from = 0 /\ m.at <= end[e].address
          /\ m.to = Other(e) => m.at = 0 /\ m.from <= end[e].address
    /\ Hears(Other(e))
    /\ end[e].address = 0 => Hears(e)

\* The longest silence of e until the other end knows for good where e is.
Search == 2 * SuspendTimeout + 3 * Delay

\* After the move: how long e has heard nothing when datagrams of its old address are still on
\* their way; when the other end believes them; and when it knows better.
Found(e) ==
    /\ \A m \in wire : m.to = Other(e) /\ m.from = 0 =>
          end[e].silence <= SuspendTimeout + Delay + m.age
    /\ end[Other(e)].peer = 0 =>
          \/ end[e].silence <= SuspendTimeout + 2 * Delay + end[e].idle
          \/ \E m \in wire : /\ m.to = Other(e) /\ m.from = 1
                             /\ end[e].silence <= 2 * SuspendTimeout + 2 * Delay + m.age
    /\ end[Other(e)].peer = 1 =>
          \/ end[e].silence <= Search + end[Other(e)].idle
          \/ \E m \in wire : /\ m.to = e /\ m.at = 1
                             /\ end[e].silence <= Search + SuspendTimeout + m.age

Tracked(e) == Followed(e) /\ (end[e].address = 1 => Found(e))

SuspensionInv ==
    /\ SuspensionTypeOK
    /\ \A e \in Ends : e \notin faults.moves => end[e].address = 0
    /\ ResetIsLast
    /\ FateInv
    /\ Undisturbed => KeptAlive
    /\ \A e \in Ends : OnlyMoves(e) => Tracked(e)

-----------------------------------------------------------------------------
(* What a step does, as far as silence is concerned.                        *)

\* A pass over the connection of e that finds received leaves r and sends sent.
PassResult(e, received, r, sent) ==
    /\ end' = [end EXCEPT ![e] = r]
    /\ wire' = (wire \ received) \cup sent
    /\ UNCHANGED <<alone, faults>>
    /\ r \in Connections /\ r.address = end[e].address
    /\ sent \subseteq Datagrams
    /\ \A m \in sent : /\ m.to = Other(e) /\ m.at = r.peer /\ m.from = r.address
                       /\ m.age = 0 /\ m.type # "Reset"
    /\ r.idle = end[e].idle \/ (r.idle = 0 /\ sent # {})

\* Nothing arrived.
Unheard(e, r) ==
    /\ r.peer = end[e].peer /\ r.silence = end[e].silence
    /\ \/ r.status = end[e].status /\ r.timedOut = end[e].timedOut
       \/ /\ end[e].status = "Connected" /\ end[e].silence >= MaxKeepAliveTimeout
          /\ r.status = "Suspended" /\ r.timedOut = end[e].timedOut
       \/ /\ end[e].status = "Suspended" /\ r.status = "Closed"
          /\ end[e].silence >= MaxKeepAliveTimeout + MaxSuspendDuration

\* The datagram m arrived.
Heard(e, m, r) ==
    /\ m \in Arrived(e)
    /\ r.timedOut = end[e].timedOut
    /\ IF m.type = "Reset"
       THEN r.status = "Closed" /\ r.peer = end[e].peer /\ r.silence = end[e].silence
       ELSE r.status = "Connected" /\ r.peer = m.from /\ r.silence = 0

LEMMA TheDatagram == \A m : (CHOOSE x \in {m} : TRUE) = m
  OBVIOUS

LEMMA OtherEnd ==
  ASSUME NEW e \in Ends
  PROVE  Other(e) \in Ends /\ Other(e) # e /\ Other(Other(e)) = e /\ Ends = {e, Other(e)}
  BY DEF Ends, Other

\* The last part of a pass: what it sends, and the limits of silence.
LEMMA PassOfRecord ==
  ASSUME SuspensionTypeOK, NEW e \in Ends, NEW received, NEW keepalive \in 1..SuspendTimeout,
         NEW r1 \in Connections, Open(e),
         r1.address = end[e].address, r1.idle = end[e].idle,
         ProcessEvents(e, received, keepalive),
         r1 = IF received = {} THEN end[e]
              ELSE ProcessReceivedMessage(end[e], CHOOSE m \in received : TRUE),
         UNCHANGED <<alone, faults>>
  PROVE  \E r, sent :
            /\ PassResult(e, received, r, sent)
            /\ r.peer = r1.peer /\ r.silence = r1.silence
            /\ \/ r.status = r1.status /\ r.timedOut = r1.timedOut
               \/ /\ r1.status = "Connected" /\ r1.silence >= MaxKeepAliveTimeout
                  /\ r.status = "Suspended" /\ r.timedOut = r1.timedOut
               \/ /\ r1.status = "Suspended" /\ r.status = "Closed"
                  /\ r1.silence >= MaxKeepAliveTimeout + MaxSuspendDuration
<1> DEFINE late == SuspendedTooLong(r1)
           data == DataIsDue(r1)
           null == ~late /\ ~data /\ KeepAliveIsDue(r1)
           ack == r1.status # "Closed" /\ \E m \in received : m.type = "Data"
           r2 == [r1 EXCEPT !.idle = IF data \/ null \/ ack THEN 0 ELSE @,
                            !.keepalive = IF null THEN keepalive ELSE @,
                            !.data = IF data THEN "sent" ELSE @]
           r3 == IF late THEN [r2 EXCEPT !.status = "Closed", !.timedOut = TRUE]
                 ELSE CheckSilence(r2)
           types == {t \in {"Data", "Null", "EAck"} :
                       (t = "Data" /\ data) \/ (t = "Null" /\ null) \/ (t = "EAck" /\ ack)}
           sent == {Datagram(e, r1, type) : type \in types}
<1>1. end' = [end EXCEPT ![e] = r3] /\ wire' = (wire \ received) \cup sent
  BY DEF ProcessEvents
<1>2. /\ r2 \in Connections
      /\ r2.address = r1.address /\ r2.peer = r1.peer /\ r2.silence = r1.silence
      /\ r2.status = r1.status /\ r2.timedOut = r1.timedOut
      /\ r2.idle = IF data \/ null \/ ack THEN 0 ELSE r1.idle
  <2> DEFINE i == IF data \/ null \/ ack THEN 0 ELSE r1.idle
             k == IF null THEN keepalive ELSE r1.keepalive
             d == IF data THEN "sent" ELSE r1.data
  <2>1. i \in 0..SuspendTimeout
    <3> HIDE DEF null, data, ack
    <3> QED BY SuspensionAssumption DEF Connections
  <2>2. k \in 1..SuspendTimeout /\ d \in {"none", "due", "sent", "acked"}
    <3> HIDE DEF null, data, ack
    <3> QED BY DEF Connections
  <2>3. r2 = [r1 EXCEPT !.idle = i, !.keepalive = k, !.data = d]
    OBVIOUS
  <2> HIDE DEF i, k, d, r2
  <2>4. /\ r2 \in Connections
        /\ r2.address = r1.address /\ r2.peer = r1.peer /\ r2.silence = r1.silence
        /\ r2.status = r1.status /\ r2.timedOut = r1.timedOut /\ r2.idle = i
    BY <2>1, <2>2, <2>3 DEF Connections
  <2> QED BY <2>4 DEF i
<1>3. /\ r3 \in Connections
      /\ r3.address = r1.address /\ r3.peer = r1.peer /\ r3.silence = r1.silence /\ r3.idle = r2.idle
      /\ \/ r3.status = r1.status /\ r3.timedOut = r1.timedOut
         \/ /\ r1.status = "Connected" /\ r1.silence >= MaxKeepAliveTimeout
            /\ r3.status = "Suspended" /\ r3.timedOut = r1.timedOut
         \/ /\ r1.status = "Suspended" /\ r3.status = "Closed"
            /\ r1.silence >= MaxKeepAliveTimeout + MaxSuspendDuration
  <2> HIDE DEF r2
  <2>1. CASE late
    <3>1. r3 = [r2 EXCEPT !.status = "Closed", !.timedOut = TRUE]
      BY <2>1
    <3> QED BY <3>1, <2>1, <1>2 DEF Connections, SuspendedTooLong
  <2>2. CASE ~late /\ r2.status = "Connected" /\ r2.silence >= MaxKeepAliveTimeout
    <3>1. r3 = [r2 EXCEPT !.status = "Suspended"]
      BY <2>2 DEF CheckSilence
    <3> QED BY <3>1, <2>2, <1>2 DEF Connections
  <2>3. CASE ~late /\ ~(r2.status = "Connected" /\ r2.silence >= MaxKeepAliveTimeout)
    <3>1. r3 = r2
      BY <2>3 DEF CheckSilence
    <3> QED BY <3>1, <1>2
  <2> QED BY <2>1, <2>2, <2>3
<1>4. /\ sent \subseteq Datagrams
      /\ \A m \in sent : /\ m.to = Other(e) /\ m.at = r1.peer /\ m.from = r1.address
                         /\ m.age = 0 /\ m.type # "Reset"
  BY OtherEnd, SuspensionAssumption DEF Datagram, Datagrams, Connections
<1>5. r2.idle = r1.idle \/ (r2.idle = 0 /\ sent # {})
  <2>1. data \/ null \/ ack => types # {}
    OBVIOUS
  <2> HIDE DEF types, data, null, ack, r2
  <2> QED BY <2>1, <1>2
<1> HIDE DEF r2, r3, sent
<1>6. PassResult(e, received, r3, sent)
  BY <1>1, <1>2, <1>3, <1>4, <1>5 DEF PassResult
<1> QED BY <1>6, <1>3

LEMMA PassOutcome ==
  ASSUME SuspensionTypeOK, NEW e \in Ends, NEW received, Pass(e, received),
         received = {} \/ \E m \in Arrived(e) : received = {m}
  PROVE  \E r, sent :
            /\ PassResult(e, received, r, sent)
            /\ received = {} => Unheard(e, r)
            /\ \A m : received = {m} => Heard(e, m, r)
<1>1. Open(e) /\ UNCHANGED <<alone, faults>>
  BY DEF Pass
<1>2. PICK keepalive \in 1..SuspendTimeout : ProcessEvents(e, received, keepalive)
  BY DEF Pass
<1>3. end[e] \in Connections
  BY DEF SuspensionTypeOK, Connections
<1>4. CASE received = {}
  <2>1. PICK r, sent :
            /\ PassResult(e, received, r, sent)
            /\ r.peer = end[e].peer /\ r.silence = end[e].silence
            /\ \/ r.status = end[e].status /\ r.timedOut = end[e].timedOut
               \/ /\ end[e].status = "Connected" /\ end[e].silence >= MaxKeepAliveTimeout
                  /\ r.status = "Suspended" /\ r.timedOut = end[e].timedOut
               \/ /\ end[e].status = "Suspended" /\ r.status = "Closed"
                  /\ end[e].silence >= MaxKeepAliveTimeout + MaxSuspendDuration
    BY <1>1, <1>2, <1>3, <1>4, PassOfRecord
  <2> QED BY <2>1, <1>4 DEF Unheard
<1>5. CASE \E m \in Arrived(e) : received = {m}
  <2>1. PICK m \in Arrived(e) : received = {m}
    BY <1>5
  <2> DEFINE r1 == ProcessReceivedMessage(end[e], m)
  <2>2. m \in Datagrams
    BY <2>1 DEF Arrived, SuspensionTypeOK, Datagrams
  <2>3. r1 = IF received = {} THEN end[e]
             ELSE ProcessReceivedMessage(end[e], CHOOSE x \in received : TRUE)
    BY <2>1, TheDatagram
  <2>4. /\ r1 \in Connections /\ r1.address = end[e].address /\ r1.idle = end[e].idle
        /\ r1.timedOut = end[e].timedOut
        /\ IF m.type = "Reset"
           THEN r1.status = "Closed" /\ r1.peer = end[e].peer /\ r1.silence = end[e].silence
           ELSE r1.status = "Connected" /\ r1.peer = m.from /\ r1.silence = 0
    <3>1. CASE m.type = "Reset"
      <4>1. r1 = [end[e] EXCEPT !.status = "Closed"]
        BY <3>1 DEF ProcessReceivedMessage
      <4> QED BY <4>1, <3>1, <1>3 DEF Connections
    <3>2. CASE m.type # "Reset"
      <4>1. r1 = [end[e] EXCEPT !.status = "Connected", !.silence = 0, !.peer = m.from,
                                !.data = IF m.type = "EAck" THEN "acked" ELSE @]
        BY <3>2 DEF ProcessReceivedMessage
      <4> DEFINE d == IF m.type = "EAck" THEN "acked" ELSE end[e].data
      <4>2. r1 = [end[e] EXCEPT !.status = "Connected", !.silence = 0, !.peer = m.from, !.data = d]
        BY <4>1
      <4>3. d \in {"none", "due", "sent", "acked"}
        BY <1>3 DEF Connections
      <4>4. m.from \in 0..MaxMoves /\ 0 \in 0..(MaxKeepAliveTimeout + MaxSuspendDuration)
        BY <2>2, SuspensionAssumption DEF Datagrams, MaxKeepAliveTimeout
      <4> HIDE DEF d, r1
      <4> QED BY <4>2, <4>3, <4>4, <3>2, <1>3 DEF Connections
    <3> QED BY <3>1, <3>2
  <2> HIDE DEF r1
  <2>5. PICK r, sent :
            /\ PassResult(e, received, r, sent)
            /\ r.peer = r1.peer /\ r.silence = r1.silence
            /\ \/ r.status = r1.status /\ r.timedOut = r1.timedOut
               \/ /\ r1.status = "Connected" /\ r1.silence >= MaxKeepAliveTimeout
                  /\ r.status = "Suspended" /\ r.timedOut = r1.timedOut
               \/ /\ r1.status = "Suspended" /\ r.status = "Closed"
                  /\ r1.silence >= MaxKeepAliveTimeout + MaxSuspendDuration
    BY <1>1, <1>2, <2>3, <2>4, PassOfRecord
  <2>6. ~(r1.status = "Connected" /\ r1.silence >= MaxKeepAliveTimeout) /\ r1.status # "Suspended"
    BY <2>4, SuspensionAssumption DEF MaxKeepAliveTimeout
  <2>7. Heard(e, m, r)
    BY <2>1, <2>4, <2>5, <2>6 DEF Heard
  <2>8. \A x : received = {x} => x = m
    BY <2>1
  <2> QED BY <2>1, <2>5, <2>7, <2>8
<1> QED BY <1>4, <1>5

\* A datagram that has waited a unit of time.
Older(m) == [m EXCEPT !.age = @ + 1]

LEMMA TickOutcome ==
  ASSUME SuspensionTypeOK, NEW expired \in BOOLEAN, Tick(expired)
  PROVE  /\ \A x \in Ends : /\ end'[x] \in Connections
                            /\ end'[x].status = end[x].status /\ end'[x].address = end[x].address
                            /\ end'[x].peer = end[x].peer /\ end'[x].timedOut = end[x].timedOut
                            /\ ~Open(x) => end'[x].silence = end[x].silence
                            /\ Open(x) => /\ end'[x].silence = end[x].silence + 1
                                          /\ end'[x].idle = end[x].idle + 1
         /\ end' \in [Ends -> Connections] /\ wire' \subseteq Datagrams
         /\ \A m \in wire : Open(m.to) /\ m.at = end[m.to].address =>
               Older(m) \in wire'
         /\ \A n \in wire' : \E m \in wire : n = Older(m) /\ Open(m.to) /\ m.at = end[m.to].address
         /\ UNCHANGED faults
<1> DEFINE R(x) == IF Open(x) THEN [end[x] EXCEPT !.silence = @ + 1, !.idle = @ + 1,
                                      !.data = IF expired /\ @ = "sent" THEN "due" ELSE @]
                   ELSE end[x]
<1>1. end' = [x \in Ends |-> R(x)]
  BY DEF Tick
<1>2. ASSUME NEW x \in Ends
      PROVE  /\ R(x) \in Connections
             /\ R(x).status = end[x].status /\ R(x).address = end[x].address
             /\ R(x).peer = end[x].peer /\ R(x).timedOut = end[x].timedOut
             /\ ~Open(x) => R(x).silence = end[x].silence
             /\ Open(x) => R(x).silence = end[x].silence + 1 /\ R(x).idle = end[x].idle + 1
  <2>1. end[x] \in Connections
    BY DEF SuspensionTypeOK, Connections
  <2>2. CASE ~Open(x)
    BY <2>1, <2>2
  <2>3. CASE Open(x)
    <3>1. /\ ~(end[x].idle >= end[x].keepalive) /\ ~SuspendedTooLong(end[x])
          /\ ~(end[x].status = "Connected" /\ end[x].silence >= MaxKeepAliveTimeout)
      <4>1. ~Overdue(x)
        BY DEF Tick
      <4>2. CheckSilence(end[x]) = end[x]
        BY <4>1, <2>3 DEF Overdue
      <4>3. ASSUME end[x].status = "Connected", end[x].silence >= MaxKeepAliveTimeout PROVE FALSE
        <5>1. [end[x] EXCEPT !.status = "Suspended"] = end[x]
          BY <4>2, <4>3 DEF CheckSilence
        <5>2. [end[x] EXCEPT !.status = "Suspended"].status = "Suspended"
          BY <2>1 DEF Connections
        <5> QED BY <5>1, <5>2, <4>3
      <4>4. ~KeepAliveIsDue(end[x]) /\ ~SuspendedTooLong(end[x])
        BY <4>1, <2>3 DEF Overdue
      <4> QED BY <4>3, <4>4, <2>3 DEF KeepAliveIsDue, Open
    <3>2. end[x].status \in {"Connected", "Suspended"}
      BY <2>1, <2>3 DEF Connections, Open
    <3>3. end[x].silence < MaxKeepAliveTimeout + MaxSuspendDuration
      BY <3>1, <3>2, <2>1, SuspensionAssumption
        DEF SuspendedTooLong, MaxKeepAliveTimeout, Connections
    <3>4. /\ end[x].silence + 1 \in 0..(MaxKeepAliveTimeout + MaxSuspendDuration)
          /\ end[x].idle + 1 \in 0..SuspendTimeout
      BY <3>1, <3>3, <2>1, SuspensionAssumption DEF MaxKeepAliveTimeout, Connections
    <3> DEFINE d == IF expired /\ end[x].data = "sent" THEN "due" ELSE end[x].data
    <3>5. d \in {"none", "due", "sent", "acked"}
      BY <2>1 DEF Connections
    <3>6. R(x) = [end[x] EXCEPT !.silence = end[x].silence + 1, !.idle = end[x].idle + 1, !.data = d]
      BY <2>3
    <3> HIDE DEF d, R
    <3> QED BY <3>4, <3>5, <3>6, <2>1, <2>3 DEF Connections
  <2> QED BY <2>2, <2>3
<1>3. end' \in [Ends -> Connections] /\ \A x \in Ends : end'[x] = R(x)
  <2> HIDE DEF R
  <2> QED BY <1>1, <1>2
<1>4. \A n : n \in wire' <=> \E m \in wire : /\ n = Older(m) /\ m.to \in Ends
                                             /\ Open(m.to) /\ m.at = end[m.to].address
  <2> DEFINE U == UNION {Arrived(x) : x \in {y \in Ends : Open(y)}}
  <2>1. wire' = {Older(m) : m \in U}
    BY DEF Tick, Older
  <2>2. \A m : m \in U <=> /\ m \in wire /\ m.to \in Ends
                           /\ Open(m.to) /\ m.at = end[m.to].address
    BY DEF Arrived
  <2> HIDE DEF U
  <2> QED BY <2>1, <2>2
<1>5. \A m \in wire : Open(m.to) /\ m.at = end[m.to].address => m.to \in Ends /\ m.age < Delay
  BY DEF Tick, Arrived, SuspensionTypeOK
<1>6. \A m \in wire : m \in Datagrams
  BY DEF SuspensionTypeOK, Datagrams
<1>7. wire' \subseteq Datagrams
  BY <1>4, <1>5, <1>6, SuspensionAssumption DEF Older, Datagrams
<1>8. UNCHANGED faults
  BY DEF Tick
<1> HIDE DEF R
<1>9. \A m \in wire : Open(m.to) /\ m.at = end[m.to].address => Older(m) \in wire'
  BY <1>4, <1>5
<1>10. \A n \in wire' : \E m \in wire : n = Older(m) /\ Open(m.to) /\ m.at = end[m.to].address
  BY <1>4
<1> QED BY <1>2, <1>3, <1>7, <1>8, <1>9, <1>10

LEMMA OlderDatagram ==
  ASSUME NEW m \in Datagrams
  PROVE  /\ Older(m).to = m.to /\ Older(m).at = m.at /\ Older(m).from = m.from
         /\ Older(m).type = m.type /\ Older(m).age = m.age + 1
  BY DEF Older, Datagrams

-----------------------------------------------------------------------------
(* Type correctness.                                                        *)

LEMMA SuspensionTypes ==
  SuspensionTypeOK <=>
      /\ end \in [Ends -> Connections] /\ wire \subseteq Datagrams /\ alone \in Nat
      /\ faults \in [losses : 0..MaxLosses, moves : SUBSET Ends, closes : 0..1]
  BY DEF SuspensionTypeOK, Connections, Datagrams

\* A step of one end or of the network, for the types.
LEMMA TypeOfOne ==
  ASSUME SuspensionTypeOK, NEW e \in Ends, NEW r \in Connections,
         end' = [end EXCEPT ![e] = r], wire' \subseteq Datagrams, alone' = alone,
         faults' \in [losses : 0..MaxLosses, moves : SUBSET Ends, closes : 0..1]
  PROVE  SuspensionTypeOK'
  BY SuspensionTypes DEF SuspensionTypeOK, Connections, Datagrams

LEMMA SuspensionTypeInit == SuspensionInit => SuspensionTypeOK
<1> SUFFICES ASSUME SuspensionInit PROVE SuspensionTypeOK
  OBVIOUS
<1>1. PICK keepalive \in [Ends -> 1..SuspendTimeout] :
          end = [e \in Ends |->
                   [status |-> "Connected", silence |-> 0, idle |-> 0, keepalive |-> keepalive[e],
                    address |-> 0, peer |-> 0, data |-> "none", timedOut |-> FALSE]]
  BY DEF SuspensionInit
<1>2. end \in [Ends -> Connections]
  BY <1>1, SuspensionAssumption DEF Connections, MaxKeepAliveTimeout
<1> QED BY <1>2, SuspensionTypes, SuspensionAssumption DEF SuspensionInit

\* What is received, or nothing.
LEMMA ReceivedByPass ==
  ASSUME NEW e \in Ends, Receive(e) \/ Idle(e)
  PROVE  \E received : /\ Pass(e, received)
                       /\ received = {} \/ \E m \in Arrived(e) : received = {m}
  BY DEF Receive, Idle

\* What a close and a move do to their end.
LEMMA CloseOutcome ==
  ASSUME SuspensionTypeOK, NEW e \in Ends, Close(e)
  PROVE  \E r \in Connections, sent \in SUBSET Datagrams :
            /\ end' = [end EXCEPT ![e] = r] /\ wire' = wire \cup sent
            /\ r.status = "Closed" /\ r.silence = end[e].silence /\ r.idle = end[e].idle
            /\ r.address = end[e].address /\ r.peer = end[e].peer /\ r.timedOut = end[e].timedOut
            /\ \A m \in sent : /\ m.to = Other(e) /\ m.at = r.peer /\ m.from = r.address
                               /\ m.age = 0 /\ m.type = "Reset"
            /\ end[e].status = "Connected" => sent # {}
            /\ Open(e) /\ faults' = [faults EXCEPT !.closes = 1] /\ alone' = alone
<1>1. end[e] \in Connections
  BY SuspensionTypes
<1> DEFINE r == [end[e] EXCEPT !.status = "Closed"]
           sent == IF end[e].status = "Connected" THEN {Datagram(e, end[e], "Reset")} ELSE {}
<1>2. end' = [end EXCEPT ![e] = r] /\ wire' = wire \cup sent
  BY DEF Close
<1>3. /\ r \in Connections
      /\ r.status = "Closed" /\ r.silence = end[e].silence /\ r.idle = end[e].idle
      /\ r.address = end[e].address /\ r.peer = end[e].peer /\ r.timedOut = end[e].timedOut
  BY <1>1 DEF Connections
<1>4. /\ sent \in SUBSET Datagrams
      /\ \A m \in sent : /\ m.to = Other(e) /\ m.at = end[e].peer /\ m.from = end[e].address
                         /\ m.age = 0 /\ m.type = "Reset"
      /\ end[e].status = "Connected" => sent # {}
  <2> DEFINE m == Datagram(e, end[e], "Reset")
  <2>1. /\ m \in Datagrams /\ m.to = Other(e) /\ m.at = end[e].peer
        /\ m.from = end[e].address /\ m.age = 0 /\ m.type = "Reset"
    BY <1>1, OtherEnd, SuspensionAssumption DEF Datagram, Datagrams, Connections
  <2> HIDE DEF m
  <2>2. sent = IF end[e].status = "Connected" THEN {m} ELSE {}
    BY DEF m
  <2> HIDE DEF sent
  <2> QED BY <2>1, <2>2
<1>5. Open(e) /\ faults' = [faults EXCEPT !.closes = 1] /\ alone' = alone
  BY DEF Close
<1> HIDE DEF r, sent
<1> QED BY <1>2, <1>3, <1>4, <1>5

LEMMA MoveOutcome ==
  ASSUME SuspensionTypeOK, NEW e \in Ends, Move(e)
  PROVE  \E r \in Connections, m \in Datagrams :
            /\ end' = [end EXCEPT ![e] = r] /\ wire' = wire \cup {m}
            /\ r.status = end[e].status /\ r.silence = end[e].silence /\ r.idle = 0
            /\ r.address = end[e].address + 1 /\ r.peer = end[e].peer /\ r.timedOut = end[e].timedOut
            /\ m.to = Other(e) /\ m.at = r.peer /\ m.from = r.address /\ m.age = 0 /\ m.type = "Null"
            /\ Open(e) /\ faults' = [faults EXCEPT !.moves = @ \cup {e}] /\ alone' = alone
<1>1. end[e] \in Connections /\ end[e].address < MaxMoves
  BY SuspensionTypes DEF Move
<1> DEFINE r == [end[e] EXCEPT !.address = @ + 1, !.idle = 0]
           m == Datagram(e, r, "Null")
<1>2. end' = [end EXCEPT ![e] = r] /\ wire' = wire \cup {m}
  BY DEF Move
<1>3. /\ r \in Connections
      /\ r.status = end[e].status /\ r.silence = end[e].silence /\ r.idle = 0
      /\ r.address = end[e].address + 1 /\ r.peer = end[e].peer /\ r.timedOut = end[e].timedOut
  <2>1. end[e].address + 1 \in 0..MaxMoves /\ 0 \in 0..SuspendTimeout
    BY <1>1, SuspensionAssumption DEF Connections
  <2>2. r = [end[e] EXCEPT !.address = end[e].address + 1, !.idle = 0]
    OBVIOUS
  <2> HIDE DEF r
  <2> QED BY <2>1, <2>2, <1>1 DEF Connections
<1> HIDE DEF r
<1>4. /\ m \in Datagrams
      /\ m.to = Other(e) /\ m.at = r.peer /\ m.from = r.address /\ m.age = 0 /\ m.type = "Null"
  BY <1>3, OtherEnd, SuspensionAssumption DEF Datagram, Datagrams, Connections
<1>5. Open(e) /\ faults' = [faults EXCEPT !.moves = @ \cup {e}] /\ alone' = alone
  BY DEF Move
<1> HIDE DEF m
<1> QED BY <1>2, <1>3, <1>4, <1>5

\* Written data waits; it changes nothing else.
LEMMA SendOutcome ==
  ASSUME SuspensionTypeOK, SendData
  PROVE  \E r \in Connections :
            /\ end' = [end EXCEPT !["a"] = r]
            /\ r.status = end["a"].status /\ r.silence = end["a"].silence /\ r.idle = end["a"].idle
            /\ r.address = end["a"].address /\ r.peer = end["a"].peer
            /\ r.timedOut = end["a"].timedOut
            /\ UNCHANGED <<wire, alone, faults>>
<1>1. end["a"] \in Connections
  BY SuspensionTypes DEF Ends
<1> DEFINE r == [end["a"] EXCEPT !.data = "due"]
<1>2. /\ r \in Connections
      /\ r.status = end["a"].status /\ r.silence = end["a"].silence /\ r.idle = end["a"].idle
      /\ r.address = end["a"].address /\ r.peer = end["a"].peer
      /\ r.timedOut = end["a"].timedOut
  BY <1>1 DEF Connections
<1>3. end' = [end EXCEPT !["a"] = r] /\ UNCHANGED <<wire, alone, faults>>
  BY DEF SendData
<1> HIDE DEF r
<1> QED BY <1>2, <1>3

LEMMA SuspensionTypeStep ==
  ASSUME SuspensionTypeOK, [SuspensionNext]_suspensionVars
  PROVE  SuspensionTypeOK'
<1> USE SuspensionTypes
<1>1. ASSUME NEW e \in Ends, Receive(e) \/ Idle(e) PROVE SuspensionTypeOK'
  <2>1. PICK received : /\ Pass(e, received)
                        /\ received = {} \/ \E m \in Arrived(e) : received = {m}
    BY <1>1, ReceivedByPass
  <2>2. PICK r, sent : PassResult(e, received, r, sent)
    BY <2>1, PassOutcome
  <2> QED BY <2>2, TypeOfOne DEF PassResult
<1>2. ASSUME NEW e \in Ends, Close(e) PROVE SuspensionTypeOK'
  <2>1. PICK r \in Connections, sent \in SUBSET Datagrams :
            /\ end' = [end EXCEPT ![e] = r] /\ wire' = wire \cup sent
            /\ faults' = [faults EXCEPT !.closes = 1] /\ alone' = alone
    BY <1>2, CloseOutcome
  <2>2. faults' \in [losses : 0..MaxLosses, moves : SUBSET Ends, closes : 0..1]
    BY <2>1
  <2>3. wire' \subseteq Datagrams
    BY <2>1
  <2> QED BY <2>1, <2>2, <2>3, TypeOfOne
<1>3. ASSUME NEW e \in Ends, Move(e) PROVE SuspensionTypeOK'
  <2>1. PICK r \in Connections, m \in Datagrams :
            /\ end' = [end EXCEPT ![e] = r] /\ wire' = wire \cup {m}
            /\ faults' = [faults EXCEPT !.moves = @ \cup {e}] /\ alone' = alone
    BY <1>3, MoveOutcome
  <2>2. faults' \in [losses : 0..MaxLosses, moves : SUBSET Ends, closes : 0..1]
    BY <2>1
  <2>3. wire' \subseteq Datagrams
    BY <2>1
  <2> QED BY <2>1, <2>2, <2>3, TypeOfOne
<1>4. CASE SendData
  BY <1>4, SendOutcome, TypeOfOne DEF Ends
<1>5. ASSUME NEW m \in wire, LoseDatagram(m) PROVE SuspensionTypeOK'
  <2>1. faults' \in [losses : 0..MaxLosses, moves : SUBSET Ends, closes : 0..1]
    BY <1>5, SuspensionAssumption DEF LoseDatagram
  <2>2. wire' \subseteq Datagrams /\ end' = end /\ alone' = alone
    BY <1>5 DEF LoseDatagram
  <2> QED BY <2>1, <2>2 DEF SuspensionTypeOK, Connections, Datagrams
<1>6. ASSUME NEW expired \in BOOLEAN, Tick(expired) PROVE SuspensionTypeOK'
  <2>1. /\ end' \in [Ends -> Connections] /\ wire' \subseteq Datagrams /\ UNCHANGED faults
    BY <1>6, TickOutcome
  <2>2. alone' = alone \/ alone' = alone + 1
    BY <1>6 DEF Tick
  <2> QED BY <2>1, <2>2 DEF SuspensionTypeOK, Connections, Datagrams
<1>7. CASE UNCHANGED suspensionVars
  BY <1>7 DEF suspensionVars, SuspensionTypeOK
<1> QED BY <1>1, <1>2, <1>3, <1>4, <1>5, <1>6, <1>7 DEF SuspensionNext

-----------------------------------------------------------------------------
(* The end that is left alone.                                              *)

LEMMA EndsAfter ==
  ASSUME SuspensionTypeOK, NEW e \in Ends, NEW r \in Connections, end' = [end EXCEPT ![e] = r]
  PROVE  end'[e] = r /\ end'[Other(e)] = end[Other(e)]
  BY SuspensionTypes, OtherEnd

LEMMA ResetIsLastStep ==
  ASSUME SuspensionTypeOK, ResetIsLast, [SuspensionNext]_suspensionVars
  PROVE  ResetIsLast'
<1>1. ASSUME NEW e \in Ends, Receive(e) \/ Idle(e) PROVE ResetIsLast'
  <2>1. PICK received : /\ Pass(e, received)
                        /\ received = {} \/ \E m \in Arrived(e) : received = {m}
    BY <1>1, ReceivedByPass
  <2>2. PICK r, sent : PassResult(e, received, r, sent)
    BY <2>1, PassOutcome
  <2>3. Open(e) /\ end'[Other(e)] = end[Other(e)]
    BY <2>1, <2>2, EndsAfter DEF Pass, PassResult
  <2>4. ASSUME NEW m \in wire', m.type = "Reset" PROVE ~Open(Other(m.to))'
    <3>1. m \in wire /\ m.to \in Ends
      BY <2>2, <2>4, SuspensionTypes DEF PassResult, Datagrams
    <3>2. ~Open(Other(m.to)) /\ Other(m.to) \in Ends /\ Other(m.to) # e
      BY <3>1, <2>3, <2>4, OtherEnd DEF ResetIsLast
    <3> QED BY <3>2, <2>3, OtherEnd DEF Open
  <2> QED BY <2>4 DEF ResetIsLast
<1>2. ASSUME NEW e \in Ends, Close(e) PROVE ResetIsLast'
  <2>1. PICK r \in Connections, sent \in SUBSET Datagrams :
            /\ end' = [end EXCEPT ![e] = r] /\ wire' = wire \cup sent
            /\ r.status = "Closed" /\ Open(e)
            /\ \A m \in sent : m.to = Other(e)
    BY <1>2, CloseOutcome
  <2>2. end'[e] = r /\ end'[Other(e)] = end[Other(e)]
    BY <2>1, EndsAfter
  <2>3. ASSUME NEW m \in wire', m.type = "Reset" PROVE ~Open(Other(m.to))'
    <3>1. CASE m \in sent
      BY <3>1, <2>1, <2>2, OtherEnd DEF Open
    <3>2. CASE m \in wire
      <4>1. ~Open(Other(m.to)) /\ m.to \in Ends
        BY <3>2, <2>3, SuspensionTypes DEF ResetIsLast, Datagrams
      <4> QED BY <4>1, <2>1, <2>2, OtherEnd DEF Open
    <3> QED BY <3>1, <3>2, <2>1
  <2> QED BY <2>3 DEF ResetIsLast
<1>3. ASSUME NEW e \in Ends, Move(e) PROVE ResetIsLast'
  <2>1. PICK r \in Connections, n \in Datagrams :
            /\ end' = [end EXCEPT ![e] = r] /\ wire' = wire \cup {n}
            /\ r.status = end[e].status /\ n.type = "Null"
    BY <1>3, MoveOutcome
  <2>2. end'[e] = r /\ end'[Other(e)] = end[Other(e)]
    BY <2>1, EndsAfter
  <2>3. ASSUME NEW m \in wire', m.type = "Reset" PROVE ~Open(Other(m.to))'
    <3>1. m \in wire /\ m.to \in Ends
      BY <2>1, <2>3, SuspensionTypes DEF Datagrams
    <3> QED BY <3>1, <2>1, <2>2, <2>3, OtherEnd DEF Open, ResetIsLast
  <2> QED BY <2>3 DEF ResetIsLast
<1>4. CASE SendData
  <2>1. PICK r \in Connections :
            /\ end' = [end EXCEPT !["a"] = r] /\ r.status = end["a"].status
            /\ wire' = wire
    BY <1>4, SendOutcome
  <2>2. \A x \in Ends : end'[x].status = end[x].status
    BY <2>1, SuspensionTypes
  <2>3. \A m \in wire : Other(m.to) \in Ends
    BY OtherEnd, SuspensionTypes DEF Datagrams
  <2> QED BY <2>1, <2>2, <2>3 DEF ResetIsLast, Open
<1>5. ASSUME NEW m \in wire, LoseDatagram(m) PROVE ResetIsLast'
  BY <1>5 DEF LoseDatagram, ResetIsLast, Open
<1>6. ASSUME NEW expired \in BOOLEAN, Tick(expired) PROVE ResetIsLast'
  <2>1. /\ \A x \in Ends : end'[x].status = end[x].status
        /\ \A n \in wire' : \E m \in wire : n = Older(m)
    BY <1>6, TickOutcome
  <2>2. \A m \in wire : m \in Datagrams /\ Other(m.to) \in Ends
    BY OtherEnd, SuspensionTypes DEF Datagrams
  <2>3. \A n \in wire' : \E m \in wire : n.to = m.to /\ n.type = m.type
    BY <2>1, <2>2, OlderDatagram
  <2> QED BY <2>1, <2>2, <2>3 DEF ResetIsLast, Open
<1>7. CASE UNCHANGED suspensionVars
  BY <1>7 DEF suspensionVars, ResetIsLast, Open
<1> QED BY <1>1, <1>2, <1>3, <1>4, <1>5, <1>6, <1>7 DEF SuspensionNext

LEMMA MovesStep ==
  ASSUME SuspensionTypeOK, \A e \in Ends : e \notin faults.moves => end[e].address = 0,
         [SuspensionNext]_suspensionVars
  PROVE  \A e \in Ends : e \notin faults'.moves => end'[e].address = 0
<1>1. ASSUME NEW e \in Ends, Receive(e) \/ Idle(e)
      PROVE  \A x \in Ends : x \notin faults'.moves => end'[x].address = 0
  <2>1. PICK received : /\ Pass(e, received)
                        /\ received = {} \/ \E m \in Arrived(e) : received = {m}
    BY <1>1, ReceivedByPass
  <2>2. PICK r, sent : PassResult(e, received, r, sent)
    BY <2>1, PassOutcome
  <2> QED BY <2>2, EndsAfter, OtherEnd DEF PassResult
<1>2. ASSUME NEW e \in Ends, Close(e)
      PROVE  \A x \in Ends : x \notin faults'.moves => end'[x].address = 0
  <2>1. PICK r \in Connections :
            /\ end' = [end EXCEPT ![e] = r] /\ r.address = end[e].address
            /\ faults' = [faults EXCEPT !.closes = 1]
    BY <1>2, CloseOutcome
  <2>2. faults'.moves = faults.moves
    BY <2>1, SuspensionTypes
  <2> QED BY <2>1, <2>2, EndsAfter, OtherEnd
<1>3. ASSUME NEW e \in Ends, Move(e)
      PROVE  \A x \in Ends : x \notin faults'.moves => end'[x].address = 0
  <2>1. PICK r \in Connections :
            /\ end' = [end EXCEPT ![e] = r]
            /\ faults' = [faults EXCEPT !.moves = @ \cup {e}]
    BY <1>3, MoveOutcome
  <2>2. faults'.moves = faults.moves \cup {e}
    BY <2>1, SuspensionTypes
  <2> QED BY <2>1, <2>2, EndsAfter, OtherEnd
<1>4. CASE SendData
  <2>1. PICK r \in Connections :
            /\ end' = [end EXCEPT !["a"] = r] /\ r.address = end["a"].address
            /\ faults' = faults
    BY <1>4, SendOutcome
  <2> QED BY <2>1, SuspensionTypes
<1>5. ASSUME NEW m \in wire, LoseDatagram(m)
      PROVE  \A x \in Ends : x \notin faults'.moves => end'[x].address = 0
  BY <1>5, SuspensionTypes DEF LoseDatagram
<1>6. ASSUME NEW expired \in BOOLEAN, Tick(expired)
      PROVE  \A x \in Ends : x \notin faults'.moves => end'[x].address = 0
  BY <1>6, TickOutcome
<1>7. CASE UNCHANGED suspensionVars
  BY <1>7 DEF suspensionVars
<1> QED BY <1>1, <1>2, <1>3, <1>4, <1>5, <1>6, <1>7 DEF SuspensionNext

\* One end's step in which nothing is sent to an end that is left alone.
LEMMA FateOfOne ==
  ASSUME SuspensionTypeOK, FateInv, NEW e \in Ends, NEW r \in Connections,
         end' = [end EXCEPT ![e] = r], alone' = alone, Open(e),
         NEW sent \in SUBSET Datagrams, wire' \subseteq wire \cup sent,
         \A m \in sent : m.to = Other(e),
         \/ r.silence = end[e].silence
         \/ \E m \in wire : m.to = e /\ r.silence = 0
  PROVE  FateInv'
<1>1. end'[e] = r /\ end'[Other(e)] = end[Other(e)] /\ Other(e) \in Ends /\ Ends = {e, Other(e)}
      /\ Other(Other(e)) = e /\ Other(e) # e
  BY EndsAfter, OtherEnd
<1>2. FateIsShared'
  BY DEF FateInv, FateIsShared
<1>3. /\ alone \in Nat /\ Delay \in Nat /\ \A m \in wire : m.age \in 0..Delay
      /\ \A m \in sent : m.age \in Nat
      /\ r.silence \in Nat /\ end[e].silence \in Nat /\ end[Other(e)].silence \in Nat
  BY <1>1, SuspensionTypes, SuspensionAssumption DEF Datagrams, Connections, MaxKeepAliveTimeout
<1>4. CASE Open(Other(e))
  <2>1. alone = 0
    BY <1>1, <1>4 DEF FateInv
  <2>2. \A m \in wire' : m.age >= alone
    BY <2>1, <1>3
  <2> QED BY <2>1, <2>2, <1>1, <1>2, <1>3 DEF FateInv
<1>5. CASE ~Open(Other(e))
  <2>1. /\ alone <= Delay + end[e].silence
        /\ \A m \in wire : m.to = e => m.age >= alone
    BY <1>1, <1>5 DEF FateInv
  <2>2. alone <= Delay + r.silence
    BY <2>1, <1>3
  <2>3. \A m \in wire' : m.to = e => m.age >= alone
    BY <2>1, <1>1
  <2>4. ~Open(Other(e))'
    BY <1>1, <1>5 DEF Open
  <2> QED BY <2>2, <2>3, <2>4, <1>1, <1>2 DEF FateInv
<1> QED BY <1>4, <1>5

LEMMA FateStep ==
  ASSUME SuspensionTypeOK, FateInv, [SuspensionNext]_suspensionVars
  PROVE  FateInv'
<1>1. ASSUME NEW e \in Ends, Receive(e) \/ Idle(e) PROVE FateInv'
  <2>1. PICK received : /\ Pass(e, received)
                        /\ received = {} \/ \E m \in Arrived(e) : received = {m}
    BY <1>1, ReceivedByPass
  <2>2. PICK r, sent : /\ PassResult(e, received, r, sent)
                       /\ received = {} => Unheard(e, r)
                       /\ \A m : received = {m} => Heard(e, m, r)
    BY <2>1, PassOutcome
  <2>3. Open(e)
    BY <2>1 DEF Pass
  <2>4. \/ r.silence = end[e].silence
        \/ \E m \in wire : m.to = e /\ r.silence = 0
    BY <2>1, <2>2 DEF Unheard, Heard, Arrived
  <2> QED BY <2>2, <2>3, <2>4, FateOfOne DEF PassResult
<1>2. ASSUME NEW e \in Ends, Close(e) PROVE FateInv'
  <2>1. PICK r \in Connections, sent \in SUBSET Datagrams :
            /\ end' = [end EXCEPT ![e] = r] /\ wire' = wire \cup sent
            /\ r.silence = end[e].silence /\ \A m \in sent : m.to = Other(e)
            /\ Open(e) /\ alone' = alone
    BY <1>2, CloseOutcome
  <2> QED BY <2>1, FateOfOne
<1>3. ASSUME NEW e \in Ends, Move(e) PROVE FateInv'
  <2>1. PICK r \in Connections, m \in Datagrams :
            /\ end' = [end EXCEPT ![e] = r] /\ wire' = wire \cup {m}
            /\ r.silence = end[e].silence /\ m.to = Other(e) /\ Open(e) /\ alone' = alone
    BY <1>3, MoveOutcome
  <2>2. {m} \in SUBSET Datagrams /\ \A n \in {m} : n.to = Other(e)
    BY <2>1
  <2> QED BY <2>1, <2>2, FateOfOne
<1>4. CASE SendData
  <2>1. PICK r \in Connections :
            /\ end' = [end EXCEPT !["a"] = r] /\ r.silence = end["a"].silence
            /\ wire' = wire /\ alone' = alone
    BY <1>4, SendOutcome
  <2>2. Open("a") /\ "a" \in Ends
    BY <1>4 DEF SendData, Open, Ends
  <2>3. {} \in SUBSET Datagrams /\ wire' \subseteq wire \cup {}
    BY <2>1
  <2> QED BY <2>1, <2>2, <2>3, FateOfOne
<1>5. ASSUME NEW m \in wire, LoseDatagram(m) PROVE FateInv'
  BY <1>5 DEF LoseDatagram, FateInv, FateIsShared, Open
<1>6. ASSUME NEW expired \in BOOLEAN, Tick(expired) PROVE FateInv'
  <2>1. /\ \A x \in Ends : /\ end'[x] \in Connections
                           /\ end'[x].status = end[x].status
                           /\ Open(x) => end'[x].silence = end[x].silence + 1
        /\ \A n \in wire' : \E m \in wire : n = Older(m)
    BY <1>6, TickOutcome
  <2>2. \A n \in wire' : \E m \in wire : n.to = m.to /\ n.age = m.age + 1 /\ m.age \in Nat
    BY <2>1, SuspensionTypes, OlderDatagram, SuspensionAssumption DEF Datagrams
  <2>3. \A x \in Ends : Open(x)' <=> Open(x)
    BY <2>1 DEF Open
  <2>4. alone' = IF \E e \in Ends : Open(e) /\ ~Open(Other(e)) THEN alone + 1 ELSE alone
    BY <1>6 DEF Tick
  <2>5. /\ alone \in Nat /\ Delay \in Nat /\ MaxKeepAliveTimeout + MaxSuspendDuration \in Nat
        /\ \A x \in Ends : /\ end[x].silence \in Nat /\ end'[x].silence \in Nat
                           /\ end'[x].silence <= MaxKeepAliveTimeout + MaxSuspendDuration
    BY <2>1, SuspensionTypes, SuspensionAssumption DEF Connections, MaxKeepAliveTimeout
  <2>6. ASSUME NEW e \in Ends, Open(e), Open(Other(e)) PROVE alone' = 0
    <3>1. ~\E x \in Ends : Open(x) /\ ~Open(Other(x))
      BY <2>6, OtherEnd
    <3> QED BY <3>1, <2>4, <2>6 DEF FateInv
  <2>7. ASSUME NEW e \in Ends, Open(e), ~Open(Other(e))
        PROVE  /\ alone' <= Delay + end'[e].silence
               /\ \A m \in wire' : m.to = e => m.age >= alone'
    <3>1. alone' = alone + 1 /\ alone <= Delay + end[e].silence
      BY <2>4, <2>7 DEF FateInv
    <3>2. \A m \in wire : m.to = e => m.age >= alone
      BY <2>7 DEF FateInv
    <3> QED BY <3>1, <3>2, <2>1, <2>2, <2>5, <2>7
  <2>8. FateIsShared'
    <3>1. CASE \E e \in Ends : Open(e) /\ ~Open(Other(e))
      <4>1. PICK e \in Ends : Open(e) /\ ~Open(Other(e))
        BY <3>1
      <4>2. alone' <= Delay + end'[e].silence
        BY <4>1, <2>7
      <4>3. alone' \in Nat
        BY <2>4, <2>5
      <4>4. MaxKeepAliveTimeout \in Nat
        BY SuspensionAssumption DEF MaxKeepAliveTimeout
      <4> QED BY <4>2, <4>3, <4>4, <2>5, SuspensionAssumption DEF FateIsShared
    <3>2. CASE ~\E e \in Ends : Open(e) /\ ~Open(Other(e))
      BY <3>2, <2>4 DEF FateInv, FateIsShared
    <3> QED BY <3>1, <3>2
  <2>9. \A e \in Ends : Other(e) \in Ends
    BY OtherEnd
  <2> QED BY <2>3, <2>6, <2>7, <2>8, <2>9 DEF FateInv
<1>7. CASE UNCHANGED suspensionVars
  BY <1>7 DEF suspensionVars, FateInv, FateIsShared, Open
<1> QED BY <1>1, <1>2, <1>3, <1>4, <1>5, <1>6, <1>7 DEF SuspensionNext

-----------------------------------------------------------------------------
(* Who is heard.                                                            *)

\* What is between 0 and its bound.
LEMMA Times ==
  ASSUME SuspensionTypeOK
  PROVE  /\ SuspendTimeout \in Nat \ {0} /\ Delay \in Nat
         /\ \A m \in wire : m \in Datagrams /\ m.age \in Nat /\ m.age <= Delay
         /\ \A x \in Ends : /\ end[x] \in Connections
                            /\ end[x].silence \in Nat /\ end[x].idle \in Nat
                            /\ end[x].idle <= SuspendTimeout
                            /\ end[x].address \in Nat /\ end[x].peer \in Nat
  BY SuspensionTypes, SuspensionAssumption DEF Datagrams, Connections, MaxKeepAliveTimeout

LEMMA HearsInTime ==
  ASSUME SuspensionTypeOK, NEW e \in Ends, Hears(e)
  PROVE  end[e].silence <= SuspendTimeout + Delay
<1>1. Other(e) \in Ends
  BY OtherEnd
<1> QED BY <1>1, Times DEF Hears

\* A pass over the connection of e changes neither who hears nor who is heard.
LEMMA HearsAfterPass ==
  ASSUME SuspensionTypeOK, NEW e \in Ends, NEW received, NEW r, NEW sent,
         received = {} \/ \E m \in Arrived(e) : received = {m},
         PassResult(e, received, r, sent),
         received = {} => Unheard(e, r), \A m : received = {m} => Heard(e, m, r)
  PROVE  /\ Hears(e) /\ r.status # "Closed" => Hears(e)'
         /\ Hears(Other(e)) => Hears(Other(e))'
<1>1. /\ end'[e] = r /\ end'[Other(e)] = end[Other(e)] /\ Other(e) \in Ends
      /\ Other(Other(e)) = e /\ Other(e) # e
  BY EndsAfter, OtherEnd DEF PassResult
<1>2. ASSUME Hears(e), r.status # "Closed" PROVE Hears(e)'
  <2>1. CASE received = {}
    <3>1. r.silence = end[e].silence /\ \A m \in wire : m \in wire'
      BY <2>1 DEF Unheard, PassResult
    <3> QED BY <3>1, <1>1, <1>2 DEF Hears
  <2>2. CASE \E m \in Arrived(e) : received = {m}
    <3>1. r.silence = 0
      BY <2>2, <1>2 DEF Heard
    <3> QED BY <3>1, <1>1, Times DEF Hears
  <2> QED BY <2>1, <2>2
<1>3. ASSUME Hears(Other(e)) PROVE Hears(Other(e))'
  <2>1. CASE \E m \in wire : m.to = Other(e) /\ end[Other(e)].silence <= SuspendTimeout + m.age
    <3>1. PICK m \in wire : m.to = Other(e) /\ end[Other(e)].silence <= SuspendTimeout + m.age
      BY <2>1
    <3>2. m \notin received
      BY <3>1, <1>1 DEF Arrived
    <3>3. m \in wire'
      BY <3>2 DEF PassResult
    <3> QED BY <3>1, <3>3, <1>1 DEF Hears
  <2>2. CASE end[Other(e)].silence <= end[e].idle
    <3>1. CASE r.idle = end[e].idle
      BY <3>1, <2>2, <1>1 DEF Hears
    <3>2. CASE r.idle = 0 /\ sent # {}
      <4>1. PICK m \in sent : TRUE
        BY <3>2
      <4>2. m \in wire' /\ m.to = Other(e) /\ m.age = 0
        BY <4>1 DEF PassResult
      <4>3. end[Other(e)].silence <= SuspendTimeout + m.age
        BY <4>2, <2>2, <1>1, Times
      <4> QED BY <4>2, <4>3, <1>1 DEF Hears
    <3> QED BY <3>1, <3>2 DEF PassResult
  <2> QED BY <2>1, <2>2, <1>1, <1>3 DEF Hears
<1> QED BY <1>2, <1>3

\* Time passes for both.
LEMMA HearsAfterTick ==
  ASSUME SuspensionTypeOK, NEW e \in Ends, NEW expired \in BOOLEAN, Tick(expired),
         Open(e), Open(Other(e)), Hears(e),
         \A m \in wire : m.to = e => m.at = end[e].address
  PROVE  Hears(e)'
<1>1. /\ end'[e].silence = end[e].silence + 1
      /\ end'[Other(e)].idle = end[Other(e)].idle + 1
  BY TickOutcome, OtherEnd
<1>2. CASE end[e].silence <= end[Other(e)].idle
  BY <1>1, <1>2, Times, OtherEnd DEF Hears
<1>3. CASE \E m \in wire : m.to = e /\ end[e].silence <= SuspendTimeout + m.age
  <2>1. PICK m \in wire : m.to = e /\ end[e].silence <= SuspendTimeout + m.age
    BY <1>3
  <2>2. Older(m) \in wire'
    BY <2>1, TickOutcome
  <2>3. Older(m).to = e /\ Older(m).age = m.age + 1
    BY <2>1, OlderDatagram, Times
  <2>4. end'[e].silence <= SuspendTimeout + Older(m).age
    BY <2>1, <2>3, <1>1, Times
  <2> QED BY <2>2, <2>3, <2>4 DEF Hears
<1> QED BY <1>2, <1>3 DEF Hears

-----------------------------------------------------------------------------
(* Nothing is lost, and nobody moves.                                       *)

LEMMA KeptAliveInTime ==
  ASSUME SuspensionTypeOK, KeptAlive, NEW e \in Ends, Open(e)
  PROVE  end[e].silence <= SuspendTimeout + Delay
<1>1. CASE Open(Other(e))
  BY <1>1, HearsInTime DEF KeptAlive
<1>2. CASE ~Open(Other(e))
  <2>1. PICK m \in wire : end[e].silence <= SuspendTimeout + m.age
    BY <1>2 DEF KeptAlive
  <2> QED BY <2>1, Times
<1> QED BY <1>1, <1>2

LEMMA KeptAlivePass ==
  ASSUME SuspensionTypeOK, KeptAlive, ResetIsLast, NEW e \in Ends, Receive(e) \/ Idle(e)
  PROVE  KeptAlive'
<1>1. PICK received : /\ Pass(e, received)
                      /\ received = {} \/ \E m \in Arrived(e) : received = {m}
  BY ReceivedByPass
<1>2. PICK r, sent : /\ PassResult(e, received, r, sent)
                     /\ received = {} => Unheard(e, r)
                     /\ \A m : received = {m} => Heard(e, m, r)
  BY <1>1, PassOutcome
<1>3. Open(e)
  BY <1>1 DEF Pass
<1>4. /\ end'[e] = r /\ end'[Other(e)] = end[Other(e)] /\ Other(e) \in Ends
      /\ Other(Other(e)) = e /\ Other(e) # e /\ Ends = {e, Other(e)}
  BY <1>2, EndsAfter, OtherEnd DEF PassResult
<1>5. end[e].silence < MaxKeepAliveTimeout /\ end[e].status # "Suspended"
  BY <1>3, KeptAliveInTime, Times, SuspensionAssumption DEF KeptAlive, MaxKeepAliveTimeout
<1>6. CASE received = {}
  <2>1. /\ r.peer = end[e].peer /\ r.silence = end[e].silence /\ r.status = end[e].status
        /\ r.address = end[e].address /\ \A m \in wire : m \in wire'
    BY <1>6, <1>2, <1>5, Times, SuspensionAssumption DEF Unheard, PassResult, MaxKeepAliveTimeout
  <2>2. \A x \in Ends : end'[x].address = 0 /\ end'[x].peer = 0 /\ end'[x].status # "Suspended"
    BY <2>1, <1>4 DEF KeptAlive
  <2>3. \A m \in wire' : m.at = 0 /\ m.from = 0
    BY <2>1, <1>2, <1>4 DEF KeptAlive, PassResult
  <2>4. \A x \in Ends : Open(x)' <=> Open(x)
    BY <2>1, <1>4 DEF Open
  <2>5. ASSUME NEW x \in Ends, Open(x), Open(Other(x)) PROVE Hears(x)'
    <3>1. Hears(x)
      BY <2>5 DEF KeptAlive
    <3>2. r.status # "Closed"
      BY <2>1, <1>3 DEF Open
    <3> QED BY <3>1, <3>2, <1>1, <1>2, <1>4, HearsAfterPass
  <2>6. ASSUME NEW x \in Ends, Open(x), ~Open(Other(x))
        PROVE  /\ \E m \in wire' : m.to = x /\ m.type = "Reset"
               /\ \E m \in wire' : m.to = x /\ end'[x].silence <= SuspendTimeout + m.age
    <3>1. end'[x].silence = end[x].silence
      BY <2>1, <1>4
    <3> QED BY <3>1, <2>1, <2>6 DEF KeptAlive
  <2>7. \A x \in Ends : Open(Other(x))' <=> Open(Other(x))
    BY <2>4, OtherEnd
  <2> QED BY <2>2, <2>3, <2>4, <2>5, <2>6, <2>7 DEF KeptAlive
<1>7. CASE \E m \in Arrived(e) : received = {m}
  <2>1. PICK m \in Arrived(e) : received = {m}
    BY <1>7
  <2>2. Heard(e, m, r) /\ m \in wire /\ m.to = e
    BY <2>1, <1>2 DEF Arrived
  <2>3. /\ \A x \in Ends : end'[x].address = 0 /\ end'[x].peer = 0 /\ end'[x].status # "Suspended"
        /\ r.peer = 0 /\ r.address = 0
    BY <2>2, <1>2, <1>4 DEF KeptAlive, Heard, PassResult
  <2>4. \A n \in wire' : n.at = 0 /\ n.from = 0
    BY <2>3, <1>2, <1>4 DEF KeptAlive, PassResult
  <2>5. CASE m.type = "Reset"
    <3>1. ~Open(Other(e)) /\ r.status = "Closed"
      BY <2>2, <2>5 DEF ResetIsLast, Heard
    <3>2. \A x \in Ends : ~Open(x)'
      BY <3>1, <1>4 DEF Open
    <3> QED BY <3>2, <2>3, <2>4 DEF KeptAlive
  <2>6. CASE m.type # "Reset"
    <3>1. r.status = "Connected" /\ r.silence = 0
      BY <2>2, <2>6 DEF Heard
    <3>2. \A x \in Ends : Open(x)' <=> Open(x)
      BY <3>1, <1>3, <1>4 DEF Open
    <3>3. ASSUME NEW x \in Ends, Open(x), Open(Other(x)) PROVE Hears(x)'
      <4>1. Hears(x) /\ r.status # "Closed"
        BY <3>1, <3>3 DEF KeptAlive
      <4> QED BY <4>1, <1>1, <1>2, <1>4, HearsAfterPass
    <3>4. ASSUME NEW x \in Ends, Open(x), ~Open(Other(x))
          PROVE  /\ \E n \in wire' : n.to = x /\ n.type = "Reset"
                 /\ \E n \in wire' : n.to = x /\ end'[x].silence <= SuspendTimeout + n.age
      <4>1. x = e
        BY <3>4, <1>3, <1>4
      <4>2. PICK n \in wire : n.to = e /\ n.type = "Reset"
        BY <3>4, <4>1 DEF KeptAlive
      <4>3. n \in wire'
        BY <4>2, <2>1, <2>6, <1>2 DEF PassResult
      <4>4. end'[e].silence <= SuspendTimeout + n.age
        BY <4>2, <3>1, <1>4, Times
      <4> QED BY <4>1, <4>2, <4>3, <4>4
    <3>5. \A x \in Ends : Open(Other(x))' <=> Open(Other(x))
      BY <3>2, OtherEnd
    <3> QED BY <2>3, <2>4, <3>2, <3>3, <3>4, <3>5 DEF KeptAlive
  <2> QED BY <2>5, <2>6
<1> QED BY <1>1, <1>6, <1>7

LEMMA KeptAliveClose ==
  ASSUME SuspensionTypeOK, KeptAlive, NEW e \in Ends, Close(e)
  PROVE  KeptAlive'
<1>1. PICK r \in Connections, sent \in SUBSET Datagrams :
          /\ end' = [end EXCEPT ![e] = r] /\ wire' = wire \cup sent
          /\ r.status = "Closed" /\ r.silence = end[e].silence /\ r.idle = end[e].idle
          /\ r.address = end[e].address /\ r.peer = end[e].peer
          /\ \A m \in sent : /\ m.to = Other(e) /\ m.at = r.peer /\ m.from = r.address
                             /\ m.age = 0 /\ m.type = "Reset"
          /\ end[e].status = "Connected" => sent # {}
          /\ Open(e)
  BY CloseOutcome
<1>2. /\ end'[e] = r /\ end'[Other(e)] = end[Other(e)] /\ Other(e) \in Ends
      /\ Other(Other(e)) = e /\ Other(e) # e /\ Ends = {e, Other(e)}
  BY <1>1, EndsAfter, OtherEnd
<1>3. /\ \A x \in Ends : end'[x].address = 0 /\ end'[x].peer = 0 /\ end'[x].status # "Suspended"
      /\ \A m \in wire' : m.at = 0 /\ m.from = 0
  BY <1>1, <1>2 DEF KeptAlive
<1>4. end[e].status = "Connected"
  BY <1>1, Times DEF KeptAlive, Open, Connections
<1>5. PICK m \in sent : m \in wire' /\ m.to = Other(e) /\ m.age = 0 /\ m.type = "Reset"
  BY <1>1, <1>4
<1>6. ASSUME Open(Other(e))
      PROVE  \E n \in wire' : n.to = Other(e) /\ end[Other(e)].silence <= SuspendTimeout + n.age
  <2>1. Hears(Other(e))
    BY <1>1, <1>2, <1>6 DEF KeptAlive
  <2>2. CASE end[Other(e)].silence <= end[e].idle
    <3>1. end[Other(e)].silence <= SuspendTimeout + m.age
      BY <2>2, <1>2, <1>5, Times
    <3> QED BY <3>1, <1>5
  <2>3. CASE \E n \in wire : n.to = Other(e) /\ end[Other(e)].silence <= SuspendTimeout + n.age
    BY <2>3, <1>1
  <2> QED BY <2>1, <2>2, <2>3, <1>2 DEF Hears
<1>7. ~Open(e)' /\ (Open(Other(e))' <=> Open(Other(e)))
  BY <1>1, <1>2 DEF Open
<1> QED BY <1>2, <1>3, <1>5, <1>6, <1>7 DEF KeptAlive

LEMMA KeptAliveTick ==
  ASSUME SuspensionTypeOK, KeptAlive, NEW expired \in BOOLEAN, Tick(expired)
  PROVE  KeptAlive'
<1>1. /\ \A x \in Ends : /\ end'[x].status = end[x].status /\ end'[x].address = end[x].address
                         /\ end'[x].peer = end[x].peer
                         /\ Open(x) => end'[x].silence = end[x].silence + 1
      /\ \A m \in wire : Open(m.to) /\ m.at = end[m.to].address => Older(m) \in wire'
      /\ \A n \in wire' : \E m \in wire : n = Older(m)
  BY TickOutcome
<1>2. \A x \in Ends : (Open(x)' <=> Open(x)) /\ (Open(Other(x))' <=> Open(Other(x)))
  BY <1>1, OtherEnd DEF Open
<1>3. /\ \A x \in Ends : end'[x].address = 0 /\ end'[x].peer = 0 /\ end'[x].status # "Suspended"
      /\ \A n \in wire' : n.at = 0 /\ n.from = 0
  BY <1>1, Times, OlderDatagram DEF KeptAlive
<1>4. ASSUME NEW x \in Ends, Open(x), Open(Other(x)) PROVE Hears(x)'
  BY <1>4, HearsAfterTick DEF KeptAlive
<1>5. ASSUME NEW x \in Ends, Open(x), ~Open(Other(x))
      PROVE  /\ \E n \in wire' : n.to = x /\ n.type = "Reset"
             /\ \E n \in wire' : n.to = x /\ end'[x].silence <= SuspendTimeout + n.age
  <2>1. PICK m \in wire : m.to = x /\ m.type = "Reset"
    BY <1>5 DEF KeptAlive
  <2>2. PICK k \in wire : k.to = x /\ end[x].silence <= SuspendTimeout + k.age
    BY <1>5 DEF KeptAlive
  <2>3. Older(m) \in wire' /\ Older(m).to = x /\ Older(m).type = "Reset"
    BY <2>1, <1>1, <1>5, Times, OlderDatagram DEF KeptAlive
  <2>4. Older(k) \in wire' /\ Older(k).to = x /\ Older(k).age = k.age + 1
    BY <2>2, <1>1, <1>5, Times, OlderDatagram DEF KeptAlive
  <2>5. end'[x].silence <= SuspendTimeout + Older(k).age
    BY <2>2, <2>4, <1>1, <1>5, Times
  <2> QED BY <2>3, <2>4, <2>5
<1> QED BY <1>2, <1>3, <1>4, <1>5 DEF KeptAlive

LEMMA KeptAliveStep ==
  ASSUME SuspensionTypeOK, Undisturbed => KeptAlive, ResetIsLast,
         [SuspensionNext]_suspensionVars, Undisturbed'
  PROVE  KeptAlive'
<1>1. ASSUME NEW e \in Ends, Receive(e) \/ Idle(e) PROVE KeptAlive'
  <2>1. faults' = faults
    BY <1>1 DEF Receive, Idle, Pass
  <2> QED BY <2>1, <1>1, KeptAlivePass DEF Undisturbed
<1>2. ASSUME NEW e \in Ends, Close(e) PROVE KeptAlive'
  <2>1. faults' = [faults EXCEPT !.closes = 1]
    BY <1>2 DEF Close
  <2>2. Undisturbed
    BY <2>1, SuspensionTypes DEF Undisturbed
  <2> QED BY <2>2, <1>2, KeptAliveClose
<1>3. ASSUME NEW e \in Ends, Move(e) PROVE KeptAlive'
  BY <1>3, SuspensionTypes DEF Move, Undisturbed
<1>4. CASE SendData
  <2>1. PICK r \in Connections :
            /\ end' = [end EXCEPT !["a"] = r]
            /\ r.status = end["a"].status /\ r.silence = end["a"].silence /\ r.idle = end["a"].idle
            /\ r.address = end["a"].address /\ r.peer = end["a"].peer
            /\ UNCHANGED <<wire, alone, faults>>
    BY <1>4, SendOutcome
  <2>2. \A x \in Ends : /\ end'[x].status = end[x].status /\ end'[x].silence = end[x].silence
                        /\ end'[x].idle = end[x].idle /\ end'[x].address = end[x].address
                        /\ end'[x].peer = end[x].peer
    BY <2>1, SuspensionTypes
  <2>3. KeptAlive /\ wire' = wire
    BY <2>1 DEF Undisturbed
  <2>4. \A x \in Ends : (Open(x)' <=> Open(x)) /\ (Open(Other(x))' <=> Open(Other(x)))
    BY <2>2, OtherEnd DEF Open
  <2>5. \A x \in Ends : Hears(x) => Hears(x)'
    BY <2>2, <2>3, OtherEnd DEF Hears
  <2> QED BY <2>2, <2>3, <2>4, <2>5 DEF KeptAlive
<1>5. ASSUME NEW m \in wire, LoseDatagram(m) PROVE KeptAlive'
  BY <1>5, SuspensionTypes DEF LoseDatagram, Undisturbed
<1>6. ASSUME NEW expired \in BOOLEAN, Tick(expired) PROVE KeptAlive'
  BY <1>6, TickOutcome, KeptAliveTick DEF Undisturbed
<1>7. CASE UNCHANGED suspensionVars
  <2>1. KeptAlive
    BY <1>7 DEF suspensionVars, Undisturbed
  <2> QED BY <2>1, <1>7 DEF suspensionVars, KeptAlive, Open, Hears
<1> QED BY <1>1, <1>2, <1>3, <1>4, <1>5, <1>6, <1>7 DEF SuspensionNext

-----------------------------------------------------------------------------
(* One end moves, once.                                                     *)

\* Before the time-out of a suspension something is heard.
LEMMA TrackedInTime ==
  ASSUME SuspensionTypeOK, NEW e \in Ends, OnlyMoves(e), Tracked(e)
  PROVE  \A x \in Ends : end[x].silence < MaxKeepAliveTimeout + MaxSuspendDuration
<1>1. /\ 3 * SuspendTimeout + 4 * Delay < MaxKeepAliveTimeout + MaxSuspendDuration
      /\ SuspendTimeout + Delay < MaxKeepAliveTimeout + MaxSuspendDuration
  BY SuspensionAssumption DEF OnlyMoves, SuspensionsAreLong, MaxKeepAliveTimeout
<1>2. end[Other(e)].silence < MaxKeepAliveTimeout + MaxSuspendDuration
  <2>1. end[Other(e)].silence <= SuspendTimeout + Delay
    BY HearsInTime, OtherEnd DEF Tracked, Followed
  <2> QED BY <2>1, <1>1, Times, OtherEnd, SuspensionAssumption DEF MaxKeepAliveTimeout
<1>3. end[e].silence <= 3 * SuspendTimeout + 4 * Delay
  <2>1. CASE end[e].address = 0
    <3>1. end[e].silence <= SuspendTimeout + Delay
      BY <2>1, HearsInTime DEF Tracked, Followed
    <3> QED BY <3>1, Times
  <2>2. CASE end[e].address = 1 /\ end[Other(e)].peer = 0
    BY <2>2, Times DEF Tracked, Found
  <2>3. CASE end[e].address = 1 /\ end[Other(e)].peer = 1
    BY <2>3, Times, OtherEnd DEF Tracked, Found, Search
  <2>4. end[e].address \in {0, 1} /\ end[Other(e)].peer \in {0, 1}
    BY Times, OtherEnd DEF OnlyMoves, Tracked, Followed
  <2> QED BY <2>1, <2>2, <2>3, <2>4 DEF Tracked, Followed
<1>4. end[e].silence < MaxKeepAliveTimeout + MaxSuspendDuration
  BY <1>1, <1>3, Times, SuspensionAssumption DEF MaxKeepAliveTimeout
<1> QED BY <1>2, <1>4, OtherEnd

\* What a pass of e, or of the other end, changes of it.
LEMMA TrackedPass ==
  ASSUME SuspensionTypeOK, NEW e \in Ends, OnlyMoves(e), Tracked(e), NEW x \in Ends,
         Receive(x) \/ Idle(x)
  PROVE  Tracked(e)'
<1>1. PICK received : /\ Pass(x, received)
                      /\ received = {} \/ \E m \in Arrived(x) : received = {m}
  BY ReceivedByPass
<1>2. PICK r, sent : /\ PassResult(x, received, r, sent)
                     /\ received = {} => Unheard(x, r)
                     /\ \A m : received = {m} => Heard(x, m, r)
  BY <1>1, PassOutcome
<1>3. /\ end'[x] = r /\ end'[Other(x)] = end[Other(x)] /\ Other(x) \in Ends
      /\ Other(Other(x)) = x /\ Other(x) # x /\ Ends = {x, Other(x)}
      /\ e = x \/ e = Other(x)
  BY <1>2, EndsAfter, OtherEnd DEF PassResult
<1>4. r \in Connections /\ r.address = end[x].address /\ r.idle \in Nat /\ r.silence \in Nat
      /\ r.peer \in Nat
  BY <1>2, SuspensionAssumption DEF PassResult, Connections, MaxKeepAliveTimeout
<1>5. \A m \in Arrived(x) : m \in wire /\ m.to = x /\ m.type # "Reset" /\ m \in Datagrams
  BY Times DEF Arrived, Tracked, Followed
<1>6. r.status # "Closed" /\ ~r.timedOut
  <2>1. end[x].status # "Closed" /\ ~end[x].timedOut
        /\ end[x].silence < MaxKeepAliveTimeout + MaxSuspendDuration
    BY TrackedInTime DEF Tracked, Followed, Open
  <2>2. CASE received = {}
    BY <2>1, <2>2, <1>2, Times, SuspensionAssumption DEF Unheard, MaxKeepAliveTimeout
  <2>3. CASE \E m \in Arrived(x) : received = {m}
    BY <2>1, <2>3, <1>2, <1>5 DEF Heard
  <2> QED BY <1>1, <2>2, <2>3
<1>7. /\ r.silence <= end[x].silence
      /\ received # {} => r.silence = 0
      /\ received = {} => r.peer = end[x].peer
      /\ \A m \in received : r.peer = m.from /\ m \in wire /\ m.to = x
  BY <1>1, <1>2, <1>5, Times DEF Unheard, Heard
<1>8. /\ \A m \in wire : m.to # x => m \in wire'
      /\ received = {} => \A m \in wire : m \in wire'
      /\ \A m \in wire' : m \in wire \/ m \in sent
      /\ \A m \in sent : m \in wire' /\ m.to = Other(x) /\ m.at = r.peer
                         /\ m.from = end[x].address /\ m.age = 0 /\ m.type # "Reset"
      /\ r.idle = end[x].idle \/ (r.idle = 0 /\ sent # {})
  BY <1>2, <1>7 DEF PassResult
<1>9. /\ \A y \in Ends : Open(y)' /\ ~end'[y].timedOut
      /\ end'[e].address = end[e].address
  BY <1>3, <1>4, <1>6 DEF Open, Tracked, Followed
<1>10. Hears(Other(e))' /\ (end[e].address = 0 => Hears(e)')
  <2>1. Hears(Other(e)) /\ (end[e].address = 0 => Hears(e))
    BY DEF Tracked, Followed
  <2> QED BY <2>1, <1>1, <1>2, <1>3, <1>6, HearsAfterPass
<1>11. CASE e = x
  <2>1. /\ end'[e].peer = 0 /\ end'[Other(e)].peer = end[Other(e)].peer
        /\ end'[Other(e)].peer <= end'[e].address
        /\ \A m \in wire' : /\ m.type # "Reset"
                            /\ m.to = e => m.from = 0 /\ m.at <= end'[e].address
                            /\ m.to = Other(e) => m.at = 0 /\ m.from <= end'[e].address
    <3>1. r.peer = 0
      BY <1>1, <1>7, <1>11 DEF Tracked, Followed
    <3> QED BY <3>1, <1>3, <1>8, <1>9, <1>11, Times DEF Tracked, Followed
  <2>2. Followed(e)'
    BY <2>1, <1>9, <1>10 DEF Followed
  <2>3. ASSUME end[e].address = 1 PROVE Found(e)'
    <3>1. Found(e)
      BY <2>3 DEF Tracked
    <3>2. ASSUME NEW m \in wire', m.to = Other(e), m.from = 0
          PROVE  end'[e].silence <= SuspendTimeout + Delay + m.age
      <4>1. m \in wire
        BY <3>2, <2>3, <1>8, <1>11
      <4>2. end[e].silence <= SuspendTimeout + Delay + m.age
        BY <4>1, <3>1, <3>2 DEF Found
      <4> QED BY <4>1, <4>2, <1>3, <1>4, <1>7, <1>11, Times
    <3>3. ASSUME end[Other(e)].peer = 0
          PROVE  \/ end'[e].silence <= SuspendTimeout + 2 * Delay + end'[e].idle
                 \/ \E m \in wire' : /\ m.to = Other(e) /\ m.from = 1
                                     /\ end'[e].silence <= 2 * SuspendTimeout + 2 * Delay + m.age
      <4>1. CASE end[e].silence <= SuspendTimeout + 2 * Delay + end[e].idle
        <5>1. CASE r.idle = end[e].idle
          BY <5>1, <4>1, <1>3, <1>4, <1>7, <1>11, Times
        <5>2. CASE r.idle = 0 /\ sent # {}
          <6>1. PICK m \in sent : m \in wire' /\ m.to = Other(e) /\ m.from = 1 /\ m.age = 0
            BY <5>2, <2>3, <1>8, <1>11
          <6>2. end'[e].silence <= 2 * SuspendTimeout + 2 * Delay + m.age
            BY <6>1, <4>1, <1>3, <1>4, <1>7, <1>11, Times
          <6> QED BY <6>1, <6>2
        <5> QED BY <5>1, <5>2, <1>8, <1>11
      <4>2. CASE \E m \in wire : /\ m.to = Other(e) /\ m.from = 1
                                 /\ end[e].silence <= 2 * SuspendTimeout + 2 * Delay + m.age
        <5>1. PICK m \in wire : /\ m.to = Other(e) /\ m.from = 1
                                /\ end[e].silence <= 2 * SuspendTimeout + 2 * Delay + m.age
          BY <4>2
        <5>2. m \in wire'
          BY <5>1, <1>3, <1>8, <1>11
        <5>3. end'[e].silence <= 2 * SuspendTimeout + 2 * Delay + m.age
          BY <5>1, <1>3, <1>4, <1>7, <1>11, Times
        <5> QED BY <5>1, <5>2, <5>3
      <4> QED BY <3>1, <3>3, <4>1, <4>2 DEF Found
    <3>4. ASSUME end[Other(e)].peer = 1
          PROVE  \/ end'[e].silence <= Search + end'[Other(e)].idle
                 \/ \E m \in wire' : /\ m.to = e /\ m.at = 1
                                     /\ end'[e].silence <= Search + SuspendTimeout + m.age
      <4>1. CASE received # {}
        BY <4>1, <1>3, <1>7, <1>11, Times DEF Search
      <4>2. CASE received = {}
        <5>1. \A m \in wire : m \in wire'
          BY <4>2, <1>8
        <5>2. end'[e].silence = end[e].silence \/ end'[e].silence <= end[e].silence
          BY <1>3, <1>7, <1>11
        <5>3. CASE end[e].silence <= Search + end[Other(e)].idle
          BY <5>3, <1>3, <1>4, <1>7, <1>11, Times DEF Search
        <5>4. CASE \E m \in wire : /\ m.to = e /\ m.at = 1
                                   /\ end[e].silence <= Search + SuspendTimeout + m.age
          <6>1. PICK m \in wire : /\ m.to = e /\ m.at = 1
                                  /\ end[e].silence <= Search + SuspendTimeout + m.age
            BY <5>4
          <6>2. end'[e].silence <= Search + SuspendTimeout + m.age
            BY <6>1, <1>3, <1>4, <1>7, <1>11, Times DEF Search
          <6> QED BY <6>1, <6>2, <5>1
        <5> QED BY <3>1, <3>4, <5>3, <5>4 DEF Found
      <4> QED BY <4>1, <4>2
    <3> QED BY <2>1, <3>2, <3>3, <3>4 DEF Found
  <2> QED BY <2>2, <2>3, <1>9 DEF Tracked
<1>12. CASE e = Other(x)
  <2>1. x = Other(e) /\ end'[e] = end[e] /\ end[x].address = 0
    BY <1>3, <1>12 DEF OnlyMoves
  <2>2. r.peer <= end[e].address
    BY <1>1, <1>7, <2>1 DEF Tracked, Followed
  <2>3. Followed(e)'
    <3>1. \A m \in wire' : /\ m.type # "Reset"
                           /\ m.to = e => m.from = 0 /\ m.at <= end'[e].address
                           /\ m.to = Other(e) => m.at = 0 /\ m.from <= end'[e].address
      BY <2>1, <2>2, <1>3, <1>8 DEF Tracked, Followed
    <3>2. end'[e].peer = 0 /\ end'[Other(e)].peer <= end'[e].address
      BY <2>1, <2>2, <1>3 DEF Tracked, Followed
    <3> QED BY <3>1, <3>2, <1>9, <1>10 DEF Followed
  <2>4. ASSUME end[e].address = 1 PROVE Found(e)'
    <3>1. Found(e)
      BY <2>4 DEF Tracked
    <3>2. \A m \in wire' : m.to = Other(e) /\ m.from = 0 =>
             end'[e].silence <= SuspendTimeout + Delay + m.age
      BY <3>1, <2>1, <1>3, <1>8 DEF Found
    <3>3. ASSUME r.peer = 0
          PROVE  \/ end'[e].silence <= SuspendTimeout + 2 * Delay + end'[e].idle
                 \/ \E m \in wire' : /\ m.to = Other(e) /\ m.from = 1
                                     /\ end'[e].silence <= 2 * SuspendTimeout + 2 * Delay + m.age
      <4>1. CASE received = {}
        <5>1. end[Other(e)].peer = 0 /\ \A m \in wire : m \in wire'
          BY <4>1, <3>3, <2>1, <1>7, <1>8
        <5> QED BY <5>1, <3>1, <2>1 DEF Found
      <4>2. CASE \E m \in Arrived(x) : received = {m}
        <5>1. PICK m \in received : m.from = 0 /\ m \in wire /\ m.to = x
          BY <4>2, <3>3, <1>7
        <5>2. end[e].silence <= SuspendTimeout + Delay + m.age
          BY <5>1, <3>1, <2>1 DEF Found
        <5> QED BY <5>1, <5>2, <2>1, Times
      <4> QED BY <1>1, <4>1, <4>2
    <3>4. ASSUME r.peer = 1
          PROVE  \/ end'[e].silence <= Search + r.idle
                 \/ \E m \in wire' : /\ m.to = e /\ m.at = 1
                                     /\ end'[e].silence <= Search + SuspendTimeout + m.age
      <4>1. CASE end[x].peer = 0
        <5>1. end[e].silence <= Search
          <6>1. CASE end[e].silence <= SuspendTimeout + 2 * Delay + end[e].idle
            BY <6>1, Times DEF Search
          <6>2. CASE \E m \in wire : end[e].silence <= 2 * SuspendTimeout + 2 * Delay + m.age
            BY <6>2, Times DEF Search
          <6> QED BY <6>1, <6>2, <4>1, <3>1, <2>1 DEF Found
        <5> QED BY <5>1, <2>1, <1>4, Times DEF Search
      <4>2. CASE end[x].peer = 1
        <5>1. CASE \E m \in wire : /\ m.to = e /\ m.at = 1
                                   /\ end[e].silence <= Search + SuspendTimeout + m.age
          BY <5>1, <2>1, <1>3, <1>8
        <5>2. CASE end[e].silence <= Search + end[x].idle
          <6>1. CASE r.idle = end[x].idle
            BY <6>1, <5>2, <2>1
          <6>2. CASE r.idle = 0 /\ sent # {}
            <7>1. PICK m \in sent : m \in wire' /\ m.to = e /\ m.at = 1 /\ m.age = 0
              BY <6>2, <3>4, <1>8, <1>12
            <7>2. end'[e].silence <= Search + SuspendTimeout + m.age
              BY <7>1, <5>2, <2>1, Times DEF Search
            <7> QED BY <7>1, <7>2
          <6> QED BY <6>1, <6>2, <1>8
        <5> QED BY <5>1, <5>2, <4>2, <3>1, <2>1 DEF Found
      <4>3. end[x].peer \in {0, 1}
        BY <2>1, <2>4, Times DEF Tracked, Followed
      <4> QED BY <4>1, <4>2, <4>3
    <3> QED BY <3>2, <3>3, <3>4, <2>1, <1>3 DEF Found
  <2> QED BY <2>3, <2>4, <1>9 DEF Tracked
<1> QED BY <1>3, <1>11, <1>12

LEMMA TrackedMove ==
  ASSUME SuspensionTypeOK, NEW e \in Ends, OnlyMoves(e), Tracked(e), NEW x \in Ends, Move(x),
         OnlyMoves(e)'
  PROVE  Tracked(e)'
<1>1. PICK r \in Connections, n \in Datagrams :
          /\ end' = [end EXCEPT ![x] = r] /\ wire' = wire \cup {n}
          /\ r.status = end[x].status /\ r.silence = end[x].silence /\ r.idle = 0
          /\ r.address = end[x].address + 1 /\ r.peer = end[x].peer /\ r.timedOut = end[x].timedOut
          /\ n.to = Other(x) /\ n.at = r.peer /\ n.from = r.address /\ n.age = 0 /\ n.type = "Null"
  BY MoveOutcome
<1>2. end'[x] = r /\ end'[Other(x)] = end[Other(x)]
  BY <1>1, EndsAfter
<1>3. x = e /\ end[e].address = 0 /\ r.address = 1
  <2>1. x # Other(e)
    BY <1>1, <1>2, Times, OtherEnd DEF OnlyMoves
  <2>2. x = e
    BY <2>1, OtherEnd
  <2> QED BY <2>2, <1>1, <1>2, Times DEF OnlyMoves
<1>4. /\ end'[e].peer = 0 /\ end'[Other(e)].peer = 0 /\ end'[e].address = 1
      /\ \A y \in Ends : Open(y)' /\ ~end'[y].timedOut
  BY <1>1, <1>2, <1>3, Times, OtherEnd DEF Tracked, Followed, Open
<1>5. \A m \in wire' : /\ m.type # "Reset"
                       /\ m.to = e => m.from = 0 /\ m.at <= end'[e].address
                       /\ m.to = Other(e) => m.at = 0 /\ m.from <= end'[e].address
  <2>1. \A m \in wire : m.at \in Nat /\ m.from \in Nat
    BY Times, SuspensionAssumption DEF Datagrams
  <2> QED BY <2>1, <1>1, <1>2, <1>3, <1>4, OtherEnd DEF Tracked, Followed
<1>6. Hears(Other(e))'
  <2>1. Hears(Other(e)) /\ Other(Other(e)) = e
    BY OtherEnd DEF Tracked, Followed
  <2>2. CASE end[Other(e)].silence <= end[e].idle
    <3>1. end[Other(e)].silence <= SuspendTimeout + n.age
      BY <2>2, <1>1, Times, OtherEnd
    <3> QED BY <3>1, <1>1, <1>2, <1>3 DEF Hears
  <2>3. CASE \E m \in wire : m.to = Other(e) /\ end[Other(e)].silence <= SuspendTimeout + m.age
    BY <2>3, <1>1, <1>2, <1>3 DEF Hears
  <2> QED BY <2>1, <2>2, <2>3 DEF Hears
<1>7. Followed(e)'
  BY <1>4, <1>5, <1>6 DEF Followed
<1>8. end'[e].silence <= SuspendTimeout + Delay /\ end'[e].silence \in Nat /\ end'[e].idle = 0
  <2>1. end[e].silence <= SuspendTimeout + Delay
    BY <1>3, HearsInTime DEF Tracked, Followed
  <2> QED BY <2>1, <1>1, <1>2, <1>3, Times
<1>9. \A m \in wire' : m.age \in Nat
  BY <1>1, Times
<1>10. Found(e)'
  BY <1>4, <1>8, <1>9, Times DEF Found
<1> QED BY <1>7, <1>10 DEF Tracked

LEMMA TrackedTick ==
  ASSUME SuspensionTypeOK, NEW e \in Ends, OnlyMoves(e), Tracked(e),
         NEW expired \in BOOLEAN, Tick(expired)
  PROVE  Tracked(e)'
<1>1. /\ \A x \in Ends : /\ end'[x].status = end[x].status /\ end'[x].address = end[x].address
                         /\ end'[x].peer = end[x].peer /\ end'[x].timedOut = end[x].timedOut
                         /\ Open(x) => /\ end'[x].silence = end[x].silence + 1
                                       /\ end'[x].idle = end[x].idle + 1
      /\ \A m \in wire : Open(m.to) /\ m.at = end[m.to].address => Older(m) \in wire'
      /\ \A n \in wire' : \E m \in wire : n = Older(m)
  BY TickOutcome
<1>2. \A x \in Ends : Open(x) /\ Open(x)' /\ ~end'[x].timedOut
  BY <1>1 DEF Tracked, Followed, Open
<1>3. /\ Other(e) \in Ends /\ Other(e) # e /\ Other(Other(e)) = e
      /\ end'[e].address = end[e].address /\ end[Other(e)].address = 0
      /\ end'[e].silence = end[e].silence + 1 /\ end'[e].idle = end[e].idle + 1
      /\ end'[Other(e)].idle = end[Other(e)].idle + 1
      /\ end'[e].peer = end[e].peer /\ end'[Other(e)].peer = end[Other(e)].peer
  BY <1>1, <1>2, OtherEnd DEF OnlyMoves
<1>4. \A n \in wire' : \E m \in wire : /\ n.to = m.to /\ n.at = m.at /\ n.from = m.from
                                       /\ n.type = m.type /\ n.age = m.age + 1
  BY <1>1, Times, OlderDatagram
<1>5. \A m \in wire : m.to = Other(e) \/ (m.to = e /\ m.at = end[e].address) =>
         /\ Older(m) \in wire' /\ Older(m).to = m.to /\ Older(m).at = m.at
         /\ Older(m).from = m.from /\ Older(m).age = m.age + 1
  BY <1>1, <1>2, <1>3, Times, OlderDatagram DEF Tracked, Followed
<1>6. Hears(Other(e))'
  BY <1>2, <1>3, HearsAfterTick DEF Tracked, Followed
<1>7. ASSUME end[e].address = 0 PROVE Hears(e)'
  <2>1. \A m \in wire : m.to = e => m.at = end[e].address
    BY <1>7, Times, SuspensionAssumption DEF Tracked, Followed, Datagrams
  <2> QED BY <2>1, <1>2, <1>3, <1>7, HearsAfterTick DEF Tracked, Followed
<1>8. Followed(e)'
  <2>1. \A n \in wire' : /\ n.type # "Reset"
                         /\ n.to = e => n.from = 0 /\ n.at <= end'[e].address
                         /\ n.to = Other(e) => n.at = 0 /\ n.from <= end'[e].address
    BY <1>3, <1>4 DEF Tracked, Followed
  <2> QED BY <2>1, <1>2, <1>3, <1>6, <1>7 DEF Tracked, Followed
<1>9. ASSUME end[e].address = 1 PROVE Found(e)'
  <2>1. Found(e)
    BY <1>9 DEF Tracked
  <2>2. ASSUME NEW n \in wire', n.to = Other(e), n.from = 0
        PROVE  end'[e].silence <= SuspendTimeout + Delay + n.age
    <3>1. PICK m \in wire : m.to = Other(e) /\ m.from = 0 /\ n.age = m.age + 1
      BY <2>2, <1>4
    <3>2. end[e].silence <= SuspendTimeout + Delay + m.age
      BY <3>1, <2>1 DEF Found
    <3> QED BY <3>1, <3>2, <1>3, Times
  <2>3. ASSUME end[Other(e)].peer = 0
        PROVE  \/ end'[e].silence <= SuspendTimeout + 2 * Delay + end'[e].idle
               \/ \E m \in wire' : /\ m.to = Other(e) /\ m.from = 1
                                   /\ end'[e].silence <= 2 * SuspendTimeout + 2 * Delay + m.age
    <3>1. CASE end[e].silence <= SuspendTimeout + 2 * Delay + end[e].idle
      BY <3>1, <1>3, Times
    <3>2. CASE \E m \in wire : /\ m.to = Other(e) /\ m.from = 1
                               /\ end[e].silence <= 2 * SuspendTimeout + 2 * Delay + m.age
      <4>1. PICK m \in wire : /\ m.to = Other(e) /\ m.from = 1
                              /\ end[e].silence <= 2 * SuspendTimeout + 2 * Delay + m.age
        BY <3>2
      <4>2. end'[e].silence <= 2 * SuspendTimeout + 2 * Delay + Older(m).age
        BY <4>1, <1>3, <1>5, Times
      <4> QED BY <4>1, <4>2, <1>5
    <3> QED BY <3>1, <3>2, <2>1, <2>3 DEF Found
  <2>4. ASSUME end[Other(e)].peer = 1
        PROVE  \/ end'[e].silence <= Search + end'[Other(e)].idle
               \/ \E m \in wire' : /\ m.to = e /\ m.at = 1
                                   /\ end'[e].silence <= Search + SuspendTimeout + m.age
    <3>1. CASE end[e].silence <= Search + end[Other(e)].idle
      BY <3>1, <1>3, Times DEF Search
    <3>2. CASE \E m \in wire : /\ m.to = e /\ m.at = 1
                               /\ end[e].silence <= Search + SuspendTimeout + m.age
      <4>1. PICK m \in wire : /\ m.to = e /\ m.at = 1
                              /\ end[e].silence <= Search + SuspendTimeout + m.age
        BY <3>2
      <4>2. end'[e].silence <= Search + SuspendTimeout + Older(m).age
        BY <4>1, <1>3, <1>5, <1>9, Times DEF Search
      <4> QED BY <4>1, <4>2, <1>5, <1>9
    <3> QED BY <3>1, <3>2, <2>1, <2>4 DEF Found
  <2> QED BY <2>2, <2>3, <2>4, <1>3 DEF Found
<1> QED BY <1>3, <1>8, <1>9 DEF Tracked

LEMMA TrackedStep ==
  ASSUME SuspensionTypeOK, NEW e \in Ends, OnlyMoves(e) => Tracked(e),
         [SuspensionNext]_suspensionVars, OnlyMoves(e)'
  PROVE  Tracked(e)'
<1>1. ASSUME NEW x \in Ends, Receive(x) \/ Idle(x) PROVE Tracked(e)'
  <2>1. PICK received : /\ Pass(x, received)
                        /\ received = {} \/ \E m \in Arrived(x) : received = {m}
    BY <1>1, ReceivedByPass
  <2>2. PICK r, sent : PassResult(x, received, r, sent)
    BY <2>1, PassOutcome
  <2>3. \A y \in Ends : end'[y].address = end[y].address
    BY <2>2, EndsAfter, OtherEnd DEF PassResult
  <2>4. OnlyMoves(e)
    BY <2>2, <2>3, OtherEnd DEF OnlyMoves, PassResult, SuspensionsAreLong
  <2> QED BY <2>4, <1>1, TrackedPass
<1>2. ASSUME NEW x \in Ends, Close(x) PROVE Tracked(e)'
  BY <1>2, SuspensionTypes DEF Close, OnlyMoves
<1>3. ASSUME NEW x \in Ends, Move(x) PROVE Tracked(e)'
  <2>1. PICK r \in Connections :
            /\ end' = [end EXCEPT ![x] = r] /\ r.address = end[x].address + 1
            /\ faults' = [faults EXCEPT !.moves = @ \cup {x}]
    BY <1>3, MoveOutcome
  <2>2. \A y \in Ends : end[y].address <= end'[y].address
    BY <2>1, EndsAfter, OtherEnd, Times
  <2>3. faults'.losses = faults.losses /\ faults'.closes = faults.closes
    BY <2>1, SuspensionTypes
  <2>4. OnlyMoves(e)
    <3>1. end'[e].address \in Nat /\ end'[Other(e)].address \in Nat
      BY <2>1, EndsAfter, OtherEnd, Times
    <3> QED BY <3>1, <2>2, <2>3, OtherEnd, Times DEF OnlyMoves, SuspensionsAreLong
  <2> QED BY <2>4, <1>3, TrackedMove
<1>4. CASE SendData
  <2>1. PICK r \in Connections :
            /\ end' = [end EXCEPT !["a"] = r]
            /\ r.status = end["a"].status /\ r.silence = end["a"].silence /\ r.idle = end["a"].idle
            /\ r.address = end["a"].address /\ r.peer = end["a"].peer
            /\ r.timedOut = end["a"].timedOut
            /\ UNCHANGED <<wire, alone, faults>>
    BY <1>4, SendOutcome
  <2>2. \A x \in Ends : /\ end'[x].status = end[x].status /\ end'[x].silence = end[x].silence
                        /\ end'[x].idle = end[x].idle /\ end'[x].address = end[x].address
                        /\ end'[x].peer = end[x].peer /\ end'[x].timedOut = end[x].timedOut
    BY <2>1, SuspensionTypes
  <2>3. wire' = wire /\ faults' = faults
    BY <2>1
  <2>4. OnlyMoves(e)
    BY <2>2, <2>3, OtherEnd DEF OnlyMoves, SuspensionsAreLong
  <2>5. /\ \A x \in Ends : Open(x)' <=> Open(x)
        /\ \A x \in Ends : Hears(x)' <=> Hears(x)
    BY <2>2, <2>3, OtherEnd DEF Open, Hears
  <2>6. Followed(e)'
    BY <2>2, <2>3, <2>4, <2>5, OtherEnd DEF Tracked, Followed
  <2>7. end[e].address = 1 => Found(e)'
    BY <2>2, <2>3, <2>4, OtherEnd DEF Tracked, Found
  <2> QED BY <2>2, <2>6, <2>7 DEF Tracked
<1>5. ASSUME NEW m \in wire, LoseDatagram(m) PROVE Tracked(e)'
  BY <1>5, SuspensionTypes DEF LoseDatagram, OnlyMoves
<1>6. ASSUME NEW expired \in BOOLEAN, Tick(expired) PROVE Tracked(e)'
  <2>1. OnlyMoves(e)
    BY <1>6, TickOutcome, OtherEnd DEF OnlyMoves, SuspensionsAreLong
  <2> QED BY <2>1, <1>6, TrackedTick
<1>7. CASE UNCHANGED suspensionVars
  <2>1. end' = end /\ wire' = wire /\ faults' = faults
    BY <1>7 DEF suspensionVars
  <2>2. OnlyMoves(e)
    BY <2>1 DEF OnlyMoves, SuspensionsAreLong
  <2> QED BY <2>1, <2>2 DEF Tracked, Followed, Found, Open, Hears
<1> QED BY <1>1, <1>2, <1>3, <1>4, <1>5, <1>6, <1>7 DEF SuspensionNext

-----------------------------------------------------------------------------
(* The invariant, and what follows.                                         *)

LEMMA SuspensionInvInit == SuspensionInit => SuspensionInv
<1> SUFFICES ASSUME SuspensionInit PROVE SuspensionInv
  OBVIOUS
<1>1. PICK keepalive \in [Ends -> 1..SuspendTimeout] :
          end = [e \in Ends |->
                   [status |-> "Connected", silence |-> 0, idle |-> 0, keepalive |-> keepalive[e],
                    address |-> 0, peer |-> 0, data |-> "none", timedOut |-> FALSE]]
  BY DEF SuspensionInit
<1>2. \A e \in Ends : /\ end[e].status = "Connected" /\ end[e].silence = 0 /\ end[e].idle = 0
                      /\ end[e].address = 0 /\ end[e].peer = 0 /\ ~end[e].timedOut
  BY <1>1
<1>3. wire = {} /\ alone = 0
  BY DEF SuspensionInit
<1>4. \A e \in Ends : Open(e) /\ Hears(e)
  BY <1>2, OtherEnd DEF Open, Hears
<1>5. FateInv
  BY <1>2, <1>3, <1>4, OtherEnd, SuspensionAssumption DEF FateInv, FateIsShared, MaxKeepAliveTimeout
<1>6. KeptAlive /\ ResetIsLast
  BY <1>2, <1>3, <1>4, OtherEnd DEF KeptAlive, ResetIsLast
<1>7. \A e \in Ends : Tracked(e)
  BY <1>2, <1>3, <1>4, OtherEnd DEF Tracked, Followed
<1> QED BY <1>2, <1>5, <1>6, <1>7, SuspensionTypeInit DEF SuspensionInv

LEMMA SuspensionInvStep == SuspensionInv /\ [SuspensionNext]_suspensionVars => SuspensionInv'
<1> SUFFICES ASSUME SuspensionInv, [SuspensionNext]_suspensionVars PROVE SuspensionInv'
  OBVIOUS
<1>1. SuspensionTypeOK' /\ ResetIsLast' /\ FateInv'
  BY SuspensionTypeStep, ResetIsLastStep, FateStep DEF SuspensionInv
<1>2. (\A e \in Ends : e \notin faults.moves => end[e].address = 0)'
  BY MovesStep DEF SuspensionInv
<1>3. (Undisturbed => KeptAlive)'
  BY KeptAliveStep DEF SuspensionInv
<1>4. \A e \in Ends : (OnlyMoves(e) => Tracked(e))'
  BY TrackedStep DEF SuspensionInv
<1> QED BY <1>1, <1>2, <1>3, <1>4 DEF SuspensionInv

LEMMA SuspensionInvMeans == SuspensionInv => SuspensionIsSound
<1> SUFFICES ASSUME SuspensionInv PROVE SuspensionIsSound
  OBVIOUS
<1>1. NoNeedlessSuspension
  BY DEF SuspensionInv, NoNeedlessSuspension, Undisturbed, KeptAlive
<1>2. OneMoveIsSurvived
  <2> SUFFICES ASSUME SuspensionsAreLong, faults.losses = 0, faults.closes = 0,
                      end["a"].address + end["b"].address <= 1
               PROVE  \A e \in Ends : ~end[e].timedOut
    BY DEF OneMoveIsSurvived
  <2>1. end["a"].address \in Nat /\ end["b"].address \in Nat
    BY Times DEF SuspensionInv, Ends
  <2>2. PICK e \in Ends : end[Other(e)].address = 0 /\ end[e].address <= 1
    <3>1. CASE end["b"].address = 0
      BY <3>1, <2>1 DEF Ends, Other
    <3>2. CASE end["b"].address # 0
      BY <3>2, <2>1 DEF Ends, Other
    <3> QED BY <3>1, <3>2
  <2>3. Tracked(e)
    BY <2>2 DEF OnlyMoves, SuspensionInv
  <2> QED BY <2>3 DEF Tracked, Followed
<1> QED BY <1>1, <1>2 DEF SuspensionIsSound, SuspensionInv, FateInv

\* The record of every UDP connection and every datagram on the wire has its type: no
\* silence is longer than a suspension may be (UDPConnection.cpp:276-382).
THEOREM SuspensionTypeCorrect == SuspensionSpec => []SuspensionTypeOK
<1>1. SuspensionInit => SuspensionTypeOK
  BY SuspensionTypeInit
<1>2. SuspensionTypeOK /\ [SuspensionNext]_suspensionVars => SuspensionTypeOK'
  BY SuspensionTypeStep
<1> QED BY <1>1, <1>2, PTL DEF SuspensionSpec

\* The invariant that the rest follows from: as long as nothing is lost, each end hears of
\* the other within a keepalive and the delay of the network, also once an end has moved.
THEOREM SuspensionInvariant == SuspensionSpec => []SuspensionInv
<1> QED BY SuspensionInvInit, SuspensionInvStep, PTL DEF SuspensionSpec

\* Keepalives keep a connection from being suspended, one move of one end is survived when
\* suspensions are long enough, and an end outlives the other only by a suspension.
THEOREM SuspensionSound == SuspensionSpec => []SuspensionIsSound
<1> QED BY SuspensionInvariant, SuspensionInvMeans, PTL
=============================================================================
