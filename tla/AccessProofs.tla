---------------------------- MODULE AccessProofs ----------------------------
(* For how long a cookie is honoured, for every interval and every length     *)
(* of a run; the limits of a score, how it recovers, and what a flood of      *)
(* attempts gets through, for every interval and every maximum of attempts;   *)
(* that the lock excludes, for every number of threads, locks, requests; that *)
(* the listeners are where their manager looked, whatever fails; that only    *)
(* addresses of this node are believed to be, whatever peers report; and that *)
(* the books of the peer manager, and the counts of the limits on subnets,    *)
(* are those of the peers that are there, whoever comes, fails or leaves.     *)
EXTENDS UDPCookies, AddressReputation, RecursiveSharedMutex, Listeners, PublicEndpoints,
        PeerDirectory, FiniteSetTheorems, SequenceTheorems, WellFoundedInduction, TLAPS

\* The secondary key is older than the primary one by more than half of the
\* interval, and by no more than the interval: otherwise it was not kept.
KeysInOrder ==
    /\ primary <= now
    /\ secondary # None => /\ primary - secondary > Half
                           /\ primary - secondary <= Interval

\* A cookie is made with the primary key of its time, and while that key is not
\* there any more, more than half of the interval has passed since.
CookieHasItsKey(cookie) ==
    /\ cookie.key <= cookie.made
    /\ cookie.made - cookie.key <= Half
    /\ cookie.made <= now
    /\ cookie.key \in {primary, secondary} \/ now - cookie.made > Half
    /\ cookie.key <= primary

CookiesHaveTheirKeys == \A cookie \in cookies : CookieHasItsKey(cookie)

CookieInv ==
    /\ TypeOK
    /\ KeysInOrder
    /\ CookiesHaveTheirKeys
    /\ TimelyCookieIsAccepted
    /\ OldCookieIsRefused

\* Half of the interval, as the code's integers have it.
LEMMA HalfIsHalf == Half \in Nat /\ 2 * Half <= Interval
  BY IntervalAssumption DEF Half

LEMMA AgeOfPrimary ==
    ASSUME NEW n \in Nat, NEW p \in Nat, n - p <= Half
    PROVE  n - p <= Interval + Half
  BY HalfIsHalf, IntervalAssumption

LEMMA AgeOfSecondary ==
    ASSUME NEW n \in Nat, NEW p \in Nat, NEW s \in Nat,
           p - s <= Interval, n - p <= Half
    PROVE  n - s <= Interval + Half
  BY HalfIsHalf, IntervalAssumption

\* The keys stay in order when a rotation is due.
LEMMA KeysStayInOrder ==
    ASSUME TypeOK, KeysInOrder, CheckKeyExpiration, now' = now
    PROVE  /\ primary' \in Nat /\ secondary' \in Nat \cup {None}
           /\ KeysInOrder'
           /\ now - primary' <= Half
  BY HalfIsHalf, IntervalAssumption
  DEF TypeOK, KeysInOrder, CheckKeyExpiration, RotateKeys, keyVars, None

\* A cookie keeps its key through a rotation until half of the interval is over.
LEMMA CookieKeepsItsKey ==
    ASSUME TypeOK, KeysInOrder, CheckKeyExpiration, now' = now,
           NEW cookie \in Cookie, CookieHasItsKey(cookie)
    PROVE  CookieHasItsKey(cookie)'
  BY HalfIsHalf, IntervalAssumption
  DEF TypeOK, KeysInOrder, CheckKeyExpiration, RotateKeys, keyVars, None,
      CookieHasItsKey, Cookie

LEMMA CookieInit == Init => CookieInv
  BY HalfIsHalf, IntervalAssumption
  DEF Init, CookieInv, TypeOK, KeysInOrder, CookiesHaveTheirKeys, Verdict, Cookie,
      TimelyCookieIsAccepted, OldCookieIsRefused, None

LEMMA CookieStep == CookieInv /\ [Next]_vars => CookieInv'
<1> SUFFICES ASSUME CookieInv, [Next]_vars PROVE CookieInv'
  OBVIOUS
<1>0. /\ TypeOK /\ KeysInOrder /\ CookiesHaveTheirKeys
      /\ \A cookie \in cookies : cookie \in Cookie
  BY DEF CookieInv, TypeOK
<1>1. CASE Tick
  <2>1. TypeOK' /\ KeysInOrder'
    BY <1>0, <1>1 DEF Tick, TypeOK, KeysInOrder, keyVars
  <2>2. CookiesHaveTheirKeys'
    BY <1>0, <1>1, HalfIsHalf
    DEF Tick, TypeOK, CookiesHaveTheirKeys, CookieHasItsKey, keyVars, Cookie
  <2> QED
    BY <1>1, <2>1, <2>2
    DEF CookieInv, Tick, TimelyCookieIsAccepted, OldCookieIsRefused
<1>2. CASE GetCookie
  <2>0. PICK new : new = [key |-> primary', made |-> now]
    OBVIOUS
  <2>1. now' = now /\ CheckKeyExpiration /\ verdict' = verdict
        /\ cookies' = cookies \cup {new}
    BY <1>2, <2>0 DEF GetCookie
  <2>2. /\ primary' \in Nat /\ secondary' \in Nat \cup {None}
        /\ KeysInOrder' /\ now - primary' <= Half
    BY <1>0, <2>1, KeysStayInOrder
  <2>3. new \in Cookie /\ CookieHasItsKey(new)'
    BY <1>0, <2>0, <2>1, <2>2
    DEF TypeOK, Cookie, CookieHasItsKey, KeysInOrder
  <2>4. \A cookie \in cookies : CookieHasItsKey(cookie)'
    BY <1>0, <2>1, CookieKeepsItsKey DEF CookiesHaveTheirKeys
  <2>5. TypeOK' /\ CookiesHaveTheirKeys'
    BY <1>0, <2>1, <2>2, <2>3, <2>4 DEF TypeOK, CookiesHaveTheirKeys
  <2> QED
    BY <2>1, <2>2, <2>5 DEF CookieInv, TimelyCookieIsAccepted, OldCookieIsRefused
<1>3. ASSUME NEW cookie \in cookies, VerifyCookie(cookie) PROVE CookieInv'
  <2>1. now' = now /\ CheckKeyExpiration /\ cookies' = cookies
    BY <1>3 DEF VerifyCookie
  <2>2. /\ primary' \in Nat /\ secondary' \in Nat \cup {None}
        /\ KeysInOrder' /\ now - primary' <= Half
    BY <1>0, <2>1, KeysStayInOrder
  <2>3. \A c \in cookies : CookieHasItsKey(c)'
    BY <1>0, <2>1, CookieKeepsItsKey DEF CookiesHaveTheirKeys
  <2>4. TypeOK' /\ CookiesHaveTheirKeys'
    BY <1>0, <1>3, <2>1, <2>2, <2>3
    DEF TypeOK, CookiesHaveTheirKeys, VerifyCookie, Verdict
  <2>5. CookieHasItsKey(cookie)' /\ cookie \in Cookie
    BY <1>0, <2>3
  <2>6. /\ verdict'.cookie = cookie /\ verdict'.at = now
        /\ verdict'.result = "accepted" <=> cookie.key \in {primary', secondary'}
    BY <1>3 DEF VerifyCookie
  <2>7. TimelyCookieIsAccepted'
    BY <1>0, <2>1, <2>5, <2>6, HalfIsHalf
    DEF TimelyCookieIsAccepted, CookieHasItsKey, Cookie, TypeOK
  <2>8. OldCookieIsRefused'
    <3>1. cookie.key \in Nat /\ cookie.made \in Nat /\ now \in Nat
      BY <1>0, <2>5 DEF Cookie, TypeOK
    <3>2. cookie.key \in {primary', secondary'} => now - cookie.key <= Interval + Half
      <4>1. PICK p, k \in Nat : p = primary' /\ k = cookie.key
        BY <2>2, <3>1
      <4>2. now - p <= Half
        BY <2>2, <4>1
      <4>3. k = p => now - k <= Interval + Half
        BY <3>1, <4>1, <4>2, AgeOfPrimary
      <4>4. k = secondary' => now - k <= Interval + Half
        <5>1. ASSUME k = secondary' PROVE p - k <= Interval
          BY <2>2, <4>1, <5>1 DEF KeysInOrder, None
        <5> QED
          BY <3>1, <4>1, <4>2, <5>1, AgeOfSecondary
      <4> QED
        BY <4>1, <4>3, <4>4
    <3>3. cookie.key <= cookie.made
      BY <2>5 DEF CookieHasItsKey
    <3>4. cookie.key \in {primary', secondary'} => now - cookie.made <= Interval + Half
      BY <3>1, <3>2, <3>3, HalfIsHalf, IntervalAssumption
    <3> QED
      BY <2>6, <3>4 DEF OldCookieIsRefused
  <2> QED
    BY <2>2, <2>4, <2>7, <2>8 DEF CookieInv
<1>4. ASSUME NEW cookie \in cookies, VerifyCookieFails(cookie) PROVE CookieInv'
  <2>1. /\ now' = now /\ UNCHANGED keyVars /\ cookies' = cookies
        /\ verdict' = [cookie |-> cookie, at |-> now, result |-> "failed"]
    BY <1>4 DEF VerifyCookieFails, RotationFails
  <2>2. TypeOK' /\ KeysInOrder' /\ CookiesHaveTheirKeys'
    BY <1>0, <2>1
    DEF TypeOK, KeysInOrder, CookiesHaveTheirKeys, CookieHasItsKey, keyVars,
        Verdict
  <2> QED
    BY <2>1, <2>2 DEF CookieInv, TimelyCookieIsAccepted, OldCookieIsRefused
<1>5. CASE UNCHANGED vars
  BY <1>5 DEF CookieInv, vars, keyVars, TypeOK, KeysInOrder, CookiesHaveTheirKeys,
              CookieHasItsKey, TimelyCookieIsAccepted, OldCookieIsRefused
<1> QED
  BY <1>1, <1>2, <1>3, <1>4, <1>5 DEF Next

\* A peer that answers a cookie within half of the interval is let in, however
\* often and however seldom the keys were looked after in between.
THEOREM TimelyCookie == Spec => []TimelyCookieIsAccepted
<1>1. CookieInv => TimelyCookieIsAccepted
  BY DEF CookieInv
<1> QED
  BY <1>1, CookieInit, CookieStep, PTL DEF Spec

\* No cookie is accepted after one and a half interval: the bound on how late
\* an expired key may still be there.
THEOREM OldCookie == Spec => []OldCookieIsRefused
<1>1. CookieInv => OldCookieIsRefused
  BY DEF CookieInv
<1> QED
  BY <1>1, CookieInit, CookieStep, PTL DEF Spec

-----------------------------------------------------------------------------
(* Reputations.                                                              *)

\* In an interval, the maximum is let in, one more that costs the reputation a half,
\* and, if the reputation improves meanwhile, which it does once, another one.
AdmittedSoFar ==
    ~Fresh =>
        /\ amount <= MaxAttempts => admitted <= amount
        /\ amount > MaxAttempts /\ since > window =>
              admitted <= MaxAttempts \/ (admitted = MaxAttempts + 1 /\ score <= 50)
        /\ amount > MaxAttempts /\ since <= window =>
              admitted <= MaxAttempts + 1 \/ (admitted = MaxAttempts + 2 /\ score <= 50)

ScoreInv == ReputationTypeOK /\ ScoreIsBounded /\ AdmittedSoFar /\ FloodIsRefused

-----------------------------------------------------------------------------
(* Arithmetic.                                                             *)

\* A small sum is its own remainder.
LEMMA ModOfSmall ==
    ASSUME NEW m \in Int, 0 <= m, m < 65536
    PROVE  m % 65536 = m
  OBVIOUS

\* Between the limits and one update away from them, 16 bits are enough (Int16 Score).
LEMMA WrapIsIdentity ==
    ASSUME NEW n \in Int, -3200 <= n, n <= 100
    PROVE  Wrap16(n) = n
  <1> DEFINE m == n + 32768
  <1>1. m \in Int /\ 0 <= m /\ m < 65536
    OBVIOUS
  <1> HIDE DEF m
  <1>2. m % 65536 = m
    BY <1>1, ModOfSmall
  <1>3. (n + 32768) % 65536 = n + 32768
    BY <1>2 DEF m
  <1>4. ((n + 32768) % 65536) - 32768 = n
    BY <1>3
  <1> QED
    BY <1>4 DEF Wrap16

\* UpdateReputation leaves a score between the limits.
LEMMA UpdatedIsBounded ==
    ASSUME NEW s \in Minimum .. Maximum, NEW by \in Deteriorations \cup {0}
    PROVE  /\ Updated(s, by) \in Minimum .. Maximum
           /\ Updated(s, by) = Clamp(s + by)
  <1>1. s \in Int /\ -3000 <= s /\ s <= 100
    BY DEF Minimum, Maximum
  <1>2. by \in Int /\ -200 <= by /\ by <= 0
    BY DEF Deteriorations, DeteriorateModerate
  <1> DEFINE sum == s + by
  <1>3. sum \in Int /\ -3200 <= sum /\ sum <= 100
    BY <1>1, <1>2
  <1>4. Wrap16(s + by) = sum
    <2> HIDE DEF sum
    <2>1. Wrap16(sum) = sum
      BY <1>3, WrapIsIdentity
    <2> QED
      BY <2>1 DEF sum
  <1>5. Updated(s, by) = Clamp(sum)
    BY <1>4 DEF Updated
  <1>6. Clamp(sum) \in Minimum .. Maximum
    <2> HIDE DEF sum
    <2> QED
      BY <1>3 DEF Clamp, Minimum, Maximum
  <1> QED
    BY <1>5, <1>6

\* ImproveReputation leaves a score between the limits and never lowers it.
LEMMA ImprovedIsBounded ==
    ASSUME NEW s \in Minimum .. Maximum, NEW age \in Nat
    PROVE  Improved(s, age) \in Minimum .. Maximum
  <1>1. age \div ImproveInterval \in Nat
    BY ReputationAssumption
  <1> DEFINE n == age \div ImproveInterval
  <1>2. n \in Nat
    BY <1>1
  <1>3. s + ImproveMinimal * n \in Int /\ s + ImproveMinimal * n >= s
    BY <1>2 DEF ImproveMinimal, Minimum, Maximum
  <1>4. Improved(s, age) = IF s + ImproveMinimal * n > Maximum THEN Maximum
                           ELSE s + ImproveMinimal * n
    BY DEF Improved
  <1> DEFINE better == s + ImproveMinimal * n
  <1>5. better \in Int /\ better >= s
    BY <1>3
  <1>6. Improved(s, age) = IF better > Maximum THEN Maximum ELSE better
    BY <1>4
  <1> HIDE DEF n, better
  <1> QED
    <2>1. s \in -3000 .. 100
      BY DEF Minimum, Maximum
    <2>2. CASE better > 100
      <3>1. Improved(s, age) = 100
        BY <1>6, <2>2 DEF Maximum
      <3> QED
        BY <3>1 DEF Minimum, Maximum
    <2>3. CASE ~(better > 100)
      <3>1. Improved(s, age) = better
        BY <1>6, <2>3 DEF Maximum
      <3>2. better \in -3000 .. 100
        BY <1>5, <2>1, <2>3
      <3> QED
        BY <3>1, <3>2 DEF Minimum, Maximum
    <2> QED
      BY <2>2, <2>3

\* Within an interval nothing improves.
LEMMA NotImproved ==
    ASSUME NEW s \in Minimum .. Maximum, NEW age \in Nat, age < ImproveInterval
    PROVE  Improved(s, age) = s /\ LastImprove(age) = age
  <1>1. age \div ImproveInterval = 0
    BY ReputationAssumption
  <1> QED
    BY <1>1, ReputationAssumption DEF Improved, LastImprove, Minimum, Maximum, ImproveMinimal

\* The age of the last improvement stays an age.
LEMMA LastImproveType ==
    ASSUME NEW age \in Nat
    PROVE  LastImprove(age) \in {0, age} /\ LastImprove(age) \in Nat
  BY DEF LastImprove

\* What asking for the reputation makes of it.
LEMMA Asked ==
    ASSUME NEW s \in Minimum .. Maximum, NEW age \in Nat
    PROVE  /\ Updated(Improved(s, age), 0) = Improved(s, age)
           /\ Improved(s, age) \in Minimum .. Maximum
  <1>1. Improved(s, age) \in Minimum .. Maximum
    BY ImprovedIsBounded
  <1>2. Updated(Improved(s, age), 0) = Clamp(Improved(s, age) + 0)
    BY <1>1, UpdatedIsBounded
  <1> DEFINE i == Improved(s, age)
  <1>3. i \in Minimum .. Maximum
    BY <1>1
  <1> HIDE DEF i
  <1>4. Clamp(i + 0) = i
    BY <1>3 DEF Clamp, Minimum, Maximum
  <1> QED
    BY <1>1, <1>2, <1>4 DEF i

-----------------------------------------------------------------------------

\* A new address has a reputation like the invariant says.
LEMMA ScoreInit == ReputationInit => ScoreInv
  BY ReputationAssumption
  DEF ReputationInit, ScoreInv, ReputationTypeOK, ScoreIsBounded, AdmittedSoFar, FloodIsRefused, Fresh, Minimum, Maximum

\* Time may pass.
LEMMA PassPreserves ==
    ASSUME ScoreInv, Pass
    PROVE  ScoreInv'
  BY ReputationAssumption
  DEF Pass, ScoreInv, ReputationTypeOK, ScoreIsBounded, AdmittedSoFar, FloodIsRefused, Fresh

\* Whoever asks: within an interval only a score that is older than it improves.
LEMMA AskPreserves ==
    ASSUME ScoreInv, Ask
    PROVE  ScoreInv'
  <1>1. score \in Minimum .. Maximum /\ since \in Nat /\ window \in Nat
    BY DEF ScoreInv, ReputationTypeOK, ScoreIsBounded
  <1>2. score' = Improved(score, since) /\ score' \in Minimum .. Maximum
    BY <1>1, Asked DEF Ask
  <1>3. since' \in {0, since} /\ since' \in Nat
    BY <1>1, LastImproveType DEF Ask
  <1>4. ReputationTypeOK' /\ ScoreIsBounded' /\ FloodIsRefused'
    BY <1>2, <1>3 DEF Ask, KeepHistory, attemptVars, ScoreInv, ReputationTypeOK, ScoreIsBounded, FloodIsRefused,
                      Minimum, Maximum
  <1>5. since < ImproveInterval => score' = score /\ since' = since
    BY <1>1, <1>2, NotImproved DEF Ask
  <1>6. since >= ImproveInterval => since' = 0
    BY DEF Ask, LastImprove
  <1>7. AdmittedSoFar'
    <2> SUFFICES ASSUME ~Fresh'
                 PROVE  /\ amount' <= MaxAttempts => admitted' <= amount'
                        /\ amount' > MaxAttempts /\ since' > window' =>
                              admitted' <= MaxAttempts \/ (admitted' = MaxAttempts + 1 /\ score' <= 50)
                        /\ amount' > MaxAttempts /\ since' <= window' =>
                              admitted' <= MaxAttempts + 1 \/ (admitted' = MaxAttempts + 2 /\ score' <= 50)
      BY DEF AdmittedSoFar
    <2>1. ~Fresh /\ window' = window /\ amount' = amount /\ admitted' = admitted
      BY DEF Ask, attemptVars, Fresh
    <2>2. window < ImproveInterval /\ amount \in Nat /\ admitted \in Int
      BY <2>1, ReputationAssumption DEF Fresh, ScoreInv, ReputationTypeOK
    <2>3. CASE since < ImproveInterval
      BY <2>1, <2>3, <1>5 DEF ScoreInv, AdmittedSoFar
    <2>4. CASE since >= ImproveInterval
      <3>1. since > window /\ since' = 0 /\ since' <= window'
        BY <2>1, <2>2, <2>4, <1>1, <1>6, ReputationAssumption
      <3>2. amount > MaxAttempts => admitted <= MaxAttempts + 1
        BY <2>1, <2>2, <3>1, ReputationAssumption DEF ScoreInv, AdmittedSoFar
      <3> QED
        BY <2>1, <3>1, <3>2, <1>1 DEF ScoreInv, AdmittedSoFar
    <2> QED
      BY <2>3, <2>4, <1>1, ReputationAssumption
  <1> QED
    BY <1>4, <1>7 DEF ScoreInv

\* The reputation only gets worse, and the interval goes on as it was.
LEMMA UpdatePreserves ==
    ASSUME ScoreInv, UpdateReputation
    PROVE  ScoreInv'
  <1>1. score \in Minimum .. Maximum /\ since \in Nat /\ window \in Nat
    BY DEF ScoreInv, ReputationTypeOK, ScoreIsBounded
  <1>2. PICK by \in Deteriorations : score' = Updated(Improved(score, since), by)
    BY DEF UpdateReputation
  <1>3. Improved(score, since) \in Minimum .. Maximum
    BY <1>1, ImprovedIsBounded
  <1> DEFINE i == Improved(score, since)
  <1>4. i \in Minimum .. Maximum /\ score' = Clamp(i + by) /\ score' \in Minimum .. Maximum
    BY <1>2, <1>3, UpdatedIsBounded
  <1>5. since' \in {0, since} /\ since' \in Nat
    BY <1>1, LastImproveType DEF UpdateReputation
  <1>6. since < ImproveInterval => i = score /\ since' = since
    BY <1>1, NotImproved DEF UpdateReputation
  <1>7. since >= ImproveInterval => since' = 0
    BY DEF UpdateReputation, LastImprove
  <1> HIDE DEF i
  <1>8. score' <= i \/ score' = Minimum
    BY <1>4 DEF Clamp, Deteriorations, DeteriorateModerate, Minimum, Maximum
  <1>9. updates' \in Nat /\ UNCHANGED <<amount, window, admitted, time>>
    BY DEF UpdateReputation, attemptVars, ScoreInv, ReputationTypeOK
  <1>10. ReputationTypeOK' /\ ScoreIsBounded' /\ FloodIsRefused'
    BY <1>4, <1>5, <1>9 DEF UpdateReputation, Lowered, ScoreInv, ReputationTypeOK, ScoreIsBounded, FloodIsRefused,
                            Minimum, Maximum
  <1>11. AdmittedSoFar'
    <2> SUFFICES ASSUME ~Fresh'
                 PROVE  /\ amount' <= MaxAttempts => admitted' <= amount'
                        /\ amount' > MaxAttempts /\ since' > window' =>
                              admitted' <= MaxAttempts \/ (admitted' = MaxAttempts + 1 /\ score' <= 50)
                        /\ amount' > MaxAttempts /\ since' <= window' =>
                              admitted' <= MaxAttempts + 1 \/ (admitted' = MaxAttempts + 2 /\ score' <= 50)
      BY DEF AdmittedSoFar
    <2>1. ~Fresh /\ window < ImproveInterval /\ amount \in Nat /\ admitted \in Int
      BY <1>9, <1>1, ReputationAssumption DEF Fresh, ScoreInv, ReputationTypeOK
    <2>2. CASE since < ImproveInterval
      <3>1. score' <= score \/ score' = Minimum
        BY <1>6, <1>8, <2>2
      <3>2. score <= 50 => score' <= 50
        BY <3>1, <1>4, <1>1 DEF Minimum, Maximum
      <3> QED
        BY <2>1, <2>2, <3>2, <1>6, <1>9 DEF ScoreInv, AdmittedSoFar
    <2>3. CASE since >= ImproveInterval
      <3>1. since > window /\ since' = 0 /\ since' <= window'
        BY <2>1, <2>3, <1>1, <1>7, <1>9, ReputationAssumption
      <3>2. amount > MaxAttempts => admitted <= MaxAttempts + 1
        BY <2>1, <3>1, ReputationAssumption DEF ScoreInv, AdmittedSoFar
      <3> QED
        BY <2>1, <3>1, <3>2, <1>1, <1>9 DEF ScoreInv, AdmittedSoFar
    <2> QED
      BY <2>2, <2>3, <1>1, ReputationAssumption
  <1> QED
    BY <1>10, <1>11 DEF ScoreInv

\* The user may set the score (SetReputation, ResetReputation).
LEMMA SetPreserves ==
    ASSUME ScoreInv, SetReputation
    PROVE  ScoreInv'
  BY ReputationAssumption
  DEF SetReputation, Lowered, attemptVars, ScoreInv, ReputationTypeOK, ScoreIsBounded, AdmittedSoFar,
      FloodIsRefused, Fresh, Minimum, Base, Maximum

-----------------------------------------------------------------------------
(* An attempt.                                                             *)

SoFar == IF Fresh THEN 0 ELSE admitted

\* What an attempt makes of the score, and of how many have been let in.
LEMMA AttemptOutcome ==
    ASSUME ScoreInv, Attempt
    PROVE  /\ AfterAttempt \in Minimum .. Maximum
           /\ Amount > MaxAttempts /\ score <= 50 => AfterAttempt <= 0
           /\ Amount > MaxAttempts => AfterAttempt <= 50
           /\ score' \in Minimum .. Maximum
           /\ since' \in Nat /\ since' \in {0, since}
           /\ since < ImproveInterval => score' = AfterAttempt /\ since' = since
           /\ ~AttemptSucceeds => score' = AfterAttempt /\ since' = since
           /\ AttemptSucceeds /\ since >= ImproveInterval => since' = 0
  <1>1. score \in Minimum .. Maximum /\ since \in Nat
    BY DEF ScoreInv, ReputationTypeOK, ScoreIsBounded
  <1>2. DeteriorateModerate \in Deteriorations \cup {0}
    BY DEF Deteriorations
  <1>3. Updated(score, DeteriorateModerate) \in Minimum .. Maximum
        /\ Updated(score, DeteriorateModerate) = Clamp(score - 50)
    BY <1>1, <1>2, UpdatedIsBounded DEF DeteriorateModerate
  <1>4. AfterAttempt \in Minimum .. Maximum
    BY <1>1, <1>3 DEF AfterAttempt
  <1>5. Amount > MaxAttempts => AfterAttempt = Clamp(score - 50)
    BY <1>3 DEF AfterAttempt
  <1>6. Clamp(score - 50) <= 50 /\ (score <= 50 => Clamp(score - 50) <= 0)
    BY <1>1 DEF Clamp, Minimum, Maximum
  <1>7. /\ Updated(Improved(AfterAttempt, since), 0) = Improved(AfterAttempt, since)
        /\ Improved(AfterAttempt, since) \in Minimum .. Maximum
    BY <1>1, <1>4, Asked
  <1>8. score' \in Minimum .. Maximum
    BY <1>4, <1>7 DEF Attempt
  <1>9. since' \in Nat /\ since' \in {0, since}
    BY <1>1, LastImproveType DEF Attempt
  <1>10. since < ImproveInterval => score' = AfterAttempt /\ since' = since
    BY <1>1, <1>4, <1>7, NotImproved DEF Attempt
  <1>11. ~AttemptSucceeds => score' = AfterAttempt /\ since' = since
    BY DEF Attempt
  <1>12. AttemptSucceeds /\ since >= ImproveInterval => since' = 0
    BY DEF Attempt, LastImprove
  <1> QED
    BY <1>4, <1>5, <1>6, <1>8, <1>9, <1>10, <1>11, <1>12

\* A connection attempt keeps the invariant, in the interval or as the first of the next.
LEMMA AttemptPreserves ==
    ASSUME ScoreInv, Attempt
    PROVE  ScoreInv'
  <1>1. score \in Minimum .. Maximum /\ since \in Nat /\ window \in Nat /\ amount \in Nat
        /\ admitted \in {-1} \cup Nat /\ MaxAttempts \in Nat
    BY ReputationAssumption DEF ScoreInv, ReputationTypeOK, ScoreIsBounded
  <1>2. Amount \in Nat /\ Amount >= 1 /\ amount' = Amount
    BY <1>1 DEF Amount, Attempt
  <1>3. window' \in Nat /\ window' = IF Fresh THEN 0 ELSE window
    BY <1>1 DEF Attempt
  <1>4. SoFar \in {-1} \cup Nat
    BY <1>1 DEF SoFar
  <1>5. admitted' \in {SoFar, SoFar + 1} /\ admitted' \in {-1} \cup Nat
    BY <1>4 DEF SoFar, Attempt
  <1>6. admitted' = SoFar + 1 => AttemptSucceeds
    BY <1>4 DEF SoFar, Attempt
  <1>7. score' \in Minimum .. Maximum /\ since' \in Nat /\ since' \in {0, since}
    BY AttemptOutcome
  <1>8. AfterAttempt \in Minimum .. Maximum
    BY AttemptOutcome
  <1>9. ReputationTypeOK' /\ ScoreIsBounded'
    BY <1>1, <1>2, <1>3, <1>5, <1>7, <1>8
    DEF Attempt, KeepHistory, ScoreInv, ReputationTypeOK, ScoreIsBounded, Minimum, Maximum
  \* The first Amount - 1 attempts of the interval let no more than that in.
  <1>10. Amount <= MaxAttempts => admitted' <= Amount
    <2>1. CASE Fresh
      BY <2>1, <1>2, <1>5 DEF SoFar
    <2>2. CASE ~Fresh
      <3>1. Amount = amount + 1
        BY <2>2 DEF Amount
      <3>2. Amount <= MaxAttempts => admitted <= amount
        BY <3>1, <2>2, <1>1 DEF ScoreInv, AdmittedSoFar
      <3> QED
        BY <3>1, <3>2, <2>2, <1>1, <1>5 DEF SoFar
    <2> QED
      BY <2>1, <2>2
  \* Beyond the maximum: what was let in before.
  <1>11. ASSUME Amount > MaxAttempts
         PROVE  \/ SoFar <= MaxAttempts
                \/ SoFar = MaxAttempts + 1 /\ (since > window => score <= 50) /\ ~Fresh
                \/ SoFar = MaxAttempts + 2 /\ score <= 50 /\ ~Fresh
    <2>1. CASE Fresh
      BY <2>1, <1>1 DEF SoFar
    <2>2. CASE ~Fresh
      <3>1. Amount = amount + 1 /\ SoFar = admitted
        BY <2>2 DEF Amount, SoFar
      <3>2. CASE amount <= MaxAttempts
        BY <3>1, <3>2, <2>2, <1>1 DEF ScoreInv, AdmittedSoFar
      <3>3. CASE amount > MaxAttempts
        BY <3>1, <3>3, <2>2, <1>1 DEF ScoreInv, AdmittedSoFar
      <3> QED
        BY <3>2, <3>3, <1>1
    <2> QED
      BY <2>1, <2>2
  <1>12. AttemptSucceeds => Amount <= MaxAttempts \/ AfterAttempt > 0
    BY DEF AttemptSucceeds, Acceptable, Base
  \* It is not let in when the reputation was spoilt before.
  <1>13. ASSUME Amount > MaxAttempts, score <= 50
         PROVE  admitted' = SoFar /\ score' <= 50
    <2>1. AfterAttempt <= 0
      BY <1>13, AttemptOutcome
    <2>2. ~AttemptSucceeds
      BY <2>1, <1>8, <1>12, <1>13, <1>1, <1>2 DEF Minimum, Maximum
    <2>3. score' = AfterAttempt
      BY <2>2, AttemptOutcome
    <2> QED
      BY <2>1, <2>2, <2>3, <1>5, <1>6, <1>8 DEF Minimum, Maximum
  <1>14. Amount > MaxAttempts => AfterAttempt <= 50
    BY AttemptOutcome
  <1>15. ~Fresh => window' = window /\ window < ImproveInterval
    BY <1>1, <1>3, ReputationAssumption DEF Fresh
  <1>16. since < ImproveInterval => score' = AfterAttempt /\ since' = since
    BY AttemptOutcome
  <1>17. ~AttemptSucceeds => score' = AfterAttempt /\ since' = since
    BY AttemptOutcome
  <1>18. AttemptSucceeds /\ since >= ImproveInterval => since' = 0
    BY AttemptOutcome
  <1>19. ASSUME Amount > MaxAttempts
         PROVE  /\ since' > window' =>
                      admitted' <= MaxAttempts \/ (admitted' = MaxAttempts + 1 /\ score' <= 50)
                /\ since' <= window' =>
                      admitted' <= MaxAttempts + 1 \/ (admitted' = MaxAttempts + 2 /\ score' <= 50)
    <2>1. CASE SoFar <= MaxAttempts
      <3>1. CASE since' <= window'
        BY <3>1, <2>1, <1>1, <1>3, <1>4, <1>5, <1>7
      <3>2. CASE since' > window'
        <4>1. score' = AfterAttempt
          BY <3>2, <1>1, <1>3, <1>7, <1>16, <1>17, <1>18, ReputationAssumption
        <4>2. score' <= 50
          BY <4>1, <1>14, <1>19
        <4> QED
          BY <3>2, <4>2, <2>1, <1>1, <1>3, <1>4, <1>5, <1>7
      <3> QED
        BY <3>1, <3>2, <1>3, <1>7
    <2>2. CASE SoFar = MaxAttempts + 1 /\ (since > window => score <= 50) /\ ~Fresh
      <3>1. CASE score <= 50
        <4>1. admitted' = SoFar /\ score' <= 50
          BY <3>1, <1>13, <1>19
        <4> QED
          BY <4>1, <2>2, <1>1
      <3>2. CASE ~(score <= 50)
        <4>1. since <= window /\ since < ImproveInterval
          BY <3>2, <2>2, <1>1, <1>15, ReputationAssumption
        <4>2. score' = AfterAttempt /\ since' = since
          BY <4>1, <1>16
        <4>3. score' <= 50 /\ since' <= window'
          BY <4>1, <4>2, <1>14, <1>15, <1>19, <2>2
        <4> QED
          BY <4>3, <2>2, <1>1, <1>3, <1>5, <1>7
      <3> QED
        BY <3>1, <3>2
    <2>3. CASE SoFar = MaxAttempts + 2 /\ score <= 50 /\ ~Fresh
      <3>1. admitted' = SoFar /\ score' <= 50
        BY <2>3, <1>13, <1>19
      <3>2. since <= window
        <4>1. Amount = amount + 1 /\ SoFar = admitted
          BY <2>3 DEF Amount, SoFar
        <4>2. amount > MaxAttempts
          BY <4>1, <2>3, <1>1 DEF ScoreInv, AdmittedSoFar
        <4> QED
          BY <4>1, <4>2, <2>3, <1>1 DEF ScoreInv, AdmittedSoFar
      <3>3. since' <= window'
        BY <3>2, <2>3, <1>1, <1>7, <1>15
      <3> QED
        BY <3>1, <3>3, <2>3, <1>1, <1>3, <1>7
    <2> QED
      BY <2>1, <2>2, <2>3, <1>11, <1>19
  <1>20. AdmittedSoFar'
    BY <1>2, <1>10, <1>19, <1>1 DEF AdmittedSoFar
  <1>21. admitted' <= MaxAttempts + 2
    <2>1. CASE Amount <= MaxAttempts
      BY <2>1, <1>1, <1>2, <1>5, <1>10
    <2>2. CASE Amount > MaxAttempts
      BY <2>2, <1>1, <1>3, <1>5, <1>7, <1>19
    <2> QED
      BY <2>1, <2>2, <1>1, <1>2
  <1> QED
    BY <1>9, <1>20, <1>21 DEF ScoreInv, FloodIsRefused

\* Every step keeps the invariant.
LEMMA ScoreStep == ScoreInv /\ [ReputationNext]_reputationVars => ScoreInv'
  <1> SUFFICES ASSUME ScoreInv, [ReputationNext]_reputationVars PROVE ScoreInv'
    OBVIOUS
  <1>1. CASE UNCHANGED reputationVars
    BY <1>1 DEF reputationVars, ScoreInv, ReputationTypeOK, ScoreIsBounded, AdmittedSoFar, FloodIsRefused, Fresh
  <1> QED
    BY <1>1, PassPreserves, AskPreserves, UpdatePreserves, SetPreserves, AttemptPreserves DEF ReputationNext

-----------------------------------------------------------------------------
(* How a score recovers.                                                     *)

\* What a score has gained since it was lowered: g intervals, for which at least g of
\* them have passed and, since the rest of an interval is lost, not twice as many.
Account(g, age, q, b) ==
    /\ ImproveInterval * g + age <= q + b
    /\ q <= 2 * (ImproveInterval * g) + age

Recovered ==
    \E g \in Nat : Account(g, since, quiet, banked) /\ score = AtMost(low + ImproveMinimal * g)

LowIsBounded == low \in Minimum .. Maximum

\* A quotient and its remainder.
LEMMA Division ==
    ASSUME NEW a \in Nat, NEW b \in Nat \ {0}
    PROVE  /\ a \div b \in Nat
           /\ b * (a \div b) <= a
           /\ a < b * (a \div b) + b
  OBVIOUS

LEMMA MulNat ==
    ASSUME NEW a \in Nat, NEW b \in Nat
    PROVE  a * b \in Nat
  OBVIOUS

LEMMA Distributes ==
    ASSUME NEW a \in Nat, NEW b \in Nat, NEW c \in Nat
    PROVE  a * (b + c) = a * b + a * c
  OBVIOUS

LEMMA MulMonotone ==
    ASSUME NEW a \in Nat, NEW b \in Nat, NEW c \in Nat, b <= c
    PROVE  a * b <= a * c
  <1>1. PICK d \in Nat : c = b + d
    BY c - b \in Nat
  <1>2. a * c = a * b + a * d
    BY <1>1, Distributes
  <1>3. a * d \in Nat /\ a * b \in Nat
    BY MulNat
  <1> QED
    BY <1>2, <1>3

\* What one improvement gives and costs (ImproveReputation).
LEMMA Improvement ==
    ASSUME NEW s \in Minimum .. Maximum, NEW age \in Nat
    PROVE  \E k \in Nat :
              /\ Improved(s, age) = AtMost(s + ImproveMinimal * k)
              /\ ImproveInterval * k + LastImprove(age) <= age
              /\ age <= 2 * (ImproveInterval * k) + LastImprove(age)
  <1> DEFINE k == age \div ImproveInterval
  <1>1. /\ k \in Nat
        /\ ImproveInterval * k <= age
        /\ age < ImproveInterval * k + ImproveInterval
    BY ReputationAssumption, Division
  <1>2. Improved(s, age) = AtMost(s + ImproveMinimal * k)
    BY DEF Improved, AtMost
  <1> HIDE DEF k
  <1> DEFINE p == ImproveInterval * k
  <1>3. p \in Nat
    BY <1>1, MulNat, ReputationAssumption
  <1>4. age >= ImproveInterval => p >= ImproveInterval
    <2>1. CASE k = 0
      <3>1. p = 0
        BY <2>1, ReputationAssumption
      <3> QED
        BY <3>1, <1>1, ReputationAssumption
    <2>2. CASE k # 0
      <3>1. ImproveInterval * 1 <= ImproveInterval * k
        BY <1>1, <2>2, MulMonotone, ReputationAssumption
      <3> QED
        BY <3>1, ReputationAssumption
    <2> QED
      BY <2>1, <2>2
  <1>5. age < ImproveInterval => p = 0
    <2> SUFFICES ASSUME age < ImproveInterval, k # 0 PROVE FALSE
      BY ReputationAssumption
    <2>1. ImproveInterval * 1 <= ImproveInterval * k
      BY <1>1, MulMonotone, ReputationAssumption
    <2> QED
      BY <2>1, <1>1, ReputationAssumption
  <1>6. p <= age /\ age < p + ImproveInterval
    BY <1>1
  <1>7. p + LastImprove(age) <= age /\ age <= 2 * p + LastImprove(age)
    <2> HIDE DEF p
    <2> QED
      BY <1>3, <1>4, <1>5, <1>6, ReputationAssumption DEF LastImprove
  <1> QED
    BY <1>1, <1>2, <1>7

\* Gains add up, also at the maximum.
LEMMA GainsAdd ==
    ASSUME NEW l \in Minimum .. Maximum, NEW g \in Nat, NEW k \in Nat
    PROVE  /\ AtMost(AtMost(l + ImproveMinimal * g) + ImproveMinimal * k)
                = AtMost(l + ImproveMinimal * (g + k))
           /\ l = AtMost(l + ImproveMinimal * 0)
  BY DEF AtMost, ImproveMinimal, Maximum, Minimum

\* An improvement keeps what Recovered says.
LEMMA ImprovementKeeps ==
    ASSUME NEW s \in Minimum .. Maximum, NEW age \in Nat, NEW l \in Minimum .. Maximum,
           NEW q \in Nat, NEW b \in Nat, NEW g \in Nat,
           Account(g, age, q, b), s = AtMost(l + ImproveMinimal * g)
    PROVE  \E h \in Nat :
              /\ Account(h, LastImprove(age), q, b)
              /\ Improved(s, age) = AtMost(l + ImproveMinimal * h)
  <1>1. PICK k \in Nat :
              /\ Improved(s, age) = AtMost(s + ImproveMinimal * k)
              /\ ImproveInterval * k + LastImprove(age) <= age
              /\ age <= 2 * (ImproveInterval * k) + LastImprove(age)
    BY Improvement
  <1>2. Improved(s, age) = AtMost(l + ImproveMinimal * (g + k))
    BY <1>1, GainsAdd
  <1>3. ImproveInterval * (g + k) = ImproveInterval * g + ImproveInterval * k
    BY Distributes, ReputationAssumption
  <1>4. ImproveInterval * g \in Nat /\ ImproveInterval * k \in Nat
    BY MulNat, ReputationAssumption
  <1>5. LastImprove(age) \in Nat
    BY LastImproveType
  <1> DEFINE pg == ImproveInterval * g
             pk == ImproveInterval * k
             ph == ImproveInterval * (g + k)
             la == LastImprove(age)
  <1>6. /\ ph + la <= q + b
        /\ q <= 2 * ph + la
    <2>1. ph = pg + pk /\ pg \in Nat /\ pk \in Nat /\ la \in Nat
      BY <1>3, <1>4, <1>5
    <2>2. pk + la <= age /\ age <= 2 * pk + la /\ pg + age <= q + b /\ q <= 2 * pg + age
      BY <1>1 DEF Account
    <2> HIDE DEF pg, pk, ph, la
    <2> QED
      BY <2>1, <2>2
  <1> QED
    BY <1>2, <1>6 DEF Account

LEMMA RecoveredInitially == ReputationInit => Recovered /\ LowIsBounded
  <1> SUFFICES ASSUME ReputationInit PROVE Recovered /\ LowIsBounded
    OBVIOUS
  <1>1. ImproveInterval * 0 = 0
    BY ReputationAssumption
  <1>2. Account(0, since, quiet, banked) /\ score = AtMost(low + ImproveMinimal * 0)
    BY <1>1 DEF Account, ReputationInit, AtMost, ImproveMinimal, Maximum
  <1> QED
    BY <1>2 DEF Recovered, LowIsBounded, ReputationInit, Maximum, Minimum

ReputationInv == ScoreInv /\ Recovered /\ LowIsBounded

\* Every step keeps account of what the score has gained.
LEMMA RecoveredStep ==
    ASSUME ReputationInv, [ReputationNext]_reputationVars
    PROVE  Recovered' /\ LowIsBounded'
  <1>1. /\ score \in Minimum .. Maximum /\ since \in Nat /\ quiet \in Nat /\ banked \in Nat
        /\ low \in Minimum .. Maximum
    BY DEF ReputationInv, ScoreInv, ReputationTypeOK, ScoreIsBounded, LowIsBounded
  <1>2. PICK g \in Nat :
            /\ Account(g, since, quiet, banked)
            /\ score = AtMost(low + ImproveMinimal * g)
    BY DEF ReputationInv, Recovered
  <1>3. ScoreInv'
    BY ScoreStep DEF ReputationInv
  <1>4. score' \in Minimum .. Maximum /\ since' \in Nat
    BY <1>3 DEF ScoreInv, ReputationTypeOK, ScoreIsBounded
  <1>5. CASE UNCHANGED reputationVars
    BY <1>5 DEF ReputationInv, reputationVars, Recovered, LowIsBounded
  <1>6. CASE Pass
    <2>1. UNCHANGED <<score, low, banked>> /\ since' = since + 1 /\ quiet' = quiet + 1
      BY <1>6 DEF Pass
    <2> DEFINE p == ImproveInterval * g
    <2>2. p \in Nat
      BY MulNat, ReputationAssumption
    <2>3. p + since' <= quiet' + banked' /\ quiet' <= 2 * p + since'
      <3>1. p + since <= quiet + banked /\ quiet <= 2 * p + since
        BY <1>2 DEF Account
      <3> HIDE DEF p
      <3> QED
        BY <3>1, <2>1, <2>2, <1>1
    <2>4. score' = AtMost(low' + ImproveMinimal * g)
      BY <1>2, <2>1
    <2> QED
      BY <2>1, <2>3, <2>4 DEF ReputationInv, Recovered, LowIsBounded, Account
  \* Asking for the reputation, or an attempt within the maximum.
  <1>7. ASSUME score' = Updated(Improved(score, since), 0), since' = LastImprove(since),
               UNCHANGED <<low, quiet, banked>>
        PROVE  Recovered' /\ LowIsBounded'
    <2>1. score' = Improved(score, since)
      BY <1>7, <1>1, Asked
    <2>2. PICK h \in Nat :
              /\ Account(h, LastImprove(since), quiet, banked)
              /\ Improved(score, since) = AtMost(low + ImproveMinimal * h)
      BY <1>1, <1>2, ImprovementKeeps
    <2>3. /\ Account(h, since', quiet', banked')
          /\ score' = AtMost(low' + ImproveMinimal * h)
      BY <2>1, <2>2, <1>7
    <2> QED
      BY <2>3, <1>7 DEF Recovered, ReputationInv, LowIsBounded
  <1>8. CASE Ask
    BY <1>7, <1>8 DEF Ask, KeepHistory
  \* The score is set, and everything starts from there.
  <1>9. ASSUME Lowered
        PROVE  Recovered' /\ LowIsBounded'
    <2>1. low' = score' /\ quiet' = 0 /\ banked' = since'
      BY <1>9 DEF Lowered
    <2>2. ImproveInterval * 0 = 0
      BY ReputationAssumption
    <2>3. score' = AtMost(low' + ImproveMinimal * 0)
      BY <2>1, <1>4, GainsAdd
    <2>4. Account(0, since', quiet', banked')
      BY <2>1, <2>2, <1>4 DEF Account
    <2> QED
      BY <2>1, <2>3, <2>4, <1>4 DEF Recovered, LowIsBounded
  <1>10. CASE UpdateReputation
    BY <1>9, <1>10 DEF UpdateReputation
  <1>11. CASE SetReputation
    BY <1>9, <1>11 DEF SetReputation
  <1>12. CASE Attempt
    <2>1. CASE Amount <= MaxAttempts
      <3>1. AttemptSucceeds
        BY <2>1 DEF AttemptSucceeds
      <3>2. Amount \in Nat
        BY DEF Amount, ReputationInv, ScoreInv, ReputationTypeOK
      <3>3. ~(Amount > MaxAttempts)
        BY <2>1, <3>2, ReputationAssumption
      <3>4. AfterAttempt = score
        BY <3>3 DEF AfterAttempt
      <3> QED
        BY <3>1, <3>3, <3>4, <1>7, <1>12 DEF Attempt, KeepHistory
    <2>2. CASE Amount > MaxAttempts
      <3>1. low' = AfterAttempt /\ quiet' = 0 /\ banked' = since
        BY <2>2, <1>12 DEF Attempt
      <3>2. AfterAttempt \in Minimum .. Maximum
        BY <1>12, AttemptOutcome DEF ReputationInv
      <3>3. ImproveInterval * 0 = 0
        BY ReputationAssumption
      <3>4. AfterAttempt = AtMost(AfterAttempt + ImproveMinimal * 0)
        BY <3>2, GainsAdd
      <3>5. CASE AttemptSucceeds
        <4>1. since' = LastImprove(since) /\ score' = Improved(AfterAttempt, since)
          BY <3>5, <1>12, <1>1, <3>2, Asked DEF Attempt
        <4>2. PICK h \in Nat :
                  /\ Account(h, LastImprove(since), 0, since)
                  /\ Improved(AfterAttempt, since) = AtMost(AfterAttempt + ImproveMinimal * h)
          <5>1. Account(0, since, 0, since)
            BY <3>3, <1>1 DEF Account
          <5> QED
            BY <5>1, <3>2, <3>4, <1>1, ImprovementKeeps
        <4> QED
          BY <4>1, <4>2, <3>1, <3>2 DEF Recovered, LowIsBounded
      <3>6. CASE ~AttemptSucceeds
        <4>1. since' = since /\ score' = AfterAttempt
          BY <3>6, <1>12 DEF Attempt
        <4>2. Account(0, since', quiet', banked')
          BY <4>1, <3>1, <3>3, <1>1 DEF Account
        <4>3. score' = AtMost(low' + ImproveMinimal * 0)
          BY <4>1, <3>1, <3>4
        <4> QED
          BY <4>2, <4>3, <3>1, <3>2 DEF Recovered, LowIsBounded
      <3> QED
        BY <3>5, <3>6
    <2>3. Amount \in Nat
      BY DEF Amount, ReputationInv, ScoreInv, ReputationTypeOK
    <2> QED
      BY <2>1, <2>2, <2>3, ReputationAssumption
  <1> QED
    BY <1>5, <1>6, <1>8, <1>10, <1>11, <1>12 DEF ReputationInv, ReputationNext

\* The account bounds what the address would be given now.
LEMMA RecoveredSuffices == ReputationInv => RecoversInTime
  <1> SUFFICES ASSUME ReputationInv PROVE RecoversInTime
    OBVIOUS
  <1>1. /\ score \in Minimum .. Maximum /\ since \in Nat /\ quiet \in Nat /\ banked \in Nat
        /\ low \in Minimum .. Maximum
    BY DEF ReputationInv, ScoreInv, ReputationTypeOK, ScoreIsBounded, LowIsBounded
  <1>2. PICK g \in Nat :
            /\ Account(g, since, quiet, banked)
            /\ score = AtMost(low + ImproveMinimal * g)
    BY DEF ReputationInv, Recovered
  <1> DEFINE q == since \div ImproveInterval
             r == quiet \div (2 * ImproveInterval)
             t == (quiet + banked) \div ImproveInterval
  <1>3. /\ q \in Nat
        /\ ImproveInterval * q <= since
        /\ since < ImproveInterval * q + ImproveInterval
    BY <1>1, ReputationAssumption, Division
  <1>4. /\ r \in Nat
        /\ (2 * ImproveInterval) * r <= quiet
    <2>1. 2 * ImproveInterval \in Nat \ {0}
      BY ReputationAssumption
    <2> QED
      BY <2>1, <1>1, Division
  <1>5. /\ t \in Nat
        /\ quiet + banked < ImproveInterval * t + ImproveInterval
    <2>1. quiet + banked \in Nat
      BY <1>1
    <2> QED
      BY <2>1, ReputationAssumption, Division
  <1>6. Potential = AtMost(low + ImproveMinimal * (g + q))
    <2>1. Potential = AtMost(score + ImproveMinimal * q)
      BY DEF Potential, Improved, AtMost
    <2> QED
      BY <2>1, <1>1, <1>2, <1>3, GainsAdd
  <1>7. RecoversInTime <=>
            /\ Potential >= AtMost(low + ImproveMinimal * r)
            /\ Potential <= AtMost(low + ImproveMinimal * t)
    BY DEF RecoversInTime
  <1> HIDE DEF q, r, t
  <1> DEFINE pg == ImproveInterval * g
             pq == ImproveInterval * q
             pr == ImproveInterval * r
             pt == ImproveInterval * t
  <1>8. pg \in Nat /\ pq \in Nat /\ pr \in Nat /\ pt \in Nat
    BY <1>3, <1>4, <1>5, MulNat, ReputationAssumption
  <1>9. ImproveInterval * (g + q) = pg + pq
    BY <1>3, Distributes, ReputationAssumption
  <1>10. (2 * ImproveInterval) * r = 2 * pr
    BY <1>4, ReputationAssumption
  <1>11. r <= g + q
    <2> SUFFICES ASSUME r >= (g + q) + 1 PROVE FALSE
      BY <1>3, <1>4
    <2>1. ImproveInterval * ((g + q) + 1) <= ImproveInterval * r
      BY <1>3, <1>4, MulMonotone, ReputationAssumption
    <2>2. ImproveInterval * ((g + q) + 1) = ImproveInterval * (g + q) + ImproveInterval * 1
      BY <1>3, Distributes, ReputationAssumption
    <2>3. pg + pq + ImproveInterval <= pr
      BY <2>1, <2>2, <1>9, ReputationAssumption
    <2>4. 2 * pr <= quiet /\ quiet <= 2 * pg + since /\ since < pq + ImproveInterval
      BY <1>2, <1>3, <1>4, <1>10 DEF Account
    <2> HIDE DEF pg, pq, pr
    <2> QED
      BY <2>3, <2>4, <1>1, <1>8, ReputationAssumption
  <1>12. g + q <= t
    <2> SUFFICES ASSUME g + q >= t + 1 PROVE FALSE
      BY <1>3, <1>5
    <2>1. ImproveInterval * (t + 1) <= ImproveInterval * (g + q)
      BY <1>3, <1>5, MulMonotone, ReputationAssumption
    <2>2. ImproveInterval * (t + 1) = pt + ImproveInterval * 1
      BY <1>5, Distributes, ReputationAssumption
    <2>3. pt + ImproveInterval <= pg + pq
      BY <2>1, <2>2, <1>9, ReputationAssumption
    <2>4. pg + since <= quiet + banked /\ pq <= since /\ quiet + banked < pt + ImproveInterval
      BY <1>2, <1>3, <1>5 DEF Account
    <2> HIDE DEF pg, pq, pt
    <2> QED
      BY <2>3, <2>4, <1>1, <1>8, ReputationAssumption
  <1> QED
    BY <1>1, <1>3, <1>4, <1>5, <1>6, <1>7, <1>11, <1>12 DEF AtMost, ImproveMinimal, Minimum, Maximum

-----------------------------------------------------------------------------
\* The inductive invariant of a reputation.
THEOREM ScoreInductive == ReputationSpec => []ScoreInv
  BY ScoreInit, ScoreStep, PTL DEF ReputationSpec

\* A score never leaves its limits: 16 bits are enough to add to it before it is
\* clamped (UpdateReputation).
THEOREM Bounded == ReputationSpec => []ScoreIsBounded
  <1>1. ScoreInv => ScoreIsBounded
    BY DEF ScoreInv
  <1> QED
    BY <1>1, ScoreInductive, PTL

\* A flood of attempts gets two more through than the maximum in one interval,
\* whatever the intervals and the maximum.
THEOREM Refused == ReputationSpec => []FloodIsRefused
  <1>1. ScoreInv => FloodIsRefused
    BY DEF ScoreInv
  <1> QED
    BY <1>1, ScoreInductive, PTL

\* An address that is left alone recovers in time, neither too fast nor at less than half
\* the pace, whatever the interval: with the two above, the reputation is fair.
THEOREM ReputationFair == ReputationSpec => []ReputationIsFair
  <1>1. ReputationInv /\ [ReputationNext]_reputationVars => ReputationInv'
    BY RecoveredStep, ScoreStep DEF ReputationInv
  <1>2. ReputationInit => ReputationInv
    BY RecoveredInitially, ScoreInit DEF ReputationInv
  <1>3. ReputationInv => ReputationIsFair
    BY RecoveredSuffices DEF ReputationInv, ScoreInv, ReputationIsFair
  <1> QED
    BY <1>1, <1>2, <1>3, PTL DEF ReputationSpec

-----------------------------------------------------------------------------
(* The lock on every peer: who has claimed is known, who shares is counted. *)

Sharers == {t \in Threads : whereIs[t] = "shared"}

\* Exactly the thread that has claimed or entered is the exclusive thread.
ClaimIsKnown ==
    /\ exclusiveCount = 0 <=> exclusiveThread = NoThread
    /\ \A t \in Threads : whereIs[t] \in {"claimed", "exclusive"} <=> exclusiveThread = t

SharersAreCounted ==
    /\ IsFiniteSet(Sharers)
    /\ sharedCount = Cardinality(Sharers)

InsideIsAlone == \A t \in Threads : whereIs[t] = "exclusive" => sharedCount = 0

MutexInv == MutexTypeOK /\ ClaimIsKnown /\ SharersAreCounted /\ InsideIsAlone

\* A new mutex has neither claims nor shares.
LEMMA MutexBegins == MutexInit => MutexInv
  <1> SUFFICES ASSUME MutexInit PROVE MutexInv
    OBVIOUS
  <1>1. Sharers = {}
    BY DEF MutexInit, Sharers
  <1>2. SharersAreCounted
    BY <1>1, FS_EmptySet DEF SharersAreCounted, MutexInit
  <1>3. MutexTypeOK
    BY MutexAssumption DEF MutexInit, MutexTypeOK, Places, Notices
  <1>4. ClaimIsKnown /\ InsideIsAlone
    BY MutexAssumption DEF MutexInit, ClaimIsKnown, InsideIsAlone
  <1> QED
    BY <1>2, <1>3, <1>4 DEF MutexInv

\* The count says whether anybody shares.
LEMMA CountOfSharers ==
    ASSUME MutexInv
    PROVE  sharedCount = 0 <=> \A t \in Threads : whereIs[t] # "shared"
  <1>1. sharedCount = 0 <=> Sharers = {}
    BY FS_EmptySet DEF MutexInv, SharersAreCounted
  <1> QED
    BY <1>1 DEF Sharers

\* The invariant excludes whoever does not hold the lock.
LEMMA InvariantExcludes == MutexInv => Exclusion
  <1> SUFFICES ASSUME MutexInv,
                      NEW t \in Threads, NEW u \in Threads, whereIs[t] = "exclusive", u # t
               PROVE  whereIs[u] \notin {"exclusive", "shared"}
    BY DEF Exclusion
  <1>1. whereIs[u] # "shared"
    BY CountOfSharers DEF MutexInv, InsideIsAlone
  <1>2. whereIs[u] # "exclusive"
    BY DEF MutexInv, ClaimIsKnown
  <1> QED
    BY <1>1, <1>2

\* Where nobody begins or ceases to share, the count stays right.
LEMMA SharersStay ==
    ASSUME MutexInv, UNCHANGED sharedCount,
           \A t \in Threads : whereIs'[t] = "shared" <=> whereIs[t] = "shared"
    PROVE  SharersAreCounted'
  <1>1. Sharers' = Sharers
    BY DEF Sharers
  <1> QED
    BY <1>1 DEF MutexInv, SharersAreCounted

-----------------------------------------------------------------------------

\* A thread begins to share while nobody has claimed.
LEMMA SharePreserves ==
    ASSUME MutexInv, NEW t \in Threads,
           whereIs[t] \in {"idle", "waitsToShare"}, MayShare,
           Goes(t, "shared"), sharedCount' = sharedCount + 1,
           UNCHANGED <<exclusiveThread, exclusiveCount, asleep, notify>>
    PROVE  MutexInv'
  <1>1. Sharers' = Sharers \cup {t} /\ t \notin Sharers
    BY DEF Sharers, Goes, MutexInv, MutexTypeOK
  <1>2. SharersAreCounted'
    BY <1>1, FS_AddElement DEF MutexInv, SharersAreCounted
  <1>3. MutexTypeOK'
    <2>1. sharedCount' \in 0 .. MaxNumLocks
      BY MutexAssumption DEF MutexInv, MutexTypeOK, MayShare, MutexAssumption
    <2>2. whereIs' \in [Threads -> Places]
      BY DEF MutexInv, MutexTypeOK, Goes, Places
    <2> QED
      BY <2>1, <2>2 DEF MutexInv, MutexTypeOK
  <1>4. ClaimIsKnown'
    BY DEF MutexInv, MutexTypeOK, ClaimIsKnown, Goes
  <1>5. \A u \in Threads : whereIs[u] # "exclusive"
    BY MutexAssumption DEF MutexInv, ClaimIsKnown, MayShare
  <1>6. InsideIsAlone'
    BY <1>5 DEF MutexInv, MutexTypeOK, InsideIsAlone, Goes
  <1> QED
    BY <1>2, <1>3, <1>4, <1>6 DEF MutexInv

\* A thread ceases to share.
LEMMA UnsharePreserves ==
    ASSUME MutexInv, NEW t \in Threads, UnlockShared(t)
    PROVE  MutexInv'
  <1>1. Sharers' = Sharers \ {t} /\ t \in Sharers
    BY DEF Sharers, UnlockShared, Goes, MutexInv, MutexTypeOK
  <1>2. IsFiniteSet(Sharers) /\ Cardinality(Sharers) \in Nat
    BY FS_CardinalityType DEF MutexInv, SharersAreCounted
  <1>3. IsFiniteSet(Sharers') /\ Cardinality(Sharers') = Cardinality(Sharers) - 1
    BY <1>1, <1>2, FS_RemoveElement
  <1>4. SharersAreCounted'
    BY <1>3 DEF MutexInv, SharersAreCounted, UnlockShared
  <1>5. sharedCount # 0
    BY <1>1, CountOfSharers DEF Sharers
  <1>6. sharedCount' \in 0 .. MaxNumLocks
    BY <1>5, MutexAssumption DEF MutexInv, MutexTypeOK, UnlockShared
  <1>7. MutexTypeOK'
    <2>1. whereIs' \in [Threads -> Places]
      BY DEF MutexInv, MutexTypeOK, UnlockShared, Goes, Places
    <2>2. NoticeOfShared \in Notices
      BY DEF NoticeOfShared, Notices
    <2>3. notify' \in [Threads -> Notices]
      BY <2>2 DEF MutexInv, MutexTypeOK, UnlockShared
    <2> QED
      BY <1>6, <2>1, <2>3 DEF MutexInv, MutexTypeOK, UnlockShared
  <1>8. ClaimIsKnown'
    BY DEF MutexInv, MutexTypeOK, ClaimIsKnown, UnlockShared, Goes
  <1>9. InsideIsAlone'
    BY <1>5 DEF MutexInv, MutexTypeOK, InsideIsAlone, UnlockShared, Goes
  <1> QED
    BY <1>4, <1>7, <1>8, <1>9 DEF MutexInv

\* A thread claims, and enters if nobody shares.
LEMMA ClaimPreserves ==
    ASSUME MutexInv, NEW t \in Threads,
           whereIs[t] \in {"idle", "waitsToClaim"}, exclusiveCount = 0,
           Claim(t), UNCHANGED <<sharedCount, notify>>
    PROVE  MutexInv'
  <1>1. PICK place \in {"claimed", "exclusive"} :
            Goes(t, place) /\ (place = "exclusive" => sharedCount = 0)
    BY DEF Claim
  <1>2. \A u \in Threads : whereIs'[u] = "shared" <=> whereIs[u] = "shared"
    BY <1>1 DEF MutexInv, MutexTypeOK, Goes
  <1>3. SharersAreCounted'
    BY <1>2, SharersStay
  <1>4. MutexTypeOK'
    <2>1. exclusiveThread' \in Threads /\ exclusiveCount' \in 0 .. MaxNumLocks
      BY MutexAssumption DEF Claim
    <2>2. whereIs' \in [Threads -> Places]
      BY <1>1 DEF MutexInv, MutexTypeOK, Goes, Places
    <2>3. asleep' \in SUBSET Threads
      BY DEF MutexInv, MutexTypeOK, Claim
    <2> QED
      BY <2>1, <2>2, <2>3 DEF MutexInv, MutexTypeOK
  <1>5. \A u \in Threads : whereIs[u] \notin {"claimed", "exclusive"}
    BY MutexAssumption DEF MutexInv, ClaimIsKnown
  <1>6. ClaimIsKnown'
    BY <1>1, <1>5, MutexAssumption DEF MutexInv, MutexTypeOK, ClaimIsKnown, Claim, Goes
  <1>7. InsideIsAlone'
    BY <1>1, <1>5 DEF MutexInv, MutexTypeOK, InsideIsAlone, Goes
  <1> QED
    BY <1>3, <1>4, <1>6, <1>7 DEF MutexInv

\* The exclusive lock is given back, once or for good.
LEMMA UnlockPreserves ==
    ASSUME MutexInv, NEW t \in Threads, Unlock(t)
    PROVE  MutexInv'
  <1>1. \A u \in Threads : whereIs'[u] = "shared" <=> whereIs[u] = "shared"
    BY DEF MutexInv, MutexTypeOK, Unlock, Goes
  <1>2. SharersAreCounted'
    BY <1>1, SharersStay DEF Unlock
  <1>3. exclusiveThread = t /\ exclusiveCount # 0
    BY MutexAssumption DEF MutexInv, ClaimIsKnown, Unlock
  <1>4. MutexTypeOK'
    <2>1. exclusiveCount' \in 0 .. MaxNumLocks
      BY <1>3, MutexAssumption DEF MutexInv, MutexTypeOK, Unlock
    <2>2. whereIs' \in [Threads -> Places]
      BY DEF MutexInv, MutexTypeOK, Unlock, Goes, Places
    <2>3. notify' \in [Threads -> Notices]
      BY DEF MutexInv, MutexTypeOK, Unlock, Notices
    <2>4. exclusiveThread' \in Threads \cup {NoThread}
      BY DEF MutexInv, MutexTypeOK, Unlock
    <2> QED
      BY <2>1, <2>2, <2>3, <2>4 DEF MutexInv, MutexTypeOK, Unlock
  <1>5. ClaimIsKnown'
    BY <1>3, MutexAssumption DEF MutexInv, MutexTypeOK, ClaimIsKnown, Unlock, Goes
  <1>6. InsideIsAlone'
    BY DEF MutexInv, MutexTypeOK, InsideIsAlone, Unlock, Goes
  <1> QED
    BY <1>2, <1>4, <1>5, <1>6 DEF MutexInv

\* A thread only waits, wakes or is told.
LEMMA WaitPreserves ==
    ASSUME MutexInv, NEW t \in Threads, NEW place \in Places \ {"claimed", "exclusive", "shared"},
           whereIs[t] \notin {"claimed", "exclusive", "shared"}, Goes(t, place),
           asleep' \in SUBSET Threads, notify' \in [Threads -> Notices],
           UNCHANGED <<exclusiveThread, exclusiveCount, sharedCount>>
    PROVE  MutexInv'
  <1>1. \A u \in Threads : whereIs'[u] \in {"claimed", "exclusive", "shared"} => whereIs'[u] = whereIs[u]
    BY DEF MutexInv, MutexTypeOK, Goes
  <1>2. \A u \in Threads : whereIs[u] \in {"claimed", "exclusive", "shared"} => whereIs'[u] = whereIs[u]
    BY DEF MutexInv, MutexTypeOK, Goes
  <1>3. SharersAreCounted'
    BY <1>1, <1>2, SharersStay
  <1>4. MutexTypeOK' /\ ClaimIsKnown' /\ InsideIsAlone'
    BY <1>1, <1>2 DEF MutexInv, MutexTypeOK, ClaimIsKnown, InsideIsAlone, Goes
  <1> QED
    BY <1>3, <1>4 DEF MutexInv

\* Nothing changes but who sleeps and what is to be notified.
LEMMA RestPreserves ==
    ASSUME MutexInv, asleep' \in SUBSET Threads, notify' \in [Threads -> Notices],
           UNCHANGED <<exclusiveThread, exclusiveCount, sharedCount, whereIs>>
    PROVE  MutexInv'
  <1>1. SharersAreCounted'
    BY SharersStay
  <1> QED
    BY <1>1 DEF MutexInv, MutexTypeOK, ClaimIsKnown, InsideIsAlone

\* Asking for a lock keeps the invariant.
LEMMA AcquirePreserves ==
    ASSUME MutexInv, NEW t \in Threads, Acquire(t)
    PROVE  MutexInv'
  <1>1. CASE Lock(t) /\ exclusiveCount = 0
    BY <1>1, ClaimPreserves DEF Lock, Request
  <1>2. CASE Lock(t) /\ exclusiveCount # 0
    <2>1. "waitsToClaim" \in Places \ {"claimed", "exclusive", "shared"}
      BY DEF Places
    <2>2. whereIs[t] \notin {"claimed", "exclusive", "shared"} /\ Goes(t, "waitsToClaim")
      BY <1>2 DEF Lock, Request
    <2>3. asleep' \in SUBSET Threads /\ notify' \in [Threads -> Notices]
      BY <1>2 DEF Lock, MutexInv, MutexTypeOK
    <2>4. UNCHANGED <<exclusiveThread, exclusiveCount, sharedCount>>
      BY <1>2 DEF Lock
    <2> QED
      BY <2>1, <2>2, <2>3, <2>4, WaitPreserves
  <1>3. CASE TryLock(t)
    <2>1. Claim(t)
      BY <1>3 DEF TryLock, Claim
    <2> QED
      BY <2>1, <1>3, ClaimPreserves DEF TryLock, Request
  <1>4. CASE LockAgain(t)
    <2>1. exclusiveCount' \in 0 .. MaxNumLocks /\ exclusiveCount' # 0 /\ exclusiveCount # 0
      BY <1>4, MutexAssumption DEF LockAgain, MutexInv, MutexTypeOK, ClaimIsKnown
    <2>2. SharersAreCounted'
      BY <1>4, SharersStay DEF LockAgain
    <2> QED
      BY <2>1, <2>2, <1>4 DEF LockAgain, MutexInv, MutexTypeOK, ClaimIsKnown, InsideIsAlone
  <1>5. CASE LockShared(t) /\ MayShare
    BY <1>5, SharePreserves DEF LockShared, Request
  <1>6. CASE LockShared(t) /\ ~MayShare
    <2>1. "waitsToShare" \in Places \ {"claimed", "exclusive", "shared"}
      BY DEF Places
    <2>2. whereIs[t] \notin {"claimed", "exclusive", "shared"} /\ Goes(t, "waitsToShare")
      BY <1>6 DEF LockShared, Request
    <2>3. asleep' \in SUBSET Threads /\ notify' \in [Threads -> Notices]
      BY <1>6 DEF LockShared, MutexInv, MutexTypeOK
    <2>4. UNCHANGED <<exclusiveThread, exclusiveCount, sharedCount>>
      BY <1>6 DEF LockShared
    <2> QED
      BY <2>1, <2>2, <2>3, <2>4, WaitPreserves
  <1>7. CASE TryLockShared(t)
    BY <1>7, SharePreserves DEF TryLockShared, Request
  <1> QED
    BY <1>1, <1>2, <1>3, <1>4, <1>5, <1>6, <1>7 DEF Acquire

\* Waiting, waking and notifying keep the invariant.
LEMMA ProceedPreserves ==
    ASSUME MutexInv, NEW t \in Threads, Proceed(t)
    PROVE  MutexInv'
  <1>1. CASE ClaimAfterWait(t)
    BY <1>1, ClaimPreserves DEF ClaimAfterWait
  <1>2. CASE EnterAfterWait(t)
    <2>1. \A u \in Threads : whereIs'[u] = "shared" <=> whereIs[u] = "shared"
      BY <1>2 DEF EnterAfterWait, Goes, MutexInv, MutexTypeOK
    <2>2. SharersAreCounted'
      BY <1>2, <2>1, SharersStay DEF EnterAfterWait
    <2>3. MutexTypeOK' /\ ClaimIsKnown' /\ InsideIsAlone'
      BY <1>2 DEF EnterAfterWait, Goes, MutexInv, MutexTypeOK, ClaimIsKnown, InsideIsAlone, Places
    <2> QED
      BY <2>2, <2>3 DEF MutexInv
  <1>3. CASE ShareAfterWait(t)
    BY <1>3, SharePreserves DEF ShareAfterWait
  <1>4. CASE SleepAgain(t)
    BY <1>4, RestPreserves DEF SleepAgain, MutexInv, MutexTypeOK
  <1>5. CASE Notify(t)
    <2>1. asleep' \in SUBSET Threads
      BY <1>5 DEF Notify, Wakes, MutexInv, MutexTypeOK
    <2>2. notify' \in [Threads -> Notices]
      BY <1>5 DEF Notify, MutexInv, MutexTypeOK, Notices
    <2> QED
      BY <1>5, <2>1, <2>2, RestPreserves DEF Notify
  <1> QED
    BY <1>1, <1>2, <1>3, <1>4, <1>5 DEF Proceed

\* Every step keeps the invariant.
LEMMA MutexStep == MutexInv /\ [MutexNext]_mutexVars => MutexInv'
  <1> SUFFICES ASSUME MutexInv, [MutexNext]_mutexVars PROVE MutexInv'
    OBVIOUS
  <1>1. ASSUME NEW t \in Threads, Acquire(t) \/ Proceed(t) \/ Release(t) PROVE MutexInv'
    BY <1>1, AcquirePreserves, ProceedPreserves, UnlockPreserves, UnsharePreserves DEF Release
  <1>2. CASE UNCHANGED mutexVars
    BY <1>2, RestPreserves DEF mutexVars, MutexInv, MutexTypeOK
  <1> QED
    BY <1>1, <1>2 DEF MutexNext

\* The inductive invariant: who has claimed is known, and who shares is counted.
THEOREM MutexInductive == MutexSpec => []MutexInv
  BY MutexBegins, MutexStep, PTL DEF MutexSpec

\* The counts stay within MaxNumLocks and no thread is in a place of its own.
THEOREM MutexTypeCorrect == MutexSpec => []MutexTypeOK
  <1>1. MutexInv => MutexTypeOK
    BY DEF MutexInv
  <1> QED
    BY <1>1, MutexInductive, PTL

\* RecursiveSharedMutex.cpp lets nobody in beside an exclusive holder, whatever
\* the number of threads and of locks.
THEOREM Excludes == MutexSpec => []Exclusion
  BY InvariantExcludes, MutexInductive, PTL

-----------------------------------------------------------------------------
(* The listeners, for every set of addresses, ports and remotes.             *)

\* Failures hit finitely many keys, so that none of them is counted only when there is none.
LEMMA FailuresAreFinite ==
    ASSUME NEW keys \in SUBSET Keys, NEW f \in Failures(keys)
    PROVE  /\ f.keys \subseteq keys
           /\ Cardinality(f.keys) \in Nat
           /\ Cardinality(f.keys) = 0 <=> f.keys = {}
           /\ \A how : Hit(f, how) \subseteq f.keys
<1>1. f.keys \subseteq keys
  BY DEF Failures
<1>2. IsFiniteSet(Keys)
  BY FS_Product, ListenersAssumption DEF Keys
<1>3. IsFiniteSet(f.keys)
  BY <1>1, <1>2, FS_Subset
<1>4. Cardinality(f.keys) \in Nat /\ (Cardinality(f.keys) = 0 <=> f.keys = {})
  BY <1>3, FS_CardinalityType, FS_EmptySet
<1>5. \A how : Hit(f, how) \subseteq f.keys
  BY DEF Hit
<1> QED BY <1>1, <1>4, <1>5

LEMMA RemainingAreFinite ==
    ASSUME ListenersTypeOK, NEW removed \in SUBSET threads, NEW s \in Remaining(removed)
    PROVE  /\ s \subseteq {Key(t) : t \in removed}
           /\ Cardinality(s) \in Nat
           /\ Cardinality(s) = 0 <=> s = {}
<1>1. s \subseteq {Key(t) : t \in removed}
  BY DEF Remaining
<1>2. s \subseteq Keys
  BY <1>1 DEF Keys, Key, ListenersTypeOK
<1>3. IsFiniteSet(s)
  BY <1>2, FS_Product, FS_Subset, ListenersAssumption DEF Keys
<1> QED BY <1>1, <1>3, FS_CardinalityType, FS_EmptySet

LEMMA StartsAreCounted ==
    ASSUME NEW u \in [faults : Nat, changes : Nat, arrivals : Nat, starts : Nat], NEW n \in Nat
    PROVE  /\ [u EXCEPT !.faults = @ + n, !.starts = @ + 1]
                \in [faults : Nat, changes : Nat, arrivals : Nat, starts : Nat]
           /\ [u EXCEPT !.faults = @ + n, !.starts = @ + 1].faults = u.faults + n
<1> DEFINE v == [u EXCEPT !.faults = @ + n]
<1>1. v \in [faults : Nat, changes : Nat, arrivals : Nat, starts : Nat] /\ v.faults = u.faults + n
  OBVIOUS
<1>2. [u EXCEPT !.faults = @ + n, !.starts = @ + 1] = [v EXCEPT !.starts = @ + 1]
  OBVIOUS
<1> HIDE DEF v
<1>3. /\ [v EXCEPT !.starts = @ + 1] \in [faults : Nat, changes : Nat, arrivals : Nat, starts : Nat]
      /\ [v EXCEPT !.starts = @ + 1].faults = v.faults
  BY <1>1
<1> QED BY <1>1, <1>2, <1>3

\* Types: the threads of a listener manager are for addresses and ports that there are
\* (the keys of m_ListenerThreadPool in Core/TCP/TCPListenerManager.cpp and the others).
THEOREM ListenersTypeCorrect == ListenersSpec => []ListenersTypeOK
<1> USE DEF Keys, Key
<1>1. ListenersInit => ListenersTypeOK
  <2> SUFFICES ASSUME ListenersInit PROVE ListenersTypeOK
    OBVIOUS
  <2>1. used \in [faults : Nat, changes : Nat, arrivals : Nat, starts : Nat]
    BY DEF ListenersInit
  <2>2. conditional \in BOOLEAN
    BY DEF ListenersInit
  <2> QED BY <2>1, <2>2 DEF ListenersInit, ListenersTypeOK
<1>2. ASSUME ListenersTypeOK, [ListenersNext]_listenersVars PROVE ListenersTypeOK'
  <2> USE <1>2 DEF ListenersTypeOK
  <2> DEFINE Thr == [address : Addresses, port : Ports, started : BOOLEAN, sound : BOOLEAN]
  <2>threads. ASSUME NEW k \in Keys, NEW b \in BOOLEAN PROVE Thread(k, b) \in Thr
    BY DEF Thread
  <2>add. ASSUME NEW keys \in SUBSET Keys, NEW f PROVE AddListenerThreads(keys, f) \subseteq Thr
    BY <2>threads DEF AddListenerThreads
  <2>bth. ASSUME NEW keys \in SUBSET Keys, NEW f PROVE AddBTHListenerThreads(keys, f) \subseteq Thr
    BY <2>add DEF AddBTHListenerThreads
  <2>keep. RemoveListenerThreads \subseteq Thr
    BY DEF RemoveListenerThreads
  <2>op. Operational \subseteq Keys /\ Unheard \subseteq Keys
    BY DEF Operational, Unheard
  <2>fail. ASSUME NEW keys \in SUBSET Keys, NEW f \in Failures(keys)
           PROVE  /\ f.keys \subseteq keys /\ {k[1] : k \in f.keys} \subseteq Addresses
                  /\ Cardinality(f.keys) \in Nat
    BY FailuresAreFinite DEF Failures
  <2>starts. ASSUME NEW f PROVE ThreadPoolStarts(f) \in BOOLEAN
    BY DEF ThreadPoolStarts
  <2>startup. ASSUME NEW f \in Failures(Operational), Startup(f), threads' \subseteq Thr,
                     services' \subseteq Keys, discoverable' \subseteq {"manager", "system"}
              PROVE  ListenersTypeOK'
    <3>1. used' \in [faults : Nat, changes : Nat, arrivals : Nat, starts : Nat]
      BY <2>startup, <2>fail, <2>op, StartsAreCounted DEF Startup
    <3>2. running' \in BOOLEAN /\ damaged' \subseteq Addresses
      BY <2>startup, <2>fail, <2>op, <2>starts DEF Startup
    <3> QED BY <2>startup, <3>1, <3>2 DEF Startup, network, traffic
  <2>traffic. ASSUME KeepTraffic
              PROVE  /\ {backlog', replies'} \subseteq SUBSET (Addresses \X Ports \X Remotes)
                     /\ allowed' \subseteq Remotes
                     /\ asked' = asked /\ accepted' = accepted
    BY <2>traffic DEF KeepTraffic
  <2>update. ASSUME NEW f \in Failures(Unheard), NEW n \in Nat, Update(f, n), threads' \subseteq Thr,
                    services' \subseteq Keys
             PROVE  ListenersTypeOK'
    <3>1. damaged' \subseteq Addresses
      BY <2>update, <2>fail, <2>op DEF Update
    <3> QED BY <2>update, <3>1, <2>traffic DEF Update, network
  <2>1. CASE StartupTCP
    BY <2>1, <2>startup, <2>add, <2>op DEF StartupTCP
  <2>2. CASE StartupUDP
    <3>1. CASE \E f \in Failures(Operational) :
                  threads' = AddListenerThreads(Operational, f) /\ Startup(f)
      BY <2>2, <3>1, <2>startup, <2>add, <2>op DEF StartupUDP
    <3>2. CASE ~ \E f \in Failures(Operational) :
                  threads' = AddListenerThreads(Operational, f) /\ Startup(f)
      <4>1. used' = [used EXCEPT !.faults = @ + 1, !.starts = @ + 1]
        BY <2>2, <3>2 DEF StartupUDP
      <4>2. used' \in [faults : Nat, changes : Nat, arrivals : Nat, starts : Nat]
        BY <4>1, StartsAreCounted
      <4>3. threads' = {Thread(k, FALSE) : k \in Operational}
        BY <2>2, <3>2 DEF StartupUDP
      <4>4. threads' \subseteq Thr
        BY <2>threads, <2>op, <4>3
      <4> QED BY <2>2, <3>2, <4>2, <4>4 DEF StartupUDP, network, traffic
    <3> QED BY <3>1, <3>2
  <2>3. CASE StartupBTH
    <3> PICK f \in Failures(Operational) :
            /\ threads' = AddBTHListenerThreads(Operational, f)
            /\ services' = services \cup AddServices(Operational, f)
            /\ Startup(f)
      BY <2>3 DEF StartupBTH
    <3>1. discoverable' \subseteq {"manager", "system"}
      BY <2>3 DEF StartupBTH
    <3>2. services' \subseteq Keys
      BY <2>op DEF AddServices
    <3> QED BY <3>1, <3>2, <2>startup, <2>bth, <2>op
  <2>4. CASE UpdateTCP
    BY <2>4, <2>fail, <2>update, <2>add, <2>op, <2>keep DEF UpdateTCP
  <2>5. CASE UpdateUDP
    BY <2>5, <2>fail, <2>update, <2>add, <2>op, <2>keep DEF UpdateUDP
  <2>6. CASE UpdateBTH
    <3> PICK f \in Failures(Unheard), s \in Remaining(threads \ RemoveListenerThreads) :
            /\ threads' = RemoveListenerThreads \cup AddBTHListenerThreads(Unheard, f)
            /\ services' = DeleteServices(threads \ RemoveListenerThreads, s)
                              \cup AddServices(Unheard, f)
            /\ Update(f, Cardinality(f.keys) + Cardinality(s))
      BY <2>6 DEF UpdateBTH
    <3>1. Cardinality(f.keys) + Cardinality(s) \in Nat
      BY <2>fail, <2>op, RemainingAreFinite
    <3>2. services' \subseteq Keys
      BY <2>op DEF DeleteServices, AddServices
    <3> QED BY <3>1, <3>2, <2>update, <2>bth, <2>op, <2>keep
  <2>7. CASE ShutdownTCP \/ ShutdownUDP
    BY <2>7, <2>traffic DEF ShutdownTCP, ShutdownUDP, Shutdown, network
  <2>8. CASE ShutdownBTH
    <3> PICK s \in Remaining(threads), n \in {0, 1} :
            /\ DisableDiscovery(n)
            /\ services' = DeleteServices(threads, s)
            /\ used' = [used EXCEPT !.faults = @ + (Cardinality(s) + n)]
      BY <2>8 DEF ShutdownBTH
    <3>1. Cardinality(s) + n \in Nat
      BY RemainingAreFinite
    <3>2. used' \in [faults : Nat, changes : Nat, arrivals : Nat, starts : Nat]
      BY <3>1
    <3>3. services' \subseteq Keys
      BY DEF DeleteServices
    <3>4. discoverable' \subseteq {"manager", "system"}
      BY DEF DisableDiscovery
    <3> QED BY <2>8, <3>2, <3>3, <3>4, <2>traffic DEF ShutdownBTH, Shutdown, network
  <2>9. ASSUME NEW t \in threads, WorkerThreadProcessor(t) PROVE ListenersTypeOK'
    <3> DEFINE Question ==
                 [address : Addresses, port : Ports, remote : Remotes, current : BOOLEAN]
               Peer == [connected : BOOLEAN, permitted : BOOLEAN, current : BOOLEAN]
    <3>0. ASSUME NEW c \in Waiting(t)
          PROVE  /\ c \in Addresses \X Ports \X Remotes
                 /\ c[1] \in Addresses /\ c[2] \in Ports /\ c[3] \in Remotes
      BY DEF Waiting
    <3>1. ASSUME NEW c \in Waiting(t), AskFirst(c)
          PROVE  asked' \subseteq Question /\ accepted' = accepted
      <4>1. PICK q : q = [address |-> c[1], port |-> c[2], remote |-> c[3], current |-> TRUE]
        OBVIOUS
      <4>2. q \in Question
        BY <3>0, <4>1
      <4>3. asked' \subseteq asked \cup {q} /\ accepted' = accepted
        BY <3>1, <4>1 DEF AskFirst
      <4> QED BY <4>2, <4>3
    <3>2. ASSUME NEW c \in Waiting(t), GiveUnconnected(c)
          PROVE  accepted' \subseteq Peer /\ asked' = asked
      <4>1. PICK p : p = [connected |-> FALSE, permitted |-> c[3] \in allowed, current |-> TRUE]
        OBVIOUS
      <4>2. p \in Peer
        BY <4>1
      <4>3. accepted' = accepted \cup {p} /\ asked' = asked
        BY <3>2, <4>1 DEF GiveUnconnected
      <4> QED BY <4>2, <4>3
    <3>3. ASSUME asked' \subseteq Question, accepted' \subseteq Peer,
                 {backlog', replies'} \subseteq SUBSET (Addresses \X Ports \X Remotes)
          PROVE  ListenersTypeOK'
      BY <2>9, <3>3 DEF WorkerThreadProcessor, network
    <3>4. CASE WorkTCP(t)
      <4>1. PICK c \in Waiting(t) : backlog' = backlog \ {c} /\ AcceptTCP(c)
        BY <3>4 DEF WorkTCP
      <4>2. asked' \subseteq Question /\ accepted' \subseteq Peer
        BY <3>1, <3>2, <4>1 DEF AcceptTCP
      <4> QED BY <3>3, <3>4, <4>1, <4>2 DEF WorkTCP
    <3>5. CASE WorkBTH(t)
      <4>1. PICK c \in Waiting(t) : backlog' = backlog \ {c} /\ AcceptBTH(c)
        BY <3>5 DEF WorkBTH
      <4>2. asked' \subseteq Question /\ accepted' \subseteq Peer
        BY <3>1, <3>2, <4>1 DEF AcceptBTH
      <4> QED BY <3>3, <3>5, <4>1, <4>2 DEF WorkBTH
    <3>6. CASE ReceiveUDP(t)
      <4>1. PICK c \in Waiting(t) :
               /\ backlog' = backlog \ {c}
               /\ \/ replies' = replies \cup {c} /\ UNCHANGED <<asked, accepted>>
                  \/ AskFirst(c) /\ UNCHANGED replies
        BY <3>6 DEF ReceiveUDP
      <4>2. asked' \subseteq Question /\ accepted' \subseteq Peer
        BY <3>1, <4>1
      <4>3. {backlog', replies'} \subseteq SUBSET (Addresses \X Ports \X Remotes)
        BY <3>0, <4>1
      <4> QED BY <3>3, <4>2, <4>3
    <3>7. CASE SendUDP(t)
      BY <3>3, <3>7 DEF SendUDP
    <3>8. CASE HandOn(t)
      <4>1. PICK a \in asked :
               /\ asked' = asked \ {a}
               /\ accepted' = accepted \cup {[connected |-> TRUE,
                                              permitted |-> a.remote \in allowed,
                                              current |-> a.current]}
               /\ replies' = IF manager = "UDP"
                             THEN replies \cup {<<a.address, a.port, a.remote>>} ELSE replies
        BY <3>8 DEF HandOn
      <4>2. PICK p : p = [connected |-> TRUE, permitted |-> a.remote \in allowed,
                          current |-> a.current]
        OBVIOUS
      <4>3. a \in Question
        OBVIOUS
      <4>4. p \in Peer
        BY <4>2, <4>3
      <4>5. accepted' \subseteq Peer
        BY <4>1, <4>2, <4>4
      <4>6. replies' \subseteq Addresses \X Ports \X Remotes
        BY <4>1, <4>3
      <4> QED BY <3>3, <3>8, <4>1, <4>5, <4>6 DEF HandOn
    <3> QED BY <2>9, <3>4, <3>5, <3>6, <3>7, <3>8 DEF WorkerThreadProcessor
  <2>change. ASSUME Change
             PROVE  used' \in [faults : Nat, changes : Nat, arrivals : Nat, starts : Nat]
    BY <2>change DEF Change
  <2>10. ASSUME NEW t \in threads, NEW r \in Remotes, Arrive(t, r) PROVE ListenersTypeOK'
    BY <2>10 DEF Arrive, network
  <2>11. ASSUME NEW a \in Addresses, InterfaceUp(a) PROVE ListenersTypeOK'
    BY <2>11, <2>change DEF InterfaceUp, traffic
  <2>12. ASSUME NEW a \in Addresses, InterfaceDown(a) PROVE ListenersTypeOK'
    <3>1. threads' \subseteq Thr
      BY <2>12 DEF InterfaceDown
    <3> QED BY <2>12, <2>change, <3>1 DEF InterfaceDown
  <2>13. ASSUME NEW r \in Remotes, AccessChanges(r) PROVE ListenersTypeOK'
    <3>1. asked' \subseteq
             [address : Addresses, port : Ports, remote : Remotes, current : BOOLEAN]
      BY <2>13 DEF AccessChanges
    <3> QED BY <2>13, <2>change, <3>1 DEF AccessChanges, network
  <2>14. CASE UNCHANGED listenersVars
    BY <2>14 DEF listenersVars
  <2> QED
    BY <2>1, <2>2, <2>3, <2>4, <2>5, <2>6, <2>7, <2>8, <2>9, <2>10, <2>11, <2>12, <2>13, <2>14
    DEF ListenersNext
<1> QED BY <1>1, <1>2, PTL DEF ListenersSpec

\* While the manager does not run, threads are left in the pool only by a failure, and only
\* a failure makes it forget that it has switched discovery on.
FailureIsCounted ==
    used.faults = 0 => /\ ~running => threads = {}
                       /\ "system" \in discoverable => "manager" \in discoverable

\* A question that was answered under the rules of now was answered with yes.
AskedAreAllowed == \A a \in asked : a.current => a.remote \in allowed

StrangersInv == StrangersStayOut /\ AskedAreAllowed
ListenersInv == ListenersFollow /\ ServicesFollow /\ StrangersInv /\ FailureIsCounted

\* Nothing else matters to the strangers.
LEMMA StrangersStay ==
    ASSUME StrangersInv, UNCHANGED <<asked, accepted, allowed>>
    PROVE  StrangersInv'
BY DEF StrangersInv, StrangersStayOut, AskedAreAllowed

LEMMA KeysOfNewThreads ==
    ASSUME NEW keys \in SUBSET Keys, NEW f
    PROVE  /\ {Key(t) : t \in AddListenerThreads(keys, f)} = keys \ Hit(f, "refused")
           /\ \A k \in keys : k \notin Hit(f, "refused") /\ k \notin Hit(f, "unstarted") =>
                \E t \in AddListenerThreads(keys, f) : Key(t) = k /\ t.started /\ t.sound
<1>1. ASSUME NEW k \in Keys, NEW b
      PROVE  Key(Thread(k, b)) = k /\ Thread(k, b).started = b /\ Thread(k, b).sound
  BY DEF Key, Thread, Keys
<1> DEFINE T == AddListenerThreads(keys, f)
<1>2. ASSUME NEW k \in keys, k \notin Hit(f, "refused")
      PROVE  \E t \in T : Key(t) = k /\ t.sound /\ (k \notin Hit(f, "unstarted") => t.started)
  <2> DEFINE t == Thread(k, k \notin Hit(f, "unstarted"))
  <2>1. t \in T
    BY <1>2 DEF AddListenerThreads
  <2>2. Key(t) = k /\ t.sound /\ t.started = (k \notin Hit(f, "unstarted"))
    BY <1>1
  <2> QED BY <2>1, <2>2
<1>3. ASSUME NEW t \in T PROVE Key(t) \in keys \ Hit(f, "refused")
  <2> PICK k \in keys \ Hit(f, "refused") : t = Thread(k, k \notin Hit(f, "unstarted"))
    BY DEF AddListenerThreads
  <2> QED BY <1>1
<1> HIDE DEF T
<1>4. {Key(t) : t \in T} = keys \ Hit(f, "refused")
  <2>1. \A k \in keys \ Hit(f, "refused") : k \in {Key(t) : t \in T}
    <3> TAKE k \in keys \ Hit(f, "refused")
    <3>1. PICK t \in T : Key(t) = k
      <4>1. k \in keys /\ k \notin Hit(f, "refused")
        OBVIOUS
      <4> QED BY <4>1, <1>2
    <3> QED BY <3>1
  <2>2. \A k \in {Key(t) : t \in T} : k \in keys \ Hit(f, "refused")
    BY <1>3
  <2> QED BY <2>1, <2>2
<1>5. \A k \in keys : k \notin Hit(f, "refused") /\ k \notin Hit(f, "unstarted") =>
          \E t \in T : Key(t) = k /\ t.started /\ t.sound
  <2> SUFFICES ASSUME NEW k \in keys, k \notin Hit(f, "refused"), k \notin Hit(f, "unstarted")
               PROVE  \E t \in T : Key(t) = k /\ t.started /\ t.sound
    OBVIOUS
  <2>1. PICK t \in T : Key(t) = k /\ t.sound /\ (k \notin Hit(f, "unstarted") => t.started)
    BY <1>2
  <2> QED BY <2>1
<1> QED BY <1>4, <1>5 DEF T

\* What is heard and registered once the threads for some keys have been added.
LEMMA StartupKeepsSound ==
    ASSUME ListenersTypeOK, ListenersInv,
           NEW f \in Failures(Operational), Startup(f),
           \/ /\ manager # "BTH"
              /\ threads' = AddListenerThreads(Operational, f)
              /\ UNCHANGED <<services, discoverable>>
           \/ /\ manager = "BTH"
              /\ threads' = AddBTHListenerThreads(Operational, f)
              /\ services' = services \cup AddServices(Operational, f)
              /\ \/ discoverable' = discoverable \ {"manager"}
                 \/ running' /\ discoverable' = {"manager", "system"}
    PROVE  ListenersInv'
<1>0. Operational \subseteq Keys /\ Operational \ Hit(f, "lost") \subseteq Keys
  BY DEF Operational, Keys, ListenersTypeOK
<1>1. /\ f.keys \subseteq Operational
      /\ Cardinality(f.keys) \in Nat
      /\ Cardinality(f.keys) = 0 <=> f.keys = {}
      /\ \A how : Hit(f, how) \subseteq f.keys
  BY <1>0, FailuresAreFinite
<1>faults. used.faults \in Nat /\ used'.faults = used.faults + Cardinality(f.keys)
  BY <1>1, StartsAreCounted DEF Startup, ListenersTypeOK
<1>2. {Key(t) : t \in threads'} \subseteq Operational
  <2>1. \A keys \in SUBSET Keys : {Key(t) : t \in AddListenerThreads(keys, f)} \subseteq keys
    BY KeysOfNewThreads
  <2>2. /\ {Key(t) : t \in AddListenerThreads(Operational, f)} \subseteq Operational
        /\ {Key(t) : t \in AddListenerThreads(Operational \ Hit(f, "lost"), f)} \subseteq Operational
    BY <1>0, <2>1
  <2> QED BY <2>2 DEF AddBTHListenerThreads
<1>3. \A k \in Operational : k \notin f.keys =>
          \E t \in threads' : Key(t) = k /\ t.started /\ t.sound
  BY <1>0, <1>1, KeysOfNewThreads DEF AddBTHListenerThreads
<1>4. ListenersFollow'
  <2>1. seen' = interfaces /\ damaged' = {k[1] : k \in f.keys}
    BY DEF Startup
  <2>2. \A t \in threads' : t.address \in seen'
    <3> TAKE t \in threads'
    <3>1. <<t.address, t.port>> \in interfaces \X Ports
      BY <1>2 DEF Key, Operational
    <3> QED BY <2>1, <3>1
  <2>3. \A k \in (seen' \ damaged') \X Ports : k \in Operational /\ k \notin f.keys
    BY <2>1 DEF Operational
  <2> QED BY <1>3, <2>2, <2>3 DEF ListenersFollow
<1>5. StrangersInv'
  BY StrangersStay DEF Startup, traffic, ListenersInv
<1>6. FailureIsCounted'
  <2>1. ~running' => \E k \in f.keys : TRUE
    BY <1>1 DEF Startup, ThreadPoolStarts
  <2>2. used'.faults = 0 => used.faults = 0 /\ f.keys = {}
    BY <1>1, <1>faults
  <2>3. "system" \in discoverable' /\ "manager" \notin discoverable' =>
            /\ "system" \in discoverable
            /\ "manager" \in discoverable => manager = "BTH"
    OBVIOUS
  <2>4. "manager" \in discoverable /\ manager = "BTH" => running
    BY DEF ListenersInv, ServicesFollow
  <2>5. ~running
    BY DEF Startup
  <2> QED BY <2>1, <2>2, <2>3, <2>4, <2>5 DEF ListenersInv, FailureIsCounted
<1>7. ServicesFollow'
  <2> SUFFICES ASSUME manager' = "BTH" PROVE ServicesFollow'
    BY DEF ServicesFollow
  <2>1. manager = "BTH"
    BY DEF Startup, network
  <2>2. {Key(t) : t \in threads'} = (Operational \ Hit(f, "lost")) \ Hit(f, "refused")
    BY <2>1, <1>0, KeysOfNewThreads DEF AddBTHListenerThreads
  <2>3. services' = services \cup (Operational \ Hit(f, "refused"))
    BY <2>1 DEF AddServices
  <2>4. used'.faults = 0 => services' = {Key(t) : t \in threads'}
    <3> SUFFICES ASSUME used'.faults = 0 PROVE services' = {Key(t) : t \in threads'}
      OBVIOUS
    <3>1. used.faults = 0 /\ f.keys = {}
      BY <1>1, <1>faults
    <3>2. threads = {}
      BY <3>1 DEF Startup, ListenersInv, FailureIsCounted
    <3>3. services = {}
      BY <3>1, <3>2, <2>1 DEF ListenersInv, ServicesFollow
    <3> QED BY <1>1, <2>2, <2>3, <3>1, <3>3
  <2>5. /\ "manager" \in discoverable' => running'
        /\ used'.faults = 0 /\ "system" \in discoverable' => running'
    <3>1. used'.faults = 0 => used.faults = 0
      BY <1>1, <1>faults
    <3>2. ~running
      BY DEF Startup
    <3> QED BY <2>1, <3>1, <3>2 DEF ListenersInv, ServicesFollow
  <2> QED BY <2>2, <2>3, <2>4, <2>5 DEF ServicesFollow
<1> QED BY <1>4, <1>5, <1>6, <1>7 DEF ListenersInv

\* The same for an update, which also removes the threads whose address is gone.
LEMMA UpdateKeepsSound ==
    ASSUME ListenersTypeOK, ListenersInv,
           NEW f \in Failures(Unheard), NEW n \in Nat, Update(f, n), n >= Cardinality(f.keys),
           NEW s,
           \/ /\ manager # "BTH"
              /\ threads' = RemoveListenerThreads \cup AddListenerThreads(Unheard, f)
              /\ UNCHANGED services
           \/ /\ manager = "BTH"
              /\ threads' = RemoveListenerThreads \cup AddBTHListenerThreads(Unheard, f)
              /\ s \in Remaining(threads \ RemoveListenerThreads)
              /\ n = Cardinality(f.keys) + Cardinality(s)
              /\ services' = DeleteServices(threads \ RemoveListenerThreads, s)
                                \cup AddServices(Unheard, f)
    PROVE  ListenersInv'
<1> DEFINE new == IF manager = "BTH" THEN AddBTHListenerThreads(Unheard, f)
                  ELSE AddListenerThreads(Unheard, f)
<1>0. Unheard \subseteq Keys /\ Unheard \ Hit(f, "lost") \subseteq Keys
  BY DEF Unheard, Keys, ListenersTypeOK
<1>1. /\ f.keys \subseteq Unheard
      /\ Cardinality(f.keys) \in Nat
      /\ Cardinality(f.keys) = 0 <=> f.keys = {}
      /\ \A how : Hit(f, how) \subseteq f.keys
  BY <1>0, FailuresAreFinite
<1>faults. used.faults \in Nat /\ used'.faults = used.faults + n
  BY DEF Update, ListenersTypeOK
<1>2. threads' = RemoveListenerThreads \cup new
  OBVIOUS
<1>3. {Key(t) : t \in new} \subseteq Unheard
  BY <1>0, KeysOfNewThreads DEF AddBTHListenerThreads
<1>4. \A k \in Unheard : k \notin f.keys => \E t \in new : Key(t) = k /\ t.started /\ t.sound
  BY <1>0, <1>1, KeysOfNewThreads DEF AddBTHListenerThreads
<1> HIDE DEF new
<1>5. ListenersFollow'
  <2>0. running /\ running' /\ seen' = interfaces
    BY DEF Update
  <2>1. \A t \in threads' : t.address \in seen'
    <3> TAKE t \in threads'
    <3>1. CASE t \in RemoveListenerThreads
      BY <2>0, <3>1 DEF RemoveListenerThreads
    <3>2. CASE t \in new
      <4>1. <<t.address, t.port>> \in Unheard
        BY <1>3, <3>2 DEF Key
      <4> QED BY <2>0, <4>1 DEF Unheard
    <3> QED BY <1>2, <3>1, <3>2
  <2>2. ASSUME NEW k \in (seen' \ damaged') \X Ports
        PROVE  \E t \in threads' : Key(t) = k /\ t.started /\ t.sound
    <3>0. k[1] \in interfaces /\ k[1] \notin damaged' /\ k = <<k[1], k[2]>> /\ k[2] \in Ports
      BY <2>0, <2>2
    <3>1. CASE k \in Unheard
      <4>1. k \notin f.keys
        BY <3>0 DEF Update
      <4> QED BY <1>2, <1>4, <3>1, <4>1
    <3>2. CASE k \notin Unheard
      <4>1. PICK u \in threads : u.address = k[1]
        BY <3>0, <3>2 DEF Unheard
      <4>2. k[1] \notin {q[1] : q \in Unheard}
        BY <4>1 DEF Unheard
      <4>3. k[1] \notin damaged
        BY <3>0, <4>2 DEF Update
      <4>4. k[1] \in seen
        BY <2>0, <4>1 DEF ListenersInv, ListenersFollow
      <4>5. PICK t \in threads : Key(t) = k /\ t.started /\ t.sound
        BY <2>0, <3>0, <4>3, <4>4 DEF ListenersInv, ListenersFollow
      <4>6. t \in RemoveListenerThreads
        BY <3>0, <4>5 DEF RemoveListenerThreads, Key
      <4> QED BY <1>2, <4>5, <4>6
    <3> QED BY <3>1, <3>2
  <2> QED BY <2>1, <2>2 DEF ListenersFollow
<1>6. StrangersInv'
  BY StrangersStay DEF Update, KeepTraffic, ListenersInv
<1>7. FailureIsCounted'
  <2>1. used'.faults = 0 => used.faults = 0
    BY <1>faults
  <2> QED BY <2>1 DEF Update, ListenersInv, FailureIsCounted
<1>8. ServicesFollow'
  <2> SUFFICES ASSUME manager' = "BTH" PROVE ServicesFollow'
    BY DEF ServicesFollow
  <2>1. manager = "BTH" /\ running /\ running'
    BY DEF Update, network
  <2> DEFINE gone == threads \ RemoveListenerThreads
             kept == {Key(t) : t \in RemoveListenerThreads}
  <2>2. {Key(t) : t \in new} = (Unheard \ Hit(f, "lost")) \ Hit(f, "refused")
    BY <2>1, <1>0, KeysOfNewThreads DEF AddBTHListenerThreads, new
  <2>3. services' = (services \ ({Key(t) : t \in gone} \ s)) \cup (Unheard \ Hit(f, "refused"))
    BY <2>1 DEF AddServices, DeleteServices
  <2>4. \A k \in kept : k \notin {Key(t) : t \in gone}
    BY DEF RemoveListenerThreads, Key
  <2>5. {Key(t) : t \in threads} = kept \cup {Key(t) : t \in gone}
    BY DEF RemoveListenerThreads
  <2>6. {Key(t) : t \in threads'} = kept \cup {Key(t) : t \in new}
    BY <1>2
  <2>7. {Key(t) : t \in threads} \subseteq services
    BY <2>1 DEF ListenersInv, ServicesFollow
  <2> HIDE DEF kept
  <2>8. {Key(t) : t \in threads'} \subseteq services'
    BY <2>2, <2>3, <2>4, <2>5, <2>6, <2>7
  <2>9. used'.faults = 0 => services' = {Key(t) : t \in threads'}
    <3> SUFFICES ASSUME used'.faults = 0 PROVE services' = {Key(t) : t \in threads'}
      OBVIOUS
    <3>0. Cardinality(s) \in Nat /\ (Cardinality(s) = 0 <=> s = {})
      BY <2>1, RemainingAreFinite DEF RemoveListenerThreads
    <3>1. used.faults = 0 /\ f.keys = {} /\ s = {}
      BY <1>1, <1>faults, <2>1, <3>0
    <3>2. services = {Key(t) : t \in threads}
      BY <2>1, <3>1 DEF ListenersInv, ServicesFollow
    <3> QED BY <1>1, <2>2, <2>3, <2>4, <2>5, <2>6, <3>1, <3>2
  <2> QED BY <2>1, <2>8, <2>9 DEF ServicesFollow
<1> QED BY <1>5, <1>6, <1>7, <1>8 DEF ListenersInv

\* Connections of strangers go no further, whatever the system and the threads do.
LEMMA WorkKeepsStrangersOut ==
    ASSUME ListenersTypeOK, StrangersInv, NEW t \in threads, WorkerThreadProcessor(t)
    PROVE  StrangersInv'
<1>0. allowed' = allowed
  BY DEF WorkerThreadProcessor
<1>1. ASSUME NEW c, AskFirst(c) PROVE StrangersInv'
  <2>1. PICK q : q = [address |-> c[1], port |-> c[2], remote |-> c[3], current |-> TRUE]
    OBVIOUS
  <2>2. q.remote = c[3]
    BY <2>1
  <2>3. c[3] \in allowed => asked' = asked \cup {q}
    BY <1>1, <2>1 DEF AskFirst, CanAcceptConnection
  <2>4. c[3] \notin allowed => asked' = asked
    BY <1>1 DEF AskFirst, CanAcceptConnection
  <2>5. accepted' = accepted
    BY <1>1 DEF AskFirst
  <2> QED BY <1>0, <2>2, <2>3, <2>4, <2>5 DEF StrangersInv, StrangersStayOut, AskedAreAllowed
<1>2. ASSUME NEW c, GiveUnconnected(c) PROVE StrangersInv'
  BY <1>0, <1>2 DEF GiveUnconnected, StrangersInv, StrangersStayOut, AskedAreAllowed
<1>3. ASSUME UNCHANGED <<asked, accepted>> PROVE StrangersInv'
  BY <1>0, <1>3, StrangersStay
<1>4. CASE WorkTCP(t)
  BY <1>1, <1>2, <1>4 DEF WorkTCP, AcceptTCP
<1>5. CASE WorkBTH(t)
  BY <1>1, <1>2, <1>5 DEF WorkBTH, AcceptBTH
<1>6. CASE ReceiveUDP(t)
  BY <1>1, <1>3, <1>6 DEF ReceiveUDP
<1>7. CASE SendUDP(t)
  BY <1>3, <1>7 DEF SendUDP
<1>8. CASE HandOn(t)
  <2>1. PICK a \in asked :
           /\ asked' = asked \ {a}
           /\ accepted' = accepted \cup {[connected |-> TRUE, permitted |-> a.remote \in allowed,
                                          current |-> a.current]}
    BY <1>8 DEF HandOn
  <2>2. PICK p : p = [connected |-> TRUE, permitted |-> a.remote \in allowed,
                      current |-> a.current]
    OBVIOUS
  <2>3. p.permitted = (a.remote \in allowed) /\ p.current = a.current
    BY <2>2
  <2>4. p.current => p.permitted
    BY <2>3 DEF StrangersInv, AskedAreAllowed
  <2>5. accepted' = accepted \cup {p}
    BY <2>1, <2>2
  <2> QED BY <1>0, <2>1, <2>4, <2>5 DEF StrangersInv, StrangersStayOut, AskedAreAllowed
<1> QED BY <1>4, <1>5, <1>6, <1>7, <1>8 DEF WorkerThreadProcessor

LEMMA ListenersStep ==
    ASSUME ListenersTypeOK, ListenersInv, [ListenersNext]_listenersVars
    PROVE  ListenersInv'
<1>f. ASSUME NEW keys \in SUBSET Keys, NEW f \in Failures(keys) PROVE Cardinality(f.keys) \in Nat
  BY <1>f, FailuresAreFinite
<1>u. Unheard \subseteq Keys
  BY DEF Unheard, Keys, ListenersTypeOK
<1>0. ASSUME UNCHANGED <<manager, running, threads, services, discoverable, seen, damaged>>,
             used'.faults = used.faults, StrangersInv'
      PROVE  ListenersInv'
  BY <1>0 DEF ListenersInv, ListenersFollow, ServicesFollow, FailureIsCounted
<1>1. CASE StartupTCP
  BY <1>1, StartupKeepsSound DEF StartupTCP
<1>2. CASE StartupUDP
  <2>1. CASE \E f \in Failures(Operational) :
                threads' = AddListenerThreads(Operational, f) /\ Startup(f)
    BY <1>2, <2>1, StartupKeepsSound DEF StartupUDP
  <2>2. CASE ~ \E f \in Failures(Operational) :
                threads' = AddListenerThreads(Operational, f) /\ Startup(f)
    <3>1. /\ manager = "UDP" /\ ~running /\ ~running'
          /\ manager' = manager /\ UNCHANGED <<asked, accepted, allowed, discoverable>>
          /\ used' = [used EXCEPT !.faults = @ + 1, !.starts = @ + 1]
      <4>1. /\ manager = "UDP" /\ ~running
            /\ used' = [used EXCEPT !.faults = @ + 1, !.starts = @ + 1]
            /\ UNCHANGED <<network, traffic, running, damaged, discoverable>>
        BY <1>2, <2>2 DEF StartupUDP
      <4> QED BY <4>1 DEF network, traffic
    <3>2. used'.faults # 0
      <4>1. used \in [faults : Nat, changes : Nat, arrivals : Nat, starts : Nat]
        BY DEF ListenersTypeOK
      <4>2. used'.faults = used.faults + 1
        BY <3>1, <4>1, StartsAreCounted
      <4> QED BY <4>1, <4>2
    <3> QED BY <3>1, <3>2, StrangersStay
        DEF ListenersInv, ListenersFollow, ServicesFollow, FailureIsCounted
  <2> QED BY <2>1, <2>2
<1>3. CASE StartupBTH
  BY <1>3, StartupKeepsSound DEF StartupBTH
<1>4. CASE UpdateTCP
  BY <1>4, <1>f, <1>u, UpdateKeepsSound DEF UpdateTCP
<1>5. CASE UpdateUDP
  BY <1>5, <1>f, <1>u, UpdateKeepsSound DEF UpdateUDP
<1>6. CASE UpdateBTH
  <2> PICK f \in Failures(Unheard), s \in Remaining(threads \ RemoveListenerThreads) :
          /\ threads' = RemoveListenerThreads \cup AddBTHListenerThreads(Unheard, f)
          /\ services' = DeleteServices(threads \ RemoveListenerThreads, s)
                            \cup AddServices(Unheard, f)
          /\ Update(f, Cardinality(f.keys) + Cardinality(s))
    BY <1>6 DEF UpdateBTH
  <2>1. Cardinality(f.keys) \in Nat /\ Cardinality(s) \in Nat
    BY <1>f, <1>u, RemainingAreFinite
  <2>2. /\ Cardinality(f.keys) + Cardinality(s) \in Nat
        /\ Cardinality(f.keys) + Cardinality(s) >= Cardinality(f.keys)
    BY <2>1
  <2> QED BY <1>6, <2>2, UpdateKeepsSound DEF UpdateBTH
<1>7. CASE ShutdownTCP \/ ShutdownUDP
  BY <1>7, StrangersStay
  DEF ShutdownTCP, ShutdownUDP, Shutdown, KeepTraffic, network, ListenersInv,
      ListenersFollow, ServicesFollow, FailureIsCounted
<1>8. CASE ShutdownBTH
  <2> PICK s \in Remaining(threads), n \in {0, 1} :
          /\ DisableDiscovery(n)
          /\ services' = services \ ({Key(t) : t \in threads} \ s)
          /\ used' = [used EXCEPT !.faults = @ + (Cardinality(s) + n)]
    BY <1>8 DEF ShutdownBTH, DeleteServices
  <2>0. Cardinality(s) \in Nat /\ (Cardinality(s) = 0 <=> s = {})
    BY RemainingAreFinite
  <2>1. /\ manager = "BTH" /\ manager' = manager /\ running /\ ~running'
        /\ threads' = {} /\ UNCHANGED <<asked, accepted, allowed>>
    BY <1>8 DEF ShutdownBTH, Shutdown, KeepTraffic, network
  <2>counted. used'.faults = 0 => used.faults = 0 /\ s = {} /\ n = 0
    BY <2>0 DEF ListenersTypeOK
  <2>2. used'.faults = 0 => services' = {}
    <3> SUFFICES ASSUME used'.faults = 0 PROVE services' = {}
      OBVIOUS
    <3>1. used.faults = 0 /\ s = {}
      BY <2>counted
    <3>2. services = {Key(t) : t \in threads}
      BY <2>1, <3>1 DEF ListenersInv, ServicesFollow
    <3> QED BY <3>1, <3>2
  <2>3. "manager" \notin discoverable' /\ (used'.faults = 0 => "system" \notin discoverable')
    <3>1. "manager" \notin discoverable'
      BY DEF DisableDiscovery
    <3>2. used.faults = 0 /\ "system" \in discoverable => "manager" \in discoverable
      BY DEF ListenersInv, FailureIsCounted
    <3> QED BY <2>counted, <3>1, <3>2 DEF DisableDiscovery
  <2> QED BY <2>1, <2>2, <2>3, StrangersStay
      DEF ListenersInv, ListenersFollow, ServicesFollow, FailureIsCounted
<1>9. ASSUME NEW t \in threads, WorkerThreadProcessor(t) PROVE ListenersInv'
  BY <1>0, <1>9, WorkKeepsStrangersOut DEF WorkerThreadProcessor, network, ListenersInv
<1>10. ASSUME NEW t \in threads, NEW r \in Remotes, Arrive(t, r) PROVE ListenersInv'
  <2>1. used'.faults = used.faults
    BY <1>10 DEF Arrive, ListenersTypeOK
  <2> QED BY <1>0, <1>10, <2>1, StrangersStay DEF Arrive, network, ListenersInv
<1>11. ASSUME NEW a \in Addresses, InterfaceUp(a) PROVE ListenersInv'
  <2>1. used'.faults = used.faults
    BY <1>11 DEF InterfaceUp, Change, ListenersTypeOK
  <2> QED BY <1>0, <1>11, <2>1, StrangersStay DEF InterfaceUp, traffic, ListenersInv
<1>12. ASSUME NEW a \in Addresses, InterfaceDown(a) PROVE ListenersInv'
  <2> DEFINE hit(t) == IF t.address = a THEN [t EXCEPT !.sound = FALSE] ELSE t
  <2>0. \A t \in threads : Key(hit(t)) = Key(t) /\ hit(t).address = t.address
    BY DEF Key, ListenersTypeOK
  <2>1. used'.faults = used.faults
    BY <1>12 DEF InterfaceDown, Change, ListenersTypeOK
  <2>2. threads' = {hit(t) : t \in threads}
    BY <1>12 DEF InterfaceDown
  <2>3. {Key(t) : t \in threads'} = {Key(t) : t \in threads}
    <3>1. \A t \in threads : Key(t) \in {Key(u) : u \in threads'}
      <4> TAKE t \in threads
      <4>1. hit(t) \in threads' /\ Key(hit(t)) = Key(t)
        BY <2>0, <2>2
      <4> HIDE DEF hit
      <4> QED BY <4>1
    <3>2. \A u \in threads' : Key(u) \in {Key(t) : t \in threads}
      <4> TAKE u \in threads'
      <4>1. PICK t \in threads : u = hit(t)
        BY <2>2
      <4> HIDE DEF hit
      <4> QED BY <2>0, <4>1
    <3> QED BY <3>1, <3>2
  <2>4. \A t \in threads : t.address # a => t \in threads'
    BY <2>2
  <2>5. \A t \in threads' : \E u \in threads : t.address = u.address
    BY <2>0, <2>2
  <2> HIDE DEF hit
  <2>6. /\ UNCHANGED <<manager, running, services, discoverable, seen, asked, accepted, allowed>>
        /\ damaged' = damaged \cup {a}
    BY <1>12 DEF InterfaceDown
  <2>7. ListenersFollow'
    <3> SUFFICES ASSUME running PROVE ListenersFollow'
      BY <2>6 DEF ListenersFollow
    <3>1. \A t \in threads' : t.address \in seen'
      BY <2>5, <2>6 DEF ListenersInv, ListenersFollow
    <3>2. ASSUME NEW k \in (seen' \ damaged') \X Ports
          PROVE  \E t \in threads' : Key(t) = k /\ t.started /\ t.sound
      <4>1. k \in (seen \ damaged) \X Ports /\ k[1] # a
        BY <2>6
      <4>2. PICK t \in threads : Key(t) = k /\ t.started /\ t.sound
        BY <4>1 DEF ListenersInv, ListenersFollow
      <4>3. t \in threads'
        BY <2>4, <4>1, <4>2 DEF Key
      <4> QED BY <4>2, <4>3
    <3> QED BY <3>1, <3>2 DEF ListenersFollow
  <2>8. ServicesFollow'
    BY <2>1, <2>3, <2>6 DEF ListenersInv, ServicesFollow
  <2> QED BY <2>1, <2>2, <2>6, <2>7, <2>8, StrangersStay DEF ListenersInv, FailureIsCounted
<1>13. ASSUME NEW r \in Remotes, AccessChanges(r) PROVE ListenersInv'
  <2>1. used'.faults = used.faults
    BY <1>13 DEF AccessChanges, Change, ListenersTypeOK
  <2>2. accepted' = accepted /\ \A b \in asked' : ~b.current
    <3>1. asked' = {[a EXCEPT !.current = FALSE] : a \in asked} /\ accepted' = accepted
      BY <1>13 DEF AccessChanges
    <3>2. \A a \in asked : ~[a EXCEPT !.current = FALSE].current
      BY DEF ListenersTypeOK
    <3> QED BY <3>1, <3>2
  <2>3. StrangersInv'
    BY <2>2 DEF ListenersInv, StrangersInv, StrangersStayOut, AskedAreAllowed
  <2> QED BY <1>0, <1>13, <2>1, <2>3 DEF AccessChanges, network, ListenersInv
<1>14. CASE UNCHANGED listenersVars
  BY <1>0, <1>14, StrangersStay DEF listenersVars, ListenersInv
<1> QED
  BY <1>1, <1>2, <1>3, <1>4, <1>5, <1>6, <1>7, <1>8, <1>9, <1>10, <1>11, <1>12, <1>13, <1>14
  DEF ListenersNext

\* A manager that runs listens where its last update looked and nowhere else, the
\* Bluetooth services are those of its threads unless a failure left one behind, and no
\* connection of a stranger reaches the peer manager
\* (Core/TCP/TCPListenerManager.cpp, and those of UDP and Bluetooth): whatever fails,
\* comes and goes, for every set of addresses and ports.
THEOREM ListenersSound == ListenersSpec => []ListenersAreSound
<1>1. ListenersInit => ListenersInv
  BY DEF ListenersInit, ListenersInv, ListenersFollow, ServicesFollow, StrangersInv,
         StrangersStayOut, AskedAreAllowed, FailureIsCounted
<1>2. ListenersTypeOK /\ ListenersInv /\ [ListenersNext]_listenersVars => ListenersInv'
  BY ListenersStep
<1>3. ListenersInv => ListenersAreSound
  BY DEF ListenersInv, ListenersAreSound, StrangersInv
<1> QED BY <1>1, <1>2, <1>3, ListenersTypeCorrect, PTL DEF ListenersSpec

-----------------------------------------------------------------------------
(* Public endpoints, for every set of addresses and of peers that report     *)
(* them, and every limit.                                                    *)

\* What waits does so once, and not while it is worked on.
WorkIsOnce ==
    \A k \in Kinds :
        /\ IsFiniteSet(set[k])
        /\ \A i, j \in DOMAIN queue[k] : queue[k][i].ip = queue[k][j].ip => i = j
        /\ held[k].ip \notin Queued(k)

\* A datagram only came back from an address of this node.
DataIsOurs ==
    /\ \A a \in DOMAIN endpoints : endpoints[a].data => a \in Ours
    /\ held["data"].outcome \in {"succeeded", "recorded"} => held["data"].ip \in Ours

\* No two endpoints were updated by the same report.
TimesAreApart ==
    \A a, b \in DOMAIN endpoints :
        /\ endpoints[a].updated <= reports
        /\ endpoints[a].updated = endpoints[b].updated => a = b

WorkInv == WorkIsKnown /\ WorkIsOnce
EndpointsInv ==
    EndpointsTypeOK /\ WorkInv /\ DataIsOurs /\ VotesAreCounted /\ MapsAreBounded /\ TimesAreApart

Detail == [trusted : BOOLEAN, data : BOOLEAN, hop : BOOLEAN, networks : SUBSET Networks,
           updated : Nat]
Item == [ip : PublicAddresses, tries : Nat, outcome : {"none"}]
HeldItem == {Idle} \cup [ip : PublicAddresses, tries : Nat,
                         outcome : {"verifying", "succeeded", "failed", "recorded"}]

LEMMA EarliestTime ==
    ASSUME NEW T \in SUBSET Nat, T # {}
    PROVE  \E i \in T : \A j \in T : i <= j
<1>1. PICK i \in T : \A j \in T : <<j, i>> \notin OpToRel(<, Nat)
  BY NatLessThanWellFounded, WFMin
<1>2. \A j \in T : ~(j < i)
  BY <1>1 DEF OpToRel
<1> QED BY <1>2

\* Of some endpoints, one was updated longest ago.
LEMMA EarliestUpdate ==
    ASSUME EndpointsTypeOK, NEW D \in SUBSET DOMAIN endpoints, D # {}
    PROVE  \E a \in D : \A b \in D : endpoints[a].updated <= endpoints[b].updated
<1> DEFINE T == {endpoints[a].updated : a \in D}
<1>1. T \in SUBSET Nat /\ T # {}
  BY DEF EndpointsTypeOK
<1>2. PICK i \in T : \A j \in T : i <= j
  BY <1>1, EarliestTime
<1>3. PICK a \in D : i = endpoints[a].updated
  OBVIOUS
<1> QED BY <1>2, <1>3

\* The order in which endpoints are given up has a first one.
LEMMA LeastRelevantExists ==
    ASSUME EndpointsTypeOK, TimesAreApart, DOMAIN endpoints # {}
    PROVE  /\ LeastRelevant \in DOMAIN endpoints
           /\ \A b \in DOMAIN endpoints \ {LeastRelevant} : LessRelevant(LeastRelevant, b)
<1> DEFINE D == DOMAIN endpoints
           U == {a \in D : ~endpoints[a].trusted}
           C == IF U = {} THEN D ELSE U
           V == {a \in C : ~IsVerified(endpoints[a])}
           E == IF V = {} THEN C ELSE V
<1>1. E \in SUBSET D /\ E # {}
  OBVIOUS
<1>2. PICK m \in E : \A b \in E : endpoints[m].updated <= endpoints[b].updated
  BY <1>1, EarliestUpdate
<1>3. \A a \in D : endpoints[a].trusted \in BOOLEAN /\ IsVerified(endpoints[a]) \in BOOLEAN
                   /\ endpoints[a].updated \in Nat
  BY DEF EndpointsTypeOK, IsVerified
<1>4. ASSUME NEW b \in D \ {m} PROVE LessRelevant(m, b)
  <2>1. ASSUME b \in E PROVE endpoints[m].updated < endpoints[b].updated
    BY <1>1, <1>2, <1>3, <2>1 DEF TimesAreApart
  <2>2. m \in D /\ m \in C
    OBVIOUS
  <2>3. endpoints[m].trusted => endpoints[b].trusted
    OBVIOUS
  <2>4. endpoints[m].trusted = endpoints[b].trusted => b \in C
    BY <1>3
  <2>5. b \in C /\ IsVerified(endpoints[m]) => IsVerified(endpoints[b])
    OBVIOUS
  <2>6. b \in C /\ (IsVerified(endpoints[m]) = IsVerified(endpoints[b])) => b \in E
    BY <1>3
  <2> HIDE DEF C, E, V, U
  <2> QED BY <1>3, <2>1, <2>2, <2>3, <2>4, <2>5, <2>6 DEF LessRelevant
<1>5. m \in D
  BY <1>1
<1> HIDE DEF E
<1> QED BY <1>4, <1>5 DEF LeastRelevant

\* The endpoints among which a reported one then is: room is made by giving up one, the
\* least relevant.
LEMMA DetailsAdded ==
    ASSUME EndpointsTypeOK, TimesAreApart, MapsAreBounded, NEW a \in PublicAddresses
    PROVE  \E kept \in SUBSET DOMAIN endpoints :
              /\ WithDetails(a) = [b \in kept \cup {a} |-> IF b \in kept THEN endpoints[b]
                                                           ELSE NewEndpoint]
              /\ a \in DOMAIN endpoints => kept = DOMAIN endpoints
              /\ kept \in {DOMAIN endpoints, DOMAIN endpoints \ {LeastRelevant}}
              /\ IsFiniteSet(kept \cup {a})
              /\ Cardinality(kept \cup {a}) <= MaxEndpoints
<1> DEFINE full == a \notin DOMAIN endpoints /\ Cardinality(DOMAIN endpoints) >= MaxEndpoints
           kept == IF full THEN DOMAIN endpoints \ {LeastRelevant} ELSE DOMAIN endpoints
<1>0. IsFiniteSet(DOMAIN endpoints) /\ Cardinality(DOMAIN endpoints) \in Nat
  BY FS_CardinalityType DEF EndpointsTypeOK
<1>1. MaxEndpoints \in Nat \ {0} /\ Cardinality(DOMAIN endpoints) <= MaxEndpoints
  BY EndpointsAssumption DEF MapsAreBounded
<1>2. IsFiniteSet(kept)
  BY <1>0, FS_RemoveElement
<1>3. IsFiniteSet(kept \cup {a})
  BY <1>2, FS_AddElement
<1>4. Cardinality(kept \cup {a}) <= MaxEndpoints
  <2>1. CASE full
    <3>1. DOMAIN endpoints # {}
      BY <1>1, <2>1, FS_EmptySet
    <3>2. Cardinality(kept) = Cardinality(DOMAIN endpoints) - 1
      BY <1>0, <2>1, <3>1, LeastRelevantExists, FS_RemoveElement
    <3>3. Cardinality(kept \cup {a}) = Cardinality(kept) + 1
      BY <1>2, <2>1, FS_AddElement
    <3> QED BY <1>0, <1>1, <3>2, <3>3
  <2>2. CASE a \in DOMAIN endpoints
    <3>1. kept \cup {a} = DOMAIN endpoints
      BY <2>2
    <3> QED BY <1>1, <3>1
  <2>3. CASE a \notin DOMAIN endpoints /\ ~full
    <3>1. kept = DOMAIN endpoints /\ Cardinality(DOMAIN endpoints) < MaxEndpoints
      BY <1>0, <1>1, <2>3
    <3>2. Cardinality(kept \cup {a}) = Cardinality(DOMAIN endpoints) + 1
      BY <1>0, <2>3, <3>1, FS_AddElement
    <3> QED BY <1>0, <1>1, <3>1, <3>2
  <2> QED BY <2>1, <2>2, <2>3
<1>5. WithDetails(a) = [b \in kept \cup {a} |-> IF b \in kept THEN endpoints[b] ELSE NewEndpoint]
  BY DEF WithDetails
<1> QED BY <1>3, <1>4, <1>5

\* What a report of network n of address a does to the endpoints.
EndpointsAfter(kept, n, a, trusted) ==
    /\ kept \in SUBSET DOMAIN endpoints
    /\ a \in DOMAIN endpoints => kept = DOMAIN endpoints
    /\ kept \in {DOMAIN endpoints, DOMAIN endpoints \ {LeastRelevant}}
    /\ DOMAIN endpoints' = kept \cup {a}
    /\ IsFiniteSet(DOMAIN endpoints') /\ Cardinality(DOMAIN endpoints') <= MaxEndpoints
    /\ endpoints' \in [DOMAIN endpoints' -> Detail]
    /\ \A c \in kept \ {a} : endpoints'[c] = endpoints[c]
    /\ endpoints'[a].data => a \in kept /\ endpoints[a].data
    /\ \A m \in endpoints'[a].networks \ {n} : a \in kept /\ m \in endpoints[a].networks
    /\ endpoints'[a].updated = reports + 1

LEMMA DetailExcept ==
    ASSUME NEW old \in Detail, NEW t \in BOOLEAN, NEW ns \in SUBSET Networks, NEW u \in Nat
    PROVE  [old EXCEPT !.trusted = t, !.networks = ns, !.updated = u]
              = [trusted |-> t, data |-> old.data, hop |-> old.hop, networks |-> ns, updated |-> u]
<1> DEFINE v == [old EXCEPT !.trusted = t]
           w == [v EXCEPT !.networks = ns]
           x == [w EXCEPT !.updated = u]
<1>1. v \in Detail /\ v.trusted = t /\ v.data = old.data /\ v.hop = old.hop
  BY DEF Detail
<1> HIDE DEF v
<1>2. /\ w \in Detail /\ w.trusted = v.trusted /\ w.data = v.data /\ w.hop = v.hop
      /\ w.networks = ns
  BY <1>1 DEF Detail
<1> HIDE DEF w
<1>3. /\ x \in Detail /\ x.trusted = w.trusted /\ x.data = w.data /\ x.hop = w.hop
      /\ x.networks = w.networks /\ x.updated = u
  BY <1>2 DEF Detail
<1>4. x = [old EXCEPT !.trusted = t, !.networks = ns, !.updated = u]
  BY DEF v, w
<1> HIDE DEF x
<1>5. x = [trusted |-> t, data |-> old.data, hop |-> old.hop, networks |-> ns, updated |-> u]
  BY <1>1, <1>2, <1>3 DEF Detail
<1> QED BY <1>4, <1>5

LEMMA EndpointAdded ==
    ASSUME EndpointsInv, NEW n \in Networks, NEW a \in PublicAddresses, NEW trusted \in BOOLEAN,
           AddEndpoint(n, a, trusted)
    PROVE  /\ \E kept : EndpointsAfter(kept, n, a, trusted)
           /\ \E ep : AddVerifications(ep, a)
<1>1. PICK kept \in SUBSET DOMAIN endpoints :
          /\ WithDetails(a) = [b \in kept \cup {a} |-> IF b \in kept THEN endpoints[b]
                                                       ELSE NewEndpoint]
          /\ a \in DOMAIN endpoints => kept = DOMAIN endpoints
          /\ kept \in {DOMAIN endpoints, DOMAIN endpoints \ {LeastRelevant}}
          /\ IsFiniteSet(kept \cup {a})
          /\ Cardinality(kept \cup {a}) <= MaxEndpoints
  BY DetailsAdded DEF EndpointsInv
<1> DEFINE old == IF a \in kept THEN endpoints[a] ELSE NewEndpoint
           ep == [old EXCEPT !.trusted = @ \/ trusted,
                             !.networks = IF Cardinality(@) < MaxReportingPeerNetworks
                                          THEN @ \cup {n} ELSE @,
                             !.updated = reports + 1]
           new == [trusted |-> old.trusted \/ trusted, data |-> old.data, hop |-> old.hop,
                   networks |-> IF Cardinality(old.networks) < MaxReportingPeerNetworks
                                THEN old.networks \cup {n} ELSE old.networks,
                   updated |-> reports + 1]
<1>2. WithDetails(a)[a] = old
  BY <1>1
<1>3. endpoints' = [WithDetails(a) EXCEPT ![a] = ep] /\ AddVerifications(ep, a)
  BY <1>2 DEF AddEndpoint
<1>4. old \in Detail /\ reports \in Nat /\ endpoints \in [DOMAIN endpoints -> Detail]
  BY DEF EndpointsInv, EndpointsTypeOK, NewEndpoint, Detail
<1>t. /\ (old.trusted \/ trusted) \in BOOLEAN
      /\ (IF Cardinality(old.networks) < MaxReportingPeerNetworks
          THEN old.networks \cup {n} ELSE old.networks) \in SUBSET Networks
      /\ old.data \in BOOLEAN /\ old.hop \in BOOLEAN /\ reports + 1 \in Nat
  <2>1. old.networks \in SUBSET Networks /\ old.data \in BOOLEAN /\ old.hop \in BOOLEAN
    BY <1>4 DEF Detail
  <2> HIDE DEF old
  <2> QED BY <1>4, <2>1
<1>5. ep = new
  <2> HIDE DEF old
  <2>1. ep = [old EXCEPT !.trusted = (old.trusted \/ trusted),
                         !.networks = (IF Cardinality(old.networks) < MaxReportingPeerNetworks
                                       THEN old.networks \cup {n} ELSE old.networks),
                         !.updated = reports + 1]
    OBVIOUS
  <2>2. \A t \in BOOLEAN, ns \in SUBSET Networks, u \in Nat :
           [old EXCEPT !.trusted = t, !.networks = ns, !.updated = u]
              = [trusted |-> t, data |-> old.data, hop |-> old.hop, networks |-> ns, updated |-> u]
    BY <1>4, DetailExcept
  <2> QED BY <1>t, <2>1, <2>2
<1>6. new \in Detail
  <2> HIDE DEF old
  <2> QED BY <1>t DEF Detail
<1>7. /\ new.data = old.data /\ new.updated = reports + 1
      /\ \A m \in new.networks \ {n} : m \in old.networks
  <2> HIDE DEF old
  <2> QED OBVIOUS
<1>8. endpoints' = [b \in kept \cup {a} |-> IF b = a THEN new ELSE endpoints[b]]
  <2> HIDE DEF new, ep
  <2> QED BY <1>1, <1>3, <1>5
<1>9. old.data \/ old.networks # {} => a \in kept /\ old = endpoints[a]
  BY DEF NewEndpoint
<1>10. \A m \in old.networks : a \in kept /\ old = endpoints[a]
  BY <1>9
<1> HIDE DEF new, old
<1>11. endpoints'[a] = new /\ DOMAIN endpoints' = kept \cup {a}
       /\ \A c \in kept \ {a} : endpoints'[c] = endpoints[c]
  BY <1>8
<1>12. endpoints' \in [DOMAIN endpoints' -> Detail]
  BY <1>4, <1>6, <1>8
<1>13. EndpointsAfter(kept, n, a, trusted)
  BY <1>1, <1>7, <1>9, <1>10, <1>11, <1>12 DEF EndpointsAfter
<1> QED BY <1>3, <1>13

\* Work is added for a reported address at most once.
LEMMA WorkIsAdded ==
    ASSUME EndpointsTypeOK, WorkInv, NEW a \in PublicAddresses, NEW ep, AddVerifications(ep, a),
           held' = held
    PROVE  /\ WorkInv'
           /\ set' \in [Kinds -> SUBSET PublicAddresses]
           /\ queue' \in [Kinds -> Seq(Item)]
<1> DEFINE new == {k \in Kinds : NeedsVerification(ep, a, k) /\ a \notin set[k]}
           item == [Idle EXCEPT !.ip = a]
<1>0. item \in Item /\ item.ip = a
  BY DEF Item, Idle
<1>1. set' = [k \in Kinds |-> IF k \in new THEN set[k] \cup {a} ELSE set[k]]
  BY DEF AddVerifications
<1>2. queue' = [k \in Kinds |-> IF k \in new THEN Append(queue[k], item) ELSE queue[k]]
  BY DEF AddVerifications
<1>3. \A k \in new : k \in Kinds /\ a \notin set[k]
  OBVIOUS
<1>4. set \in [Kinds -> SUBSET PublicAddresses] /\ queue \in [Kinds -> Seq(Item)]
  BY DEF EndpointsTypeOK, Item
<1>na. a # NoAddress
  BY EndpointsAssumption
<1> HIDE DEF new, item
<1>5. set' \in [Kinds -> SUBSET PublicAddresses]
  BY <1>1, <1>4
<1>6. queue' \in [Kinds -> Seq(Item)]
  BY <1>0, <1>2, <1>4, AppendProperties
<1>7. ASSUME NEW k \in Kinds
      PROVE  /\ set'[k] = Queued(k)' \cup ({held'[k].ip} \ {NoAddress})
             /\ Cardinality(set'[k]) = Len(queue'[k]) + (IF held'[k].ip = NoAddress THEN 0 ELSE 1)
             /\ IsFiniteSet(set'[k])
             /\ \A i, j \in DOMAIN queue'[k] : queue'[k][i].ip = queue'[k][j].ip => i = j
             /\ held'[k].ip \notin Queued(k)'
  <2>0. /\ set[k] = Queued(k) \cup ({held[k].ip} \ {NoAddress})
        /\ Cardinality(set[k]) = Len(queue[k]) + (IF held[k].ip = NoAddress THEN 0 ELSE 1)
        /\ IsFiniteSet(set[k])
        /\ \A i, j \in DOMAIN queue[k] : queue[k][i].ip = queue[k][j].ip => i = j
        /\ held[k].ip \notin Queued(k)
    BY DEF WorkInv, WorkIsKnown, WorkIsOnce
  <2>1. CASE k \notin new
    <3>1. set'[k] = set[k] /\ queue'[k] = queue[k]
      BY <1>1, <1>2, <2>1
    <3> QED BY <2>0, <3>1 DEF Queued
  <2>2. CASE k \in new
    <3> PICK q \in Seq(Item) : q = queue[k]
      BY <1>4
    <3>0. q \in Seq(Item) /\ Len(q) \in Nat /\ DOMAIN q = 1 .. Len(q)
      BY LenProperties
    <3>1. a \notin set[k] /\ set'[k] = set[k] \cup {a} /\ queue'[k] = Append(q, item)
      BY <1>1, <1>2, <1>3, <2>2
    <3> DEFINE p == Append(q, item)
    <3>2. /\ Len(p) = Len(q) + 1 /\ DOMAIN p = 1 .. Len(q) + 1
          /\ \A i \in DOMAIN q : p[i] = q[i]
          /\ p[Len(q) + 1] = item
      BY <3>0, <1>0, AppendProperties, LenProperties
    <3> HIDE DEF p
    <3>3. {p[i].ip : i \in DOMAIN p} = {q[i].ip : i \in DOMAIN q} \cup {a}
      BY <1>0, <3>0, <3>2
    <3>p. queue'[k] = p
      BY <3>1 DEF p
    <3>4. Queued(k)' = Queued(k) \cup {a}
      <4>1. Queued(k)' = {p[i].ip : i \in DOMAIN p}
        BY <3>p DEF Queued
      <4>2. Queued(k) = {q[i].ip : i \in DOMAIN q}
        BY DEF Queued
      <4> QED BY <3>3, <4>1, <4>2
    <3>5. Cardinality(set[k]) \in Nat
      BY <2>0, FS_CardinalityType
    <3>6. IsFiniteSet(set'[k]) /\ Cardinality(set'[k]) = Cardinality(set[k]) + 1
      <4> PICK s : s = set[k]
        OBVIOUS
      <4>1. IsFiniteSet(s) /\ a \notin s
        BY <2>0, <3>1
      <4>2. IsFiniteSet(s \cup {a}) /\ Cardinality(s \cup {a}) = Cardinality(s) + 1
        BY <4>1, FS_AddElement
      <4> QED BY <3>1, <4>2
    <3>7. \A i \in DOMAIN q : q[i].ip # a
      BY <2>0, <3>1 DEF Queued
    <3>8. \A i, j \in DOMAIN p : p[i].ip = p[j].ip => i = j
      BY <1>0, <2>0, <3>0, <3>2, <3>7
    <3>9. held'[k].ip \notin Queued(k)'
      BY <1>na, <2>0, <3>1, <3>4
    <3>10. Cardinality(set'[k]) = Len(queue'[k]) + (IF held'[k].ip = NoAddress THEN 0 ELSE 1)
      <4>1. Len(queue'[k]) = Len(queue[k]) + 1
        BY <3>2, <3>p
      <4>2. Len(queue[k]) \in Nat
        BY <3>0
      <4> PICK h : h = held[k].ip
        OBVIOUS
      <4> PICK x, y, l, m : /\ x = Cardinality(set[k]) /\ y = Cardinality(set'[k])
                           /\ l = Len(queue[k]) /\ m = Len(queue'[k])
        OBVIOUS
      <4>3. /\ x = l + (IF h = NoAddress THEN 0 ELSE 1) /\ x \in Nat /\ l \in Nat
            /\ y = x + 1 /\ m = l + 1
        BY <2>0, <3>5, <3>6, <4>1, <4>2
      <4>4. y = m + (IF h = NoAddress THEN 0 ELSE 1)
        <5>1. CASE h = NoAddress
          <6>1. x = l /\ y = l + 1 /\ m = l + 1
            BY <4>3, <5>1
          <6> QED BY <4>3, <5>1, <6>1
        <5>2. CASE h # NoAddress
          <6>1. x = l + 1 /\ y = x + 1 /\ m = l + 1
            BY <4>3, <5>2
          <6> QED BY <4>3, <5>2, <6>1
        <5> QED BY <5>1, <5>2
      <4>5. held'[k].ip = h
        OBVIOUS
      <4> QED BY <4>4, <4>5
    <3>11. set'[k] = Queued(k)' \cup ({held'[k].ip} \ {NoAddress})
      BY <2>0, <3>1, <3>4
    <3>12. \A i, j \in DOMAIN queue'[k] : queue'[k][i].ip = queue'[k][j].ip => i = j
      BY <3>p, <3>8
    <3> QED BY <3>6, <3>9, <3>10, <3>11, <3>12
  <2> QED BY <2>1, <2>2
<1>8. WorkInv'
  BY <1>7 DEF WorkInv, WorkIsKnown, WorkIsOnce
<1> QED BY <1>5, <1>6, <1>8

LEMMA ReportKeepsInv ==
    ASSUME EndpointsInv, NEW n \in Networks, NEW a \in PublicAddresses, NEW trusted \in BOOLEAN,
           AddEndpoint(n, a, trusted)
    PROVE  EndpointsInv'
<1>1. PICK kept : EndpointsAfter(kept, n, a, trusted)
  BY EndpointAdded
<1>2. PICK ep : AddVerifications(ep, a)
  BY EndpointAdded
<1>3. /\ held' = held /\ reports' = reports + 1
      /\ Heard(n, trusted)
      /\ reporting' = AddReportingNetwork(n)
      /\ additions' = IF IsNewReportingNetwork(n) THEN [additions EXCEPT ![n] = @ + 1] ELSE additions
      /\ vouched' = IF trusted THEN vouched \cup {<<n, a>>} ELSE vouched
  BY DEF AddEndpoint
<1>4. /\ WorkInv'
      /\ set' \in [Kinds -> SUBSET PublicAddresses]
      /\ queue' \in [Kinds -> Seq(Item)]
  BY <1>2, <1>3, WorkIsAdded DEF EndpointsInv
<1>5. reporting' \in Seq(Networks) /\ Len(reporting') <= MaxReportingPeerNetworks
  <2> DEFINE spare == Len(reporting) - (MaxReportingPeerNetworks - 1)
             rest == IF spare > 0 THEN SubSeq(reporting, spare + 1, Len(reporting)) ELSE reporting
  <2>0. /\ reporting \in Seq(Networks) /\ Len(reporting) \in Nat
        /\ Len(reporting) <= MaxReportingPeerNetworks
        /\ MaxReportingPeerNetworks \in Nat \ {0}
    BY EndpointsAssumption, LenProperties DEF EndpointsInv, EndpointsTypeOK, MapsAreBounded
  <2>1. rest \in Seq(Networks) /\ Len(rest) <= MaxReportingPeerNetworks - 1
    <3>1. CASE spare > 0
      <4>1. spare + 1 \in 1 .. Len(reporting) + 1 /\ Len(reporting) \in spare .. Len(reporting)
        BY <2>0, <3>1
      <4>2. /\ SubSeq(reporting, spare + 1, Len(reporting)) \in Seq(Networks)
            /\ Len(SubSeq(reporting, spare + 1, Len(reporting)))
                  = IF spare + 1 <= Len(reporting) THEN Len(reporting) - spare ELSE 0
        BY <2>0, <4>1, SubSeqProperties
      <4> QED BY <2>0, <3>1, <4>2
    <3>2. CASE ~(spare > 0)
      BY <2>0, <3>2
    <3> QED BY <3>1, <3>2
  <2> HIDE DEF rest
  <2>2. Append(rest, n) \in Seq(Networks) /\ Len(Append(rest, n)) <= MaxReportingPeerNetworks
    <3>1. Len(Append(rest, n)) = Len(rest) + 1 /\ Append(rest, n) \in Seq(Networks) /\ Len(rest) \in Nat
      BY <2>1, AppendProperties, LenProperties
    <3> QED BY <2>0, <2>1, <3>1
  <2>3. reporting' = IF IsNewReportingNetwork(n) THEN Append(rest, n) ELSE reporting
    BY <1>3 DEF AddReportingNetwork, rest
  <2> QED BY <2>0, <2>2, <2>3
<1>6. /\ additions' \in [Networks -> Nat]
      /\ \A m \in Networks : additions[m] \in Nat /\ additions'[m] \in Nat /\ additions'[m] >= additions[m]
      /\ ~trusted => additions'[n] = additions[n] + 1
  BY <1>3 DEF Heard, EndpointsInv, EndpointsTypeOK
<1>7. EndpointsTypeOK'
  <2>1. reports' \in Nat /\ restarts' \in Nat
    BY <1>3 DEF AddEndpoint, EndpointsInv, EndpointsTypeOK
  <2>2. DOMAIN endpoints' \subseteq PublicAddresses
    BY <1>1 DEF EndpointsAfter, EndpointsInv, EndpointsTypeOK
  <2>3. held' \in [Kinds -> HeldItem]
    BY <1>3 DEF EndpointsInv, EndpointsTypeOK, HeldItem
  <2>4. IsFiniteSet(DOMAIN endpoints') /\ endpoints' \in [DOMAIN endpoints' -> Detail]
    BY <1>1 DEF EndpointsAfter
  <2> QED BY <1>4, <1>5, <1>6, <2>1, <2>2, <2>3, <2>4 DEF EndpointsTypeOK, HeldItem, Detail, Item
<1>8. DataIsOurs'
  BY <1>1, <1>3 DEF EndpointsAfter, EndpointsInv, DataIsOurs
<1>9. TimesAreApart'
  <2>1. reports \in Nat /\ \A c \in DOMAIN endpoints : endpoints[c].updated \in Nat
    BY DEF EndpointsInv, EndpointsTypeOK
  <2>2. \A c \in DOMAIN endpoints : endpoints[c].updated < reports + 1
    BY <2>1 DEF EndpointsInv, TimesAreApart
  <2>3. \A c \in DOMAIN endpoints' :
          \/ c = a /\ endpoints'[c].updated = reports + 1
          \/ c # a /\ c \in DOMAIN endpoints /\ endpoints'[c].updated = endpoints[c].updated
    BY <1>1 DEF EndpointsAfter
  <2>4. \A b, c \in DOMAIN endpoints : endpoints[b].updated = endpoints[c].updated => b = c
    BY DEF EndpointsInv, TimesAreApart
  <2>5. \A c \in DOMAIN endpoints' : endpoints'[c].updated <= reports'
    BY <1>3, <2>1, <2>2, <2>3
  <2>6. \A b, c \in DOMAIN endpoints' : endpoints'[b].updated = endpoints'[c].updated => b = c
    BY <2>1, <2>2, <2>3, <2>4
  <2> QED BY <2>5, <2>6 DEF TimesAreApart
<1>10. VotesAreCounted'
  <2> SUFFICES ASSUME NEW m \in Networks
               PROVE  Cardinality({c \in DOMAIN endpoints' :
                                     m \in endpoints'[c].networks /\ <<m, c>> \notin vouched'})
                        <= additions'[m]
    BY DEF VotesAreCounted
  <2> DEFINE S == {c \in DOMAIN endpoints : m \in endpoints[c].networks /\ <<m, c>> \notin vouched}
             T == {c \in DOMAIN endpoints' : m \in endpoints'[c].networks /\ <<m, c>> \notin vouched'}
  <2>1. IsFiniteSet(S) /\ Cardinality(S) \in Nat
    BY FS_Subset, FS_CardinalityType DEF EndpointsInv, EndpointsTypeOK
  <2>2. Cardinality(S) <= additions[m]
    BY DEF EndpointsInv, VotesAreCounted
  <2>3. \A c \in T \ {a} : c \in S
    BY <1>1, <1>3 DEF EndpointsAfter
  <2>4. a \in T => a \in S \/ (m = n /\ ~trusted)
    BY <1>1, <1>3 DEF EndpointsAfter
  <2> HIDE DEF S, T
  <2>5. CASE a \in T => a \in S
    <3>1. T \subseteq S
      BY <2>3, <2>5
    <3>2. Cardinality(T) <= Cardinality(S) /\ IsFiniteSet(T)
      BY <2>1, <3>1, FS_Subset
    <3>3. Cardinality(T) \in Nat
      BY <3>2, FS_CardinalityType
    <3>4. additions[m] \in Nat /\ additions'[m] \in Nat /\ additions'[m] >= additions[m]
      BY <1>6
    <3> PICK x, y, u, v : /\ x = Cardinality(S) /\ y = Cardinality(T)
                         /\ u = additions[m] /\ v = additions'[m]
      OBVIOUS
    <3>5. y <= v
      BY <2>1, <2>2, <3>2, <3>3, <3>4
    <3>6. Cardinality(T) <= additions'[m]
      BY <3>5
    <3> QED BY <3>6 DEF T
  <2>6. CASE m = n /\ ~trusted
    <3>1. T \subseteq S \cup {a}
      BY <2>3
    <3>2. IsFiniteSet(S \cup {a}) /\ Cardinality(S \cup {a}) <= Cardinality(S) + 1
      <4>1. IsFiniteSet(S \cup {a})
        BY <2>1, FS_AddElement
      <4>2. CASE a \in S
        <5>1. S \cup {a} = S
          BY <4>2
        <5> PICK w : w = Cardinality(S)
          OBVIOUS
        <5>2. w <= w + 1
          BY <2>1
        <5> QED BY <4>1, <5>1, <5>2
      <4>3. CASE a \notin S
        <5>1. Cardinality(S \cup {a}) = Cardinality(S) + 1
          BY <2>1, <4>3, FS_AddElement
        <5> PICK w : w = Cardinality(S)
          OBVIOUS
        <5>2. w + 1 <= w + 1
          BY <2>1
        <5> QED BY <4>1, <5>1, <5>2
      <4> QED BY <4>2, <4>3
    <3>3. Cardinality(T) <= Cardinality(S \cup {a}) /\ IsFiniteSet(T)
      BY <3>1, <3>2, FS_Subset
    <3>4. Cardinality(T) \in Nat /\ Cardinality(S \cup {a}) \in Nat
      BY <3>2, <3>3, FS_CardinalityType
    <3>5. additions[m] \in Nat /\ additions'[m] = additions[m] + 1
      BY <1>6, <2>6
    <3> PICK x, y, z, u, v : /\ x = Cardinality(S) /\ y = Cardinality(T)
                            /\ z = Cardinality(S \cup {a})
                            /\ u = additions[m] /\ v = additions'[m]
      OBVIOUS
    <3>6. y <= v
      BY <2>1, <2>2, <3>2, <3>3, <3>4, <3>5
    <3>7. Cardinality(T) <= additions'[m]
      BY <3>6
    <3> QED BY <3>7 DEF T
  <2> QED BY <2>4, <2>5, <2>6
<1>11. MapsAreBounded'
  BY <1>1, <1>5 DEF EndpointsAfter, MapsAreBounded
<1> QED BY <1>4, <1>7, <1>8, <1>9, <1>10, <1>11 DEF EndpointsInv

\* What the parts about the endpoints depend on.
LEMMA OnlyWorkChanges ==
    ASSUME EndpointsInv, EndpointsTypeOK', WorkInv',
           UNCHANGED <<reporting, additions, vouched, reports, restarts>>,
           DOMAIN endpoints' = DOMAIN endpoints,
           \A c \in DOMAIN endpoints :
              /\ endpoints'[c].networks = endpoints[c].networks
              /\ endpoints'[c].updated = endpoints[c].updated,
           DataIsOurs'
    PROVE  EndpointsInv'
<1>1. VotesAreCounted'
  <2> SUFFICES ASSUME NEW m \in Networks
               PROVE  Cardinality({c \in DOMAIN endpoints' :
                                     m \in endpoints'[c].networks /\ <<m, c>> \notin vouched'})
                        <= additions'[m]
    BY DEF VotesAreCounted
  <2>1. {c \in DOMAIN endpoints' : m \in endpoints'[c].networks /\ <<m, c>> \notin vouched'}
          = {c \in DOMAIN endpoints : m \in endpoints[c].networks /\ <<m, c>> \notin vouched}
    OBVIOUS
  <2> QED BY <2>1 DEF EndpointsInv, VotesAreCounted
<1>2. MapsAreBounded' /\ TimesAreApart'
  BY DEF EndpointsInv, MapsAreBounded, TimesAreApart
<1> QED BY <1>1, <1>2 DEF EndpointsInv

\* The addresses of a queue, and what set, queue and the address that is worked on have to
\* do with each other.
Ips(q) == {q[i].ip : i \in DOMAIN q}
Once(q) == \A i, j \in DOMAIN q : q[i].ip = q[j].ip => i = j
Known(s, q, ip) ==
    /\ s = Ips(q) \cup ({ip} \ {NoAddress})
    /\ Cardinality(s) = Len(q) + (IF ip = NoAddress THEN 0 ELSE 1)
    /\ IsFiniteSet(s)
    /\ Once(q)
    /\ ip \notin Ips(q)

LEMMA WorkIsWork ==
    /\ WorkInv <=> \A k \in Kinds : Known(set[k], queue[k], held[k].ip)
    /\ WorkInv' <=> \A k \in Kinds : Known(set'[k], queue'[k], held'[k].ip)
<1>1. \A k : Queued(k) = Ips(queue[k]) /\ Queued(k)' = Ips(queue'[k])
  BY DEF Queued, Ips
<1>2. WorkInv <=> \A k \in Kinds : Known(set[k], queue[k], held[k].ip)
  BY <1>1 DEF WorkInv, WorkIsKnown, WorkIsOnce, Known, Once
<1>3. WorkInv' <=> \A k \in Kinds : Known(set'[k], queue'[k], held'[k].ip)
  BY <1>1 DEF WorkInv, WorkIsKnown, WorkIsOnce, Known, Once
<1> QED BY <1>2, <1>3

\* The front of the queue becomes what is worked on.
LEMMA KnownTaken ==
    ASSUME NEW q \in Seq(Item), q # <<>>, NEW s, Known(s, q, NoAddress)
    PROVE  Known(s, Tail(q), Head(q).ip)
<1> DEFINE x == Head(q)
           r == Tail(q)
<1>1. x \in Item /\ r \in Seq(Item) /\ Len(r) = Len(q) - 1 /\ Len(q) \in Nat \ {0}
  BY HeadTailProperties, LenProperties, EmptySeq
<1>2. /\ DOMAIN r = 1 .. Len(q) - 1 /\ DOMAIN q = 1 .. Len(q)
      /\ \A i \in 1 .. Len(q) - 1 : r[i] = q[i + 1]
      /\ x = q[1]
  BY <1>1, LenProperties
<1>3. x.ip # NoAddress
  BY <1>1, EndpointsAssumption DEF Item
<1> HIDE DEF x, r
<1> PICK n \in Nat \ {0} : n = Len(q)
  BY <1>1
<1>4. /\ \A i \in DOMAIN q : i = 1 \/ (i - 1 \in DOMAIN r /\ q[i] = r[i - 1])
      /\ \A i \in DOMAIN r : i \in Nat /\ i + 1 \in DOMAIN q /\ q[i + 1] = r[i] /\ i + 1 # 1
      /\ 1 \in DOMAIN q /\ x = q[1]
  BY <1>2
<1>5. Ips(q) = Ips(r) \cup {x.ip}
  BY <1>4 DEF Ips
<1>6. s = Ips(q) /\ Cardinality(s) = n /\ IsFiniteSet(s) /\ Once(q)
  <2>1. Cardinality(s) = n + 0
    BY DEF Known
  <2>2. n + 0 = n
    OBVIOUS
  <2> QED BY <2>1, <2>2 DEF Known
<1>7. Once(r)
  <2> SUFFICES ASSUME NEW i \in DOMAIN r, NEW j \in DOMAIN r, r[i].ip = r[j].ip PROVE i = j
    BY DEF Once
  <2>1. i + 1 \in DOMAIN q /\ j + 1 \in DOMAIN q /\ q[i + 1].ip = q[j + 1].ip /\ i \in Nat /\ j \in Nat
    BY <1>4
  <2>2. i + 1 = j + 1
    BY <1>6, <2>1 DEF Once
  <2> QED BY <2>1, <2>2
<1>8. x.ip \notin Ips(r)
  <2> SUFFICES ASSUME NEW i \in DOMAIN r, r[i].ip = x.ip PROVE FALSE
    BY DEF Ips
  <2>1. i + 1 \in DOMAIN q /\ q[i + 1].ip = q[1].ip /\ i + 1 # 1 /\ 1 \in DOMAIN q
    BY <1>4
  <2> QED BY <1>6, <2>1 DEF Once
<1>9. Cardinality(s) = Len(r) + (IF x.ip = NoAddress THEN 0 ELSE 1)
  <2>1. Len(r) + 1 = n
    BY <1>1
  <2> QED BY <1>3, <1>6, <2>1
<1>10. s = Ips(r) \cup ({x.ip} \ {NoAddress})
  BY <1>3, <1>5, <1>6
<1>11. Known(s, r, x.ip)
  BY <1>6, <1>7, <1>8, <1>9, <1>10 DEF Known
<1> QED BY <1>11 DEF x, r

\* What was worked on goes to the back of the queue again.
LEMMA KnownPutBack ==
    ASSUME NEW q \in Seq(Item), NEW s, NEW y \in Item, Known(s, q, y.ip)
    PROVE  Known(s, Append(q, y), NoAddress)
<1> DEFINE r == Append(q, y)
<1> PICK n \in Nat : n = Len(q)
  BY LenProperties
<1>1. /\ r \in Seq(Item) /\ Len(r) = n + 1 /\ DOMAIN q = 1 .. n /\ DOMAIN r = 1 .. n + 1
      /\ \A i \in 1 .. n : r[i] = q[i]
      /\ r[n + 1] = y
  BY AppendProperties, LenProperties
<1>2. y.ip # NoAddress /\ \A i \in DOMAIN r : r[i].ip # NoAddress
  <2>1. \A i \in DOMAIN r : r[i] \in Item
    BY <1>1, ElementOfSeq
  <2> HIDE DEF r
  <2> QED BY <2>1, EndpointsAssumption DEF Item
<1> HIDE DEF r
<1>3. /\ s = Ips(q) \cup {y.ip} /\ Cardinality(s) = n + 1 /\ IsFiniteSet(s) /\ Once(q)
      /\ y.ip \notin Ips(q)
  BY <1>2 DEF Known
<1>4. /\ \A i \in DOMAIN r : i = n + 1 \/ i \in DOMAIN q
      /\ \A i \in DOMAIN q : i \in DOMAIN r /\ r[i] = q[i]
      /\ n + 1 \in DOMAIN r /\ r[n + 1] = y
  BY <1>1
<1>5. Ips(r) = Ips(q) \cup {y.ip}
  BY <1>4 DEF Ips
<1>6. \A i \in DOMAIN q : q[i].ip # y.ip
  BY <1>3 DEF Ips
<1>7. Once(r)
  BY <1>3, <1>4, <1>6 DEF Once
<1>8. NoAddress \notin Ips(r)
  BY <1>2 DEF Ips
<1>9. Cardinality(s) = Len(r) + (IF NoAddress = NoAddress THEN 0 ELSE 1)
  <2>1. n + 1 + 0 = n + 1
    OBVIOUS
  <2> QED BY <1>1, <1>3, <2>1
<1>10. s = Ips(r) \cup ({NoAddress} \ {NoAddress})
  BY <1>3, <1>5
<1>11. Known(s, r, NoAddress)
  BY <1>3, <1>7, <1>8, <1>9, <1>10 DEF Known
<1> QED BY <1>11 DEF r

\* What was worked on is done with.
LEMMA KnownFinished ==
    ASSUME NEW q \in Seq(Item), NEW s, NEW ip, ip # NoAddress, Known(s, q, ip)
    PROVE  Known(s \ {ip}, q, NoAddress)
<1> PICK n \in Nat : n = Len(q)
  BY LenProperties
<1>1. /\ s = Ips(q) \cup {ip} /\ Cardinality(s) = n + 1 /\ IsFiniteSet(s) /\ Once(q)
      /\ ip \notin Ips(q)
  BY DEF Known
<1>2. IsFiniteSet(s \ {ip}) /\ Cardinality(s \ {ip}) = n + 1 - 1
  <2>1. IsFiniteSet(s) /\ ip \in s
    BY <1>1
  <2>2. IsFiniteSet(s \ {ip}) /\ Cardinality(s \ {ip}) = Cardinality(s) - 1
    BY ONLY <2>1, FS_RemoveElement
  <2> QED BY <1>1, <2>2
<1>3. n + 1 - 1 = n + 0
  OBVIOUS
<1>4. s \ {ip} = Ips(q) \cup ({NoAddress} \ {NoAddress})
  BY <1>1
<1>5. NoAddress \notin Ips(q)
  <2>1. \A i \in DOMAIN q : q[i] \in Item
    BY ElementOfSeq, LenProperties
  <2>2. \A i \in DOMAIN q : q[i].ip # NoAddress
    BY <2>1, EndpointsAssumption DEF Item
  <2> QED BY <2>2 DEF Ips
<1>6. Cardinality(s \ {ip}) = Len(q) + (IF NoAddress = NoAddress THEN 0 ELSE 1)
  BY <1>2, <1>3
<1> QED BY <1>1, <1>2, <1>4, <1>5, <1>6 DEF Known

LEMMA TakeKeepsInv ==
    ASSUME EndpointsInv, NEW k \in Kinds, Take(k)
    PROVE  EndpointsInv'
<1> PICK q \in Seq(Item) : q = queue[k]
  BY DEF EndpointsInv, EndpointsTypeOK, Item
<1> DEFINE x == Head(q)
<1>1. PICK outcome \in IF k = "data" THEN DataOutcomes(x) ELSE HopOutcomes :
          held' = [held EXCEPT ![k] = [x EXCEPT !.outcome = outcome]]
  BY DEF Take
<1>2. /\ held[k] = Idle /\ q # <<>>
      /\ queue' = [queue EXCEPT ![k] = Tail(q)]
      /\ UNCHANGED <<endpoints, reporting, set, additions, vouched, reports, restarts>>
  BY DEF Take
<1>3. outcome \in {"succeeded", "failed", "verifying"}
      /\ (k = "data" /\ outcome = "succeeded" => x.ip \in Ours)
  <2>1. \A m \in Arriving(x.ip) : Accepts(m) => x.ip \in Ours
    BY DEF Arriving, Accepts
  <2>2. CASE k = "data"
    BY <2>1, <2>2 DEF DataOutcomes
  <2>3. CASE k # "data"
    BY <2>3 DEF HopOutcomes
  <2> QED BY <2>2, <2>3
<1>4. x \in Item /\ Tail(q) \in Seq(Item)
  BY <1>2, HeadTailProperties
<1> DEFINE y == [x EXCEPT !.outcome = outcome]
           r == Tail(q)
<1>5. y \in [ip : PublicAddresses, tries : Nat,
             outcome : {"verifying", "succeeded", "failed", "recorded"}]
      /\ y.ip = x.ip /\ y.outcome = outcome
  BY <1>3, <1>4 DEF Item
<1>6. WorkInv /\ Known(set[k], q, NoAddress)
  BY <1>2, WorkIsWork DEF EndpointsInv, Idle
<1>7. Known(set[k], r, x.ip)
  BY <1>2, <1>6, KnownTaken
<1> HIDE DEF x, y, r
<1>8. /\ held' \in [Kinds -> HeldItem] /\ queue' \in [Kinds -> Seq(Item)]
      /\ held'[k] = y /\ queue'[k] = r
      /\ \A j \in Kinds \ {k} : held'[j] = held[j] /\ queue'[j] = queue[j]
  BY <1>1, <1>2, <1>4, <1>5 DEF y, r, EndpointsInv, EndpointsTypeOK, HeldItem, Item
<1>9. EndpointsTypeOK'
  BY <1>2, <1>8 DEF EndpointsInv, EndpointsTypeOK, HeldItem, Item
<1>10. WorkInv'
  <2>1. \A j \in Kinds : Known(set[j], queue[j], held[j].ip)
    BY <1>6, WorkIsWork
  <2>2. \A j \in Kinds : Known(set'[j], queue'[j], held'[j].ip)
    BY <1>2, <1>5, <1>7, <1>8, <2>1
  <2> QED BY <2>2, WorkIsWork
<1>11. DataIsOurs'
  BY <1>2, <1>3, <1>5, <1>8 DEF EndpointsInv, DataIsOurs, Kinds
<1> QED BY <1>2, <1>9, <1>10, <1>11, OnlyWorkChanges

\* What a verification that succeeded leaves behind.
LEMMA OneFlagSet ==
    ASSUME EndpointsTypeOK, NEW k \in Kinds, Record(k)
    PROVE  /\ DOMAIN endpoints' = DOMAIN endpoints
           /\ endpoints' \in [DOMAIN endpoints -> Detail]
           /\ \A c \in DOMAIN endpoints :
                 /\ endpoints'[c].networks = endpoints[c].networks
                 /\ endpoints'[c].updated = endpoints[c].updated
                 /\ endpoints'[c].data => endpoints[c].data \/ (c = held[k].ip /\ k = "data")
<1>0. endpoints \in [DOMAIN endpoints -> Detail]
  BY DEF EndpointsTypeOK, Detail
<1> PICK ip : ip = held[k].ip
  OBVIOUS
<1>1. CASE endpoints' = endpoints
  BY <1>0, <1>1
<1>2. CASE ip \in DOMAIN endpoints /\ k = "data" /\ endpoints' = [endpoints EXCEPT ![ip].data = TRUE]
  <2> DEFINE x == [endpoints[ip] EXCEPT !.data = TRUE]
  <2>1. /\ x \in Detail /\ x.networks = endpoints[ip].networks /\ x.updated = endpoints[ip].updated
    BY <1>0, <1>2 DEF Detail
  <2>2. endpoints' = [endpoints EXCEPT ![ip] = x]
    BY <1>2
  <2> HIDE DEF x
  <2>3. /\ DOMAIN endpoints' = DOMAIN endpoints /\ endpoints' \in [DOMAIN endpoints -> Detail]
        /\ endpoints'[ip] = x /\ \A c \in DOMAIN endpoints \ {ip} : endpoints'[c] = endpoints[c]
    BY <1>0, <1>2, <2>1, <2>2
  <2> QED BY <1>2, <2>1, <2>3
<1>3. CASE ip \in DOMAIN endpoints /\ k # "data" /\ endpoints' = [endpoints EXCEPT ![ip].hop = TRUE]
  <2> DEFINE x == [endpoints[ip] EXCEPT !.hop = TRUE]
  <2>1. /\ x \in Detail /\ x.networks = endpoints[ip].networks /\ x.updated = endpoints[ip].updated
        /\ x.data = endpoints[ip].data
    BY <1>0, <1>3 DEF Detail
  <2>2. endpoints' = [endpoints EXCEPT ![ip] = x]
    BY <1>3
  <2> HIDE DEF x
  <2>3. /\ DOMAIN endpoints' = DOMAIN endpoints /\ endpoints' \in [DOMAIN endpoints -> Detail]
        /\ endpoints'[ip] = x /\ \A c \in DOMAIN endpoints \ {ip} : endpoints'[c] = endpoints[c]
    BY <1>0, <1>3, <2>1, <2>2
  <2> QED BY <2>1, <2>3
<1> QED BY <1>1, <1>2, <1>3 DEF Record

LEMMA RecordKeepsInv ==
    ASSUME EndpointsInv, NEW k \in Kinds, Record(k)
    PROVE  EndpointsInv'
<1>0. /\ held[k] \in HeldItem /\ held[k].outcome = "succeeded"
      /\ held \in [Kinds -> HeldItem]
  BY DEF Record, EndpointsInv, EndpointsTypeOK, HeldItem
<1>1. /\ held' = [held EXCEPT ![k].outcome = "recorded"]
      /\ UNCHANGED <<reporting, set, queue, additions, vouched, reports, restarts>>
  BY DEF Record
<1> DEFINE x == [held[k] EXCEPT !.outcome = "recorded"]
<1>x. x \in HeldItem /\ x.ip = held[k].ip
  <2>1. held[k] \in [ip : PublicAddresses, tries : Nat,
                     outcome : {"verifying", "succeeded", "failed", "recorded"}]
    BY <1>0 DEF HeldItem, Idle
  <2> QED BY <2>1 DEF HeldItem
<1>y. held' = [held EXCEPT ![k] = x]
  BY <1>1
<1> HIDE DEF x
<1>2. /\ held' \in [Kinds -> HeldItem]
      /\ \A j \in Kinds : held'[j].ip = held[j].ip
      /\ \A j \in Kinds \ {k} : held'[j] = held[j]
  BY <1>0, <1>x, <1>y
<1>4. /\ DOMAIN endpoints' = DOMAIN endpoints
      /\ endpoints' \in [DOMAIN endpoints -> Detail]
      /\ \A c \in DOMAIN endpoints :
            /\ endpoints'[c].networks = endpoints[c].networks
            /\ endpoints'[c].updated = endpoints[c].updated
            /\ endpoints'[c].data => endpoints[c].data \/ (c = held[k].ip /\ k = "data")
  BY OneFlagSet DEF EndpointsInv
<1>5. EndpointsTypeOK'
  BY <1>1, <1>2, <1>4 DEF EndpointsInv, EndpointsTypeOK, Detail, HeldItem
<1>6. WorkInv'
  <2>1. \A j \in Kinds : Known(set[j], queue[j], held[j].ip)
    BY WorkIsWork DEF EndpointsInv
  <2>2. \A j \in Kinds : Known(set'[j], queue'[j], held'[j].ip)
    BY <1>1, <1>2, <2>1
  <2> QED BY <2>2, WorkIsWork
<1>7. DataIsOurs'
  BY <1>0, <1>2, <1>4 DEF EndpointsInv, DataIsOurs, Kinds
<1> QED BY <1>1, <1>4, <1>5, <1>6, <1>7, OnlyWorkChanges

LEMMA EndKeepsInv ==
    ASSUME EndpointsInv, NEW k \in Kinds, End(k)
    PROVE  EndpointsInv'
<1> PICK h : h = held[k]
  OBVIOUS
<1>0. /\ h \in [ip : PublicAddresses, tries : Nat,
                outcome : {"verifying", "succeeded", "failed", "recorded"}]
      /\ h.ip # NoAddress /\ held \in [Kinds -> HeldItem]
      /\ queue \in [Kinds -> Seq(Item)] /\ set \in [Kinds -> SUBSET PublicAddresses]
  <2>1. h \in HeldItem /\ held \in [Kinds -> HeldItem]
    BY DEF EndpointsInv, EndpointsTypeOK, HeldItem
  <2>2. h # Idle
    BY DEF End, PutBack, Finish, Idle
  <2>3. queue \in [Kinds -> Seq(Item)] /\ set \in [Kinds -> SUBSET PublicAddresses]
    BY DEF EndpointsInv, EndpointsTypeOK, Item
  <2> QED BY <2>1, <2>2, <2>3, EndpointsAssumption DEF HeldItem
<1>1. /\ held' = [held EXCEPT ![k] = Idle]
      /\ UNCHANGED <<endpoints, reporting, additions, vouched, reports, restarts>>
  BY DEF End
<1>2. /\ held' \in [Kinds -> HeldItem] /\ held'[k] = Idle /\ held'[k].ip = NoAddress
      /\ \A j \in Kinds \ {k} : held'[j] = held[j]
  BY <1>0, <1>1 DEF HeldItem, Idle
<1>3. DataIsOurs'
  BY <1>1, <1>2 DEF EndpointsInv, DataIsOurs, Kinds, Idle
<1> PICK q \in Seq(Item) : q = queue[k]
  BY <1>0
<1>4. \A j \in Kinds : Known(set[j], queue[j], held[j].ip)
  BY WorkIsWork DEF EndpointsInv
<1>5. Known(set[k], q, h.ip)
  BY <1>4
<1>6. CASE PutBack(k)
  <2> DEFINE y == [h EXCEPT !.tries = @ + 1, !.outcome = "none"]
             r == Append(q, y)
  <2>1. y \in Item /\ y.ip = h.ip
    <3> DEFINE z == [h EXCEPT !.tries = h.tries + 1]
    <3>1. h.tries \in Nat /\ h.tries + 1 \in Nat
      BY <1>0
    <3>2. \A t \in Nat : [h EXCEPT !.tries = t] \in [ip : PublicAddresses, tries : Nat,
                 outcome : {"verifying", "succeeded", "failed", "recorded"}]
                 /\ [h EXCEPT !.tries = t].ip = h.ip
      BY <1>0
    <3>3. z \in [ip : PublicAddresses, tries : Nat,
                 outcome : {"verifying", "succeeded", "failed", "recorded"}] /\ z.ip = h.ip
      BY <3>1, <3>2
    <3>4. y = [z EXCEPT !.outcome = "none"]
      BY <1>0
    <3> HIDE DEF z
    <3> QED BY <3>3, <3>4 DEF Item
  <2>2. queue' = [queue EXCEPT ![k] = r] /\ set' = set
    BY <1>6 DEF PutBack
  <2> HIDE DEF y
  <2>3. Known(set[k], r, NoAddress) /\ r \in Seq(Item)
    BY <1>5, <2>1, KnownPutBack, AppendProperties
  <2> HIDE DEF r
  <2>4. queue'[k] = r /\ queue' \in [Kinds -> Seq(Item)]
        /\ \A j \in Kinds \ {k} : queue'[j] = queue[j] /\ set'[j] = set[j]
    BY <1>0, <2>2, <2>3
  <2>5. \A j \in Kinds : Known(set'[j], queue'[j], held'[j].ip)
    BY <1>2, <1>4, <2>2, <2>3, <2>4
  <2>6. WorkInv'
    BY <2>5, WorkIsWork
  <2>7. EndpointsTypeOK'
    BY <1>1, <1>2, <2>2, <2>4 DEF EndpointsInv, EndpointsTypeOK, HeldItem, Item
  <2> QED BY <1>1, <1>3, <2>6, <2>7, OnlyWorkChanges
<1>7. CASE Finish(k)
  <2>1. set' = [set EXCEPT ![k] = @ \ {h.ip}] /\ queue' = queue
    BY <1>7 DEF Finish
  <2>2. /\ set'[k] = set[k] \ {h.ip} /\ set' \in [Kinds -> SUBSET PublicAddresses]
        /\ \A j \in Kinds \ {k} : queue'[j] = queue[j] /\ set'[j] = set[j]
    BY <1>0, <2>1
  <2>3. Known(set'[k], queue'[k], held'[k].ip)
    BY <1>0, <1>2, <1>5, <2>1, <2>2, KnownFinished
  <2>4. \A j \in Kinds : Known(set'[j], queue'[j], held'[j].ip)
    BY <1>2, <1>4, <2>2, <2>3
  <2>5. WorkInv'
    BY <2>4, WorkIsWork
  <2>6. EndpointsTypeOK'
    BY <1>0, <1>1, <1>2, <2>1, <2>2 DEF EndpointsInv, EndpointsTypeOK, HeldItem, Item
  <2> QED BY <1>1, <1>3, <2>5, <2>6, OnlyWorkChanges
<1> QED BY <1>6, <1>7 DEF End

\* Nothing is known, and nothing is being verified.
LEMMA NothingIsKnown ==
    ASSUME DOMAIN endpoints = {}, endpoints = [a \in {} |-> NewEndpoint], reporting = <<>>,
           set = [k \in Kinds |-> {}], queue = [k \in Kinds |-> <<>>],
           held = [k \in Kinds |-> Idle], additions = [n \in Networks |-> 0], reports \in Nat, restarts \in Nat
    PROVE  EndpointsInv
<1>1. IsFiniteSet({}) /\ Cardinality({}) = 0
  BY FS_EmptySet
<1>2. <<>> \in Seq(Item) /\ <<>> \in Seq(Networks) /\ Len(<<>>) = 0
  BY EmptySeq
<1>3. EndpointsTypeOK
  BY <1>1, <1>2 DEF EndpointsTypeOK, Item
<1>4. \A k \in Kinds : Queued(k) = {} /\ held[k].ip = NoAddress /\ queue[k] = <<>> /\ set[k] = {}
  BY DEF Queued, Idle
<1>5. WorkInv
  BY <1>1, <1>2, <1>4 DEF WorkInv, WorkIsKnown, WorkIsOnce
<1>6. DataIsOurs /\ TimesAreApart
  BY DEF DataIsOurs, TimesAreApart, Kinds, Idle
<1>7. VotesAreCounted
  <2>1. \A n \in Networks : {a \in DOMAIN endpoints :
                               n \in endpoints[a].networks /\ <<n, a>> \notin vouched} = {}
    OBVIOUS
  <2> QED BY <1>1, <2>1 DEF VotesAreCounted
<1>8. MapsAreBounded
  BY <1>1, <1>2, EndpointsAssumption DEF MapsAreBounded
<1> QED BY <1>3, <1>5, <1>6, <1>7, <1>8 DEF EndpointsInv

LEMMA EndpointsStep ==
    ASSUME EndpointsInv, [EndpointsNext]_endpointsVars
    PROVE  EndpointsInv'
<1>1. ASSUME NEW r \in Reporters, NEW a \in PublicAddresses, AddEndpoint(r[1], a, r[2])
      PROVE  EndpointsInv'
  BY <1>1, ReportKeepsInv, EndpointsAssumption DEF Networks
<1>u. ASSUME UNCHANGED <<endpoints, reporting, set, queue, held, additions, vouched, reports, restarts>>
      PROVE  EndpointsInv'
  <2>1. EndpointsTypeOK'
    BY <1>u DEF EndpointsInv, EndpointsTypeOK
  <2>2. \A k \in Kinds : Known(set'[k], queue'[k], held'[k].ip)
    BY <1>u, WorkIsWork DEF EndpointsInv
  <2>3. WorkInv'
    BY <2>2, WorkIsWork
  <2>4. DataIsOurs'
    BY <1>u DEF EndpointsInv, DataIsOurs
  <2> QED BY <1>u, <2>1, <2>3, <2>4, OnlyWorkChanges
<1>2. CASE InterfacesChange
  BY <1>2, <1>u DEF InterfacesChange
<1>3. ASSUME NEW k \in Kinds, Take(k) \/ Record(k) \/ End(k) PROVE EndpointsInv'
  BY <1>3, TakeKeepsInv, RecordKeepsInv, EndKeepsInv
<1>4. CASE Restart
  <2>1. /\ DOMAIN endpoints' = {} /\ endpoints' = [a \in {} |-> NewEndpoint] /\ reporting' = <<>>
        /\ set' = [k \in Kinds |-> {}] /\ queue' = [k \in Kinds |-> <<>>]
        /\ additions' = [n \in Networks |-> 0] /\ reports' \in Nat /\ restarts' \in Nat
    BY <1>4 DEF Restart, EndpointsInv, EndpointsTypeOK
  <2>2. held' = [k \in Kinds |-> Idle]
    BY <1>4 DEF Restart, EndpointsInv, EndpointsTypeOK
  <2>3. IsFiniteSet({}) /\ Cardinality({}) = 0
    BY FS_EmptySet
  <2>4. <<>> \in Seq(Item) /\ <<>> \in Seq(Networks) /\ Len(<<>>) = 0
    BY EmptySeq
  <2>5. EndpointsTypeOK'
    BY <2>1, <2>2, <2>3, <2>4 DEF EndpointsTypeOK, Item
  <2>6. \A k \in Kinds : held'[k].ip = NoAddress /\ queue'[k] = <<>> /\ set'[k] = {}
    BY <2>1, <2>2 DEF Idle
  <2>f. Known({}, <<>>, NoAddress)
    BY <2>3, <2>4 DEF Known, Ips, Once
  <2>7. WorkInv'
    <3>1. \A k \in Kinds : Known(set'[k], queue'[k], held'[k].ip)
      BY <2>6, <2>f
    <3> QED BY <3>1, WorkIsWork
  <2>8. DataIsOurs' /\ TimesAreApart'
    BY <2>1, <2>2 DEF DataIsOurs, TimesAreApart, Kinds, Idle
  <2>9. VotesAreCounted'
    <3>1. \A n \in Networks : {a \in DOMAIN endpoints' :
                                 n \in endpoints'[a].networks /\ <<n, a>> \notin vouched'} = {}
      BY <2>1
    <3> QED BY <2>1, <2>3, <3>1 DEF VotesAreCounted
  <2>10. MapsAreBounded'
    BY <2>1, <2>3, <2>4, EndpointsAssumption DEF MapsAreBounded
  <2> QED BY <2>5, <2>7, <2>8, <2>9, <2>10 DEF EndpointsInv
<1>5. CASE UNCHANGED endpointsVars
  BY <1>5, <1>u DEF endpointsVars
<1> QED BY <1>1, <1>2, <1>3, <1>4, <1>5 DEF EndpointsNext

\* The inductive invariant: what waits to be verified does so once, only addresses of this
\* node were reached, every vote was counted, and no two endpoints were updated by the same
\* report (Core/PublicEndpoints.cpp).
THEOREM EndpointsInvariant == EndpointsSpec => []EndpointsInv
<1>1. EndpointsInit => EndpointsInv
  BY NothingIsKnown DEF EndpointsInit
<1>2. EndpointsInv /\ [EndpointsNext]_endpointsVars => EndpointsInv'
  BY EndpointsStep
<1> QED BY <1>1, <1>2, PTL DEF EndpointsSpec

\* Types: what is known of an address, the queues of both kinds of verification and what
\* their workers hold (m_Endpoints and m_...Verification in Core/PublicEndpoints.h).
THEOREM EndpointsTypeCorrect == EndpointsSpec => []EndpointsTypeOK
<1>1. EndpointsInv => EndpointsTypeOK
  BY DEF EndpointsInv
<1> QED BY <1>1, EndpointsInvariant, PTL

\* An address is in the set of a verification exactly while it waits once or is worked on,
\* only an address of this node is ever verified, untrusted peers of one network do not count
\* more often than it is heard, and both maps keep to their limits (AddPublicEndpoint and the
\* worker threads of Core/PublicEndpoints.cpp): for all addresses, peers and limits.
THEOREM EndpointsSound == EndpointsSpec => []EndpointsAreSound
<1>1. EndpointsInv => EndpointsAreSound
  BY DEF EndpointsInv, EndpointsAreSound, WorkInv, DataIsOurs, VerifiedIsOurs, IsVerified
<1> QED BY <1>1, EndpointsInvariant, PTL

\* No report drives out a trusted endpoint while an untrusted one is left, nor a verified one
\* while one is left that is neither (RemoveLeastRelevantEndpoints).
THEOREM RelevantEndpointsStay == EndpointsSpec => RelevantStay
<1>1. EndpointsInv /\ [EndpointsNext]_endpointsVars => [RelevantStaysNow]_endpointsVars
  <2> SUFFICES ASSUME EndpointsInv, [EndpointsNext]_endpointsVars PROVE [RelevantStaysNow]_endpointsVars
    OBVIOUS
  <2>0. ASSUME DOMAIN endpoints \subseteq DOMAIN endpoints' PROVE RelevantStaysNow
    BY <2>0 DEF RelevantStaysNow
  <2>1. ASSUME NEW r \in Reporters, NEW a \in PublicAddresses, AddEndpoint(r[1], a, r[2])
        PROVE  RelevantStaysNow
    <3>1. PICK kept : EndpointsAfter(kept, r[1], a, r[2])
      BY <2>1, EndpointAdded, EndpointsAssumption DEF Networks
    <3>2. CASE kept = DOMAIN endpoints
      BY <2>0, <3>1, <3>2 DEF EndpointsAfter
    <3>3. CASE kept # DOMAIN endpoints
      <4>1. DOMAIN endpoints \ DOMAIN endpoints' \subseteq {LeastRelevant} /\ DOMAIN endpoints # {}
        BY <3>1, <3>3 DEF EndpointsAfter
      <4>2. \A b \in DOMAIN endpoints \ {LeastRelevant} : LessRelevant(LeastRelevant, b)
        BY <4>1, LeastRelevantExists DEF EndpointsInv
      <4>3. ASSUME NEW c \in DOMAIN endpoints \ DOMAIN endpoints', NEW b \in DOMAIN endpoints
            PROVE  /\ endpoints[c].trusted => endpoints[b].trusted
                   /\ IsVerified(endpoints[c]) /\ ~endpoints[c].trusted
                         => endpoints[b].trusted \/ IsVerified(endpoints[b])
        <5>1. CASE b = c
          BY <5>1
        <5>2. CASE b # c
          <6>1. LessRelevant(c, b)
            BY <4>1, <4>2, <5>2
          <6> QED BY <6>1 DEF LessRelevant
        <5> QED BY <5>1, <5>2
      <4> QED BY <4>3 DEF RelevantStaysNow
    <3> QED BY <3>2, <3>3
  <2>2. CASE InterfacesChange
    BY <2>0, <2>2 DEF InterfacesChange
  <2>3. ASSUME NEW k \in Kinds, Take(k) \/ Record(k) \/ End(k) PROVE RelevantStaysNow
    <3>1. CASE Take(k) \/ End(k)
      BY <2>0, <3>1 DEF Take, End
    <3>2. CASE Record(k)
      <4>1. \/ endpoints' = endpoints
            \/ endpoints' = [endpoints EXCEPT ![held[k].ip].data = TRUE]
            \/ endpoints' = [endpoints EXCEPT ![held[k].ip].hop = TRUE]
        BY <3>2 DEF Record
      <4> QED BY <2>0, <4>1
    <3> QED BY <2>3, <3>1, <3>2
  <2>4. CASE Restart
    <3>1. restarts' = restarts + 1 /\ restarts \in Nat
      BY <2>4 DEF Restart, EndpointsInv, EndpointsTypeOK
    <3>2. restarts' # restarts
      BY <3>1
    <3> QED BY <3>2 DEF RelevantStaysNow
  <2> QED BY <2>1, <2>2, <2>3, <2>4 DEF EndpointsNext
<1> QED BY <1>1, EndpointsInvariant, PTL DEF EndpointsSpec, RelevantStay

-----------------------------------------------------------------------------
(* The limits on subnets: what the folds over limits and connections do.   *)

LEMMA SmallestOf ==
    ASSUME NEW T \in SUBSET Nat, T # {}
    PROVE  Smallest(T) \in T
BY EarliestTime DEF Smallest

\* What holds of the empty set, and of a set if it does without one of its elements, holds
\* of all subsets of a finite set.
LEMMA SubsetInduction ==
    ASSUME NEW S, IsFiniteSet(S), NEW Good, {} \in Good,
           \A s \in SUBSET S : s # {} => \E x \in s : s \ {x} \in Good => s \in Good
    PROVE  \A s \in SUBSET S : s \in Good
<1> DEFINE Bad == {s \in SUBSET S : s \notin Good}
           Sizes == {Cardinality(s) : s \in Bad}
<1>1. \A s \in SUBSET S : IsFiniteSet(s) /\ Cardinality(s) \in Nat
  BY FS_Subset, FS_CardinalityType
<1>2. SUFFICES ASSUME Bad # {} PROVE FALSE
  OBVIOUS
<1>3. Sizes \in SUBSET Nat /\ Sizes # {}
  BY <1>1, <1>2
<1>4. PICK s \in Bad : \A t \in Bad : Cardinality(s) <= Cardinality(t)
  <2>1. PICK i \in Sizes : \A j \in Sizes : i <= j
    BY <1>3, EarliestTime
  <2> QED BY <2>1
<1>5. PICK x \in s : s \ {x} \in Good => s \in Good
  BY <1>4
<1>6. s \ {x} \in Bad
  BY <1>4, <1>5
<1>7. Cardinality(s \ {x}) = Cardinality(s) - 1
  BY <1>1, <1>5, FS_RemoveElement
<1> QED BY <1>1, <1>4, <1>6, <1>7

\* The four folds of the model: limits that count a connection, or give it back, connections
\* that a new limit counts, peers that are disconnected.  about is what they depend on.
SomeOf(s) == CHOOSE x \in s : TRUE
Chosen(kind, s) == IF kind \in {"on", "off"} THEN Smallest(s) ELSE SomeOf(s)
FoldStep(kind, about, x, done) ==
    IF kind = "on" THEN PutOn(about, x, done)
    ELSE IF kind = "off" THEN TakeOff(about, x, done)
    ELSE IF kind = "limit"
    THEN AddLimitConnection(done, about.bits, x, about.state.connections[x], TRUE).state
    ELSE RemoveConnection(done, about[x].addr).state
IsFold(g, kind, about, first, S) ==
    g = [s \in SUBSET S |-> IF s = {} THEN first
                            ELSE FoldStep(kind, about, Chosen(kind, s), g[s \ {Chosen(kind, s)}])]

LEMMA ChosenIs ==
    ASSUME NEW kind, NEW S, kind \in {"on", "off"} => S \subseteq Nat
    PROVE  \A s \in SUBSET S : s # {} => Chosen(kind, s) \in s
BY SmallestOf DEF Chosen, SomeOf

\* The function by which a fold is defined exists.
LEMMA FoldExists ==
    ASSUME NEW kind, NEW about, NEW first, NEW S, IsFiniteSet(S),
           kind \in {"on", "off"} => S \subseteq Nat
    PROVE  \E g : IsFold(g, kind, about, first, S)
<1> DEFINE Going(s, g) == IF s = {} THEN first
                         ELSE FoldStep(kind, about, Chosen(kind, s), g[s \ {Chosen(kind, s)}])
           UpTo(g, n) == /\ g = [s \in SUBSET S |-> g[s]]
                         /\ \A s \in SUBSET S : Cardinality(s) <= n => g[s] = Going(s, g)
           Missing == {n \in Nat : ~\E g : UpTo(g, n)}
<1>1. \A s \in SUBSET S : IsFiniteSet(s) /\ Cardinality(s) \in Nat
  BY FS_Subset, FS_CardinalityType
<1>2. ASSUME NEW s \in SUBSET S, s # {}
      PROVE  /\ s \ {Chosen(kind, s)} \in SUBSET S
             /\ Cardinality(s \ {Chosen(kind, s)}) = Cardinality(s) - 1
  BY <1>1, <1>2, ChosenIs, FS_RemoveElement
<1>3. Missing = {}
  <2> SUFFICES ASSUME Missing # {} PROVE FALSE
    OBVIOUS
  <2>1. PICK m \in Missing : \A n \in Missing : m <= n
    <3> HIDE DEF UpTo
    <3> QED BY EarliestTime
  <2>2. CASE m = 0
    <3> DEFINE g == [s \in SUBSET S |-> first]
    <3>1. \A s \in SUBSET S : Cardinality(s) <= 0 => s = {}
      BY <1>1, FS_EmptySet
    <3>2. UpTo(g, 0)
      BY <3>1
    <3> QED BY <2>1, <2>2, <3>2
  <2>3. CASE m # 0
    <3>1. PICK g : UpTo(g, m - 1)
      <4> HIDE DEF UpTo
      <4> QED BY <2>1, <2>3
    <3> DEFINE h == [s \in SUBSET S |-> IF Cardinality(s) <= m - 1 THEN g[s] ELSE Going(s, g)]
    <3>2. ASSUME NEW s \in SUBSET S, Cardinality(s) <= m
          PROVE  h[s] = Going(s, h)
      <4>1. CASE s = {}
        <5>1. Cardinality(s) <= m - 1
          BY <2>1, <2>3, <4>1, FS_EmptySet
        <5>2. h[s] = g[s] /\ g[s] = first
          BY <3>1, <4>1, <5>1
        <5> QED BY <4>1, <5>2
      <4>2. CASE s # {}
        <5> DEFINE r == s \ {Chosen(kind, s)}
        <5>1. r \in SUBSET S /\ Cardinality(r) <= m - 1
          BY <1>1, <1>2, <2>1, <3>2, <4>2
        <5>2. h[r] = g[r]
          BY <5>1
        <5>3. h[s] = Going(s, g)
          BY <3>1
        <5> HIDE DEF h
        <5> QED BY <4>2, <5>2, <5>3
      <4> QED BY <4>1, <4>2
    <3>3. UpTo(h, m)
      <4>1. h = [s \in SUBSET S |-> h[s]]
        OBVIOUS
      <4> HIDE DEF h
      <4> QED BY <3>2, <4>1
    <3> HIDE DEF UpTo
    <3> QED BY <2>1, <3>3
  <2> QED BY <2>2, <2>3
<1>4. PICK g : UpTo(g, Cardinality(S))
  <2> HIDE DEF UpTo
  <2> QED BY <1>1, <1>3
<1>5. \A s \in SUBSET S : Cardinality(s) <= Cardinality(S)
  BY FS_Subset
<1>6. \A s \in SUBSET S : g[s] = Going(s, g)
  BY <1>4, <1>5
<1>7. g = [s \in SUBSET S |-> Going(s, g)]
  BY <1>4, <1>6
<1> QED BY <1>7 DEF IsFold

LEMMA FoldStarts ==
    ASSUME NEW kind, NEW about, NEW first, NEW S, NEW g, IsFold(g, kind, about, first, S)
    PROVE  g[{}] = first
BY DEF IsFold

\* The elements that come one after the other are numbers.
CanFold(kind, S) == kind \in {"on", "off"} => S \subseteq Nat

LEMMA FoldGoesOn ==
    ASSUME NEW kind, NEW about, NEW first, NEW S, NEW g,
           IsFold(g, kind, about, first, S), CanFold(kind, S)
    PROVE  \A s \in SUBSET S : s # {} =>
              \E x \in s : g[s] = FoldStep(kind, about, x, g[s \ {x}])
<1> SUFFICES ASSUME NEW s \in SUBSET S, s # {}
             PROVE  \E x \in s : g[s] = FoldStep(kind, about, x, g[s \ {x}])
  OBVIOUS
<1>1. PICK x : x = Chosen(kind, s)
  OBVIOUS
<1>2. x \in s
  BY <1>1, ChosenIs DEF CanFold
<1>3. g[s] = FoldStep(kind, about, x, g[s \ {x}])
  BY <1>1 DEF IsFold
<1> QED BY <1>2, <1>3

\* All limits count a connection.
AllOn(state, ip) ==
    InOrder(LAMBDA bits, done : PutOn(ip, bits, done), Outcome(TRUE, state), state)

LEMMA PutOnAll ==
    ASSUME NEW state, NEW ip, IsFiniteSet(DOMAIN state.limits), DOMAIN state.limits \subseteq Nat
    PROVE  \E g : /\ IsFold(g, "on", ip, Outcome(TRUE, state), DOMAIN state.limits)
                  /\ AllOn(state, ip) = g[DOMAIN state.limits]
<1> DEFINE S == DOMAIN state.limits
           first == Outcome(TRUE, state)
           Fits(g) == g = [s \in SUBSET S |-> IF s = {} THEN first
                             ELSE LET x == Smallest(s) IN PutOn(ip, x, g[s \ {x}])]
           all == CHOOSE g : Fits(g)
<1>1. AllOn(state, ip) = all[S]
  BY DEF AllOn, InOrder, MapThenFoldSet
<1>2. \A g : IsFold(g, "on", ip, first, S) <=> Fits(g)
  BY DEF IsFold, FoldStep, Chosen
<1>3. \E g : Fits(g)
  BY <1>2, FoldExists
<1>4. Fits(all)
  <2> HIDE DEF Fits
  <2> QED BY <1>3, Zenon
<1> HIDE DEF all, Fits
<1> QED BY <1>1, <1>2, <1>4

LEMMA TakeOffAll ==
    ASSUME NEW state, NEW ip, IsFiniteSet(DOMAIN state.limits), DOMAIN state.limits \subseteq Nat
    PROVE  \E g : /\ IsFold(g, "off", ip, Outcome(TRUE, state), DOMAIN state.limits)
                  /\ RemoveLimitsConnection(state, ip) = g[DOMAIN state.limits]
<1> DEFINE S == DOMAIN state.limits
           first == Outcome(TRUE, state)
           Fits(g) == g = [s \in SUBSET S |-> IF s = {} THEN first
                             ELSE LET x == Smallest(s) IN TakeOff(ip, x, g[s \ {x}])]
           all == CHOOSE g : Fits(g)
<1>1. RemoveLimitsConnection(state, ip) = all[S]
  BY DEF RemoveLimitsConnection, InOrder, MapThenFoldSet
<1>2. \A g : IsFold(g, "off", ip, first, S) <=> Fits(g)
  BY DEF IsFold, FoldStep, Chosen
<1>3. \E g : Fits(g)
  BY <1>2, FoldExists
<1>4. Fits(all)
  <2> HIDE DEF Fits
  <2> QED BY <1>3, Zenon
<1> HIDE DEF all, Fits
<1> QED BY <1>1, <1>2, <1>4

LEMMA CountAll ==
    ASSUME NEW state, NEW bits, NEW max, IsFiniteSet(DOMAIN state.connections)
    PROVE  \E g : /\ IsFold(g, "limit", [bits |-> bits, state |-> state],
                            [state EXCEPT !.limits = With(@, bits, max)], DOMAIN state.connections)
                  /\ AddLimit(state, bits, max) = g[DOMAIN state.connections]
<1> DEFINE S == DOMAIN state.connections
           about == [bits |-> bits, state |-> state]
           first == [state EXCEPT !.limits = With(@, bits, max)]
           Fits(g) == g = [s \in SUBSET S |-> IF s = {} THEN first
                             ELSE LET x == SomeOf(s)
                                  IN AddLimitConnection(g[s \ {x}], bits, x,
                                                        state.connections[x], TRUE).state]
           all == CHOOSE g : Fits(g)
<1>1. AddLimit(state, bits, max) = all[S]
  BY DEF AddLimit, FoldSet, MapThenFoldSet, SomeOf
<1>2. \A g : IsFold(g, "limit", about, first, S) <=> Fits(g)
  <2>1. \A x, done : FoldStep("limit", about, x, done) =
                     AddLimitConnection(done, bits, x, state.connections[x], TRUE).state
    BY DEF FoldStep
  <2>2. \A s : Chosen("limit", s) = SomeOf(s)
    BY DEF Chosen
  <2>3. ASSUME NEW g
        PROVE  \A s \in SUBSET S : FoldStep("limit", about, Chosen("limit", s), g[s \ {Chosen("limit", s)}])
                  = AddLimitConnection(g[s \ {SomeOf(s)}], bits, SomeOf(s), state.connections[SomeOf(s)], TRUE).state
    BY <2>1, <2>2
  <2> HIDE DEF about, first
  <2> QED BY <2>3 DEF IsFold
<1>3. \E g : Fits(g)
  <2> HIDE DEF about, first, Fits
  <2> QED BY <1>2, FoldExists
<1>4. Fits(all)
  <2> HIDE DEF Fits
  <2> QED BY <1>3, Zenon
<1> HIDE DEF all, Fits
<1> QED BY <1>1, <1>2, <1>4

LEMMA DisconnectAll ==
    ASSUME NEW state, NEW S, IsFiniteSet(S)
    PROVE  \E g : /\ IsFold(g, "stop", peers, state, S)
                  /\ FoldSet(LAMBDA p, done : RemoveConnection(done, peers[p].addr).state, state, S)
                        = g[S]
<1> DEFINE Fits(g) == g = [s \in SUBSET S |-> IF s = {} THEN state
                             ELSE LET x == SomeOf(s)
                                  IN RemoveConnection(g[s \ {x}], peers[x].addr).state]
           all == CHOOSE g : Fits(g)
<1>1. FoldSet(LAMBDA p, done : RemoveConnection(done, peers[p].addr).state, state, S) = all[S]
  BY DEF FoldSet, MapThenFoldSet, SomeOf
<1>2. \A g : IsFold(g, "stop", peers, state, S) <=> Fits(g)
  <2>1. \A x, done : FoldStep("stop", peers, x, done) = RemoveConnection(done, peers[x].addr).state
    BY DEF FoldStep
  <2>2. \A s : Chosen("stop", s) = SomeOf(s)
    BY DEF Chosen
  <2> QED BY <2>1, <2>2 DEF IsFold
<1>3. \E g : Fits(g)
  <2> HIDE DEF Fits
  <2> QED BY <1>2, FoldExists
<1>4. Fits(all)
  <2> HIDE DEF Fits
  <2> QED BY <1>3, Zenon
<1> HIDE DEF all, Fits
<1> QED BY <1>1, <1>2, <1>4

-----------------------------------------------------------------------------
(* The access manager's books: addresses A, limits L.                      *)

IsDetail(detail, subnet, state, A) ==
    /\ detail = [bits |-> detail.bits, count |-> detail.count]
    /\ detail.bits \in DOMAIN state.limits /\ detail.count \in Nat \ {0}
    /\ \E a \in A : subnet = SubnetOf(a, detail.bits)

IsAccess(state, A, L) ==
    /\ state = [limits |-> state.limits, connections |-> state.connections,
                details |-> state.details, dangling |-> state.dangling]
    /\ DOMAIN state.limits \subseteq L
    /\ \A b \in DOMAIN state.limits : state.limits[b] \in Nat
    /\ DOMAIN state.connections \subseteq A
    /\ \A a \in DOMAIN state.connections : state.connections[a] \in Nat \ {0}
    /\ \A subnet \in DOMAIN state.details : IsDetail(state.details[subnet], subnet, state, A)

Apart(A, L) ==
    \A i, j \in L : i # j => \A a, b \in A : SubnetOf(a, i) # SubnetOf(b, j)

NumberOf(state, a) == IF a \in DOMAIN state.connections THEN state.connections[a] ELSE 0

SameButCounts(one, other) ==
    one.connections = other.connections /\ one.limits = other.limits

HasCounts(state) == /\ IsFiniteSet(DOMAIN state.connections)
                    /\ \A a \in DOMAIN state.connections : state.connections[a] \in Nat \ {0}

Ranges(A, L) == IsFiniteSet(A) /\ IsFiniteSet(L) /\ L \subseteq Nat

LEMMA CountsAreFinite ==
    ASSUME NEW A, NEW L, Ranges(A, L), NEW state, IsAccess(state, A, L)
    PROVE  HasCounts(state) /\ IsFiniteSet(DOMAIN state.limits) /\ DOMAIN state.limits \subseteq Nat
BY FS_Subset DEF Ranges, IsAccess, HasCounts

\* A limit that counts, or gives back, connections of an address.
Counting(state, bits, ip, num, A, L) ==
    /\ IsAccess(state, A, L)
    /\ bits \in DOMAIN state.limits /\ ip \in A /\ num \in Nat \ {0}

LEMMA LimitCounts ==
    ASSUME NEW A, NEW L, NEW state, NEW bits, NEW ip, NEW num, NEW overflow, NEW one,
           Counting(state, bits, ip, num, A, L),
           one = AddLimitConnection(state, bits, ip, num, overflow)
    PROVE  /\ one = [ok |-> one.ok, state |-> one.state] /\ one.ok \in BOOLEAN
           /\ IsAccess(one.state, A, L) /\ SameButCounts(one.state, state)
           /\ (overflow \/ CountIn(state, ip, bits) < state.limits[bits] \/ CountIn(state, ip, bits) = 0)
                => /\ one.ok
                   /\ \A a \in A, b \in L :
                         CountIn(one.state, a, b) = CountIn(state, a, b)
                            + (IF SubnetOf(a, b) = SubnetOf(ip, bits) THEN num ELSE 0)
<1> USE DEF Counting
<1> DEFINE subnet == SubnetOf(ip, bits)
           Entered(detail) == [state EXCEPT !.details = With(@, subnet, detail)]
<1>1. ASSUME NEW detail, IsDetail(detail, subnet, state, A),
             NEW next, next = Entered(detail)
      PROVE  /\ IsAccess(next, A, L) /\ SameButCounts(next, state)
             /\ next.details = With(state.details, subnet, detail)
  <2>1. /\ next.details = With(state.details, subnet, detail)
        /\ next.limits = state.limits /\ next.connections = state.connections
        /\ next = [limits |-> next.limits, connections |-> next.connections,
                   details |-> next.details, dangling |-> next.dangling]
    BY <1>1 DEF IsAccess
  <2>2. \A s \in DOMAIN next.details : IsDetail(next.details[s], s, next, A)
    <3> SUFFICES ASSUME NEW s \in DOMAIN next.details
                 PROVE  IsDetail(next.details[s], s, next, A)
      OBVIOUS
    <3>1. IsDetail(next.details[s], s, state, A)
      <4>1. /\ DOMAIN next.details = DOMAIN state.details \cup {subnet}
            /\ next.details[subnet] = detail
            /\ \A z \in DOMAIN state.details : z # subnet => next.details[z] = state.details[z]
        BY <2>1 DEF With
      <4> QED BY <1>1, <4>1 DEF IsAccess
    <3> QED BY <2>1, <3>1 DEF IsDetail
  <2> QED BY <2>1, <2>2 DEF IsAccess, SameButCounts
<1>2. ASSUME NEW detail, NEW next, next.details = With(state.details, subnet, detail),
             NEW a \in A, NEW b \in L
      PROVE  CountIn(next, a, b) = IF SubnetOf(a, b) = subnet THEN detail.count
                                   ELSE CountIn(state, a, b)
  BY <1>2 DEF CountIn, With
<1>3. CASE subnet \notin DOMAIN state.details
  <2> DEFINE detail == [bits |-> bits, count |-> num]
             next == Entered(detail)
  <2>1. one = [ok |-> TRUE, state |-> next]
    BY <1>3 DEF AddLimitConnection, Outcome
  <2>2. IsDetail(detail, subnet, state, A)
    BY DEF IsDetail
  <2>3. IsAccess(next, A, L) /\ SameButCounts(next, state)
        /\ next.details = With(state.details, subnet, detail)
    <3> HIDE DEF detail
    <3> QED BY <1>1, <2>2
  <2>4. ASSUME NEW a \in A, NEW b \in L
        PROVE  CountIn(next, a, b) = CountIn(state, a, b)
                   + (IF SubnetOf(a, b) = SubnetOf(ip, bits) THEN num ELSE 0)
    <3>1. SubnetOf(a, b) = subnet => CountIn(state, a, b) = 0
      BY <1>3 DEF CountIn
    <3>2. CountIn(state, a, b) \in Nat
      BY DEF CountIn, IsAccess, IsDetail
    <3>3. CountIn(next, a, b) = IF SubnetOf(a, b) = subnet THEN num ELSE CountIn(state, a, b)
      BY <1>2, <2>3
    <3> QED BY <3>1, <3>2, <3>3
  <2> HIDE DEF next, detail
  <2> QED BY <2>1, <2>3, <2>4
<1>4. CASE subnet \in DOMAIN state.details
  <2> DEFINE old == state.details[subnet]
             detail == [old EXCEPT !.count = @ + num]
             next == Entered(detail)
  <2>1. IsDetail(old, subnet, state, A) /\ CountIn(state, ip, bits) = old.count
    BY <1>4 DEF IsAccess, CountIn
  <2>2. detail.count = old.count + num /\ IsDetail(detail, subnet, state, A)
    BY <2>1 DEF IsDetail
  <2>3. IsAccess(next, A, L) /\ SameButCounts(next, state)
        /\ next.details = With(state.details, subnet, detail)
    <3> HIDE DEF detail
    <3> QED BY <1>1, <2>2
  <2>4. ASSUME NEW a \in A, NEW b \in L
        PROVE  CountIn(next, a, b) = CountIn(state, a, b)
                   + (IF SubnetOf(a, b) = SubnetOf(ip, bits) THEN num ELSE 0)
    <3>1. SubnetOf(a, b) = subnet => CountIn(state, a, b) = old.count
      BY <1>4 DEF CountIn
    <3>2. CountIn(state, a, b) \in Nat
      BY DEF CountIn, IsAccess, IsDetail
    <3>3. CountIn(next, a, b) = IF SubnetOf(a, b) = subnet THEN detail.count
                                ELSE CountIn(state, a, b)
      BY <1>2, <2>3
    <3> HIDE DEF detail, old
    <3> QED BY <2>2, <3>1, <3>2, <3>3
  <2>5. one = IF old.count < state.limits[bits] \/ overflow THEN [ok |-> TRUE, state |-> next]
              ELSE [ok |-> FALSE, state |-> state]
    BY <1>4 DEF AddLimitConnection, Outcome
  <2>6. old.count # 0
    BY <2>1 DEF IsDetail
  <2> HIDE DEF next, old
  <2>7. CASE old.count < state.limits[bits] \/ overflow
    <3>1. one = [ok |-> TRUE, state |-> next]
      BY <2>5, <2>7
    <3> QED BY <2>3, <2>4, <3>1
  <2>8. CASE ~(old.count < state.limits[bits] \/ overflow)
    <3>1. one = [ok |-> FALSE, state |-> state]
      BY <2>5, <2>8
    <3>2. ~overflow /\ ~(CountIn(state, ip, bits) < state.limits[bits])
      BY <2>1, <2>8
    <3>3. CountIn(state, ip, bits) # 0
      BY <2>1, <2>6
    <3> QED BY <3>1, <3>2, <3>3 DEF SameButCounts
  <2> QED BY <2>7, <2>8
<1> QED BY <1>3, <1>4

\* A limit gives back a connection of an address.
LEMMA LimitGivesBack ==
    ASSUME NEW A, NEW L, NEW state, NEW bits, NEW ip, NEW one,
           Counting(state, bits, ip, 1, A, L),
           one = RemoveLimitConnection(state, bits, ip)
    PROVE  /\ IsAccess(one.state, A, L) /\ SameButCounts(one.state, state)
           /\ CountIn(state, ip, bits) # 0 =>
                  \A a \in A, b \in L :
                      CountIn(one.state, a, b) = CountIn(state, a, b)
                         - (IF SubnetOf(a, b) = SubnetOf(ip, bits) THEN 1 ELSE 0)
<1> USE DEF Counting
<1> DEFINE subnet == SubnetOf(ip, bits)
           old == state.details[subnet]
<1>1. CASE subnet \notin DOMAIN state.details
  <2>1. one.state = state /\ CountIn(state, ip, bits) = 0
    BY <1>1 DEF RemoveLimitConnection, Outcome, CountIn
  <2> QED BY <2>1 DEF SameButCounts
<1>2. CASE subnet \in DOMAIN state.details
  <2>1. IsDetail(old, subnet, state, A)
    BY <1>2 DEF IsAccess
  <2>2. \A a \in A, b \in L : /\ CountIn(state, a, b) \in Nat
                              /\ SubnetOf(a, b) = subnet => CountIn(state, a, b) = old.count
    BY <1>2 DEF CountIn, IsAccess, IsDetail
  <2>3. CASE old.count = 1
    <3> DEFINE next == [state EXCEPT !.details = Less(@, {subnet})]
    <3>1. one.state = next
      BY <1>2, <2>3 DEF RemoveLimitConnection, Outcome
    <3>2. /\ next.details = Less(state.details, {subnet})
          /\ next.limits = state.limits /\ next.connections = state.connections
          /\ next = [limits |-> next.limits, connections |-> next.connections,
                     details |-> next.details, dangling |-> next.dangling]
      BY DEF IsAccess
    <3> HIDE DEF next
    <3>3. \A s \in DOMAIN next.details : IsDetail(next.details[s], s, next, A)
      <4>1. \A s \in DOMAIN next.details : IsDetail(next.details[s], s, state, A)
        BY <3>2 DEF IsAccess, Less
      <4> QED BY <3>2, <4>1 DEF IsDetail
    <3>4. IsAccess(next, A, L) /\ SameButCounts(next, state)
      BY <3>2, <3>3 DEF IsAccess, SameButCounts
    <3>5. \A a \in A, b \in L :
              CountIn(next, a, b) = IF SubnetOf(a, b) = subnet THEN 0 ELSE CountIn(state, a, b)
      BY <3>2 DEF CountIn, Less
    <3> QED BY <2>2, <2>3, <3>1, <3>4, <3>5
  <2>4. CASE old.count # 1
    <3> DEFINE next == [state EXCEPT !.details[subnet].count = @ - 1]
    <3>1. one.state = next
      BY <1>2, <2>1, <2>4 DEF RemoveLimitConnection, Outcome, IsDetail
    <3>2. /\ next.details = [state.details EXCEPT ![subnet] = [old EXCEPT !.count = @ - 1]]
          /\ next.limits = state.limits /\ next.connections = state.connections
          /\ next = [limits |-> next.limits, connections |-> next.connections,
                     details |-> next.details, dangling |-> next.dangling]
      BY DEF IsAccess
    <3> HIDE DEF next
    <3>3. /\ DOMAIN next.details = DOMAIN state.details
          /\ next.details[subnet] = [bits |-> old.bits, count |-> old.count - 1]
          /\ \A s \in DOMAIN state.details : s # subnet => next.details[s] = state.details[s]
      BY <1>2, <2>1, <3>2 DEF IsDetail
    <3>4. \A s \in DOMAIN next.details : IsDetail(next.details[s], s, next, A)
      <4>1. IsDetail(next.details[subnet], subnet, next, A)
        BY <2>1, <2>4, <3>2, <3>3 DEF IsDetail
      <4>2. \A s \in DOMAIN next.details : s # subnet => IsDetail(next.details[s], s, state, A)
        BY <3>3 DEF IsAccess
      <4> QED BY <3>2, <4>1, <4>2 DEF IsDetail
    <3>5. IsAccess(next, A, L) /\ SameButCounts(next, state)
      BY <3>2, <3>4 DEF IsAccess, SameButCounts
    <3>6. \A a \in A, b \in L :
              CountIn(next, a, b) = IF SubnetOf(a, b) = subnet THEN old.count - 1
                                    ELSE CountIn(state, a, b)
      BY <1>2, <3>3 DEF CountIn
    <3>7. old.count \in Nat
      BY <2>1 DEF IsDetail
    <3> HIDE DEF old
    <3> QED BY <2>2, <3>1, <3>5, <3>6, <3>7
  <2> QED BY <2>3, <2>4
<1> QED BY <1>1, <1>2

\* All limits count a connection of an address for which there is room.
LEMMA LimitsCount ==
    ASSUME NEW A, NEW L, Ranges(A, L), NEW state, IsAccess(state, A, L), NEW ip \in A,
           NEW all, all = AllOn(state, ip)
    PROVE  /\ all.ok \in BOOLEAN /\ IsAccess(all.state, A, L) /\ SameButCounts(all.state, state)
           /\ Apart(A, L) /\ LimitsAcceptConnection(state, ip) =>
                 /\ all.ok
                 /\ \A a \in A, b \in DOMAIN state.limits :
                       CountIn(all.state, a, b) = CountIn(state, a, b)
                          + (IF SubnetOf(a, b) = SubnetOf(ip, b) THEN 1 ELSE 0)
<1> DEFINE S == DOMAIN state.limits
<1>0. IsFiniteSet(S)
  BY CountsAreFinite
<1>1. S \subseteq Nat /\ S \subseteq L
  BY CountsAreFinite DEF IsAccess
<1>2. PICK g : IsFold(g, "on", ip, Outcome(TRUE, state), S) /\ all = g[S]
  BY <1>0, <1>1, PutOnAll
<1> DEFINE first == Outcome(TRUE, state)
<1>3. /\ g[{}] = Outcome(TRUE, state)
      /\ \A s \in SUBSET S : s # {} => \E x \in s : g[s] = PutOn(ip, x, g[s \ {x}])
  <2> HIDE DEF S
  <2>1. g[{}] = Outcome(TRUE, state)
    BY <1>2, FoldStarts
  <2>2. ASSUME NEW s \in SUBSET S, s # {}
        PROVE  \E x \in s : g[s] = PutOn(ip, x, g[s \ {x}])
    <3>0. IsFold(g, "on", ip, first, S) /\ CanFold("on", S)
      BY <1>1, <1>2 DEF CanFold
    <3> HIDE DEF first
    <3>1. \E x \in s : g[s] = FoldStep("on", ip, x, g[s \ {x}])
      BY <3>0, <2>2, FoldGoesOn
    <3> QED BY <3>1 DEF FoldStep
  <2> QED BY <2>1, <2>2
<1> DEFINE Added(s, a, b) == IF b \in s /\ SubnetOf(a, b) = SubnetOf(ip, b) THEN 1 ELSE 0
           Sums(s, then) == \A a \in A, b \in S : CountIn(then, a, b) = CountIn(state, a, b) + Added(s, a, b)
           IsGood(s, done) ==
               /\ done = [ok |-> done.ok, state |-> done.state] /\ done.ok \in BOOLEAN
               /\ IsAccess(done.state, A, L) /\ SameButCounts(done.state, state)
               /\ Apart(A, L) /\ LimitsAcceptConnection(state, ip) => done.ok /\ Sums(s, done.state)
           Good == {s \in SUBSET S : IsGood(s, g[s])}
<1>4. \A a \in A, b \in S : CountIn(state, a, b) \in Nat
  BY DEF CountIn, IsAccess, IsDetail
<1>5. {} \in Good
  <2>1. g[{}] = [ok |-> TRUE, state |-> state]
    BY <1>3 DEF Outcome
  <2>2. IsGood({}, g[{}])
    BY <1>4, <2>1 DEF SameButCounts
  <2> QED BY <2>2
<1>6. ASSUME NEW s \in SUBSET S, s # {}
      PROVE  \E x \in s : s \ {x} \in Good => s \in Good
  <2>1. PICK x \in s : g[s] = PutOn(ip, x, g[s \ {x}])
    BY <1>3, <1>6
  <2> DEFINE done == g[s \ {x}]
             next == g[s]
             one == AddLimitConnection(done.state, x, ip, 1, FALSE)
  <2> SUFFICES ASSUME IsGood(s \ {x}, done) PROVE IsGood(s, next)
    OBVIOUS
  <2>2. CASE ~done.ok
    BY <2>1, <2>2 DEF PutOn
  <2>3. CASE done.ok
    <3>1. next = one
      BY <2>1, <2>3 DEF PutOn
    <3>2. x \in DOMAIN done.state.limits /\ done.state.limits[x] = state.limits[x]
      BY DEF SameButCounts
    <3>3. /\ one = [ok |-> one.ok, state |-> one.state] /\ one.ok \in BOOLEAN
          /\ IsAccess(one.state, A, L) /\ SameButCounts(one.state, done.state)
          /\ CountIn(done.state, ip, x) < done.state.limits[x] =>
                /\ one.ok
                /\ \A a \in A, b \in L :
                      CountIn(one.state, a, b) = CountIn(done.state, a, b)
                         + (IF SubnetOf(a, b) = SubnetOf(ip, x) THEN 1 ELSE 0)
      <4> HIDE DEF done, one
      <4>1. one = AddLimitConnection(done.state, x, ip, 1, FALSE)
        BY DEF one
      <4>2. Counting(done.state, x, ip, 1, A, L)
        BY <3>2 DEF Counting
      <4>3. PICK no : no = FALSE
        OBVIOUS
      <4>4. one = AddLimitConnection(done.state, x, ip, 1, no)
        BY <4>1, <4>3
      <4> QED BY <4>2, <4>4, LimitCounts
    <3>4. SameButCounts(one.state, state)
      BY <3>3 DEF SameButCounts
    <3>5. ASSUME Apart(A, L), LimitsAcceptConnection(state, ip)
          PROVE  one.ok /\ Sums(s, one.state)
      <4>1. CountIn(done.state, ip, x) = CountIn(state, ip, x)
        <5>1. CountIn(done.state, ip, x) = CountIn(state, ip, x) + Added(s \ {x}, ip, x)
          BY <3>5
        <5>2. Added(s \ {x}, ip, x) = 0 /\ CountIn(state, ip, x) \in Nat
          BY <1>4
        <5> HIDE DEF Added, done
        <5> QED BY <5>1, <5>2
      <4>2. CountIn(done.state, ip, x) < done.state.limits[x]
        BY <3>2, <3>5, <4>1 DEF LimitsAcceptConnection
      <4>3. \A a \in A, b \in S :
               /\ SubnetOf(a, b) = SubnetOf(ip, x) => b = x
               /\ CountIn(one.state, a, b) = CountIn(done.state, a, b)
                     + (IF SubnetOf(a, b) = SubnetOf(ip, x) THEN 1 ELSE 0)
        BY <1>1, <3>3, <3>5, <4>2 DEF Apart
      <4>4. \A a \in A, b \in S : CountIn(done.state, a, b) = CountIn(state, a, b) + Added(s \ {x}, a, b)
        BY <3>5
      <4>5. ASSUME NEW a \in A, NEW b \in S
            PROVE  CountIn(one.state, a, b) = CountIn(state, a, b) + Added(s, a, b)
        <5> HIDE DEF one, done
        <5>1. CASE b = x
          BY <1>4, <4>3, <4>4, <5>1
        <5>2. CASE b # x
          BY <1>4, <4>3, <4>4, <5>2
        <5> QED BY <5>1, <5>2
      <4> HIDE DEF one, done, Added
      <4> QED BY <3>3, <4>2, <4>5
    <3> HIDE DEF one, Sums
    <3> QED BY <3>1, <3>3, <3>4, <3>5
  <2> QED BY <2>2, <2>3
<1>7. S \in Good
  <2> HIDE DEF Good
  <2>1. \A s \in SUBSET S : s \in Good
    BY <1>0, <1>5, <1>6, SubsetInduction
  <2> QED BY <2>1
<1>8. IsGood(S, all)
  BY <1>2, <1>7
<1> QED BY <1>8

\* All limits give back a connection of an address that they count.
LEMMA LimitsGiveBack ==
    ASSUME NEW A, NEW L, Ranges(A, L), NEW state, IsAccess(state, A, L), NEW ip \in A,
           NEW all, all = RemoveLimitsConnection(state, ip)
    PROVE  /\ IsAccess(all.state, A, L) /\ SameButCounts(all.state, state)
           /\ Apart(A, L) /\ (\A b \in DOMAIN state.limits : CountIn(state, ip, b) # 0) =>
                 \A a \in A, b \in DOMAIN state.limits :
                       CountIn(all.state, a, b) = CountIn(state, a, b)
                          - (IF SubnetOf(a, b) = SubnetOf(ip, b) THEN 1 ELSE 0)
<1> DEFINE S == DOMAIN state.limits
<1>0. IsFiniteSet(S)
  BY CountsAreFinite
<1>1. S \subseteq Nat /\ S \subseteq L
  BY CountsAreFinite DEF IsAccess
<1>2. PICK g : IsFold(g, "off", ip, Outcome(TRUE, state), S) /\ all = g[S]
  BY <1>0, <1>1, TakeOffAll
<1> DEFINE first == Outcome(TRUE, state)
<1>3. /\ g[{}] = Outcome(TRUE, state)
      /\ \A s \in SUBSET S : s # {} => \E x \in s : g[s] = TakeOff(ip, x, g[s \ {x}])
  <2> HIDE DEF S
  <2>1. g[{}] = Outcome(TRUE, state)
    BY <1>2, FoldStarts
  <2>2. ASSUME NEW s \in SUBSET S, s # {}
        PROVE  \E x \in s : g[s] = TakeOff(ip, x, g[s \ {x}])
    <3>0. IsFold(g, "off", ip, first, S) /\ CanFold("off", S)
      BY <1>1, <1>2 DEF CanFold
    <3> HIDE DEF first
    <3>1. \E x \in s : g[s] = FoldStep("off", ip, x, g[s \ {x}])
      BY <3>0, <2>2, FoldGoesOn
    <3> QED BY <3>1 DEF FoldStep
  <2> QED BY <2>1, <2>2
<1> DEFINE Taken(s, a, b) == IF b \in s /\ SubnetOf(a, b) = SubnetOf(ip, b) THEN 1 ELSE 0
           Sums(s, then) == \A a \in A, b \in S : CountIn(then, a, b) = CountIn(state, a, b) - Taken(s, a, b)
           Full == Apart(A, L) /\ \A b \in S : CountIn(state, ip, b) # 0
           IsGood(s, then) ==
               /\ IsAccess(then, A, L) /\ SameButCounts(then, state)
               /\ Full => Sums(s, then)
           Good == {s \in SUBSET S : IsGood(s, g[s].state)}
<1>4. \A a \in A, b \in S : CountIn(state, a, b) \in Nat
  BY DEF CountIn, IsAccess, IsDetail
<1>5. {} \in Good
  <2>1. g[{}].state = state
    BY <1>3 DEF Outcome
  <2>2. IsGood({}, state)
    BY <1>4 DEF SameButCounts
  <2> QED BY <2>1, <2>2
<1>6. ASSUME NEW s \in SUBSET S, s # {}
      PROVE  \E x \in s : s \ {x} \in Good => s \in Good
  <2>1. PICK x \in s : g[s] = TakeOff(ip, x, g[s \ {x}])
    BY <1>3, <1>6
  <2> DEFINE done == g[s \ {x}].state
             one == RemoveLimitConnection(done, x, ip)
  <2>2. g[s].state = one.state
    BY <2>1 DEF TakeOff, Outcome
  <2> SUFFICES ASSUME IsGood(s \ {x}, done) PROVE IsGood(s, g[s].state)
    OBVIOUS
  <2>3. x \in DOMAIN done.limits
    BY DEF SameButCounts
  <2>4. /\ IsAccess(one.state, A, L) /\ SameButCounts(one.state, done)
        /\ CountIn(done, ip, x) # 0 =>
              \A a \in A, b \in L :
                    CountIn(one.state, a, b) = CountIn(done, a, b)
                       - (IF SubnetOf(a, b) = SubnetOf(ip, x) THEN 1 ELSE 0)
    <3> HIDE DEF done, one
    <3>1. one = RemoveLimitConnection(done, x, ip)
      BY DEF one
    <3>2. Counting(done, x, ip, 1, A, L)
      BY <2>3 DEF Counting
    <3> QED BY <3>1, <3>2, LimitGivesBack
  <2>5. SameButCounts(one.state, state)
    BY <2>4 DEF SameButCounts
  <2>6. ASSUME Full
        PROVE  Sums(s, one.state)
    <3>1. CountIn(done, ip, x) = CountIn(state, ip, x)
      BY <1>4, <2>6
    <3>2. CountIn(done, ip, x) # 0
      BY <2>6, <3>1
    <3>3. \A a \in A, b \in S :
             /\ SubnetOf(a, b) = SubnetOf(ip, x) => b = x
             /\ CountIn(one.state, a, b) = CountIn(done, a, b)
                   - (IF SubnetOf(a, b) = SubnetOf(ip, x) THEN 1 ELSE 0)
      BY <1>1, <2>4, <2>6, <3>2 DEF Apart
    <3>4. \A a \in A, b \in S : CountIn(done, a, b) = CountIn(state, a, b) - Taken(s \ {x}, a, b)
      BY <2>6
    <3>5. ASSUME NEW a \in A, NEW b \in S
          PROVE  CountIn(one.state, a, b) = CountIn(state, a, b) - Taken(s, a, b)
      <4> HIDE DEF one, done
      <4>1. CASE b = x
        BY <1>4, <3>3, <3>4, <4>1
      <4>2. CASE b # x
        BY <1>4, <3>3, <3>4, <4>2
      <4> QED BY <4>1, <4>2
    <3> HIDE DEF one, done, Taken
    <3> QED BY <3>5
  <2>7. IsGood(s, one.state)
    <3> HIDE DEF one, done, Sums, Full
    <3> QED BY <2>4, <2>5, <2>6
  <2> HIDE DEF IsGood, one
  <2> QED BY <2>2, <2>7
<1>7. S \in Good
  <2> HIDE DEF Good
  <2>1. \A s \in SUBSET S : s \in Good
    BY <1>0, <1>5, <1>6, SubsetInduction
  <2> QED BY <2>1
<1>8. IsGood(S, all.state)
  BY <1>2, <1>7
<1> QED BY <1>8


\* A connection is one of those of an address.
LEMMA ConnectionIs ==
    ASSUME NEW state
    PROVE  \A c : c \in Connections(state) <=>
                     \E a \in DOMAIN state.connections : \E i \in 1 .. state.connections[a] : c = <<a, i>>
BY DEF Connections

\* The connections of some addresses in a subnet.
PartOf(state, s, subnet, bits) ==
    {c \in Connections(state) : c[1] \in s /\ SubnetOf(c[1], bits) = subnet}

\* One more address is as many connections more as it has.
LEMMA PartGrows ==
    ASSUME NEW state, HasCounts(state), NEW s, NEW x \in s, x \in DOMAIN state.connections,
           NEW subnet, NEW bits, IsFiniteSet(PartOf(state, s \ {x}, subnet, bits))
    PROVE  /\ IsFiniteSet(PartOf(state, s, subnet, bits))
           /\ Cardinality(PartOf(state, s, subnet, bits)) =
                 Cardinality(PartOf(state, s \ {x}, subnet, bits))
                    + (IF SubnetOf(x, bits) = subnet THEN state.connections[x] ELSE 0)
           /\ Cardinality(PartOf(state, s \ {x}, subnet, bits)) \in Nat
<1> DEFINE less == PartOf(state, s \ {x}, subnet, bits)
           more == PartOf(state, s, subnet, bits)
           n == state.connections[x]
           mine == {x} \X (1 .. n)
<1>1. Cardinality(less) \in Nat
  BY FS_CardinalityType
<1>2. CASE SubnetOf(x, bits) # subnet
  <2>1. more = less
    BY <1>2 DEF PartOf
  <2>2. IsFiniteSet(less)
    OBVIOUS
  <2>3. IsFiniteSet(more) /\ Cardinality(more) = Cardinality(less) + 0
    <3> HIDE DEF more, less
    <3> QED BY <1>1, <2>1, <2>2
  <2> QED BY <1>1, <1>2, <2>3
<1>3. CASE SubnetOf(x, bits) = subnet
  <2>1. \A c : c \in mine <=> c \in Connections(state) /\ c[1] = x
    <3>1. \A c : c \in Connections(state) /\ c[1] = x <=> \E i \in 1 .. n : c = <<x, i>>
      BY ConnectionIs
    <3>2. \A c : c \in mine <=> \E i \in 1 .. n : c = <<x, i>>
      OBVIOUS
    <3> QED BY <3>1, <3>2
  <2>2. more = less \cup mine /\ less \cap mine = {}
    <3> HIDE DEF mine
    <3> QED BY <1>3, <2>1 DEF PartOf
  <2>3. n \in Nat \ {0}
    BY DEF HasCounts
  <2>4. IsFiniteSet(mine) /\ Cardinality(mine) = n
    <3>1. IsFiniteSet(1 .. n) /\ Cardinality(1 .. n) = n
      <4> HIDE DEF n
      <4> QED BY <2>3, FS_Interval
    <3>2. IsFiniteSet({x}) /\ Cardinality({x}) = 1
      BY FS_Singleton
    <3>3. IsFiniteSet({x} \X (1 .. n)) /\ Cardinality({x} \X (1 .. n)) = Cardinality({x}) * Cardinality(1 .. n)
      <4> HIDE DEF n
      <4> QED BY <3>1, <3>2, FS_Product
    <3> QED BY <2>3, <3>1, <3>2, <3>3
  <2> HIDE DEF more, less, mine
  <2>5. IsFiniteSet(less)
    BY DEF less
  <2>6. /\ IsFiniteSet(less \cup mine)
        /\ Cardinality(less \cup mine) = Cardinality(less) + Cardinality(mine) - Cardinality(less \cap mine)
    BY <2>4, <2>5, FS_Union
  <2>7. Cardinality(less \cap mine) = 0
    BY <2>2, FS_EmptySet
  <2>8. IsFiniteSet(more) /\ Cardinality(more) = Cardinality(less) + n
    <3>1. IsFiniteSet(more) /\ Cardinality(more) = Cardinality(less) + n - 0
      <4> HIDE DEF n
      <4> QED BY <2>2, <2>4, <2>6, <2>7, Zenon
    <3> HIDE DEF n
    <3> QED BY <1>1, <2>3, <3>1
  <2> QED BY <1>1, <1>3, <2>8 DEF more, less
<1> QED BY <1>2, <1>3

\* There are finitely many connections in a subnet.
LEMMA PartIsFinite ==
    ASSUME NEW state, HasCounts(state), NEW subnet, NEW bits
    PROVE  /\ \A s \in SUBSET DOMAIN state.connections : IsFiniteSet(PartOf(state, s, subnet, bits))
           /\ PartOf(state, DOMAIN state.connections, subnet, bits)
                 = {c \in Connections(state) : SubnetOf(c[1], bits) = subnet}
           /\ PartOf(state, {}, subnet, bits) = {}
           /\ ConnectionsIn(state, subnet, bits) \in Nat
<1> DEFINE S == DOMAIN state.connections
           Good == {s \in SUBSET S : IsFiniteSet(PartOf(state, s, subnet, bits))}
<1>1. PartOf(state, {}, subnet, bits) = {}
  BY DEF PartOf
<1>2. {} \in Good
  BY <1>1, FS_EmptySet
<1>3. ASSUME NEW s \in SUBSET S, s # {}
      PROVE  \E x \in s : s \ {x} \in Good => s \in Good
  <2>1. PICK x \in s : TRUE
    BY <1>3
  <2>2. x \in S
    BY <2>1
  <2>3. IsFiniteSet(PartOf(state, s \ {x}, subnet, bits)) => IsFiniteSet(PartOf(state, s, subnet, bits))
    BY <2>1, <2>2, PartGrows
  <2> QED BY <2>1, <2>3
<1>4. IsFiniteSet(S)
  BY DEF HasCounts
<1>5. \A s \in SUBSET S : s \in Good
  <2> HIDE DEF Good, S
  <2> QED BY <1>2, <1>3, <1>4, SubsetInduction
<1>6. PartOf(state, S, subnet, bits) = {c \in Connections(state) : SubnetOf(c[1], bits) = subnet}
  <2>1. \A c \in Connections(state) : c[1] \in S
    BY ConnectionIs
  <2> QED BY <2>1 DEF PartOf
<1>7. IsFiniteSet(PartOf(state, S, subnet, bits))
  BY <1>5
<1>8. ConnectionsIn(state, subnet, bits) \in Nat
  <2> HIDE DEF S
  <2>1. ConnectionsIn(state, subnet, bits) = Cardinality(PartOf(state, S, subnet, bits))
    BY <1>6 DEF ConnectionsIn
  <2> QED BY <1>7, <2>1, FS_CardinalityType
<1> QED BY <1>1, <1>5, <1>6, <1>8

\* The same counts are the same connections, another one is one more.
LEMMA SameConnections ==
    ASSUME NEW one, NEW other, one.connections = other.connections, NEW subnet, NEW bits
    PROVE  ConnectionsIn(one, subnet, bits) = ConnectionsIn(other, subnet, bits)
<1>1. Connections(one) = Connections(other)
  BY DEF Connections
<1> QED BY <1>1 DEF ConnectionsIn

LEMMA OneMore ==
    ASSUME NEW one, NEW other, HasCounts(one), HasCounts(other), NEW ip,
           \A a : NumberOf(other, a) = NumberOf(one, a) + (IF a = ip THEN 1 ELSE 0),
           NEW subnet, NEW bits
    PROVE  /\ ConnectionsIn(one, subnet, bits) \in Nat
           /\ ConnectionsIn(other, subnet, bits) =
                 ConnectionsIn(one, subnet, bits) + (IF SubnetOf(ip, bits) = subnet THEN 1 ELSE 0)
<1> DEFINE n == NumberOf(other, ip)
           old == {c \in Connections(one) : SubnetOf(c[1], bits) = subnet}
           new == {c \in Connections(other) : SubnetOf(c[1], bits) = subnet}
<1>1. \A a : NumberOf(one, a) \in Nat /\ NumberOf(other, a) \in Nat
  BY DEF HasCounts, NumberOf
<1>2. \A a, i : /\ <<a, i>> \in Connections(one) <=> i \in 1 .. NumberOf(one, a)
                /\ <<a, i>> \in Connections(other) <=> i \in 1 .. NumberOf(other, a)
  <2>1. \A a, i : /\ <<a, i>> \in Connections(one) <=> a \in DOMAIN one.connections /\ i \in 1 .. one.connections[a]
                  /\ <<a, i>> \in Connections(other) <=> a \in DOMAIN other.connections /\ i \in 1 .. other.connections[a]
    BY ConnectionIs
  <2>2. ASSUME NEW state
        PROVE  \A a, i : i \in 1 .. NumberOf(state, a)
                            <=> a \in DOMAIN state.connections /\ i \in 1 .. state.connections[a]
    <3>1. \A a \in DOMAIN state.connections : NumberOf(state, a) = state.connections[a]
      BY DEF NumberOf
    <3>2. \A a : a \notin DOMAIN state.connections => NumberOf(state, a) = 0
      BY DEF NumberOf
    <3>3. 1 .. 0 = {}
      OBVIOUS
    <3> QED BY <3>1, <3>2, <3>3, Zenon
  <2> QED BY <2>1, <2>2, Zenon
<1>3. /\ \A c \in Connections(one) : c = <<c[1], c[2]>>
      /\ \A c \in Connections(other) : c = <<c[1], c[2]>>
  BY ConnectionIs
<1>4. Connections(other) = Connections(one) \cup {<<ip, n>>} /\ <<ip, n>> \notin Connections(one)
  <2>1. \A a, i : i \in 1 .. NumberOf(other, a) <=> i \in 1 .. NumberOf(one, a) \/ (a = ip /\ i = n)
    BY <1>1
  <2>2. n \notin 1 .. NumberOf(one, ip)
    BY <1>1
  <2>3. \A a, i : <<a, i>> \in Connections(other) <=> <<a, i>> \in Connections(one) \/ <<a, i>> = <<ip, n>>
    <3> HIDE DEF n
    <3>1. \A a, i : <<a, i>> = <<ip, n>> <=> a = ip /\ i = n
      OBVIOUS
    <3> QED BY <1>2, <2>1, <3>1
  <2>4. \A c : c \in Connections(other) <=> c \in Connections(one) \/ c = <<ip, n>>
    <3> HIDE DEF n
    <3> QED BY <1>3, <2>3
  <2> QED BY <1>2, <2>2, <2>4
<1>5. IsFiniteSet(old)
  <2>1. old = PartOf(one, DOMAIN one.connections, subnet, bits)
    BY PartIsFinite
  <2>2. IsFiniteSet(PartOf(one, DOMAIN one.connections, subnet, bits))
    BY PartIsFinite
  <2> QED BY <2>1, <2>2
<1>6. ConnectionsIn(one, subnet, bits) = Cardinality(old) /\ Cardinality(old) \in Nat
  BY <1>5, FS_CardinalityType DEF ConnectionsIn
<1>7. ConnectionsIn(other, subnet, bits) = Cardinality(new)
  BY DEF ConnectionsIn
<1>8. <<ip, n>>[1] = ip
  OBVIOUS
<1>9. CASE SubnetOf(ip, bits) = subnet
  <2>1. new = old \cup {<<ip, n>>} /\ <<ip, n>> \notin old
    <3> HIDE DEF n
    <3> QED BY <1>4, <1>8, <1>9
  <2>2. Cardinality(old \cup {<<ip, n>>}) = Cardinality(old) + 1
    <3> HIDE DEF old, n
    <3> QED BY <1>5, <2>1, FS_AddElement
  <2> HIDE DEF old, new
  <2> QED BY <1>6, <1>7, <1>9, <2>1, <2>2
<1>10. CASE SubnetOf(ip, bits) # subnet
  <2>1. new = old
    <3> HIDE DEF n
    <3> QED BY <1>4, <1>8, <1>10
  <2> HIDE DEF old, new
  <2> QED BY <1>6, <1>7, <1>10, <2>1
<1> QED BY <1>9, <1>10

\* The number of connections of an address grows, or shrinks.
LEMMA SubnetAdds ==
    ASSUME NEW A, NEW L, NEW state, IsAccess(state, A, L), NEW ip \in A,
           NEW next, next = AddSubnetConnection(state, ip)
    PROVE  /\ IsAccess(next, A, L) /\ next.limits = state.limits /\ next.details = state.details
           /\ \A a : NumberOf(next, a) = NumberOf(state, a) + (IF a = ip THEN 1 ELSE 0)
<1> DEFINE old == state.connections
           new == With(old, ip, IF ip \in DOMAIN old THEN old[ip] + 1 ELSE 1)
<1>1. /\ next.connections = new
      /\ next.limits = state.limits /\ next.details = state.details
      /\ next = [limits |-> next.limits, connections |-> next.connections,
                 details |-> next.details, dangling |-> next.dangling]
  BY DEF AddSubnetConnection, IsAccess
<1>2. /\ DOMAIN new = DOMAIN old \cup {ip}
      /\ \A a \in DOMAIN old : a # ip => new[a] = old[a]
      /\ new[ip] = IF ip \in DOMAIN old THEN old[ip] + 1 ELSE 1
  BY DEF With
<1>3. \A a \in DOMAIN old : old[a] \in Nat \ {0}
  BY DEF IsAccess
<1>4. \A a : NumberOf(next, a) = IF a \in DOMAIN new THEN new[a] ELSE 0
  BY <1>1 DEF NumberOf
<1>5. \A a : NumberOf(state, a) = IF a \in DOMAIN old THEN old[a] ELSE 0
  BY DEF NumberOf
<1>6. \A s \in DOMAIN next.details : IsDetail(next.details[s], s, next, A)
  <2>1. \A s \in DOMAIN state.details : IsDetail(state.details[s], s, state, A)
    BY DEF IsAccess
  <2> QED BY <1>1, <2>1 DEF IsDetail
<1>7. DOMAIN old \subseteq A /\ DOMAIN state.limits \subseteq L /\ \A b \in DOMAIN state.limits : state.limits[b] \in Nat
  BY DEF IsAccess
<1> HIDE DEF new, old
<1>8. \A a : NumberOf(next, a) = NumberOf(state, a) + (IF a = ip THEN 1 ELSE 0)
  <2> SUFFICES ASSUME NEW a
               PROVE  NumberOf(next, a) = NumberOf(state, a) + (IF a = ip THEN 1 ELSE 0)
    OBVIOUS
  <2>1. CASE a = ip
    BY <1>2, <1>3, <1>4, <1>5, <2>1
  <2>2. CASE a # ip
    BY <1>2, <1>3, <1>4, <1>5, <2>2
  <2> QED BY <2>1, <2>2
<1>9. \A a \in DOMAIN new : new[a] \in Nat \ {0}
  BY <1>2, <1>3
<1>10. DOMAIN new \subseteq A
  BY <1>2, <1>7
<1>11. IsAccess(next, A, L)
  BY <1>1, <1>6, <1>7, <1>9, <1>10 DEF IsAccess
<1> QED BY <1>1, <1>8, <1>11

LEMMA SubnetRemoves ==
    ASSUME NEW A, NEW L, NEW state, IsAccess(state, A, L), NEW ip \in DOMAIN state.connections,
           NEW next, next = RemoveSubnetConnection(state, ip)
    PROVE  /\ IsAccess(next, A, L) /\ next.limits = state.limits /\ next.details = state.details
           /\ \A a : NumberOf(state, a) = NumberOf(next, a) + (IF a = ip THEN 1 ELSE 0)
<1> DEFINE old == state.connections
           new == OneLess(old, ip)
<1>1. /\ next.connections = new
      /\ next.limits = state.limits /\ next.details = state.details
      /\ next = [limits |-> next.limits, connections |-> next.connections,
                 details |-> next.details, dangling |-> next.dangling]
  BY DEF RemoveSubnetConnection, IsAccess
<1>3. \A a \in DOMAIN old : old[a] \in Nat \ {0}
  BY DEF IsAccess
<1>4. \A a : NumberOf(next, a) = IF a \in DOMAIN new THEN new[a] ELSE 0
  BY <1>1 DEF NumberOf
<1>5. \A a : NumberOf(state, a) = IF a \in DOMAIN old THEN old[a] ELSE 0
  BY DEF NumberOf
<1>6. \A s \in DOMAIN next.details : IsDetail(next.details[s], s, next, A)
  <2>1. \A s \in DOMAIN state.details : IsDetail(state.details[s], s, state, A)
    BY DEF IsAccess
  <2> QED BY <1>1, <2>1 DEF IsDetail
<1>7. DOMAIN old \subseteq A /\ DOMAIN state.limits \subseteq L /\ \A b \in DOMAIN state.limits : state.limits[b] \in Nat
  BY DEF IsAccess
<1>8. ip \in DOMAIN old
  OBVIOUS
<1>9. /\ DOMAIN new = IF old[ip] = 1 THEN DOMAIN old \ {ip} ELSE DOMAIN old
      /\ \A a \in DOMAIN new : new[a] = IF a = ip THEN old[ip] - 1 ELSE old[a]
  <2>1. CASE old[ip] = 1
    BY <2>1 DEF Less, OneLess
  <2>2. CASE old[ip] # 1
    <3>1. new = [old EXCEPT ![ip] = @ - 1]
      BY <2>2 DEF OneLess
    <3> HIDE DEF new, old
    <3> QED BY <1>8, <2>2, <3>1
  <2> QED BY <2>1, <2>2
<1> HIDE DEF new, old
<1>10. \A a : NumberOf(state, a) = NumberOf(next, a) + (IF a = ip THEN 1 ELSE 0)
  <2> SUFFICES ASSUME NEW a
               PROVE  NumberOf(state, a) = NumberOf(next, a) + (IF a = ip THEN 1 ELSE 0)
    OBVIOUS
  <2>1. CASE a = ip
    BY <1>3, <1>4, <1>5, <1>8, <1>9, <2>1
  <2>2. CASE a # ip
    <3>1. a \in DOMAIN new <=> a \in DOMAIN old
      BY <1>9, <2>2
    <3> QED BY <1>3, <1>4, <1>5, <1>9, <2>2, <3>1
  <2> QED BY <2>1, <2>2
<1>11. \A a \in DOMAIN new : new[a] \in Nat \ {0}
  BY <1>3, <1>8, <1>9
<1>12. DOMAIN new \subseteq A
  BY <1>7, <1>9
<1>13. IsAccess(next, A, L)
  BY <1>1, <1>6, <1>7, <1>11, <1>12 DEF IsAccess
<1> QED BY <1>1, <1>10, <1>13

\* Limits that count one connection more, or less, as there is, stay exact.
LEMMA ExactWithOneMore ==
    ASSUME NEW A, NEW L, Ranges(A, L), NEW one, NEW other,
           IsAccess(one, A, L), IsAccess(other, A, L), one.limits = other.limits, NEW ip \in A,
           \A a : NumberOf(other, a) = NumberOf(one, a) + (IF a = ip THEN 1 ELSE 0),
           \A a \in A, b \in DOMAIN one.limits :
               CountIn(other, a, b) = CountIn(one, a, b)
                  + (IF SubnetOf(a, b) = SubnetOf(ip, b) THEN 1 ELSE 0)
    PROVE  CountsAreExact(one, A) <=> CountsAreExact(other, A)
<1>1. ASSUME NEW a \in A, NEW b \in DOMAIN one.limits
      PROVE  CountIn(one, a, b) = ConnectionsIn(one, SubnetOf(a, b), b)
                <=> CountIn(other, a, b) = ConnectionsIn(other, SubnetOf(a, b), b)
  <2> DEFINE subnet == SubnetOf(a, b)
  <2>1. HasCounts(one) /\ HasCounts(other)
    BY CountsAreFinite
  <2>2. /\ ConnectionsIn(one, subnet, b) \in Nat
        /\ ConnectionsIn(other, subnet, b) =
              ConnectionsIn(one, subnet, b) + (IF SubnetOf(ip, b) = subnet THEN 1 ELSE 0)
    <3> HIDE DEF subnet
    <3> QED BY <2>1, OneMore
  <2>3. CountIn(one, a, b) \in Nat
    BY DEF CountIn, IsAccess, IsDetail
  <2>4. CountIn(other, a, b) = CountIn(one, a, b) + (IF SubnetOf(a, b) = SubnetOf(ip, b) THEN 1 ELSE 0)
    OBVIOUS
  <2> QED BY <2>2, <2>3, <2>4
<1> QED BY <1>1 DEF CountsAreExact

\* A connection that is added is one more, one that is refused none.
LEMMA ConnectionAdded ==
    ASSUME NEW A, NEW L, Ranges(A, L), NEW state, IsAccess(state, A, L), NEW ip \in A,
           NEW added, added = AddConnection(state, ip)
    PROVE  /\ IsAccess(added.state, A, L) /\ added.state.limits = state.limits
           /\ \A a : NumberOf(added.state, a) =
                        NumberOf(state, a) + (IF added.ok /\ a = ip THEN 1 ELSE 0)
           /\ Apart(A, L) /\ CountsAreExact(state, A) => CountsAreExact(added.state, A)
<1> DEFINE next == AddSubnetConnection(state, ip)
           all == AllOn(next, ip)
           failed == [all.state EXCEPT !.dangling = TRUE]
           back == RemoveSubnetConnection(failed, ip)
<1>0. \A a : NumberOf(state, a) \in Nat
  BY DEF NumberOf, IsAccess
<1>1. CASE ~LimitsAcceptConnection(state, ip)
  <2>1. added = [ok |-> FALSE, state |-> state]
    BY <1>1 DEF AddConnection, Outcome
  <2> QED BY <1>0, <2>1
<1>2. CASE LimitsAcceptConnection(state, ip)
  <2>1. /\ IsAccess(next, A, L) /\ next.limits = state.limits /\ next.details = state.details
        /\ \A a : NumberOf(next, a) = NumberOf(state, a) + (IF a = ip THEN 1 ELSE 0)
    <3> HIDE DEF next
    <3>1. next = AddSubnetConnection(state, ip)
      BY DEF next
    <3> QED BY <3>1, SubnetAdds
  <2>2. \A a, b : CountIn(next, a, b) = CountIn(state, a, b)
    <3> HIDE DEF next
    <3> QED BY <2>1 DEF CountIn
  <2>3. LimitsAcceptConnection(next, ip)
    <3> HIDE DEF next
    <3> QED BY <1>2, <2>1, <2>2 DEF LimitsAcceptConnection
  <2>4. /\ all.ok \in BOOLEAN /\ IsAccess(all.state, A, L) /\ SameButCounts(all.state, next)
        /\ Apart(A, L) =>
              /\ all.ok
              /\ \A a \in A, b \in DOMAIN next.limits :
                    CountIn(all.state, a, b) = CountIn(next, a, b)
                       + (IF SubnetOf(a, b) = SubnetOf(ip, b) THEN 1 ELSE 0)
    <3>2. PICK whole : whole = AllOn(next, ip)
      OBVIOUS
    <3>3. all = whole
      BY <3>2
    <3> HIDE DEF next, all
    <3> QED BY <2>1, <2>3, <3>2, <3>3, LimitsCount
  <2>5. all = AddLimitsConnection(next, ip) \/ ~all.ok
    BY DEF AddLimitsConnection, AllOn
  <2>6. added = IF all.ok THEN all ELSE Outcome(FALSE, back)
    BY <1>2 DEF AddConnection, AddLimitsConnection, AllOn, Outcome
  <2>7. CASE all.ok
    <3>1. added = all
      BY <2>6, <2>7
    <3>2. /\ IsAccess(all.state, A, L) /\ all.state.limits = state.limits
          /\ \A a : NumberOf(all.state, a) = NumberOf(state, a) + (IF a = ip THEN 1 ELSE 0)
      <4> HIDE DEF all, next
      <4>1. \A a : NumberOf(all.state, a) = NumberOf(next, a)
        BY <2>4 DEF SameButCounts, NumberOf
      <4> QED BY <2>1, <2>4, <4>1 DEF SameButCounts
    <3>3. ASSUME Apart(A, L), CountsAreExact(state, A)
          PROVE  CountsAreExact(all.state, A)
      <4>1. PICK last : last = all.state
        OBVIOUS
      <4>2. \A a \in A, b \in DOMAIN state.limits :
               CountIn(last, a, b) = CountIn(state, a, b)
                  + (IF SubnetOf(a, b) = SubnetOf(ip, b) THEN 1 ELSE 0)
        <5> HIDE DEF next, all
        <5> QED BY <2>1, <2>2, <2>4, <3>3, <4>1
      <4>3. IsAccess(last, A, L) /\ state.limits = last.limits
        BY <3>2, <4>1
      <4>4. \A a : NumberOf(last, a) = NumberOf(state, a) + (IF a = ip THEN 1 ELSE 0)
        BY <3>2, <4>1
      <4> HIDE DEF all, next
      <4> QED BY <3>3, <4>1, <4>2, <4>3, <4>4, ExactWithOneMore
    <3> HIDE DEF all, next
    <3> QED BY <2>7, <3>1, <3>2, <3>3
  <2>8. CASE ~all.ok
    <3>1. added = [ok |-> FALSE, state |-> back]
      BY <2>6, <2>8 DEF Outcome
    <3>2. ~Apart(A, L)
      BY <2>4, <2>8
    <3>3. /\ IsAccess(failed, A, L) /\ failed.limits = next.limits
          /\ failed.connections = next.connections
      <4>0. PICK yes : yes = TRUE
        OBVIOUS
      <4> DEFINE last == all.state
                 after == [last EXCEPT !.dangling = yes]
      <4>1. IsAccess(last, A, L) /\ SameButCounts(last, next)
        BY <2>4
      <4> HIDE DEF last
      <4>2. /\ after.limits = last.limits /\ after.connections = last.connections
            /\ after.details = last.details
            /\ after = [limits |-> after.limits, connections |-> after.connections,
                        details |-> after.details, dangling |-> after.dangling]
        BY <4>1 DEF IsAccess
      <4>3. \A s \in DOMAIN last.details : IsDetail(last.details[s], s, last, A)
        BY <4>1 DEF IsAccess
      <4> HIDE DEF after
      <4>4. \A s \in DOMAIN after.details : IsDetail(after.details[s], s, after, A)
        BY <4>2, <4>3 DEF IsDetail
      <4>5. IsAccess(after, A, L)
        BY <4>1, <4>2, <4>4 DEF IsAccess
      <4>6. IsAccess(after, A, L) /\ after.limits = next.limits /\ after.connections = next.connections
        <5> HIDE DEF next
        <5> QED BY <4>1, <4>2, <4>5 DEF SameButCounts
      <4>7. failed = after
        BY <4>0, Zenon DEF after, last
      <4> HIDE DEF failed, next
      <4> QED BY <4>6, <4>7
    <3> HIDE DEF failed
    <3>4. NumberOf(failed, ip) # 0
      <4>1. NumberOf(failed, ip) = NumberOf(next, ip)
        BY <3>3 DEF NumberOf
      <4>2. NumberOf(next, ip) = NumberOf(state, ip) + 1
        BY <2>1
      <4> HIDE DEF next
      <4> QED BY <1>0, <4>1, <4>2
    <3>5. ip \in DOMAIN failed.connections
      BY <3>4 DEF NumberOf
    <3>6. /\ IsAccess(back, A, L) /\ back.limits = failed.limits
          /\ \A a : NumberOf(failed, a) = NumberOf(back, a) + (IF a = ip THEN 1 ELSE 0)
      <4>1. PICK last : last = RemoveSubnetConnection(failed, ip)
        OBVIOUS
      <4>2. back = last
        BY <4>1
      <4> HIDE DEF back
      <4> QED BY <3>3, <3>5, <4>1, <4>2, SubnetRemoves
    <3>7. \A a : NumberOf(back, a) \in Nat
      <4> HIDE DEF back
      <4> QED BY <3>6 DEF NumberOf, IsAccess
    <3>8. \A a : NumberOf(back, a) = NumberOf(state, a) + 0
      <4>1. \A a : NumberOf(failed, a) = NumberOf(next, a)
        BY <3>3 DEF NumberOf
      <4> HIDE DEF back, next
      <4>2. \A a : NumberOf(back, a) + (IF a = ip THEN 1 ELSE 0) = NumberOf(state, a) + (IF a = ip THEN 1 ELSE 0)
        BY <2>1, <3>6, <4>1
      <4> QED BY <1>0, <3>7, <4>2
    <3> HIDE DEF all, back, next
    <3> QED BY <2>1, <3>1, <3>2, <3>3, <3>6, <3>8
  <2> QED BY <2>4, <2>7, <2>8
<1> QED BY <1>1, <1>2

\* A connection that is removed is one less, if there was one.
LEMMA ConnectionRemoved ==
    ASSUME NEW A, NEW L, Ranges(A, L), NEW state, IsAccess(state, A, L), NEW ip \in A,
           NEW next, next = RemoveConnection(state, ip).state
    PROVE  /\ IsAccess(next, A, L) /\ next.limits = state.limits
           /\ NumberOf(state, ip) # 0 =>
                 \A a : NumberOf(state, a) = NumberOf(next, a) + (IF a = ip THEN 1 ELSE 0)
           /\ Apart(A, L) /\ CountsAreExact(state, A) => CountsAreExact(next, A)
<1>1. CASE ip \notin DOMAIN state.connections
  <2>1. next = state
    BY <1>1 DEF RemoveConnection, Outcome
  <2>2. NumberOf(state, ip) = 0
    BY <1>1 DEF NumberOf
  <2> QED BY <2>1, <2>2
<1>2. CASE ip \in DOMAIN state.connections
  <2>1. PICK less : less = RemoveSubnetConnection(state, ip)
    OBVIOUS
  <2>2. /\ IsAccess(less, A, L) /\ less.limits = state.limits /\ less.details = state.details
        /\ \A a : NumberOf(state, a) = NumberOf(less, a) + (IF a = ip THEN 1 ELSE 0)
    BY <1>2, <2>1, SubnetRemoves
  <2>3. PICK all : all = RemoveLimitsConnection(less, ip)
    OBVIOUS
  <2>4. next = all.state
    BY <1>2, <2>1, <2>3 DEF RemoveConnection
  <2>6. /\ IsAccess(next, A, L) /\ SameButCounts(next, less)
        /\ Apart(A, L) /\ (\A b \in DOMAIN less.limits : CountIn(less, ip, b) # 0) =>
              \A a \in A, b \in DOMAIN less.limits :
                    CountIn(next, a, b) = CountIn(less, a, b)
                       - (IF SubnetOf(a, b) = SubnetOf(ip, b) THEN 1 ELSE 0)
    <3>1. /\ IsAccess(all.state, A, L) /\ SameButCounts(all.state, less)
          /\ Apart(A, L) /\ (\A b \in DOMAIN less.limits : CountIn(less, ip, b) # 0) =>
                \A a \in A, b \in DOMAIN less.limits :
                      CountIn(all.state, a, b) = CountIn(less, a, b)
                         - (IF SubnetOf(a, b) = SubnetOf(ip, b) THEN 1 ELSE 0)
      <4>1. IsAccess(less, A, L)
        BY <2>2
      <4> QED BY <2>3, <4>1, LimitsGiveBack
    <3> QED BY <2>4, <3>1
  <2>7. \A a : NumberOf(next, a) = NumberOf(less, a)
    BY <2>6 DEF SameButCounts, NumberOf
  <2>8. \A a : NumberOf(state, a) = NumberOf(next, a) + (IF a = ip THEN 1 ELSE 0)
    BY <2>2, <2>7
  <2>9. \A a, b : CountIn(less, a, b) = CountIn(state, a, b)
    BY <2>2 DEF CountIn
  <2>10. next.limits = state.limits
    BY <2>2, <2>6 DEF SameButCounts
  <2>11. ASSUME Apart(A, L), CountsAreExact(state, A)
         PROVE  CountsAreExact(next, A)
    <3>1. ASSUME NEW b \in DOMAIN state.limits
          PROVE  CountIn(state, ip, b) # 0
      <4>1. HasCounts(next) /\ HasCounts(state)
        BY <2>6, CountsAreFinite
      <4>2. PICK subnet : subnet = SubnetOf(ip, b)
        OBVIOUS
      <4>3. /\ ConnectionsIn(next, subnet, b) \in Nat
            /\ ConnectionsIn(state, subnet, b) =
                  ConnectionsIn(next, subnet, b) + (IF SubnetOf(ip, b) = subnet THEN 1 ELSE 0)
        BY <2>8, <4>1, OneMore
      <4>4. CountIn(state, ip, b) = ConnectionsIn(state, subnet, b)
        BY <2>11, <4>2 DEF CountsAreExact
      <4> QED BY <4>2, <4>3, <4>4
    <3>2. \A a \in A, b \in DOMAIN state.limits :
              CountIn(next, a, b) = CountIn(state, a, b)
                 - (IF SubnetOf(a, b) = SubnetOf(ip, b) THEN 1 ELSE 0)
      BY <2>2, <2>6, <2>9, <2>11, <3>1
    <3>3. \A a \in A, b \in L : CountIn(state, a, b) \in Nat
      BY DEF CountIn, IsAccess, IsDetail
    <3>4. DOMAIN state.limits \subseteq L
      BY DEF IsAccess
    <3>5. ASSUME NEW a \in A, NEW b \in DOMAIN next.limits
          PROVE  CountIn(state, a, b) = CountIn(next, a, b)
                    + (IF SubnetOf(a, b) = SubnetOf(ip, b) THEN 1 ELSE 0)
      <4>1. b \in DOMAIN state.limits /\ CountIn(state, a, b) \in Nat
        BY <2>10, <3>3, <3>4
      <4>2. CountIn(next, a, b) = CountIn(state, a, b)
                 - (IF SubnetOf(a, b) = SubnetOf(ip, b) THEN 1 ELSE 0)
        BY <3>2, <4>1
      <4> QED BY <4>1, <4>2
    <3> QED BY <2>6, <2>8, <2>10, <2>11, <3>5, ExactWithOneMore
  <2> QED BY <2>6, <2>8, <2>10, <2>11
<1> QED BY <1>1, <1>2

\* A limit that is removed takes its counts along, and no other.
LEMMA LimitRemoved ==
    ASSUME NEW A, NEW L, Ranges(A, L), NEW state, IsAccess(state, A, L), NEW bits,
           NEW next, next = RemoveLimit(state, bits)
    PROVE  /\ IsAccess(next, A, L) /\ next.connections = state.connections
           /\ Apart(A, L) /\ CountsAreExact(state, A) => CountsAreExact(next, A)
<1> DEFINE gone == {subnet \in DOMAIN state.details : state.details[subnet].bits = bits}
<1>1. /\ next.limits = Less(state.limits, {bits})
      /\ next.details = Less(state.details, gone)
      /\ next.connections = state.connections
      /\ next = [limits |-> next.limits, connections |-> next.connections,
                 details |-> next.details, dangling |-> next.dangling]
  <2>1. next = [state EXCEPT !.limits = Less(@, {bits}), !.details = Less(@, gone)]
    BY Zenon DEF RemoveLimit
  <2> HIDE DEF gone
  <2> QED BY <2>1 DEF IsAccess
<1>2. /\ DOMAIN next.limits = DOMAIN state.limits \ {bits}
      /\ \A b \in DOMAIN next.limits : next.limits[b] = state.limits[b]
  BY <1>1 DEF Less
<1>3. /\ \A s : s \in DOMAIN next.details <=>
                  s \in DOMAIN state.details /\ state.details[s].bits # bits
      /\ \A s \in DOMAIN next.details : next.details[s] = state.details[s]
  BY <1>1 DEF Less
<1>4. \A s \in DOMAIN state.details : IsDetail(state.details[s], s, state, A)
  BY DEF IsAccess
<1>5. \A s \in DOMAIN next.details : IsDetail(next.details[s], s, next, A)
  BY <1>2, <1>3, <1>4 DEF IsDetail
<1>6. IsAccess(next, A, L)
  BY <1>1, <1>2, <1>5 DEF IsAccess
<1>7. ASSUME Apart(A, L), CountsAreExact(state, A), NEW b \in DOMAIN next.limits, NEW a \in A
      PROVE  CountIn(next, a, b) = ConnectionsIn(next, SubnetOf(a, b), b)
  <2>1. PICK subnet : subnet = SubnetOf(a, b)
    OBVIOUS
  <2>2. ConnectionsIn(next, subnet, b) = ConnectionsIn(state, subnet, b)
    BY <1>1, SameConnections
  <2>3. CountIn(state, a, b) = ConnectionsIn(state, subnet, b)
    BY <1>2, <1>7, <2>1 DEF CountsAreExact
  <2>4. subnet \in DOMAIN state.details => state.details[subnet].bits # bits
    <3> SUFFICES ASSUME subnet \in DOMAIN state.details, state.details[subnet].bits = bits
                 PROVE  FALSE
      OBVIOUS
    <3>1. IsDetail(state.details[subnet], subnet, state, A)
      BY <1>4
    <3>2. bits \in DOMAIN state.limits /\ \E c \in A : subnet = SubnetOf(c, bits)
      BY <3>1 DEF IsDetail
    <3>3. bits \in L /\ b \in L /\ b # bits
      BY <1>2, <3>2 DEF IsAccess
    <3> QED BY <1>7, <2>1, <3>2, <3>3 DEF Apart
  <2>5. CountIn(next, a, b) = CountIn(state, a, b)
    <3>1. CountIn(next, a, b) = IF subnet \in DOMAIN next.details THEN next.details[subnet].count ELSE 0
      BY <2>1 DEF CountIn
    <3>2. CountIn(state, a, b) = IF subnet \in DOMAIN state.details THEN state.details[subnet].count ELSE 0
      BY <2>1 DEF CountIn
    <3> QED BY <1>3, <2>4, <3>1, <3>2
  <2> QED BY <2>1, <2>2, <2>3, <2>5
<1>8. Apart(A, L) /\ CountsAreExact(state, A) => CountsAreExact(next, A)
  BY <1>7 DEF CountsAreExact
<1> QED BY <1>1, <1>6, <1>8

\* A limit that is added counts the connections there are.
LEMMA LimitAdded ==
    ASSUME NEW A, NEW L, Ranges(A, L), NEW state, IsAccess(state, A, L), NEW bits \in L,
           bits \notin DOMAIN state.limits, NEW max \in Nat,
           NEW next, next = AddLimit(state, bits, max)
    PROVE  /\ IsAccess(next, A, L) /\ next.connections = state.connections
           /\ Apart(A, L) /\ CountsAreExact(state, A) => CountsAreExact(next, A)
<1> DEFINE S == DOMAIN state.connections
           first == [state EXCEPT !.limits = With(@, bits, max)]
           about == [bits |-> bits, state |-> state]
<1>1. HasCounts(state) /\ IsFiniteSet(S) /\ S \subseteq A
  BY CountsAreFinite DEF HasCounts, IsAccess
<1>2. PICK g : IsFold(g, "limit", about, first, S) /\ next = g[S]
  BY <1>1, CountAll
<1>3. /\ first.limits = With(state.limits, bits, max)
      /\ first.connections = state.connections /\ first.details = state.details
      /\ first = [limits |-> first.limits, connections |-> first.connections,
                  details |-> first.details, dangling |-> first.dangling]
  BY DEF IsAccess
<1>4. about.bits = bits /\ about.state = state
  OBVIOUS
<1> HIDE DEF first, about
<1>5. g[{}] = first
  BY <1>2, FoldStarts
<1>6. ASSUME NEW s \in SUBSET S, s # {}
      PROVE  \E x \in s :
                g[s] = AddLimitConnection(g[s \ {x}], bits, x, state.connections[x], TRUE).state
  <2>1. CanFold("limit", S)
    BY DEF CanFold
  <2>2. \E x \in s : g[s] = FoldStep("limit", about, x, g[s \ {x}])
    <3> HIDE DEF S
    <3> QED BY <1>2, <1>6, <2>1, FoldGoesOn
  <2>3. \A x, done : FoldStep("limit", about, x, done) =
                     AddLimitConnection(done, bits, x, state.connections[x], TRUE).state
    BY <1>4 DEF FoldStep
  <2> QED BY <2>2, <2>3
<1>7. /\ DOMAIN first.limits = DOMAIN state.limits \cup {bits}
      /\ first.limits[bits] = max
      /\ \A b \in DOMAIN state.limits : first.limits[b] = state.limits[b]
  BY <1>3 DEF With
<1>8. IsAccess(first, A, L)
  <2>1. \A s \in DOMAIN state.details : IsDetail(state.details[s], s, state, A)
    BY DEF IsAccess
  <2>2. \A s \in DOMAIN first.details : IsDetail(first.details[s], s, first, A)
    BY <1>3, <1>7, <2>1 DEF IsDetail
  <2> QED BY <1>3, <1>7, <2>2 DEF IsAccess
<1> DEFINE Room(s, a) == Cardinality(PartOf(state, s, SubnetOf(a, bits), bits))
           Sums(s, then) ==
               /\ \A a \in A : CountIn(then, a, bits) = Room(s, a)
               /\ \A a \in A, b \in DOMAIN state.limits : CountIn(then, a, b) = CountIn(state, a, b)
           IsGood(s, then) ==
               /\ IsAccess(then, A, L) /\ then.connections = state.connections
               /\ then.limits = first.limits
               /\ Apart(A, L) => Sums(s, then)
           Good == {s \in SUBSET S : IsGood(s, g[s])}
<1>9. \A a, b : CountIn(first, a, b) = CountIn(state, a, b)
  BY <1>3 DEF CountIn
<1>10. DOMAIN state.limits \subseteq L /\ bits \in L
  BY DEF IsAccess
<1>11. IsGood({}, first)
  <2>1. ASSUME Apart(A, L), NEW a \in A
        PROVE  CountIn(state, a, bits) = 0
    <3>1. PICK subnet : subnet = SubnetOf(a, bits)
      OBVIOUS
    <3>2. subnet \notin DOMAIN state.details
      <4> SUFFICES ASSUME subnet \in DOMAIN state.details PROVE FALSE
        OBVIOUS
      <4>1. IsDetail(state.details[subnet], subnet, state, A)
        BY DEF IsAccess
      <4>2. PICK b \in DOMAIN state.limits : \E c \in A : subnet = SubnetOf(c, b)
        BY <4>1 DEF IsDetail
      <4> QED BY <1>10, <2>1, <3>1, <4>2 DEF Apart
    <3> QED BY <3>1, <3>2 DEF CountIn
  <2>2. \A a \in A : Room({}, a) = 0
    <3>1. \A a : PartOf(state, {}, SubnetOf(a, bits), bits) = {}
      BY <1>1, PartIsFinite
    <3> QED BY <3>1, FS_EmptySet
  <2> HIDE DEF Room
  <2> QED BY <1>3, <1>8, <1>9, <2>1, <2>2
<1>12. {} \in Good
  BY <1>5, <1>11
<1>13. ASSUME NEW s \in SUBSET S, s # {}
       PROVE  \E x \in s : s \ {x} \in Good => s \in Good
  <2>1. PICK x \in s : g[s] = AddLimitConnection(g[s \ {x}], bits, x, state.connections[x], TRUE).state
    BY <1>6, <1>13
  <2>2. PICK done : done = g[s \ {x}]
    OBVIOUS
  <2>3. PICK n : n = state.connections[x]
    OBVIOUS
  <2>4. PICK yes : yes = TRUE
    OBVIOUS
  <2>5. PICK one : one = AddLimitConnection(done, bits, x, n, yes)
    OBVIOUS
  <2>6. g[s] = one.state
    <3>1. one = AddLimitConnection(g[s \ {x}], bits, x, state.connections[x], TRUE)
      BY <2>2, <2>3, <2>4, <2>5
    <3> QED BY <2>1, <3>1
  <2> SUFFICES ASSUME IsGood(s \ {x}, done) PROVE IsGood(s, one.state)
    BY <2>1, <2>2, <2>6
  <2>7. x \in A /\ x \in S /\ n \in Nat \ {0}
    BY <1>1, <2>3 DEF HasCounts
  <2>8. Counting(done, bits, x, n, A, L)
    BY <1>7, <2>7 DEF Counting
  <2>9. /\ IsAccess(one.state, A, L) /\ SameButCounts(one.state, done)
        /\ \A a \in A, b \in L :
              CountIn(one.state, a, b) = CountIn(done, a, b)
                 + (IF SubnetOf(a, b) = SubnetOf(x, bits) THEN n ELSE 0)
    <3>1. /\ IsAccess(one.state, A, L) /\ SameButCounts(one.state, done)
          /\ yes => \A a \in A, b \in L :
                CountIn(one.state, a, b) = CountIn(done, a, b)
                   + (IF SubnetOf(a, b) = SubnetOf(x, bits) THEN n ELSE 0)
      <4> HIDE DEF IsGood
      <4> QED BY <2>5, <2>8, LimitCounts
    <3>2. yes
      BY <2>4
    <3> QED BY <3>1, <3>2
  <2>10. one.state.connections = state.connections /\ one.state.limits = first.limits
    BY <2>9 DEF SameButCounts
  <2>11. ASSUME Apart(A, L)
         PROVE  Sums(s, one.state)
    <3>1. Sums(s \ {x}, done)
      BY <2>11
    <3>2. ASSUME NEW a \in A
          PROVE  CountIn(one.state, a, bits) = Room(s, a)
      <4>1. PICK subnet : subnet = SubnetOf(a, bits)
        OBVIOUS
      <4>2. IsFiniteSet(PartOf(state, s \ {x}, subnet, bits))
        <5>1. s \ {x} \in SUBSET S
          OBVIOUS
        <5> HIDE DEF S
        <5> QED BY <1>1, <5>1, PartIsFinite DEF S
      <4>3. x \in DOMAIN state.connections
        BY <2>7
      <4>4. Cardinality(PartOf(state, s, subnet, bits)) =
                 Cardinality(PartOf(state, s \ {x}, subnet, bits))
                    + (IF SubnetOf(x, bits) = subnet THEN n ELSE 0)
        BY <1>1, <2>3, <4>2, <4>3, PartGrows
      <4>5. Room(s, a) = Room(s \ {x}, a) + (IF SubnetOf(x, bits) = subnet THEN n ELSE 0)
        BY <4>1, <4>4
      <4>6. CountIn(one.state, a, bits) = CountIn(done, a, bits)
                 + (IF subnet = SubnetOf(x, bits) THEN n ELSE 0)
        BY <2>9, <4>1
      <4>7. CountIn(done, a, bits) = Room(s \ {x}, a)
        BY <3>1
      <4> HIDE DEF Room
      <4> QED BY <4>5, <4>6, <4>7
    <3>3. ASSUME NEW a \in A, NEW b \in DOMAIN state.limits
          PROVE  CountIn(one.state, a, b) = CountIn(state, a, b)
      <4>1. SubnetOf(a, b) # SubnetOf(x, bits)
        BY <1>10, <2>7, <2>11 DEF Apart
      <4>2. CountIn(one.state, a, b) = CountIn(done, a, b) + 0
        BY <1>10, <2>9, <4>1
      <4>3. CountIn(done, a, b) = CountIn(state, a, b)
        BY <3>1
      <4>4. CountIn(state, a, b) \in Nat
        BY DEF CountIn, IsAccess, IsDetail
      <4> QED BY <4>2, <4>3, <4>4
    <3> HIDE DEF Room
    <3> QED BY <3>2, <3>3
  <2> HIDE DEF Sums
  <2> QED BY <2>9, <2>10, <2>11
<1>14. S \in Good
  <2> HIDE DEF Good, S
  <2>1. \A s \in SUBSET S : s \in Good
    BY <1>1, <1>12, <1>13, SubsetInduction
  <2> QED BY <2>1
<1>15. IsGood(S, next)
  BY <1>2, <1>14
<1>16. ASSUME Apart(A, L), CountsAreExact(state, A), NEW b \in DOMAIN next.limits, NEW a \in A
       PROVE  CountIn(next, a, b) = ConnectionsIn(next, SubnetOf(a, b), b)
  <2>1. Sums(S, next)
    BY <1>15, <1>16
  <2>2. PICK subnet : subnet = SubnetOf(a, b)
    OBVIOUS
  <2>3. ConnectionsIn(next, subnet, b) = ConnectionsIn(state, subnet, b)
    BY <1>15, SameConnections
  <2>4. CASE b = bits
    <3>1. CountIn(next, a, b) = Cardinality(PartOf(state, S, subnet, b))
      BY <2>1, <2>2, <2>4
    <3>0. HasCounts(state)
      BY <1>1
    <3>2. PartOf(state, S, subnet, b) = {c \in Connections(state) : SubnetOf(c[1], b) = subnet}
      <4> HIDE DEF Good, IsGood, Sums
      <4> QED BY <3>0, PartIsFinite
    <3>3. ConnectionsIn(state, subnet, b) = Cardinality(PartOf(state, S, subnet, b))
      BY <3>2 DEF ConnectionsIn
    <3> QED BY <2>2, <2>3, <3>1, <3>3
  <2>5. CASE b # bits
    <3>1. b \in DOMAIN state.limits
      BY <1>7, <1>15, <2>5
    <3>2. CountIn(next, a, b) = CountIn(state, a, b)
      BY <2>1, <3>1
    <3>3. CountIn(state, a, b) = ConnectionsIn(state, subnet, b)
      BY <1>16, <2>2, <3>1 DEF CountsAreExact
    <3> QED BY <2>2, <2>3, <3>2, <3>3
  <2> QED BY <2>4, <2>5
<1>17. Apart(A, L) /\ CountsAreExact(state, A) => CountsAreExact(next, A)
  BY <1>16 DEF CountsAreExact
<1> QED BY <1>15, <1>17

-----------------------------------------------------------------------------
(* The peer manager.                                                       *)

Hosts == scenario.addresses
Limits == DOMAIN scenario.initial \cup DOMAIN scenario.limits

IsPeer(x) ==
    /\ DOMAIN x = {"addr", "status", "condition", "check", "onConnect", "onDisconnect"}
    /\ x.status \in {"unused", "connecting", "ready", "closed"}
    /\ x.status # "unused" => x.addr \in Hosts

IsAdding(x) == /\ x = [at |-> x.at, peer |-> x.peer]
               /\ x.at \in {"idle", "count", "insert", "pool", "event", "undo"}

DirectoryTypes ==
    /\ scenario \in Scenarios
    /\ peers = [p \in PeerIds |-> peers[p]] /\ \A p \in PeerIds : IsPeer(peers[p])
    /\ adding = [t \in scenario.threads |-> adding[t]]
    /\ \A t \in scenario.threads : IsAdding(adding[t])
    /\ members \in [Pools -> SUBSET PeerIds] /\ leaving \in [Pools -> SUBSET PeerIds]
    /\ allPeers \subseteq PeerIds /\ lookup \subseteq PeerIds /\ stopped \subseteq Pools
    /\ leaked \in [Hosts -> Nat]
    /\ IsAccess(access, Hosts, Limits)

IsMember(p) == \E k \in Pools : p \in members[k]
IsJoining(p) == \E t \in scenario.threads : adding[t].at = "pool" /\ adding[t].peer = p

\* Who adds a peer is the only one who knows it, or holds the lock on it.
AddersAlone ==
    /\ \A t \in scenario.threads : adding[t].at # "idle" =>
          /\ adding[t].peer \in PeerIds /\ peers[adding[t].peer].status = "connecting"
          /\ IsMember(adding[t].peer) => adding[t].at \in {"event", "undo"}
          /\ adding[t].peer \in allPeers => adding[t].at \in {"pool", "event", "undo"}
    /\ \A t, u \in scenario.threads :
          t # u /\ adding[t].at # "idle" /\ adding[u].at # "idle" => adding[t].peer # adding[u].peer

MapsAgree ==
    /\ \A j, k \in Pools : j # k => members[j] \cap members[k] = {}
    /\ \A p \in PeerIds : p \in allPeers <=> IsMember(p) \/ IsJoining(p)
    /\ \A k \in Pools : leaving[k] \subseteq members[k]
    /\ \A k \in Pools : \A p \in leaving[k] : peers[p].status = "closed"
    /\ \A p \in PeerIds : p \in lookup <=> peers[p].status = "ready"
    /\ \A p \in lookup : IsMember(p)
    /\ \A p \in allPeers : peers[p].status # "unused"

StopIsClean ==
    /\ stopped # {} => \A t \in scenario.threads : adding[t].at = "idle"
    /\ \A k \in stopped : leaving[k] = {}
    /\ stopped = Pools => allPeers = {} /\ lookup = {}

CountedAt(a) == {p \in PeerIds : Counted(p) /\ peers[p].addr = a}

ConnectionsAreKept ==
    \A a \in Hosts : Cardinality(CountedAt(a)) + leaked[a] = NumberOf(access, a)

DirectoryInvariant ==
    /\ DirectoryTypes /\ AddersAlone /\ MapsAgree /\ StopIsClean
    /\ ConnectionsAreKept /\ LimitsAreExact

\* What happens to a peer leaves it its address.
LEMMA ShutPeer ==
    ASSUME NEW x, IsPeer(x), x.status # "unused",
           NEW y, y = Shut(x) \/ y = [Shut(x) EXCEPT !.condition = TRUE]
    PROVE  IsPeer(y) /\ y.addr = x.addr /\ y.status = "closed"
<1>1. PICK no : no = FALSE
  OBVIOUS
<1>2. PICK yes : yes = TRUE
  OBVIOUS
<1> DEFINE shut == [x EXCEPT !.status = "closed", !.onConnect = no, !.onDisconnect = no, !.check = no]
           told == [shut EXCEPT !.condition = yes]
<1>3. y = shut \/ y = told
  BY <1>1, <1>2, Zenon DEF Shut
<1>4. IsPeer(shut) /\ shut.addr = x.addr /\ shut.status = "closed"
  BY DEF IsPeer
<1>5. IsPeer(told) /\ told.addr = x.addr /\ told.status = "closed"
  <2> HIDE DEF shut
  <2> QED BY <1>4 DEF IsPeer
<1> HIDE DEF shut, told
<1> QED BY <1>3, <1>4, <1>5

LEMMA MarkPeer ==
    ASSUME NEW x, IsPeer(x), NEW value, NEW y,
           \/ y = [x EXCEPT !.check = value]
           \/ y = [x EXCEPT !.condition = value]
           \/ y = [x EXCEPT !.condition = value, !.onDisconnect = value]
    PROVE  IsPeer(y) /\ y.addr = x.addr /\ y.status = x.status
BY DEF IsPeer

\* Hosts and limits are finitely many.
LEMMA HostsAreFinite ==
    ASSUME DirectoryTypes
    PROVE  /\ Ranges(Hosts, Limits) /\ IsFiniteSet(PeerIds)
           /\ LimitsAreExact <=> (Apart(Hosts, Limits) => CountsAreExact(access, Hosts))
<1>1. scenario \in Scenarios
  BY DEF DirectoryTypes
<1>2. /\ IsFiniteSet(Hosts)
      /\ IsFiniteSet(DOMAIN scenario.initial) /\ IsFiniteSet(DOMAIN scenario.limits)
      /\ DOMAIN scenario.initial \subseteq 0 .. Width /\ DOMAIN scenario.limits \subseteq 0 .. Width
      /\ IsFiniteSet(PeerIds)
  BY <1>1, DirectoryAssumption DEF Hosts
<1>3. IsFiniteSet(Limits) /\ Limits \subseteq Nat
  <2>1. IsFiniteSet(Limits)
    BY <1>2, FS_Union DEF Limits
  <2>2. 0 .. Width \subseteq Nat
    OBVIOUS
  <2> QED BY <1>2, <2>1, <2>2 DEF Limits
<1>4. LimitsAreExact <=> (Apart(Hosts, Limits) => CountsAreExact(access, Hosts))
  BY DEF LimitsAreExact, AreApart, Apart, Hosts, Limits
<1> QED BY <1>2, <1>3, <1>4 DEF Ranges

\* Peers that are counted at an address, and connections there, stay as many as each other.
LEMMA CountedStay ==
    ASSUME DirectoryTypes, DirectoryTypes', ConnectionsAreKept, scenario' = scenario,
           leaked' = leaked, access'.connections = access.connections,
           \A q \in PeerIds : /\ Counted(q)' <=> Counted(q)
                              /\ Counted(q) => peers'[q].addr = peers[q].addr
    PROVE  ConnectionsAreKept'
<1>1. \A a : CountedAt(a)' = CountedAt(a)
  BY DEF CountedAt
<1>2. \A a : NumberOf(access', a) = NumberOf(access, a)
  BY DEF NumberOf
<1> QED BY <1>1, <1>2 DEF ConnectionsAreKept, Hosts

LEMMA OneIsCounted ==
    ASSUME DirectoryTypes, DirectoryTypes', ConnectionsAreKept, scenario' = scenario,
           leaked' = leaked, NEW p \in PeerIds, ~Counted(p), Counted(p)',
           \A a : NumberOf(access', a) = NumberOf(access, a) + (IF a = peers[p].addr THEN 1 ELSE 0),
           \A q \in PeerIds : /\ q # p => (Counted(q)' <=> Counted(q))
                              /\ peers'[q].addr = peers[q].addr
    PROVE  ConnectionsAreKept'
<1> SUFFICES ASSUME NEW a \in Hosts
             PROVE  Cardinality(CountedAt(a)') + leaked[a] = NumberOf(access', a)
  BY DEF ConnectionsAreKept, Hosts
<1>1. Cardinality(CountedAt(a)) + leaked[a] = NumberOf(access, a)
  BY DEF ConnectionsAreKept
<1>2. CountedAt(a)' = (IF a = peers[p].addr THEN CountedAt(a) \cup {p} ELSE CountedAt(a)) /\ p \notin CountedAt(a)
  BY DEF CountedAt
<1>3. IsFiniteSet(CountedAt(a)) /\ Cardinality(CountedAt(a)) \in Nat
  BY HostsAreFinite, FS_Subset, FS_CardinalityType DEF CountedAt
<1>4. Cardinality(CountedAt(a) \cup {p}) = Cardinality(CountedAt(a)) + 1
  BY <1>2, <1>3, FS_AddElement
<1>5. leaked[a] \in Nat
  BY DEF DirectoryTypes
<1> QED BY <1>1, <1>2, <1>3, <1>4, <1>5

LEMMA OneIsNotCounted ==
    ASSUME DirectoryTypes, DirectoryTypes', ConnectionsAreKept, scenario' = scenario,
           NEW p \in PeerIds, Counted(p), ~Counted(p)', peers[p].addr \in Hosts,
           \/ /\ leaked' = leaked
              /\ NumberOf(access, peers[p].addr) # 0 =>
                   \A a : NumberOf(access, a) = NumberOf(access', a) + (IF a = peers[p].addr THEN 1 ELSE 0)
           \/ leaked' = [leaked EXCEPT ![peers[p].addr] = @ + 1] /\ access' = access,
           \A q \in PeerIds : /\ q # p => (Counted(q)' <=> Counted(q))
                              /\ peers'[q].addr = peers[q].addr
    PROVE  ConnectionsAreKept'
<1> DEFINE h == peers[p].addr
<1>1. \A a \in Hosts : /\ Cardinality(CountedAt(a)) + leaked[a] = NumberOf(access, a)
                       /\ leaked[a] \in Nat
  BY DEF ConnectionsAreKept, DirectoryTypes
<1>2. \A a \in Hosts : IsFiniteSet(CountedAt(a)) /\ Cardinality(CountedAt(a)) \in Nat
  BY HostsAreFinite, FS_Subset, FS_CardinalityType DEF CountedAt
<1>3. \A a \in Hosts : CountedAt(a)' = IF a = h THEN CountedAt(a) \ {p} ELSE CountedAt(a)
  BY DEF CountedAt
<1>4. p \in CountedAt(h)
  BY DEF CountedAt
<1>5. Cardinality(CountedAt(h) \ {p}) = Cardinality(CountedAt(h)) - 1 /\ Cardinality(CountedAt(h)) # 0
  <2>1. IsFiniteSet(CountedAt(h))
    BY <1>2
  <2>2. CountedAt(h) # {}
    BY <1>4
  <2> HIDE DEF h
  <2> QED BY <1>4, <2>1, <2>2, FS_RemoveElement, FS_EmptySet
<1>6. NumberOf(access, h) # 0
  <2>1. h \in Hosts
    OBVIOUS
  <2> HIDE DEF h
  <2> QED BY <1>1, <1>2, <1>5, <2>1
<1>7. \A a \in Hosts : NumberOf(access', a) \in Nat /\ NumberOf(access, a) \in Nat
  <2>1. IsAccess(access, Hosts, Limits) /\ IsAccess(access', Hosts', Limits')
    BY DEF DirectoryTypes
  <2> QED BY <2>1 DEF NumberOf, IsAccess
<1> SUFFICES ASSUME NEW a \in Hosts
             PROVE  Cardinality(CountedAt(a)') + leaked'[a] = NumberOf(access', a)
  BY DEF ConnectionsAreKept, Hosts
<1>8. Cardinality(CountedAt(a)') = Cardinality(CountedAt(a)) - (IF a = h THEN 1 ELSE 0)
  <2>1. CASE a = h
    BY <1>3, <1>5, <2>1
  <2>2. CASE a # h
    BY <1>2, <1>3, <2>2
  <2> QED BY <2>1, <2>2
<1>9. CASE /\ leaked' = leaked
           /\ \A b : NumberOf(access, b) = NumberOf(access', b) + (IF b = h THEN 1 ELSE 0)
  BY <1>1, <1>2, <1>7, <1>8, <1>9
<1>10. CASE leaked' = [leaked EXCEPT ![h] = @ + 1] /\ access' = access
  <2>1. leaked'[a] = leaked[a] + (IF a = h THEN 1 ELSE 0)
    BY <1>1, <1>10 DEF DirectoryTypes
  <2> QED BY <1>1, <1>2, <1>8, <1>10, <2>1
<1> QED BY <1>6, <1>9, <1>10

\* One peer, or one thread that adds a peer, changes and the others stay.
LEMMA OnePeer ==
    ASSUME DirectoryTypes, scenario' = scenario, NEW p \in PeerIds, NEW x, IsPeer(x),
           peers' = [peers EXCEPT ![p] = x]
    PROVE  /\ peers'[p] = x
           /\ \A q \in PeerIds : q # p => peers'[q] = peers[q]
           /\ peers' = [q \in PeerIds |-> peers'[q]]
           /\ \A q \in PeerIds : IsPeer(peers'[q])
BY DEF DirectoryTypes

LEMMA OneAdder ==
    ASSUME DirectoryTypes, NEW t \in scenario.threads, NEW at, NEW p,
           at \in {"idle", "count", "insert", "pool", "event", "undo"},
           \/ adding' = [adding EXCEPT ![t] = [at |-> at, peer |-> p]]
           \/ adding' = [adding EXCEPT ![t].at = at] /\ p = adding[t].peer
    PROVE  /\ adding'[t].at = at /\ adding'[t].peer = p
           /\ \A u \in scenario.threads : u # t => adding'[u] = adding[u]
           /\ adding' = [u \in scenario.threads |-> adding'[u]]
           /\ \A u \in scenario.threads : IsAdding(adding'[u])
<1>1. /\ adding = [u \in scenario.threads |-> adding[u]]
      /\ \A u \in scenario.threads : IsAdding(adding[u])
  BY DEF DirectoryTypes
<1>2. CASE adding' = [adding EXCEPT ![t] = [at |-> at, peer |-> p]]
  BY <1>1, <1>2 DEF IsAdding
<1>3. CASE adding' = [adding EXCEPT ![t].at = at] /\ p = adding[t].peer
  <2>1. /\ adding'[t] = [adding[t] EXCEPT !.at = at]
        /\ \A u \in scenario.threads : u # t => adding'[u] = adding[u]
        /\ adding' = [u \in scenario.threads |-> adding'[u]]
    BY <1>1, <1>3
  <2>2. adding'[t] = [at |-> at, peer |-> p]
    <3>1. adding[t] = [at |-> adding[t].at, peer |-> p]
      BY <1>1, <1>3 DEF IsAdding
    <3> QED BY <2>1, <3>1
  <2> QED BY <1>1, <2>1, <2>2 DEF IsAdding
<1> QED BY <1>2, <1>3

LEMMA TypesKept ==
    ASSUME DirectoryTypes, scenario' = scenario,
           peers' = [q \in PeerIds |-> peers'[q]], \A q \in PeerIds : IsPeer(peers'[q]),
           adding' = [u \in scenario.threads |-> adding'[u]],
           \A u \in scenario.threads : IsAdding(adding'[u]),
           members' \in [Pools -> SUBSET PeerIds], leaving' \in [Pools -> SUBSET PeerIds],
           allPeers' \subseteq PeerIds, lookup' \subseteq PeerIds, stopped' \subseteq Pools,
           leaked' \in [Hosts -> Nat], IsAccess(access', Hosts, Limits)
    PROVE  DirectoryTypes'
<1>1. Hosts' = Hosts /\ Limits' = Limits
  BY DEF Hosts, Limits
<1>2. \A q \in PeerIds : IsPeer(peers[q])'
  BY <1>1 DEF IsPeer
<1>3. \A u \in scenario'.threads : IsAdding(adding[u])'
  BY DEF IsAdding
<1>4. IsAccess(access, Hosts, Limits)'
  BY <1>1
<1> QED BY <1>1, <1>2, <1>3, <1>4 DEF DirectoryTypes

LEMMA LimitsKept ==
    ASSUME DirectoryTypes, LimitsAreExact, DirectoryTypes', scenario' = scenario,
           Apart(Hosts, Limits) /\ CountsAreExact(access, Hosts) => CountsAreExact(access', Hosts)
    PROVE  LimitsAreExact'
BY HostsAreFinite DEF LimitsAreExact, AreApart, Apart, Hosts, Limits

\* A peer's step that moves nothing between the maps.
LEMMA NothingMoves ==
    ASSUME DirectoryInvariant, UNCHANGED <<allPeers, members, leaving, adding, leaked, scenario>>,
           stopped' \subseteq Pools, stopped \subseteq stopped',
           stopped' # stopped => /\ \A t \in scenario.threads : adding[t].at = "idle"
                                 /\ \A k \in stopped' : leaving[k] = {}
                                 /\ stopped' # Pools,
           access'.connections = access.connections, IsAccess(access', Hosts, Limits),
           Apart(Hosts, Limits) /\ CountsAreExact(access, Hosts) => CountsAreExact(access', Hosts),
           peers' = [q \in PeerIds |-> peers'[q]],
           \A q \in PeerIds : /\ IsPeer(peers'[q]) /\ peers'[q].addr = peers[q].addr
                              /\ \/ peers'[q].status = peers[q].status
                                 \/ /\ peers[q].status = "connecting" /\ peers'[q].status = "ready"
                                    /\ \E k \in Pools \ stopped : q \in members[k] \ leaving[k]
                                    /\ ~Locked(q),
           \A q : q \in lookup' <=> q \in lookup \/ (q \in PeerIds /\ peers'[q].status = "ready")
    PROVE  DirectoryInvariant'
<1> USE DEF DirectoryInvariant
<1>1. DirectoryTypes'
  BY TypesKept DEF DirectoryTypes
<1>2. AddersAlone'
  <2>1. ASSUME NEW t \in scenario.threads, adding[t].at # "idle"
        PROVE  peers'[adding[t].peer].status = "connecting"
    <3>1. adding[t].peer \in PeerIds /\ peers[adding[t].peer].status = "connecting"
      BY <2>1 DEF AddersAlone
    <3>2. Locked(adding[t].peer)
      BY <2>1 DEF Locked, DirectoryTypes
    <3> QED BY <3>1, <3>2
  <2> QED BY <2>1 DEF AddersAlone, IsMember
<1>3. MapsAgree'
  <2>1. \A k \in Pools : \A p \in leaving[k] : peers'[p].status = "closed"
    BY DEF MapsAgree, DirectoryTypes
  <2>2. \A p \in PeerIds : p \in lookup' <=> peers'[p].status = "ready"
    BY DEF MapsAgree
  <2>3. \A p \in lookup' : IsMember(p)
    BY DEF MapsAgree, IsMember
  <2>4. \A p \in allPeers : peers'[p].status # "unused"
    <3>1. \A p \in allPeers : p \in PeerIds /\ peers[p].status # "unused"
      BY DEF MapsAgree, DirectoryTypes
    <3>2. \A p \in PeerIds : peers'[p].status = peers[p].status \/ peers'[p].status = "ready"
      OBVIOUS
    <3> QED BY <3>1, <3>2
  <2> QED BY <2>1, <2>2, <2>3, <2>4 DEF MapsAgree, IsMember, IsJoining
<1>4. StopIsClean'
  <2>1. stopped = Pools => lookup' = {}
    <3> SUFFICES ASSUME stopped = Pools, NEW q \in lookup' PROVE FALSE
      OBVIOUS
    <3>1. lookup = {}
      BY DEF StopIsClean
    <3>2. q \in PeerIds /\ peers'[q].status = "ready" /\ peers[q].status # "ready"
      BY <3>1 DEF MapsAgree
    <3> QED BY <3>2
  <2> QED BY <2>1 DEF StopIsClean
<1>5. ConnectionsAreKept'
  <2>1. \A q \in PeerIds : Counted(q)' <=> Counted(q)
    BY DEF Counted
  <2> QED BY <1>1, <2>1, CountedStay
<1>6. LimitsAreExact'
  BY <1>1, LimitsKept
<1> QED BY <1>1, <1>2, <1>3, <1>4, <1>5, <1>6

\* The steps that move nothing: requests, checks, tasks, rules.
LEMMA QuietSteps ==
    ASSUME DirectoryInvariant,
           \/ UNCHANGED directoryVars
           \/ \E a \in scenario.addresses : Reuse(a)
           \/ \E k \in Pools, p \in PeerIds : VisitReady(k, p) \/ VisitChecked(k, p)
           \/ \E k \in Pools, p \in PeerIds, thread \in {"primary", "worker"} :
                WaitForPeer(k, thread, p)
           \/ \E k \in Pools : RunTask(k)
           \/ \E p \in PeerIds : DisconnectFrom(p)
           \/ ChangeRules \/ Recover
    PROVE  DirectoryInvariant'
<1> USE DEF DirectoryInvariant
<1>0. /\ peers = [q \in PeerIds |-> peers[q]] /\ \A q \in PeerIds : IsPeer(peers[q])
      /\ IsAccess(access, Hosts, Limits) /\ stopped \subseteq Pools
      /\ \A q : q \in lookup <=> q \in PeerIds /\ peers[q].status = "ready"
  BY DEF DirectoryTypes, MapsAgree
<1> DEFINE SamePeers == /\ peers' = [q \in PeerIds |-> peers'[q]]
                        /\ \A q \in PeerIds : /\ IsPeer(peers'[q]) /\ peers'[q].addr = peers[q].addr
                                              /\ peers'[q].status = peers[q].status
           SameAccess == /\ access'.connections = access.connections
                         /\ IsAccess(access', Hosts, Limits)
                         /\ Apart(Hosts, Limits) /\ CountsAreExact(access, Hosts)
                               => CountsAreExact(access', Hosts)
<1>1. access' = access => SameAccess
  BY <1>0
<1>2. peers' = peers => SamePeers
  BY <1>0
<1>3. ASSUME UNCHANGED <<allPeers, members, leaving, adding, leaked, scenario, stopped, lookup>>,
             SamePeers, SameAccess
      PROVE  DirectoryInvariant'
  <2>1. \A q : q \in lookup' <=> q \in lookup \/ (q \in PeerIds /\ peers'[q].status = "ready")
    BY <1>0, <1>3
  <2> HIDE DEF DirectoryInvariant
  <2> QED BY <1>0, <1>3, <2>1, NothingMoves
<1>4. ASSUME NEW p \in PeerIds, NEW x,
             IsPeer(x), x.addr = peers[p].addr, x.status = peers[p].status,
             peers' = [peers EXCEPT ![p] = x]
      PROVE  SamePeers
  BY <1>0, <1>4
<1>5. ASSUME NEW p \in PeerIds, NEW yes,
             \/ peers' = [peers EXCEPT ![p].check = yes]
             \/ peers' = [peers EXCEPT ![p].condition = yes]
             \/ peers' = [peers EXCEPT ![p].condition = yes, ![p].onDisconnect = yes]
      PROVE  SamePeers
  <2>1. PICK y : \/ y = [peers[p] EXCEPT !.check = yes]
                 \/ y = [peers[p] EXCEPT !.condition = yes]
                 \/ y = [peers[p] EXCEPT !.condition = yes, !.onDisconnect = yes]
    OBVIOUS
  <2> QED BY <1>0, <1>5 DEF IsPeer
<1> HIDE DEF SamePeers, SameAccess, DirectoryInvariant
<1>6. CASE UNCHANGED directoryVars
  BY <1>1, <1>2, <1>3, <1>6 DEF directoryVars
<1>7. ASSUME NEW a \in scenario.addresses, Reuse(a)
      PROVE  DirectoryInvariant'
  <2>1. PICK p \in lookup : peers' = [peers EXCEPT ![p].condition = TRUE]
    BY <1>7 DEF Reuse
  <2>2. p \in PeerIds
    BY <1>0
  <2>3. SamePeers
    BY <1>5, <2>1, <2>2
  <2> QED BY <1>1, <1>3, <1>7, <2>3 DEF Reuse
<1>8. ASSUME NEW k \in Pools, NEW p \in PeerIds, VisitChecked(k, p)
      PROVE  DirectoryInvariant'
  <2>1. peers' = [peers EXCEPT ![p].check = FALSE]
    BY <1>8 DEF VisitChecked, Checked
  <2>2. SamePeers
    BY <1>5, <2>1
  <2> QED BY <1>1, <1>3, <1>8, <2>2 DEF VisitChecked
<1>9. ASSUME NEW k \in Pools, RunTask(k)
      PROVE  DirectoryInvariant'
  <2>1. peers' = Flagged(k) \/ peers' = peers
    BY <1>9 DEF RunTask
  <2>2. ASSUME peers' = Flagged(k) PROVE SamePeers
    <3>1. PICK yes : yes = TRUE
      OBVIOUS
    <3>2. peers' = [q \in PeerIds |-> IF q \in members[k] THEN [peers[q] EXCEPT !.check = yes] ELSE peers[q]]
      BY <2>2, <3>1 DEF Flagged
    <3> QED BY <1>0, <3>2 DEF SamePeers, IsPeer
  <2> QED BY <1>1, <1>2, <1>3, <1>9, <2>1, <2>2 DEF RunTask
<1>10. ASSUME NEW p \in PeerIds, DisconnectFrom(p)
       PROVE  DirectoryInvariant'
  <2>1. peers' = [peers EXCEPT ![p].condition = TRUE, ![p].onDisconnect = TRUE]
    BY <1>10 DEF DisconnectFrom
  <2>2. SamePeers
    BY <1>5, <2>1
  <2> QED BY <1>1, <1>3, <1>10, <2>2 DEF DisconnectFrom
<1>11. CASE Recover
  BY <1>1, <1>2, <1>3, <1>11 DEF Recover
<1>12. CASE ChangeRules
  <2>1. DirectoryTypes /\ Ranges(Hosts, Limits)
    BY HostsAreFinite DEF DirectoryInvariant
  <2>2. CASE access' = access
    BY <1>1, <1>2, <1>3, <1>12, <2>2 DEF ChangeRules
  <2>3. ASSUME NEW bits \in DOMAIN scenario.limits \ DOMAIN access.limits,
               NEW max \in scenario.limits[bits], access' = AddLimit(access, bits, max)
        PROVE  SameAccess
    <3>1. bits \in Limits /\ bits \notin DOMAIN access.limits
      BY <2>3 DEF Limits
    <3>2. max \in Nat
      BY <2>1, DirectoryAssumption DEF DirectoryTypes
    <3>3. PICK next : next = AddLimit(access, bits, max)
      OBVIOUS
    <3>4. /\ IsAccess(next, Hosts, Limits) /\ next.connections = access.connections
          /\ Apart(Hosts, Limits) /\ CountsAreExact(access, Hosts) => CountsAreExact(next, Hosts)
      BY <1>0, <2>1, <3>1, <3>2, <3>3, LimitAdded
    <3> QED BY <2>3, <3>3, <3>4 DEF SameAccess
  <2>4. ASSUME NEW bits \in DOMAIN access.limits, access' = RemoveLimit(access, bits)
        PROVE  SameAccess
    <3>1. PICK next : next = RemoveLimit(access, bits)
      OBVIOUS
    <3>2. /\ IsAccess(next, Hosts, Limits) /\ next.connections = access.connections
          /\ Apart(Hosts, Limits) /\ CountsAreExact(access, Hosts) => CountsAreExact(next, Hosts)
      BY <1>0, <2>1, <3>1, LimitRemoved
    <3> QED BY <2>4, <3>1, <3>2 DEF SameAccess
  <2> QED BY <1>2, <1>3, <1>12, <2>2, <2>3, <2>4 DEF ChangeRules
<1>13. ASSUME NEW k \in Pools, NEW p \in PeerIds, VisitReady(k, p)
       PROVE  DirectoryInvariant'
  <2>1. /\ k \in Pools \ stopped /\ p \in members[k] \ leaving[k] /\ peers[p].status = "connecting"
        /\ ~Locked(p)
        /\ lookup' = lookup \cup {p}
        /\ UNCHANGED <<access, allPeers, members, leaving, adding, leaked, scenario, stopped>>
    BY <1>13 DEF VisitReady, CanVisit, IsAwake
  <2>2. PICK no : no = FALSE
    OBVIOUS
  <2>3. peers' = [[peers EXCEPT ![p].check = no] EXCEPT ![p].status = "ready", ![p].onConnect = no]
    BY <1>13, <2>2 DEF VisitReady, Checked
  <2>4. /\ peers' = [q \in PeerIds |-> peers'[q]]
        /\ \A q \in PeerIds : q # p => peers'[q] = peers[q]
        /\ IsPeer(peers'[p]) /\ peers'[p].addr = peers[p].addr /\ peers'[p].status = "ready"
    BY <1>0, <2>1, <2>3 DEF IsPeer
  <2>5. \A q \in PeerIds : /\ IsPeer(peers'[q]) /\ peers'[q].addr = peers[q].addr
                           /\ \/ peers'[q].status = peers[q].status
                              \/ /\ peers[q].status = "connecting" /\ peers'[q].status = "ready"
                                 /\ \E j \in Pools \ stopped : q \in members[j] \ leaving[j]
                                 /\ ~Locked(q)
    BY <1>0, <2>1, <2>4
  <2>6. \A q : q \in lookup' <=> q \in lookup \/ (q \in PeerIds /\ peers'[q].status = "ready")
    BY <1>0, <2>1, <2>4
  <2>7. SameAccess
    BY <1>1, <2>1
  <2> QED BY <1>0, <2>1, <2>4, <2>5, <2>6, <2>7, NothingMoves DEF SameAccess
<1>14. ASSUME NEW k \in Pools, NEW p \in PeerIds, NEW thread, WaitForPeer(k, thread, p)
       PROVE  DirectoryInvariant'
  BY <1>1, <1>2, <1>3, <1>14 DEF WaitForPeer
<1> QED BY <1>6, <1>7, <1>8, <1>9, <1>10, <1>11, <1>12, <1>13, <1>14

\* A peer begins with a thread that adds it.
LEMMA BeginKeeps ==
    ASSUME DirectoryInvariant, NEW t \in scenario.threads, NEW a \in scenario.addresses, Begin(t, a)
    PROVE  DirectoryInvariant'
<1> USE DEF DirectoryInvariant
<1> DEFINE fresh == {p \in PeerIds : peers[p].status = "unused"}
<1>1. PICK p, yes :
          /\ p \in PeerIds /\ peers[p].status = "unused"
          /\ peers' = [peers EXCEPT ![p] = [Unused EXCEPT !.addr = a, !.status = "connecting",
                                                          !.onConnect = yes]]
          /\ adding' = [adding EXCEPT ![t] = [at |-> "count", peer |-> p]]
  <2>1. fresh \subseteq Nat /\ fresh # {}
    BY DirectoryAssumption DEF Begin
  <2>2. PICK p : p = CHOOSE r \in fresh : \A q \in fresh : r <= q
    OBVIOUS
  <2>3. p \in fresh
    <3> HIDE DEF fresh
    <3> QED BY <2>1, <2>2, EarliestTime
  <2>4. PICK yes : yes = (t = "app")
    OBVIOUS
  <2>5. /\ peers' = [peers EXCEPT ![p] = [Unused EXCEPT !.addr = a, !.status = "connecting",
                                                          !.onConnect = yes]]
        /\ adding' = [adding EXCEPT ![t] = [at |-> "count", peer |-> p]]
    BY <2>2, <2>4, Zenon DEF Begin
  <2> QED BY <2>3, <2>5
<1>2. PICK x : x = [Unused EXCEPT !.addr = a, !.status = "connecting", !.onConnect = yes]
  OBVIOUS
<1>3. IsPeer(x) /\ x.status = "connecting"
  BY <1>2 DEF Unused, IsPeer, Hosts
<1>4. /\ adding[t].at = "idle" /\ stopped = {}
      /\ UNCHANGED <<access, allPeers, members, lookup, leaving, stopped, leaked, scenario>>
  BY DEF Begin, Running
<1> HIDE DEF fresh
<1>5. /\ peers'[p] = x
      /\ \A q \in PeerIds : q # p => peers'[q] = peers[q]
      /\ peers' = [q \in PeerIds |-> peers'[q]]
      /\ \A q \in PeerIds : IsPeer(peers'[q])
  BY <1>1, <1>2, <1>3, <1>4, OnePeer
<1>6. /\ adding'[t].at = "count" /\ adding'[t].peer = p
      /\ \A u \in scenario.threads : u # t => adding'[u] = adding[u]
      /\ adding' = [u \in scenario.threads |-> adding'[u]]
      /\ \A u \in scenario.threads : IsAdding(adding'[u])
  <2>1. PICK at : at = "count"
    OBVIOUS
  <2>2. /\ at \in {"idle", "count", "insert", "pool", "event", "undo"}
        /\ \/ adding' = [adding EXCEPT ![t] = [at |-> at, peer |-> p]]
           \/ adding' = [adding EXCEPT ![t].at = at] /\ p = adding[t].peer
    BY <1>1, <2>1
  <2>3. /\ adding'[t].at = at /\ adding'[t].peer = p
        /\ \A u \in scenario.threads : u # t => adding'[u] = adding[u]
        /\ adding' = [u \in scenario.threads |-> adding'[u]]
        /\ \A u \in scenario.threads : IsAdding(adding'[u])
    BY <2>2, OneAdder
  <2> QED BY <2>1, <2>3
<1>7. p \notin allPeers /\ ~IsMember(p) /\ ~IsJoining(p) /\ p \notin lookup
  BY <1>1 DEF MapsAgree
<1>8. \A u \in scenario.threads : adding[u].at # "idle" => adding[u].peer # p
  BY <1>1 DEF AddersAlone
<1>9. DirectoryTypes'
  BY <1>4, <1>5, <1>6, TypesKept DEF DirectoryTypes
<1>10. AddersAlone'
  <2>1. p \in PeerIds
    BY <1>1
  <2> QED BY <1>3, <1>4, <1>5, <1>6, <1>7, <1>8, <2>1 DEF AddersAlone, IsMember
<1>11. MapsAgree'
  <2>1. \A q \in PeerIds : IsJoining(q)' <=> IsJoining(q)
    BY <1>4, <1>6 DEF IsJoining
  <2>2. \A q \in PeerIds : IsMember(q)' <=> IsMember(q)
    BY <1>4 DEF IsMember
  <2>3. \A k \in Pools : \A q \in leaving[k] : q # p /\ q \in PeerIds
    BY <1>1 DEF MapsAgree, DirectoryTypes
  <2>4. \A q \in PeerIds : q \in lookup <=> peers'[q].status = "ready"
    BY <1>3, <1>5, <1>7 DEF MapsAgree
  <2>5. \A q \in allPeers : q # p /\ q \in PeerIds
    BY <1>7 DEF DirectoryTypes
  <2>6. \A q \in lookup : q \in PeerIds
    BY DEF DirectoryTypes
  <2> QED BY <1>4, <1>5, <2>1, <2>2, <2>3, <2>4, <2>5, <2>6 DEF MapsAgree
<1>12. StopIsClean'
  BY <1>4 DEF StopIsClean
<1>13. ConnectionsAreKept'
  <2>1. \A q \in PeerIds : Counted(q)' <=> Counted(q)
    <3>1. \A q \in PeerIds : (\E u \in DOMAIN adding' : adding'[u].peer = q /\ adding'[u].at \in {"insert", "pool"})
                          <=> (\E u \in DOMAIN adding : adding[u].peer = q /\ adding[u].at \in {"insert", "pool"})
      BY <1>4, <1>6 DEF DirectoryTypes
    <3> QED BY <1>4, <3>1 DEF Counted
  <2>2. ~Counted(p)
    BY <1>7, <1>8 DEF Counted, IsMember, DirectoryTypes
  <2> QED BY <1>4, <1>5, <1>9, <2>1, <2>2, CountedStay
<1>14. LimitsAreExact'
  BY <1>4, <1>9, LimitsKept
<1> QED BY <1>9, <1>10, <1>11, <1>12, <1>13, <1>14

\* What holds of a thread that adds a peer: before the peer is in its pool, and after.
LEMMA AdderOf ==
    ASSUME DirectoryInvariant, NEW t \in scenario.threads,
           adding[t].at \in {"count", "insert", "pool"}, NEW p, p = adding[t].peer
    PROVE  /\ p \in PeerIds /\ peers[p].status = "connecting" /\ IsPeer(peers[p])
           /\ peers[p].addr \in Hosts /\ p \notin lookup
           /\ ~IsMember(p) /\ stopped = {} /\ (p \in allPeers <=> adding[t].at = "pool")
           /\ \A u \in scenario.threads : u # t => adding[u].at = "idle" \/ adding[u].peer # p
           /\ (Counted(p) <=> adding[t].at \in {"insert", "pool"})
<1> USE DEF DirectoryInvariant
<1>1. p \in PeerIds /\ peers[p].status = "connecting" /\ ~IsMember(p)
      /\ (p \in allPeers => adding[t].at = "pool")
  BY DEF AddersAlone
<1>2. IsPeer(peers[p])
  BY <1>1 DEF DirectoryTypes
<1>3. peers[p].addr \in Hosts
  BY <1>1, <1>2 DEF IsPeer
<1>4. p \notin lookup
  BY <1>1 DEF MapsAgree
<1>5. stopped = {}
  BY DEF StopIsClean
<1>6. adding[t].at = "pool" => p \in allPeers
  BY <1>1 DEF MapsAgree, IsJoining
<1>7. \A u \in scenario.threads : u # t => adding[u].at = "idle" \/ adding[u].peer # p
  BY DEF AddersAlone
<1>8. Counted(p) <=> adding[t].at \in {"insert", "pool"}
  BY <1>1, <1>7 DEF Counted, IsMember, DirectoryTypes
<1> QED BY <1>1, <1>2, <1>3, <1>4, <1>5, <1>6, <1>7, <1>8

LEMMA LockerOf ==
    ASSUME DirectoryInvariant, NEW t \in scenario.threads,
           adding[t].at \in {"event", "undo"}, NEW p, p = adding[t].peer
    PROVE  /\ p \in PeerIds /\ peers[p].status = "connecting" /\ IsPeer(peers[p])
           /\ peers[p].addr \in Hosts /\ p \notin lookup /\ stopped = {}
           /\ \A k \in Pools : p \notin leaving[k]
           /\ \A u \in scenario.threads : u # t => adding[u].at = "idle" \/ adding[u].peer # p
<1> USE DEF DirectoryInvariant
<1>1. p \in PeerIds /\ peers[p].status = "connecting"
  BY DEF AddersAlone
<1>2. IsPeer(peers[p])
  BY <1>1 DEF DirectoryTypes
<1>3. peers[p].addr \in Hosts
  BY <1>1, <1>2 DEF IsPeer
<1>4. p \notin lookup /\ \A k \in Pools : p \notin leaving[k]
  BY <1>1 DEF MapsAgree
<1>5. stopped = {}
  BY DEF StopIsClean
<1>6. \A u \in scenario.threads : u # t => adding[u].at = "idle" \/ adding[u].peer # p
  BY DEF AddersAlone
<1> QED BY <1>1, <1>2, <1>3, <1>4, <1>5, <1>6

\* A thread that goes on, or gives its peer up.
LEMMA CountKeeps ==
    ASSUME DirectoryInvariant, NEW t \in scenario.threads, Count(t)
    PROVE  DirectoryInvariant'
<1> USE DEF DirectoryInvariant
<1>1. PICK p : p = adding[t].peer
  OBVIOUS
<1>2. PICK added : added = AddConnection(access, peers[p].addr)
  OBVIOUS
<1>3. /\ adding[t].at = "count" /\ access' = added.state
      /\ UNCHANGED <<allPeers, members, lookup, leaving, stopped, leaked, scenario>>
      /\ IF added.ok THEN adding' = [adding EXCEPT ![t].at = "insert"] /\ peers' = peers
         ELSE /\ peers' = [peers EXCEPT ![p] = Shut(@)]
              /\ adding' = [adding EXCEPT ![t] = Nothing]
  BY <1>1, <1>2, Zenon DEF Count, Refuse
<1>4. /\ p \in PeerIds /\ peers[p].status = "connecting" /\ IsPeer(peers[p])
      /\ peers[p].addr \in Hosts /\ p \notin lookup
      /\ ~IsMember(p) /\ stopped = {} /\ p \notin allPeers
      /\ \A u \in scenario.threads : u # t => adding[u].at = "idle" \/ adding[u].peer # p
      /\ ~Counted(p)
  <2>1. adding[t].at = "count"
    BY <1>3
  <2> HIDE DEF DirectoryInvariant
  <2>2. /\ p \in PeerIds /\ peers[p].status = "connecting" /\ IsPeer(peers[p])
        /\ peers[p].addr \in Hosts /\ p \notin lookup
        /\ ~IsMember(p) /\ stopped = {} /\ (p \in allPeers <=> adding[t].at = "pool")
        /\ \A u \in scenario.threads : u # t => adding[u].at = "idle" \/ adding[u].peer # p
        /\ (Counted(p) <=> adding[t].at \in {"insert", "pool"})
    <3>1. adding[t].at \in {"count", "insert", "pool"}
      BY <2>1
    <3> QED BY <1>1, <3>1, AdderOf
  <2> QED BY <2>1, <2>2
<1>5. PICK h : h = peers[p].addr
  OBVIOUS
<1>6. /\ IsAccess(access', Hosts, Limits) /\ access'.limits = access.limits
      /\ \A a : NumberOf(access', a) = NumberOf(access, a) + (IF added.ok /\ a = h THEN 1 ELSE 0)
      /\ Apart(Hosts, Limits) /\ CountsAreExact(access, Hosts) => CountsAreExact(access', Hosts)
  <2>1. Ranges(Hosts, Limits) /\ IsAccess(access, Hosts, Limits)
    BY HostsAreFinite DEF DirectoryTypes
  <2>2. h \in Hosts /\ added = AddConnection(access, h)
    BY <1>2, <1>4, <1>5
  <2>3. /\ IsAccess(added.state, Hosts, Limits) /\ added.state.limits = access.limits
        /\ \A a : NumberOf(added.state, a) = NumberOf(access, a) + (IF added.ok /\ a = h THEN 1 ELSE 0)
        /\ Apart(Hosts, Limits) /\ CountsAreExact(access, Hosts) => CountsAreExact(added.state, Hosts)
    BY <2>1, <2>2, ConnectionAdded
  <2> QED BY <1>3, <2>3
<1>7. PICK at, q, x : /\ at \in {"idle", "insert"} /\ IsPeer(x) /\ x.addr = h
                      /\ \/ added.ok /\ at = "insert" /\ q = p /\ x = peers[p]
                         \/ ~added.ok /\ at = "idle" /\ x.status = "closed"
                      /\ peers' = [peers EXCEPT ![p] = x]
                      /\ \/ adding' = [adding EXCEPT ![t] = [at |-> at, peer |-> q]]
                         \/ adding' = [adding EXCEPT ![t].at = at] /\ q = adding[t].peer
  <2>1. CASE added.ok
    <3>1. adding' = [adding EXCEPT ![t].at = "insert"] /\ peers' = peers
      BY <1>3, <2>1
    <3>2. peers = [peers EXCEPT ![p] = peers[p]]
      BY <1>4 DEF DirectoryTypes
    <3> QED BY <1>1, <1>4, <1>5, <2>1, <3>1, <3>2
  <2>2. CASE ~added.ok
    <3>1. PICK x : x = Shut(peers[p])
      OBVIOUS
    <3>2. IsPeer(x) /\ x.addr = h /\ x.status = "closed"
      BY <1>4, <1>5, <3>1, ShutPeer
    <3>3. peers' = [peers EXCEPT ![p] = x] /\ adding' = [adding EXCEPT ![t] = [at |-> "idle", peer |-> 0]]
      BY <1>3, <2>2, <3>1 DEF Nothing
    <3> QED BY <2>2, <3>2, <3>3
  <2> QED BY <2>1, <2>2
<1>8. /\ peers'[p] = x
      /\ \A r \in PeerIds : r # p => peers'[r] = peers[r]
      /\ peers' = [r \in PeerIds |-> peers'[r]]
      /\ \A r \in PeerIds : IsPeer(peers'[r])
  BY <1>3, <1>4, <1>7, OnePeer
<1>9. /\ adding'[t].at = at /\ adding'[t].peer = q
      /\ \A u \in scenario.threads : u # t => adding'[u] = adding[u]
      /\ adding' = [u \in scenario.threads |-> adding'[u]]
      /\ \A u \in scenario.threads : IsAdding(adding'[u])
  <2>1. at \in {"idle", "count", "insert", "pool", "event", "undo"}
    BY <1>7
  <2> QED BY <1>7, <2>1, OneAdder
<1>10. DirectoryTypes'
  BY <1>3, <1>6, <1>8, <1>9, TypesKept DEF DirectoryTypes
<1>11. AddersAlone'
  <2>1. ASSUME NEW u \in scenario.threads, u # t, adding[u].at # "idle"
        PROVE  /\ adding[u].peer \in PeerIds /\ peers'[adding[u].peer].status = "connecting"
               /\ adding[u].peer # p
    BY <1>4, <1>8, <2>1 DEF AddersAlone
  <2>2. at # "idle" => q \in PeerIds /\ peers'[q].status = "connecting" /\ q = p
    BY <1>4, <1>7, <1>8
  <2> QED BY <1>3, <1>4, <1>7, <1>9, <2>1, <2>2 DEF AddersAlone, IsMember
<1>12. MapsAgree'
  <2>1. \A r \in PeerIds : IsJoining(r)' <=> IsJoining(r)
    BY <1>3, <1>7, <1>9 DEF IsJoining
  <2>2. \A r \in PeerIds : IsMember(r)' <=> IsMember(r)
    BY <1>3 DEF IsMember
  <2>3. \A k \in Pools : \A r \in leaving[k] : r # p /\ r \in PeerIds
    BY <1>4 DEF MapsAgree, DirectoryTypes
  <2>4. \A r \in PeerIds : r \in lookup <=> peers'[r].status = "ready"
    BY <1>4, <1>7, <1>8 DEF MapsAgree
  <2>5. \A r \in allPeers : r # p /\ r \in PeerIds
    BY <1>4 DEF DirectoryTypes
  <2>6. \A r \in lookup : r \in PeerIds
    BY DEF DirectoryTypes
  <2> QED BY <1>3, <1>8, <2>1, <2>2, <2>3, <2>4, <2>5, <2>6 DEF MapsAgree
<1>13. StopIsClean'
  BY <1>3, <1>4 DEF StopIsClean
<1>14. \A r \in PeerIds : r # p => (Counted(r)' <=> Counted(r))
  <2>1. \A r \in PeerIds : r # p =>
           ((\E u \in scenario.threads : adding'[u].peer = r /\ adding'[u].at \in {"insert", "pool"})
               <=> (\E u \in scenario.threads : adding[u].peer = r /\ adding[u].at \in {"insert", "pool"}))
    BY <1>1, <1>3, <1>7, <1>9
  <2>2. DOMAIN adding = scenario.threads /\ DOMAIN adding' = scenario.threads
    BY <1>9 DEF DirectoryTypes
  <2> QED BY <1>3, <2>1, <2>2 DEF Counted
<1>15. \A r \in PeerIds : peers'[r].addr = peers[r].addr
  BY <1>5, <1>7, <1>8
<1>16. ConnectionsAreKept'
  <2>1. CASE added.ok
    <3>1. Counted(p)'
      BY <1>7, <1>9, <2>1 DEF Counted
    <3>2. \A a : NumberOf(access', a) = NumberOf(access, a) + (IF a = peers[p].addr THEN 1 ELSE 0)
      BY <1>5, <1>6, <2>1
    <3> HIDE DEF DirectoryInvariant
    <3>3. DirectoryTypes /\ ConnectionsAreKept
      BY DEF DirectoryInvariant
    <3> QED BY <1>3, <1>4, <1>10, <1>14, <1>15, <3>1, <3>2, <3>3, OneIsCounted
  <2>2. CASE ~added.ok
    <3>1. ~Counted(p)'
      <4>1. \A u \in scenario.threads : u = t \/ adding'[u].at = "idle" \/ adding'[u].peer # p
        BY <1>4, <1>9
      <4>2. adding'[t].at = "idle"
        BY <1>7, <1>9, <2>2
      <4> QED BY <1>3, <1>4, <1>9, <4>1, <4>2 DEF Counted, IsMember
    <3>2. \A a : NumberOf(access', a) = NumberOf(access, a)
      <4>1. \A a : NumberOf(access, a) \in Nat
        BY DEF NumberOf, IsAccess, DirectoryTypes
      <4> QED BY <1>6, <2>2, <4>1
    <3>3. \A a : CountedAt(a)' = CountedAt(a)
      BY <1>4, <1>14, <1>15, <3>1 DEF CountedAt
    <3> QED BY <1>3, <3>2, <3>3 DEF ConnectionsAreKept, Hosts
  <2> QED BY <2>1, <2>2
<1>17. LimitsAreExact'
  BY <1>3, <1>6, <1>10, LimitsKept
<1> QED BY <1>10, <1>11, <1>12, <1>13, <1>16, <1>17

LEMMA InsertKeeps ==
    ASSUME DirectoryInvariant, NEW t \in scenario.threads, Insert(t)
    PROVE  DirectoryInvariant'
<1> USE DEF DirectoryInvariant
<1>1. PICK p : p = adding[t].peer
  OBVIOUS
<1>2. /\ adding[t].at = "insert" /\ allPeers' = allPeers \cup {p}
      /\ UNCHANGED <<access, peers, members, lookup, leaving, stopped, leaked, scenario>>
  BY <1>1 DEF Insert
<1>3. /\ p \in PeerIds /\ peers[p].status = "connecting" /\ IsPeer(peers[p])
      /\ peers[p].addr \in Hosts /\ p \notin lookup
      /\ ~IsMember(p) /\ stopped = {} /\ (p \in allPeers <=> adding[t].at = "pool")
      /\ \A u \in scenario.threads : u # t => adding[u].at = "idle" \/ adding[u].peer # p
      /\ (Counted(p) <=> adding[t].at \in {"insert", "pool"})
  <2>1. adding[t].at \in {"count", "insert", "pool"}
    BY <1>2
  <2> HIDE DEF DirectoryInvariant
  <2> QED BY <1>1, <2>1, AdderOf
<1>4. PICK at : at = "pool"
  OBVIOUS
<1>5. /\ adding'[t].at = at /\ adding'[t].peer = p
      /\ \A u \in scenario.threads : u # t => adding'[u] = adding[u]
      /\ adding' = [u \in scenario.threads |-> adding'[u]]
      /\ \A u \in scenario.threads : IsAdding(adding'[u])
  <2>1. /\ at \in {"idle", "count", "insert", "pool", "event", "undo"}
        /\ \/ adding' = [adding EXCEPT ![t] = [at |-> at, peer |-> p]]
           \/ adding' = [adding EXCEPT ![t].at = at] /\ p = adding[t].peer
    BY <1>1, <1>4 DEF Insert
  <2> QED BY <2>1, OneAdder
<1>6. DirectoryTypes'
  BY <1>2, <1>3, <1>5, TypesKept DEF DirectoryTypes
<1>7. AddersAlone'
  <2>1. ASSUME NEW u \in scenario.threads, u # t, adding[u].at # "idle"
        PROVE  /\ adding[u].peer \in PeerIds /\ peers[adding[u].peer].status = "connecting"
               /\ adding[u].peer # p
    BY <1>3, <2>1 DEF AddersAlone
  <2> QED BY <1>2, <1>3, <1>4, <1>5, <2>1 DEF AddersAlone, IsMember
<1>8. MapsAgree'
  <2>1. \A r \in PeerIds : IsJoining(r)' <=> IsJoining(r) \/ r = p
    BY <1>2, <1>4, <1>5 DEF IsJoining
  <2>2. \A r \in PeerIds : IsMember(r)' <=> IsMember(r)
    BY <1>2 DEF IsMember
  <2>3. \A r \in lookup : r \in PeerIds
    BY DEF DirectoryTypes
  <2> QED BY <1>2, <1>3, <2>1, <2>2, <2>3 DEF MapsAgree
<1>9. StopIsClean'
  <2>1. stopped # Pools
    BY <1>3, DirectoryAssumption
  <2> QED BY <1>2, <1>3, <2>1 DEF StopIsClean
<1>10. ConnectionsAreKept'
  <2>1. \A q \in PeerIds : Counted(q)' <=> Counted(q)
    <3>1. \A r \in PeerIds :
           ((\E u \in scenario.threads : adding'[u].peer = r /\ adding'[u].at \in {"insert", "pool"})
               <=> (\E u \in scenario.threads : adding[u].peer = r /\ adding[u].at \in {"insert", "pool"}))
      BY <1>1, <1>2, <1>4, <1>5
    <3>2. DOMAIN adding = scenario.threads /\ DOMAIN adding' = scenario.threads
      BY <1>5 DEF DirectoryTypes
    <3> QED BY <1>2, <3>1, <3>2 DEF Counted
  <2> QED BY <1>2, <1>6, <2>1, CountedStay
<1>11. LimitsAreExact'
  BY <1>2, <1>6, LimitsKept
<1> QED BY <1>6, <1>7, <1>8, <1>9, <1>10, <1>11

LEMMA JoinKeeps ==
    ASSUME DirectoryInvariant, NEW t \in scenario.threads, Join(t)
    PROVE  DirectoryInvariant'
<1> USE DEF DirectoryInvariant
<1>1. PICK p : p = adding[t].peer
  OBVIOUS
<1>2. /\ adding[t].at = "pool"
      /\ UNCHANGED <<access, peers, allPeers, lookup, leaving, stopped, leaked, scenario>>
  BY <1>1 DEF Join
<1>3. PICK k \in Pools : members' = [members EXCEPT ![k] = @ \cup {p}]
  BY <1>1 DEF Join
<1>4. /\ p \in PeerIds /\ peers[p].status = "connecting" /\ IsPeer(peers[p])
      /\ peers[p].addr \in Hosts /\ p \notin lookup
      /\ ~IsMember(p) /\ stopped = {} /\ (p \in allPeers <=> adding[t].at = "pool")
      /\ \A u \in scenario.threads : u # t => adding[u].at = "idle" \/ adding[u].peer # p
      /\ (Counted(p) <=> adding[t].at \in {"insert", "pool"})
  <2>1. adding[t].at \in {"count", "insert", "pool"}
    BY <1>2
  <2> HIDE DEF DirectoryInvariant
  <2> QED BY <1>1, <2>1, AdderOf
<1>5. PICK at, q : at = "event" /\ q = p
  OBVIOUS
<1>6. /\ adding'[t].at = at /\ adding'[t].peer = q
      /\ \A u \in scenario.threads : u # t => adding'[u] = adding[u]
      /\ adding' = [u \in scenario.threads |-> adding'[u]]
      /\ \A u \in scenario.threads : IsAdding(adding'[u])
  <2>1. /\ at \in {"idle", "count", "insert", "pool", "event", "undo"}
        /\ \/ adding' = [adding EXCEPT ![t] = [at |-> at, peer |-> q]]
           \/ adding' = [adding EXCEPT ![t].at = at] /\ q = adding[t].peer
    BY <1>1, <1>5 DEF Join
  <2> QED BY <2>1, OneAdder
<1>7. /\ members' \in [Pools -> SUBSET PeerIds] /\ members'[k] = members[k] \cup {p}
      /\ \A j \in Pools : j # k => members'[j] = members[j]
  BY <1>3, <1>4 DEF DirectoryTypes
<1>8. DirectoryTypes'
  BY <1>2, <1>4, <1>6, <1>7, TypesKept DEF DirectoryTypes
<1>9. \A r \in PeerIds : IsMember(r)' <=> IsMember(r) \/ r = p
  BY <1>7 DEF IsMember
<1>10. AddersAlone'
  <2>1. ASSUME NEW u \in scenario.threads, u # t, adding[u].at # "idle"
        PROVE  /\ adding[u].peer \in PeerIds /\ peers'[adding[u].peer].status = "connecting"
               /\ adding[u].peer # p
               /\ IsMember(adding[u].peer)' => adding[u].at \in {"event", "undo"}
    <3>1. adding[u].peer \in PeerIds /\ adding[u].peer # p
      BY <1>4, <2>1 DEF AddersAlone
    <3>2. adding'[u] = adding[u]
      BY <1>6, <2>1
    <3>3. (\E j \in Pools : adding[u].peer \in members'[j]) => IsMember(adding[u].peer)
      BY <1>7, <3>1 DEF IsMember
    <3> QED BY <1>2, <2>1, <3>1, <3>2, <3>3 DEF AddersAlone, IsMember
  <2> QED BY <1>2, <1>4, <1>5, <1>6, <2>1 DEF AddersAlone
<1>11. MapsAgree'
  <2>1. \A r \in PeerIds : IsJoining(r)' <=> IsJoining(r) /\ r # p
    BY <1>1, <1>2, <1>4, <1>5, <1>6 DEF IsJoining
  <2>2. \A j, l \in Pools : j # l => members'[j] \cap members'[l] = {}
    BY <1>4, <1>7 DEF MapsAgree, IsMember
  <2>3. \A j \in Pools : leaving[j] \subseteq members'[j]
    BY <1>7 DEF MapsAgree
  <2>4. \A r \in lookup : r \in PeerIds
    BY DEF DirectoryTypes
  <2> QED BY <1>2, <1>4, <1>9, <2>1, <2>2, <2>3, <2>4 DEF MapsAgree
<1>12. StopIsClean'
  <2>1. stopped # Pools
    BY <1>4, DirectoryAssumption
  <2> QED BY <1>2, <1>4, <2>1 DEF StopIsClean
<1>13. ConnectionsAreKept'
  <2>1. \A r \in PeerIds : Counted(r)' <=> Counted(r)
    <3>1. \A r \in PeerIds :
           ((\E u \in scenario.threads : adding'[u].peer = r /\ adding'[u].at \in {"insert", "pool"})
               <=> r # p /\ (\E u \in scenario.threads : adding[u].peer = r /\ adding[u].at \in {"insert", "pool"}))
      BY <1>1, <1>2, <1>4, <1>5, <1>6
    <3>2. DOMAIN adding = scenario.threads /\ DOMAIN adding' = scenario.threads
      BY <1>6 DEF DirectoryTypes
    <3>3. \A r \in PeerIds : (\E j \in Pools : r \in members'[j] \ leaving[j])
              <=> r = p \/ (\E j \in Pools : r \in members[j] \ leaving[j])
      <4>1. p \notin leaving[k]
        BY <1>4 DEF MapsAgree, IsMember
      <4> QED BY <1>7, <4>1
    <3>4. Counted(p)
      BY <1>2, <1>4
    <3> QED BY <1>2, <3>1, <3>2, <3>3, <3>4 DEF Counted
  <2> QED BY <1>2, <1>8, <2>1, CountedStay
<1>14. LimitsAreExact'
  BY <1>2, <1>8, LimitsKept
<1> QED BY <1>8, <1>10, <1>11, <1>12, <1>13, <1>14

\* The peer is watched, or will not be: the maps stay as they are.
LEMMA WatchKeeps ==
    ASSUME DirectoryInvariant, NEW t \in scenario.threads, Watch(t) \/ WatchFails(t)
    PROVE  DirectoryInvariant'
<1> USE DEF DirectoryInvariant
<1>1. PICK p : p = adding[t].peer
  OBVIOUS
<1>2. /\ adding[t].at = "event"
      /\ UNCHANGED <<access, peers, allPeers, members, lookup, leaving, stopped, leaked, scenario>>
  BY DEF Watch, WatchFails
<1>3. /\ p \in PeerIds /\ peers[p].status = "connecting" /\ IsPeer(peers[p])
      /\ peers[p].addr \in Hosts /\ p \notin lookup /\ stopped = {}
      /\ \A k \in Pools : p \notin leaving[k]
      /\ \A u \in scenario.threads : u # t => adding[u].at = "idle" \/ adding[u].peer # p
  <2>1. adding[t].at \in {"event", "undo"}
    BY <1>2
  <2> HIDE DEF DirectoryInvariant
  <2> QED BY <1>1, <2>1, LockerOf
<1>4. PICK at, q : /\ (at = "idle" /\ q = 0) \/ (at = "undo" /\ q = p)
                   /\ \/ adding' = [adding EXCEPT ![t] = [at |-> at, peer |-> q]]
                      \/ adding' = [adding EXCEPT ![t].at = at] /\ q = adding[t].peer
  <2>1. CASE Watch(t)
    <3>1. adding' = [adding EXCEPT ![t] = [at |-> "idle", peer |-> 0]]
      BY <2>1 DEF Watch, GiveBack, Nothing
    <3> QED BY <3>1
  <2>2. CASE WatchFails(t)
    BY <1>1, <2>2 DEF WatchFails
  <2> QED BY <2>1, <2>2
<1>5. /\ adding'[t].at = at /\ adding'[t].peer = q
      /\ \A u \in scenario.threads : u # t => adding'[u] = adding[u]
      /\ adding' = [u \in scenario.threads |-> adding'[u]]
      /\ \A u \in scenario.threads : IsAdding(adding'[u])
  <2>1. at \in {"idle", "count", "insert", "pool", "event", "undo"}
    BY <1>4
  <2> QED BY <1>4, <2>1, OneAdder
<1>6. DirectoryTypes'
  BY <1>2, <1>5, TypesKept DEF DirectoryTypes
<1>7. AddersAlone'
  <2>1. \A r : IsMember(r)' <=> IsMember(r)
    BY <1>2 DEF IsMember
  <2>2. at # "idle" => at = "undo" /\ q = p
    BY <1>4
  <2>3. ASSUME NEW u \in scenario.threads, adding'[u].at # "idle"
        PROVE  /\ adding'[u].peer = adding[u].peer /\ adding[u].at # "idle"
               /\ adding'[u].at = adding[u].at \/ adding'[u].at = "undo"
    BY <1>1, <1>2, <1>5, <2>2, <2>3
  <2>4. ASSUME NEW u \in scenario.threads, adding'[u].at # "idle"
        PROVE  /\ adding'[u].peer \in PeerIds /\ peers'[adding'[u].peer].status = "connecting"
               /\ IsMember(adding[u].peer)' => adding'[u].at \in {"event", "undo"}
               /\ adding'[u].peer \in allPeers' => adding'[u].at \in {"pool", "event", "undo"}
    <3>1. (\E k \in Pools : adding'[u].peer \in members'[k]) => IsMember(adding[u].peer)
      BY <1>2, <2>3, <2>4 DEF IsMember
    <3> QED BY <1>2, <2>3, <2>4, <3>1 DEF AddersAlone, IsMember
  <2> QED BY <1>2, <2>3, <2>4 DEF AddersAlone
<1>8. MapsAgree'
  <2>1. \A r \in PeerIds : IsJoining(r)' <=> IsJoining(r)
    BY <1>2, <1>4, <1>5 DEF IsJoining
  <2>2. \A r \in PeerIds : IsMember(r)' <=> IsMember(r)
    BY <1>2 DEF IsMember
  <2>3. \A r \in lookup : r \in PeerIds
    BY DEF DirectoryTypes
  <2> QED BY <1>2, <2>1, <2>2, <2>3 DEF MapsAgree
<1>9. StopIsClean'
  BY <1>2, <1>3, DirectoryAssumption DEF StopIsClean
<1>10. ConnectionsAreKept'
  <2>1. \A q1 \in PeerIds : Counted(q1)' <=> Counted(q1)
    <3>1. \A r \in PeerIds :
           ((\E u \in scenario.threads : adding'[u].peer = r /\ adding'[u].at \in {"insert", "pool"})
               <=> (\E u \in scenario.threads : adding[u].peer = r /\ adding[u].at \in {"insert", "pool"}))
      BY <1>2, <1>4, <1>5
    <3>2. DOMAIN adding = scenario.threads /\ DOMAIN adding' = scenario.threads
      BY <1>5 DEF DirectoryTypes
    <3> QED BY <1>2, <3>1, <3>2 DEF Counted
  <2> QED BY <1>2, <1>6, <2>1, CountedStay
<1>11. LimitsAreExact'
  BY <1>2, <1>6, LimitsKept
<1> QED BY <1>6, <1>7, <1>8, <1>9, <1>10, <1>11

\* The peer leaves both maps again; its connection stays counted, as a leaked one.
LEMMA UndoKeeps ==
    ASSUME DirectoryInvariant, NEW t \in scenario.threads, Undo(t)
    PROVE  DirectoryInvariant'
<1> USE DEF DirectoryInvariant
<1>1. PICK p : p = adding[t].peer
  OBVIOUS
<1>2. PICK k \in Pools :
        /\ adding[t].at = "undo" /\ p \in members[k]
        /\ members' = [members EXCEPT ![k] = @ \ {p}]
        /\ allPeers' = allPeers \ {p}
        /\ leaked' = [leaked EXCEPT ![peers[p].addr] = @ + 1]
        /\ peers' = [peers EXCEPT ![p] = Shut(@)]
        /\ adding' = [adding EXCEPT ![t] = Nothing]
        /\ UNCHANGED <<access, lookup, leaving, stopped, scenario>>
  BY <1>1, Zenon DEF Undo, GiveBack
<1>3. /\ p \in PeerIds /\ peers[p].status = "connecting" /\ IsPeer(peers[p])
      /\ peers[p].addr \in Hosts /\ p \notin lookup /\ stopped = {}
      /\ \A j \in Pools : p \notin leaving[j]
      /\ \A u \in scenario.threads : u # t => adding[u].at = "idle" \/ adding[u].peer # p
  <2>1. adding[t].at \in {"event", "undo"}
    BY <1>2
  <2> HIDE DEF DirectoryInvariant
  <2> QED BY <1>1, <2>1, LockerOf
<1>4. PICK at, q : at = "idle" /\ q = 0
  OBVIOUS
<1>5. /\ adding'[t].at = at /\ adding'[t].peer = q
      /\ \A u \in scenario.threads : u # t => adding'[u] = adding[u]
      /\ adding' = [u \in scenario.threads |-> adding'[u]]
      /\ \A u \in scenario.threads : IsAdding(adding'[u])
  <2>1. /\ at \in {"idle", "count", "insert", "pool", "event", "undo"}
        /\ \/ adding' = [adding EXCEPT ![t] = [at |-> at, peer |-> q]]
           \/ adding' = [adding EXCEPT ![t].at = at] /\ q = adding[t].peer
    BY <1>2, <1>4 DEF Nothing
  <2> QED BY <2>1, OneAdder
<1>6. PICK x : x = Shut(peers[p])
  OBVIOUS
<1>7. IsPeer(x) /\ x.addr = peers[p].addr /\ x.status = "closed"
  BY <1>3, <1>6, ShutPeer
<1>8. /\ peers'[p] = x
      /\ \A r \in PeerIds : r # p => peers'[r] = peers[r]
      /\ peers' = [r \in PeerIds |-> peers'[r]]
      /\ \A r \in PeerIds : IsPeer(peers'[r])
  <2>1. peers' = [peers EXCEPT ![p] = x]
    BY <1>2, <1>6
  <2> QED BY <1>2, <1>3, <1>7, <2>1, OnePeer
<1>9. leaked' \in [Hosts -> Nat]
  <2>1. leaked \in [Hosts -> Nat]
    BY DEF DirectoryTypes
  <2>2. PICK h : h = peers[p].addr
    OBVIOUS
  <2>3. h \in Hosts /\ leaked' = [leaked EXCEPT ![h] = @ + 1]
    BY <1>2, <1>3, <2>2
  <2> QED BY <2>1, <2>3
<1>10. /\ members' \in [Pools -> SUBSET PeerIds] /\ members'[k] = members[k] \ {p}
       /\ \A j \in Pools : j # k => members'[j] = members[j] /\ p \notin members[j]
  BY <1>2 DEF DirectoryTypes, MapsAgree
<1>11. DirectoryTypes'
  BY <1>2, <1>5, <1>8, <1>9, <1>10, TypesKept DEF DirectoryTypes
<1>12. \A r : (\E j \in Pools : r \in members'[j]) <=> IsMember(r) /\ r # p
  BY <1>10 DEF IsMember
<1>13. AddersAlone'
  <2>1. ASSUME NEW u \in scenario.threads, u # t, adding[u].at # "idle"
        PROVE  /\ adding[u].peer \in PeerIds /\ peers'[adding[u].peer].status = "connecting"
               /\ adding[u].peer # p
    BY <1>3, <1>8, <2>1 DEF AddersAlone
  <2> QED BY <1>2, <1>4, <1>5, <1>12, <2>1 DEF AddersAlone, IsMember
<1>14. MapsAgree'
  <2>1. \A r \in PeerIds : (IsJoining(r)' <=> IsJoining(r)) /\ (r = p => ~IsJoining(r))
    BY <1>1, <1>2, <1>3, <1>4, <1>5 DEF IsJoining
  <2>2. \A r \in PeerIds : IsMember(r)' <=> IsMember(r) /\ r # p
    BY <1>12 DEF IsMember
  <2>3. \A j \in Pools : leaving[j] \subseteq members'[j] /\ \A r \in leaving[j] : r # p /\ r \in PeerIds
    BY <1>3, <1>10 DEF MapsAgree, DirectoryTypes
  <2>4. \A r \in PeerIds : r \in lookup <=> peers'[r].status = "ready"
    BY <1>3, <1>7, <1>8 DEF MapsAgree
  <2>5. \A r \in allPeers : r \in PeerIds
    BY DEF DirectoryTypes
  <2>6. \A r \in lookup : r \in PeerIds /\ r # p
    BY <1>3 DEF DirectoryTypes
  <2>7. \A i, j \in Pools : i # j => members'[i] \cap members'[j] = {}
    BY <1>10 DEF MapsAgree
  <2> QED BY <1>2, <1>3, <1>8, <2>1, <2>2, <2>3, <2>4, <2>5, <2>6, <2>7 DEF MapsAgree
<1>15. StopIsClean'
  <2>1. stopped # Pools
    BY <1>3, DirectoryAssumption
  <2> QED BY <1>2, <1>3, <2>1 DEF StopIsClean
<1>16. ConnectionsAreKept'
  <2>1. DOMAIN adding = scenario.threads /\ DOMAIN adding' = scenario.threads
    BY <1>5 DEF DirectoryTypes
  <2>2. \A r \in PeerIds : r # p => (Counted(r)' <=> Counted(r))
    <3>1. \A r \in PeerIds : r # p =>
           ((\E u \in scenario.threads : adding'[u].peer = r /\ adding'[u].at \in {"insert", "pool"})
               <=> (\E u \in scenario.threads : adding[u].peer = r /\ adding[u].at \in {"insert", "pool"}))
      BY <1>1, <1>2, <1>4, <1>5
    <3>2. \A r \in PeerIds : r # p =>
           ((\E j \in Pools : r \in members'[j] \ leaving[j])
               <=> (\E j \in Pools : r \in members[j] \ leaving[j]))
      BY <1>10
    <3> QED BY <1>2, <2>1, <3>1, <3>2 DEF Counted
  <2>3. ~Counted(p)'
    <3>1. \A u \in scenario.threads : u = t \/ adding'[u].at = "idle" \/ adding'[u].peer # p
      BY <1>3, <1>5
    <3>2. adding'[t].at = "idle"
      BY <1>4, <1>5
    <3>3. \A j \in Pools : p \notin members'[j]
      BY <1>10
    <3> QED BY <2>1, <3>1, <3>2, <3>3, <1>2 DEF Counted
  <2>4. \A r \in PeerIds : peers'[r].addr = peers[r].addr
    BY <1>7, <1>8
  <2>5. Counted(p)
    BY <1>2, <1>3 DEF Counted
  <2>6. DirectoryTypes /\ ConnectionsAreKept
    OBVIOUS
  <2> HIDE DEF DirectoryInvariant
  <2> QED BY <1>2, <1>3, <1>11, <2>2, <2>3, <2>4, <2>5, <2>6, OneIsNotCounted
<1>17. LimitsAreExact'
  BY <1>2, <1>11, LimitsKept
<1> QED BY <1>11, <1>13, <1>14, <1>15, <1>16, <1>17

\* A peer leaves: first the books and the lookup maps, then the maps of all peers.
LEMMA LeaverKeeps ==
    ASSUME DirectoryInvariant, NEW k \in Pools, NEW p \in PeerIds, VisitLeaver(k, p)
    PROVE  DirectoryInvariant'
<1> USE DEF DirectoryInvariant
<1>1. /\ k \notin stopped /\ p \in members[k] /\ p \notin leaving[k] /\ ~Locked(p)
      /\ access' = RemoveConnection(access, peers[p].addr).state
      /\ lookup' = lookup \ {p}
      /\ leaving' = [leaving EXCEPT ![k] = @ \cup {p}]
      /\ UNCHANGED <<allPeers, members, adding, stopped, leaked, scenario>>
  BY DEF VisitLeaver, CanVisit, IsAwake, Disconnect
<1>2. IsMember(p) /\ p \in allPeers /\ peers[p].status # "unused" /\ IsPeer(peers[p])
  BY <1>1 DEF IsMember, MapsAgree, DirectoryTypes
<1>3. peers[p].addr \in Hosts
  BY <1>2 DEF IsPeer
<1>4. Counted(p)
  BY <1>1 DEF Counted
<1>5. PICK h : h = peers[p].addr
  OBVIOUS
<1>6. /\ IsAccess(access', Hosts, Limits) /\ access'.limits = access.limits
      /\ NumberOf(access, h) # 0 =>
            \A a : NumberOf(access, a) = NumberOf(access', a) + (IF a = h THEN 1 ELSE 0)
      /\ Apart(Hosts, Limits) /\ CountsAreExact(access, Hosts) => CountsAreExact(access', Hosts)
  <2>1. Ranges(Hosts, Limits) /\ IsAccess(access, Hosts, Limits)
    BY HostsAreFinite DEF DirectoryTypes
  <2>2. PICK next : next = RemoveConnection(access, h).state
    OBVIOUS
  <2>3. h \in Hosts
    BY <1>3, <1>5
  <2>4. /\ IsAccess(next, Hosts, Limits) /\ next.limits = access.limits
        /\ NumberOf(access, h) # 0 =>
              \A a : NumberOf(access, a) = NumberOf(next, a) + (IF a = h THEN 1 ELSE 0)
        /\ Apart(Hosts, Limits) /\ CountsAreExact(access, Hosts) => CountsAreExact(next, Hosts)
    BY <2>1, <2>2, <2>3, ConnectionRemoved
  <2>5. access' = next
    BY <1>1, <1>5, <2>2
  <2> QED BY <2>4, <2>5
<1>7. PICK x : x = [Shut(peers[p]) EXCEPT !.condition = TRUE]
  OBVIOUS
<1>8. IsPeer(x) /\ x.addr = h /\ x.status = "closed"
  BY <1>2, <1>5, <1>7, ShutPeer
<1>9. /\ peers'[p] = x
      /\ \A r \in PeerIds : r # p => peers'[r] = peers[r]
      /\ peers' = [r \in PeerIds |-> peers'[r]]
      /\ \A r \in PeerIds : IsPeer(peers'[r])
  <2>1. peers' = [peers EXCEPT ![p] = x]
    BY <1>7 DEF VisitLeaver, Disconnect
  <2> QED BY <1>1, <1>8, <2>1, OnePeer
<1>10. /\ leaving' \in [Pools -> SUBSET PeerIds] /\ leaving'[k] = leaving[k] \cup {p}
       /\ \A j \in Pools : j # k => leaving'[j] = leaving[j]
  BY <1>1 DEF DirectoryTypes
<1>11. DirectoryTypes'
  BY <1>1, <1>6, <1>9, <1>10, TypesKept DEF DirectoryTypes
<1>12. AddersAlone'
  <2>1. ASSUME NEW u \in scenario.threads, adding[u].at # "idle"
        PROVE  /\ adding[u].peer \in PeerIds /\ peers'[adding[u].peer].status = "connecting"
               /\ adding[u].peer # p
    BY <1>1, <1>9, <2>1 DEF AddersAlone, Locked, DirectoryTypes
  <2> QED BY <1>1, <2>1 DEF AddersAlone, IsMember
<1>13. MapsAgree'
  <2>1. \A r \in PeerIds : (IsJoining(r)' <=> IsJoining(r)) /\ (IsMember(r)' <=> IsMember(r))
    BY <1>1 DEF IsJoining, IsMember
  <2>2. \A j \in Pools : leaving'[j] \subseteq members[j]
    BY <1>1, <1>10 DEF MapsAgree
  <2>3. \A j \in Pools : \A r \in leaving'[j] : peers'[r].status = "closed"
    <3>1. \A j \in Pools : \A r \in leaving'[j] : r \in PeerIds /\ (r = p \/ r \in leaving[j])
      BY <1>10
    <3>2. \A j \in Pools : \A r \in leaving[j] : peers[r].status = "closed"
      BY DEF MapsAgree
    <3> QED BY <1>8, <1>9, <3>1, <3>2
  <2>4. \A r \in PeerIds : r \in lookup' <=> peers'[r].status = "ready"
    BY <1>1, <1>8, <1>9 DEF MapsAgree
  <2>5. \A r \in allPeers : r \in PeerIds
    BY DEF DirectoryTypes
  <2>6. \A r \in lookup' : r \in PeerIds /\ r \in lookup
    BY <1>1 DEF DirectoryTypes
  <2>7. \A r \in allPeers : peers'[r].status # "unused"
    BY <1>8, <1>9, <2>5 DEF MapsAgree
  <2> QED BY <1>1, <2>1, <2>2, <2>3, <2>4, <2>5, <2>6, <2>7 DEF MapsAgree
<1>14. StopIsClean'
  <2>1. stopped # Pools
    BY <1>1
  <2>2. \A j \in stopped : j # k /\ j \in Pools
    BY <1>1 DEF DirectoryTypes
  <2> QED BY <1>1, <1>10, <2>1, <2>2 DEF StopIsClean
<1>15. ConnectionsAreKept'
  <2>1. DOMAIN adding' = DOMAIN adding
    BY <1>1
  <2>2. \A j \in Pools : \A r \in PeerIds :
           r \in members[j] \ leaving'[j] <=> r \in members[j] \ leaving[j] /\ ~(j = k /\ r = p)
    BY <1>10
  <2>3. \A r \in PeerIds : r # p => (Counted(r)' <=> Counted(r))
    BY <1>1, <2>1, <2>2 DEF Counted
  <2>4. ~Counted(p)'
    <3>1. \A t \in scenario.threads : adding[t].at # "idle" => adding[t].peer # p
      BY <1>1 DEF Locked, DirectoryTypes
    <3>2. \A j \in Pools : j # k => p \notin members[j]
      BY <1>1 DEF MapsAgree
    <3> QED BY <1>1, <2>2, <3>1, <3>2 DEF Counted, DirectoryTypes
  <2>5. \A r \in PeerIds : peers'[r].addr = peers[r].addr
    BY <1>5, <1>8, <1>9
  <2>6. DirectoryTypes /\ ConnectionsAreKept
    OBVIOUS
  <2> HIDE DEF DirectoryInvariant
  <2> QED BY <1>1, <1>3, <1>4, <1>5, <1>6, <1>11, <2>3, <2>4, <2>5, <2>6, OneIsNotCounted
<1>16. LimitsAreExact'
  BY <1>1, <1>6, <1>11, LimitsKept
<1> QED BY <1>11, <1>12, <1>13, <1>14, <1>15, <1>16

LEMMA RemoveKeeps ==
    ASSUME DirectoryInvariant, NEW k \in Pools, NEW p \in PeerIds, RemovePeer(k, p)
    PROVE  DirectoryInvariant'
<1> USE DEF DirectoryInvariant
<1>1. /\ p \in leaving[k] /\ allPeers' = allPeers \ {p}
      /\ leaving' = [leaving EXCEPT ![k] = @ \ {p}]
      /\ members' = [members EXCEPT ![k] = @ \ {p}]
      /\ UNCHANGED <<access, peers, lookup, adding, stopped, leaked, scenario>>
  BY DEF RemovePeer
<1>2. p \in members[k] /\ IsMember(p) /\ peers[p].status = "closed" /\ p \notin lookup
  BY <1>1 DEF MapsAgree, IsMember
<1>3. /\ leaving' \in [Pools -> SUBSET PeerIds] /\ leaving'[k] = leaving[k] \ {p}
      /\ \A j \in Pools : j # k => leaving'[j] = leaving[j]
      /\ members' \in [Pools -> SUBSET PeerIds] /\ members'[k] = members[k] \ {p}
      /\ \A j \in Pools : j # k => members'[j] = members[j]
  BY <1>1 DEF DirectoryTypes
<1>4. DirectoryTypes'
  BY <1>1, <1>3, TypesKept DEF DirectoryTypes
<1>5. \A j \in Pools : j # k => p \notin members[j]
  BY <1>2 DEF MapsAgree
<1>6. \A r : (\E j \in Pools : r \in members'[j]) <=> IsMember(r) /\ r # p
  BY <1>3, <1>5 DEF IsMember
<1>7. \A t \in scenario.threads : adding[t].at # "idle" => adding[t].peer # p
  BY <1>2 DEF AddersAlone
<1>8. AddersAlone'
  BY <1>1, <1>6, <1>7 DEF AddersAlone, IsMember
<1>9. MapsAgree'
  <2>1. \A r : (IsJoining(r)' <=> IsJoining(r)) /\ (IsMember(r)' <=> IsMember(r) /\ r # p)
    BY <1>1, <1>6 DEF IsJoining, IsMember
  <2>2. ~IsJoining(p)
    BY <1>7 DEF IsJoining
  <2>3. \A j \in Pools : /\ leaving'[j] \subseteq members'[j] /\ leaving'[j] \subseteq leaving[j]
                         /\ members'[j] \subseteq members[j]
    BY <1>1, <1>3 DEF MapsAgree
  <2> QED BY <1>1, <1>2, <2>1, <2>2, <2>3 DEF MapsAgree
<1>10. StopIsClean'
  <2>1. k \notin stopped
    BY <1>1 DEF StopIsClean
  <2>2. \A j \in stopped : j # k /\ j \in Pools
    BY <2>1 DEF DirectoryTypes
  <2> QED BY <1>1, <1>3, <2>1, <2>2 DEF StopIsClean
<1>11. ConnectionsAreKept'
  <2>1. \A j \in Pools : \A r \in PeerIds :
           r \in members'[j] \ leaving'[j] <=> r \in members[j] \ leaving[j]
    BY <1>1, <1>3
  <2>2. \A r \in PeerIds : Counted(r)' <=> Counted(r)
    BY <1>1, <2>1 DEF Counted
  <2> QED BY <1>1, <1>4, <2>2, CountedStay
<1>12. LimitsAreExact'
  BY <1>1, <1>4, LimitsKept
<1> QED BY <1>4, <1>8, <1>9, <1>10, <1>11, <1>12

\* When the last pool stops, all peers that are left are disconnected, one after the other.
LEMMA AllAreDisconnected ==
    ASSUME DirectoryTypes, ConnectionsAreKept, LimitsAreExact,
           \A p \in PeerIds : Counted(p) <=> p \in allPeers,
           \A p \in allPeers : peers[p].status # "unused",
           NEW g, IsFold(g, "stop", peers, access, allPeers), NEW after, after = g[allPeers]
    PROVE  /\ IsAccess(after, Hosts, Limits)
           /\ Apart(Hosts, Limits) => CountsAreExact(after, Hosts)
           /\ \A a \in Hosts : NumberOf(after, a) = leaked[a]
<1> DEFINE S == allPeers
           At(s, a) == {p \in s : peers[p].addr = a}
           IsGood(s, then) ==
               /\ IsAccess(then, Hosts, Limits)
               /\ Apart(Hosts, Limits) => CountsAreExact(then, Hosts)
               /\ \A a \in Hosts : NumberOf(access, a) = NumberOf(then, a) + Cardinality(At(s, a))
<1>1. IsFiniteSet(S) /\ S \subseteq PeerIds /\ Ranges(Hosts, Limits) /\ IsAccess(access, Hosts, Limits)
  BY HostsAreFinite, FS_Subset DEF DirectoryTypes
<1>2. IsFold(g, "stop", peers, access, S) /\ CanFold("stop", S)
  BY DEF CanFold
<1>3. after = g[S]
  OBVIOUS
<1>4. g[{}] = access
  <2> HIDE DEF S
  <2> QED BY <1>2, FoldStarts
<1>5. ASSUME NEW s \in SUBSET S, s # {}
      PROVE  \E x \in s : g[s] = RemoveConnection(g[s \ {x}], peers[x].addr).state
  <2>3. \E x \in s : g[s] = FoldStep("stop", peers, x, g[s \ {x}])
    <3> HIDE DEF S
    <3> QED BY <1>2, <1>5, FoldGoesOn
  <2>4. \A x, done : FoldStep("stop", peers, x, done) = RemoveConnection(done, peers[x].addr).state
    BY DEF FoldStep
  <2> QED BY <2>3, <2>4
<1>6. \A p \in S : peers[p].addr \in Hosts
  BY <1>1 DEF DirectoryTypes, IsPeer
<1>7. ASSUME NEW s \in SUBSET S, NEW a
      PROVE  IsFiniteSet(At(s, a)) /\ Cardinality(At(s, a)) \in Nat
  BY <1>1, FS_Subset, FS_CardinalityType
<1>8. \A a \in Hosts : NumberOf(access, a) \in Nat
  BY <1>1 DEF NumberOf, IsAccess
<1>9. \A a \in Hosts : NumberOf(access, a) = Cardinality(At(S, a)) + leaked[a] /\ leaked[a] \in Nat
  <2>1. \A a : At(S, a) = CountedAt(a)
    BY <1>1 DEF CountedAt
  <2> QED BY <2>1 DEF ConnectionsAreKept, DirectoryTypes
<1> DEFINE Good == {s \in SUBSET S : IsGood(s, g[s])}
<1>10. {} \in Good
  <2>1. \A a : At({}, a) = {}
    OBVIOUS
  <2>2. \A a : Cardinality(At({}, a)) = 0
    BY <2>1, FS_EmptySet
  <2>3. Apart(Hosts, Limits) => CountsAreExact(access, Hosts)
    BY HostsAreFinite
  <2>4. IsGood({}, access)
    <3> HIDE DEF At
    <3> QED BY <1>1, <1>8, <2>2, <2>3
  <2> QED BY <1>4, <2>4
<1>11. ASSUME NEW s \in SUBSET S, s # {}
       PROVE  \E x \in s : s \ {x} \in Good => s \in Good
  <2>1. PICK x \in s : g[s] = RemoveConnection(g[s \ {x}], peers[x].addr).state
    BY <1>5, <1>11
  <2>2. PICK done : done = g[s \ {x}]
    OBVIOUS
  <2>3. PICK h : h = peers[x].addr
    OBVIOUS
  <2>4. PICK next : next = RemoveConnection(done, h).state
    OBVIOUS
  <2>5. g[s] = next
    BY <2>1, <2>2, <2>3, <2>4
  <2> SUFFICES ASSUME IsGood(s \ {x}, done) PROVE IsGood(s, next)
    BY <2>1, <2>2, <2>5
  <2>6. h \in Hosts
    BY <1>6, <2>1, <2>3
  <2>7. /\ IsAccess(next, Hosts, Limits)
        /\ NumberOf(done, h) # 0 =>
              \A a : NumberOf(done, a) = NumberOf(next, a) + (IF a = h THEN 1 ELSE 0)
        /\ Apart(Hosts, Limits) /\ CountsAreExact(done, Hosts) => CountsAreExact(next, Hosts)
    <3>1. IsAccess(done, Hosts, Limits)
      OBVIOUS
    <3> HIDE DEF IsGood
    <3> QED BY <1>1, <2>4, <2>6, <3>1, ConnectionRemoved
  <2>8. \A a : At(s, a) = IF a = h THEN At(s \ {x}, a) \cup {x} ELSE At(s \ {x}, a)
    BY <2>1, <2>3
  <2>9. s \ {x} \in SUBSET S /\ x \notin At(s \ {x}, h)
    OBVIOUS
  <2>10. \A a : Cardinality(At(s, a)) = Cardinality(At(s \ {x}, a)) + (IF a = h THEN 1 ELSE 0)
    <3>1. IsFiniteSet(At(s \ {x}, h))
      BY <1>7, <2>9
    <3>2. Cardinality(At(s \ {x}, h) \cup {x}) = Cardinality(At(s \ {x}, h)) + 1
      <4> HIDE DEF At
      <4> QED BY <2>9, <3>1, FS_AddElement
    <3>3. \A a : Cardinality(At(s \ {x}, a)) \in Nat
      BY <1>7, <2>9
    <3> HIDE DEF At
    <3> SUFFICES ASSUME NEW a
                 PROVE  Cardinality(At(s, a)) = Cardinality(At(s \ {x}, a)) + (IF a = h THEN 1 ELSE 0)
      OBVIOUS
    <3>4. CASE a = h
      BY <2>8, <3>2, <3>4
    <3>5. CASE a # h
      <4>1. PICK n : n = Cardinality(At(s \ {x}, a))
        OBVIOUS
      <4>2. At(s, a) = At(s \ {x}, a)
        BY <2>8, <3>5
      <4>3. n \in Nat /\ Cardinality(At(s, a)) = n
        BY <3>3, <4>1, <4>2
      <4>4. n = n + (IF a = h THEN 1 ELSE 0)
        BY <3>5, <4>3
      <4> QED BY <4>1, <4>3, <4>4
    <3> QED BY <3>4, <3>5
  <2>11. At(s, h) \subseteq At(S, h)
    OBVIOUS
  <2>12. Cardinality(At(s, h)) <= Cardinality(At(S, h))
    <3>1. IsFiniteSet(At(S, h))
      <4>1. S \in SUBSET S
        OBVIOUS
      <4> HIDE DEF At, S
      <4> QED BY <1>7, <4>1
    <3> HIDE DEF At
    <3> QED BY <2>11, <3>1, FS_Subset
  <2>13. \A a \in Hosts : /\ Cardinality(At(s \ {x}, a)) \in Nat /\ Cardinality(At(s, a)) \in Nat
                          /\ Cardinality(At(S, a)) \in Nat
    <3>1. S \in SUBSET S
      OBVIOUS
    <3> HIDE DEF At, S
    <3> QED BY <1>7, <2>9, <3>1
  <2>14. \A a \in Hosts : NumberOf(access, a) = NumberOf(done, a) + Cardinality(At(s \ {x}, a))
    OBVIOUS
  <2>15. \A a : NumberOf(done, a) \in Nat /\ NumberOf(next, a) \in Nat
    <3>1. IsAccess(done, Hosts, Limits)
      OBVIOUS
    <3> QED BY <2>7, <3>1 DEF NumberOf, IsAccess
  <2>16. NumberOf(done, h) # 0
    <3> HIDE DEF At, IsGood
    <3>1. NumberOf(access, h) = NumberOf(done, h) + Cardinality(At(s \ {x}, h))
      BY <2>6, <2>14
    <3>2. NumberOf(access, h) = Cardinality(At(S, h)) + leaked[h] /\ leaked[h] \in Nat
      BY <1>9, <2>6
    <3>3. Cardinality(At(s, h)) = Cardinality(At(s \ {x}, h)) + 1
      BY <2>10
    <3>4. PICK old, new, all, part, rest, more :
             /\ old = NumberOf(access, h) /\ new = NumberOf(done, h)
             /\ all = Cardinality(At(S, h)) /\ part = Cardinality(At(s, h))
             /\ rest = Cardinality(At(s \ {x}, h)) /\ more = leaked[h]
      OBVIOUS
    <3>5. old = new + rest /\ old = all + more /\ part = rest + 1 /\ part <= all
      BY <2>12, <3>1, <3>2, <3>3, <3>4
    <3>6. new \in Nat /\ rest \in Nat /\ all \in Nat /\ part \in Nat /\ more \in Nat
      BY <2>6, <2>13, <2>15, <3>2, <3>4
    <3>7. new # 0
      BY <3>5, <3>6
    <3> QED BY <3>4, <3>7
  <2>17. \A a \in Hosts : NumberOf(access, a) = NumberOf(next, a) + Cardinality(At(s, a))
    <3> HIDE DEF At, IsGood
    <3> SUFFICES ASSUME NEW a \in Hosts
                 PROVE  NumberOf(access, a) = NumberOf(next, a) + Cardinality(At(s, a))
      OBVIOUS
    <3>1. NumberOf(done, a) = NumberOf(next, a) + (IF a = h THEN 1 ELSE 0)
      BY <2>7, <2>16
    <3>2. PICK one, d, n, new, rest, old :
             /\ one = (IF a = h THEN 1 ELSE 0) /\ d = NumberOf(done, a)
             /\ n = NumberOf(next, a) /\ new = Cardinality(At(s, a))
             /\ rest = Cardinality(At(s \ {x}, a)) /\ old = NumberOf(access, a)
      OBVIOUS
    <3>3. d = n + one /\ new = rest + one /\ old = d + rest
      BY <2>10, <2>14, <3>1, <3>2
    <3>4. one \in Nat /\ n \in Nat /\ rest \in Nat
      BY <2>13, <2>15, <3>2
    <3>5. old = n + new
      BY <3>3, <3>4
    <3> QED BY <3>2, <3>5
  <2>18. Apart(Hosts, Limits) => CountsAreExact(next, Hosts)
    BY <2>7
  <2> HIDE DEF At
  <2> QED BY <2>7, <2>17, <2>18
<1>12. S \in Good
  <2> HIDE DEF Good, S
  <2>1. \A s \in SUBSET S : s \in Good
    BY <1>1, <1>10, <1>11, SubsetInduction
  <2> QED BY <2>1
<1>13. IsGood(S, after)
  BY <1>3, <1>12
<1>14. \A a \in Hosts : NumberOf(after, a) = leaked[a]
  <2>1. \A a \in Hosts : Cardinality(At(S, a)) \in Nat
    <3>1. S \in SUBSET S
      OBVIOUS
    <3> HIDE DEF At, S
    <3> QED BY <1>7, <3>1
  <2>2. \A a \in Hosts : NumberOf(after, a) \in Nat
    BY <1>13 DEF NumberOf, IsAccess
  <2>3. \A a \in Hosts : NumberOf(access, a) = NumberOf(after, a) + Cardinality(At(S, a))
    BY <1>13
  <2> HIDE DEF At, S
  <2> QED BY <1>9, <2>1, <2>2, <2>3
<1> QED BY <1>13, <1>14

\* A pool stops: the last one to do so leaves nothing.
LEMMA StopKeeps ==
    ASSUME DirectoryInvariant, NEW k \in Pools, StopPool(k)
    PROVE  DirectoryInvariant'
<1> USE DEF DirectoryInvariant
<1>1. /\ k \notin stopped /\ leaving[k] = {} /\ NobodyAdds /\ stopped' = stopped \cup {k}
      /\ UNCHANGED <<leaving, adding, leaked, scenario>>
  BY DEF StopPool
<1>2. /\ \A t \in scenario.threads : adding[t].at = "idle"
      /\ \A j \in stopped' : leaving[j] = {}
      /\ stopped' \subseteq Pools /\ stopped \subseteq stopped'
  BY <1>1 DEF NobodyAdds, DirectoryTypes, StopIsClean
<1>3. CASE stopped' # Pools
  <2>1. UNCHANGED <<access, peers, lookup, allPeers, members>>
    BY <1>1, <1>3 DEF StopPool
  <2>2. /\ peers' = [q \in PeerIds |-> peers'[q]]
        /\ \A q \in PeerIds : /\ IsPeer(peers'[q]) /\ peers'[q].addr = peers[q].addr
                              /\ peers'[q].status = peers[q].status
        /\ \A q : q \in lookup' <=> q \in lookup \/ (q \in PeerIds /\ peers'[q].status = "ready")
        /\ access'.connections = access.connections /\ IsAccess(access', Hosts, Limits)
        /\ CountsAreExact(access, Hosts) => CountsAreExact(access', Hosts)
    BY <2>1 DEF DirectoryTypes, MapsAgree
  <2> HIDE DEF DirectoryInvariant
  <2> QED BY <1>1, <1>2, <1>3, <2>1, <2>2, NothingMoves
<1>4. CASE stopped' = Pools
  <2>1. /\ access' = FoldSet(LAMBDA p, state : RemoveConnection(state, peers[p].addr).state,
                             access, allPeers)
        /\ peers' = [p \in PeerIds |-> IF p \in allPeers THEN Shut(peers[p]) ELSE peers[p]]
        /\ lookup' = lookup \ allPeers /\ allPeers' = {}
        /\ members' = [j \in Pools |-> {}]
    BY <1>1, <1>4 DEF StopPool
  <2>2. IsFiniteSet(allPeers)
    BY HostsAreFinite, FS_Subset DEF DirectoryTypes
  <2>3. PICK g : IsFold(g, "stop", peers, access, allPeers) /\ access' = g[allPeers]
    <3>1. \E g : /\ IsFold(g, "stop", peers, access, allPeers)
                 /\ FoldSet(LAMBDA p, state : RemoveConnection(state, peers[p].addr).state,
                            access, allPeers) = g[allPeers]
      BY <2>2, DisconnectAll, Zenon
    <3> QED BY <2>1, <3>1, Zenon
  <2>4. /\ peers' = [p \in PeerIds |-> IF p \in allPeers THEN Shut(peers[p]) ELSE peers[p]]
        /\ lookup' = lookup \ allPeers /\ allPeers' = {}
        /\ members' = [j \in Pools |-> {}]
    BY <2>1, Zenon
  <2> HIDE <2>1
  <2>5. \A p \in PeerIds : p \in allPeers <=> IsMember(p)
    BY <1>2 DEF MapsAgree, IsJoining
  <2>6. \A j \in Pools : leaving[j] = {}
    BY <1>2, <1>4
  <2>7. \A p \in PeerIds : Counted(p) <=> p \in allPeers
    <3>1. \A p \in PeerIds : Counted(p) <=> \E j \in Pools : p \in members[j] \ leaving[j]
      BY <1>2 DEF Counted, DirectoryTypes
    <3> QED BY <2>5, <2>6, <3>1 DEF IsMember
  <2>8. \A p \in allPeers : p \in PeerIds /\ peers[p].status # "unused" /\ IsPeer(peers[p])
    BY DEF MapsAgree, DirectoryTypes
  <2>9. /\ IsAccess(access', Hosts, Limits)
        /\ Apart(Hosts, Limits) => CountsAreExact(access', Hosts)
        /\ \A a \in Hosts : NumberOf(access', a) = leaked[a]
    <3>1. DirectoryTypes /\ ConnectionsAreKept /\ LimitsAreExact
      OBVIOUS
    <3>2. PICK after : after = access'
      OBVIOUS
    <3> HIDE DEF DirectoryInvariant
    <3>3. /\ IsAccess(after, Hosts, Limits)
          /\ Apart(Hosts, Limits) => CountsAreExact(after, Hosts)
          /\ \A a \in Hosts : NumberOf(after, a) = leaked[a]
      BY <2>3, <2>7, <2>8, <3>1, <3>2, AllAreDisconnected
    <3> QED BY <3>2, <3>3
  <2>10. /\ peers' = [q \in PeerIds |-> peers'[q]]
         /\ \A q \in PeerIds : IsPeer(peers'[q])
         /\ \A q \in PeerIds : q \notin allPeers => peers'[q] = peers[q]
         /\ \A q \in PeerIds : q \in allPeers => peers'[q].status = "closed"
    <3>1. \A q \in PeerIds : q \in allPeers => peers'[q] = Shut(peers[q])
      BY <2>4
    <3>2. \A q \in PeerIds : q \in allPeers => IsPeer(peers'[q]) /\ peers'[q].status = "closed"
      BY <2>8, <3>1, ShutPeer
    <3>3. \A q \in PeerIds : q \notin allPeers => peers'[q] = peers[q]
      BY <2>4
    <3>4. \A q \in PeerIds : IsPeer(peers[q])
      BY DEF DirectoryTypes
    <3>5. peers' = [q \in PeerIds |-> peers'[q]]
      BY <2>4
    <3> QED BY <3>2, <3>3, <3>4, <3>5
  <2>11. lookup' = {} /\ \A q \in PeerIds : peers[q].status = "ready" => q \in allPeers
    <3>1. \A q \in lookup : q \in PeerIds /\ q \in allPeers
      BY <2>5 DEF MapsAgree, DirectoryTypes
    <3> QED BY <2>4, <3>1 DEF MapsAgree
  <2>12. /\ members' \in [Pools -> SUBSET PeerIds] /\ \A j \in Pools : members'[j] = {}
         /\ leaving' \in [Pools -> SUBSET PeerIds] /\ \A j \in Pools : leaving'[j] = {}
         /\ leaked' \in [Hosts -> Nat]
         /\ adding' = [u \in scenario.threads |-> adding'[u]]
         /\ \A u \in scenario.threads : IsAdding(adding'[u])
    BY <1>1, <2>4, <2>6 DEF DirectoryTypes
  <2>13. DirectoryTypes'
    BY <1>1, <1>2, <2>4, <2>9, <2>10, <2>11, <2>12, TypesKept
  <2>14. AddersAlone'
    BY <1>1, <1>2 DEF AddersAlone
  <2>15. \A p \in PeerIds : ~IsMember(p)' /\ ~IsJoining(p)' /\ ~Counted(p)'
    <3>1. DOMAIN adding' = scenario.threads
      BY <2>12
    <3>2. \A t \in scenario.threads : adding'[t].at = "idle"
      BY <1>1, <1>2
    <3> QED BY <1>1, <2>12, <3>1, <3>2 DEF IsMember, IsJoining, Counted
  <2>16. MapsAgree'
    <3>1. \A q \in PeerIds : peers'[q].status # "ready"
      BY <2>10, <2>11
    <3> QED BY <2>4, <2>11, <2>12, <2>15, <3>1 DEF MapsAgree
  <2>17. StopIsClean'
    BY <1>1, <1>2, <2>4, <2>11 DEF StopIsClean
  <2>18. ConnectionsAreKept'
    <3>1. \A a : CountedAt(a)' = {}
      BY <2>15 DEF CountedAt
    <3>2. \A a : Cardinality(CountedAt(a)') = 0
      BY <3>1, FS_EmptySet
    <3>3. \A a \in Hosts : leaked[a] \in Nat
      BY DEF DirectoryTypes
    <3>4. \A a \in Hosts : Cardinality(CountedAt(a)') + leaked'[a] = NumberOf(access', a)
      BY <1>1, <2>9, <3>2, <3>3
    <3>5. Hosts' = Hosts
      BY <1>1 DEF Hosts
    <3> QED BY <3>4, <3>5 DEF ConnectionsAreKept
  <2>19. LimitsAreExact'
    BY <1>1, <2>9, <2>13, LimitsKept
  <2> QED BY <2>13, <2>14, <2>16, <2>17, <2>18, <2>19
<1> QED BY <1>3, <1>4

\* Nobody is there at first, and nothing is counted.
LEMMA NobodyAtFirst == ASSUME DirectoryInit PROVE DirectoryInvariant
<1>1. /\ scenario \in Scenarios
      /\ access = [NoLimits EXCEPT !.limits = scenario.initial]
      /\ peers = [p \in PeerIds |-> Unused] /\ allPeers = {} /\ lookup = {}
      /\ members = [k \in Pools |-> {}] /\ leaving = [k \in Pools |-> {}]
      /\ adding = [t \in scenario.threads |-> Nothing]
      /\ stopped = {} /\ leaked = [a \in scenario.addresses |-> 0]
  BY DEF DirectoryInit
<1>2. DOMAIN NoFunction = {}
  BY DEF NoFunction
<1>3. /\ access.limits = scenario.initial
      /\ access.connections = NoFunction /\ access.details = NoFunction
      /\ access = [limits |-> access.limits, connections |-> access.connections,
                   details |-> access.details, dangling |-> access.dangling]
  BY <1>1 DEF NoLimits
<1>4. \A b \in DOMAIN scenario.initial : scenario.initial[b] \in Nat
  BY <1>1, DirectoryAssumption
<1>5. IsAccess(access, Hosts, Limits)
  BY <1>2, <1>3, <1>4 DEF IsAccess, Limits
<1>6. \A t \in scenario.threads : IsAdding(adding[t]) /\ adding[t].at = "idle"
  BY <1>1 DEF IsAdding, Nothing
<1>7. \A p \in PeerIds : IsPeer(peers[p]) /\ peers[p].status = "unused"
  BY <1>1 DEF IsPeer, Unused
<1>8. DirectoryTypes
  BY <1>1, <1>5, <1>6, <1>7 DEF DirectoryTypes, Hosts
<1>9. \A p \in PeerIds : ~IsMember(p) /\ ~IsJoining(p) /\ ~Counted(p)
  BY <1>1, <1>6 DEF IsMember, IsJoining, Counted
<1>10. AddersAlone
  BY <1>6 DEF AddersAlone
<1>11. MapsAgree
  BY <1>1, <1>7, <1>9 DEF MapsAgree
<1>12. StopIsClean
  <2>1. Pools # {}
    BY DirectoryAssumption
  <2> QED BY <1>1, <2>1 DEF StopIsClean
<1>13. ConnectionsAreKept
  <2>1. \A a : CountedAt(a) = {}
    BY <1>9 DEF CountedAt
  <2>2. \A a : Cardinality(CountedAt(a)) = 0
    BY <2>1, FS_EmptySet
  <2>3. \A a : NumberOf(access, a) = 0
    BY <1>2, <1>3 DEF NumberOf
  <2> QED BY <1>1, <2>2, <2>3 DEF ConnectionsAreKept, Hosts
<1>14. LimitsAreExact
  <2>1. Connections(access) = {}
    BY <1>2, <1>3 DEF Connections
  <2>2. \A subnet, bits : ConnectionsIn(access, subnet, bits) = 0
    <3>1. \A subnet, bits : {c \in Connections(access) : SubnetOf(c[1], bits) = subnet} = {}
      BY <2>1
    <3> QED BY <3>1, FS_EmptySet DEF ConnectionsIn
  <2>3. \A ip, bits : CountIn(access, ip, bits) = 0
    BY <1>2, <1>3 DEF CountIn
  <2> QED BY <2>2, <2>3 DEF LimitsAreExact, CountsAreExact
<1> QED BY <1>8, <1>10, <1>11, <1>12, <1>13, <1>14 DEF DirectoryInvariant

\* What the invariant says of the books.
LEMMA InvariantIsExact == ASSUME DirectoryInvariant PROVE DirectoryIsExact
<1> USE DEF DirectoryInvariant
<1> DEFINE Joining == {adding[t].peer : t \in {u \in DOMAIN adding : adding[u].at = "pool"}}
<1>1. DOMAIN adding = scenario.threads
  BY DEF DirectoryTypes
<1>2. \A p : p \in Joining <=> IsJoining(p)
  BY <1>1 DEF IsJoining
<1>3. \A p : p \in UNION {members[k] : k \in Pools} <=> IsMember(p)
  BY DEF IsMember
<1>4. \A p : IsJoining(p) => ~IsMember(p)
  BY DEF IsJoining, AddersAlone
<1>5. \A p : IsMember(p) \/ p \in allPeers => p \in PeerIds
  BY DEF IsMember, DirectoryTypes
<1>6. UNION {members[k] : k \in Pools} = allPeers \ Joining
  <2>1. \A p : IsMember(p) <=> p \in allPeers /\ ~IsJoining(p)
    BY <1>4, <1>5 DEF MapsAgree
  <2> HIDE DEF Joining
  <2> QED BY <1>2, <1>3, <2>1
<1>7. lookup = {p \in PeerIds : peers[p].status = "ready"}
  BY DEF MapsAgree, DirectoryTypes
<1>8. \A a \in scenario.addresses :
         Cardinality({p \in PeerIds : Counted(p) /\ peers[p].addr = a}) + leaked[a] =
             IF a \in DOMAIN access.connections THEN access.connections[a] ELSE 0
  BY DEF ConnectionsAreKept, CountedAt, NumberOf, Hosts
<1>9. BooksAgree
  BY <1>6, <1>7, <1>8 DEF BooksAgree, MapsAgree, StopIsClean
<1> QED BY <1>9 DEF DirectoryIsExact

\* The invariant that the peer manager's steps keep: the maps and the books of
\* PeerManager.cpp agree between any two steps of the listeners, the application, the
\* pools' threads and whoever changes the rules, for any peers, pools and limits.
THEOREM DirectoryInvariantHolds == DirectorySpec => []DirectoryInvariant
<1>1. DirectoryInit => DirectoryInvariant
  BY NobodyAtFirst
<1>2. DirectoryInvariant /\ [DirectoryNext]_directoryVars => DirectoryInvariant'
  <2> SUFFICES ASSUME DirectoryInvariant, [DirectoryNext]_directoryVars
               PROVE  DirectoryInvariant'
    OBVIOUS
  <2>1. ASSUME NEW t \in scenario.threads,
               Count(t) \/ Insert(t) \/ Join(t) \/ Watch(t) \/ WatchFails(t) \/ Undo(t)
        PROVE  DirectoryInvariant'
    BY <2>1, CountKeeps, InsertKeeps, JoinKeeps, WatchKeeps, UndoKeeps
  <2>2. ASSUME NEW t \in scenario.threads, NEW a \in scenario.addresses, Begin(t, a)
        PROVE  DirectoryInvariant'
    BY <2>2, BeginKeeps
  <2>3. ASSUME NEW k \in Pools, NEW p \in PeerIds, VisitLeaver(k, p) \/ RemovePeer(k, p)
        PROVE  DirectoryInvariant'
    BY <2>3, LeaverKeeps, RemoveKeeps
  <2>4. ASSUME NEW k \in Pools, StopPool(k)
        PROVE  DirectoryInvariant'
    BY <2>4, StopKeeps
  <2>5. CASE \/ UNCHANGED directoryVars
             \/ \E a \in scenario.addresses : Reuse(a)
             \/ \E k \in Pools, p \in PeerIds : VisitReady(k, p) \/ VisitChecked(k, p)
             \/ \E k \in Pools, p \in PeerIds, thread \in {"primary", "worker"} :
                  WaitForPeer(k, thread, p)
             \/ \E k \in Pools : RunTask(k)
             \/ \E p \in PeerIds : DisconnectFrom(p)
             \/ ChangeRules \/ Recover
    BY <2>5, QuietSteps
  <2> QED BY <2>1, <2>2, <2>3, <2>4, <2>5 DEF DirectoryNext
<1> QED BY <1>1, <1>2, PTL DEF DirectorySpec

\* A peer's record, the maps, the threads that add peers and the access manager's
\* counts keep their form in every state of the peer manager (PeerManager.h).
THEOREM DirectoryTypeCorrect == DirectorySpec => []DirectoryTypes
<1>1. DirectoryInvariant => DirectoryTypes
  BY DEF DirectoryInvariant
<1> QED BY <1>1, DirectoryInvariantHolds, PTL

\* The books of the peer manager are exact: the pools' maps, the lookup maps and all
\* peers agree, the access manager counts as many connections from an address as there
\* are peers there (and connections leaked), a limit counts as many as its subnets have
\* unless limits share a count, and a shutdown leaves nothing (PeerManager.cpp,
\* IPSubnetLimits.cpp).
THEOREM DirectoryExact == DirectorySpec => []DirectoryIsExact
<1> QED BY InvariantIsExact, DirectoryInvariantHolds, PTL
=============================================================================
