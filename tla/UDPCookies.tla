----------------------------- MODULE UDPCookies -----------------------------
(***************************************************************************)
(* The cookies by which a busy UDP listener makes a peer prove that it     *)
(* receives what is sent to its address.  The listener keeps no cookie: it *)
(* keeps two keys, computes a cookie from a key and who asked, and accepts *)
(* one that either key gives.  The keys are only looked after when a       *)
(* cookie is made or verified, however long that takes.                    *)
(*                                                                         *)
(* One peer and connection; a cookie is known by the key it is made with,  *)
(* and a key by when it was created.                                       *)
(***************************************************************************)
EXTENDS Integers

CONSTANTS Interval, \* cookie_expiration_interval, in ticks of the clock
          MaxTime   \* bound: how far the clock runs

ASSUME IntervalAssumption == Interval \in Nat \ {0} /\ MaxTime \in Nat

VARIABLES now,       \* the steady clock
          primary,   \* m_Keys[0]
          secondary, \* m_Keys[1], or None
          cookies,   \* history: the cookies made, and when
          verdict    \* history: the last cookie verified, when, the result

keyVars == <<primary, secondary>>
vars == <<now, keyVars, cookies, verdict>>

None == -1

Half == Interval \div 2

Cookie == [key : Nat, made : Nat]

Verdict == [cookie : Cookie, at : Nat, result : {"accepted", "refused", "failed"}]

-----------------------------------------------------------------------------
\* Mutant: a key that is replaced counts as expired at half of the interval.
RotateKeys_DropsOld ==
    /\ primary' = now
    /\ secondary' = IF now - primary > Half THEN None ELSE primary

\* Mutant: a key that has expired becomes the secondary key all the same.
RotateKeys_KeepsOld ==
    /\ primary' = now
    /\ secondary' = primary

\* A new primary key; the old one becomes the secondary key, if it has not
\* expired.
RotateKeys ==
    /\ primary' = now
    /\ secondary' = IF now - primary > Interval THEN None ELSE primary

\* The primary key is replaced when half of the interval is over.  Expiry of
\* the secondary key is looked at only then.
CheckKeyExpiration ==
    IF now - primary > Half THEN RotateKeys ELSE UNCHANGED keyVars

\* There is no random number for a new key.
RotationFails == now - primary > Half /\ UNCHANGED keyVars

Tick ==
    /\ now < MaxTime
    /\ now' = now + 1
    /\ UNCHANGED <<keyVars, cookies, verdict>>

GetCookie ==
    /\ CheckKeyExpiration
    /\ cookies' = cookies \cup {[key |-> primary', made |-> now]}
    /\ UNCHANGED <<now, verdict>>

VerifyCookie(cookie) ==
    /\ CheckKeyExpiration
    /\ verdict' = [cookie |-> cookie, at |-> now,
                   result |-> IF cookie.key \in {primary', secondary'}
                              THEN "accepted" ELSE "refused"]
    /\ UNCHANGED <<now, cookies>>

\* Without a random number no cookie is made, and none is accepted.
VerifyCookieFails(cookie) ==
    /\ RotationFails
    /\ verdict' = [cookie |-> cookie, at |-> now, result |-> "failed"]
    /\ UNCHANGED <<now, cookies>>

Init ==
    /\ now = 0
    /\ primary = 0
    /\ secondary = None
    /\ cookies = {}
    /\ verdict = [cookie |-> [key |-> 0, made |-> 0], at |-> 0,
                  result |-> "failed"]

Next ==
    \/ Tick
    \/ GetCookie
    \/ \E cookie \in cookies : VerifyCookie(cookie) \/ VerifyCookieFails(cookie)

Spec == Init /\ [][Next]_vars

-----------------------------------------------------------------------------
(* Properties.                                                             *)

TypeOK ==
    /\ now \in Nat
    /\ primary \in Nat
    /\ secondary \in Nat \cup {None}
    /\ cookies \subseteq Cookie
    /\ verdict \in Verdict

\* A peer that answers within half of the interval is let in, whatever other
\* peers make the listener do with its keys in between.
TimelyCookieIsAccepted ==
    verdict.result # "failed" /\ verdict.at - verdict.cookie.made <= Half
        => verdict.result = "accepted"

\* No cookie is accepted after one and a half interval.
OldCookieIsRefused ==
    verdict.result = "accepted"
        => verdict.at - verdict.cookie.made <= Interval + Half
=============================================================================
