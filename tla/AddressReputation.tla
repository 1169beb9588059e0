------------------------- MODULE AddressReputation -------------------------
(***************************************************************************)
(* The reputation of one address: Core/Access/AddressAccessControl.cpp.    *)
(* It deteriorates with what its peers do and with connection attempts     *)
(* beyond a maximum per interval, and improves with time, when it is asked *)
(* for.  The access manager holds its lock for each call.                  *)
(*                                                                         *)
(* Time passes in steps; what is kept of it is how long ago each time      *)
(* stamp was.  low, quiet, banked and admitted are history variables.      *)
(***************************************************************************)
EXTENDS Integers, FiniteSets

CONSTANTS
    ImproveInterval,    \* AddressReputationImprovementInterval
    AttemptInterval,    \* ConnectionAttempts.Interval
    MaxAttempts,        \* ConnectionAttempts.MaxPerInterval
    MaxPasses, MaxUpdates, MaxAmount  \* bounds of this model

ASSUME ReputationAssumption ==
    /\ ImproveInterval \in Nat \ {0}
    /\ AttemptInterval \in 1 .. ImproveInterval
    /\ MaxAttempts \in Nat

VARIABLES
    score, since,       \* Reputation: Score, and the age of LastImproveSteadyTime
    amount, window,     \* ConnectionAttempts: Amount, and the age of LastResetSteadyTime
    low, quiet, banked, \* score and since when the score was last lowered or set, and
                        \* the time since then
    admitted,           \* attempts that were let in, in this interval; -1 if the user
                        \* has set the score meanwhile
    time, updates

repVars == <<score, since>>
attemptVars == <<amount, window>>
reputationVars == <<score, since, amount, window, low, quiet, banked, admitted, time, updates>>

Minimum == -3000
Base == 0
Maximum == 100
ImproveMinimal == 20
DeteriorateModerate == -50
Deteriorations == {-20, DeteriorateModerate, -200}

Acceptable(s) == s > Base

\* The value of an Int16.
Wrap16(n) == ((n + 32768) % 65536) - 32768

ReputationInit ==
    /\ score = Maximum /\ since = 0
    /\ amount = 0 /\ window = 0
    /\ low = Maximum /\ quiet = 0 /\ banked = 0
    /\ admitted = 0
    /\ time = 0 /\ updates = 0

Pass ==
    /\ time < MaxPasses
    /\ time' = time + 1
    /\ since' = since + 1 /\ window' = window + 1 /\ quiet' = quiet + 1
    /\ UNCHANGED <<score, amount, low, banked, admitted, updates>>

-----------------------------------------------------------------------------
(* AddressAccessDetails.                                                   *)

Clamp(n) == IF n > Maximum THEN Maximum ELSE IF n < Minimum THEN Minimum ELSE n

\* ImproveReputation computes in 64 bits; what is left of an interval is lost.
Improved(s, age) == IF s + ImproveMinimal * (age \div ImproveInterval) > Maximum THEN Maximum
                    ELSE s + ImproveMinimal * (age \div ImproveInterval)
LastImprove(age) == IF age >= ImproveInterval THEN 0 ELSE age

\* UpdateReputation adds in 16 bits and then clamps.
Updated(s, by) == Clamp(Wrap16(s + by))

Lowered == low' = score' /\ quiet' = 0 /\ banked' = since'
KeepHistory == UNCHANGED <<low, quiet, banked>>

-----------------------------------------------------------------------------
(* AddressAccessControl.                                                   *)

\* HasAcceptableReputation: an update by nothing.
Ask ==
    /\ score' = Updated(Improved(score, since), 0)
    /\ since' = LastImprove(since)
    /\ UNCHANGED <<attemptVars, admitted, time, updates>> /\ KeepHistory

UpdateReputation ==
    /\ updates < MaxUpdates /\ updates' = updates + 1
    /\ \E by \in Deteriorations : score' = Updated(Improved(score, since), by)
    /\ since' = LastImprove(since)
    /\ Lowered
    /\ UNCHANGED <<attemptVars, admitted, time>>

\* SetReputation, with the time of the last update, and ResetReputation.
SetReputation ==
    /\ updates < MaxUpdates /\ updates' = updates + 1
    /\ score' \in {Minimum, Base, Maximum}
    /\ since' \in {0, 2 * ImproveInterval}
    /\ admitted' = -1
    /\ Lowered
    /\ UNCHANGED <<attemptVars, time>>

Fresh == window >= AttemptInterval

\* Mutant: attempts do not count as long as the reputation is acceptable.
AmountForgiven == IF Fresh \/ Acceptable(score) THEN 1 ELSE amount + 1

Amount == IF Fresh THEN 1 ELSE amount + 1

\* AddConnectionAttempt, which does not improve the reputation first, ...
AfterAttempt == IF Amount > MaxAttempts THEN Updated(score, DeteriorateModerate) ELSE score
AttemptSucceeds == Amount <= MaxAttempts \/ Acceptable(AfterAttempt)

\* ... and, if it succeeds, the question whether the connection is allowed
\* (CanAcceptConnection), by which the reputation improves.
Attempt ==
    /\ Amount <= MaxAmount /\ amount' = Amount
    /\ window' = IF Fresh THEN 0 ELSE window
    /\ score' = IF AttemptSucceeds THEN Updated(Improved(AfterAttempt, since), 0) ELSE AfterAttempt
    /\ since' = IF AttemptSucceeds THEN LastImprove(since) ELSE since
    /\ IF Amount > MaxAttempts THEN low' = AfterAttempt /\ quiet' = 0 /\ banked' = since
       ELSE KeepHistory
    /\ LET so_far == IF Fresh THEN 0 ELSE admitted
       IN admitted' = IF AttemptSucceeds /\ Acceptable(score') /\ so_far # -1 THEN so_far + 1
                      ELSE so_far
    /\ UNCHANGED <<time, updates>>

ReputationNext == Pass \/ Ask \/ UpdateReputation \/ SetReputation \/ Attempt

ReputationSpec == ReputationInit /\ [][ReputationNext]_reputationVars

-----------------------------------------------------------------------------
(* Properties.                                                             *)

ReputationTypeOK ==
    /\ score \in Int /\ since \in Nat /\ amount \in Nat /\ window \in Nat
    /\ low \in Int /\ quiet \in Nat /\ banked \in Nat
    /\ admitted \in {-1} \cup Nat
    /\ time \in Nat /\ updates \in Nat

\* The score stays between its limits, although 16 bits are added to before the
\* limits are looked at.
ScoreIsBounded == score \in Minimum .. Maximum

\* What the address would be given if it was asked for now.
Potential == Improved(score, since)
AtMost(n) == IF n > Maximum THEN Maximum ELSE n

\* An address that is left alone recovers at least half as fast as the interval
\* says, however often it is asked for (each time, what is left of an interval is
\* lost), and never faster than the time it has had.
RecoversInTime ==
    /\ Potential >= AtMost(low + ImproveMinimal * (quiet \div (2 * ImproveInterval)))
    /\ Potential <= AtMost(low + ImproveMinimal * ((quiet + banked) \div ImproveInterval))

\* "it will get blocked eventually" (AddressAccessControl.cpp:127): in one interval,
\* at most two attempts beyond the maximum are let in, although the time before
\* them may improve the reputation they have just spoilt.
FloodIsRefused == admitted <= MaxAttempts + 2

ReputationIsFair == ScoreIsBounded /\ RecoversInTime /\ FloodIsRefused
=============================================================================
