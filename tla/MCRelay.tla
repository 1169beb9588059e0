------------------------------ MODULE MCRelay ------------------------------
(* Relay for TLC: a link of three hosts, with the budgets below. *)
EXTENDS Relay

Budget(data, faults, kinds, timeouts) ==
  [data |-> data, faults |-> faults, kinds |-> kinds, timeouts |-> timeouts]

(* Much data, a fault of any kind while some flows, two peers that go or two   *)
(* hosts that shut down, and a fault after which suspended links time out.     *)
MCBudgets == {Budget(3, 0, {}, FALSE), Budget(1, 1, FaultKinds, FALSE),
              Budget(0, 2, {"gone"}, FALSE), Budget(0, 2, {"shutdown"}, FALSE),
              Budget(0, 1, FaultKinds, TRUE)}

(* Data, and a connection that falls silent and comes back. *)
Silences == {Budget(1, 1, {"silence"}, FALSE), Budget(0, 2, {"silence"}, FALSE)}

(* An established link is torn down as a whole, where suspended ones time out *)
(* (Relay).                                                                   *)
LinkIsTornDown == budget.timeouts => EstablishedIsTornDown
=============================================================================
