-------------------------- MODULE MCDispatchRuntime --------------------------
(***************************************************************************)
(* Small instances of DispatchRuntime for TLC: two alerts, delivered alone *)
(* or together, in the order dispatch_events_for_tick selects them (by id).*)
(***************************************************************************)
EXTENDS DispatchRuntime, TLC

CONSTANTS a1, a2

TwoAlertBatches == {<<a1>>, <<a2>>, <<a1, a2>>}

DispatcherSymmetry == Permutations(Dispatchers)
==============================================================================
