-------------------------- MODULE MCExplanationTasks --------------------------
(***************************************************************************)
(* Small instances of ExplanationTasks.                                    *)
(***************************************************************************)
EXTENDS ExplanationTasks, TLC

CONSTANTS w1, w2

WorkerSymmetry == Permutations(Workers)

OneKey == [t \in Tasks |-> 1]
TwoKeys == [t \in Tasks |-> IF t = 2 THEN 2 ELSE 1]
==============================================================================
