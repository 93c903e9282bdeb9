------------------------------- MODULE Batches -------------------------------
(***************************************************************************)
(* Batches of rows.  Rows are numbered in the order a query sorts them by, *)
(* so a batch is the set of its rows' numbers.                             *)
(***************************************************************************)
EXTENDS Integers, FiniteSets

\* MUTANT: the LIMIT is forgotten.
OldestAll(S, n) == S

\* The n oldest rows of S: ORDER BY with LIMIT n.
Oldest(S, n) == {t \in S : Cardinality({s \in S : s < t}) < n}

\* The row of S that a loop over S takes first.
First(S) == CHOOSE t \in S : \A s \in S : t <= s

==============================================================================
