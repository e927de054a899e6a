---------------------------- MODULE MCBudgetLedger ----------------------------
(* A tenant with two scopes; two zones fall in different periods at times.  *)
EXTENDS BudgetLedger, TLC

CONSTANTS s1, s2, utc, bangkok

MCOffset == (utc :> 0) @@ (bangkok :> 1)
MCSymmetry == Permutations(Ids) \cup Permutations(Scopes)
=============================================================================
