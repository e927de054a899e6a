-------------------------- MODULE MCGlobalCapacity --------------------------
(***************************************************************************)
(* One runtime with two models and one with one of them.  On three of the  *)
(* budgets the first runtime holds one of its models at a time, so it      *)
(* evicts, and the small model fits twice; the wide one holds all but one. *)
(* Every request names the same memory for a model, more than it takes for *)
(* the large one.  Sizes and some budgets are no whole number of units.    *)
(***************************************************************************)
EXTENDS GlobalCapacity, TLC

MCSize == [m \in Models |-> IF m = "small" THEN 3 ELSE 4]

CONSTANTS r1, r2

MCServes == r1 :> {"small", "large"} @@ r2 :> {"small"}

MCEstimates == [m \in Models |-> IF m = "small" THEN {3} ELSE {5}]

MCOutside == r1 :> 4 @@ r2 :> 0

MCSetups ==
  {[exact |-> TRUE, killed |-> FALSE, budget |-> 8, headroom |-> 1],
   [exact |-> TRUE, killed |-> FALSE, budget |-> 10, headroom |-> 2],
   [exact |-> TRUE, killed |-> TRUE, budget |-> 6, headroom |-> 1],
   [exact |-> FALSE, killed |-> FALSE, budget |-> 7, headroom |-> 0]}
=============================================================================
