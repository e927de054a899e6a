---------------------------- MODULE MCSupervisor ----------------------------
(***************************************************************************)
(* Instances of Supervisor for TLC: two models, or three of the same size  *)
(* and a larger one, that do not all fit the budget; one evictable and one *)
(* pinned policy.                                                          *)
(***************************************************************************)
EXTENDS Supervisor, TLC

CONSTANTS a, b, d, e, c1, c2, pin, lru1

MCPair == {a, b}
MCPairSizes == (a :> 1) @@ (b :> 2)
MCPairExact == [m \in MCPair |-> {MCPairSizes[m]}]
MCPairEstimates == [m \in MCPair |-> MCPairSizes[m] .. (MCPairSizes[m] + 1)]

\* Requests for the small models ask for twice what they take.
MCFour == {a, b, d, e}
MCFourSizes == (a :> 1) @@ (b :> 1) @@ (d :> 1) @@ (e :> 3)
MCFourEstimates == [m \in MCFour |-> IF m = e THEN {3} ELSE {2}]
\* The small models are alike: exchanging them changes nothing.
MCSymmetry == Permutations({a, b, d})

MCOneCaller == {c1}
MCTwoCallers == {c1, c2}
=============================================================================
