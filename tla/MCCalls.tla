------------------------------- MODULE MCCalls -------------------------------
(* Two calls that may share a key.                                         *)
EXTENDS Calls, TLC
MCSymmetry == Permutations(Requests)
====
