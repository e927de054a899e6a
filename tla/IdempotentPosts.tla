---------------------------- MODULE IdempotentPosts ----------------------------
(* What a request id promises: of the POSTs made under one key, no two are *)
(* under way together, and one that may have been executed closes the key   *)
(* for a window.                                                            *)
EXTENDS Integers

CONSTANTS Keys, Requests, Window

VARIABLES
  posting,   \* key -> the requests whose POST under it is under way
  effect,    \* key -> when the last POST that may have been executed ended
  now

vars == <<posting, effect, now>>

Init ==
  /\ posting = [k \in Keys |-> {}]
  /\ effect = [k \in Keys |-> -Window]
  /\ now = 0

Start(k, r) ==
  /\ posting[k] = {}
  /\ now >= effect[k] + Window
  /\ posting' = [posting EXCEPT ![k] = {r}]
  /\ UNCHANGED <<effect, now>>

\* The POST ends; it was executed, or may have been.
Executed(k) ==
  /\ posting[k] # {}
  /\ posting' = [posting EXCEPT ![k] = {}]
  /\ effect' = [effect EXCEPT ![k] = now]
  /\ UNCHANGED now

\* The POST ends without effect: no connection was made, or it was refused.
Refused(k) ==
  /\ posting[k] # {}
  /\ posting' = [posting EXCEPT ![k] = {}]
  /\ UNCHANGED <<effect, now>>

Tick == now' = now + 1 /\ UNCHANGED <<posting, effect>>

Next ==
  \/ Tick
  \/ \E k \in Keys : Executed(k) \/ Refused(k) \/ \E r \in Requests : Start(k, r)

Spec == Init /\ [][Next]_vars
=============================================================================
