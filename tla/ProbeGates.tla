------------------------------ MODULE ProbeGates ------------------------------
(***************************************************************************)
(* What the gates of the circuit breaker promise.  A gate is closed,       *)
(* cooling, or probing; only one request probes it at a time; it closes    *)
(* again only from probing; and a probe never stays unanswered.  Several   *)
(* gates may move in one step: a request reports to all of its gates.      *)
(***************************************************************************)
CONSTANTS Gates, Requests, Nobody

VARIABLES phase, owner

vars == <<phase, owner>>

Init == /\ phase = [g \in Gates |-> "closed"]
        /\ owner = [g \in Gates |-> Nobody]

Rest(g) == phase'[g] = phase[g] /\ owner'[g] = owner[g]

Trip(g) == /\ phase[g] = "closed" /\ phase'[g] = "cooling"
           /\ owner'[g] = owner[g]

Probe(g) == /\ phase[g] = "cooling" /\ phase'[g] = "probing"
            /\ owner'[g] \in Requests

Recover(g) == /\ phase[g] = "probing" /\ phase'[g] = "closed"
              /\ owner'[g] = Nobody

Relapse(g) == /\ phase[g] = "probing" /\ phase'[g] = "cooling"
              /\ owner'[g] = Nobody

Next == \A g \in Gates :
          Rest(g) \/ Trip(g) \/ Probe(g) \/ Recover(g) \/ Relapse(g)

Safe == Init /\ [][Next]_vars

\* Whoever probes a gate answers for it.
Live == \A g \in Gates : (phase[g] = "probing") ~> (phase[g] # "probing")

Spec == Safe /\ Live
=============================================================================
