------------------------------- MODULE MCBreaker -------------------------------
(* A provider behind two origins, with a local execution path.             *)
EXTENDS Breaker, TLC

CONSTANTS p, c1, c2

MCThreshold == [g \in Gates |-> 2]
MCRecovery == [g \in Gates |-> 2]
MCDelays == {1, 3}
Sent(gates) == [external |-> FALSE, gates |-> gates]
Ran(gates) == [external |-> TRUE, gates |-> gates]
MCRoutes == {Sent({p, c1}), Sent({p, c2}), Ran({p})}
=============================================================================
