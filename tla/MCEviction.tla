----------------------------- MODULE MCEviction -----------------------------
(* All snapshots of three models over five kinds of entry. *)
EXTENDS EvictionLoop

Kind(state, pinned, inflight) ==
  {[mem |-> m, state |-> state, pinned |-> pinned, inflight |-> inflight, seq |-> s] :
     m \in 0 .. 2, s \in 0 .. 1}

MCEntries == Kind("Ready", FALSE, 0) \cup Kind("Error", FALSE, 0)
             \cup Kind("Ready", TRUE, 0) \cup Kind("Ready", FALSE, 1)
             \cup Kind("Stopped", FALSE, 0)
MCBudgets == {0, 3}
=============================================================================
