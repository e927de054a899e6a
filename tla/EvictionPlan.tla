---------------------------- MODULE EvictionPlan ----------------------------
(***************************************************************************)
(* The eviction planner of the backend supervisor (eviction.rs): which     *)
(* models must be unloaded before a new one fits the memory budget.        *)
(*                                                                         *)
(* A snapshot is a function from the ids the supervisor knows, the         *)
(* requested one excluded, to entries.  GiB quantities are naturals here:  *)
(* the code's float epsilon only absorbs rounding, so it has no            *)
(* counterpart.  Entries with equal last_used_seq come out of a HashMap    *)
(* and a stable sort, so their relative order is arbitrary; the planner is *)
(* therefore the SET of victim sets the code may choose.                   *)
(***************************************************************************)
EXTENDS Integers, FiniteSets, Functions

ModelState == {"Launching", "Loading", "Ready", "Error", "Stopping", "Stopped"}

\* The states whose memory is not confirmed free.
Occupies(state) == state \in {"Loading", "Ready", "Stopping", "Error"}

\* Total of the estimates `mem' over a set of ids.
Total(mem, ids) == SumFunctionOnSet(mem, ids)

Mem(snap) == [m \in DOMAIN snap |-> snap[m].mem]

Occupied(snap) ==
  Total(Mem(snap), {m \in DOMAIN snap : Occupies(snap[m].state)})

\* What is still missing; not positive when the request simply fits.
Shortfall(snap, budget, need) == need - (budget - Occupied(snap))

Candidates(snap) ==
  {m \in DOMAIN snap : /\ snap[m].state \in {"Ready", "Error"}
                       /\ ~snap[m].pinned
                       /\ snap[m].mem > 0
                       /\ snap[m].inflight = 0}

\* An oldest-first prefix V of the candidates that stops at the first
\* candidate with which the shortfall is covered.
LruPrefix(snap, V, short) ==
  /\ Total(Mem(snap), V) >= short
  /\ \A v \in V, c \in Candidates(snap) \ V : snap[v].seq <= snap[c].seq
  /\ \E v \in V : /\ \A w \in V : snap[w].seq <= snap[v].seq
                  /\ Total(Mem(snap), V \ {v}) < short

\* The victim sets plan_eviction may return: {{}} when nothing needs to go,
\* {} when no eviction can make the request fit.
Plans(snap, budget, need) ==
  LET short == Shortfall(snap, budget, need)
  IN  IF short <= 0
      THEN {{}}
      ELSE {V \in SUBSET Candidates(snap) : LruPrefix(snap, V, short)}
=============================================================================
