---------------------------- MODULE EvictionLoop ----------------------------
(***************************************************************************)
(* plan_eviction as the code computes it: candidates sorted by             *)
(* last_used_seq (a stable sort of a HashMap's order, so ties come out in  *)
(* any order), then one loop iteration per candidate.  It is checked       *)
(* against EvictionPlan!Plans, the definition the supervisor's model uses. *)
(***************************************************************************)
EXTENDS EvictionPlan, Sequences

CONSTANTS Ids,      \* ids in the snapshot
          Entries,  \* the entries an id may have
          Budgets,  \* budget_gb, what the reservations leave of it
          Needs     \* need.memory_gb

\* What validate_capacity lets through.
ASSUME EvictionLoopAssumption ==
  /\ IsFiniteSet(Ids)
  /\ Entries \subseteq [state : ModelState, pinned : BOOLEAN, inflight : Nat, mem : Nat, seq : Nat]
  /\ Budgets \subseteq Nat /\ Needs \subseteq Nat

VARIABLES snap, budget, need, queue, freedGb, chosen, verdict

input == <<snap, budget, need>>
planVars == <<input, queue, freedGb, chosen, verdict>>

Fits == Shortfall(snap, budget, need) <= 0

Sorted(q) == \A i, j \in DOMAIN q : i < j => snap[q[i]].seq <= snap[q[j]].seq

\* Every order the stable sort may produce.
Orders(ids) ==
  {q \in [1 .. Cardinality(ids) -> ids] :
     /\ \A i, j \in DOMAIN q : i # j => q[i] # q[j]
     /\ Sorted(q)}

PlanInit ==
  /\ snap \in [Ids -> Entries] /\ budget \in Budgets /\ need \in Needs
  /\ queue \in Orders(Candidates(snap))
  /\ freedGb = 0 /\ chosen = {} /\ verdict = "running"

NotNeeded ==
  /\ verdict = "running" /\ Fits
  /\ verdict' = "evict"
  /\ UNCHANGED <<input, queue, freedGb, chosen>>

MutStops(f) == f > Shortfall(snap, budget, need)
Stops(f) == f >= Shortfall(snap, budget, need)

Choose ==
  /\ verdict = "running" /\ ~Fits /\ queue # <<>> /\ ~Stops(freedGb)
  /\ freedGb' = freedGb + snap[Head(queue)].mem
  /\ chosen' = chosen \cup {Head(queue)}
  /\ queue' = Tail(queue)
  /\ UNCHANGED <<input, verdict>>

Conclude ==
  /\ verdict = "running" /\ ~Fits /\ (queue = <<>> \/ Stops(freedGb))
  /\ verdict' = IF freedGb < Shortfall(snap, budget, need) THEN "impossible" ELSE "evict"
  /\ UNCHANGED <<input, queue, freedGb, chosen>>

PlanNext == NotNeeded \/ Choose \/ Conclude

PlanSpec == PlanInit /\ [][PlanNext]_planVars /\ WF_planVars(PlanNext)

\* The loop of plan_eviction returns a plan exactly when one exists, and
\* the plan it returns is a minimal least-recently-used prefix.
LoopMatchesPlans ==
  /\ verdict = "evict" => chosen \in Plans(snap, budget, need)
  /\ verdict = "impossible" => Plans(snap, budget, need) = {}

\* "Impossible" is never said while unloading idle, unpinned Ready or Error
\* models would make room: a failed model cannot block the budget for good.
ImpossibleIsTrue ==
  verdict = "impossible" =>
    ~\E V \in SUBSET Ids :
       /\ \A m \in V : /\ snap[m].state \in {"Ready", "Error"}
                        /\ ~snap[m].pinned /\ snap[m].inflight = 0
       /\ Total(Mem(snap), {m \in Ids \ V : Occupies(snap[m].state)}) + need <= budget
\* eviction.rs:179: plan_eviction answers right, whatever it answers: its
\* plan is a minimal prefix, its refusal is final.
PlannerRight == LoopMatchesPlans /\ ImpossibleIsTrue
=============================================================================
