----------------------------- MODULE Supervisor -----------------------------
(***************************************************************************)
(* The backend supervisor (supervisor.rs): a single-writer actor that owns *)
(* the ledger of model slots, the one load/unload operation in flight, the *)
(* background task that talks to the engine for it, the durable load fence *)
(* (load_fence.rs) and the residency adopted at start-up.                  *)
(*                                                                         *)
(* The engine is outside the repository's control: it is modelled by what  *)
(* the code assumes of it.  A load whose answer is lost may still allocate *)
(* later, an unload takes effect some time after it was acknowledged, and  *)
(* a status answer is the truth at the moment it is given.                 *)
(*                                                                         *)
(* A command the actor refuses changes no state, so it has no action: the  *)
(* guards of Load, Unload and Chat are the refusals of the code.           *)
(***************************************************************************)
EXTENDS EvictionPlan, Sequences

CONSTANTS
  Models,         \* model ids
  Policies,       \* load policies, compared for equality only
  PinnedPolicies, \* those with keepalive pinned: never evicted
  StartupPolicy,  \* the policy of a slot adopted at start-up
  Size,           \* [Models -> Nat]: what a resident model really takes
  Estimates,      \* [Models -> SUBSET Nat]: the memory_gb requests may name
  Budget,         \* budget_gb
  Callers,        \* callers of load and unload
  MaxCalls,       \* max_concurrent_adapter_calls
  MaxOps,         \* bound: operations accepted in a behaviour
  MaxCrashes,     \* bound: process crashes and shutdowns in a behaviour
  DirtyRetryOom,  \* may an OOM answer to the retry leave memory behind?
  None            \* no operation, no previous instance, no status

\* A slot of the ledger, and the operation in flight with its waiters.
Slot == [state : ModelState \cup {"Absent"}, mem : Nat, policy : Policies,
         inflight : Nat, unconfirmed : BOOLEAN, inherited : BOOLEAN]

Operation == [kind : {"load", "unload"}, id : Models, policy : Policies, mem : Nat,
              waiters : SUBSET [caller : Callers, policy : Policies, mem : Nat],
              started : BOOLEAN]

ASSUME NoneAssumption ==
  None \notin Slot /\ None \notin Operation /\ \A S \in SUBSET Models : S # None

ASSUME SupervisorAssumption ==
  /\ IsFiniteSet(Models)
  /\ PinnedPolicies \subseteq Policies
  /\ StartupPolicy \in PinnedPolicies
  /\ Size \in [Models -> Nat \ {0}]
  /\ \A m \in Models : \A mem \in Estimates[m] : mem \in Nat /\ mem >= Size[m]
  /\ {Budget, MaxCalls, MaxOps, MaxCrashes} \subseteq Nat
  /\ DirtyRetryOom \in BOOLEAN

VARIABLES
  up,        \* "up", "failed" (startup_error set) or "down" (no actor)
  slots,     \* the ledger: models
  lru,       \* ids ever used, least recently used first (last_used_seq)
  op,        \* active_op, or None
  flow,      \* the background task of op; it survives a shutdown
  reserved,  \* Env.reserved_gb: the engine total at the last snapshot
  covered,   \* Env.aggregate_covered: slot credit inside that total
  claim,     \* this runtime's claim in the shared capacity ledger
  poisoned,  \* the actor found its own ledger inconsistent
  breach,    \* history: a claim beyond the budget was adopted with no fence left
  marker,    \* the durable fence file exists
  resident,  \* engine: models in memory
  loading,   \* engine: loads that may still allocate
  draining,  \* engine: unloads not yet carried out
  running,   \* chats really dispatched, per model
  ops, crashes

actorVars  == <<up, slots, lru, op, reserved, covered, claim, poisoned, breach>>
engineVars == <<resident, loading, draining>>
boundVars  == <<ops, crashes>>
vars == <<actorVars, flow, marker, engineVars, running, boundVars>>

-----------------------------------------------------------------------------
(* Ledger arithmetic *)

NoSlot == [state |-> "Absent", mem |-> 0, policy |-> StartupPolicy,
           inflight |-> 0, unconfirmed |-> FALSE, inherited |-> FALSE]

AtLeast0(n) == IF n < 0 THEN 0 ELSE n
Larger(a, b) == IF a < b THEN b ELSE a
Smaller(a, b) == IF a < b THEN a ELSE b

Mems(s) == [m \in Models |-> s[m].mem]
Charged(s) == {m \in Models : Occupies(s[m].state)}

\* The part of the aggregate that the slots already account for.
Credits(s, cov) ==
  [m \in Models |-> IF Occupies(s[m].state) /\ ~s[m].unconfirmed
                    THEN Smaller(s[m].mem, cov[m]) ELSE 0]

\* effective_reserved_gb_except
ReservedExcept(s, res, cov, except) ==
  AtLeast0(res - Total(Credits(s, cov), Models \ except))

Reservation(s, res, cov) == ReservedExcept(s, res, cov, {})

\* accounted_gb, which is also exact_charge of all slots
Accounted(s, res, cov) ==
  Total(Mems(s), Charged(s)) + Reservation(s, res, cov)

UsedBy(ids) == Total(Size, ids)

\* refresh_aggregate_except: a fresh status replaces the aggregate; the
\* slots it proves resident are credited with what they are charged.
CoveredBy(s, status, id, credit) ==
  [m \in Models |->
     IF m \notin status THEN 0
     ELSE IF m = id THEN credit
     ELSE IF Occupies(s[m].state) /\ ~s[m].unconfirmed THEN s[m].mem ELSE 0]

\* last_used_seq: a model's place in lru, 0 if it was never used.
LastUse(m) == LET at == {i \in DOMAIN lru : lru[i] = m}
              IN  IF at = {} THEN 0 ELSE CHOOSE i \in at : TRUE

Snapshot(s, id) ==
  [m \in {x \in Models \ {id} : s[x].state # "Absent"} |->
     [mem |-> s[m].mem, state |-> s[m].state, inflight |-> s[m].inflight,
      pinned |-> \/ s[m].unconfirmed \/ s[m].inherited
                 \/ s[m].policy \in PinnedPolicies,
      seq |-> LastUse(m)]]

\* The id goes last, wherever it was (a place of 0 leaves lru whole).
Touch(id) ==
  Append(SubSeq(lru, 1, LastUse(id) - 1) \o SubSeq(lru, LastUse(id) + 1, Len(lru)), id)

-----------------------------------------------------------------------------
(* The background task.  pc names the adapter call it is about to make.    *)

NoFlow == [pc |-> "idle", id |-> None, victims |-> {}, todo |-> {},
           freed |-> {}, prev |-> None, first |-> None, inherited |-> FALSE,
           absent |-> 0, after |-> 0, status |-> None, credit |-> 0, why |-> "none",
           ok |-> FALSE, outcome |-> "none"]

AfterEviction(f) ==
  [f EXCEPT !.pc = IF f.inherited THEN "verify" ELSE "load"]

Finished(f, ok, outcome) == [f EXCEPT !.pc = "done", !.ok = ok, !.outcome = outcome]

\* The task ends after clearing the fence; if that fails (the file may be
\* gone all the same) the load counts as unconfirmed and g is reported.
FinishCleared(f, ok, outcome, g) ==
  \/ marker' = FALSE /\ flow' = Finished(f, ok, outcome)
  \/ marker' \in {marker, FALSE} /\ flow' = Finished(g, FALSE, "unconfirmed")

\* A definite failure: the instance from before, if any, is still there.
RejectedOutcome(f) == IF f.prev = None THEN "stopped" ELSE "restore"

\* LoadFailureOutcome::after_release(Error, previous)
RetainedOutcome(f) == IF f.prev = None THEN "error" ELSE "retainError"

\* confirm_memory_released: a status that shows every target gone and no
\* more than `limit' in use.
MutReleased(targets, limit) == UsedBy(resident) <= Budget
Released(targets, limit) ==
  resident \cap targets = {} /\ UsedBy(resident) <= limit

\* An unload call: acknowledged, or an error after which the engine may
\* or may not carry it out.
UnloadCall(id, acknowledged) ==
  /\ \/ draining' = draining \cup ({id} \cap (resident \cup loading))
     \/ ~acknowledged /\ UNCHANGED draining
  /\ UNCHANGED <<resident, loading>>

\* A call the task was making when it died may have reached the engine.
CallOnTheWire ==
  /\ \/ UNCHANGED loading
     \/ flow.pc \in {"load", "retry"} /\ loading' = loading \cup {flow.id}
  /\ \/ UNCHANGED draining
     \/ /\ flow.pc = "evict"
        /\ \E v \in flow.todo \cap resident : draining' = draining \cup {v}
     \/ /\ flow.pc \in {"cleanup", "unload"}
        /\ draining' = draining \cup ({flow.id} \cap (resident \cup loading))
  /\ UNCHANGED resident

FlowEvict ==
  /\ flow.pc = "evict"
  /\ \E v \in flow.todo, ok \in BOOLEAN :
       /\ UnloadCall(v, ok)
       /\ LET todo == flow.todo \ {v}
          IN  flow' = [flow EXCEPT
                         !.todo = todo,
                         !.freed = IF ok THEN @ \cup {v} ELSE @,
                         !.pc = IF todo = {} THEN "confirmEvict" ELSE @]
  /\ UNCHANGED <<actorVars, marker, running, boundVars>>

\* Every victim must be gone and every unload acknowledged; otherwise the
\* load is given up without having been sent.
FlowConfirmEvict ==
  /\ flow.pc = "confirmEvict"
  /\ \/ /\ Released(flow.victims, flow.after)
        /\ LET f == [flow EXCEPT !.status = resident]
           IN  IF flow.freed = flow.victims
               THEN flow' = AfterEviction(f) /\ UNCHANGED marker
               ELSE FinishCleared(f, FALSE, RejectedOutcome(f), f)
     \/ LET f == [flow EXCEPT !.freed = {}]
        IN  FinishCleared(f, FALSE, RejectedOutcome(f), f)
  /\ UNCHANGED <<actorVars, engineVars, running, boundVars>>

\* A slot adopted at start-up is loaded only if the engine still shows it.
FlowVerify ==
  /\ flow.pc = "verify"
  /\ \/ /\ flow.id \in resident
        /\ UsedBy(resident) <= flow.after
        /\ flow' = [flow EXCEPT !.pc = "load"]
        /\ UNCHANGED marker
     \/ FinishCleared(flow, FALSE, RejectedOutcome(flow), flow)
  /\ UNCHANGED <<actorVars, engineVars, running, boundVars>>

\* Answers of adapter.load, first attempt and retry.
LoadAccepted ==
  /\ loading' = loading \cup {flow.id}
  /\ flow' = [flow EXCEPT !.pc = "probe"]
  /\ UNCHANGED <<marker, resident, draining>>

LoadRejected ==
  /\ FinishCleared(flow, FALSE, RejectedOutcome(flow), flow)
  /\ UNCHANGED engineVars

LoadOom ==
  /\ \/ UNCHANGED resident
     \/ resident' = resident \ {flow.id}
     \/ (flow.pc = "load" \/ DirtyRetryOom) /\ resident' = resident \cup {flow.id}
  /\ IF flow.pc = "load"
     THEN flow' = [flow EXCEPT !.pc = "confirmOom"] /\ UNCHANGED marker
     ELSE FinishCleared(flow, FALSE, RejectedOutcome(flow), flow)
  /\ UNCHANGED <<loading, draining>>

LoadPostconditionFailed ==
  /\ resident' \in {resident, resident \cup {flow.id}, resident \ {flow.id}}
  /\ flow' = [flow EXCEPT !.pc = "cleanup", !.why = "ended"]
  /\ UNCHANGED <<marker, loading, draining>>

LoadTimedOut ==
  /\ loading' \in {loading, loading \cup {flow.id}}
  /\ flow' = [flow EXCEPT !.pc = "cleanup", !.why = "unknown"]
  /\ UNCHANGED <<marker, resident, draining>>

FlowLoad ==
  /\ flow.pc \in {"load", "retry"}
  /\ \/ LoadAccepted \/ LoadRejected \/ LoadOom
     \/ LoadPostconditionFailed \/ LoadTimedOut
  /\ UNCHANGED <<actorVars, running, boundVars>>

\* After an OOM: one retry, only once the target is proved absent, and
\* none for a slot admitted at the start-up discount.
FlowConfirmOom ==
  /\ flow.pc = "confirmOom"
  /\ \/ /\ Released({flow.id}, flow.absent)
        /\ LET f == [flow EXCEPT !.status = resident, !.credit = 0]
           IN  IF flow.inherited
               THEN FinishCleared(f, FALSE, "stopped", flow)
               ELSE /\ flow' = [f EXCEPT !.prev = None, !.pc = "retry"]
                    /\ UNCHANGED marker
     \/ flow' = [flow EXCEPT !.pc = "cleanup", !.why = "ended"] /\ UNCHANGED marker
  /\ UNCHANGED <<actorVars, engineVars, running, boundVars>>

\* best_effort_release: while the load may still be running its result is
\* ignored; after a load that has ended it decides what is kept.
MutKeepsFence(why) == FALSE
KeepsFence(why) == why = "unknown"

FlowCleanup ==
  /\ flow.pc = "cleanup"
  /\ \E ok \in BOOLEAN :
       /\ UnloadCall(flow.id, ok)
       /\ IF KeepsFence(flow.why)
          THEN flow' = Finished(flow, FALSE, "unconfirmed") /\ UNCHANGED marker
          ELSE IF ok
          THEN flow' = [flow EXCEPT !.pc = "confirmCleanup"] /\ UNCHANGED marker
          ELSE FinishCleared(flow, FALSE, RetainedOutcome(flow), flow)
  /\ UNCHANGED <<actorVars, running, boundVars>>

FlowConfirmCleanup ==
  /\ flow.pc = "confirmCleanup"
  /\ \/ /\ Released({flow.id}, flow.absent)
        /\ FinishCleared([flow EXCEPT !.status = resident, !.credit = 0],
                         FALSE, "stopped", flow)
     \/ FinishCleared(flow, FALSE, RetainedOutcome(flow), flow)
  /\ UNCHANGED <<actorVars, engineVars, running, boundVars>>

\* probe_ready answers yes only for a load that has ended in memory.
FlowProbe ==
  /\ flow.pc = "probe"
  /\ \/ flow.id \in resident \ loading /\ FinishCleared(flow, TRUE, "none", flow)
     \/ flow' = [flow EXCEPT !.pc = "cleanup", !.why = "unknown"] /\ UNCHANGED marker
  /\ UNCHANGED <<actorVars, engineVars, running, boundVars>>

\* The adapter panics inside a load task: the fence stays, every victim is
\* reported failed, whatever was gathered is lost with the stack.
FlowPanic ==
  /\ flow.pc \in {"evict", "confirmEvict", "verify", "load", "confirmOom",
                 "retry", "cleanup", "confirmCleanup", "probe"}
  /\ CallOnTheWire
  /\ flow' = Finished([flow EXCEPT !.freed = {}, !.status = None, !.credit = 0,
                                   !.prev = flow.first],
                      FALSE, "unconfirmed")
  /\ UNCHANGED <<actorVars, marker, running, boundVars>>

\* start_unload: the call, then the proof that the memory is gone.
FlowUnload ==
  /\ flow.pc = "unload"
  /\ \E ok \in BOOLEAN :
       /\ UnloadCall(flow.id, ok)
       /\ flow' = IF ok THEN [flow EXCEPT !.pc = "confirmUnload"]
                  ELSE Finished(flow, FALSE, "error")
  /\ UNCHANGED <<actorVars, marker, running, boundVars>>

FlowConfirmUnload ==
  /\ flow.pc = "confirmUnload"
  /\ \/ /\ Released({flow.id}, flow.absent)
        /\ flow' = Finished([flow EXCEPT !.status = resident], TRUE, "none")
     \/ flow' = Finished(flow, FALSE, "error")
  /\ UNCHANGED <<actorVars, marker, engineVars, running, boundVars>>

FlowStep ==
  \/ FlowEvict \/ FlowConfirmEvict \/ FlowVerify \/ FlowLoad \/ FlowConfirmOom
  \/ FlowCleanup \/ FlowConfirmCleanup \/ FlowProbe \/ FlowPanic
  \/ FlowUnload \/ FlowConfirmUnload

-----------------------------------------------------------------------------
(* The actor *)

Serving == up = "up" /\ ~poisoned

\* A waiter is a caller together with what it asked for.
Waiter(c, policy, mem) == [caller |-> c, policy |-> policy, mem |-> mem]
Waiting(c) == op # None /\ \E w \in op.waiters : w.caller = c

Enqueue(w) ==
  /\ op' = [op EXCEPT !.waiters = @ \cup {w}]
  /\ UNCHANGED <<up, slots, lru, reserved, covered, claim, poisoned, breach, flow,
                 marker, engineVars, running, boundVars>>

\* handle_load joins a request to the load in flight if it is the same.
MutSameLoad(id, policy, mem) == op.kind = "load" /\ op.id = id
SameLoad(id, policy, mem) ==
  op.kind = "load" /\ op.id = id /\ op.policy = policy /\ op.mem = mem

JoinLoad(c, id, policy, mem) ==
  /\ Serving /\ op # None /\ ~Waiting(c)
  /\ SameLoad(id, policy, mem)
  /\ Enqueue(Waiter(c, policy, mem))

\* The checks of handle_load up to the eviction plan.
MutMayLoadInflight(id, policy) ==
  /\ Serving /\ op = None
  /\ ~slots[id].unconfirmed
  /\ ~(slots[id].state = "Ready" /\ slots[id].policy = policy)
  /\ Reservation(slots, reserved, covered) <= Budget

MutMayLoadUnconfirmed(id, policy) ==
  /\ Serving /\ op = None
  /\ ~(slots[id].state = "Ready" /\ slots[id].policy = policy)
  /\ slots[id].inflight = 0
  /\ Reservation(slots, reserved, covered) <= Budget

MayLoad(id, policy) ==
  /\ Serving
  /\ op = None
  /\ ~slots[id].unconfirmed
  /\ ~(slots[id].state = "Ready" /\ slots[id].policy = policy)
  /\ slots[id].inflight = 0
  /\ Reservation(slots, reserved, covered) <= Budget

\* A slot seen at start-up is charged only what exceeds the aggregate.
RequestCharge(id, mem) ==
  IF slots[id].inherited
  THEN AtLeast0(mem - Reservation(slots, reserved, covered))
  ELSE mem

LoadPlans(id, mem) ==
  Plans(Snapshot(slots, id), Budget - Reservation(slots, reserved, covered),
        RequestCharge(id, mem))

\* claim_runtime_capacity never gives up what is still held.
MutHeld(now, planned) == planned
Held(now, planned) == Larger(now, planned)

StartLoad(c, id, policy, mem) ==
  /\ ops < MaxOps
  /\ MayLoad(id, policy)
  /\ ~marker
  /\ \E victims \in LoadPlans(id, mem) :
       LET charge  == RequestCharge(id, mem)
           old     == slots[id]
           prev    == IF Occupies(old.state) THEN old ELSE None
           s       == [m \in Models |->
                        IF m = id
                        THEN [old EXCEPT !.mem = charge, !.state = "Loading",
                                         !.policy = policy, !.inflight = 0,
                                         !.unconfirmed = FALSE]
                        ELSE IF m \in victims
                        THEN [slots[m] EXCEPT !.state = "Stopping"]
                        ELSE slots[m]]
           others  == Total(Mems(s), Charged(s) \ (victims \cup {id}))
           rest    == Reservation(s, reserved, covered)
           planned == Reservation(slots, reserved, covered) + charge + others
           f       == [NoFlow EXCEPT
                         !.id = id, !.victims = victims, !.todo = victims,
                         !.prev = prev, !.first = prev, !.inherited = old.inherited /\ prev # None,
                         !.absent = others + rest,
                         !.after = others + rest + (IF prev = None THEN 0 ELSE prev.mem),
                         !.credit = IF prev = None THEN 0 ELSE prev.mem]
       IN  /\ slots' = s
           /\ claim' = Held(claim, planned)
           /\ flow' = IF victims = {} THEN AfterEviction(f)
                      ELSE [f EXCEPT !.pc = "evict"]
  /\ marker' = TRUE
  /\ op' = [kind |-> "load", id |-> id, policy |-> policy, mem |-> mem,
            waiters |-> {Waiter(c, policy, mem)}, started |-> TRUE]
  /\ ops' = ops + 1
  /\ UNCHANGED <<up, lru, reserved, covered, poisoned, breach, engineVars, running,
                 crashes>>

\* The request is refused after the marker was created and could not be
\* removed: begin() failed on its last sync, or the shared ledger refused
\* the claim and clear() failed.
RefuseLoadAfterMarker(id, policy, mem) ==
  /\ MayLoad(id, policy)
  /\ ~marker
  /\ LoadPlans(id, mem) # {}
  /\ marker' = TRUE
  /\ UNCHANGED <<actorVars, flow, engineVars, running, boundVars>>

\* ledger_used_except plus the aggregate without the target's credit.
UnloadFlow(s, id) ==
  [NoFlow EXCEPT
     !.pc = "unload", !.id = id,
     !.absent = Total(Mems(s), Charged(s) \ {id})
                + ReservedExcept(s, reserved, covered, {id})]

JoinUnload(c, id) ==
  /\ Serving /\ op # None /\ ~Waiting(c)
  /\ op.kind = "unload" /\ op.id = id
  /\ Enqueue(Waiter(c, StartupPolicy, 0))

\* handle_unload: the call to the engine waits for chats to drain.
StartUnload(c, id) ==
  /\ ops < MaxOps
  /\ Serving /\ op = None
  /\ slots[id].state \notin {"Absent", "Stopped"}
  /\ ~slots[id].unconfirmed
  /\ LET s    == [slots EXCEPT ![id].state = "Stopping"]
         idle == slots[id].inflight = 0
     IN  /\ slots' = s
         /\ op' = [kind |-> "unload", id |-> id, policy |-> StartupPolicy, mem |-> 0,
                   waiters |-> {Waiter(c, StartupPolicy, 0)}, started |-> idle]
         /\ flow' = IF idle THEN UnloadFlow(s, id) ELSE flow
  /\ ops' = ops + 1
  /\ UNCHANGED <<up, lru, reserved, covered, claim, poisoned, breach, marker,
                 engineVars, running, crashes>>

Chat(id) ==
  /\ Serving
  /\ slots[id].state = "Ready"
  /\ Total(running, Models) < MaxCalls
  /\ lru' = Touch(id)
  /\ slots' = [slots EXCEPT ![id].inflight = @ + 1]
  /\ running' = [running EXCEPT ![id] = @ + 1]
  /\ UNCHANGED <<up, op, reserved, covered, claim, poisoned, breach, flow, marker,
                 engineVars, boundVars>>

MutDrained(s, id) == FALSE
Drained(s, id) ==
  /\ s[id].inflight = 0
  /\ op # None /\ op.id = id /\ op.kind = "unload" /\ ~op.started

\* A dispatched chat ends (answer, timeout or panic) and its ChatDone is
\* handled; the last one starts an unload that waited for it.
ChatDone(id) ==
  /\ running[id] > 0
  /\ running' = [running EXCEPT ![id] = @ - 1]
  /\ IF ~Serving
     THEN UNCHANGED <<slots, op, flow>>
     ELSE LET s == [slots EXCEPT ![id].inflight = AtLeast0(@ - 1)]
          IN  /\ slots' = s
              /\ op' = IF Drained(s, id) THEN [op EXCEPT !.started = TRUE] ELSE op
              /\ flow' = IF Drained(s, id) THEN UnloadFlow(s, id) ELSE flow
  /\ UNCHANGED <<up, lru, reserved, covered, claim, poisoned, breach, marker,
                 engineVars, boundVars>>

\* The slot of the operation's own model once the task has reported.
SettledSlot(slot, prev, kind, ok, outcome) ==
  LET stopped == [slot EXCEPT !.state = "Stopped", !.inherited = FALSE]
      kept    == IF prev = None THEN slot
                 ELSE [slot EXCEPT !.policy = prev.policy,
                                   !.mem = Larger(@, prev.mem)]
  IN  IF ok
      THEN IF kind = "load" THEN [slot EXCEPT !.state = "Ready"] ELSE stopped
      ELSE CASE outcome = "stopped"     -> stopped
             [] outcome = "error"       -> [slot EXCEPT !.state = "Error"]
             [] outcome = "restore"     ->
                  [slot EXCEPT !.state = prev.state, !.policy = prev.policy,
                               !.mem = prev.mem, !.inherited = prev.inherited]
             [] outcome = "retainError" ->
                  [kept EXCEPT !.state = "Error", !.inherited = prev.inherited]
             [] outcome = "unconfirmed" ->
                  [kept EXCEPT !.state = "Error", !.unconfirmed = TRUE]

MutVictimSlot(slot, freed) ==
  IF freed THEN [slot EXCEPT !.state = "Stopped", !.inherited = FALSE] ELSE slot
VictimSlot(slot, freed) ==
  IF freed THEN [slot EXCEPT !.state = "Stopped", !.inherited = FALSE]
  ELSE [slot EXCEPT !.state = "Error"]

\* OpDone: victims, the aggregate and the target are settled in one step,
\* the global claim is reconciled and every waiter is answered.
OpDone ==
  /\ Serving /\ flow.pc = "done"
  /\ LET id == flow.id
         s  == [m \in Models |->
                  IF m = id
                  THEN SettledSlot(slots[m], flow.prev, op.kind, flow.ok, flow.outcome)
                  ELSE IF m \in flow.victims
                  THEN VictimSlot(slots[m], m \in flow.freed)
                  ELSE slots[m]]
         fresh == flow.status # None
         res == IF fresh THEN UsedBy(flow.status) ELSE reserved
         cov == IF fresh THEN CoveredBy(s, flow.status, id, flow.credit) ELSE covered
         now == Accounted(s, res, cov)
         unsure == \E m \in Models : s[m].unconfirmed
     IN  /\ slots' = s /\ reserved' = res /\ covered' = cov
         /\ lru' = IF flow.ok /\ op.kind = "load" THEN Touch(id) ELSE lru
         /\ claim' = IF now > claim \/ ~unsure THEN now ELSE claim
         /\ poisoned' = (now > claim /\ ~unsure)
         /\ breach' = (breach \/ (unsure /\ ~marker /\ now > Larger(claim, Budget)))
  /\ op' = None /\ flow' = NoFlow
  /\ UNCHANGED <<up, marker, engineVars, running, boundVars>>

-----------------------------------------------------------------------------
(* Process life cycle *)

ActorGone ==
  /\ slots' = [m \in Models |-> NoSlot] /\ lru' = <<>> /\ op' = None
  /\ reserved' = 0 /\ covered' = [m \in Models |-> 0] /\ claim' = 0
  /\ poisoned' = FALSE /\ UNCHANGED breach

\* A crash takes the task with it; a load or unload call on the wire may
\* or may not have reached the engine.
Crash ==
  /\ up # "down" /\ crashes < MaxCrashes
  /\ CallOnTheWire
  /\ up' = "down" /\ ActorGone
  /\ flow' = NoFlow /\ running' = [m \in Models |-> 0]
  /\ crashes' = crashes + 1
  /\ UNCHANGED <<marker, ops>>

\* Every handle is dropped: the actor exits, its spawned tasks run on and
\* keep the engine's owner lock until they end.
Shutdown ==
  /\ up # "down" /\ crashes < MaxCrashes
  /\ up' = "down" /\ ActorGone
  /\ crashes' = crashes + 1
  /\ UNCHANGED <<flow, marker, engineVars, running, ops>>

\* A task that outlives its actor has nobody to report to.
OrphanEnds ==
  /\ up # "up" /\ flow.pc = "done"
  /\ flow' = NoFlow
  /\ UNCHANGED <<actorVars, marker, engineVars, running, boundVars>>

Locked == flow # NoFlow \/ \E m \in Models : running[m] > 0

\* A new actor claims the owner lock, looks for the marker and adopts what
\* one status sample shows; any failure is a permanent startup error.
Start ==
  /\ up = "down"
  /\ \/ /\ ~Locked /\ ~marker
        /\ up' = "up"
        /\ slots' = [m \in Models |->
                       IF m \in resident
                       THEN [NoSlot EXCEPT !.state = "Error", !.inherited = TRUE]
                       ELSE NoSlot]
        /\ reserved' = UsedBy(resident) /\ claim' = UsedBy(resident)
     \/ up' = "failed" /\ UNCHANGED <<slots, reserved, claim>>
  /\ UNCHANGED <<lru, op, covered, poisoned, breach, flow, marker, engineVars,
                 running, boundVars>>

\* The operator restarts the engine and removes the marker while nothing
\* of the router runs.
OperatorReset ==
  /\ up = "down" /\ ~Locked /\ marker
  /\ marker' = FALSE
  /\ resident' = {} /\ loading' = {} /\ draining' = {}
  /\ UNCHANGED <<actorVars, flow, running, boundVars>>

-----------------------------------------------------------------------------
(* The engine on its own *)

EngineLoads(m) ==
  /\ m \in loading
  /\ loading' = loading \ {m}
  /\ resident' \in {resident, resident \cup {m}}
  /\ UNCHANGED <<actorVars, flow, marker, draining, running, boundVars>>

EngineUnloads(m) ==
  /\ m \in draining
  /\ draining' = draining \ {m} /\ resident' = resident \ {m}
  /\ UNCHANGED <<actorVars, flow, marker, loading, running, boundVars>>

-----------------------------------------------------------------------------
Init ==
  /\ up = "down"
  /\ slots = [m \in Models |-> NoSlot] /\ lru = <<>> /\ op = None
  /\ flow = NoFlow
  /\ reserved = 0 /\ covered = [m \in Models |-> 0] /\ claim = 0
  /\ poisoned = FALSE /\ breach = FALSE /\ marker = FALSE
  /\ resident \in SUBSET Models /\ UsedBy(resident) <= Budget
  /\ loading = {} /\ draining = {}
  /\ running = [m \in Models |-> 0]
  /\ ops = 0 /\ crashes = 0

LoadCommand ==
  \E id \in Models, policy \in Policies : \E mem \in Estimates[id] :
    \/ \E c \in Callers : JoinLoad(c, id, policy, mem) \/ StartLoad(c, id, policy, mem)
    \/ RefuseLoadAfterMarker(id, policy, mem)

UnloadCommand ==
  \E id \in Models, c \in Callers : JoinUnload(c, id) \/ StartUnload(c, id)

Next ==
  \/ LoadCommand \/ UnloadCommand
  \/ \E id \in Models : Chat(id) \/ ChatDone(id) \/ EngineLoads(id) \/ EngineUnloads(id)
  \/ FlowStep \/ OpDone
  \/ Crash \/ Shutdown \/ OrphanEnds \/ Start \/ OperatorReset

Spec == Init /\ [][Next]_vars

\* Every adapter call is bounded by a timeout, so the task always gets its
\* next answer; a chat is bounded by chat_call_timeout; the actor handles
\* what is in its channel.  Commands, crashes and the engine are not fair.
Fairness ==
  /\ WF_vars(FlowStep)
  /\ WF_vars(OpDone)
  /\ \A m \in Models : WF_vars(ChatDone(m))

FairSpec == Spec /\ Fairness

-----------------------------------------------------------------------------
(* Properties *)

\* The shape of the actor's, the task's and the engine's state.
TypeOK ==
  /\ up \in {"up", "failed", "down"}
  /\ slots \in [Models -> Slot]
  /\ lru \in Seq(Models)
  /\ flow.victims \subseteq Models /\ flow.freed \subseteq flow.victims
  /\ {reserved, claim, ops, crashes} \subseteq Nat
  /\ covered \in [Models -> Nat] /\ running \in [Models -> Nat]
  /\ {poisoned, breach, marker} \subseteq BOOLEAN
  /\ resident \subseteq Models /\ loading \subseteq Models /\ draining \subseteq Models

\* What the engine holds or may still allocate never exceeds the budget:
\* through evictions, retries after OOM, lost answers, crashes and restarts
\* (admission in handle_load, retention in the failure outcomes).  Only once a
\* settlement has adopted a claim beyond the budget beside an unconfirmed load
\* whose fence is gone (settle_runtime_capacity returns Ok, and nothing refuses
\* the next load) may a later load exceed it.
NoOvercommit == ~breach => UsedBy(resident \cup loading) <= Budget

\* As long as every load's fate is known, everything the engine holds or
\* may still allocate is charged in the ledger, by a slot or by the
\* aggregate taken from a status.
LedgerCoversEngine ==
  up = "up" /\ (\A m \in Models : ~slots[m].unconfirmed) =>
    UsedBy(resident \cup loading) <= Accounted(slots, reserved, covered)

\* What supervisor.rs:180-183 says of an unconfirmed load: the ledger keeps
\* its footprint, since it may still allocate.
UnconfirmedKeepsFootprint ==
  up = "up" => UsedBy(resident \cup loading) <= Accounted(slots, reserved, covered)

\* What eviction.rs:163-165 says of Stopped: the release was confirmed, so
\* nothing of the model is left in the engine that the ledger gave back.
StoppedMeansReleased ==
  up = "up" => \A m \in Models :
    slots[m].state = "Stopped" => m \notin resident \cup loading

\* While an engine-side load may still allocate, the fence file exists:
\* an actor started after a crash cannot admit loads beside it.
FenceCoversEngineLoad == loading # {} => marker

\* Loading and Stopping belong to the operation in flight: no slot is left
\* in a transient state that nothing will ever settle.
TransientStatesOwned ==
  \A m \in Models :
    slots[m].state \in {"Launching", "Loading", "Stopping"} =>
      op # None /\ m \in {op.id} \cup flow.victims

\* The engine is not told to unload or replace a model a chat is using.
NoUnloadUnderChat ==
  up = "up" /\ flow # NoFlow => \A m \in {flow.id} \cup flow.victims : running[m] = 0

\* The in-flight counters count the chats that run: no ChatDone is lost,
\* none arrives for a slot whose counter was reset.
InflightExact == Serving => \A m \in Models : slots[m].inflight = running[m]

\* What this runtime told the shared ledger covers the engine at every
\* moment, and is the ledger's own total once no operation runs and no load
\* is unconfirmed.  (During an eviction the slots of victims and target
\* together may exceed both the claim and the budget: the target is only
\* sent to the engine after the victims are proved gone.)
ClaimCoversEngine ==
  up = "up" =>
    /\ UsedBy(resident \cup loading) <= claim
    /\ op = None /\ (\A m \in Models : ~slots[m].unconfirmed)
         => claim = Accounted(slots, reserved, covered)

\* The actor finds its own ledger inconsistent (settle_runtime_capacity's
\* invariant violation) only if some model is charged more than it takes: then
\* its credit can hide what another one holds, until the engine drops it.
OnlyOverestimatesPoison == poisoned => \E m \in Models : slots[m].mem > Size[m]

\* A load or unload caller that was told Ok got what it asked for.
OkMeansDone ==
  [][OpDone /\ flow.ok =>
       IF op.kind = "load"
       THEN /\ slots'[op.id].state = "Ready"
            /\ \A w \in op.waiters : slots'[op.id].policy = w.policy
       ELSE slots'[op.id].state = "Stopped" /\ op.id \notin flow.status]_vars

\* A slot whose load may still allocate is never reused, released or
\* discounted while this actor lives.
UnconfirmedStays ==
  [][\A m \in Models :
       up = "up" /\ up' = "up" /\ slots[m].unconfirmed =>
         slots'[m].unconfirmed /\ slots'[m].state = "Error"
         /\ slots'[m].mem >= slots[m].mem]_vars

\* Every caller of load or unload is answered (or its actor is gone).
CallersAnswered ==
  \A c \in Callers : Waiting(c) ~> ~Waiting(c)
-----------------------------------------------------------------------------
(* What the runs check together.                                           *)

\* The state of a slot is honest, however the operation that held it ended:
\* of the right shape, stopped only when that was confirmed, and in transit
\* only while some operation will settle it (handle_op_done).
SlotsHonest == TypeOK /\ StoppedMeansReleased /\ TransientStatesOwned

\* Chats are counted exactly, and the count keeps the engine from being told to
\* drop a model they run on (handle_chat_done, begin_unload, plan_eviction).
ChatsProtected == NoUnloadUnderChat /\ InflightExact

\* The books, then the claim in the shared ledger, cover the engine, and their
\* reconciliation meets the contradiction that poisons the actor only through a
\* model charged above its size (settle_runtime_capacity, supervisor.rs:1138).
ChargesCoverEngine == LedgerCoversEngine /\ ClaimCoversEngine /\ OnlyOverestimatesPoison
=============================================================================
