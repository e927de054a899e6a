-------------------------- MODULE SupervisorProofs --------------------------
(***************************************************************************)
(* What the backend supervisor keeps true for every set of models, sizes,  *)
(* budget and callers.  The invariants come in layers, each proved from    *)
(* the ones before: the shape of the state, which task and which slots an  *)
(* operation owns, the fence, what a confirmed release means, the chats,   *)
(* what the books say of the engine, the room made for a load, the claim.  *)
(*                                                                         *)
(* At the end, of the eviction planner: the loop of the code, EvictionLoop,*)
(* finds what the supervisor's plans are defined to be (EvictionPlan).     *)
(***************************************************************************)
EXTENDS Supervisor, EvictionLoop, SumLemmas

-----------------------------------------------------------------------------
(* The shape of the state                                                  *)

LoadCalls == {"evict", "confirmEvict", "verify", "load", "confirmOom",
              "retry", "cleanup", "confirmCleanup", "probe"}
UnloadCalls == {"unload", "confirmUnload"}

Task ==
  [pc : {"idle", "done"} \cup LoadCalls \cup UnloadCalls, id : Models \cup {None},
   victims : SUBSET Models, todo : SUBSET Models, freed : SUBSET Models,
   prev : Slot \cup {None}, first : Slot \cup {None}, inherited : BOOLEAN,
   absent : Nat, after : Nat, status : (SUBSET Models) \cup {None}, credit : Nat,
   why : {"none", "ended", "unknown"}, ok : BOOLEAN,
   outcome : {"none", "stopped", "error", "restore", "retainError", "unconfirmed"}]

Shape ==
  /\ TypeOK /\ flow \in Task /\ op \in Operation \cup {None}
  /\ flow.todo \subseteq flow.victims

LEMMA NumbersOf ==
  ASSUME NEW s \in [Models -> Slot], NEW cov \in [Models -> Nat], NEW res \in Nat,
         NEW ids \in SUBSET Models
  PROVE  /\ Total(Mems(s), ids) \in Nat
         /\ Total(Credits(s, cov), ids) \in Nat
         /\ UsedBy(ids) \in Nat
         /\ Charged(s) \in SUBSET Models
         /\ ReservedExcept(s, res, cov, ids) \in Nat
         /\ Reservation(s, res, cov) \in Nat
         /\ Accounted(s, res, cov) \in Nat
<1> USE DEF Total
<1>1. \A x \in Models : s[x].mem \in Nat
  BY DEF Slot
<1>2. \A x \in Models : Size[x] \in Nat
  BY SupervisorAssumption
<1>3. \A x \in Models : Credits(s, cov)[x] \in Nat
  BY <1>1 DEF Credits, Smaller
<1>4. \A T \in SUBSET Models : /\ Countable(Mems(s), T) /\ Countable(Size, T)
                               /\ Countable(Credits(s, cov), T)
  BY <1>1, <1>2, <1>3, FS_Subset, SupervisorAssumption DEF Countable, Mems
<1>5. \A T \in SUBSET Models : /\ Total(Mems(s), T) \in Nat /\ Total(Size, T) \in Nat
                               /\ Total(Credits(s, cov), T) \in Nat
  BY <1>4, SumNat
<1>6. Charged(s) \in SUBSET Models
  BY DEF Charged
<1>7. \A T \in SUBSET Models : ReservedExcept(s, res, cov, T) \in Nat
  BY <1>5 DEF ReservedExcept, AtLeast0
<1> QED BY <1>5, <1>6, <1>7 DEF UsedBy, Reservation, Accounted

\* Victims are slots that no chat, no pin and no doubt protects.
LEMMA VictimsOf ==
  ASSUME NEW id \in Models, NEW mem, NEW victims \in LoadPlans(id, mem)
  PROVE  \A v \in victims :
           /\ v \in Models \ {id} /\ slots[v].state \in {"Ready", "Error"}
           /\ slots[v].inflight = 0
           /\ ~slots[v].unconfirmed /\ ~slots[v].inherited
<1>1. victims \subseteq Candidates(Snapshot(slots, id))
  BY DEF LoadPlans, Plans
<1>2. DOMAIN Snapshot(slots, id) \subseteq Models \ {id}
  BY DEF Snapshot
<1>3. \A v \in DOMAIN Snapshot(slots, id) :
        /\ Snapshot(slots, id)[v].state = slots[v].state
        /\ Snapshot(slots, id)[v].inflight = slots[v].inflight
        /\ Snapshot(slots, id)[v].pinned = (\/ slots[v].unconfirmed \/ slots[v].inherited
                                            \/ slots[v].policy \in PinnedPolicies)
  BY DEF Snapshot
<1> QED BY <1>1, <1>2, <1>3 DEF Candidates

\* Every call of the task leaves the actor, the chats and the bounds alone.
LEMMA TaskQuiet ==
  FlowStep => UNCHANGED <<actorVars, running, boundVars>>
BY DEF FlowStep, FlowEvict, FlowConfirmEvict, FlowVerify, FlowLoad, FlowConfirmOom,
       FlowCleanup, FlowConfirmCleanup, FlowProbe, FlowPanic, FlowUnload, FlowConfirmUnload

Calls == {"idle", "done"} \cup LoadCalls \cup UnloadCalls
Outcomes == {"none", "stopped", "error", "restore", "retainError", "unconfirmed"}

\* The ways a call changes its task's record, all within the type.
LEMMA Updates ==
  ASSUME NEW f \in Task
  PROVE  /\ \A x \in Calls : [f EXCEPT !.pc = x] \in Task
         /\ \A x \in (SUBSET Models) \cup {None} : [f EXCEPT !.status = x] \in Task
         /\ \A x \in SUBSET Models : [f EXCEPT !.freed = x] \in Task
         /\ \A x \in SUBSET Models : [f EXCEPT !.todo = x] \in Task
         /\ \A x \in Slot \cup {None} : [f EXCEPT !.prev = x] \in Task
         /\ \A x \in Nat : [f EXCEPT !.credit = x] \in Task
         /\ \A x \in {"none", "ended", "unknown"} : [f EXCEPT !.why = x] \in Task
         /\ \A x \in BOOLEAN, y \in Outcomes : Finished(f, x, y) \in Task
         /\ \A x \in Models : [f EXCEPT !.id = x] \in Task
         /\ \A x \in SUBSET Models : [f EXCEPT !.victims = x] \in Task
         /\ \A x \in Slot \cup {None} : [f EXCEPT !.first = x] \in Task
         /\ \A x \in BOOLEAN : [f EXCEPT !.inherited = x] \in Task
         /\ \A x \in Nat : [f EXCEPT !.absent = x] \in Task
         /\ \A x \in Nat : [f EXCEPT !.after = x] \in Task
<1>1. \A x \in Calls : [f EXCEPT !.pc = x] \in Task
  BY DEF Task, Calls
<1>2. \A x \in (SUBSET Models) \cup {None} : [f EXCEPT !.status = x] \in Task
  BY DEF Task
<1>3. \A x \in SUBSET Models : [f EXCEPT !.freed = x] \in Task
  BY DEF Task
<1>4. \A x \in SUBSET Models : [f EXCEPT !.todo = x] \in Task
  BY DEF Task
<1>5. \A x \in Slot \cup {None} : [f EXCEPT !.prev = x] \in Task
  BY DEF Task
<1>6. \A x \in Nat : [f EXCEPT !.credit = x] \in Task
  BY DEF Task
<1>7. \A x \in {"none", "ended", "unknown"} : [f EXCEPT !.why = x] \in Task
  BY DEF Task
<1>8. \A x \in BOOLEAN, y \in Outcomes : Finished(f, x, y) \in Task
  BY DEF Task, Finished, Outcomes
<1>9. \A x \in Models : [f EXCEPT !.id = x] \in Task
  BY DEF Task
<1>10. \A x \in SUBSET Models : [f EXCEPT !.victims = x] \in Task
  BY DEF Task
<1>11. \A x \in Slot \cup {None} : [f EXCEPT !.first = x] \in Task
  BY DEF Task
<1>12. \A x \in BOOLEAN : [f EXCEPT !.inherited = x] \in Task
  BY DEF Task
<1>13. \A x \in Nat : [f EXCEPT !.absent = x] \in Task
  BY DEF Task
<1>14. \A x \in Nat : [f EXCEPT !.after = x] \in Task
  BY DEF Task
<1> QED BY <1>1, <1>2, <1>3, <1>4, <1>5, <1>6, <1>7, <1>8, <1>9, <1>10, <1>11, <1>12,
           <1>13, <1>14

-----------------------------------------------------------------------------
(* What each call of the task changes, field by field                      *)

TaskShape == /\ flow \in Task /\ flow.todo \subseteq flow.victims
             /\ flow.freed \subseteq flow.victims
EngineShape == /\ resident \subseteq Models /\ loading \subseteq Models
               /\ draining \subseteq Models /\ marker \in BOOLEAN

EngineSame == resident' = resident /\ loading' = loading /\ marker' = marker

\* The task goes on, or ends, with the same load.
Moved(pc, freed, prev, status, credit, ok, outcome) ==
  /\ flow' \in Task /\ flow'.todo \subseteq flow.todo
  /\ flow'.id = flow.id /\ flow'.victims = flow.victims
  /\ flow'.first = flow.first /\ flow'.inherited = flow.inherited
  /\ flow'.after = flow.after
  /\ flow'.pc = pc /\ flow'.freed = freed /\ flow'.prev = prev
  /\ flow'.status = status /\ flow'.credit = credit
  /\ flow'.ok = ok /\ flow'.outcome = outcome

GoesTo(pc) == Moved(pc, flow.freed, flow.prev, flow.status, flow.credit, flow.ok, flow.outcome)
EndsAs(ok, outcome) ==
  Moved("done", flow.freed, flow.prev, flow.status, flow.credit, ok, outcome)

\* The fence is cleared, or the clearing failed.
Doubted == marker' \in {marker, FALSE} /\ EndsAs(FALSE, "unconfirmed")
EndsCleared(ok, outcome) == \/ marker' = FALSE /\ EndsAs(ok, outcome)
                            \/ Doubted
\* After a status that shows the load's memory gone.
EndsReleased ==
  marker' = FALSE /\ Moved("done", flow.freed, flow.prev, resident, 0, FALSE, "stopped")

EvictMoves ==
  /\ flow.pc = "evict" /\ EngineSame
  /\ \E freed \in SUBSET flow.victims, pc \in {"evict", "confirmEvict"} :
       Moved(pc, freed, flow.prev, flow.status, flow.credit, flow.ok, flow.outcome)

ConfirmEvictMoves ==
  /\ flow.pc = "confirmEvict" /\ resident' = resident /\ loading' = loading
  /\ \/ /\ Released(flow.victims, flow.after) /\ flow.freed = flow.victims
        /\ marker' = marker
        /\ Moved(IF flow.inherited THEN "verify" ELSE "load", flow.freed, flow.prev,
                 resident, flow.credit, flow.ok, flow.outcome)
     \/ \E freed \in SUBSET flow.victims, status \in {resident, flow.status} :
          /\ \/ Released(flow.victims, flow.after) /\ status = resident
             \/ freed = {} /\ status = flow.status
          /\ \/ /\ marker' = FALSE
                /\ Moved("done", freed, flow.prev, status, flow.credit,
                         FALSE, RejectedOutcome(flow))
             \/ /\ marker' \in {marker, FALSE}
                /\ Moved("done", freed, flow.prev, status, flow.credit,
                         FALSE, "unconfirmed")

VerifyMoves ==
  /\ flow.pc = "verify" /\ resident' = resident /\ loading' = loading
  /\ \/ flow.id \in resident /\ marker' = marker /\ GoesTo("load")
     \/ EndsCleared(FALSE, RejectedOutcome(flow))

AcceptedMoves ==
  /\ resident' = resident /\ loading' = loading \cup {flow.id}
  /\ marker' = marker /\ GoesTo("probe")

RejectedMoves ==
  resident' = resident /\ loading' = loading /\ EndsCleared(FALSE, RejectedOutcome(flow))

OomMoves ==
  /\ \/ resident' \subseteq resident
     \/ (flow.pc = "load" \/ DirtyRetryOom) /\ resident' = resident \cup {flow.id}
  /\ loading' = loading
  /\ IF flow.pc = "load" THEN marker' = marker /\ GoesTo("confirmOom")
     ELSE EndsCleared(FALSE, RejectedOutcome(flow))

\* A postcondition that fails, and an answer that is lost.
LostMoves ==
  /\ \/ /\ resident' \subseteq resident \cup {flow.id} /\ loading' = loading
        /\ flow'.why = "ended"
     \/ /\ resident' = resident /\ loading' \in {loading, loading \cup {flow.id}}
        /\ flow'.why = "unknown"
  /\ marker' = marker /\ GoesTo("cleanup")

LoadMoves ==
  /\ flow.pc \in {"load", "retry"}
  /\ AcceptedMoves \/ RejectedMoves \/ OomMoves \/ LostMoves

ConfirmOomMoves ==
  /\ flow.pc = "confirmOom" /\ resident' = resident /\ loading' = loading
  /\ \/ Released({flow.id}, flow.absent) /\ flow.inherited /\ (EndsReleased \/ Doubted)
     \/ /\ Released({flow.id}, flow.absent) /\ ~flow.inherited
        /\ marker' = marker
        /\ Moved("retry", flow.freed, None, resident, 0, flow.ok, flow.outcome)
     \/ marker' = marker /\ flow'.why = "ended" /\ GoesTo("cleanup")

CleanupMoves ==
  /\ flow.pc = "cleanup" /\ resident' = resident /\ loading' = loading
  /\ IF flow.why = "unknown"
     THEN marker' = marker /\ EndsAs(FALSE, "unconfirmed")
     ELSE \/ marker' = marker /\ GoesTo("confirmCleanup")
          \/ EndsCleared(FALSE, RetainedOutcome(flow))

ConfirmCleanupMoves ==
  /\ flow.pc = "confirmCleanup" /\ resident' = resident /\ loading' = loading
  /\ \/ Released({flow.id}, flow.absent) /\ EndsReleased
     \/ EndsCleared(FALSE, RetainedOutcome(flow))

ProbeMoves ==
  /\ flow.pc = "probe" /\ resident' = resident /\ loading' = loading
  /\ \/ flow.id \in resident \ loading /\ EndsCleared(TRUE, "none")
     \/ marker' = marker /\ flow'.why = "unknown" /\ GoesTo("cleanup")

PanicMoves ==
  /\ flow.pc \in LoadCalls /\ marker' = marker /\ resident' = resident
  /\ \/ loading' = loading
     \/ flow.pc \in {"load", "retry"} /\ loading' = loading \cup {flow.id}
  /\ Moved("done", {}, flow.first, None, 0, FALSE, "unconfirmed")

UnloadMoves ==
  /\ flow.pc = "unload" /\ EngineSame
  /\ GoesTo("confirmUnload") \/ EndsAs(FALSE, "error")

ConfirmUnloadMoves ==
  /\ flow.pc = "confirmUnload" /\ EngineSame
  /\ \/ /\ Released({flow.id}, flow.absent)
        /\ Moved("done", flow.freed, flow.prev, resident, flow.credit, TRUE, "none")
     \/ EndsAs(FALSE, "error")

Moves ==
  \/ EvictMoves \/ ConfirmEvictMoves \/ VerifyMoves \/ LoadMoves \/ ConfirmOomMoves
  \/ CleanupMoves \/ ConfirmCleanupMoves \/ ProbeMoves \/ PanicMoves
  \/ UnloadMoves \/ ConfirmUnloadMoves

LEMMA FinishedFields ==
  ASSUME NEW f \in Task, NEW ok \in BOOLEAN, NEW outcome \in Outcomes
  PROVE  LET g == Finished(f, ok, outcome)
         IN  /\ g \in Task /\ g.todo = f.todo /\ g.id = f.id /\ g.victims = f.victims
             /\ g.first = f.first /\ g.inherited = f.inherited /\ g.after = f.after
             /\ g.pc = "done" /\ g.freed = f.freed /\ g.prev = f.prev
             /\ g.status = f.status /\ g.credit = f.credit
             /\ g.ok = ok /\ g.outcome = outcome
<1>1. Finished(f, ok, outcome) \in Task
  BY Updates
<1> QED BY <1>1 DEF Finished, Task

\* A task that ends from a record of the same load.
LEMMA FinishedMoved ==
  ASSUME NEW h \in Task, h.todo \subseteq flow.todo, h.id = flow.id, h.victims = flow.victims,
         h.first = flow.first, h.inherited = flow.inherited, h.after = flow.after
  PROVE  \A ok \in BOOLEAN, outcome \in Outcomes :
           flow' = Finished(h, ok, outcome) =>
             Moved("done", h.freed, h.prev, h.status, h.credit, ok, outcome)
<1> SUFFICES ASSUME NEW ok \in BOOLEAN, NEW outcome \in Outcomes, flow' = Finished(h, ok, outcome)
             PROVE  Moved("done", h.freed, h.prev, h.status, h.credit, ok, outcome)
  OBVIOUS
<1> DEFINE g == Finished(h, ok, outcome)
<1>1. /\ g \in Task /\ g.todo = h.todo /\ g.id = h.id /\ g.victims = h.victims
      /\ g.first = h.first /\ g.inherited = h.inherited /\ g.after = h.after
      /\ g.pc = "done" /\ g.freed = h.freed /\ g.prev = h.prev
      /\ g.status = h.status /\ g.credit = h.credit /\ g.ok = ok /\ g.outcome = outcome
  BY FinishedFields
<1>2. flow' = g
  OBVIOUS
<1> HIDE DEF g
<1> QED BY <1>1, <1>2 DEF Moved

LEMMA FinishMoves ==
  ASSUME NEW f \in Task, NEW g \in Task, NEW ok \in BOOLEAN, NEW outcome \in Outcomes,
         FinishCleared(f, ok, outcome, g)
  PROVE  \/ marker' = FALSE /\ flow' = Finished(f, ok, outcome)
         \/ marker' \in {marker, FALSE} /\ flow' = Finished(g, FALSE, "unconfirmed")
BY DEF FinishCleared

LEMMA EvictEffect == TaskShape /\ FlowEvict => EvictMoves
<1> SUFFICES ASSUME TaskShape, FlowEvict PROVE EvictMoves
  OBVIOUS
<1>1. PICK v \in flow.todo, ok \in BOOLEAN :
        /\ UnloadCall(v, ok)
        /\ LET todo == flow.todo \ {v}
           IN  flow' = [flow EXCEPT
                         !.todo = todo,
                         !.freed = IF ok THEN @ \cup {v} ELSE @,
                         !.pc = IF todo = {} THEN "confirmEvict" ELSE @]
  BY DEF FlowEvict
<1> DEFINE todo == flow.todo \ {v}
           freed == IF ok THEN flow.freed \cup {v} ELSE flow.freed
           pc == IF todo = {} THEN "confirmEvict" ELSE "evict"
           f1 == [flow EXCEPT !.todo = todo]
           f2 == [f1 EXCEPT !.freed = freed]
           f3 == [f2 EXCEPT !.pc = pc]
<1>2. flow \in Task /\ todo \in SUBSET Models /\ freed \in SUBSET Models /\ pc \in Calls
      /\ freed \in SUBSET flow.victims
  BY DEF TaskShape, Task, Calls, LoadCalls
<1>3. f1 \in Task /\ f2 \in Task /\ f3 \in Task
  <2> HIDE DEF todo, freed, pc
  <2> QED BY <1>2, Updates
<1>4. flow' = f3
  BY <1>1, <1>2 DEF FlowEvict, Task
<1> HIDE DEF todo, freed, pc
<1>5. Moved(pc, freed, flow.prev, flow.status, flow.credit, flow.ok, flow.outcome)
  BY <1>3, <1>4, <1>2 DEF Moved, Task, todo
<1>6. pc \in {"evict", "confirmEvict"}
  BY DEF pc
<1>7. EngineSame
  BY <1>1 DEF FlowEvict, UnloadCall, EngineSame
<1> QED BY <1>2, <1>5, <1>6, <1>7 DEF EvictMoves, FlowEvict

\* A plain change of place, and a plain end.
LEMMA PlainMoves ==
  ASSUME TaskShape
  PROVE  /\ \A x \in Calls : flow' = [flow EXCEPT !.pc = x] => GoesTo(x)
         /\ \A x \in Calls, y \in {"ended", "unknown"} :
              flow' = [flow EXCEPT !.pc = x, !.why = y] => GoesTo(x) /\ flow'.why = y
         /\ \A x \in BOOLEAN, y \in Outcomes :
              flow' = Finished(flow, x, y) => EndsAs(x, y)
         /\ \A x \in BOOLEAN, y \in Outcomes :
              FinishCleared(flow, x, y, flow) => EndsCleared(x, y)
<1> USE DEF TaskShape
<1>1. ASSUME NEW x \in Calls, flow' = [flow EXCEPT !.pc = x] PROVE GoesTo(x)
  <2>1. flow' \in Task
    BY <1>1, Updates
  <2> QED BY <1>1, <2>1 DEF GoesTo, Moved, Task
<1>2. ASSUME NEW x \in Calls, NEW y \in {"ended", "unknown"},
             flow' = [flow EXCEPT !.pc = x, !.why = y]
      PROVE  GoesTo(x) /\ flow'.why = y
  <2>1. [flow EXCEPT !.pc = x] \in Task
    BY Updates
  <2>2. [[flow EXCEPT !.pc = x] EXCEPT !.why = y] \in Task
    BY <2>1, Updates
  <2>3. flow' = [[flow EXCEPT !.pc = x] EXCEPT !.why = y]
    BY <1>2
  <2> QED BY <2>2, <2>3 DEF GoesTo, Moved, Task
<1>3. ASSUME NEW x \in BOOLEAN, NEW y \in Outcomes, flow' = Finished(flow, x, y)
      PROVE  EndsAs(x, y)
  BY <1>3, FinishedFields DEF EndsAs, Moved
<1>4. ASSUME NEW x \in BOOLEAN, NEW y \in Outcomes, FinishCleared(flow, x, y, flow)
      PROVE  EndsCleared(x, y)
  <2>1. "unconfirmed" \in Outcomes /\ FALSE \in BOOLEAN
    BY DEF Outcomes
  <2> QED BY <1>3, <1>4, <2>1, FinishMoves DEF EndsCleared, Doubted
<1> QED BY <1>1, <1>2, <1>3, <1>4

LEMMA OutcomesOf ==
  RejectedOutcome(flow) \in Outcomes /\ RetainedOutcome(flow) \in Outcomes
  /\ "unconfirmed" \in Outcomes /\ "stopped" \in Outcomes
  /\ "error" \in Outcomes /\ "none" \in Outcomes
BY DEF RejectedOutcome, RetainedOutcome, Outcomes

LEMMA ConfirmEvictEffect == TaskShape /\ EngineShape /\ FlowConfirmEvict => ConfirmEvictMoves
<1> SUFFICES ASSUME TaskShape, EngineShape, FlowConfirmEvict PROVE ConfirmEvictMoves
  OBVIOUS
<1> USE DEF TaskShape, EngineShape
<1>1. flow.pc = "confirmEvict" /\ resident' = resident /\ loading' = loading
  BY DEF FlowConfirmEvict, engineVars
<1> DEFINE f == [flow EXCEPT !.status = resident]
           e == [flow EXCEPT !.freed = {}]
<1>2. f \in Task /\ e \in Task /\ {} \in SUBSET flow.victims
  BY Updates
<1>3. /\ f.prev = flow.prev /\ e.prev = flow.prev /\ f.inherited = flow.inherited
      /\ f.status = resident /\ e.status = flow.status
      /\ f.freed = flow.freed /\ e.freed = {}
      /\ f.todo = flow.todo /\ e.todo = flow.todo /\ f.id = flow.id /\ e.id = flow.id
      /\ f.victims = flow.victims /\ e.victims = flow.victims
      /\ f.first = flow.first /\ e.first = flow.first /\ e.inherited = flow.inherited
      /\ f.credit = flow.credit /\ e.credit = flow.credit
      /\ f.ok = flow.ok /\ f.outcome = flow.outcome
      /\ f.after = flow.after /\ e.after = flow.after
  BY DEF Task
<1>4. RejectedOutcome(f) = RejectedOutcome(flow) /\ RejectedOutcome(e) = RejectedOutcome(flow)
  BY <1>3 DEF RejectedOutcome
<1>5. \/ /\ Released(flow.victims, flow.after) /\ flow.freed = flow.victims
         /\ flow' = AfterEviction(f) /\ marker' = marker
      \/ /\ Released(flow.victims, flow.after)
         /\ FinishCleared(f, FALSE, RejectedOutcome(flow), f)
      \/ FinishCleared(e, FALSE, RejectedOutcome(flow), e)
  BY <1>3, <1>4 DEF FlowConfirmEvict
<1> HIDE DEF f, e
<1>6. CASE /\ Released(flow.victims, flow.after) /\ flow.freed = flow.victims
           /\ flow' = AfterEviction(f) /\ marker' = marker
  <2> DEFINE pc == IF flow.inherited THEN "verify" ELSE "load"
  <2>1. flow' = [f EXCEPT !.pc = pc]
    BY <1>6, <1>3 DEF AfterEviction
  <2>2. pc \in Calls
    BY DEF Calls, LoadCalls
  <2> HIDE DEF pc
  <2>3. flow' \in Task
    BY <1>2, <2>1, <2>2, Updates
  <2>4. Moved(pc, flow.freed, flow.prev, resident, flow.credit, flow.ok, flow.outcome)
    BY <1>2, <1>3, <2>1, <2>3 DEF Moved, Task
  <2> QED BY <1>1, <1>6, <2>4 DEF ConfirmEvictMoves, pc
<1>7. ASSUME NEW h \in Task, FinishCleared(h, FALSE, RejectedOutcome(flow), h),
             h.todo = flow.todo, h.id = flow.id, h.victims = flow.victims,
             h.first = flow.first, h.inherited = flow.inherited, h.prev = flow.prev,
             h.credit = flow.credit, h.after = flow.after
      PROVE  \/ /\ marker' = FALSE
                /\ Moved("done", h.freed, flow.prev, h.status, flow.credit,
                         FALSE, RejectedOutcome(flow))
             \/ /\ marker' \in {marker, FALSE}
                /\ Moved("done", h.freed, flow.prev, h.status, flow.credit,
                         FALSE, "unconfirmed")
  <2>1. \A y \in Outcomes : flow' = Finished(h, FALSE, y) =>
          Moved("done", h.freed, flow.prev, h.status, flow.credit, FALSE, y)
    BY <1>7, FinishedMoved
  <2> QED BY <1>7, <2>1, FinishMoves, OutcomesOf
<1>8. CASE /\ Released(flow.victims, flow.after)
           /\ FinishCleared(f, FALSE, RejectedOutcome(flow), f)
  <2>1. flow.freed \in SUBSET flow.victims
    OBVIOUS
  <2>2. \/ /\ marker' = FALSE
           /\ Moved("done", flow.freed, flow.prev, resident, flow.credit,
                    FALSE, RejectedOutcome(flow))
        \/ /\ marker' \in {marker, FALSE}
           /\ Moved("done", flow.freed, flow.prev, resident, flow.credit,
                    FALSE, "unconfirmed")
    BY <1>2, <1>3, <1>7, <1>8
  <2> QED BY <1>1, <1>8, <2>1, <2>2 DEF ConfirmEvictMoves
<1>9. CASE FinishCleared(e, FALSE, RejectedOutcome(flow), e)
  <2>1. \/ /\ marker' = FALSE
           /\ Moved("done", {}, flow.prev, flow.status, flow.credit,
                    FALSE, RejectedOutcome(flow))
        \/ /\ marker' \in {marker, FALSE}
           /\ Moved("done", {}, flow.prev, flow.status, flow.credit,
                    FALSE, "unconfirmed")
    BY <1>2, <1>3, <1>7, <1>9
  <2> QED BY <1>1, <1>2, <2>1 DEF ConfirmEvictMoves
<1> QED BY <1>5, <1>6, <1>8, <1>9

LEMMA LoadEffect == TaskShape /\ EngineShape /\ FlowLoad => LoadMoves
<1> SUFFICES ASSUME TaskShape, EngineShape, FlowLoad PROVE LoadMoves
  OBVIOUS
<1>1. {"probe", "confirmOom", "cleanup"} \subseteq Calls
  BY DEF Calls, LoadCalls
<1>2. CASE LoadAccepted
  BY <1>1, <1>2, PlainMoves DEF LoadAccepted, AcceptedMoves, LoadMoves, FlowLoad
<1>3. CASE LoadRejected
  BY <1>3, PlainMoves, OutcomesOf DEF LoadRejected, RejectedMoves, LoadMoves, FlowLoad, engineVars
<1>4. CASE LoadOom
  BY <1>1, <1>4, PlainMoves, OutcomesOf DEF LoadOom, OomMoves, LoadMoves, FlowLoad
<1>5. CASE LoadPostconditionFailed
  <2>1. GoesTo("cleanup") /\ flow'.why = "ended"
    BY <1>1, <1>5, PlainMoves DEF LoadPostconditionFailed
  <2> QED BY <1>5, <2>1 DEF LoadPostconditionFailed, LostMoves, LoadMoves, FlowLoad
<1>6. CASE LoadTimedOut
  <2>1. GoesTo("cleanup") /\ flow'.why = "unknown"
    BY <1>1, <1>6, PlainMoves DEF LoadTimedOut
  <2> QED BY <1>6, <2>1 DEF LoadTimedOut, LostMoves, LoadMoves, FlowLoad
<1> QED BY <1>2, <1>3, <1>4, <1>5, <1>6 DEF FlowLoad

\* A status that shows the load gone, taken before the task ends or retries.
LEMMA ReleasedMoves ==
  ASSUME TaskShape, EngineShape
  PROVE  LET f == [flow EXCEPT !.status = resident, !.credit = 0]
         IN  /\ FinishCleared(f, FALSE, "stopped", flow) => EndsReleased \/ Doubted
             /\ flow' = [f EXCEPT !.prev = None, !.pc = "retry"] =>
                  Moved("retry", flow.freed, None, resident, 0, flow.ok, flow.outcome)
<1> USE DEF TaskShape, EngineShape
<1> DEFINE s == [flow EXCEPT !.status = resident]
           f == [flow EXCEPT !.status = resident, !.credit = 0]
<1>1. s \in Task /\ f = [s EXCEPT !.credit = 0]
  BY Updates
<1>2. f \in Task
  <2> HIDE DEF s, f
  <2> QED BY <1>1, Updates
<1>3. /\ f.prev = flow.prev /\ f.inherited = flow.inherited
      /\ f.status = resident /\ f.freed = flow.freed
      /\ f.todo = flow.todo /\ f.id = flow.id
      /\ f.victims = flow.victims /\ f.first = flow.first
      /\ f.credit = 0 /\ f.ok = flow.ok /\ f.outcome = flow.outcome
      /\ f.after = flow.after
  BY DEF Task
<1> HIDE DEF f
<1>4. ASSUME FinishCleared(f, FALSE, "stopped", flow) PROVE EndsReleased \/ Doubted
  <2>1. CASE marker' = FALSE /\ flow' = Finished(f, FALSE, "stopped")
    <3>3. Moved("done", flow.freed, flow.prev, resident, 0, FALSE, "stopped")
      BY <1>2, <1>3, <2>1, FinishedMoved, OutcomesOf
    <3> QED BY <2>1, <3>3 DEF EndsReleased
  <2>2. CASE marker' \in {marker, FALSE} /\ flow' = Finished(flow, FALSE, "unconfirmed")
    BY <2>2, PlainMoves, OutcomesOf DEF Doubted
  <2> QED BY <1>4, <2>1, <2>2 DEF FinishCleared
<1>5. ASSUME flow' = [f EXCEPT !.prev = None, !.pc = "retry"]
      PROVE  Moved("retry", flow.freed, None, resident, 0, flow.ok, flow.outcome)
  <2> DEFINE g == [f EXCEPT !.prev = None]
  <2>1. g \in Task /\ flow' = [g EXCEPT !.pc = "retry"]
    BY <1>2, <1>5, Updates
  <2>2. flow' \in Task
    <3> HIDE DEF g
    <3>1. "retry" \in Calls
      BY DEF Calls, LoadCalls
    <3> QED BY <2>1, <3>1, Updates
  <2> QED BY <1>2, <1>3, <1>5, <2>2 DEF Moved, Task
<1> QED BY <1>4, <1>5 DEF f

LEMMA VerifyEffect == TaskShape /\ EngineShape /\ FlowVerify => VerifyMoves
<1>1. "load" \in Calls
  BY DEF Calls, LoadCalls
<1> QED BY <1>1, PlainMoves, OutcomesOf DEF FlowVerify, VerifyMoves, engineVars

LEMMA ConfirmOomEffect == TaskShape /\ EngineShape /\ FlowConfirmOom => ConfirmOomMoves
<1>1. "cleanup" \in Calls
  BY DEF Calls, LoadCalls
<1> QED BY <1>1, PlainMoves, ReleasedMoves DEF FlowConfirmOom, ConfirmOomMoves, engineVars

LEMMA CleanupEffect == TaskShape /\ EngineShape /\ FlowCleanup => CleanupMoves
<1>1. "confirmCleanup" \in Calls
  BY DEF Calls, LoadCalls
<1> QED BY <1>1, PlainMoves, OutcomesOf DEF FlowCleanup, CleanupMoves, UnloadCall, KeepsFence

LEMMA ConfirmCleanupEffect ==
  TaskShape /\ EngineShape /\ FlowConfirmCleanup => ConfirmCleanupMoves
<1> SUFFICES ASSUME TaskShape, EngineShape, FlowConfirmCleanup PROVE ConfirmCleanupMoves
  OBVIOUS
<1>1. \/ Released({flow.id}, flow.absent) /\ (EndsReleased \/ Doubted)
      \/ EndsCleared(FALSE, RetainedOutcome(flow))
  BY PlainMoves, ReleasedMoves, OutcomesOf DEF FlowConfirmCleanup
<1> QED BY <1>1 DEF FlowConfirmCleanup, ConfirmCleanupMoves, EndsCleared, engineVars

LEMMA ProbeEffect == TaskShape /\ EngineShape /\ FlowProbe => ProbeMoves
<1>1. "cleanup" \in Calls
  BY DEF Calls, LoadCalls
<1> QED BY <1>1, PlainMoves, OutcomesOf DEF FlowProbe, ProbeMoves, engineVars

LEMMA PanicEffect == TaskShape /\ EngineShape /\ FlowPanic => PanicMoves
<1> SUFFICES ASSUME TaskShape, EngineShape, FlowPanic PROVE PanicMoves
  OBVIOUS
<1> USE DEF TaskShape
<1> DEFINE f1 == [flow EXCEPT !.freed = {}]
           f2 == [f1 EXCEPT !.status = None]
           f3 == [f2 EXCEPT !.credit = 0]
           f4 == [f3 EXCEPT !.prev = flow.first]
<1>1. flow' = Finished(f4, FALSE, "unconfirmed")
  BY DEF FlowPanic
<1>2. flow.first \in Slot \cup {None}
  BY DEF Task
<1>3. f1 \in Task
  BY Updates
<1>4. f2 \in Task
  <2> HIDE DEF f1
  <2> QED BY <1>3, Updates
<1>5. f3 \in Task
  <2> HIDE DEF f2
  <2> QED BY <1>4, Updates
<1>6. f4 \in Task
  <2> HIDE DEF f3
  <2> QED BY <1>2, <1>5, Updates
<1>7. /\ f4.prev = flow.first /\ f4.inherited = flow.inherited
      /\ f4.status = None /\ f4.freed = {}
      /\ f4.todo = flow.todo /\ f4.id = flow.id
      /\ f4.victims = flow.victims /\ f4.first = flow.first
      /\ f4.credit = 0 /\ f4.after = flow.after
  BY DEF Task
<1> HIDE DEF f4
<1>10. Moved("done", {}, flow.first, None, 0, FALSE, "unconfirmed")
  BY <1>1, <1>6, <1>7, FinishedMoved, OutcomesOf
<1> QED BY <1>10 DEF FlowPanic, CallOnTheWire, PanicMoves, LoadCalls

LEMMA UnloadEffect == TaskShape /\ EngineShape /\ FlowUnload => UnloadMoves
<1>1. "confirmUnload" \in Calls
  BY DEF Calls, UnloadCalls
<1> QED BY <1>1, PlainMoves, OutcomesOf DEF FlowUnload, UnloadMoves, UnloadCall, EngineSame

LEMMA ConfirmUnloadEffect ==
  TaskShape /\ EngineShape /\ FlowConfirmUnload => ConfirmUnloadMoves
<1> SUFFICES ASSUME TaskShape, EngineShape, FlowConfirmUnload PROVE ConfirmUnloadMoves
  OBVIOUS
<1> USE DEF TaskShape, EngineShape
<1> DEFINE f == [flow EXCEPT !.status = resident]
<1>1. f \in Task
  BY Updates
<1>2. /\ f.prev = flow.prev /\ f.inherited = flow.inherited
      /\ f.status = resident /\ f.freed = flow.freed
      /\ f.todo = flow.todo /\ f.id = flow.id
      /\ f.victims = flow.victims /\ f.first = flow.first
      /\ f.credit = flow.credit /\ f.after = flow.after
  BY DEF Task
<1>3. \/ Released({flow.id}, flow.absent) /\ flow' = Finished(f, TRUE, "none")
      \/ EndsAs(FALSE, "error")
  BY PlainMoves, OutcomesOf DEF FlowConfirmUnload
<1> HIDE DEF f
<1>4. ASSUME flow' = Finished(f, TRUE, "none")
      PROVE  Moved("done", flow.freed, flow.prev, resident, flow.credit, TRUE, "none")
  BY <1>1, <1>2, <1>4, FinishedMoved, OutcomesOf
<1> QED BY <1>3, <1>4 DEF FlowConfirmUnload, ConfirmUnloadMoves, EngineSame, engineVars

\* The calls together.
LEMMA TaskEffect ==
  ASSUME TaskShape, EngineShape, FlowStep
  PROVE  Moves /\ UNCHANGED <<actorVars, running, boundVars>>
BY TaskQuiet, EvictEffect, ConfirmEvictEffect, VerifyEffect, LoadEffect, ConfirmOomEffect,
   CleanupEffect, ConfirmCleanupEffect, ProbeEffect, PanicEffect, UnloadEffect,
   ConfirmUnloadEffect
   DEF FlowStep, Moves

LEMMA NoFlowFields ==
  /\ NoFlow \in Task /\ NoFlow.pc = "idle" /\ NoFlow.victims = {} /\ NoFlow.todo = {}
  /\ NoFlow.freed = {} /\ NoFlow.prev = None /\ NoFlow.first = None
  /\ NoFlow.inherited = FALSE /\ NoFlow.status = None /\ NoFlow.credit = 0
  /\ NoFlow.ok = FALSE /\ NoFlow.outcome = "none" /\ NoFlow.id = None
<1> QED BY DEF NoFlow, Task

\* The task of an unload, when its call may be made.
Unloading(id) ==
  /\ flow' \in Task /\ flow'.pc = "unload" /\ flow'.id = id /\ flow'.victims = {}
  /\ flow'.todo = {} /\ flow'.freed = {} /\ flow'.prev = None /\ flow'.first = None
  /\ flow'.inherited = FALSE /\ flow'.status = None /\ flow'.ok = FALSE
  /\ flow'.outcome = "none"

LEMMA UnloadFlowFields ==
  ASSUME NEW s \in [Models -> Slot], NEW id \in Models, TypeOK, flow' = UnloadFlow(s, id)
  PROVE  Unloading(id)
<1> DEFINE n == Total(Mems(s), Charged(s) \ {id}) + ReservedExcept(s, reserved, covered, {id})
           f1 == [NoFlow EXCEPT !.pc = "unload"]
           f2 == [f1 EXCEPT !.id = id]
           f3 == [f2 EXCEPT !.absent = n]
<1>1. n \in Nat
  <2>1. Charged(s) \ {id} \in SUBSET Models /\ {id} \in SUBSET Models
    BY DEF Charged
  <2>2. covered \in [Models -> Nat] /\ reserved \in Nat
    BY DEF TypeOK
  <2>3. Total(Mems(s), Charged(s) \ {id}) \in Nat
    BY <2>1, <2>2, NumbersOf
  <2>4. ReservedExcept(s, reserved, covered, {id}) \in Nat
    BY <2>1, <2>2, NumbersOf
  <2> QED BY <2>3, <2>4
<1>2. flow' = f3
  BY DEF UnloadFlow
<1> HIDE DEF n
<1>3. f1 \in Task
  BY NoFlowFields, Updates DEF Calls, UnloadCalls
<1>4. f2 \in Task
  <2> HIDE DEF f1
  <2> QED BY <1>3, Updates
<1>5. f3 \in Task
  <2> HIDE DEF f2
  <2> QED BY <1>1, <1>4, Updates
<1> QED BY <1>2, <1>3, <1>5, NoFlowFields DEF Unloading, Task

-----------------------------------------------------------------------------
(* What the actor's own steps change, field by field                       *)

PrevOf(slot) == IF Occupies(slot.state) THEN slot ELSE None

\* A load is admitted: its slot, its victims, the claim and the task.
Loading(id, policy, mem, victims) ==
  /\ MayLoad(id, policy) /\ ~marker /\ marker' = TRUE
  /\ \A v \in victims : v \in Models \ {id}
  /\ victims \in LoadPlans(id, mem)
  /\ flow' \in Task /\ flow'.id = id /\ flow'.victims = victims /\ flow'.todo = victims
  /\ flow'.freed = {} /\ flow'.prev = PrevOf(slots[id]) /\ flow'.first = PrevOf(slots[id])
  /\ flow'.inherited = (slots[id].inherited /\ PrevOf(slots[id]) # None)
  /\ flow'.status = None /\ flow'.ok = FALSE /\ flow'.outcome = "none"
  /\ flow'.credit = (IF PrevOf(slots[id]) = None THEN 0 ELSE PrevOf(slots[id]).mem)
  /\ flow'.after = Total(Mems(slots'), Charged(slots') \ (victims \cup {id}))
                   + Reservation(slots', reserved, covered) + flow'.credit
  /\ flow'.pc = (IF victims # {} THEN "evict" ELSE IF flow'.inherited THEN "verify" ELSE "load")
  /\ slots' \in [Models -> Slot]
  /\ slots'[id] = [slots[id] EXCEPT !.mem = RequestCharge(id, mem), !.state = "Loading",
                                    !.policy = policy, !.inflight = 0, !.unconfirmed = FALSE]
  /\ \A v \in victims : slots'[v] = [slots[v] EXCEPT !.state = "Stopping"]
  /\ \A m \in Models \ (victims \cup {id}) : slots'[m] = slots[m]
  /\ claim' = Held(claim, Reservation(slots, reserved, covered) + RequestCharge(id, mem)
                          + Total(Mems(slots'), Charged(slots') \ (victims \cup {id})))
  /\ claim' \in Nat
  /\ op' \in Operation /\ op'.kind = "load" /\ op'.id = id /\ op'.policy = policy
  /\ op'.started /\ \A w \in op'.waiters : w.policy = policy
  /\ ops' = ops + 1
  /\ UNCHANGED <<up, lru, reserved, covered, poisoned, breach, engineVars, running, crashes>>

LEMMA ChargeIs ==
  ASSUME TypeOK, NEW id \in Models, NEW mem \in Estimates[id]
  PROVE  RequestCharge(id, mem) \in Nat /\ RequestCharge(id, mem) <= mem /\ mem \in Nat
         /\ Size[id] <= mem
         /\ (~slots[id].inherited => RequestCharge(id, mem) = mem)
<1>1. mem \in Nat /\ mem >= Size[id]
  BY SupervisorAssumption
<1>2. Size[id] \in Nat /\ mem \in Nat /\ Size[id] <= mem
  BY <1>1, SupervisorAssumption
<1>3. Reservation(slots, reserved, covered) \in Nat
  BY NumbersOf DEF TypeOK
<1> QED BY <1>2, <1>3 DEF RequestCharge, AtLeast0

LEMMA LoadingEffect ==
  ASSUME TypeOK, NEW c \in Callers, NEW id \in Models, NEW policy \in Policies,
         NEW mem \in Estimates[id], StartLoad(c, id, policy, mem)
  PROVE  \E victims \in SUBSET Models : Loading(id, policy, mem, victims)
<1> DEFINE charge == RequestCharge(id, mem)
           old == slots[id]
           prev == PrevOf(old)
           S(victims) == [m \in Models |->
                        IF m = id
                        THEN [old EXCEPT !.mem = charge, !.state = "Loading",
                                         !.policy = policy, !.inflight = 0,
                                         !.unconfirmed = FALSE]
                        ELSE IF m \in victims
                        THEN [slots[m] EXCEPT !.state = "Stopping"]
                        ELSE slots[m]]
           others(victims) == Total(Mems(S(victims)), Charged(S(victims)) \ (victims \cup {id}))
           rest(victims) == Reservation(S(victims), reserved, covered)
           credit == IF prev = None THEN 0 ELSE prev.mem
<1>1. PICK victims \in LoadPlans(id, mem) :
        /\ slots' = S(victims)
        /\ claim' = Held(claim, Reservation(slots, reserved, covered) + charge + others(victims))
        /\ LET f == [NoFlow EXCEPT
                       !.id = id, !.victims = victims, !.todo = victims,
                       !.prev = prev, !.first = prev, !.inherited = old.inherited /\ prev # None,
                       !.absent = others(victims) + rest(victims),
                       !.after = others(victims) + rest(victims) + credit,
                       !.credit = credit]
           IN  flow' = IF victims = {} THEN AfterEviction(f) ELSE [f EXCEPT !.pc = "evict"]
  BY DEF StartLoad, PrevOf
<1>2. \A v \in victims : v \in Models \ {id}
  BY VictimsOf
<1>3. victims \in SUBSET Models
  BY <1>2
<1>4. charge \in Nat /\ mem \in Nat
  BY ChargeIs
<1>5. old \in Slot /\ prev \in Slot \cup {None} /\ credit \in Nat /\ old.inherited \in BOOLEAN
  <2>1. old \in Slot
    BY DEF TypeOK
  <2> QED BY <2>1 DEF PrevOf, Slot
<1>6. [old EXCEPT !.mem = charge, !.state = "Loading", !.policy = policy,
                  !.inflight = 0, !.unconfirmed = FALSE] \in Slot
  BY <1>4, <1>5 DEF Slot, ModelState
<1>7. \A m \in Models : [slots[m] EXCEPT !.state = "Stopping"] \in Slot
  BY DEF TypeOK, Slot, ModelState
<1>8. S(victims) \in [Models -> Slot]
  BY <1>6, <1>7 DEF TypeOK
<1>9. /\ others(victims) \in Nat /\ rest(victims) \in Nat
      /\ Reservation(slots, reserved, covered) \in Nat
  <2>1. Charged(S(victims)) \ (victims \cup {id}) \in SUBSET Models
    BY DEF Charged
  <2>2. covered \in [Models -> Nat] /\ reserved \in Nat /\ slots \in [Models -> Slot]
    BY DEF TypeOK
  <2> HIDE DEF S
  <2> QED BY <1>8, <2>1, <2>2, NumbersOf
<1>10. claim \in Nat /\ claim' \in Nat
  <2> HIDE DEF others
  <2> QED BY <1>1, <1>4, <1>9 DEF TypeOK, Held, Larger
<1>11. /\ flow' \in Task /\ flow'.id = id /\ flow'.victims = victims /\ flow'.todo = victims
       /\ flow'.freed = {} /\ flow'.prev = prev /\ flow'.first = prev
       /\ flow'.inherited = (old.inherited /\ prev # None)
       /\ flow'.status = None /\ flow'.ok = FALSE /\ flow'.outcome = "none"
       /\ flow'.credit = credit
       /\ flow'.after = others(victims) + rest(victims) + credit
       /\ flow'.pc = (IF victims # {} THEN "evict" ELSE IF flow'.inherited THEN "verify" ELSE "load")
  <2> DEFINE inh == old.inherited /\ prev # None
             ab == others(victims) + rest(victims)
             af == others(victims) + rest(victims) + credit
             f1 == [NoFlow EXCEPT !.id = id]
             f2 == [f1 EXCEPT !.victims = victims]
             f3 == [f2 EXCEPT !.todo = victims]
             f4 == [f3 EXCEPT !.prev = prev]
             f5 == [f4 EXCEPT !.first = prev]
             f6 == [f5 EXCEPT !.inherited = inh]
             f7 == [f6 EXCEPT !.absent = ab]
             f8 == [f7 EXCEPT !.after = af]
             f9 == [f8 EXCEPT !.credit = credit]
             pc == IF victims # {} THEN "evict" ELSE IF inh THEN "verify" ELSE "load"
             f10 == [f9 EXCEPT !.pc = pc]
  <2>1. inh \in BOOLEAN /\ ab \in Nat /\ af \in Nat
    <3> HIDE DEF others, rest, credit
    <3> QED BY <1>5, <1>9
  <2>2. flow' = f10
    <3> HIDE DEF others, rest, credit, prev, old
    <3> QED BY <1>1 DEF AfterEviction, NoFlow
  <2> HIDE DEF others, rest, credit, prev, old, inh, ab, af
  <2>3. pc \in Calls
    BY DEF Calls, LoadCalls
  <2>4. f1 \in Task
    BY NoFlowFields, Updates
  <2>5. f2 \in Task
    <3> HIDE DEF f1
    <3> QED BY <1>3, <2>4, Updates
  <2>6. f3 \in Task
    <3> HIDE DEF f2
    <3> QED BY <1>3, <2>5, Updates
  <2>7. f4 \in Task
    <3> HIDE DEF f3
    <3> QED BY <1>5, <2>6, Updates
  <2>8. f5 \in Task
    <3> HIDE DEF f4
    <3> QED BY <1>5, <2>7, Updates
  <2>9. f6 \in Task
    <3> HIDE DEF f5
    <3> QED BY <2>1, <2>8, Updates
  <2>10. f7 \in Task
    <3> HIDE DEF f6
    <3> QED BY <2>1, <2>9, Updates
  <2>11. f8 \in Task
    <3> HIDE DEF f7
    <3> QED BY <2>1, <2>10, Updates
  <2>12. f9 \in Task
    <3> HIDE DEF f8
    <3> QED BY <1>5, <2>11, Updates
  <2>13. f10 \in Task
    <3> HIDE DEF f9, pc
    <3> QED BY <2>3, <2>12, Updates
  <2>14. /\ f10.id = id /\ f10.victims = victims /\ f10.todo = victims
         /\ f10.freed = {} /\ f10.prev = prev /\ f10.first = prev
         /\ f10.inherited = inh
         /\ f10.status = None /\ f10.ok = FALSE /\ f10.outcome = "none"
         /\ f10.credit = credit /\ f10.after = af /\ f10.pc = pc
    BY DEF NoFlow
  <2>15. inh = (old.inherited /\ prev # None) /\ af = others(victims) + rest(victims) + credit
    BY DEF inh, af
  <2> HIDE DEF f10
  <2> QED BY <2>2, <2>13, <2>14, <2>15
<1>12. /\ op' \in Operation /\ op'.kind = "load" /\ op'.id = id /\ op'.policy = policy
       /\ op'.started /\ \A w \in op'.waiters : w.policy = policy
  BY <1>4 DEF StartLoad, Operation, Waiter
<1>13. /\ slots'[id] = [slots[id] EXCEPT !.mem = charge, !.state = "Loading",
                          !.policy = policy, !.inflight = 0, !.unconfirmed = FALSE]
       /\ \A v \in victims : slots'[v] = [slots[v] EXCEPT !.state = "Stopping"]
       /\ \A m \in Models \ (victims \cup {id}) : slots'[m] = slots[m]
  BY <1>1, <1>2
<1>14. claim' = Held(claim, Reservation(slots, reserved, covered) + charge
                          + Total(Mems(slots'), Charged(slots') \ (victims \cup {id})))
  <2> HIDE DEF S
  <2> QED BY <1>1
<1>15. /\ slots' \in [Models -> Slot]
       /\ flow'.after = Total(Mems(slots'), Charged(slots') \ (victims \cup {id}))
                        + Reservation(slots', reserved, covered) + flow'.credit
  <2> HIDE DEF S
  <2> QED BY <1>1, <1>8, <1>11
<1>16. /\ MayLoad(id, policy) /\ ~marker /\ marker' = TRUE /\ ops' = ops + 1
       /\ UNCHANGED <<up, lru, reserved, covered, poisoned, breach, engineVars, running, crashes>>
  BY DEF StartLoad
<1> HIDE DEF S, others, rest
<1>17. Loading(id, policy, mem, victims)
  BY <1>2, <1>10, <1>11, <1>12, <1>13, <1>14, <1>15, <1>16 DEF Loading
<1> QED BY <1>3, <1>17

-----------------------------------------------------------------------------
(* Which task and which slots an operation owns                            *)

Loads == op # None /\ op.kind = "load"
Unloads == op # None /\ op.kind = "unload"

\* The operation in flight and the background task are the same work.
TaskOfOp ==
  /\ flow.pc = "idle" => flow = NoFlow
  /\ flow.pc # "idle" => flow.id \in Models /\ flow.id \notin flow.victims
  /\ up # "up" => op = None /\ slots = [m \in Models |-> NoSlot] /\ ~poisoned
  /\ poisoned => op = None
  /\ Loads => op.started /\ \A w \in op.waiters : w.policy = op.policy
  /\ up = "up" => (flow.pc # "idle" <=> op # None /\ op.started)
  /\ up = "up" /\ flow.pc # "idle" => flow.id = op.id
  /\ up = "up" /\ flow.pc \in LoadCalls => op.kind = "load"
  /\ up = "up" /\ flow.pc \in UnloadCalls => op.kind = "unload"
  /\ Unloads => /\ flow.victims = {} /\ ~flow.inherited
                /\ flow.prev = None /\ flow.first = None

\* A slot is charged for what it may take, unless the aggregate adopted at
\* start-up already pays for it.
SlotRule(id, s) ==
  /\ Occupies(s.state) /\ ~s.inherited => Size[id] <= s.mem
  /\ s.inherited => Occupies(s.state)
  /\ s.unconfirmed => s.state = "Error"

\* The slots in transit are those of the operation; nothing else owns them.
SlotsOfOp ==
  /\ \A m \in Models : SlotRule(m, slots[m])
  /\ \A m \in Models : slots[m].state \in {"Launching", "Loading", "Stopping"} =>
       op # None /\ m \in {op.id} \cup flow.victims
  /\ op # None =>
       /\ slots[op.id].state = (IF op.kind = "load" THEN "Loading" ELSE "Stopping")
       /\ ~slots[op.id].unconfirmed
       /\ Loads => /\ slots[op.id].policy = op.policy
                   /\ slots[op.id].inherited = flow.inherited
       /\ \A v \in flow.victims : /\ slots[v].state = "Stopping"
                                  /\ ~slots[v].unconfirmed /\ ~slots[v].inherited

\* What a load knows of the instance it replaces.
Earlier(p) ==
  p # None => /\ p.state \in {"Ready", "Error"} /\ ~p.unconfirmed
              /\ p.inherited = flow.inherited
              /\ SlotRule(flow.id, p)

Past ==
  /\ Earlier(flow.first)
  /\ flow.prev \in {flow.first, None}
  /\ flow.inherited => flow.prev # None
  /\ flow.pc \in {"evict", "confirmEvict", "verify", "load", "confirmOom"} =>
       flow.prev = flow.first
  /\ flow.pc = "retry" => flow.prev = None
  /\ flow.pc = "verify" => flow.inherited
  /\ flow.pc = "done" /\ ~flow.ok =>
       /\ flow.outcome # "none"
       /\ flow.outcome \in {"restore", "retainError"} => flow.prev # None
       /\ up = "up" /\ op.kind = "unload" => flow.outcome = "error"

Owned == Shape /\ TaskOfOp /\ SlotsOfOp /\ Past

\* What all calls have in common.
LEMMA MovesKeep ==
  ASSUME Moves
  PROVE  /\ flow' \in Task /\ flow'.todo \subseteq flow.todo
         /\ flow'.id = flow.id /\ flow'.victims = flow.victims
         /\ flow'.first = flow.first /\ flow'.inherited = flow.inherited
         /\ flow'.after = flow.after
         /\ flow.pc \in LoadCalls \cup UnloadCalls
         /\ flow.pc \in LoadCalls => flow'.pc \in LoadCalls \cup {"done"}
         /\ flow.pc \in UnloadCalls => flow'.pc \in UnloadCalls \cup {"done"}
<1> USE DEF Moved, LoadCalls, UnloadCalls, GoesTo, EndsAs, EndsCleared, Doubted, EndsReleased
<1>1. CASE EvictMoves BY <1>1 DEF EvictMoves
<1>2. CASE ConfirmEvictMoves BY <1>2 DEF ConfirmEvictMoves
<1>3. CASE VerifyMoves BY <1>3 DEF VerifyMoves
<1>4. CASE LoadMoves
  BY <1>4 DEF LoadMoves, AcceptedMoves, RejectedMoves, OomMoves, LostMoves
<1>5. CASE ConfirmOomMoves BY <1>5 DEF ConfirmOomMoves
<1>6. CASE CleanupMoves BY <1>6 DEF CleanupMoves
<1>7. CASE ConfirmCleanupMoves BY <1>7 DEF ConfirmCleanupMoves
<1>8. CASE ProbeMoves BY <1>8 DEF ProbeMoves
<1>9. CASE PanicMoves BY <1>9 DEF PanicMoves
<1>10. CASE UnloadMoves BY <1>10 DEF UnloadMoves
<1>11. CASE ConfirmUnloadMoves BY <1>11 DEF ConfirmUnloadMoves
<1> QED BY <1>1, <1>2, <1>3, <1>4, <1>5, <1>6, <1>7, <1>8, <1>9, <1>10, <1>11 DEF Moves

LEMMA PastMoves == Past /\ TaskOfOp /\ Moves /\ up' = up /\ op' = op => Past'
<1> SUFFICES ASSUME Past, TaskOfOp, Moves, up' = up, op' = op PROVE Past'
  OBVIOUS
<1>1. /\ flow'.id = flow.id /\ flow'.first = flow.first /\ flow'.inherited = flow.inherited
  BY MovesKeep
<1>2. Earlier(flow.first)' /\ Earlier(flow.prev)
  BY <1>1 DEF Past, Earlier, SlotRule
<1> USE DEF Past, Moved, GoesTo, EndsAs, EndsCleared, Doubted, EndsReleased,
            RejectedOutcome, RetainedOutcome
<1>3. flow.pc \in LoadCalls /\ up = "up" => op.kind # "unload"
  BY DEF TaskOfOp
<1> USE DEF LoadCalls
<1>4. CASE EvictMoves BY <1>4, <1>1, <1>2, <1>3 DEF EvictMoves
<1>5. CASE ConfirmEvictMoves BY <1>5, <1>1, <1>2, <1>3 DEF ConfirmEvictMoves
<1>6. CASE VerifyMoves BY <1>6, <1>1, <1>2, <1>3 DEF VerifyMoves
<1>7. CASE LoadMoves
  <2>1. CASE AcceptedMoves BY <1>7, <2>1, <1>1, <1>2, <1>3 DEF AcceptedMoves, LoadMoves
  <2>2. CASE RejectedMoves BY <1>7, <2>2, <1>1, <1>2, <1>3 DEF RejectedMoves, LoadMoves
  <2>3. CASE OomMoves BY <1>7, <2>3, <1>1, <1>2, <1>3 DEF OomMoves, LoadMoves
  <2>4. CASE LostMoves BY <1>7, <2>4, <1>1, <1>2, <1>3 DEF LostMoves, LoadMoves
  <2> QED BY <1>7, <2>1, <2>2, <2>3, <2>4 DEF LoadMoves
<1>8. CASE ConfirmOomMoves BY <1>8, <1>1, <1>2, <1>3 DEF ConfirmOomMoves
<1>9. CASE CleanupMoves BY <1>9, <1>1, <1>2, <1>3 DEF CleanupMoves
<1>10. CASE ConfirmCleanupMoves BY <1>10, <1>1, <1>2, <1>3 DEF ConfirmCleanupMoves
<1>11. CASE ProbeMoves BY <1>11, <1>1, <1>2, <1>3 DEF ProbeMoves
<1>12. CASE PanicMoves BY <1>12, <1>1, <1>2, <1>3 DEF PanicMoves
<1>13. CASE UnloadMoves BY <1>13, <1>1, <1>2 DEF UnloadMoves
<1>14. CASE ConfirmUnloadMoves BY <1>14, <1>1, <1>2 DEF ConfirmUnloadMoves
<1> QED BY <1>4, <1>5, <1>6, <1>7, <1>8, <1>9, <1>10, <1>11, <1>12, <1>13, <1>14 DEF Moves

LEMMA MovesEngine ==
  ASSUME EngineShape, flow.id \in Models, Moves
  PROVE  resident' \subseteq Models /\ loading' \subseteq Models /\ marker' \in BOOLEAN
<1> USE DEF EngineShape, EngineSame, EndsCleared, Doubted, EndsReleased
<1>1. CASE EvictMoves BY <1>1 DEF EvictMoves
<1>2. CASE ConfirmEvictMoves BY <1>2 DEF ConfirmEvictMoves
<1>3. CASE VerifyMoves BY <1>3 DEF VerifyMoves
<1>4. CASE LoadMoves
  BY <1>4 DEF LoadMoves, AcceptedMoves, RejectedMoves, OomMoves, LostMoves
<1>5. CASE ConfirmOomMoves BY <1>5 DEF ConfirmOomMoves
<1>6. CASE CleanupMoves BY <1>6 DEF CleanupMoves
<1>7. CASE ConfirmCleanupMoves BY <1>7 DEF ConfirmCleanupMoves
<1>8. CASE ProbeMoves BY <1>8 DEF ProbeMoves
<1>9. CASE PanicMoves BY <1>9 DEF PanicMoves
<1>10. CASE UnloadMoves BY <1>10 DEF UnloadMoves
<1>11. CASE ConfirmUnloadMoves BY <1>11 DEF ConfirmUnloadMoves
<1> QED BY <1>1, <1>2, <1>3, <1>4, <1>5, <1>6, <1>7, <1>8, <1>9, <1>10, <1>11 DEF Moves

LEMMA StepDraining ==
  ASSUME EngineShape, FlowStep
  PROVE  draining' \subseteq Models
BY DEF FlowStep, EngineShape, FlowEvict, FlowConfirmEvict, FlowVerify, FlowLoad, FlowConfirmOom,
       FlowCleanup, FlowConfirmCleanup, FlowProbe, FlowPanic, FlowUnload, FlowConfirmUnload,
       UnloadCall, CallOnTheWire, LoadAccepted, LoadRejected, LoadOom,
       LoadPostconditionFailed, LoadTimedOut, engineVars

\* The parts of the state that have a type only.
LEMMA ShapeParts ==
  Shape => /\ TaskShape /\ EngineShape /\ slots \in [Models -> Slot]
           /\ reserved \in Nat /\ covered \in [Models -> Nat] /\ claim \in Nat
           /\ running \in [Models -> Nat] /\ lru \in Seq(Models)
           /\ ops \in Nat /\ crashes \in Nat /\ poisoned \in BOOLEAN /\ breach \in BOOLEAN
BY DEF Shape, TypeOK, TaskShape, EngineShape

LEMMA ActorShape ==
  ASSUME TypeOK, flow' \in Task, flow'.todo \subseteq flow'.victims,
         flow'.freed \subseteq flow'.victims, op' \in Operation \cup {None},
         up' \in {"up", "failed", "down"}, slots' \in [Models -> Slot], lru' \in Seq(Models),
         reserved' \in Nat, claim' \in Nat, ops' \in Nat, crashes' \in Nat,
         covered' \in [Models -> Nat], running' \in [Models -> Nat],
         poisoned' \in BOOLEAN, breach' \in BOOLEAN, EngineShape'
  PROVE  Shape'
BY DEF Shape, TypeOK, EngineShape, Task

LEMMA FreedMoves == TaskShape /\ Moves => flow'.freed \subseteq flow'.victims
BY DEF TaskShape, Moves, EvictMoves, ConfirmEvictMoves, VerifyMoves, LoadMoves,
       AcceptedMoves, RejectedMoves, OomMoves, LostMoves, ConfirmOomMoves,
       CleanupMoves, ConfirmCleanupMoves, ProbeMoves, PanicMoves,
       UnloadMoves, ConfirmUnloadMoves, Moved, GoesTo, EndsAs, EndsCleared, Doubted, EndsReleased

LEMMA OwnedTask == Owned /\ FlowStep => Owned'
<1> SUFFICES ASSUME Owned, FlowStep PROVE Owned'
  OBVIOUS
<1>1. Moves /\ UNCHANGED <<actorVars, running, boundVars>>
  BY ShapeParts, TaskEffect DEF Owned
<1>2. /\ flow' \in Task /\ flow'.todo \subseteq flow.todo
      /\ flow'.id = flow.id /\ flow'.victims = flow.victims
      /\ flow'.first = flow.first /\ flow'.inherited = flow.inherited
      /\ flow.pc \in LoadCalls \cup UnloadCalls
      /\ flow.pc \in LoadCalls => flow'.pc \in LoadCalls \cup {"done"}
      /\ flow.pc \in UnloadCalls => flow'.pc \in UnloadCalls \cup {"done"}
  BY <1>1, MovesKeep
<1>3. flow.id \in Models /\ flow.pc # "idle" /\ flow'.pc # "idle"
  BY <1>2 DEF Owned, TaskOfOp, LoadCalls, UnloadCalls
<1>4. Past'
  BY <1>1, PastMoves DEF Owned, actorVars
<1>5. EngineShape'
  BY <1>1, <1>3, MovesEngine, StepDraining, ShapeParts DEF Owned, EngineShape
<1>6. Shape'
  <2>1. flow'.freed \subseteq flow'.victims
    BY <1>1, FreedMoves, ShapeParts DEF Owned
  <2>2. UNCHANGED <<up, slots, lru, op, reserved, covered, claim, poisoned, breach, running, ops, crashes>>
    BY <1>1 DEF actorVars, boundVars
  <2> QED BY <1>2, <1>5, <2>1, <2>2, ActorShape, ShapeParts DEF Owned, Shape, TypeOK
<1>7. TaskOfOp'
  <2>1. op # None /\ op.kind = "unload" /\ up = "up" => flow.pc \in UnloadCalls
    BY <1>2 DEF Owned, TaskOfOp
  <2>2. op # None => up = "up"
    BY DEF Owned, TaskOfOp, Shape, TypeOK
  <2>3. Unloads => flow'.prev = None
    BY <1>4, <1>2 DEF Owned, TaskOfOp, Past
  <2> QED BY <1>1, <1>2, <1>3, <2>1, <2>2, <2>3 DEF Owned, TaskOfOp, actorVars, Loads, Unloads, LoadCalls,
      UnloadCalls
<1>8. SlotsOfOp'
  BY <1>1, <1>2 DEF Owned, SlotsOfOp, SlotRule, Loads, actorVars
<1> QED BY <1>4, <1>6, <1>7, <1>8 DEF Owned

LEMMA OwnedLoading ==
  ASSUME Owned, NEW id \in Models, NEW policy \in Policies, NEW mem \in Estimates[id],
         NEW victims \in SUBSET Models, Loading(id, policy, mem, victims)
  PROVE  Owned'
<1> DEFINE prev == PrevOf(slots[id])
<1>1. /\ Serving /\ op = None /\ ~slots[id].unconfirmed
      /\ up' = up /\ poisoned' = poisoned /\ up = "up" /\ ~poisoned
  BY DEF Loading, MayLoad, Serving
<1>2. slots[id] \in Slot /\ \A m \in Models : slots[m] \in Slot
  BY ShapeParts DEF Owned
<1>3. \A m \in Models : slots[m].state \notin {"Launching", "Loading", "Stopping"}
                        /\ SlotRule(m, slots[m])
  BY <1>1 DEF Owned, SlotsOfOp
<1>4. prev # None => prev = slots[id] /\ prev.state \in {"Ready", "Error"}
  BY <1>2, <1>3 DEF PrevOf, Occupies, Slot, ModelState
<1>5. slots[id].inherited => prev # None
  BY <1>2, <1>3, NoneAssumption DEF PrevOf, SlotRule
<1>6. flow'.inherited = slots[id].inherited
  BY <1>2, <1>5 DEF Loading, Slot
<1>7. /\ slots'[id].state = "Loading" /\ slots'[id].mem = RequestCharge(id, mem)
      /\ slots'[id].policy = policy /\ slots'[id].inflight = 0
      /\ slots'[id].unconfirmed = FALSE /\ slots'[id].inherited = slots[id].inherited
  BY <1>2 DEF Loading, Slot
<1>8. \A v \in victims :
        /\ v \in Models \ {id} /\ slots[v].state \in {"Ready", "Error"}
        /\ ~slots[v].unconfirmed /\ ~slots[v].inherited
        /\ slots'[v].state = "Stopping" /\ slots'[v].mem = slots[v].mem
        /\ slots'[v].unconfirmed = slots[v].unconfirmed
        /\ slots'[v].inherited = slots[v].inherited
  <2>1. victims \in LoadPlans(id, mem)
    BY DEF Loading
  <2>2. \A v \in victims : slots'[v] = [slots[v] EXCEPT !.state = "Stopping"]
    BY DEF Loading
  <2>3. \A v \in victims :
          /\ v \in Models \ {id} /\ slots[v].state \in {"Ready", "Error"}
          /\ ~slots[v].unconfirmed /\ ~slots[v].inherited
    BY <2>1, VictimsOf
  <2>4. ASSUME NEW v \in victims
        PROVE  /\ slots'[v].state = "Stopping" /\ slots'[v].mem = slots[v].mem
               /\ slots'[v].unconfirmed = slots[v].unconfirmed
               /\ slots'[v].inherited = slots[v].inherited
    <3>1. slots[v] \in Slot /\ slots'[v] = [slots[v] EXCEPT !.state = "Stopping"]
      BY <1>2, <2>2, <2>3
    <3> QED BY <3>1 DEF Slot
  <2> QED BY <2>3, <2>4
<1>9. \A m \in Models \ (victims \cup {id}) : slots'[m] = slots[m]
  BY DEF Loading
<1>10. /\ RequestCharge(id, mem) \in Nat /\ RequestCharge(id, mem) <= mem /\ mem \in Nat
       /\ Size[id] <= mem
       /\ (~slots[id].inherited => RequestCharge(id, mem) = mem)
       /\ Size[id] \in Nat
  BY ChargeIs, SupervisorAssumption DEF Owned, Shape
<1>11. \A m \in Models : SlotRule(m, slots'[m])
  <2>1. SlotRule(id, slots'[id])
    BY <1>7, <1>10 DEF SlotRule, Occupies
  <2>2. \A v \in victims : SlotRule(v, slots'[v])
    BY <1>3, <1>8 DEF SlotRule, Occupies
  <2> QED BY <1>3, <1>9, <2>1, <2>2
<1>12. op' # None /\ op'.kind = "load" /\ op'.id = id /\ op'.policy = policy
       /\ op' \in Operation /\ op'.started /\ \A w \in op'.waiters : w.policy = policy
  BY NoneAssumption DEF Loading
<1>13. /\ flow'.id = id /\ flow'.victims = victims /\ flow'.first = prev /\ flow'.prev = prev
       /\ flow'.pc \in {"evict", "verify", "load"}
       /\ flow'.pc = "verify" => flow'.inherited
  BY DEF Loading
<1>14. Shape'
  <2>1. /\ flow' \in Task /\ flow'.todo \subseteq flow'.victims
        /\ flow'.freed \subseteq flow'.victims /\ slots' \in [Models -> Slot]
        /\ claim' \in Nat /\ marker' = TRUE /\ ops' = ops + 1
        /\ UNCHANGED <<up, lru, reserved, covered, poisoned, breach, resident, loading, draining,
                       running, crashes>>
    BY DEF Loading, engineVars
  <2>2. up \in {"up", "failed", "down"} /\ TypeOK
    BY DEF Owned, Shape, TypeOK
  <2>3. EngineShape'
    BY <2>1, ShapeParts DEF Owned, EngineShape
  <2> QED BY <1>12, <2>1, <2>2, <2>3, ActorShape, ShapeParts DEF Owned
<1>15. TaskOfOp'
  BY <1>1, <1>8, <1>12, <1>13 DEF TaskOfOp, Loads, Unloads, LoadCalls, UnloadCalls
<1>16. SlotsOfOp'
  BY <1>3, <1>6, <1>7, <1>8, <1>9, <1>11, <1>12, <1>13 DEF SlotsOfOp, Loads
<1>17. Past'
  <2>1. Earlier(flow.first)'
    BY <1>1, <1>3, <1>4, <1>6, <1>13 DEF Earlier, SlotRule
  <2> QED BY <2>1, <1>4, <1>5, <1>6, <1>13 DEF Past
<1> QED BY <1>14, <1>15, <1>16, <1>17 DEF Owned

\* The target's slot once its operation is settled.
Settled(new, old) ==
  /\ new \in Slot /\ new.inflight = old.inflight
  /\ new.unconfirmed = (~flow.ok /\ flow.outcome = "unconfirmed")
  /\ IF flow.ok
     THEN /\ new.mem = old.mem /\ new.policy = old.policy
          /\ IF op.kind = "load" THEN new.state = "Ready" /\ new.inherited = old.inherited
             ELSE new.state = "Stopped" /\ new.inherited = FALSE
     ELSE \/ /\ flow.outcome = "stopped" /\ new.state = "Stopped"
             /\ new.mem = old.mem /\ new.inherited = FALSE
          \/ /\ flow.outcome = "error" /\ new.state = "Error"
             /\ new.mem = old.mem /\ new.inherited = old.inherited
          \/ /\ flow.outcome = "restore" /\ flow.prev # None /\ new.state = flow.prev.state
             /\ new.mem = flow.prev.mem /\ new.inherited = flow.prev.inherited
          \/ /\ flow.outcome = "retainError" /\ flow.prev # None /\ new.state = "Error"
             /\ new.mem = Larger(old.mem, flow.prev.mem)
             /\ new.inherited = flow.prev.inherited
          \/ /\ flow.outcome = "unconfirmed" /\ new.state = "Error"
             /\ new.mem = (IF flow.prev = None THEN old.mem
                           ELSE Larger(old.mem, flow.prev.mem))
             /\ new.inherited = old.inherited

LEMMA SettledIs ==
  ASSUME Owned, flow.pc = "done", NEW old \in Slot, ~old.unconfirmed
  PROVE  Settled(SettledSlot(old, flow.prev, op.kind, flow.ok, flow.outcome), old)
<1> DEFINE new == SettledSlot(old, flow.prev, op.kind, flow.ok, flow.outcome)
<1> SUFFICES Settled(new, old)
  OBVIOUS
<1>1. /\ old.state \in ModelState \cup {"Absent"} /\ old.mem \in Nat /\ old.policy \in Policies
      /\ old.inflight \in Nat /\ old.unconfirmed = FALSE /\ old.inherited \in BOOLEAN
  BY DEF Slot
<1>2. flow.prev # None =>
        /\ flow.prev \in Slot
        /\ flow.prev.state \in ModelState \cup {"Absent"} /\ flow.prev.mem \in Nat
        /\ flow.prev.policy \in Policies /\ flow.prev.inherited \in BOOLEAN
  BY ShapeParts DEF Owned, TaskShape, Task, Slot
<1>3. flow.ok \in BOOLEAN /\ flow.outcome \in Outcomes
  BY ShapeParts DEF Owned, TaskShape, Task, Outcomes
<1>4. ~flow.ok => /\ flow.outcome # "none"
                  /\ flow.outcome \in {"restore", "retainError"} => flow.prev # None
  BY DEF Owned, Past
<1>5. \A a, b \in Nat : Larger(a, b) \in Nat
  BY DEF Larger
<1>6. CASE flow.ok /\ op.kind = "load"
  <2>1. new = [old EXCEPT !.state = "Ready"]
    BY <1>6 DEF SettledSlot
  <2> HIDE DEF new
  <2> QED BY <1>1, <1>6, <2>1 DEF Settled, Slot, ModelState
<1>7. CASE flow.ok /\ op.kind # "load"
  <2>1. new = [old EXCEPT !.state = "Stopped", !.inherited = FALSE]
    BY <1>7 DEF SettledSlot
  <2> HIDE DEF new
  <2> QED BY <1>1, <1>7, <2>1 DEF Settled, Slot, ModelState
<1>8. CASE ~flow.ok /\ flow.outcome = "stopped"
  <2>1. new = [old EXCEPT !.state = "Stopped", !.inherited = FALSE]
    BY <1>8 DEF SettledSlot
  <2> HIDE DEF new
  <2> QED BY <1>1, <1>8, <2>1 DEF Settled, Slot, ModelState
<1>9. CASE ~flow.ok /\ flow.outcome = "error"
  <2>1. new = [old EXCEPT !.state = "Error"]
    BY <1>9 DEF SettledSlot
  <2> HIDE DEF new
  <2> QED BY <1>1, <1>9, <2>1 DEF Settled, Slot, ModelState
<1>10. CASE ~flow.ok /\ flow.outcome = "restore"
  <2>1. new = [old EXCEPT !.state = flow.prev.state, !.policy = flow.prev.policy,
                          !.mem = flow.prev.mem, !.inherited = flow.prev.inherited]
    BY <1>10 DEF SettledSlot
  <2> HIDE DEF new
  <2> QED BY <1>1, <1>2, <1>4, <1>10, <2>1 DEF Settled, Slot
<1>11. CASE ~flow.ok /\ flow.outcome = "retainError"
  <2> DEFINE k == [old EXCEPT !.policy = flow.prev.policy,
                              !.mem = Larger(old.mem, flow.prev.mem)]
  <2>1. new = [k EXCEPT !.state = "Error", !.inherited = flow.prev.inherited]
    BY <1>4, <1>11 DEF SettledSlot
  <2>2. /\ k \in Slot /\ k.mem = Larger(old.mem, flow.prev.mem) /\ k.inflight = old.inflight
        /\ k.unconfirmed = FALSE
    BY <1>1, <1>2, <1>4, <1>5, <1>11 DEF Slot
  <2> HIDE DEF new, k
  <2> QED BY <1>1, <1>2, <1>4, <1>11, <2>1, <2>2 DEF Settled, Slot, ModelState
<1>12. CASE ~flow.ok /\ flow.outcome = "unconfirmed"
  <2> DEFINE k == IF flow.prev = None THEN old
                  ELSE [old EXCEPT !.policy = flow.prev.policy,
                                   !.mem = Larger(old.mem, flow.prev.mem)]
  <2>1. new = [k EXCEPT !.state = "Error", !.unconfirmed = TRUE]
    BY <1>12 DEF SettledSlot
  <2>2. /\ k \in Slot /\ k.inflight = old.inflight /\ k.inherited = old.inherited
        /\ k.mem = (IF flow.prev = None THEN old.mem ELSE Larger(old.mem, flow.prev.mem))
    BY <1>1, <1>2, <1>5 DEF Slot
  <2> HIDE DEF new, k
  <2> QED BY <1>1, <1>12, <2>1, <2>2 DEF Settled, Slot, ModelState
<1> QED BY <1>3, <1>4, <1>6, <1>7, <1>8, <1>9, <1>10, <1>11, <1>12 DEF Outcomes

\* An operation is settled: its slot, its victims, the aggregate, the claim.
Settling ==
  /\ Serving /\ flow.pc = "done" /\ op # None /\ op.id = flow.id /\ flow.id \in Models
  /\ slots' \in [Models -> Slot]
  /\ Settled(slots'[flow.id], slots[flow.id])
  /\ \A v \in flow.victims :
       /\ v # flow.id /\ slots'[v].state = (IF v \in flow.freed THEN "Stopped" ELSE "Error")
       /\ slots'[v].mem = slots[v].mem /\ slots'[v].inflight = slots[v].inflight
       /\ ~slots'[v].unconfirmed /\ ~slots'[v].inherited
  /\ \A m \in Models \ (flow.victims \cup {flow.id}) : slots'[m] = slots[m]
  /\ IF flow.status # None
     THEN /\ reserved' = UsedBy(flow.status)
          /\ covered' = CoveredBy(slots', flow.status, flow.id, flow.credit)
     ELSE reserved' = reserved /\ covered' = covered
  /\ reserved' \in Nat /\ covered' \in [Models -> Nat]
  /\ Accounted(slots', reserved', covered') \in Nat
  /\ claim' = (IF Accounted(slots', reserved', covered') > claim
                  \/ ~ \E m \in Models : slots'[m].unconfirmed
               THEN Accounted(slots', reserved', covered') ELSE claim)
  /\ poisoned' = (Accounted(slots', reserved', covered') > claim
                  /\ ~ \E m \in Models : slots'[m].unconfirmed)
  /\ breach' = (breach \/ /\ \E m \in Models : slots'[m].unconfirmed
                           /\ ~marker
                           /\ Accounted(slots', reserved', covered') > Larger(claim, Budget))
  /\ lru' \in Seq(Models) /\ op' = None /\ flow' = NoFlow
  /\ UNCHANGED <<up, marker, engineVars, running, boundVars>>

LEMMA TouchIn == ASSUME lru \in Seq(Models), NEW id \in Models PROVE Touch(id) \in Seq(Models)
<1>1. LastUse(id) = 0 \/ LastUse(id) \in 1..Len(lru)
  BY DEF LastUse
<1>2. SubSeq(lru, 1, LastUse(id) - 1) \in Seq(Models)
  BY <1>1
<1>3. SubSeq(lru, LastUse(id) + 1, Len(lru)) \in Seq(Models)
  BY <1>1
<1> HIDE DEF LastUse
<1> QED BY <1>2, <1>3 DEF Touch

LEMMA SettlingEffect == ASSUME Owned, OpDone PROVE Settling
<1> DEFINE id == flow.id
           s == [m \in Models |->
                  IF m = id
                  THEN SettledSlot(slots[m], flow.prev, op.kind, flow.ok, flow.outcome)
                  ELSE IF m \in flow.victims
                  THEN VictimSlot(slots[m], m \in flow.freed)
                  ELSE slots[m]]
           fresh == flow.status # None
           res == IF fresh THEN UsedBy(flow.status) ELSE reserved
           cov == IF fresh THEN CoveredBy(s, flow.status, id, flow.credit) ELSE covered
           now == Accounted(s, res, cov)
           unsure == \E m \in Models : s[m].unconfirmed
<1>1. /\ slots' = s /\ reserved' = res /\ covered' = cov
      /\ lru' = (IF flow.ok /\ op.kind = "load" THEN Touch(id) ELSE lru)
      /\ claim' = (IF now > claim \/ ~unsure THEN now ELSE claim)
      /\ poisoned' = (now > claim /\ ~unsure)
      /\ breach' = (breach \/ (unsure /\ ~marker /\ now > Larger(claim, Budget)))
  BY DEF OpDone
<1>2. /\ Serving /\ flow.pc = "done" /\ up = "up" /\ op' = None /\ flow' = NoFlow
      /\ UNCHANGED <<up, marker, engineVars, running, boundVars>>
  BY DEF OpDone, Serving
<1>3. op # None /\ op.id = id /\ id \in Models /\ id \notin flow.victims
  BY <1>2 DEF Owned, TaskOfOp
<1>4. \A m \in Models : slots[m] \in Slot
  BY ShapeParts DEF Owned
<1>5. Settled(s[id], slots[id])
  <2>1. ~slots[id].unconfirmed
    BY <1>3 DEF Owned, SlotsOfOp
  <2>2. s[id] = SettledSlot(slots[id], flow.prev, op.kind, flow.ok, flow.outcome)
    BY <1>3
  <2> QED BY <1>2, <1>3, <1>4, <2>1, <2>2, SettledIs
<1>6. flow.victims \subseteq Models /\ flow.freed \subseteq flow.victims
  BY ShapeParts DEF Owned, TaskShape, Task
<1>7. ASSUME NEW v \in flow.victims
      PROVE  /\ v # id /\ s[v] \in Slot
             /\ s[v].state = (IF v \in flow.freed THEN "Stopped" ELSE "Error")
             /\ s[v].mem = slots[v].mem /\ s[v].inflight = slots[v].inflight
             /\ ~s[v].unconfirmed /\ ~s[v].inherited
  <2>1. ~slots[v].unconfirmed /\ ~slots[v].inherited
    BY <1>3 DEF Owned, SlotsOfOp
  <2>2. slots[v] \in Slot
    BY <1>4, <1>6
  <2>3. s[v] = VictimSlot(slots[v], v \in flow.freed)
    BY <1>3, <1>6
  <2>4. CASE v \in flow.freed
    <3>1. s[v] = [slots[v] EXCEPT !.state = "Stopped", !.inherited = FALSE]
      BY <2>3, <2>4 DEF VictimSlot
    <3> HIDE DEF s
    <3> QED BY <1>3, <2>1, <2>2, <2>4, <3>1 DEF Slot, ModelState
  <2>5. CASE v \notin flow.freed
    <3>1. s[v] = [slots[v] EXCEPT !.state = "Error"]
      BY <2>3, <2>5 DEF VictimSlot
    <3> HIDE DEF s
    <3> QED BY <1>3, <2>1, <2>2, <2>5, <3>1 DEF Slot, ModelState
  <2> QED BY <2>4, <2>5
<1>8. \A m \in Models \ (flow.victims \cup {id}) : s[m] = slots[m]
  BY <1>3
<1>9. s \in [Models -> Slot]
  <2>1. \A m \in Models : s[m] \in Slot
    <3> HIDE DEF s
    <3> QED BY <1>4, <1>5, <1>7, <1>8 DEF Settled
  <2>2. s = [m \in Models |-> s[m]]
    OBVIOUS
  <2> HIDE DEF s
  <2> QED BY <2>1, <2>2
<1> HIDE DEF s
<1>10. /\ fresh => flow.status \in SUBSET Models
       /\ flow.credit \in Nat
  BY ShapeParts DEF Owned, TaskShape, Task
<1>11. /\ reserved \in Nat /\ covered \in [Models -> Nat] /\ claim \in Nat
       /\ lru \in Seq(Models)
  BY ShapeParts DEF Owned
<1>12. res \in Nat
  <2>1. fresh => UsedBy(flow.status) \in Nat
    BY <1>10, <1>11, <1>9, NumbersOf
  <2> QED BY <2>1, <1>11
<1>13. cov \in [Models -> Nat]
  <2>1. CoveredBy(s, flow.status, id, flow.credit) \in [Models -> Nat]
    BY <1>9, <1>10 DEF CoveredBy, Slot
  <2> QED BY <2>1, <1>11
<1> HIDE DEF res, cov
<1>14. now \in Nat
  <2>1. {} \in SUBSET Models
    OBVIOUS
  <2> QED BY <1>9, <1>12, <1>13, <2>1, NumbersOf
<1>15. lru' \in Seq(Models)
  BY <1>1, <1>3, <1>11, TouchIn
<1>16. IF flow.status # None
       THEN /\ reserved' = UsedBy(flow.status)
            /\ covered' = CoveredBy(slots', flow.status, flow.id, flow.credit)
       ELSE reserved' = reserved /\ covered' = covered
  BY <1>1 DEF res, cov
<1>17. /\ reserved' \in Nat /\ covered' \in [Models -> Nat]
       /\ Accounted(slots', reserved', covered') \in Nat
       /\ claim' = (IF Accounted(slots', reserved', covered') > claim
                       \/ ~ \E m \in Models : slots'[m].unconfirmed
                    THEN Accounted(slots', reserved', covered') ELSE claim)
       /\ poisoned' = (Accounted(slots', reserved', covered') > claim
                       /\ ~ \E m \in Models : slots'[m].unconfirmed)
       /\ breach' = (breach \/ /\ \E m \in Models : slots'[m].unconfirmed
                                /\ ~marker
                                /\ Accounted(slots', reserved', covered') > Larger(claim, Budget))
  BY <1>1, <1>12, <1>13, <1>14
<1>18. slots' \in [Models -> Slot] /\ Settled(slots'[flow.id], slots[flow.id])
       /\ \A m \in Models \ (flow.victims \cup {flow.id}) : slots'[m] = slots[m]
  BY <1>1, <1>5, <1>8, <1>9
<1>19. \A v \in flow.victims :
         /\ v # flow.id /\ slots'[v].state = (IF v \in flow.freed THEN "Stopped" ELSE "Error")
         /\ slots'[v].mem = slots[v].mem /\ slots'[v].inflight = slots[v].inflight
         /\ ~slots'[v].unconfirmed /\ ~slots'[v].inherited
  BY <1>1, <1>7
<1> QED BY <1>2, <1>3, <1>15, <1>16, <1>17, <1>18, <1>19 DEF Settling

\* With no task there is nothing to remember.
LEMMA PastIdle == flow' = NoFlow => Past'
BY NoFlowFields DEF Past, Earlier

LEMMA OwnedSettling == Owned /\ OpDone => Owned'
<1> SUFFICES ASSUME Owned, OpDone PROVE Owned'
  OBVIOUS
<1>1. Settling
  BY SettlingEffect
<1> DEFINE id == flow.id
           old == slots[flow.id]
           new == slots'[flow.id]
<1>2. /\ op # None /\ op.id = id /\ id \in Models /\ up = "up" /\ up' = up
      /\ op' = None /\ flow' = NoFlow
  BY <1>1 DEF Settling, Serving
<1>3. Shape'
  <2>1. /\ slots' \in [Models -> Slot] /\ reserved' \in Nat /\ covered' \in [Models -> Nat]
        /\ lru' \in Seq(Models) /\ claim' \in Nat /\ poisoned' \in BOOLEAN /\ breach' \in BOOLEAN
    BY <1>1, ShapeParts DEF Settling, Owned
  <2>2. EngineShape'
    BY <1>1, ShapeParts DEF Settling, Owned, EngineShape, engineVars
  <2>3. running' \in [Models -> Nat] /\ ops' \in Nat /\ crashes' \in Nat
    BY <1>1, ShapeParts DEF Settling, Owned, boundVars
  <2>4. /\ flow' \in Task /\ flow'.todo \subseteq flow'.victims
        /\ flow'.freed \subseteq flow'.victims
    BY <1>2, NoFlowFields
  <2> QED BY <1>2, <2>1, <2>2, <2>3, <2>4, ActorShape DEF Owned, Shape
<1>4. TaskOfOp'
  BY <1>2, NoFlowFields DEF TaskOfOp, Loads, Unloads, LoadCalls, UnloadCalls
<1>5. SlotRule(id, new)
  <2>1. /\ SlotRule(id, old) /\ Occupies(old.state) /\ ~old.unconfirmed
        /\ Loads => old.inherited = flow.inherited
    BY <1>2 DEF Owned, SlotsOfOp, Occupies
  <2>2. flow.prev # None =>
          /\ flow.prev.state \in {"Ready", "Error"} /\ flow.prev.inherited = flow.inherited
          /\ SlotRule(id, flow.prev) /\ flow.prev.mem \in Nat
    <3>1. flow.prev # None => flow.prev \in Slot
      BY ShapeParts DEF Owned, TaskShape, Task
    <3> QED BY <3>1 DEF Owned, Past, Earlier, Slot
  <2>3. flow.prev # None => op.kind = "load" /\ old.inherited = flow.inherited
    <3>1. op.kind \in {"load", "unload"}
      BY <1>2 DEF Owned, Shape, Operation
    <3> QED BY <1>2, <2>1, <3>1 DEF Owned, TaskOfOp, Unloads, Loads
  <2>4. Size[id] \in Nat /\ old.mem \in Nat
    BY <1>2, ShapeParts, SupervisorAssumption DEF Owned, Slot
  <2>5. Settled(new, old)
    BY <1>1 DEF Settling
  <2> HIDE DEF new, old, id
  <2> QED BY <2>1, <2>2, <2>3, <2>4, <2>5 DEF Settled, SlotRule, Occupies, Larger
<1>6. \A m \in Models : SlotRule(m, slots'[m])
  <2>1. ASSUME NEW v \in flow.victims, v \in Models PROVE SlotRule(v, slots'[v])
    <3>1. SlotRule(v, slots[v]) /\ slots[v].state = "Stopping" /\ ~slots[v].inherited
      BY <1>2, <2>1 DEF Owned, SlotsOfOp
    <3>2. /\ slots'[v].state = (IF v \in flow.freed THEN "Stopped" ELSE "Error")
          /\ slots'[v].mem = slots[v].mem
          /\ ~slots'[v].unconfirmed /\ ~slots'[v].inherited
      BY <1>1, <2>1 DEF Settling
    <3> QED BY <3>1, <3>2 DEF SlotRule, Occupies
  <2>2. \A m \in Models \ (flow.victims \cup {id}) : slots'[m] = slots[m] /\ SlotRule(m, slots[m])
    BY <1>1 DEF Settling, Owned, SlotsOfOp
  <2> QED BY <1>5, <2>1, <2>2
<1>7. \A m \in Models : slots'[m].state \notin {"Launching", "Loading", "Stopping"}
  <2>1. new.state \notin {"Launching", "Loading", "Stopping"}
    <3>1. flow.prev # None => flow.prev.state \in {"Ready", "Error"}
      BY DEF Owned, Past, Earlier
    <3>2. Settled(new, old)
      BY <1>1 DEF Settling
    <3> HIDE DEF new, old
    <3> QED BY <3>1, <3>2 DEF Settled
  <2>2. \A v \in flow.victims : slots'[v].state \in {"Stopped", "Error"}
    BY <1>1 DEF Settling
  <2>3. \A m \in Models \ (flow.victims \cup {id}) :
           slots'[m] = slots[m] /\ slots[m].state \notin {"Launching", "Loading", "Stopping"}
    BY <1>1, <1>2 DEF Settling, Owned, SlotsOfOp
  <2> QED BY <2>1, <2>2, <2>3
<1>8. SlotsOfOp'
  BY <1>2, <1>6, <1>7 DEF SlotsOfOp, Loads
<1>9. Past'
  BY <1>2, PastIdle
<1> QED BY <1>3, <1>4, <1>8, <1>9 DEF Owned

LEMMA OwnedStartUnload ==
  ASSUME Owned, NEW c \in Callers, NEW id \in Models, StartUnload(c, id)
  PROVE  Owned'
<1>1. /\ Serving /\ op = None /\ up = "up" /\ ~poisoned /\ up' = up /\ poisoned' = poisoned
      /\ slots[id].state \notin {"Absent", "Stopped"} /\ ~slots[id].unconfirmed
      /\ slots' = [slots EXCEPT ![id].state = "Stopping"]
      /\ op' = [kind |-> "unload", id |-> id, policy |-> StartupPolicy, mem |-> 0,
                waiters |-> {Waiter(c, StartupPolicy, 0)}, started |-> slots[id].inflight = 0]
      /\ flow' = IF slots[id].inflight = 0
                 THEN UnloadFlow([slots EXCEPT ![id].state = "Stopping"], id) ELSE flow
      /\ ops' = ops + 1
      /\ UNCHANGED <<lru, reserved, covered, claim, breach, marker, engineVars, running,
                   crashes>>
  BY DEF StartUnload, Serving
<1>2. op' \in Operation
  <2>1. StartupPolicy \in Policies
    BY SupervisorAssumption
  <2> QED BY <1>1, <2>1 DEF Operation, Waiter
<1>3. slots[id] \in Slot /\ slots \in [Models -> Slot]
  BY ShapeParts DEF Owned
<1>4. slots' \in [Models -> Slot] /\ slots'[id] = [slots[id] EXCEPT !.state = "Stopping"]
      /\ \A m \in Models \ {id} : slots'[m] = slots[m]
  <2>1. [slots[id] EXCEPT !.state = "Stopping"] \in Slot
    BY <1>3 DEF Slot, ModelState
  <2> QED BY <1>1, <1>3, <2>1
<1>5. /\ slots'[id].state = "Stopping" /\ slots'[id].mem = slots[id].mem
      /\ slots'[id].inherited = slots[id].inherited /\ slots'[id].unconfirmed = FALSE
  BY <1>1, <1>3, <1>4 DEF Slot
<1>6. flow.pc = "idle" /\ flow = NoFlow
  BY <1>1 DEF Owned, TaskOfOp
<1>7. IF op'.started THEN Unloading(id) ELSE flow' = NoFlow
  <2>1. TypeOK
    BY DEF Owned, Shape
  <2>2. [slots EXCEPT ![id].state = "Stopping"] \in [Models -> Slot]
    BY <1>1, <1>4
  <2> QED BY <1>1, <1>6, <2>1, <2>2, UnloadFlowFields
<1>8. /\ flow' \in Task /\ flow'.todo = {} /\ flow'.victims = {} /\ flow'.freed = {}
      /\ flow'.first = None /\ flow'.prev = None /\ flow'.inherited = FALSE
      /\ flow'.pc \in {"idle", "unload"} /\ (flow'.pc = "unload" <=> op'.started)
      /\ flow'.pc = "idle" => flow' = NoFlow
      /\ flow'.pc = "unload" => flow'.id = id
  BY <1>7, NoFlowFields DEF Unloading
<1>9. Shape'
  <2>1. EngineShape'
    BY <1>1, ShapeParts DEF Owned, EngineShape, engineVars
  <2>2. ops' \in Nat
    BY <1>1, ShapeParts DEF Owned
  <2> QED BY <1>1, <1>2, <1>4, <1>8, <2>1, <2>2, ActorShape, ShapeParts DEF Owned, Shape
<1>10. TaskOfOp'
  BY <1>1, <1>2, <1>8, NoneAssumption DEF TaskOfOp, Loads, Unloads, LoadCalls, UnloadCalls
<1>11. SlotsOfOp'
  <2>1. \A m \in Models : SlotRule(m, slots[m])
                          /\ slots[m].state \notin {"Launching", "Loading", "Stopping"}
    BY <1>1 DEF Owned, SlotsOfOp
  <2>2. SlotRule(id, slots'[id])
    <3>1. Occupies(slots[id].state)
      BY <1>1, <1>3, <2>1 DEF Occupies, Slot, ModelState
    <3> QED BY <1>5, <2>1, <3>1 DEF SlotRule, Occupies
  <2>3. op'.id = id /\ op'.kind = "unload" /\ op' # None
    BY <1>1, <1>2, NoneAssumption
  <2> QED BY <1>4, <1>5, <1>8, <2>1, <2>2, <2>3 DEF SlotsOfOp, Loads
<1>12. Past'
  BY <1>8 DEF Past, Earlier
<1> QED BY <1>9, <1>10, <1>11, <1>12 DEF Owned

\* Two slots that differ at most in their chats.
Alike(new, old) ==
  /\ new.state = old.state /\ new.mem = old.mem /\ new.policy = old.policy
  /\ new.unconfirmed = old.unconfirmed /\ new.inherited = old.inherited

\* Steps that leave the operation, the task and all but the chats of the slots.
LEMMA OwnedAlike ==
  ASSUME Owned, Shape', up' = up, poisoned' = poisoned, breach' = breach, flow' = flow, op' = op,
         up # "up" => slots' = slots, \A m \in Models : Alike(slots'[m], slots[m])
  PROVE  Owned'
<1>1. TaskOfOp'
  BY DEF Owned, TaskOfOp, Loads, Unloads
<1>2. op # None => op.id \in Models /\ flow.victims \subseteq Models
  BY ShapeParts DEF Owned, Shape, Operation, TaskShape, Task
<1>3. SlotsOfOp'
  BY <1>2 DEF Owned, SlotsOfOp, Alike, SlotRule, Loads
<1>4. Past'
  BY DEF Owned, Past, Earlier, SlotRule
<1> QED BY <1>1, <1>3, <1>4 DEF Owned

LEMMA OwnedJoin ==
  ASSUME Owned, NEW w, Enqueue(w), op # None,
         w \in [caller : Callers, policy : Policies, mem : Nat],
         Loads => w.policy = op.policy
  PROVE  Owned'
<1>1. op \in Operation /\ op' = [op EXCEPT !.waiters = @ \cup {w}]
  BY DEF Owned, Shape, Enqueue
<1>2. /\ op' \in Operation /\ op'.waiters = op.waiters \cup {w}
      /\ op'.kind = op.kind /\ op'.id = op.id /\ op'.policy = op.policy
      /\ op'.started = op.started
  BY <1>1 DEF Operation
<1>3. UNCHANGED <<up, slots, lru, reserved, covered, claim, poisoned, breach, flow,
                  marker, resident, loading, draining, running, ops, crashes>>
  BY DEF Enqueue, engineVars, boundVars
<1>4. Shape'
  <2>1. EngineShape'
    BY <1>3, ShapeParts DEF Owned, EngineShape
  <2> QED BY <1>2, <1>3, <2>1, ActorShape, ShapeParts DEF Owned, Shape, TypeOK, TaskShape
<1>5. op' # None
  BY <1>2, NoneAssumption
<1>6. TaskOfOp'
  BY <1>2, <1>3, <1>5 DEF Owned, TaskOfOp, Loads, Unloads
<1>7. SlotsOfOp'
  BY <1>2, <1>3, <1>5 DEF Owned, SlotsOfOp, Loads, SlotRule
<1>8. Past'
  BY <1>2, <1>3 DEF Owned, Past, Earlier, SlotRule
<1> QED BY <1>4, <1>6, <1>7, <1>8 DEF Owned

\* A chat ends: the count, and the unload that waited for it.
ChatEnds(id) ==
  /\ running[id] > 0 /\ running' = [running EXCEPT ![id] = @ - 1]
  /\ slots' \in [Models -> Slot] /\ \A m \in Models : Alike(slots'[m], slots[m])
  /\ \A m \in Models \ {id} : slots'[m] = slots[m]
  /\ IF ~Serving THEN slots' = slots
     ELSE slots'[id].inflight = AtLeast0(slots[id].inflight - 1)
  /\ \/ flow' = flow /\ op' = op
     \/ /\ Serving /\ Unloads /\ op.id = id /\ ~op.started /\ slots'[id].inflight = 0
        /\ Unloading(id)
        /\ op' \in Operation /\ op'.kind = op.kind /\ op'.id = op.id /\ op'.started
  /\ UNCHANGED <<up, lru, reserved, covered, claim, poisoned, breach, marker, engineVars, boundVars>>

LEMMA ChatEndsEffect == ASSUME Owned, NEW id \in Models, ChatDone(id) PROVE ChatEnds(id)
<1> DEFINE s == [slots EXCEPT ![id].inflight = AtLeast0(@ - 1)]
<1>1. slots \in [Models -> Slot] /\ \A m \in Models : slots[m] \in Slot
  BY ShapeParts DEF Owned
<1>2. AtLeast0(slots[id].inflight - 1) \in Nat
  BY <1>1 DEF AtLeast0, Slot
<1>3. [slots[id] EXCEPT !.inflight = AtLeast0(slots[id].inflight - 1)] \in Slot
  BY <1>1, <1>2 DEF Slot
<1>4. s \in [Models -> Slot] /\ \A m \in Models \ {id} : s[m] = slots[m]
      /\ s[id] = [slots[id] EXCEPT !.inflight = AtLeast0(slots[id].inflight - 1)]
  BY <1>1, <1>3
<1>5. Alike(s[id], slots[id]) /\ s[id].inflight = AtLeast0(slots[id].inflight - 1)
  BY <1>1, <1>4 DEF Alike, Slot
<1> HIDE DEF s
<1>6. \A m \in Models : Alike(s[m], slots[m]) /\ Alike(slots[m], slots[m])
  BY <1>4, <1>5 DEF Alike
<1>7. /\ running[id] > 0 /\ running' = [running EXCEPT ![id] = @ - 1]
      /\ UNCHANGED <<up, lru, reserved, covered, claim, poisoned, breach, marker, engineVars, boundVars>>
  BY DEF ChatDone
<1>8. CASE ~Serving
  BY <1>1, <1>6, <1>7, <1>8 DEF ChatDone, ChatEnds
<1>9. CASE Serving /\ ~Drained(s, id)
  BY <1>4, <1>5, <1>6, <1>7, <1>9 DEF ChatDone, ChatEnds, s
<1>10. CASE Serving /\ Drained(s, id)
  <2>1. slots' = s /\ op' = [op EXCEPT !.started = TRUE] /\ flow' = UnloadFlow(s, id)
    BY <1>10 DEF ChatDone, s
  <2>2. op # None /\ op.id = id /\ op.kind = "unload" /\ ~op.started /\ s[id].inflight = 0
    BY <1>10 DEF Drained
  <2>3. op \in Operation
    BY <2>2 DEF Owned, Shape
  <2>4. op' \in Operation /\ op'.kind = op.kind /\ op'.id = op.id /\ op'.started
    BY <2>1, <2>3 DEF Operation
  <2>5. Unloading(id)
    BY <1>4, <2>1, UnloadFlowFields DEF Owned, Shape
  <2> QED BY <1>4, <1>5, <1>6, <1>7, <1>10, <2>1, <2>2, <2>4, <2>5 DEF ChatEnds, Unloads
<1> QED BY <1>8, <1>9, <1>10

LEMMA OwnedChatDone == ASSUME Owned, NEW id \in Models, ChatDone(id) PROVE Owned'
<1>1. ChatEnds(id)
  BY ChatEndsEffect
<1>2. running' \in [Models -> Nat]
  BY <1>1, ShapeParts DEF Owned, ChatEnds
<1>3. EngineShape'
  BY <1>1, ShapeParts DEF Owned, EngineShape, ChatEnds, engineVars
<1>4. UNCHANGED <<up, lru, reserved, covered, claim, poisoned, breach, ops, crashes>>
      /\ slots' \in [Models -> Slot] /\ \A m \in Models : Alike(slots'[m], slots[m])
      /\ (~Serving => slots' = slots)
  BY <1>1 DEF ChatEnds, boundVars
<1>5. CASE flow' = flow /\ op' = op
  <2>1. Shape'
    BY <1>2, <1>3, <1>4, <1>5, ActorShape, ShapeParts DEF Owned, Shape, TaskShape, TypeOK
  <2> QED BY <1>4, <1>5, <2>1, OwnedAlike DEF Serving
<1>6. CASE /\ Serving /\ Unloads /\ op.id = id /\ ~op.started
           /\ Unloading(id)
           /\ op' \in Operation /\ op'.kind = op.kind /\ op'.id = op.id /\ op'.started
  <2>1. /\ flow' \in Task /\ flow'.todo = {} /\ flow'.victims = {} /\ flow'.freed = {}
        /\ flow'.first = None /\ flow'.prev = None /\ flow'.inherited = FALSE
        /\ flow'.pc = "unload" /\ flow'.id = id
    BY <1>6 DEF Unloading
  <2>2. Shape'
    BY <1>2, <1>3, <1>4, <1>6, <2>1, ActorShape, ShapeParts DEF Owned, Shape, TypeOK
  <2>3. op' # None /\ op # None /\ op.kind = "unload" /\ up = "up" /\ flow.pc = "idle"
        /\ ~poisoned /\ op'.kind = "unload" /\ op'.id = id
    BY <1>6, NoneAssumption DEF Owned, TaskOfOp, Unloads, Serving
  <2>4. TaskOfOp'
    BY <1>4, <1>6, <2>1, <2>3 DEF TaskOfOp, Loads, Unloads, LoadCalls, UnloadCalls
  <2>5. SlotsOfOp'
    <3>1. flow.victims = {}
      BY <1>6 DEF Owned, TaskOfOp
    <3> QED BY <1>4, <1>6, <2>1, <2>3, <3>1 DEF Owned, SlotsOfOp, Alike, SlotRule, Loads
  <2>6. Past'
    BY <2>1 DEF Past, Earlier
  <2> QED BY <2>2, <2>4, <2>5, <2>6 DEF Owned
<1> QED BY <1>1, <1>5, <1>6 DEF ChatEnds

\* Nothing of the actor is left, whatever the task it started does next.
LEMMA OwnedGone ==
  ASSUME Owned, up' = "down", ActorGone,
         flow' \in {flow, NoFlow}, EngineShape', running' \in [Models -> Nat],
         ops' \in Nat, crashes' \in Nat
  PROVE  Owned'
<1>1. slots' = [m \in Models |-> NoSlot] /\ op' = None /\ lru' = <<>> /\ reserved' = 0
      /\ covered' = [m \in Models |-> 0] /\ claim' = 0 /\ poisoned' = FALSE /\ breach' = breach
  BY DEF ActorGone
<1>2. NoSlot \in Slot /\ NoSlot.state = "Absent" /\ NoSlot.mem = 0
      /\ NoSlot.inherited = FALSE /\ NoSlot.unconfirmed = FALSE
  <2>1. StartupPolicy \in Policies
    BY SupervisorAssumption
  <2> QED BY <2>1 DEF NoSlot, Slot
<1> HIDE DEF NoSlot
<1>3. slots' \in [Models -> Slot]
  BY <1>1, <1>2
<1>4. /\ flow' \in Task /\ flow'.todo \subseteq flow'.victims /\ flow'.freed \subseteq flow'.victims
  BY ShapeParts, NoFlowFields DEF Owned, TaskShape
<1>5. Shape'
  <2>1. lru' \in Seq(Models) /\ covered' \in [Models -> Nat] /\ reserved' \in Nat
        /\ claim' \in Nat /\ poisoned' \in BOOLEAN /\ breach' \in BOOLEAN
    <3>1. lru' \in Seq(Models)
      BY <1>1
    <3>2. covered' \in [Models -> Nat]
      BY <1>1
    <3>3. breach \in BOOLEAN
      BY DEF Owned, Shape, TypeOK
    <3> QED BY <1>1, <3>1, <3>2, <3>3
  <2> QED BY <1>1, <1>3, <1>4, <2>1, ActorShape DEF Owned, Shape
<1>6. TaskOfOp'
  BY <1>1, NoFlowFields DEF Owned, TaskOfOp, Loads, Unloads
<1>7. SlotsOfOp'
  <2>1. \A m \in Models : Size[m] \in Nat
    BY SupervisorAssumption
  <2> QED BY <1>1, <1>2, <2>1 DEF SlotsOfOp, SlotRule, Occupies
<1>8. Past'
  <2>1. CASE flow' = NoFlow
    BY <2>1, PastIdle
  <2>2. CASE flow' = flow
    BY <1>1, <2>2 DEF Owned, Past, Earlier, SlotRule
  <2> QED BY <2>1, <2>2
<1> QED BY <1>5, <1>6, <1>7, <1>8 DEF Owned

\* What an actor finds when it starts.
Adopted(slot) == slot = NoSlot \/ slot = [NoSlot EXCEPT !.state = "Error", !.inherited = TRUE]

LEMMA AdoptedIs ==
  ASSUME NEW s, Adopted(s)
  PROVE  /\ s \in Slot /\ s.mem = 0 /\ s.inflight = 0 /\ ~s.unconfirmed
         /\ \/ s.state = "Absent" /\ ~s.inherited
            \/ s.state = "Error" /\ s.inherited
<1>1. StartupPolicy \in Policies
  BY SupervisorAssumption
<1>2. NoSlot \in Slot
  BY <1>1 DEF NoSlot, Slot
<1>3. CASE s = NoSlot
  BY <1>2, <1>3 DEF NoSlot
<1>4. CASE s = [NoSlot EXCEPT !.state = "Error", !.inherited = TRUE]
  <2>1. s = [state |-> "Error", mem |-> 0, policy |-> StartupPolicy,
             inflight |-> 0, unconfirmed |-> FALSE, inherited |-> TRUE]
    BY <1>4 DEF NoSlot
  <2> QED BY <1>1, <2>1 DEF Slot, ModelState
<1> QED BY <1>3, <1>4 DEF Adopted

LEMMA OwnedStart == Owned /\ Start => Owned'
<1> SUFFICES ASSUME Owned, Start PROVE Owned'
  OBVIOUS
<1>1. /\ up = "down" /\ op = None /\ ~poisoned /\ slots = [m \in Models |-> NoSlot]
      /\ UNCHANGED <<lru, op, covered, poisoned, breach, flow, marker, engineVars, running, boundVars>>
  BY DEF Start, Owned, TaskOfOp
<1>2. UsedBy(resident) \in Nat
  BY NumbersOf, ShapeParts DEF Owned, EngineShape
<1>3. /\ \A m \in Models : Adopted(slots'[m])
      /\ slots' \in [Models -> Slot]
      /\ reserved' \in Nat /\ claim' \in Nat /\ up' \in {"up", "failed"}
      /\ up' = "up" => flow = NoFlow
      /\ up' = "failed" => slots' = slots
  <2>1. CASE /\ ~Locked /\ up' = "up"
             /\ slots' = [m \in Models |->
                       IF m \in resident
                       THEN [NoSlot EXCEPT !.state = "Error", !.inherited = TRUE]
                       ELSE NoSlot]
             /\ reserved' = UsedBy(resident) /\ claim' = UsedBy(resident)
    <3>1. \A m \in Models : Adopted(slots'[m])
      BY <2>1 DEF Adopted
    <3>2. slots' = [m \in Models |-> slots'[m]] /\ \A m \in Models : slots'[m] \in Slot
      BY <2>1, <3>1, AdoptedIs
    <3> QED BY <1>2, <2>1, <3>1, <3>2 DEF Locked
  <2>2. CASE up' = "failed" /\ UNCHANGED <<slots, reserved, claim>>
    BY <1>1, <2>2, ShapeParts DEF Owned, Adopted
  <2> QED BY <2>1, <2>2 DEF Start
<1>4. \A m \in Models :
        /\ slots'[m].state \in {"Absent", "Error"} /\ SlotRule(m, slots'[m])
  <2> TAKE m \in Models
  <2>1. Size[m] \in Nat
    BY SupervisorAssumption
  <2>2. /\ slots'[m].mem = 0 /\ ~slots'[m].unconfirmed
        /\ \/ slots'[m].state = "Absent" /\ ~slots'[m].inherited
           \/ slots'[m].state = "Error" /\ slots'[m].inherited
    BY <1>3, AdoptedIs
  <2> QED BY <2>1, <2>2 DEF SlotRule, Occupies
<1>5. Shape'
  <2>1. EngineShape' /\ running' \in [Models -> Nat] /\ ops' \in Nat /\ crashes' \in Nat
    BY <1>1, ShapeParts DEF Owned, EngineShape, engineVars, boundVars
  <2> QED BY <1>1, <1>3, <2>1, ActorShape, ShapeParts DEF Owned, Shape, TaskShape
<1>6. TaskOfOp'
  BY <1>1, <1>3, NoFlowFields DEF Owned, TaskOfOp, Loads, Unloads, LoadCalls, UnloadCalls
<1>7. SlotsOfOp'
  BY <1>1, <1>4 DEF SlotsOfOp
<1>8. Past'
  <2>1. CASE up' = "up"
    BY <1>1, <1>3, <2>1, PastIdle
  <2>2. CASE up' = "failed"
    <3>1. Earlier(flow.first)'
      BY <1>1 DEF Owned, Past, Earlier, SlotRule
    <3> QED BY <1>1, <2>2, <3>1 DEF Owned, Past
  <2> QED BY <1>3, <2>1, <2>2
<1> QED BY <1>5, <1>6, <1>7, <1>8 DEF Owned

LEMMA OwnedChat == ASSUME Owned, NEW id \in Models, Chat(id) PROVE Owned'
<1>1. /\ up = "up" /\ slots' = [slots EXCEPT ![id].inflight = @ + 1]
      /\ running' = [running EXCEPT ![id] = @ + 1] /\ lru' = Touch(id)
      /\ UNCHANGED <<up, op, reserved, covered, claim, poisoned, breach, flow, marker,
                     resident, loading, draining, ops, crashes>>
  BY DEF Chat, Serving, engineVars, boundVars
<1>2. slots \in [Models -> Slot] /\ slots[id] \in Slot /\ running \in [Models -> Nat]
      /\ lru \in Seq(Models)
  BY ShapeParts DEF Owned
<1>3. slots' \in [Models -> Slot] /\ \A m \in Models : Alike(slots'[m], slots[m])
  <2>1. [slots[id] EXCEPT !.inflight = slots[id].inflight + 1] \in Slot
        /\ Alike([slots[id] EXCEPT !.inflight = slots[id].inflight + 1], slots[id])
    <3>1. slots[id].inflight + 1 \in Nat
      BY <1>2 DEF Slot
    <3>2. \A n \in Nat : [slots[id] EXCEPT !.inflight = n] \in Slot
                         /\ Alike([slots[id] EXCEPT !.inflight = n], slots[id])
      BY <1>2 DEF Slot, Alike
    <3> QED BY <3>1, <3>2
  <2>2. /\ slots'[id] = [slots[id] EXCEPT !.inflight = slots[id].inflight + 1]
        /\ \A m \in Models \ {id} : slots'[m] = slots[m]
        /\ slots' = [m \in Models |-> slots'[m]]
    BY <1>1, <1>2
  <2>3. \A m \in Models : slots[m] \in Slot /\ Alike(slots[m], slots[m])
    BY <1>2 DEF Alike
  <2>4. \A m \in Models : slots'[m] \in Slot /\ Alike(slots'[m], slots[m])
    BY <2>1, <2>2, <2>3
  <2> QED BY <2>2, <2>4
<1>4. running' \in [Models -> Nat] /\ lru' \in Seq(Models)
  BY <1>1, <1>2, TouchIn
<1>5. Shape'
  <2>1. EngineShape'
    BY <1>1, ShapeParts DEF Owned, EngineShape
  <2> QED BY <1>1, <1>3, <1>4, <2>1, ActorShape, ShapeParts DEF Owned, Shape, TypeOK, TaskShape
<1> QED BY <1>1, <1>3, <1>5, OwnedAlike

\* Steps of the engine, of the operator and of nobody.
LEMMA OwnedAside ==
  ASSUME Owned, UNCHANGED <<actorVars, flow, running, boundVars>>, EngineShape'
  PROVE  Owned'
<1>1. UNCHANGED <<up, slots, lru, op, reserved, covered, claim, poisoned, breach, flow, running,
                  ops, crashes>>
  BY DEF actorVars, boundVars
<1>2. Shape'
  BY <1>1, ActorShape, ShapeParts DEF Owned, Shape, TypeOK, TaskShape
<1>3. \A m \in Models : Alike(slots'[m], slots[m])
  BY <1>1 DEF Alike
<1> QED BY <1>1, <1>2, <1>3, OwnedAlike

LEMMA OwnedEnds == ASSUME Owned, Crash \/ Shutdown \/ OrphanEnds PROVE Owned'
<1>1. running \in [Models -> Nat] /\ ops \in Nat /\ crashes \in Nat /\ EngineShape
  BY ShapeParts DEF Owned
<1>2. CASE Crash
  <2>1. EngineShape'
    <3>1. flow.pc \in {"load", "retry", "cleanup", "unload"} => flow.id \in Models
      BY DEF Owned, TaskOfOp
    <3> QED BY <1>1, <1>2, <3>1 DEF Crash, CallOnTheWire, EngineShape
  <2>2. running' \in [Models -> Nat] /\ ops' \in Nat /\ crashes' \in Nat
    BY <1>1, <1>2 DEF Crash
  <2> QED BY <1>2, <2>1, <2>2, OwnedGone DEF Crash
<1>3. CASE Shutdown
  <2>1. EngineShape' /\ running' \in [Models -> Nat] /\ ops' \in Nat /\ crashes' \in Nat
    BY <1>1, <1>3 DEF Shutdown, EngineShape, engineVars
  <2> QED BY <1>3, <2>1, OwnedGone DEF Shutdown
<1>4. CASE OrphanEnds
  <2>1. /\ up # "up" /\ flow' = NoFlow
        /\ UNCHANGED <<up, slots, lru, op, reserved, covered, claim, poisoned, breach, marker,
                       resident, loading, draining, running, ops, crashes>>
    BY <1>4 DEF OrphanEnds, actorVars, engineVars, boundVars
  <2>2. Shape'
    <3>1. EngineShape'
      BY <1>1, <2>1 DEF EngineShape
    <3> QED BY <2>1, <3>1, NoFlowFields, ActorShape, ShapeParts DEF Owned, Shape, TypeOK
  <2>3. op = None /\ op' = None
    BY <2>1 DEF Owned, TaskOfOp
  <2>4. TaskOfOp'
    BY <2>1, <2>3, NoFlowFields DEF Owned, TaskOfOp, Loads, Unloads
  <2>5. SlotsOfOp'
    BY <2>1, <2>3 DEF Owned, SlotsOfOp, SlotRule
  <2> QED BY <2>1, <2>2, <2>4, <2>5, PastIdle DEF Owned
<1> QED BY <1>2, <1>3, <1>4

LEMMA OwnedInit == Init => Owned
<1> SUFFICES ASSUME Init PROVE Owned
  OBVIOUS
<1>1. Adopted(NoSlot)
  BY DEF Adopted
<1>2. NoSlot \in Slot /\ NoSlot.mem = 0 /\ NoSlot.state \in {"Absent", "Error"}
      /\ ~NoSlot.unconfirmed /\ (NoSlot.state = "Absent" => ~NoSlot.inherited)
      /\ NoSlot.state = "Absent"
  BY <1>1, AdoptedIs DEF NoSlot
<1> HIDE DEF NoSlot
<1>3. Shape
  <2>1. slots \in [Models -> Slot]
    BY <1>2 DEF Init
  <2>2. lru \in Seq(Models)
    BY DEF Init
  <2>3. covered \in [Models -> Nat] /\ running \in [Models -> Nat]
    BY DEF Init
  <2>4. flow \in Task /\ flow.victims = {} /\ flow.freed = {} /\ flow.todo = {}
    BY NoFlowFields DEF Init
  <2>5. /\ up = "down" /\ op = None /\ reserved = 0 /\ claim = 0 /\ ops = 0 /\ crashes = 0
        /\ poisoned = FALSE /\ breach = FALSE /\ marker = FALSE /\ resident \subseteq Models
        /\ loading = {} /\ draining = {}
    BY DEF Init
  <2>6. {reserved, claim, ops, crashes} \subseteq Nat /\ {poisoned, breach, marker} \subseteq BOOLEAN
    <3>1. reserved \in Nat /\ claim \in Nat /\ ops \in Nat /\ crashes \in Nat
      BY <2>5
    <3>2. poisoned \in BOOLEAN /\ breach \in BOOLEAN /\ marker \in BOOLEAN
      BY <2>5
    <3> QED BY <3>1, <3>2
  <2>7. TypeOK
    BY <2>1, <2>2, <2>3, <2>4, <2>5, <2>6 DEF TypeOK
  <2> QED BY <2>4, <2>5, <2>7 DEF Shape
<1>4. TaskOfOp
  BY NoFlowFields DEF Init, TaskOfOp, Loads, Unloads, LoadCalls, UnloadCalls
<1>5. SlotsOfOp
  <2>1. \A m \in Models : Size[m] \in Nat
    BY SupervisorAssumption
  <2> QED BY <1>2, <2>1 DEF Init, SlotsOfOp, SlotRule, Occupies
<1>6. Past
  BY NoFlowFields DEF Init, Past, Earlier
<1> QED BY <1>3, <1>4, <1>5, <1>6 DEF Owned

\* The steps of Next, each by its effect.
Joins ==
  /\ op \in Operation /\ op' \in Operation
  /\ op'.kind = op.kind /\ op'.id = op.id /\ op'.policy = op.policy
  /\ op'.started = op.started
  /\ UNCHANGED <<up, slots, lru, reserved, covered, claim, poisoned, breach, flow,
                 marker, engineVars, running, boundVars>>

\* Steps of the engine and the operator, and a refusal that leaves its marker.
Aside == UNCHANGED <<actorVars, flow, running, boundVars>>

EngineAside == \E m \in Models : EngineLoads(m) \/ EngineUnloads(m)

MarkerAside ==
  /\ Serving /\ op = None /\ ~marker /\ marker' = TRUE
  /\ UNCHANGED <<actorVars, flow, engineVars, running, boundVars>>

\* An unload is accepted; its call waits for the chats.
UnloadStarts(id) ==
  /\ Serving /\ op = None /\ flow = NoFlow
  /\ Occupies(slots[id].state) /\ ~slots[id].unconfirmed
  /\ slots' \in [Models -> Slot] /\ slots'[id].state = "Stopping"
  /\ slots'[id].mem = slots[id].mem /\ slots'[id].inherited = slots[id].inherited
  /\ slots'[id].inflight = slots[id].inflight /\ ~slots'[id].unconfirmed
  /\ \A m \in Models \ {id} : slots'[m] = slots[m]
  /\ op' \in Operation /\ op'.kind = "unload" /\ op'.id = id
  /\ IF slots[id].inflight = 0 THEN op'.started /\ Unloading(id)
                               ELSE ~op'.started /\ flow' = NoFlow
  /\ UNCHANGED <<up, lru, reserved, covered, claim, poisoned, breach, marker,
                 engineVars, running, crashes>>

ChatStarts(id) ==
  /\ Serving /\ slots[id].state = "Ready"
  /\ slots' \in [Models -> Slot] /\ \A m \in Models : Alike(slots'[m], slots[m])
  /\ slots'[id].inflight = slots[id].inflight + 1
  /\ \A m \in Models \ {id} : slots'[m] = slots[m]
  /\ running' = [running EXCEPT ![id] = @ + 1]
  /\ UNCHANGED <<up, op, reserved, covered, claim, poisoned, breach, flow, marker,
                 engineVars, boundVars>>

Works == Moves /\ UNCHANGED <<actorVars, running, boundVars>>

LEMMA JoinEffect ==
  ASSUME Owned, op # None,
         \/ \E c \in Callers, id \in Models, policy \in Policies :
              \E mem \in Estimates[id] : JoinLoad(c, id, policy, mem)
         \/ \E c \in Callers, id \in Models : JoinUnload(c, id)
  PROVE  Owned' /\ Joins
<1>1. PICK w \in [caller : Callers, policy : Policies, mem : Nat] :
        Enqueue(w) /\ (Loads => w.policy = op.policy)
  <2>1. CASE \E c \in Callers, id \in Models, policy \in Policies :
               \E mem \in Estimates[id] : JoinLoad(c, id, policy, mem)
    <3>a. PICK c \in Callers, id \in Models, policy \in Policies :
            \E mem \in Estimates[id] : JoinLoad(c, id, policy, mem)
      BY <2>1
    <3>1. PICK mem \in Estimates[id] : JoinLoad(c, id, policy, mem)
      BY <3>a
    <3>2. mem \in Nat
      BY ChargeIs DEF Owned, Shape
    <3>3. Waiter(c, policy, mem) \in [caller : Callers, policy : Policies, mem : Nat]
          /\ Waiter(c, policy, mem).policy = policy
      BY <3>2 DEF Waiter
    <3> QED BY <3>1, <3>3 DEF JoinLoad, SameLoad
  <2>2. CASE \E c \in Callers, id \in Models : JoinUnload(c, id)
    <3>1. PICK c \in Callers, id \in Models : JoinUnload(c, id)
      BY <2>2
    <3>2. StartupPolicy \in Policies
      BY SupervisorAssumption
    <3>3. Waiter(c, StartupPolicy, 0) \in [caller : Callers, policy : Policies, mem : Nat]
      BY <3>2 DEF Waiter
    <3> QED BY <3>1, <3>3 DEF JoinUnload, Loads
  <2> QED BY <2>1, <2>2
<1>2. Owned'
  BY <1>1, OwnedJoin
<1>3. op \in Operation /\ op' = [op EXCEPT !.waiters = @ \cup {w}]
  BY <1>1 DEF Owned, Shape, Enqueue
<1>4. /\ op' \in Operation
      /\ op'.kind = op.kind /\ op'.id = op.id /\ op'.policy = op.policy
      /\ op'.started = op.started
  BY <1>3 DEF Operation
<1>5. Joins
  BY <1>1, <1>3, <1>4 DEF Joins, Enqueue
<1> QED BY <1>2, <1>5

LEMMA UnloadStartsEffect ==
  ASSUME Owned, NEW c \in Callers, NEW id \in Models, StartUnload(c, id)
  PROVE  UnloadStarts(id)
<1>1. /\ Serving /\ op = None
      /\ slots[id].state \notin {"Absent", "Stopped"} /\ ~slots[id].unconfirmed
      /\ slots' = [slots EXCEPT ![id].state = "Stopping"]
      /\ op' = [kind |-> "unload", id |-> id, policy |-> StartupPolicy, mem |-> 0,
                waiters |-> {Waiter(c, StartupPolicy, 0)}, started |-> slots[id].inflight = 0]
      /\ flow' = IF slots[id].inflight = 0
                 THEN UnloadFlow([slots EXCEPT ![id].state = "Stopping"], id) ELSE flow
      /\ UNCHANGED <<up, lru, reserved, covered, claim, poisoned, breach, marker, engineVars,
                     running, crashes>>
  BY DEF StartUnload
<1>2. slots[id] \in Slot /\ slots \in [Models -> Slot] /\ TypeOK
  BY ShapeParts DEF Owned, Shape
<1>3. slots' \in [Models -> Slot] /\ slots'[id] = [slots[id] EXCEPT !.state = "Stopping"]
      /\ \A m \in Models \ {id} : slots'[m] = slots[m]
  <2>1. [slots[id] EXCEPT !.state = "Stopping"] \in Slot
    BY <1>2 DEF Slot, ModelState
  <2> QED BY <1>1, <1>2, <2>1
<1>4. /\ slots'[id].state = "Stopping" /\ slots'[id].mem = slots[id].mem
      /\ slots'[id].inherited = slots[id].inherited /\ slots'[id].unconfirmed = FALSE
      /\ slots'[id].inflight = slots[id].inflight
  BY <1>1, <1>2, <1>3 DEF Slot
<1>5. Occupies(slots[id].state)
  <2>1. slots[id].state \notin {"Launching", "Loading", "Stopping"}
    BY <1>1 DEF Owned, SlotsOfOp
  <2> QED BY <1>1, <1>2, <2>1 DEF Occupies, Slot, ModelState
<1>6. flow = NoFlow
  BY <1>1 DEF Owned, TaskOfOp, Serving
<1>7. op' \in Operation /\ op'.kind = "unload" /\ op'.id = id
      /\ op'.started = (slots[id].inflight = 0)
  <2>1. StartupPolicy \in Policies
    BY SupervisorAssumption
  <2> QED BY <1>1, <2>1 DEF Operation, Waiter
<1>8. slots[id].inflight = 0 => Unloading(id)
  <2>1. slots[id].inflight = 0 => flow' = UnloadFlow(slots', id)
    BY <1>1
  <2> QED BY <1>2, <1>3, <2>1, UnloadFlowFields
<1> QED BY <1>1, <1>3, <1>4, <1>5, <1>6, <1>7, <1>8 DEF UnloadStarts

LEMMA ChatStartsEffect == ASSUME Owned, NEW id \in Models, Chat(id) PROVE ChatStarts(id)
<1>1. /\ Serving /\ slots[id].state = "Ready" /\ slots' = [slots EXCEPT ![id].inflight = @ + 1]
      /\ running' = [running EXCEPT ![id] = @ + 1]
      /\ UNCHANGED <<up, op, reserved, covered, claim, poisoned, breach, flow, marker,
                     engineVars, boundVars>>
  BY DEF Chat
<1>2. slots \in [Models -> Slot] /\ slots[id] \in Slot
  BY ShapeParts DEF Owned
<1>3. slots[id].inflight + 1 \in Nat
  BY <1>2 DEF Slot
<1>4. \A n \in Nat : /\ [slots[id] EXCEPT !.inflight = n] \in Slot
                     /\ Alike([slots[id] EXCEPT !.inflight = n], slots[id])
                     /\ [slots[id] EXCEPT !.inflight = n].inflight = n
  BY <1>2 DEF Slot, Alike
<1>5. /\ slots'[id] = [slots[id] EXCEPT !.inflight = slots[id].inflight + 1]
      /\ \A m \in Models \ {id} : slots'[m] = slots[m]
      /\ slots' = [m \in Models |-> slots'[m]]
  BY <1>1, <1>2
<1>6. slots'[id] \in Slot /\ Alike(slots'[id], slots[id])
      /\ slots'[id].inflight = slots[id].inflight + 1
  BY <1>3, <1>4, <1>5
<1>7. \A m \in Models : slots[m] \in Slot /\ Alike(slots[m], slots[m])
  BY <1>2 DEF Alike
<1>8. \A m \in Models : slots'[m] \in Slot /\ Alike(slots'[m], slots[m])
  BY <1>5, <1>6, <1>7
<1> QED BY <1>1, <1>5, <1>6, <1>8 DEF ChatStarts

Leaves ==
  /\ up # "down" /\ up' = "down" /\ ActorGone /\ marker' = marker
  /\ resident' = resident
  /\ \/ flow' = flow /\ loading' = loading /\ running' = running
     \/ /\ flow' = NoFlow
        /\ \/ loading' = loading
           \/ flow.pc \in {"load", "retry"} /\ loading' = loading \cup {flow.id}

Effect ==
  \/ Joins \/ MarkerAside \/ Works \/ Settling \/ Leaves
  \/ \E id \in Models, policy \in Policies, victims \in SUBSET Models :
       \E mem \in Estimates[id] : Loading(id, policy, mem, victims)
  \/ \E id \in Models : UnloadStarts(id) \/ ChatStarts(id) \/ ChatEnds(id)
  \/ OrphanEnds \/ Start \/ OperatorReset \/ EngineAside \/ UNCHANGED vars

\* Every step keeps the state owned, and is one of the effects above.
LEMMA Steps == ASSUME Owned, [Next]_vars PROVE Owned' /\ Effect
<1>1. CASE LoadCommand
  <2>1. PICK id \in Models, policy \in Policies : \E mem \in Estimates[id] :
          \/ \E c \in Callers : JoinLoad(c, id, policy, mem) \/ StartLoad(c, id, policy, mem)
          \/ RefuseLoadAfterMarker(id, policy, mem)
    BY <1>1 DEF LoadCommand
  <2>2. PICK mem \in Estimates[id] :
          \/ \E c \in Callers : JoinLoad(c, id, policy, mem) \/ StartLoad(c, id, policy, mem)
          \/ RefuseLoadAfterMarker(id, policy, mem)
    BY <2>1
  <2>3. CASE \E c \in Callers : JoinLoad(c, id, policy, mem)
    <3>1. op # None
      BY <2>3 DEF JoinLoad
    <3> QED BY <2>3, <3>1, JoinEffect DEF Effect
  <2>4. CASE \E c \in Callers : StartLoad(c, id, policy, mem)
    <3>1. PICK victims \in SUBSET Models : Loading(id, policy, mem, victims)
      BY <2>4, LoadingEffect DEF Owned, Shape
    <3>2. Owned'
      BY <3>1, OwnedLoading
    <3> QED BY <3>1, <3>2 DEF Effect
  <2>5. CASE RefuseLoadAfterMarker(id, policy, mem)
    <3>1. MarkerAside
      BY <2>5 DEF RefuseLoadAfterMarker, MayLoad, MarkerAside
    <3>2. EngineShape' /\ UNCHANGED <<actorVars, flow, running, boundVars>>
      BY <3>1, ShapeParts DEF Owned, EngineShape, MarkerAside, engineVars
    <3> QED BY <3>1, <3>2, OwnedAside DEF Effect
  <2> QED BY <2>2, <2>3, <2>4, <2>5
<1>2. CASE UnloadCommand
  <2>1. PICK id \in Models, c \in Callers : JoinUnload(c, id) \/ StartUnload(c, id)
    BY <1>2 DEF UnloadCommand
  <2>2. CASE JoinUnload(c, id)
    <3>1. op # None
      BY <2>2 DEF JoinUnload
    <3> QED BY <2>2, <3>1, JoinEffect DEF Effect
  <2>3. CASE StartUnload(c, id)
    BY <2>3, UnloadStartsEffect, OwnedStartUnload DEF Effect
  <2> QED BY <2>1, <2>2, <2>3
<1>3. ASSUME NEW id \in Models, Chat(id) PROVE Owned' /\ Effect
  BY <1>3, ChatStartsEffect, OwnedChat DEF Effect
<1>4. ASSUME NEW id \in Models, ChatDone(id) PROVE Owned' /\ Effect
  BY <1>4, ChatEndsEffect, OwnedChatDone DEF Effect
<1>5. ASSUME NEW id \in Models, EngineLoads(id) \/ EngineUnloads(id) PROVE Owned' /\ Effect
  <2>1. EngineShape' /\ UNCHANGED <<actorVars, flow, running, boundVars>>
    BY <1>5, ShapeParts DEF Owned, EngineShape, EngineLoads, EngineUnloads
  <2> QED BY <1>5, <2>1, OwnedAside DEF Effect, EngineAside
<1>6. CASE FlowStep
  BY <1>6, OwnedTask, TaskEffect, ShapeParts DEF Owned, Effect, Works
<1>7. CASE OpDone
  BY <1>7, OwnedSettling, SettlingEffect DEF Effect
<1>8. CASE Crash
  <2>1. Leaves
    BY <1>8 DEF Crash, Leaves, CallOnTheWire
  <2> QED BY <1>8, <2>1, OwnedEnds DEF Effect
<1>9. CASE Shutdown
  <2>1. Leaves
    BY <1>9 DEF Shutdown, Leaves, engineVars
  <2> QED BY <1>9, <2>1, OwnedEnds DEF Effect
<1>10. CASE OrphanEnds
  BY <1>10, OwnedEnds DEF Effect
<1>11. CASE Start
  BY <1>11, OwnedStart DEF Effect
<1>12. CASE OperatorReset
  <2>1. EngineShape' /\ UNCHANGED <<actorVars, flow, running, boundVars>>
    BY <1>12 DEF OperatorReset, EngineShape
  <2> QED BY <1>12, <2>1, OwnedAside DEF Effect
<1>13. CASE UNCHANGED vars
  <2>1. EngineShape' /\ UNCHANGED <<actorVars, flow, running, boundVars>>
    BY <1>13, ShapeParts DEF Owned, EngineShape, vars, engineVars
  <2> QED BY <1>13, <2>1, OwnedAside DEF Effect
<1> QED BY <1>1, <1>2, <1>3, <1>4, <1>5, <1>6, <1>7, <1>8, <1>9, <1>10, <1>11, <1>12, <1>13
        DEF Next

LEMMA AlwaysOwned == Spec => []Owned
<1>1. Owned /\ [Next]_vars => Owned'
  BY Steps
<1> QED BY <1>1, OwnedInit, PTL DEF Spec

\* The state has its shape (the records of supervisor.rs), and no slot is
\* left Loading or Stopping that the operation in flight will not settle
\* (handle_op_done settles its target and its victims together).
THEOREM TransientsSettle == Spec => []TransientStatesOwned
<1>1. Owned => TransientStatesOwned
  BY DEF Owned, SlotsOfOp, TransientStatesOwned
<1> QED BY <1>1, AlwaysOwned, PTL

\* An unload that reports success has seen its model gone, and only then has
\* it a status to show.
Confirmed ==
  up = "up" /\ Unloads =>
    IF flow.pc = "done" /\ flow.ok THEN flow.status # None /\ op.id \notin flow.status
                                   ELSE flow.status = None

LEMMA ConfirmedMoves ==
  ASSUME Owned, Confirmed, Works, up = "up", Unloads
  PROVE  Confirmed'
<1>1. flow.pc \notin LoadCalls
  BY DEF Owned, TaskOfOp, Unloads
<1>2. /\ up' = up /\ op' = op
      /\ UnloadMoves \/ ConfirmUnloadMoves
  <2>1. ~EvictMoves /\ ~ConfirmEvictMoves /\ ~VerifyMoves /\ ~LoadMoves /\ ~ConfirmOomMoves
        /\ ~CleanupMoves /\ ~ConfirmCleanupMoves /\ ~ProbeMoves /\ ~PanicMoves
    BY <1>1 DEF LoadCalls, EvictMoves, ConfirmEvictMoves, VerifyMoves, LoadMoves,
       ConfirmOomMoves, CleanupMoves, ConfirmCleanupMoves, ProbeMoves, PanicMoves
  <2> QED BY <2>1 DEF Works, Moves, actorVars
<1> USE DEF GoesTo, EndsAs, Moved
<1>3. CASE UnloadMoves
  <2>1. flow.status = None
    BY <1>3 DEF UnloadMoves, Confirmed
  <2> QED BY <1>2, <1>3, <2>1 DEF UnloadMoves, Confirmed
<1>4. CASE ConfirmUnloadMoves
  <2>1. flow.status = None /\ flow.id = op.id
    BY <1>4 DEF ConfirmUnloadMoves, Confirmed, Owned, TaskOfOp
  <2>2. resident # None
    BY NoneAssumption, ShapeParts DEF Owned, EngineShape
  <2> QED BY <1>2, <1>4, <2>1, <2>2 DEF ConfirmUnloadMoves, Released, Confirmed
<1> QED BY <1>2, <1>3, <1>4

LEMMA ConfirmedStep == ASSUME Owned, Confirmed, Effect PROVE Confirmed'
<1>1. CASE Joins
  BY <1>1, NoneAssumption DEF Joins, Confirmed, Unloads, Owned
<1>2. CASE MarkerAside \/ EngineAside \/ OperatorReset \/ UNCHANGED vars
  BY <1>2 DEF MarkerAside, EngineAside, EngineLoads, EngineUnloads, OperatorReset, vars,
              actorVars, Confirmed, Unloads
<1>3. CASE Works
  <2>1. up' = up /\ op' = op
    BY <1>3 DEF Works, actorVars
  <2> QED BY <1>3, <2>1, ConfirmedMoves DEF Confirmed, Unloads
<1>4. CASE Settling \/ Leaves \/ Start \/ OrphanEnds
  BY <1>4 DEF Settling, Leaves, Start, OrphanEnds, actorVars, Confirmed, Unloads,
              Owned, TaskOfOp, ActorGone
<1>5. ASSUME NEW id \in Models, NEW policy \in Policies, NEW victims \in SUBSET Models,
             NEW mem \in Estimates[id], Loading(id, policy, mem, victims)
      PROVE  Confirmed'
  BY <1>5 DEF Loading, Confirmed, Unloads
<1>6. ASSUME NEW id \in Models, UnloadStarts(id) \/ ChatStarts(id) \/ ChatEnds(id)
      PROVE  Confirmed'
  BY <1>6, NoFlowFields DEF UnloadStarts, ChatStarts, ChatEnds, Unloading, Confirmed, Unloads
<1> QED BY <1>1, <1>2, <1>3, <1>4, <1>5, <1>6 DEF Effect

LEMMA AlwaysConfirmed == Spec => []Confirmed
<1>1. Init => Confirmed
  BY DEF Init, Confirmed
<1>2. Owned /\ Confirmed /\ [Next]_vars => Confirmed'
  BY Steps, ConfirmedStep
<1> QED BY <1>1, <1>2, AlwaysOwned, PTL DEF Spec

\* A load or unload caller that was told Ok got what it asked for: the model
\* is Ready under the policy every waiter asked for, or stopped and gone from
\* the status the answer rests on (handle_op_done; handle_load joins only
\* requests that ask for the same).
THEOREM OkIsTrue == Spec => OkMeansDone
<1>1. ASSUME Owned, Confirmed, OpDone, flow.ok
      PROVE  IF op.kind = "load"
             THEN /\ slots'[op.id].state = "Ready"
                  /\ \A w \in op.waiters : slots'[op.id].policy = w.policy
             ELSE slots'[op.id].state = "Stopped" /\ op.id \notin flow.status
  <2>1. Settling
    BY <1>1, SettlingEffect
  <2>2. /\ op # None /\ op.id = flow.id /\ up = "up" /\ flow.pc = "done"
        /\ Settled(slots'[op.id], slots[op.id])
    BY <2>1 DEF Settling, Serving
  <2>3. op.kind \in {"load", "unload"}
    BY <1>1, <2>2 DEF Owned, Shape, Operation
  <2>4. CASE op.kind = "load"
    <3>1. slots'[op.id].state = "Ready" /\ slots'[op.id].policy = slots[op.id].policy
      BY <1>1, <2>2, <2>4 DEF Settled
    <3>2. slots[op.id].policy = op.policy /\ \A w \in op.waiters : w.policy = op.policy
      BY <1>1, <2>2, <2>4 DEF Owned, SlotsOfOp, TaskOfOp, Loads
    <3> QED BY <2>4, <3>1, <3>2
  <2>5. CASE op.kind = "unload"
    <3>1. slots'[op.id].state = "Stopped"
      BY <1>1, <2>2, <2>5 DEF Settled
    <3>2. op.id \notin flow.status
      BY <1>1, <2>2, <2>5 DEF Confirmed, Unloads
    <3> QED BY <2>5, <3>1, <3>2
  <2> QED BY <2>3, <2>4, <2>5
<1>2. Owned /\ Confirmed /\ [Next]_vars =>
        [OpDone /\ flow.ok =>
           IF op.kind = "load"
           THEN /\ slots'[op.id].state = "Ready"
                /\ \A w \in op.waiters : slots'[op.id].policy = w.policy
           ELSE slots'[op.id].state = "Stopped" /\ op.id \notin flow.status]_vars
  BY <1>1
<1> QED BY <1>2, AlwaysOwned, AlwaysConfirmed, PTL DEF Spec, OkMeansDone

\* A slot whose load may still allocate is never reused, released or given a
\* discount while this actor lives: no later load, eviction, unload or report
\* touches it (the unconfirmed guards of handle_load, begin_unload and
\* eviction_snapshot).
THEOREM UnconfirmedHeld == Spec => UnconfirmedStays
<1>1. ASSUME Owned, Effect, NEW m \in Models, up = "up", up' = "up", slots[m].unconfirmed
      PROVE  slots'[m].unconfirmed /\ slots'[m].state = "Error" /\ slots'[m].mem >= slots[m].mem
  <2>1. slots[m].state = "Error" /\ slots[m].mem \in Nat
    BY <1>1, ShapeParts DEF Owned, SlotsOfOp, SlotRule, Slot
  <2>2. slots'[m] = slots[m] \/ Alike(slots'[m], slots[m])
    <3>1. CASE Joins \/ MarkerAside \/ EngineAside \/ OperatorReset \/ UNCHANGED vars \/ Works
      BY <3>1 DEF Joins, MarkerAside, EngineAside, EngineLoads, EngineUnloads, OperatorReset,
                  vars, actorVars, Works
    <3>2. CASE Settling
      <4>1. m # op.id /\ m \notin flow.victims /\ op.id = flow.id
        BY <1>1, <3>2 DEF Settling, Owned, SlotsOfOp
      <4> QED BY <3>2, <4>1 DEF Settling
    <3>3. CASE Leaves \/ Start \/ OrphanEnds
      BY <1>1, <3>3 DEF Leaves, Start, OrphanEnds
    <3>4. ASSUME NEW id \in Models, NEW policy \in Policies, NEW victims \in SUBSET Models,
                 NEW mem \in Estimates[id], Loading(id, policy, mem, victims)
          PROVE  slots'[m] = slots[m]
      <4>1. m # id
        BY <1>1, <3>4 DEF Loading, MayLoad
      <4>2. victims \in LoadPlans(id, mem)
        BY <3>4 DEF Loading
      <4>3. m \notin victims
        BY <1>1, <4>2, VictimsOf
      <4> QED BY <3>4, <4>1, <4>3 DEF Loading
    <3>5. ASSUME NEW id \in Models, UnloadStarts(id) \/ ChatStarts(id) \/ ChatEnds(id)
          PROVE  slots'[m] = slots[m] \/ Alike(slots'[m], slots[m])
      BY <1>1, <3>5 DEF UnloadStarts, ChatStarts, ChatEnds
    <3> QED BY <1>1, <3>1, <3>2, <3>3, <3>4, <3>5 DEF Effect
  <2>3. /\ slots'[m].mem = slots[m].mem /\ slots'[m].state = "Error"
        /\ slots'[m].unconfirmed = slots[m].unconfirmed
    BY <2>1, <2>2 DEF Alike
  <2> QED BY <1>1, <2>1, <2>3
<1>2. Owned /\ [Next]_vars =>
        [\A m \in Models :
           up = "up" /\ up' = "up" /\ slots[m].unconfirmed =>
             slots'[m].unconfirmed /\ slots'[m].state = "Error"
             /\ slots'[m].mem >= slots[m].mem]_vars
  BY <1>1, Steps
<1> QED BY <1>2, AlwaysOwned, PTL DEF Spec, UnconfirmedStays

-----------------------------------------------------------------------------
(* The fence and the engine's loads                                        *)

\* Only the load in flight may be allocating, only between its call and its
\* answer, and never without the marker.
Fenced ==
  /\ loading # {} => marker
  /\ flow.pc \in LoadCalls => marker /\ loading \subseteq {flow.id}
  /\ flow.pc \in LoadCalls \ {"probe", "cleanup"} => loading = {}
  /\ flow.pc = "cleanup" => flow.why # "none" /\ (flow.why = "ended" => loading = {})

\* Steps that leave the fence alone and make no call of a load.
LEMMA FencedKeeps ==
  ASSUME Fenced, marker' = marker, loading' \subseteq loading,
         flow' = flow \/ flow'.pc \notin LoadCalls
  PROVE  Fenced'
BY DEF Fenced, LoadCalls

LEMMA FencedMoves == ASSUME Owned, Fenced, Moves PROVE Fenced'
<1>1. /\ flow'.id = flow.id /\ flow.pc \in LoadCalls \cup UnloadCalls
      /\ flow.pc \in UnloadCalls => flow'.pc \in UnloadCalls \cup {"done"}
  BY MovesKeep
<1> USE DEF Moved, GoesTo, EndsAs, EndsCleared, Doubted, EndsReleased, LoadCalls
<1>2. CASE EvictMoves
  BY <1>1, <1>2 DEF Fenced, EvictMoves, EngineSame
<1>3. CASE ConfirmEvictMoves
  BY <1>1, <1>3 DEF Fenced, ConfirmEvictMoves
<1>4. CASE VerifyMoves
  BY <1>1, <1>4 DEF Fenced, VerifyMoves
<1>5. CASE LoadMoves
  <2>1. loading = {} /\ marker /\ flow.pc \in {"load", "retry"}
    BY <1>5 DEF LoadMoves, Fenced
  <2>2. CASE AcceptedMoves BY <1>1, <2>1, <2>2 DEF Fenced, AcceptedMoves
  <2>3. CASE RejectedMoves BY <1>1, <2>1, <2>3 DEF Fenced, RejectedMoves
  <2>4. CASE OomMoves BY <1>1, <2>1, <2>4 DEF Fenced, OomMoves
  <2>5. CASE LostMoves BY <1>1, <2>1, <2>5 DEF Fenced, LostMoves
  <2> QED BY <1>5, <2>2, <2>3, <2>4, <2>5 DEF LoadMoves
<1>6. CASE ConfirmOomMoves
  BY <1>1, <1>6 DEF Fenced, ConfirmOomMoves
<1>7. CASE CleanupMoves
  <2>1. flow.why \in {"none", "ended", "unknown"}
    BY ShapeParts DEF Owned, TaskShape, Task
  <2> QED BY <1>1, <1>7, <2>1 DEF Fenced, CleanupMoves
<1>8. CASE ConfirmCleanupMoves
  BY <1>1, <1>8 DEF Fenced, ConfirmCleanupMoves
<1>9. CASE ProbeMoves
  BY <1>1, <1>9 DEF Fenced, ProbeMoves
<1>10. CASE PanicMoves
  BY <1>1, <1>10 DEF Fenced, PanicMoves
<1>11. CASE UnloadMoves \/ ConfirmUnloadMoves
  BY <1>1, <1>11, FencedKeeps DEF UnloadMoves, ConfirmUnloadMoves, EngineSame, UnloadCalls
<1> QED BY <1>2, <1>3, <1>4, <1>5, <1>6, <1>7, <1>8, <1>9, <1>10, <1>11 DEF Moves

LEMMA FencedStep == ASSUME Owned, Fenced, Effect PROVE Fenced'
<1>1. CASE Joins \/ UNCHANGED vars
  BY <1>1, FencedKeeps DEF Joins, vars, engineVars
<1>2. CASE MarkerAside
  BY <1>2 DEF MarkerAside, Fenced, engineVars
<1>3. CASE Works
  BY <1>3, FencedMoves DEF Works
<1>4. CASE Settling
  BY <1>4, FencedKeeps, NoFlowFields DEF Settling, engineVars, LoadCalls
<1>5. CASE Leaves
  <2>1. CASE flow' = flow /\ loading' = loading
    BY <1>5, <2>1, FencedKeeps DEF Leaves
  <2>2. CASE flow' = NoFlow /\ loading' = loading
    BY <1>5, <2>2, FencedKeeps, NoFlowFields DEF Leaves, LoadCalls
  <2>3. CASE flow' = NoFlow /\ flow.pc \in {"load", "retry"}
    BY <1>5, <2>3, NoFlowFields DEF Leaves, Fenced, LoadCalls
  <2> QED BY <1>5, <2>1, <2>2, <2>3 DEF Leaves
<1>6. ASSUME NEW id \in Models, NEW policy \in Policies, NEW victims \in SUBSET Models,
             NEW mem \in Estimates[id], Loading(id, policy, mem, victims)
      PROVE  Fenced'
  <2>1. loading = {} /\ loading' = loading /\ marker'
    BY <1>6 DEF Loading, Fenced, engineVars
  <2>2. flow'.pc \in {"evict", "verify", "load"}
    BY <1>6 DEF Loading
  <2> QED BY <2>1, <2>2 DEF Fenced
<1>7. ASSUME NEW id \in Models, UnloadStarts(id) \/ ChatStarts(id) \/ ChatEnds(id)
      PROVE  Fenced'
  <2>1. marker' = marker /\ loading' = loading
    BY <1>7 DEF UnloadStarts, ChatStarts, ChatEnds, engineVars
  <2>2. flow' = flow \/ flow'.pc \in {"idle", "unload"}
    BY <1>7, NoFlowFields DEF UnloadStarts, ChatStarts, ChatEnds, Unloading
  <2> QED BY <2>1, <2>2, FencedKeeps DEF LoadCalls
<1>8. CASE OrphanEnds \/ Start
  BY <1>8, FencedKeeps, NoFlowFields DEF OrphanEnds, Start, engineVars, LoadCalls
<1>9. CASE OperatorReset
  BY <1>9, NoFlowFields DEF OperatorReset, Locked, Fenced, LoadCalls
<1>10. CASE EngineAside
  BY <1>10, FencedKeeps DEF EngineAside, EngineLoads, EngineUnloads
<1> QED BY <1>1, <1>2, <1>3, <1>4, <1>5, <1>6, <1>7, <1>8, <1>9, <1>10 DEF Effect

LEMMA AlwaysFenced == Spec => []Fenced
<1>1. Init => Fenced
  BY NoFlowFields DEF Init, Fenced, LoadCalls
<1>2. Owned /\ Fenced /\ [Next]_vars => Fenced'
  BY Steps, FencedStep
<1> QED BY <1>1, <1>2, AlwaysOwned, PTL DEF Spec

\* While the engine may still be allocating a load, the fence file exists: a
\* router started after a crash finds it and refuses to load beside it
\* (LoadFence::begin before the call, clear only after a definite end).
THEOREM FenceHolds == Spec => []FenceCoversEngineLoad
<1>1. Fenced => FenceCoversEngineLoad
  BY DEF Fenced, FenceCoversEngineLoad
<1> QED BY <1>1, AlwaysFenced, PTL
-----------------------------------------------------------------------------
(* A load that is admitted, slot by slot                                   *)

Admitted(id, mem, victims) ==
  /\ slots'[id].state = "Loading" /\ slots'[id].mem = RequestCharge(id, mem)
  /\ slots'[id].inflight = 0 /\ slots'[id].unconfirmed = FALSE
  /\ slots'[id].inherited = slots[id].inherited
  /\ \A v \in victims :
       /\ v \in Models \ {id} /\ slots[v].state \in {"Ready", "Error"}
       /\ slots[v].inflight = 0 /\ ~slots[v].unconfirmed /\ ~slots[v].inherited
       /\ slots'[v].state = "Stopping" /\ slots'[v].mem = slots[v].mem
       /\ slots'[v].inflight = 0 /\ ~slots'[v].unconfirmed /\ ~slots'[v].inherited
  /\ \A m \in Models \ (victims \cup {id}) : slots'[m] = slots[m]
  /\ up = "up" /\ ~poisoned /\ op = None /\ flow = NoFlow
  /\ ~slots[id].unconfirmed /\ slots[id].inflight = 0
  /\ flow'.inherited = slots[id].inherited
  /\ PrevOf(slots[id]) # None =>
       PrevOf(slots[id]) = slots[id] /\ slots[id].state \in {"Ready", "Error"}
  /\ slots[id].inherited => PrevOf(slots[id]) # None
  /\ \A m \in Models : slots[m].state \notin {"Launching", "Loading", "Stopping"}

LEMMA LoadingSlots ==
  ASSUME Owned, NEW id \in Models, NEW policy \in Policies, NEW mem \in Estimates[id],
         NEW victims \in SUBSET Models, Loading(id, policy, mem, victims)
  PROVE  Admitted(id, mem, victims)
<1>1. /\ Serving /\ op = None /\ ~slots[id].unconfirmed /\ slots[id].inflight = 0
      /\ up = "up" /\ ~poisoned
  BY DEF Loading, MayLoad, Serving
<1>2. slots[id] \in Slot /\ \A m \in Models : slots[m] \in Slot
  BY ShapeParts DEF Owned
<1>3. \A m \in Models : slots[m].state \notin {"Launching", "Loading", "Stopping"}
                        /\ SlotRule(m, slots[m])
  BY <1>1 DEF Owned, SlotsOfOp
<1>4. PrevOf(slots[id]) # None =>
        PrevOf(slots[id]) = slots[id] /\ slots[id].state \in {"Ready", "Error"}
  BY <1>2, <1>3 DEF PrevOf, Occupies, Slot, ModelState
<1>5. slots[id].inherited => PrevOf(slots[id]) # None
  BY <1>2, <1>3, NoneAssumption DEF PrevOf, SlotRule
<1>6. flow'.inherited = slots[id].inherited
  BY <1>2, <1>5 DEF Loading, Slot
<1>7. /\ slots'[id].state = "Loading" /\ slots'[id].mem = RequestCharge(id, mem)
      /\ slots'[id].inflight = 0
      /\ slots'[id].unconfirmed = FALSE /\ slots'[id].inherited = slots[id].inherited
  BY <1>2 DEF Loading, Slot
<1>8. \A v \in victims :
        /\ v \in Models \ {id} /\ slots[v].state \in {"Ready", "Error"}
        /\ slots[v].inflight = 0 /\ ~slots[v].unconfirmed /\ ~slots[v].inherited
  <2>1. victims \in LoadPlans(id, mem)
    BY DEF Loading
  <2> QED BY <2>1, VictimsOf
<1>9. ASSUME NEW v \in victims
      PROVE  /\ slots'[v].state = "Stopping" /\ slots'[v].mem = slots[v].mem
             /\ slots'[v].inflight = 0 /\ ~slots'[v].unconfirmed /\ ~slots'[v].inherited
  <2>1. slots[v] \in Slot /\ slots'[v] = [slots[v] EXCEPT !.state = "Stopping"]
    BY <1>2, <1>8 DEF Loading
  <2>2. slots[v].inflight = 0 /\ ~slots[v].unconfirmed /\ ~slots[v].inherited
    BY <1>8
  <2> QED BY <2>1, <2>2 DEF Slot
<1>10. \A m \in Models \ (victims \cup {id}) : slots'[m] = slots[m]
  BY DEF Loading
<1>11. flow = NoFlow
  BY <1>1 DEF Owned, TaskOfOp
<1> QED BY <1>1, <1>3, <1>4, <1>5, <1>6, <1>7, <1>8, <1>9, <1>10, <1>11 DEF Admitted

-----------------------------------------------------------------------------
(* Chats and the calls that would take their model away                    *)

\* The counters are the chats, and no task works on a model with a chat.
Quiet ==
  /\ up = "up" /\ ~poisoned => \A m \in Models : slots[m].inflight = running[m]
  /\ up = "up" /\ flow.pc # "idle" => \A m \in {flow.id} \cup flow.victims : running[m] = 0

\* Steps that leave the chats alone and start no work.
LEMMA QuietKeeps ==
  ASSUME Quiet, UNCHANGED <<running, up, poisoned>>,
         \A m \in Models : slots'[m].inflight = slots[m].inflight,
         \/ flow'.pc = "idle"
         \/ flow.pc # "idle" /\ flow'.id = flow.id /\ flow'.victims = flow.victims
  PROVE  Quiet'
BY DEF Quiet

LEMMA QuietLoading ==
  ASSUME Owned, Quiet, NEW id \in Models, NEW policy \in Policies, NEW mem \in Estimates[id],
         NEW victims \in SUBSET Models, Loading(id, policy, mem, victims)
  PROVE  Quiet'
<1>1. /\ slots'[id].inflight = 0 /\ slots[id].inflight = 0
      /\ \A v \in victims : slots[v].inflight = 0 /\ slots'[v].inflight = 0
      /\ \A m \in Models \ (victims \cup {id}) : slots'[m] = slots[m]
      /\ up = "up" /\ ~poisoned
  <2>1. Admitted(id, mem, victims)
    BY LoadingSlots
  <2> QED BY <2>1 DEF Admitted
<1>2. \A m \in Models : slots'[m].inflight = slots[m].inflight
  BY <1>1
<1>3. \A m \in {id} \cup victims : running[m] = 0
  BY <1>1 DEF Quiet
<1>4. /\ UNCHANGED <<up, poisoned, running>> /\ flow'.id = id /\ flow'.victims = victims
  BY DEF Loading
<1> QED BY <1>1, <1>2, <1>3, <1>4 DEF Quiet

LEMMA QuietChats ==
  ASSUME Owned, Quiet, NEW id \in Models, ChatStarts(id) \/ ChatEnds(id)
  PROVE  Quiet'
<1>1. running \in [Models -> Nat] /\ slots \in [Models -> Slot]
  BY ShapeParts DEF Owned
<1>2. CASE ChatStarts(id)
  <2>1. /\ Serving /\ slots[id].state = "Ready" /\ UNCHANGED <<up, op, poisoned, flow>>
        /\ slots'[id].inflight = slots[id].inflight + 1
        /\ \A m \in Models \ {id} : slots'[m] = slots[m]
        /\ running' = [running EXCEPT ![id] = @ + 1]
    BY <1>2 DEF ChatStarts
  <2>2. flow.pc # "idle" => id \notin {flow.id} \cup flow.victims
    <3>1. ASSUME flow.pc # "idle" PROVE op # None /\ op.id = flow.id
      BY <2>1, <3>1 DEF Owned, TaskOfOp, Serving
    <3> QED BY <2>1, <3>1 DEF Owned, SlotsOfOp
  <2>3. flow.pc # "idle" => flow.id \in Models /\ flow.victims \subseteq Models
    BY ShapeParts DEF Owned, TaskOfOp, TaskShape, Task
  <2>4. running'[id] = running[id] + 1 /\ \A m \in Models \ {id} : running'[m] = running[m]
    BY <1>1, <2>1
  <2> QED BY <2>1, <2>2, <2>3, <2>4 DEF Quiet, Serving
<1>3. CASE ChatEnds(id)
  <2>1. /\ UNCHANGED <<up, poisoned>> /\ running[id] > 0
        /\ running' = [running EXCEPT ![id] = @ - 1]
        /\ \A m \in Models \ {id} : slots'[m] = slots[m]
        /\ Serving => slots'[id].inflight = AtLeast0(slots[id].inflight - 1)
        /\ \/ flow' = flow
           \/ Serving /\ slots'[id].inflight = 0 /\ flow'.id = id /\ flow'.victims = {}
    BY <1>3 DEF ChatEnds, Unloading
  <2>2. /\ running'[id] = running[id] - 1 /\ running[id] \in Nat
        /\ \A m \in Models \ {id} : running'[m] = running[m]
    BY <1>1, <2>1
  <2>3. up = "up" /\ ~poisoned => \A m \in Models : slots'[m].inflight = running'[m]
    BY <2>1, <2>2 DEF Quiet, Serving, AtLeast0
  <2>4. CASE flow' = flow
    <3>1. flow.pc # "idle" => flow.id \in Models /\ flow.victims \subseteq Models
      BY ShapeParts DEF Owned, TaskOfOp, TaskShape, Task
    <3>2. up = "up" /\ flow.pc # "idle" =>
            \A m \in {flow.id} \cup flow.victims : running[m] = 0 /\ running'[m] = 0
      BY <2>1, <2>2, <3>1 DEF Quiet
    <3> QED BY <2>1, <2>3, <2>4, <3>2 DEF Quiet
  <2>5. CASE Serving /\ slots'[id].inflight = 0 /\ flow'.id = id /\ flow'.victims = {}
    <3>1. running'[id] = 0
      BY <2>3, <2>5 DEF Serving
    <3> QED BY <2>1, <2>3, <2>5, <3>1 DEF Quiet
  <2> QED BY <2>1, <2>4, <2>5
<1> QED BY <1>2, <1>3

LEMMA QuietStep == ASSUME Owned, Quiet, Effect PROVE Quiet'
<1>1. CASE Joins \/ UNCHANGED vars \/ MarkerAside \/ OperatorReset \/ EngineAside
  BY <1>1, QuietKeeps DEF Joins, vars, actorVars, MarkerAside, OperatorReset, EngineAside,
                          EngineLoads, EngineUnloads, Quiet
<1>2. CASE Works
  <2>1. flow'.id = flow.id /\ flow'.victims = flow.victims
        /\ flow.pc \in LoadCalls \cup UnloadCalls
    BY <1>2, MovesKeep DEF Works
  <2> QED BY <1>2, <2>1, QuietKeeps DEF Works, actorVars, LoadCalls, UnloadCalls
<1>3. CASE Settling
  <2>1. \A m \in Models : slots'[m].inflight = slots[m].inflight
    BY <1>3 DEF Settling, Settled
  <2>2. up' = up /\ running' = running /\ ~poisoned /\ flow'.pc = "idle"
    BY <1>3, NoFlowFields DEF Settling, Serving
  <2> QED BY <2>1, <2>2 DEF Quiet
<1>4. CASE Leaves
  BY <1>4 DEF Leaves, Quiet
<1>5. CASE OrphanEnds
  BY <1>5 DEF OrphanEnds, Quiet, actorVars
<1>6. CASE Start
  <2>1. CASE up' = "up"
    <3>1. ~Locked /\ flow' = flow /\ running' = running
      BY <1>6, <2>1 DEF Start
    <3>2. \A m \in Models : Adopted(slots'[m])
      BY <1>6, <2>1 DEF Start, Adopted
    <3>3. \A m \in Models : running[m] = 0
      BY <3>1, ShapeParts DEF Owned, Locked
    <3>4. flow'.pc = "idle"
      BY <3>1, NoFlowFields DEF Locked
    <3> QED BY <3>1, <3>2, <3>3, <3>4, AdoptedIs DEF Quiet
  <2>2. CASE up' # "up"
    BY <2>2 DEF Quiet
  <2> QED BY <2>1, <2>2
<1>7. ASSUME NEW id \in Models, UnloadStarts(id) PROVE Quiet'
  <2>1. /\ UNCHANGED <<up, running, poisoned>> /\ Serving
        /\ \A m \in Models : slots'[m].inflight = slots[m].inflight
        /\ IF slots[id].inflight = 0 THEN flow'.id = id /\ flow'.victims = {} ELSE flow' = NoFlow
    BY <1>7 DEF UnloadStarts, Unloading
  <2>2. slots[id].inflight = running[id]
    BY <2>1 DEF Quiet, Serving
  <2> QED BY <2>1, <2>2, NoFlowFields DEF Quiet
<1> QED BY <1>1, <1>2, <1>3, <1>4, <1>5, <1>6, <1>7, QuietLoading, QuietChats DEF Effect

LEMMA AlwaysQuiet == Spec => []Quiet
<1>1. Init => Quiet
  BY NoFlowFields DEF Init, Quiet
<1>2. Owned /\ Quiet /\ [Next]_vars => Quiet'
  BY Steps, QuietStep
<1> QED BY <1>1, <1>2, AlwaysOwned, PTL DEF Spec

\* The engine is never told to unload or to replace a model a chat is using,
\* whatever loads, evictions, unloads and chats interleave (the inflight
\* guards of handle_load, begin_unload and plan_eviction, handle_chat_done).
THEOREM ChatsUndisturbed == Spec => []NoUnloadUnderChat
<1>1. Owned /\ Quiet => NoUnloadUnderChat
  BY DEF Owned, TaskOfOp, Quiet, NoUnloadUnderChat
<1> QED BY <1>1, AlwaysOwned, AlwaysQuiet, PTL
-----------------------------------------------------------------------------
(* What a confirmed release means                                          *)

Engine == resident \cup loading

\* A slot that was given back, a victim counted as freed and a load reported
\* as stopped have left the engine; a load with an open end is remembered.
Releases ==
  up = "up" =>
  /\ \A m \in Models : slots[m].state \in {"Absent", "Stopped"} => m \notin Engine
  /\ \A m \in loading :
       \/ slots[m].unconfirmed
       \/ m = flow.id /\ flow.pc \in {"probe", "cleanup"}
       \/ m = flow.id /\ flow.pc = "done" /\ ~flow.ok /\ flow.outcome = "unconfirmed"
  /\ flow.pc \notin {"evict", "confirmEvict"} => flow.freed \cap Engine = {}
  /\ flow.pc \in {"evict", "confirmEvict", "load", "retry"} /\ flow.prev = None =>
       flow.id \notin Engine
  /\ flow.pc = "done" /\ (IF flow.ok THEN op.kind = "unload" ELSE flow.outcome = "stopped") =>
       flow.id \notin Engine

\* Only a load's own call adds to the engine, and only its own model.
LEMMA MovesGrow ==
  ASSUME Moves, ~DirtyRetryOom
  PROVE  /\ Engine' \subseteq Engine \cup {flow.id}
         /\ flow.pc \notin {"load", "retry"} => Engine' = Engine /\ loading' = loading
<1> USE DEF EngineSame, Engine
<1>1. CASE LoadMoves
  BY <1>1 DEF LoadMoves, AcceptedMoves, RejectedMoves, OomMoves, LostMoves
<1>2. CASE PanicMoves
  BY <1>2 DEF PanicMoves
<1>3. CASE EvictMoves \/ ConfirmEvictMoves \/ VerifyMoves
  BY <1>3 DEF EvictMoves, ConfirmEvictMoves, VerifyMoves
<1>4. CASE ConfirmOomMoves \/ CleanupMoves \/ ConfirmCleanupMoves \/ ProbeMoves
  BY <1>4 DEF ConfirmOomMoves, CleanupMoves, ConfirmCleanupMoves, ProbeMoves
<1>5. CASE UnloadMoves \/ ConfirmUnloadMoves
  BY <1>5 DEF UnloadMoves, ConfirmUnloadMoves
<1> QED BY <1>1, <1>2, <1>3, <1>4, <1>5 DEF Moves

\* A load that has ended with a definite answer has nothing left to allocate.
LEMMA DefiniteEnd ==
  ASSUME Owned, Fenced, Moves, flow.pc \in LoadCalls, flow'.pc = "done",
         flow'.ok \/ flow'.outcome # "unconfirmed"
  PROVE  loading' = {}
<1>1. loading \subseteq {flow.id}
      /\ (flow.pc \notin {"probe", "cleanup"} => loading = {})
  BY DEF Fenced
<1> USE DEF Moved, GoesTo, EndsAs, EndsCleared, Doubted, EndsReleased, LoadCalls
<1>2. CASE LoadMoves
  BY <1>1, <1>2 DEF LoadMoves, AcceptedMoves, RejectedMoves, OomMoves, LostMoves
<1>3. CASE EvictMoves \/ ConfirmEvictMoves \/ VerifyMoves
  BY <1>1, <1>3 DEF EvictMoves, ConfirmEvictMoves, VerifyMoves
<1>4. CASE ConfirmOomMoves \/ ConfirmCleanupMoves
  BY <1>1, <1>4 DEF ConfirmOomMoves, ConfirmCleanupMoves
<1>5. CASE CleanupMoves
  <2>1. flow.why # "unknown" => loading = {}
    <3>1. flow.why \in {"none", "ended", "unknown"}
      BY ShapeParts DEF Owned, TaskShape, Task
    <3> QED BY <1>5, <3>1 DEF CleanupMoves, Fenced
  <2> QED BY <1>5, <2>1 DEF CleanupMoves
<1>6. CASE ProbeMoves
  BY <1>1, <1>6 DEF ProbeMoves
<1>7. CASE PanicMoves
  BY <1>7 DEF PanicMoves
<1>8. CASE UnloadMoves \/ ConfirmUnloadMoves
  BY <1>8 DEF UnloadMoves, ConfirmUnloadMoves
<1> QED BY <1>2, <1>3, <1>4, <1>5, <1>6, <1>7, <1>8 DEF Moves

LEMMA ReleasesFreed ==
  ASSUME Owned, Fenced, Releases, up = "up", Moves, ~DirtyRetryOom,
         flow'.pc \notin {"evict", "confirmEvict"}
  PROVE  flow'.freed \cap Engine' = {}
<1>1. /\ Engine' \subseteq Engine \cup {flow.id}
      /\ flow.pc \notin {"load", "retry"} => Engine' = Engine
  BY MovesGrow
<1>2. flow.id \notin flow.victims /\ flow.freed \subseteq flow.victims
  <2>1. flow.pc # "idle"
    BY MovesKeep DEF LoadCalls, UnloadCalls
  <2> QED BY <2>1, ShapeParts DEF Owned, TaskOfOp, TaskShape
<1> USE DEF Moved, GoesTo, EndsAs, EndsCleared, Doubted, EndsReleased
<1>3. CASE EvictMoves
  BY <1>3 DEF EvictMoves
<1>4. CASE ConfirmEvictMoves
  <2>1. loading = {} /\ Engine' = resident
    BY <1>1, <1>4 DEF ConfirmEvictMoves, Fenced, LoadCalls, Engine
  <2>2. PICK freed \in SUBSET flow.victims :
          /\ flow'.freed = freed
          /\ freed = {} \/ resident \cap flow.victims = {}
    BY <1>4, <1>2 DEF ConfirmEvictMoves, Released
  <2> QED BY <2>1, <2>2
<1>5. CASE PanicMoves
  BY <1>5 DEF PanicMoves
<1>6. CASE \/ VerifyMoves \/ LoadMoves \/ ConfirmOomMoves \/ CleanupMoves
           \/ ConfirmCleanupMoves \/ ProbeMoves \/ UnloadMoves \/ ConfirmUnloadMoves
  <2>1. flow'.freed = flow.freed /\ flow.pc \notin {"evict", "confirmEvict"}
    BY <1>6 DEF VerifyMoves, LoadMoves, AcceptedMoves, RejectedMoves, OomMoves, LostMoves,
                ConfirmOomMoves, CleanupMoves, ConfirmCleanupMoves, ProbeMoves, UnloadMoves,
                ConfirmUnloadMoves
  <2> QED BY <1>1, <1>2, <2>1 DEF Releases
<1> QED BY <1>3, <1>4, <1>5, <1>6 DEF Moves

LEMMA ReleasesTarget ==
  ASSUME Owned, Fenced, Releases, up = "up", Moves, ~DirtyRetryOom
  PROVE  /\ flow'.pc \in {"evict", "confirmEvict", "load", "retry"} /\ flow'.prev = None =>
              flow'.id \notin Engine'
         /\ flow'.pc = "done" /\ (IF flow'.ok THEN op.kind = "unload"
                                  ELSE flow'.outcome = "stopped") =>
              flow'.id \notin Engine'
<1>1. flow.pc \notin {"load", "retry"} => Engine' = Engine
  BY MovesGrow
<1>2. flow'.id = flow.id /\ (flow.pc \in LoadCalls => op.kind = "load")
  BY MovesKeep DEF Owned, TaskOfOp
<1> USE DEF Moved, GoesTo, EndsAs, EndsCleared, Doubted, EndsReleased, RejectedOutcome,
            RetainedOutcome, LoadCalls
<1>3. CASE EvictMoves
  BY <1>1, <1>2, <1>3 DEF EvictMoves, Releases
<1>4. CASE ConfirmEvictMoves
  BY <1>1, <1>2, <1>4 DEF ConfirmEvictMoves, Releases
<1>5. CASE VerifyMoves
  <2>1. flow.prev # None
    BY <1>5 DEF VerifyMoves, Owned, Past
  <2> QED BY <1>1, <1>2, <1>5, <2>1 DEF VerifyMoves
<1>6. CASE LoadMoves
  <2>1. flow.pc \in {"load", "retry"} /\ (flow.prev = None => flow.id \notin Engine)
    BY <1>6 DEF LoadMoves, Releases
  <2>2. CASE AcceptedMoves BY <2>2 DEF AcceptedMoves
  <2>3. CASE RejectedMoves BY <1>2, <2>1, <2>3 DEF RejectedMoves, Engine
  <2>4. CASE OomMoves BY <1>2, <2>1, <2>4 DEF OomMoves, Engine
  <2>5. CASE LostMoves BY <2>5 DEF LostMoves
  <2> QED BY <1>6, <2>2, <2>3, <2>4, <2>5 DEF LoadMoves
<1>7. CASE ConfirmOomMoves
  <2>1. loading = {} /\ (Released({flow.id}, flow.absent) => flow.id \notin resident)
    BY <1>7 DEF ConfirmOomMoves, Fenced, Released
  <2> QED BY <1>1, <1>2, <1>7, <2>1 DEF ConfirmOomMoves, Engine
<1>8. CASE CleanupMoves
  BY <1>8 DEF CleanupMoves
<1>9. CASE ConfirmCleanupMoves
  <2>1. loading = {} /\ (Released({flow.id}, flow.absent) => flow.id \notin resident)
    BY <1>9 DEF ConfirmCleanupMoves, Fenced, Released
  <2> QED BY <1>1, <1>2, <1>9, <2>1 DEF ConfirmCleanupMoves, Engine
<1>10. CASE ProbeMoves
  BY <1>2, <1>10 DEF ProbeMoves
<1>11. CASE PanicMoves
  BY <1>11 DEF PanicMoves
<1>12. CASE UnloadMoves
  BY <1>12 DEF UnloadMoves
<1>13. CASE ConfirmUnloadMoves
  <2>1. ~slots[flow.id].unconfirmed
    BY <1>13 DEF ConfirmUnloadMoves, Owned, TaskOfOp, SlotsOfOp
  <2>2. flow.id \notin loading
    BY <1>13, <2>1 DEF ConfirmUnloadMoves, Releases
  <2> QED BY <1>1, <1>2, <1>13, <2>2 DEF ConfirmUnloadMoves, Released, Engine
<1> QED BY <1>3, <1>4, <1>5, <1>6, <1>7, <1>8, <1>9, <1>10, <1>11, <1>12, <1>13 DEF Moves

LEMMA ReleasesMoves ==
  ASSUME Owned, Fenced, Fenced', Releases, Works, ~DirtyRetryOom
  PROVE  Releases'
<1> SUFFICES ASSUME up' = "up" PROVE Releases'
  BY DEF Releases
<1>1. /\ Moves /\ up = "up" /\ slots' = slots /\ op' = op
  BY DEF Works, actorVars
<1>2. /\ flow.pc \in LoadCalls \cup UnloadCalls /\ flow'.id = flow.id
      /\ flow.pc \in LoadCalls => flow'.pc \in LoadCalls \cup {"done"}
      /\ flow.pc \in UnloadCalls => flow'.pc \in UnloadCalls \cup {"done"}
  BY <1>1, MovesKeep
<1>3. Engine' \subseteq Engine \cup {flow.id}
      /\ (flow.pc \notin {"load", "retry"} => loading' = loading)
  BY <1>1, MovesGrow
<1>4. slots[flow.id].state \in {"Loading", "Stopping"} /\ op # None /\ flow.id = op.id
  <2>1. op # None /\ flow.id = op.id
    BY <1>1, <1>2 DEF Owned, TaskOfOp, LoadCalls, UnloadCalls
  <2> QED BY <2>1 DEF Owned, SlotsOfOp
<1>5. \A m \in Models : slots'[m].state \in {"Absent", "Stopped"} => m \notin Engine'
  BY <1>1, <1>3, <1>4 DEF Releases
<1>6. \A m \in loading' :
        \/ slots'[m].unconfirmed
        \/ m = flow'.id /\ flow'.pc \in {"probe", "cleanup"}
        \/ m = flow'.id /\ flow'.pc = "done" /\ ~flow'.ok /\ flow'.outcome = "unconfirmed"
  <2>1. CASE flow'.pc \in LoadCalls
    BY <2>1 DEF Fenced, LoadCalls
  <2>2. CASE flow.pc \in UnloadCalls
    BY <1>1, <1>3, <2>2 DEF Releases, UnloadCalls
  <2>3. CASE flow.pc \in LoadCalls /\ flow'.pc = "done" /\ (flow'.ok \/ flow'.outcome # "unconfirmed")
    BY <1>1, <2>3, DefiniteEnd
  <2>4. CASE /\ flow.pc \in LoadCalls /\ flow'.pc = "done" /\ ~flow'.ok
             /\ flow'.outcome = "unconfirmed"
    <3>1. loading \subseteq {flow.id} /\ (flow.pc \in {"load", "retry"} => loading = {})
      BY <2>4 DEF Fenced, LoadCalls
    <3>2. loading' \subseteq {flow.id}
      <4>1. CASE LoadMoves
        BY <4>1, <3>1 DEF LoadMoves, AcceptedMoves, RejectedMoves, OomMoves, LostMoves
      <4>2. CASE PanicMoves
        BY <4>2, <3>1 DEF PanicMoves
      <4>3. CASE flow.pc \notin {"load", "retry"}
        BY <1>3, <3>1, <4>3
      <4>4. flow.pc \in {"load", "retry"} => LoadMoves \/ PanicMoves
        BY <1>1 DEF Moves, EvictMoves, ConfirmEvictMoves, VerifyMoves, ConfirmOomMoves,
                    CleanupMoves, ConfirmCleanupMoves, ProbeMoves, UnloadMoves, ConfirmUnloadMoves
      <4> QED BY <4>1, <4>2, <4>3, <4>4
    <3> QED BY <1>2, <2>4, <3>2
  <2> QED BY <1>2, <2>1, <2>2, <2>3, <2>4
<1>7. flow'.pc \notin {"evict", "confirmEvict"} => flow'.freed \cap Engine' = {}
  BY <1>1, ReleasesFreed
<1>8. /\ flow'.pc \in {"evict", "confirmEvict", "load", "retry"} /\ flow'.prev = None =>
           flow'.id \notin Engine'
      /\ flow'.pc = "done" /\ (IF flow'.ok THEN op.kind = "unload"
                               ELSE flow'.outcome = "stopped") =>
           flow'.id \notin Engine'
  BY <1>1, ReleasesTarget
<1> QED BY <1>1, <1>5, <1>6, <1>7, <1>8 DEF Releases
LEMMA ReleasesSettling == ASSUME Owned, Releases, Settling PROVE Releases'
<1>1. /\ up = "up" /\ flow.pc = "done" /\ op # None /\ op.id = flow.id /\ flow.id \in Models
      /\ flow' = NoFlow /\ resident' = resident /\ loading' = loading
      /\ Settled(slots'[flow.id], slots[flow.id])
  BY DEF Settling, Serving, engineVars
<1>2. \A v \in flow.victims :
        /\ slots'[v].state = "Stopped" => v \in flow.freed
        /\ slots'[v].state # "Absent"
        /\ ~slots[v].unconfirmed
  BY <1>1 DEF Settling, Owned, SlotsOfOp
<1>3. \A m \in Models \ (flow.victims \cup {flow.id}) : slots'[m] = slots[m]
  BY DEF Settling
<1>4. slots'[flow.id].state \in {"Absent", "Stopped"} =>
        IF flow.ok THEN op.kind = "unload" ELSE flow.outcome = "stopped"
  <2>1. op.kind \in {"load", "unload"}
    BY <1>1 DEF Owned, Shape, Operation
  <2>2. flow.prev # None => flow.prev.state \in {"Ready", "Error"}
    BY DEF Owned, Past, Earlier
  <2> QED BY <1>1, <2>1, <2>2 DEF Settled
<1>5. \A m \in Models : slots'[m].state \in {"Absent", "Stopped"} => m \notin Engine'
  BY <1>1, <1>2, <1>3, <1>4 DEF Releases, Engine
<1>6. \A m \in loading' : slots'[m].unconfirmed
  <2>1. ASSUME NEW m \in loading PROVE slots'[m].unconfirmed
    <3>1. \/ slots[m].unconfirmed
          \/ m = flow.id /\ ~flow.ok /\ flow.outcome = "unconfirmed"
      BY <1>1, <2>1 DEF Releases
    <3>2. m = flow.id => ~slots[m].unconfirmed
      BY <1>1 DEF Owned, SlotsOfOp
    <3>3. m \in Models
      BY <2>1, ShapeParts DEF Owned, EngineShape
    <3> QED BY <1>1, <1>2, <1>3, <3>1, <3>2, <3>3 DEF Settled
  <2> QED BY <1>1, <2>1
<1> QED BY <1>1, <1>5, <1>6, NoFlowFields DEF Releases

LEMMA ReleasesLoading ==
  ASSUME Owned, Fenced, Releases, NEW id \in Models, NEW policy \in Policies,
         NEW mem \in Estimates[id], NEW victims \in SUBSET Models,
         Loading(id, policy, mem, victims)
  PROVE  Releases'
<1>1. Admitted(id, mem, victims)
  BY LoadingSlots
<1>2. /\ resident' = resident /\ loading' = loading /\ loading = {}
      /\ flow'.freed = {} /\ flow'.prev = PrevOf(slots[id]) /\ flow'.id = id
      /\ flow'.pc \in {"evict", "verify", "load"}
  BY DEF Loading, Fenced, engineVars
<1>3. \A m \in Models : slots'[m].state \in {"Absent", "Stopped"} => m \notin Engine'
  BY <1>1, <1>2 DEF Admitted, Releases, Engine
<1>4. flow'.prev = None => id \notin Engine'
  <2>1. slots[id] # None /\ slots[id] \in Slot
    BY NoneAssumption, ShapeParts DEF Owned
  <2>2. flow'.prev = None => slots[id].state \in {"Absent", "Stopped"}
    BY <1>1, <1>2, <2>1 DEF Admitted, PrevOf, Occupies, Slot, ModelState
  <2> QED BY <1>1, <1>2, <2>2 DEF Admitted, Releases, Engine
<1> QED BY <1>2, <1>3, <1>4 DEF Releases

\* Steps that add nothing to the engine and leave task and slots, but for chats.
LEMMA ReleasesKeeps ==
  ASSUME Releases, up' = up, flow' = flow, Engine' \subseteq Engine, loading' \subseteq loading,
         \A m \in Models : Alike(slots'[m], slots[m]), loading \subseteq Models,
         op' # None => op'.kind = op.kind,
         flow.pc = "done" /\ up = "up" => op' # None
  PROVE  Releases'
<1> SUFFICES ASSUME up = "up" PROVE Releases'
  BY DEF Releases
<1>1. \A m \in Models : /\ slots'[m].state = slots[m].state
                        /\ slots'[m].unconfirmed = slots[m].unconfirmed
  BY DEF Alike
<1> QED BY <1>1 DEF Releases

LEMMA ReleasesUnloads ==
  ASSUME Owned, Releases, NEW id \in Models, UnloadStarts(id)
  PROVE  Releases'
<1>1. /\ up = "up" /\ flow = NoFlow /\ resident' = resident /\ loading' = loading
      /\ slots'[id].state = "Stopping" /\ ~slots[id].unconfirmed
      /\ \A m \in Models \ {id} : slots'[m] = slots[m]
      /\ flow'.pc \in {"idle", "unload"} /\ flow'.freed = {}
  BY NoFlowFields DEF UnloadStarts, Serving, Unloading, engineVars
<1>2. loading \subseteq Models
  BY ShapeParts DEF Owned, EngineShape
<1> QED BY <1>1, <1>2, NoFlowFields DEF Releases, Engine

LEMMA ReleasesStep ==
  ASSUME Owned, Owned', Fenced, Fenced', Releases, Effect, ~DirtyRetryOom
  PROVE  Releases'
<1>1. /\ loading \subseteq Models /\ resident \subseteq Models
      /\ up = "up" /\ flow.pc = "done" => op # None
      /\ up' = "up" /\ flow'.pc = "done" => op' # None
  BY ShapeParts DEF Owned, EngineShape, TaskOfOp
<1>2. CASE Joins \/ UNCHANGED vars \/ MarkerAside
  BY <1>1, <1>2, ReleasesKeeps DEF Joins, vars, MarkerAside, actorVars, engineVars, Engine, Alike
<1>3. CASE EngineAside
  BY <1>1, <1>3, ReleasesKeeps DEF EngineAside, EngineLoads, EngineUnloads, actorVars, Engine, Alike
<1>4. CASE Works
  BY <1>4, ReleasesMoves
<1>5. CASE Settling
  BY <1>5, ReleasesSettling
<1>6. CASE Leaves \/ OrphanEnds \/ OperatorReset
  BY <1>6 DEF Leaves, OrphanEnds, OperatorReset, actorVars, Releases
<1>7. CASE Start
  <2>1. CASE up' = "up"
    <3>1. /\ ~Locked /\ ~marker /\ flow' = flow /\ resident' = resident /\ loading' = loading
          /\ \A m \in Models : slots'[m] = (IF m \in resident
                THEN [NoSlot EXCEPT !.state = "Error", !.inherited = TRUE] ELSE NoSlot)
      BY <1>7, <2>1 DEF Start, engineVars
    <3>2. \A m \in resident : slots'[m].state = "Error"
      <4>1. [NoSlot EXCEPT !.state = "Error", !.inherited = TRUE].state = "Error"
        BY DEF NoSlot
      <4> HIDE DEF NoSlot
      <4> QED BY <1>1, <3>1, <4>1
    <3>3. loading = {}
      BY <3>1 DEF Fenced
    <3>4. flow' = NoFlow
      BY <3>1 DEF Locked
    <3> QED BY <3>1, <3>2, <3>3, <3>4, NoFlowFields DEF Releases, Engine
  <2>2. CASE up' # "up"
    BY <2>2 DEF Releases
  <2> QED BY <2>1, <2>2
<1>8. ASSUME NEW id \in Models, ChatStarts(id) PROVE Releases'
  BY <1>1, <1>8, ReleasesKeeps DEF ChatStarts, engineVars, Engine
<1>9. ASSUME NEW id \in Models, ChatEnds(id) PROVE Releases'
  <2>1. CASE flow' = flow /\ op' = op
    BY <1>1, <1>9, <2>1, ReleasesKeeps DEF ChatEnds, engineVars, Engine
  <2>2. CASE Serving /\ Unloads /\ ~op.started /\ Unloading(id)
    <3>1. flow.pc = "idle" /\ up = "up"
      BY <2>2 DEF Owned, TaskOfOp, Serving
    <3>2. /\ flow'.pc = "unload" /\ flow'.freed = {}
          /\ resident' = resident /\ loading' = loading
          /\ \A m \in Models : Alike(slots'[m], slots[m])
      BY <1>9, <2>2 DEF ChatEnds, Unloading, engineVars
    <3>3. \A m \in Models : /\ slots'[m].state = slots[m].state
                            /\ slots'[m].unconfirmed = slots[m].unconfirmed
      BY <3>2 DEF Alike
    <3> QED BY <1>1, <3>1, <3>2, <3>3 DEF Releases, Engine
  <2> QED BY <1>9, <2>1, <2>2 DEF ChatEnds
<1> QED BY <1>2, <1>3, <1>4, <1>5, <1>6, <1>7, <1>8, <1>9, ReleasesLoading, ReleasesUnloads
        DEF Effect

LEMMA AlwaysReleases == ASSUME ~DirtyRetryOom PROVE Spec => []Releases
<1>1. Init => Releases
  BY DEF Init, Releases
<1>2. Owned /\ Fenced /\ Fenced' /\ Releases /\ [Next]_vars => Releases'
  BY Steps, ReleasesStep
<1> QED BY <1>1, <1>2, AlwaysOwned, AlwaysFenced, PTL DEF Spec

\* The state of a slot is honest, however the operation that held it ended:
\* it has its shape, it is Stopped only when nothing of the model is left in
\* the engine, and in transit only while some operation will settle it
\* (handle_op_done and the failure outcomes of the load task).
THEOREM HonestSlots == ASSUME ~DirtyRetryOom PROVE Spec => []SlotsHonest
<1>1. Owned /\ Releases => SlotsHonest
  BY DEF Owned, Shape, SlotsOfOp, Releases, Engine, SlotsHonest, StoppedMeansReleased,
         TransientStatesOwned
<1> QED BY <1>1, AlwaysOwned, AlwaysReleases, PTL
-----------------------------------------------------------------------------
(* What the books say of the engine                                        *)

\* The books in parts: what a slot is charged, and what a model of the
\* sample behind the aggregate takes.
Charges(s) == [m \in Models |-> IF Occupies(s[m].state) THEN s[m].mem ELSE 0]
Seats(St) == [m \in Models |-> IF m \in St THEN Size[m] ELSE 0]

LEMMA Parts ==
  ASSUME NEW s \in [Models -> Slot], NEW cov \in [Models -> Nat], NEW St \in SUBSET Models
  PROVE  /\ Summable(Charges(s), Models) /\ Summable(Seats(St), Models)
         /\ Summable(Credits(s, cov), Models)
         /\ Total(Mems(s), Charged(s)) = Total(Charges(s), Models)
         /\ UsedBy(St) = Total(Seats(St), Models)
         /\ Reservation(s, UsedBy(St), cov) =
              AtLeast0(Total(Seats(St), Models) - Total(Credits(s, cov), Models))
<1>1. \A m \in Models : s[m].mem \in Nat /\ Size[m] \in Nat
  BY SupervisorAssumption DEF Slot
<1>2. IsFiniteSet(Models)
  BY SupervisorAssumption
<1>3. \A m \in Models : Credits(s, cov)[m] \in Int
  BY <1>1 DEF Credits, Smaller
<1>4. /\ Summable(Charges(s), Models) /\ Summable(Seats(St), Models)
      /\ Summable(Credits(s, cov), Models)
  BY <1>1, <1>2, <1>3 DEF Summable, Charges, Seats
<1>5. SumFunctionOnSet(Charges(s), Models) = SumFunctionOnSet(Mems(s), Charged(s))
  <2>1. Charged(s) \in SUBSET Models
    BY DEF Charged
  <2>2. Summable(Mems(s), Charged(s))
    BY <1>1, <1>2, <2>1, FS_Subset DEF Summable, Mems
  <2>3. /\ \A m \in Charged(s) : Charges(s)[m] = Mems(s)[m]
        /\ \A m \in Models \ Charged(s) : Charges(s)[m] = 0
    BY DEF Charged, Charges, Mems
  <2> QED BY <1>2, <2>1, <2>2, <2>3, SumRestrict
<1>6. SumFunctionOnSet(Seats(St), Models) = SumFunctionOnSet(Size, St)
  <2>1. Summable(Size, St)
    BY <1>1, <1>2, FS_Subset DEF Summable
  <2>2. /\ \A m \in St : Seats(St)[m] = Size[m]
        /\ \A m \in Models \ St : Seats(St)[m] = 0
    BY DEF Seats
  <2> QED BY <1>2, <2>1, <2>2, SumRestrict
<1>7. Models \ {} = Models
  OBVIOUS
<1> QED BY <1>4, <1>5, <1>6, <1>7 DEF Total, UsedBy, Reservation, ReservedExcept

\* What is in the sample, or charged by its slot, is covered by both together.
LEMMA Covered ==
  ASSUME NEW s \in [Models -> Slot], NEW cov \in [Models -> Nat], NEW St \in SUBSET Models,
         NEW E \in SUBSET Models,
         \A m \in Models : cov[m] > 0 => m \in St,
         \A m \in E : m \in St \/ (Occupies(s[m].state) /\ Size[m] <= s[m].mem)
  PROVE  UsedBy(E) <= Accounted(s, UsedBy(St), cov)
<1> DEFINE needed == [m \in Models |-> Seats(E)[m] + Credits(s, cov)[m]]
           have == [m \in Models |-> Charges(s)[m] + Seats(St)[m]]
<1>1. /\ Summable(Charges(s), Models) /\ Summable(Seats(St), Models)
      /\ Summable(Seats(E), Models) /\ Summable(Credits(s, cov), Models)
  BY Parts
<1>2. \A m \in Models : needed[m] <= have[m] /\ needed[m] \in Int /\ have[m] \in Int
  <2> TAKE m \in Models
  <2>1. s[m].mem \in Nat /\ Size[m] \in Nat /\ cov[m] \in Nat
    BY SupervisorAssumption DEF Slot
  <2>2. m \in E => m \in St \/ (Occupies(s[m].state) /\ Size[m] <= s[m].mem)
    OBVIOUS
  <2>3. Credits(s, cov)[m] =
          IF Occupies(s[m].state) /\ ~s[m].unconfirmed THEN Smaller(s[m].mem, cov[m]) ELSE 0
    BY DEF Credits
  <2>4. /\ Charges(s)[m] = (IF Occupies(s[m].state) THEN s[m].mem ELSE 0)
        /\ Seats(St)[m] = (IF m \in St THEN Size[m] ELSE 0)
        /\ Seats(E)[m] = (IF m \in E THEN Size[m] ELSE 0)
    BY DEF Charges, Seats
  <2>5. cov[m] > 0 => m \in St
    OBVIOUS
  <2>6. needed[m] = Seats(E)[m] + Credits(s, cov)[m] /\ have[m] = Charges(s)[m] + Seats(St)[m]
    OBVIOUS
  <2> HIDE DEF needed, have
  <2> QED BY <2>1, <2>2, <2>3, <2>4, <2>5, <2>6 DEF Smaller
<1>3. Summable(needed, Models) /\ Summable(have, Models)
  BY <1>2, SupervisorAssumption DEF Summable
<1>4. \A m \in Models : /\ needed[m] = Seats(E)[m] + Credits(s, cov)[m]
                        /\ have[m] = Charges(s)[m] + Seats(St)[m]
  OBVIOUS
<1> HIDE DEF needed, have
<1>5. Total(needed, Models) = Total(Seats(E), Models) + Total(Credits(s, cov), Models)
  BY <1>1, <1>4, SumPlus DEF Total
<1>6. Total(have, Models) = Total(Charges(s), Models) + Total(Seats(St), Models)
  BY <1>1, <1>4, SumPlus DEF Total
<1>7. Total(needed, Models) <= Total(have, Models)
  BY <1>2, <1>3, SumMono DEF Total
<1>8. /\ Total(Seats(E), Models) \in Int /\ Total(Credits(s, cov), Models) \in Int
      /\ Total(Charges(s), Models) \in Int /\ Total(Seats(St), Models) \in Int
  BY <1>1, SumInt DEF Total
<1>9. /\ UsedBy(E) = Total(Seats(E), Models)
      /\ Accounted(s, UsedBy(St), cov) = Total(Charges(s), Models) +
           AtLeast0(Total(Seats(St), Models) - Total(Credits(s, cov), Models))
  BY Parts DEF Accounted
<1> QED BY <1>5, <1>6, <1>7, <1>8, <1>9 DEF AtLeast0
Unsure == \E m \in Models : slots[m].unconfirmed

\* Every load's fate is known, or a load is being worked on, or no marker
\* is left that would forbid the next one.
Clear == ~marker \/ ~Unsure \/ Loads

Backed(St, m) == m \in St \/ (Occupies(slots[m].state) /\ ~slots[m].inherited)

\* The aggregate is what the models of the sample St take; what is in the
\* engine is in St or charged by its slot.
Seen(St) ==
  /\ reserved = UsedBy(St)
  /\ \A m \in Models : covered[m] > 0 => m \in St
  /\ \A m \in Engine : Backed(St, m)
  /\ flow.status # None => \A m \in flow.status : Backed(St, m)
  /\ flow.pc = "load" /\ flow.inherited => flow.id \in St

\* The sample the task holds would do as well.
Sampling ==
  flow.status # None =>
    /\ Engine \ {flow.id} \subseteq flow.status
    /\ flow.inherited => Engine \subseteq flow.status
    /\ flow.pc = "load" /\ flow.inherited => flow.id \in flow.status

Books ==
  /\ up = "up" /\ Clear => (\E St \in SUBSET Models : Seen(St)) /\ Sampling
  /\ up # "up" => \A m \in Models : covered[m] = 0

\* While a call is on its way, what is new in the engine is the load's own
\* model, and its slot or the sample pays for it.
LEMMA SeenMoves ==
  ASSUME Owned, Fenced, Releases, Works, up = "up", ~DirtyRetryOom,
         NEW St \in SUBSET Models, Seen(St)
  PROVE  Seen(St)'
<1>1. /\ Moves /\ slots' = slots /\ reserved' = reserved /\ covered' = covered /\ op' = op
  BY DEF Works, actorVars
<1>2. /\ Engine' \subseteq Engine \cup {flow.id}
      /\ flow.pc \notin {"load", "retry"} => Engine' = Engine
  BY <1>1, MovesGrow
<1>3. /\ flow'.id = flow.id /\ flow'.inherited = flow.inherited
      /\ flow.pc \in LoadCalls \cup UnloadCalls
  BY <1>1, MovesKeep
<1>4. op # None /\ flow.id = op.id /\ (flow.pc \in LoadCalls => Loads)
  BY <1>3 DEF Owned, TaskOfOp, LoadCalls, UnloadCalls, Loads
<1>5. Occupies(slots[flow.id].state) /\ (Loads => slots[flow.id].inherited = flow.inherited)
  BY <1>4 DEF Owned, SlotsOfOp, Occupies
<1>6. \A m \in Engine' : Backed(St, m)
  <2>1. ASSUME flow.pc \in {"load", "retry"} PROVE Backed(St, flow.id)
    <3>1. flow.pc = "retry" => ~flow.inherited
      BY DEF Owned, Past
    <3> QED BY <1>4, <1>5, <2>1, <3>1 DEF Seen, Backed, LoadCalls
  <2> QED BY <1>2, <2>1 DEF Seen
<1>7. flow'.status \in {flow.status, None, resident}
  BY <1>1 DEF Moves, EvictMoves, ConfirmEvictMoves, VerifyMoves, LoadMoves,
       AcceptedMoves, RejectedMoves, OomMoves, LostMoves, ConfirmOomMoves,
       CleanupMoves, ConfirmCleanupMoves, ProbeMoves, PanicMoves,
       UnloadMoves, ConfirmUnloadMoves, Moved, GoesTo, EndsAs, EndsCleared, Doubted, EndsReleased
<1>8. flow'.status # None => \A m \in flow'.status : Backed(St, m)
  BY <1>7 DEF Seen, Engine
<1>9. flow'.pc = "load" /\ flow'.inherited => flow'.id \in St
  <2>1. ASSUME flow'.pc = "load", flow'.inherited
        PROVE  flow.pc = "verify" /\ flow.id \in resident
    <3>1. ~LoadMoves /\ ~EvictMoves /\ ~ConfirmOomMoves /\ ~CleanupMoves
          /\ ~ConfirmCleanupMoves /\ ~ProbeMoves /\ ~PanicMoves /\ ~UnloadMoves
          /\ ~ConfirmUnloadMoves
      BY <2>1 DEF EvictMoves, LoadMoves, AcceptedMoves, RejectedMoves, OomMoves, LostMoves,
           ConfirmOomMoves, CleanupMoves, ConfirmCleanupMoves, ProbeMoves, PanicMoves,
           UnloadMoves, ConfirmUnloadMoves, Moved, GoesTo, EndsAs, EndsCleared, Doubted,
           EndsReleased
    <3>2. ~ConfirmEvictMoves
      BY <1>3, <2>1 DEF ConfirmEvictMoves, Moved
    <3>3. VerifyMoves
      BY <1>1, <3>1, <3>2 DEF Moves
    <3> QED BY <2>1, <3>3 DEF VerifyMoves, Moved, EndsAs, EndsCleared, Doubted
  <2>2. ASSUME flow'.pc = "load", flow'.inherited PROVE flow.id \in St
    <3>1. Backed(St, flow.id) /\ slots[flow.id].inherited
      BY <1>3, <1>4, <1>5, <2>1, <2>2 DEF Seen, Engine, LoadCalls
    <3> QED BY <3>1 DEF Backed
  <2> QED BY <1>3, <2>2
<1> QED BY <1>1, <1>6, <1>8, <1>9 DEF Seen, Backed

LEMMA SamplingMoves ==
  ASSUME Owned, Fenced, Releases, Works, up = "up", Clear, Sampling, Confirmed, ~DirtyRetryOom
  PROVE  Sampling'
<1>1. Moves
  BY DEF Works
<1>2. /\ Engine' \subseteq Engine \cup {flow.id}
      /\ flow.pc \notin {"load", "retry"} => Engine' = Engine /\ loading' = loading
  BY <1>1, MovesGrow
<1>3. /\ flow'.id = flow.id /\ flow'.inherited = flow.inherited
      /\ flow.pc \in LoadCalls \cup UnloadCalls
  BY <1>1, MovesKeep
<1> USE DEF Moved, GoesTo, EndsAs, EndsCleared, Doubted, EndsReleased
<1>4. CASE flow'.status = None
  BY <1>4 DEF Sampling
<1>5. CASE flow'.status = flow.status /\ flow'.status # None
  <2>1. /\ Engine \ {flow.id} \subseteq flow.status
        /\ flow.inherited => Engine \subseteq flow.status
        /\ flow.pc = "load" /\ flow.inherited => flow.id \in flow.status
    BY <1>5 DEF Sampling
  <2>2. flow.pc = "retry" => ~flow.inherited
    BY DEF Owned, Past
  <2>3. flow'.pc = "load" /\ flow.inherited => flow.id \in flow.status
    <3>1. ASSUME flow'.pc = "load", flow.inherited
          PROVE  flow.id \in resident
      <4>1. ~LoadMoves /\ ~EvictMoves /\ ~ConfirmOomMoves /\ ~CleanupMoves
            /\ ~ConfirmCleanupMoves /\ ~ProbeMoves /\ ~PanicMoves /\ ~UnloadMoves
            /\ ~ConfirmUnloadMoves /\ ~ConfirmEvictMoves
        BY <3>1 DEF EvictMoves, LoadMoves, AcceptedMoves, RejectedMoves, OomMoves, LostMoves,
             ConfirmOomMoves, CleanupMoves, ConfirmCleanupMoves, ProbeMoves, PanicMoves,
             UnloadMoves, ConfirmUnloadMoves, ConfirmEvictMoves
      <4>2. VerifyMoves
        BY <1>1, <4>1 DEF Moves
      <4> QED BY <3>1, <4>2 DEF VerifyMoves
    <3> QED BY <2>1, <3>1 DEF Engine
  <2> QED BY <1>2, <1>3, <1>5, <2>1, <2>2, <2>3 DEF Sampling
<1>6. CASE flow'.status = resident /\ flow.pc \notin {"load", "retry"}
           /\ flow'.status # flow.status /\ flow'.status # None
  <2>1. \/ ConfirmEvictMoves \/ ConfirmOomMoves \/ ConfirmCleanupMoves \/ ConfirmUnloadMoves
    BY <1>1, <1>6 DEF Moves, EvictMoves, VerifyMoves, LoadMoves,
       AcceptedMoves, RejectedMoves, OomMoves, LostMoves,
       CleanupMoves, ProbeMoves, PanicMoves, UnloadMoves
  <2>2. loading = {}
    <3>1. flow.pc \in {"confirmEvict", "confirmOom", "confirmCleanup"} => loading = {}
      BY DEF Fenced, LoadCalls
    <3>2. ASSUME flow.pc = "confirmUnload" PROVE loading = {}
      <4>1. ~Loads
        BY <3>2 DEF Owned, TaskOfOp, UnloadCalls, Loads
      <4>2. ~marker => loading = {}
        BY DEF Fenced
      <4>3. \A m \in loading : slots[m].unconfirmed /\ m \in Models
        BY <3>2, ShapeParts DEF Releases, Owned, EngineShape
      <4> QED BY <4>1, <4>2, <4>3 DEF Clear, Unsure
    <3> QED BY <2>1, <3>1, <3>2 DEF ConfirmEvictMoves, ConfirmOomMoves, ConfirmCleanupMoves,
                                    ConfirmUnloadMoves
  <2>3. Engine' = flow'.status
    BY <1>2, <1>6, <2>2 DEF Engine
  <2>4. ~(flow'.pc = "load" /\ flow'.inherited)
    BY <1>3, <2>1 DEF ConfirmEvictMoves, ConfirmOomMoves, ConfirmCleanupMoves, ConfirmUnloadMoves
  <2> QED BY <1>3, <2>3, <2>4 DEF Sampling
<1>7. \/ flow'.status \in {flow.status, None}
      \/ flow'.status = resident /\ flow.pc \notin {"load", "retry"}
  BY <1>1 DEF Moves, EvictMoves, ConfirmEvictMoves, VerifyMoves, LoadMoves,
       AcceptedMoves, RejectedMoves, OomMoves, LostMoves, ConfirmOomMoves,
       CleanupMoves, ConfirmCleanupMoves, ProbeMoves, PanicMoves,
       UnloadMoves, ConfirmUnloadMoves
<1> QED BY <1>4, <1>5, <1>6, <1>7
\* Steps of which the books do not depend, but for slots that change only
\* how they occupy.
LEMMA BooksKeep ==
  ASSUME Books, up' = up, UNCHANGED <<reserved, covered>>, Engine' \subseteq Engine,
         up = "up" /\ Clear' => Clear,
         \A m \in Models : Occupies(slots[m].state) => Occupies(slots'[m].state),
         \A m \in Models : slots'[m].inherited = slots[m].inherited,
         resident \subseteq Models, loading \subseteq Models, flow.status \in (SUBSET Models) \cup {None},
         \/ flow' = flow
         \/ flow'.status = None /\ flow'.pc # "load"
  PROVE  Books'
<1>1. up # "up" => Books'
  BY DEF Books
<1>2. ASSUME up = "up", Clear' PROVE (\E St \in SUBSET Models : Seen(St)') /\ Sampling'
  <2>1. PICK St \in SUBSET Models : Seen(St)
    BY <1>2 DEF Books
  <2>2. Sampling
    BY <1>2 DEF Books
  <2>3. Engine \subseteq Models
    BY DEF Engine
  <2>4. ASSUME NEW m \in Models, Backed(St, m) PROVE Backed(St, m)'
    BY <2>4 DEF Backed
  <2>5. \A m \in Engine' : Backed(St, m)'
    BY <2>1, <2>3, <2>4 DEF Seen
  <2>6. CASE flow' = flow
    <3>1. flow.status # None => \A m \in flow.status : Backed(St, m)'
      BY <2>1, <2>4 DEF Seen
    <3>2. Seen(St)'
      BY <2>1, <2>5, <2>6, <3>1 DEF Seen
    <3>3. Sampling'
      BY <2>2, <2>6 DEF Sampling
    <3> QED BY <3>2, <3>3
  <2>7. CASE flow'.status = None /\ flow'.pc # "load"
    BY <2>1, <2>5, <2>7 DEF Seen, Sampling
  <2> QED BY <2>6, <2>7
<1> QED BY <1>1, <1>2 DEF Books

LEMMA BooksSettling ==
  ASSUME Owned, Fenced, Releases, Confirmed, Books, Settling
  PROVE  Books'
<1> DEFINE id == flow.id
<1>1. /\ up = "up" /\ up' = "up" /\ flow.pc = "done" /\ op # None /\ op.id = id /\ id \in Models
      /\ flow' = NoFlow /\ op' = None /\ resident' = resident /\ loading' = loading
      /\ marker' = marker /\ Settled(slots'[id], slots[id])
  BY DEF Settling, Serving, engineVars
<1>2. \A v \in flow.victims :
        /\ slots'[v].state = (IF v \in flow.freed THEN "Stopped" ELSE "Error")
        /\ ~slots'[v].unconfirmed /\ ~slots'[v].inherited /\ ~slots[v].unconfirmed
  BY <1>1 DEF Settling, Owned, SlotsOfOp
<1>3. \A m \in Models \ (flow.victims \cup {id}) : slots'[m] = slots[m]
  BY DEF Settling
<1>4. op.kind \in {"load", "unload"} /\ ~slots[id].unconfirmed /\ Occupies(slots[id].state)
      /\ (Loads => slots[id].inherited = flow.inherited)
  BY <1>1 DEF Owned, Shape, Operation, SlotsOfOp, Occupies
<1>5. Unsure => Unsure'
  <2>1. ASSUME NEW m \in Models, slots[m].unconfirmed PROVE slots'[m].unconfirmed
    BY <1>2, <1>3, <1>4, <2>1
  <2> QED BY <2>1 DEF Unsure
<1>6. SUFFICES ASSUME Clear' PROVE (\E St \in SUBSET Models : Seen(St)') /\ Sampling'
  BY <1>1 DEF Books
<1>7. Clear
  BY <1>1, <1>4, <1>5, <1>6 DEF Clear, Loads
<1>8. Sampling'
  BY <1>1, NoFlowFields DEF Sampling
\* The target's slot still pays for what the target has in the engine.
<1>9. ASSUME id \in Engine, ~(slots[id].inherited)
      PROVE  Occupies(slots'[id].state) /\ ~slots'[id].inherited
  <2>1. ~(IF flow.ok THEN op.kind = "unload" ELSE flow.outcome = "stopped")
    BY <1>1, <1>9 DEF Releases
  <2>2. flow.prev # None =>
          /\ flow.prev.state \in {"Ready", "Error"} /\ flow.prev.inherited = flow.inherited
          /\ op.kind = "load"
    BY <1>1, <1>4 DEF Owned, Past, Earlier, TaskOfOp, Unloads
  <2> QED BY <1>1, <1>4, <1>9, <2>1, <2>2 DEF Settled, Occupies, Loads
<1>10. CASE flow.status # None
  <2>1. PICK St \in SUBSET Models : St = flow.status
    BY <1>10, ShapeParts DEF Owned, TaskShape, Task
  <2>2. /\ reserved' = UsedBy(St)
        /\ \A m \in Models : covered'[m] > 0 => m \in St
    BY <1>10, <2>1 DEF Settling, CoveredBy
  <2>3. Sampling
    BY <1>1, <1>7 DEF Books
  <2>4. ASSUME id \in Engine, id \notin flow.status PROVE ~slots[id].inherited
    <3>1. Loads
      <4>1. op.kind = "unload" => flow.ok
        BY <1>1, <1>10 DEF Confirmed, Unloads
      <4>2. op.kind = "unload" => id \notin Engine
        BY <1>1, <4>1 DEF Releases
      <4> QED BY <1>1, <1>4, <2>4, <4>2 DEF Loads
    <3>2. ~flow.inherited
      BY <1>10, <2>3, <2>4 DEF Sampling
    <3>3. flow.inherited \in BOOLEAN
      BY ShapeParts DEF Owned, TaskShape, Task
    <3> QED BY <1>4, <3>1, <3>2, <3>3
  <2>5. \A m \in Engine : Backed(St, m)'
    BY <1>9, <1>10, <2>1, <2>3, <2>4 DEF Sampling, Backed
  <2>6. Engine' = Engine
    BY <1>1 DEF Engine
  <2>7. Seen(St)'
    BY <1>1, <2>2, <2>5, <2>6, NoFlowFields DEF Seen
  <2> QED BY <1>8, <2>7
<1>11. CASE flow.status = None
  <2>1. PICK St \in SUBSET Models : Seen(St)
    BY <1>1, <1>7 DEF Books
  <2>2. reserved' = reserved /\ covered' = covered
    BY <1>11 DEF Settling
  <2>3. Engine \subseteq Models /\ Engine' = Engine
    BY <1>1, ShapeParts DEF Owned, EngineShape, Engine
  <2>4. ASSUME NEW m \in Engine PROVE Backed(St, m)'
    <3>1. Backed(St, m)
      BY <2>1 DEF Seen
    <3>2. CASE m = id
      BY <1>9, <2>4, <3>1, <3>2 DEF Backed
    <3>3. CASE m \in flow.victims
      <4>1. m \notin flow.freed
        BY <1>1, <2>4 DEF Releases
      <4> QED BY <1>2, <3>3, <4>1 DEF Backed, Occupies
    <3>4. CASE m \in Models \ (flow.victims \cup {id})
      BY <1>3, <3>1, <3>4 DEF Backed
    <3> QED BY <2>3, <3>2, <3>3, <3>4
  <2>5. Seen(St)'
    BY <1>1, <2>1, <2>2, <2>3, <2>4, NoFlowFields DEF Seen
  <2> QED BY <1>8, <2>5
<1> QED BY <1>10, <1>11

LEMMA BooksLoading ==
  ASSUME Owned, Books, NEW id \in Models, NEW policy \in Policies,
         NEW mem \in Estimates[id], NEW victims \in SUBSET Models,
         Loading(id, policy, mem, victims)
  PROVE  Books'
<1>1. Admitted(id, mem, victims)
  BY LoadingSlots
<1>2. /\ resident' = resident /\ loading' = loading /\ ~marker /\ up' = up
      /\ flow'.status = None /\ UNCHANGED <<reserved, covered>>
      /\ flow'.pc = (IF victims # {} THEN "evict" ELSE IF flow'.inherited THEN "verify" ELSE "load")
  BY DEF Loading, engineVars
<1>3. up = "up" /\ Clear
  BY <1>1, <1>2 DEF Admitted, Clear
<1>4. PICK St \in SUBSET Models : Seen(St)
  BY <1>3 DEF Books
<1>5. Engine' = Engine /\ Engine \subseteq Models
  BY <1>2, ShapeParts DEF Owned, EngineShape, Engine
<1>6. ASSUME NEW m \in Engine PROVE Backed(St, m)'
  <2>1. Backed(St, m) /\ m \in Models
    BY <1>4, <1>5 DEF Seen
  <2>2. CASE m = id \/ m \in victims
    BY <1>1, <2>1, <2>2 DEF Admitted, Backed, Occupies
  <2>3. CASE m \notin victims \cup {id}
    BY <1>1, <2>1, <2>3 DEF Admitted, Backed
  <2> QED BY <2>2, <2>3
<1>7. ~(flow'.pc = "load" /\ flow'.inherited)
  BY <1>2
<1>8. Seen(St)'
  BY <1>2, <1>4, <1>5, <1>6, <1>7 DEF Seen
<1>9. Sampling'
  BY <1>2 DEF Sampling
<1> QED BY <1>2, <1>3, <1>8, <1>9 DEF Books

LEMMA BooksStep ==
  ASSUME Owned, Fenced, Releases, Confirmed, Books, Effect, ~DirtyRetryOom
  PROVE  Books'
<1>1. /\ resident \subseteq Models /\ loading \subseteq Models
      /\ flow.status \in (SUBSET Models) \cup {None}
  BY ShapeParts DEF Owned, EngineShape, TaskShape, Task
<1>2. CASE Joins
  <2>1. up = "up" /\ Clear' => Clear
    BY <1>2, NoneAssumption DEF Joins, Clear, Loads, Unsure
  <2> QED BY <1>1, <1>2, <2>1, BooksKeep DEF Joins, engineVars, Engine
<1>3. CASE MarkerAside
  BY <1>1, <1>3, BooksKeep DEF MarkerAside, actorVars, engineVars, Engine, Clear
<1>4. CASE UNCHANGED vars \/ EngineAside
  <2>1. up = "up" /\ Clear' => Clear
    BY <1>4 DEF vars, EngineAside, EngineLoads, EngineUnloads, actorVars, Clear, Loads, Unsure
  <2>2. Engine' \subseteq Engine
    BY <1>4 DEF vars, engineVars, EngineAside, EngineLoads, EngineUnloads, Engine
  <2>3. UNCHANGED <<actorVars, flow>>
    BY <1>4 DEF vars, EngineAside, EngineLoads, EngineUnloads
  <2> QED BY <1>1, <2>1, <2>2, <2>3, BooksKeep DEF actorVars
<1>5. CASE Works
  <2>1. /\ up' = up /\ UNCHANGED <<slots, op, covered>> /\ Moves
    BY <1>5 DEF Works, actorVars
  <2>2. ASSUME up = "up", Clear' PROVE Clear
    <3>1. flow.pc \in LoadCalls => Loads
      <4>1. flow.pc # "idle" => op # None
        BY <2>2 DEF Owned, TaskOfOp
      <4> QED BY <2>2, <4>1 DEF Owned, TaskOfOp, Loads, LoadCalls
    <3>2. flow.pc \notin LoadCalls => marker' = marker
      BY <2>1 DEF Moves, LoadCalls, EvictMoves, ConfirmEvictMoves, VerifyMoves, LoadMoves,
           ConfirmOomMoves, CleanupMoves, ConfirmCleanupMoves, ProbeMoves, PanicMoves,
           UnloadMoves, ConfirmUnloadMoves, EngineSame
    <3> QED BY <2>1, <2>2, <3>1, <3>2 DEF Clear, Loads, Unsure
  <2>3. ASSUME up = "up", Clear' PROVE (\E St \in SUBSET Models : Seen(St)') /\ Sampling'
    <3>1. Clear
      BY <2>2, <2>3
    <3>2. PICK St \in SUBSET Models : Seen(St)
      BY <2>3, <3>1 DEF Books
    <3>3. Sampling
      BY <2>3, <3>1 DEF Books
    <3> QED BY <1>5, <2>3, <3>1, <3>2, <3>3, SeenMoves, SamplingMoves
  <2> QED BY <2>1, <2>3 DEF Books
<1>6. CASE Settling
  BY <1>6, BooksSettling
<1>7. CASE Leaves
  BY <1>7 DEF Leaves, ActorGone, Books
<1>8. CASE OrphanEnds \/ OperatorReset
  <2>1. up # "up" /\ up' = up /\ covered' = covered
    BY <1>8 DEF OrphanEnds, OperatorReset, actorVars
  <2> QED BY <2>1 DEF Books
<1>9. CASE Start
  <2>1. CASE up' = "up"
    <3>1. /\ ~Locked /\ ~marker /\ flow' = flow /\ resident' = resident /\ loading' = loading
          /\ reserved' = UsedBy(resident) /\ covered' = covered /\ up # "up"
      BY <1>9, <2>1 DEF Start, engineVars
    <3>2. loading = {} /\ flow' = NoFlow
      BY <3>1 DEF Fenced, Locked
    <3>3. PICK St \in SUBSET Models : St = resident
      BY <1>1
    <3>4. Seen(St)'
      BY <3>1, <3>2, <3>3, NoFlowFields DEF Seen, Books, Backed, Engine
    <3>5. Sampling'
      BY <3>2, NoFlowFields DEF Sampling
    <3> QED BY <2>1, <3>4, <3>5 DEF Books
  <2>2. CASE up' # "up"
    BY <1>9, <2>2 DEF Start, Books
  <2> QED BY <2>1, <2>2
<1>10. ASSUME NEW id \in Models, UnloadStarts(id) PROVE Books'
  <2>1. /\ up' = up /\ UNCHANGED <<reserved, covered>> /\ Engine' \subseteq Engine
        /\ marker' = marker /\ op'.kind = "unload" /\ slots'[id].unconfirmed = slots[id].unconfirmed
        /\ \A m \in Models \ {id} : slots'[m] = slots[m]
        /\ slots'[id].inherited = slots[id].inherited /\ slots'[id].state = "Stopping"
        /\ flow'.status = None /\ flow'.pc # "load"
    <3>1. slots'[id].unconfirmed \in BOOLEAN /\ slots[id].unconfirmed \in BOOLEAN
      BY <1>10, ShapeParts DEF UnloadStarts, Owned, Slot
    <3> QED BY <1>10, <3>1, NoFlowFields DEF UnloadStarts, Unloading, engineVars, Engine
  <2>2. up = "up" /\ Clear' => Clear
    BY <2>1 DEF Clear, Loads, Unsure
  <2>3. /\ \A m \in Models : Occupies(slots[m].state) => Occupies(slots'[m].state)
        /\ \A m \in Models : slots'[m].inherited = slots[m].inherited
    BY <2>1 DEF Occupies
  <2> QED BY <1>1, <2>1, <2>2, <2>3, BooksKeep
<1>11. ASSUME NEW id \in Models, ChatStarts(id) \/ ChatEnds(id) PROVE Books'
  <2>1. /\ up' = up /\ UNCHANGED <<reserved, covered>> /\ Engine' \subseteq Engine
        /\ marker' = marker
        /\ \A m \in Models : Alike(slots'[m], slots[m])
        /\ \/ flow' = flow /\ op' = op
           \/ Unloads /\ op'.kind = op.kind /\ flow'.status = None /\ flow'.pc = "unload"
    BY <1>11 DEF ChatStarts, ChatEnds, Unloading, engineVars, Engine
  <2>2. up = "up" /\ Clear' => Clear
    BY <2>1 DEF Clear, Loads, Unloads, Unsure, Alike
  <2>3. /\ \A m \in Models : Occupies(slots[m].state) => Occupies(slots'[m].state)
        /\ \A m \in Models : slots'[m].inherited = slots[m].inherited
    BY <2>1 DEF Alike
  <2> QED BY <1>1, <2>1, <2>2, <2>3, BooksKeep
<1> QED BY <1>2, <1>3, <1>4, <1>5, <1>6, <1>7, <1>8, <1>9, <1>10, <1>11, BooksLoading DEF Effect

LEMMA AlwaysBooks == ASSUME ~DirtyRetryOom PROVE Spec => []Books
<1>1. Init => Books
  BY DEF Init, Books
<1>2. Owned /\ Fenced /\ Releases /\ Confirmed /\ Books /\ [Next]_vars => Books'
  BY Steps, BooksStep
<1> QED BY <1>1, <1>2, AlwaysOwned, AlwaysFenced, AlwaysReleases, AlwaysConfirmed, PTL DEF Spec

\* While a marker or a load in flight vouches for the books, whatever is in
\* the engine or charged in its own right is within them.
LEMMA BooksHold ==
  ASSUME Owned, Books, up = "up", Clear, NEW E \in SUBSET Models,
         \A m \in E : m \in Engine \/ (Occupies(slots[m].state) /\ ~slots[m].inherited)
  PROVE  UsedBy(E) <= Accounted(slots, reserved, covered)
<1>1. PICK St \in SUBSET Models : Seen(St)
  BY DEF Books
<1>2. slots \in [Models -> Slot] /\ covered \in [Models -> Nat]
  BY ShapeParts DEF Owned
<1>3. \A m \in E : m \in St \/ (Occupies(slots[m].state) /\ Size[m] <= slots[m].mem)
  BY <1>1, <1>2 DEF Seen, Backed, Owned, SlotsOfOp, SlotRule
<1>4. \A m \in Models : covered[m] > 0 => m \in St
  BY <1>1 DEF Seen
<1>5. UsedBy(E) <= Accounted(slots, UsedBy(St), covered)
  BY <1>2, <1>3, <1>4, Covered
<1> QED BY <1>1, <1>5 DEF Seen

LEMMA BooksCover ==
  ASSUME Owned, Books
  PROVE  LedgerCoversEngine
<1> SUFFICES ASSUME up = "up", ~Unsure
             PROVE  UsedBy(Engine) <= Accounted(slots, reserved, covered)
  BY DEF LedgerCoversEngine, Engine, Unsure
<1>1. Engine \in SUBSET Models
  BY ShapeParts DEF Owned, EngineShape, Engine
<1> QED BY <1>1, BooksHold DEF Clear

\* As long as every load's fate is known, everything the engine holds or may
\* still allocate is charged: by a slot, or by the aggregate of a status
\* (effective_reserved_gb, refresh_aggregate, the failure outcomes).
THEOREM LedgerCovers == ASSUME ~DirtyRetryOom PROVE Spec => []LedgerCoversEngine
<1> QED BY BooksCover, AlwaysOwned, AlwaysBooks, PTL
-----------------------------------------------------------------------------
(* The room made for a load                                                *)

\* Whatever plan the eviction planner returns, the request fits beside what
\* it leaves.
LEMMA PlanFits ==
  ASSUME NEW view, IsFiniteSet(DOMAIN view), \A m \in DOMAIN view : view[m].mem \in Nat,
         NEW limit \in Int, NEW needed \in Int, NEW V \in Plans(view, limit, needed)
  PROVE  LET left == {m \in DOMAIN view : Occupies(view[m].state)} \ V
         IN  needed + Total(Mem(view), left) <= limit
<1> DEFINE occ == {m \in DOMAIN view : Occupies(view[m].state)}
           short == Shortfall(view, limit, needed)
<1>1. Countable(Mem(view), occ) /\ Total(Mem(view), occ) \in Nat
  <2>1. IsFiniteSet(occ)
    BY FS_Subset
  <2>2. \A m \in occ : Mem(view)[m] \in Nat
    BY DEF Mem
  <2>3. Countable(Mem(view), occ)
    BY <2>1, <2>2 DEF Countable
  <2> HIDE DEF occ
  <2> QED BY <2>3, SumNat DEF Total
<1>2. short = needed - (limit - Total(Mem(view), occ))
  BY DEF Shortfall, Occupied
<1>3. CASE short <= 0
  <2>1. V = {}
    BY <1>3 DEF Plans
  <2>2. occ \ V = occ
    BY <2>1
  <2>3. needed + Total(Mem(view), occ) <= limit
    <3> HIDE DEF occ, short
    <3> QED BY <1>1, <1>2, <1>3
  <2> QED BY <2>2, <2>3
<1>4. CASE ~(short <= 0)
  <2>1. V \subseteq Candidates(view) /\ Total(Mem(view), V) >= short
    BY <1>4 DEF Plans, LruPrefix
  <2>2. V \in SUBSET occ
    BY <2>1 DEF Candidates, Occupies
  <2> HIDE DEF occ, short
  <2>3. /\ Total(Mem(view), occ) = Total(Mem(view), V) + Total(Mem(view), occ \ V)
    BY <1>1, <2>2, SumSubset DEF Total
  <2>4. Countable(Mem(view), V) /\ Countable(Mem(view), occ \ V)
    BY <1>1, <2>2, FS_Subset DEF Countable
  <2>5. Total(Mem(view), V) \in Nat /\ Total(Mem(view), occ \ V) \in Nat
    BY <2>4, SumNat DEF Total
  <2>6. short \in Int
    BY <1>1, <1>2
  <2>7. needed + Total(Mem(view), occ \ V) <= limit
    BY <1>1, <1>2, <2>1, <2>3, <2>5, <2>6
  <2> QED BY <2>7 DEF occ
<1> QED BY <1>3, <1>4

\* What the other slots are charged while a load runs beside its victims.
Others(s, victims, id) == Total(Mems(s), Charged(s) \ (victims \cup {id}))

LEMMA AdmissionFits ==
  ASSUME Owned, NEW id \in Models, NEW policy \in Policies, NEW mem \in Estimates[id],
         NEW victims \in SUBSET Models, Loading(id, policy, mem, victims)
  PROVE  /\ Reservation(slots, reserved, covered) + RequestCharge(id, mem)
              + Others(slots', victims, id) <= Budget
         /\ Others(slots', victims, id) = Others(slots, victims, id)
         /\ Reservation(slots, reserved, covered) \in Nat
         /\ RequestCharge(id, mem) \in Nat
         /\ Others(slots, victims, id) \in Nat
<1> DEFINE view == Snapshot(slots, id)
           res == Reservation(slots, reserved, covered)
           charge == RequestCharge(id, mem)
           left == {m \in DOMAIN view : Occupies(view[m].state)} \ victims
           kept == Charged(slots) \ (victims \cup {id})
<1>1. Admitted(id, mem, victims) /\ victims \in LoadPlans(id, mem)
  BY LoadingSlots DEF Loading
<1>2. slots \in [Models -> Slot] /\ slots' \in [Models -> Slot]
      /\ reserved \in Nat /\ covered \in [Models -> Nat] /\ TypeOK
      /\ IsFiniteSet(Models) /\ Budget \in Nat
  BY ShapeParts, SupervisorAssumption DEF Owned, Loading, Shape
<1>3. charge \in Nat
  BY <1>2, ChargeIs
<1>4. res \in Nat
  BY <1>2, NumbersOf
<1>5. DOMAIN view = {x \in Models \ {id} : slots[x].state # "Absent"}
      /\ \A m \in DOMAIN view : view[m].mem = slots[m].mem /\ view[m].state = slots[m].state
  BY DEF Snapshot
<1>6. IsFiniteSet(DOMAIN view) /\ \A m \in DOMAIN view : view[m].mem \in Nat
  BY <1>2, <1>5, FS_Subset DEF Slot
<1>7. victims \in Plans(view, Budget - res, charge)
  BY <1>1 DEF LoadPlans
<1>8. left = kept
  <2> HIDE DEF view
  <2> QED BY <1>5 DEF Charged, Occupies
<1>9. charge + Total(Mem(view), left) <= Budget - res
  <2>1. Budget - res \in Int
    BY <1>2, <1>4
  <2> HIDE DEF view, res, charge
  <2> QED BY <1>3, <1>6, <1>7, <2>1, PlanFits
<1>10. Total(Mem(view), left) = Total(Mems(slots), kept)
  <2>1. \A m \in left : Mem(view)[m] = Mems(slots)[m]
    <3> HIDE DEF view
    <3> QED BY <1>5 DEF Mem, Mems
  <2>2. Summable(Mem(view), left)
    <3>1. left \subseteq DOMAIN view
      OBVIOUS
    <3> HIDE DEF view, left
    <3> QED BY <1>6, <3>1, FS_Subset DEF Summable, Mem
  <2> HIDE DEF view, left, kept
  <2> QED BY <1>8, <2>1, <2>2, SumSame DEF Total
<1>11. Total(Mems(slots), kept) \in Nat
  <2>1. kept \in SUBSET Models
    BY DEF Charged
  <2> HIDE DEF kept
  <2> QED BY <1>2, <2>1, NumbersOf
<1>12. Total(Mems(slots'), Charged(slots') \ (victims \cup {id})) = Total(Mems(slots), kept)
  <2>1. \A m \in Models \ (victims \cup {id}) : slots'[m] = slots[m]
    BY <1>1 DEF Admitted
  <2>2. Charged(slots') \ (victims \cup {id}) = kept
    BY <2>1 DEF Charged
  <2>3. \A m \in kept : Mems(slots)[m] = Mems(slots')[m]
    BY <2>1 DEF Mems, Charged
  <2>4. Summable(Mems(slots), kept)
    <3>1. kept \subseteq Models
      BY DEF Charged
    <3>2. \A m \in kept : Mems(slots)[m] \in Int
      BY <1>2, <3>1 DEF Mems, Slot
    <3> HIDE DEF kept
    <3> QED BY <1>2, <3>1, <3>2, FS_Subset DEF Summable
  <2> HIDE DEF kept
  <2> QED BY <2>2, <2>3, <2>4, SumSame DEF Total
<1> HIDE DEF view, res, charge, left, kept
<1>13. /\ Others(slots', victims, id) = Total(Mems(slots), kept)
       /\ Others(slots, victims, id) = Total(Mems(slots), kept)
  BY <1>12 DEF Others, kept
<1> QED BY <1>2, <1>3, <1>4, <1>9, <1>10, <1>11, <1>13 DEF res, charge

\* The books depend on the slots only through what is charged and credited.
LEMMA SameBooks ==
  ASSUME NEW s \in [Models -> Slot], NEW t \in [Models -> Slot], NEW cov \in [Models -> Nat],
         NEW res \in Nat,
         \A m \in Models : /\ Occupies(s[m].state) <=> Occupies(t[m].state)
                           /\ Occupies(s[m].state) => /\ s[m].mem = t[m].mem
                                                      /\ s[m].unconfirmed = t[m].unconfirmed
  PROVE  /\ Accounted(s, res, cov) = Accounted(t, res, cov)
         /\ Reservation(s, res, cov) = Reservation(t, res, cov)
<1>1. Credits(s, cov) = Credits(t, cov) /\ Charges(s) = Charges(t)
  BY DEF Credits, Charges
<1>2. Reservation(s, res, cov) = Reservation(t, res, cov)
  BY <1>1 DEF Reservation, ReservedExcept
<1>3. /\ Total(Mems(s), Charged(s)) = Total(Charges(s), Models)
      /\ Total(Mems(t), Charged(t)) = Total(Charges(t), Models)
  BY Parts
<1> QED BY <1>1, <1>2, <1>3 DEF Accounted

\* The aggregate holds no more for a model that had no slot to credit.
LEMMA AdmissionRests ==
  ASSUME Owned, NEW id \in Models, NEW policy \in Policies, NEW mem \in Estimates[id],
         NEW victims \in SUBSET Models, Loading(id, policy, mem, victims),
         ~Occupies(slots[id].state)
  PROVE  /\ Reservation(slots', reserved, covered) \in Nat
         /\ Reservation(slots', reserved, covered) <= Reservation(slots, reserved, covered)
<1>1. Admitted(id, mem, victims)
  BY LoadingSlots
<1>2. /\ slots \in [Models -> Slot] /\ slots' \in [Models -> Slot]
      /\ reserved \in Nat /\ covered \in [Models -> Nat]
  BY ShapeParts DEF Owned, Loading
<1>3. PICK t \in [Models -> Slot] : t = slots'
  BY <1>2
<1> DEFINE old == Credits(slots, covered)
           new == Credits(t, covered)
<1>4. Summable(old, Models) /\ Summable(new, Models)
  BY <1>2, Parts
<1>5. \A m \in Models : old[m] <= new[m]
  <2> TAKE m \in Models
  <2>1. slots[m].mem \in Nat /\ t[m].mem \in Nat /\ covered[m] \in Nat
    BY <1>2 DEF Slot
  <2>2. /\ old[m] = (IF Occupies(slots[m].state) /\ ~slots[m].unconfirmed
                     THEN Smaller(slots[m].mem, covered[m]) ELSE 0)
        /\ new[m] = (IF Occupies(t[m].state) /\ ~t[m].unconfirmed
                     THEN Smaller(t[m].mem, covered[m]) ELSE 0)
    BY DEF Credits
  <2> HIDE DEF old, new
  <2>3. Smaller(t[m].mem, covered[m]) \in Nat /\ Smaller(slots[m].mem, covered[m]) \in Nat
    BY <2>1 DEF Smaller
  <2>4. CASE m = id
    BY <2>2, <2>3, <2>4
  <2>5. CASE m \in victims
    BY <1>1, <1>3, <2>2, <2>3, <2>5 DEF Admitted, Occupies
  <2>6. CASE m \notin victims \cup {id}
    BY <1>1, <1>3, <2>2, <2>3, <2>6 DEF Admitted
  <2> QED BY <2>4, <2>5, <2>6
<1>6. /\ Reservation(slots, reserved, covered) = AtLeast0(reserved - Total(old, Models))
      /\ Reservation(t, reserved, covered) = AtLeast0(reserved - Total(new, Models))
  <2>1. Models \ {} = Models
    OBVIOUS
  <2> QED BY <2>1 DEF Reservation, ReservedExcept
<1> HIDE DEF old, new
<1>7. /\ Total(old, Models) \in Int /\ Total(new, Models) \in Int
      /\ Total(old, Models) <= Total(new, Models)
  BY <1>4, <1>5, SumInt, SumMono DEF Total
<1> QED BY <1>2, <1>3, <1>6, <1>7 DEF AtLeast0

\* What the engine holds, may hold when the load in flight has evicted its
\* victims, or may hold when the load in flight has been sent.
Wanted(E) ==
  \/ E = Engine
  \/ flow.pc \in {"load", "confirmOom", "retry"} /\ E = resident \cup {flow.id}
  \/ /\ flow.pc \in {"evict", "confirmEvict"} /\ ~flow.inherited /\ flow.first # None
     /\ E = resident \cup {flow.id}
  \/ /\ flow.pc \in {"evict", "confirmEvict"} /\ ~flow.inherited /\ flow.first = None
     /\ flow.id \in E /\ E \subseteq resident \cup {flow.id}
     /\ UsedBy(E \ {flow.id}) <= flow.after

\* There is room for it: within what this runtime claimed in the shared
\* ledger, and within the budget as long as no claim beyond it was adopted
\* with the fence gone.
Room ==
  \A E \in SUBSET Models :
    Wanted(E) => (~breach => UsedBy(E) <= Budget) /\ (up = "up" => UsedBy(E) <= claim)

\* Between operations the claim covers the books; a claim beyond the budget is
\* one beside an unconfirmed load, and its marker forbids the next.
Claimed ==
  up = "up" =>
  /\ op = None => Accounted(slots, reserved, covered) <= claim
  /\ ~breach /\ ~poisoned /\ claim > Budget =>
       Unsure /\ marker /\ flow.pc \notin LoadCalls

LEMMA UsedGrows ==
  ASSUME NEW E \in SUBSET Models, NEW F \in SUBSET Models, E \subseteq F
  PROVE  UsedBy(E) \in Nat /\ UsedBy(F) \in Nat /\ UsedBy(E) <= UsedBy(F)
<1>1. Countable(Size, E) /\ Countable(Size, F)
  BY SupervisorAssumption, FS_Subset DEF Countable
<1> QED BY <1>1, SumNat, SumSubset DEF UsedBy, Total

LEMMA UsedWith ==
  ASSUME NEW E \in SUBSET Models, NEW m \in E
  PROVE  UsedBy(E) = Size[m] + UsedBy(E \ {m}) /\ UsedBy(E \ {m}) \in Nat
<1>1. Summable(Size, E) /\ E \ {m} \in SUBSET Models
  BY SupervisorAssumption, FS_Subset DEF Summable
<1> QED BY <1>1, SumSplit, UsedGrows DEF UsedBy, Total

\* What an admitted load may want is within the books it was admitted on, or
\* within the total it was planned for.
LEMMA AdmissionCovers ==
  ASSUME Owned, Fenced, Books, NEW id \in Models, NEW policy \in Policies,
         NEW mem \in Estimates[id], NEW victims \in SUBSET Models,
         Loading(id, policy, mem, victims), NEW E \in SUBSET Models, Wanted(E)', E # Engine
  PROVE  \/ UsedBy(E) <= Accounted(slots, reserved, covered)
         \/ UsedBy(E) <= Reservation(slots, reserved, covered) + RequestCharge(id, mem)
                         + Others(slots, victims, id)
<1> DEFINE res == Reservation(slots, reserved, covered)
           others == Others(slots, victims, id)
<1>1. Admitted(id, mem, victims)
  BY LoadingSlots
<1>2. /\ up = "up" /\ ~marker /\ loading = {} /\ resident' = resident /\ loading' = loading
      /\ flow'.id = id /\ flow'.first = PrevOf(slots[id]) /\ flow'.inherited = slots[id].inherited
      /\ flow'.pc = (IF victims # {} THEN "evict" ELSE IF flow'.inherited THEN "verify" ELSE "load")
  BY <1>1 DEF Admitted, Loading, Fenced, engineVars
<1>3. /\ slots \in [Models -> Slot] /\ slots[id] \in Slot /\ slots[id] # None
      /\ Engine \in SUBSET Models /\ Engine = resident /\ TypeOK
  BY <1>2, NoneAssumption, ShapeParts DEF Owned, EngineShape, Engine, Shape
<1>4. ~slots[id].inherited /\ E # Engine' /\ id \in E /\ E \subseteq Engine \cup {id}
  BY <1>2, <1>3 DEF Wanted, Engine
<1>5. RequestCharge(id, mem) \in Nat /\ Size[id] <= RequestCharge(id, mem) /\ Size[id] \in Nat
  BY <1>3, <1>4, ChargeIs, SupervisorAssumption
<1>6. CASE Occupies(slots[id].state)
  <2>1. \A m \in E : m \in Engine \/ (Occupies(slots[m].state) /\ ~slots[m].inherited)
    BY <1>4, <1>6
  <2> QED BY <1>2, <2>1, BooksHold DEF Clear
<1>7. CASE ~Occupies(slots[id].state)
  <2>1. flow'.first = None
    BY <1>2, <1>7 DEF PrevOf
  <2>2. UsedBy(E) = Size[id] + UsedBy(E \ {id}) /\ UsedBy(E \ {id}) \in Nat
    BY <1>4, UsedWith
  <2>3. res \in Nat /\ others \in Nat /\ Others(slots', victims, id) = others
    BY AdmissionFits
  <2>4. UsedBy(E \ {id}) <= res + others
    <3>1. CASE victims # {}
      <4>1. UsedBy(E \ {id}) <= flow'.after
        <5>1. flow'.pc = "evict" /\ E # Engine'
          BY <1>2, <1>4, <3>1
        <5> QED BY <1>2, <2>1, <5>1 DEF Wanted, UsedBy
      <4>2. flow'.after = Others(slots', victims, id) + Reservation(slots', reserved, covered)
        <5>1. flow'.credit = 0
          BY <1>7 DEF Loading, PrevOf
        <5>2. flow'.after = Others(slots', victims, id) + Reservation(slots', reserved, covered)
                            + flow'.credit
          BY DEF Loading, Others
        <5>3. Reservation(slots', reserved, covered) \in Nat
          BY <1>7, AdmissionRests
        <5> HIDE DEF others, res
        <5> QED BY <2>3, <5>1, <5>2, <5>3
      <4>3. /\ Reservation(slots', reserved, covered) \in Nat
            /\ Reservation(slots', reserved, covered) <= res
        BY <1>7, AdmissionRests
      <4> HIDE DEF others, res
      <4> QED BY <2>2, <2>3, <4>1, <4>2, <4>3
    <3>2. CASE victims = {}
      <4>1. \A m \in Engine : m \in Engine \/ (Occupies(slots[m].state) /\ ~slots[m].inherited)
        OBVIOUS
      <4>2. UsedBy(Engine) <= Accounted(slots, reserved, covered)
        BY <1>2, <1>3, <4>1, BooksHold DEF Clear
      <4>3. UsedBy(E \ {id}) <= UsedBy(Engine) /\ UsedBy(Engine) \in Nat
        BY <1>3, <1>4, UsedGrows
      <4>4. Charged(slots) \ (victims \cup {id}) = Charged(slots)
        BY <1>7, <3>2 DEF Charged
      <4>5. Accounted(slots, reserved, covered) = others + res
        BY <4>4 DEF Accounted, Others
      <4> HIDE DEF others, res
      <4> QED BY <2>2, <2>3, <4>2, <4>3, <4>5
    <3> QED BY <3>1, <3>2
  <2> HIDE DEF others, res
  <2>5. UsedBy(E) <= res + RequestCharge(id, mem) + others
    BY <1>5, <2>2, <2>3, <2>4
  <2> QED BY <2>5 DEF res, others
<1> QED BY <1>6, <1>7

\* Steps after which nothing more is wanted than before.
LEMMA RoomKeeps ==
  ASSUME Owned, Room, claim' \in Nat, up' = "up" => up = "up" /\ claim' >= claim,
         breach => breach',
         \A E \in SUBSET Models : Wanted(E)' => \E F \in SUBSET Models : Wanted(F) /\ E \subseteq F
  PROVE  Room'
<1> SUFFICES ASSUME NEW E \in SUBSET Models, Wanted(E)'
             PROVE  (~breach' => UsedBy(E) <= Budget) /\ (up' = "up" => UsedBy(E) <= claim')
  BY DEF Room, UsedBy
<1>1. PICK F \in SUBSET Models : Wanted(F) /\ E \subseteq F
  OBVIOUS
<1>2. UsedBy(E) \in Nat /\ UsedBy(F) \in Nat /\ UsedBy(E) <= UsedBy(F)
  BY <1>1, UsedGrows
<1>3. (~breach => UsedBy(F) <= Budget) /\ (up = "up" => UsedBy(F) <= claim)
  BY <1>1 DEF Room
<1>4. claim \in Nat /\ Budget \in Nat
  BY ShapeParts, SupervisorAssumption DEF Owned
<1> QED BY <1>2, <1>3, <1>4

\* The calls of the task: victims leave before the load is sent, a load sent
\* adds its own model only.
LEMMA RoomWorks ==
  ASSUME Owned, Fenced, Room, Works, ~DirtyRetryOom
  PROVE  Room'
<1>1. /\ up' = up /\ claim' = claim /\ claim \in Nat /\ Moves /\ breach' = breach
      /\ resident \subseteq Models /\ loading \subseteq Models /\ flow.victims \subseteq Models
      /\ flow.after \in Nat
  BY ShapeParts DEF Works, actorVars, Owned, EngineShape, TaskShape, Task
<1>2. /\ flow'.id = flow.id /\ flow'.victims = flow.victims /\ flow'.inherited = flow.inherited
      /\ flow'.first = flow.first /\ flow'.after = flow.after
      /\ flow.pc \in LoadCalls \cup UnloadCalls
  BY <1>1, MovesKeep
<1>3. flow.id \in Models
  BY <1>2 DEF Owned, TaskOfOp, LoadCalls, UnloadCalls
<1>4. /\ Engine' \subseteq Engine \cup {flow.id}
      /\ flow.pc \notin {"load", "retry"} => Engine' = Engine
  BY <1>1, MovesGrow
<1>5. flow.pc \in {"evict", "confirmEvict", "verify", "load", "confirmOom", "retry"} => loading = {}
  BY DEF Fenced, LoadCalls
<1>6. Wanted(Engine) /\ Engine \in SUBSET Models
  BY <1>1 DEF Wanted, Engine
<1>7. ASSUME NEW E \in SUBSET Models, Wanted(E)'
      PROVE  \E F \in SUBSET Models : Wanted(F) /\ E \subseteq F
  <2>1. CASE E = Engine'
    <3>1. CASE flow.pc \in {"load", "retry"}
      <4>1. Engine' \subseteq resident \cup {flow.id}
        BY <1>4, <1>5, <3>1 DEF Engine
      <4>2. Wanted(resident \cup {flow.id}) /\ resident \cup {flow.id} \in SUBSET Models
        BY <1>1, <1>3, <3>1 DEF Wanted
      <4> QED BY <2>1, <4>1, <4>2
    <3>2. CASE flow.pc \notin {"load", "retry"}
      BY <1>4, <1>6, <2>1, <3>2
    <3> QED BY <3>1, <3>2
  <2>2. CASE flow'.pc \in {"evict", "confirmEvict"} /\ E # Engine'
    <3>1. flow.pc = "evict" /\ resident' = resident
      BY <1>1, <2>2 DEF Moves, EvictMoves, ConfirmEvictMoves, VerifyMoves, LoadMoves,
           AcceptedMoves, RejectedMoves, OomMoves, LostMoves, ConfirmOomMoves, CleanupMoves,
           ConfirmCleanupMoves, ProbeMoves, PanicMoves, UnloadMoves, ConfirmUnloadMoves,
           Moved, GoesTo, EndsAs, EndsCleared, Doubted, EndsReleased, EngineSame
    <3>2. Wanted(E)
      BY <1>2, <1>7, <2>2, <3>1 DEF Wanted, UsedBy
    <3> QED BY <3>2
  <2>3. CASE flow'.pc \in {"load", "confirmOom", "retry"} /\ E = resident' \cup {flow'.id}
    <3>1. \/ ConfirmEvictMoves \/ VerifyMoves \/ LoadMoves \/ ConfirmOomMoves
      BY <1>1, <2>3 DEF Moves, EvictMoves, CleanupMoves,
           ConfirmCleanupMoves, ProbeMoves, PanicMoves, UnloadMoves, ConfirmUnloadMoves,
           Moved, GoesTo, EndsAs, EndsCleared, Doubted, EndsReleased
    <3>2. CASE ConfirmEvictMoves
      <4>1. /\ resident' = resident /\ flow.pc = "confirmEvict" /\ ~flow.inherited
            /\ UsedBy(resident) <= flow.after
        BY <2>3, <3>2 DEF ConfirmEvictMoves, Moved, Released
      <4>2. E = resident \cup {flow.id} /\ flow.id \in E
        BY <1>2, <2>3, <4>1
      <4>3. UsedBy(E \ {flow.id}) <= flow.after
        <5>1. E \ {flow.id} \in SUBSET Models /\ resident \in SUBSET Models
              /\ E \ {flow.id} \subseteq resident
          BY <1>1, <4>2
        <5>2. /\ UsedBy(E \ {flow.id}) \in Nat /\ UsedBy(resident) \in Nat
              /\ UsedBy(E \ {flow.id}) <= UsedBy(resident)
          BY <5>1, UsedGrows
        <5> QED BY <1>1, <4>1, <5>2
      <4> QED BY <4>1, <4>2, <4>3 DEF Wanted
    <3>3. CASE VerifyMoves
      <4>1. resident' = resident /\ flow.id \in resident
        BY <2>3, <3>3 DEF VerifyMoves, EndsCleared, EndsAs, Doubted, Moved
      <4> QED BY <1>2, <1>6, <2>3, <4>1 DEF Engine
    <3>4. CASE LoadMoves
      <4>1. flow.pc \in {"load", "retry"}
        BY <3>4 DEF LoadMoves
      <4>2. resident' \subseteq resident \cup {flow.id}
        BY <1>4, <1>5, <4>1 DEF Engine
      <4>3. E \subseteq resident \cup {flow.id} /\ resident \cup {flow.id} \in SUBSET Models
        BY <1>1, <1>2, <1>3, <2>3, <4>2
      <4> QED BY <4>1, <4>3 DEF Wanted
    <3>5. CASE ConfirmOomMoves
      <4>1. resident' = resident /\ flow.pc = "confirmOom"
        BY <3>5 DEF ConfirmOomMoves
      <4> QED BY <1>2, <2>3, <4>1 DEF Wanted
    <3> QED BY <3>1, <3>2, <3>3, <3>4, <3>5
  <2> QED BY <1>7, <2>1, <2>2, <2>3 DEF Wanted
<1> QED BY <1>1, <1>7, RoomKeeps

\* The admission of a load.
LEMMA RoomLoading ==
  ASSUME Owned, Fenced, Books, Room, Claimed, NEW id \in Models, NEW policy \in Policies,
         NEW mem \in Estimates[id], NEW victims \in SUBSET Models,
         Loading(id, policy, mem, victims)
  PROVE  Room' /\ Claimed'
<1> DEFINE planned == Reservation(slots, reserved, covered) + RequestCharge(id, mem)
                      + Others(slots, victims, id)
           books == Accounted(slots, reserved, covered)
<1>1. /\ up = "up" /\ up' = up /\ ~poisoned /\ ~marker /\ op = None /\ op' # None
      /\ breach' = breach /\ resident' = resident /\ loading' = loading
      /\ claim' \in Nat /\ claim \in Nat /\ Budget \in Nat /\ Engine \in SUBSET Models
  BY NoneAssumption, ShapeParts, SupervisorAssumption
  DEF Loading, MayLoad, Serving, engineVars, Owned, EngineShape, Engine
<1>2. claim' = Larger(claim, Reservation(slots, reserved, covered) + RequestCharge(id, mem)
                             + Others(slots', victims, id))
  BY DEF Loading, Held, Others
<1>3. planned <= Budget /\ planned \in Nat /\ claim' = Larger(claim, planned)
  BY <1>1, <1>2, AdmissionFits
<1>4. /\ books <= claim /\ books \in Nat
      /\ ~breach => claim <= Budget
  <2>1. books \in Nat
    BY ShapeParts, NumbersOf DEF Owned
  <2> QED BY <1>1, <2>1 DEF Claimed
<1> HIDE DEF planned, books
<1>5. claim' >= claim /\ claim' >= planned /\ (~breach => claim' <= Budget)
  BY <1>1, <1>3, <1>4 DEF Larger
<1>6. ASSUME NEW E \in SUBSET Models, Wanted(E)'
      PROVE  (~breach => UsedBy(E) <= Budget) /\ UsedBy(E) <= claim'
  <2>1. UsedBy(E) \in Nat
    BY UsedGrows
  <2>2. UsedBy(E) <= claim \/ UsedBy(E) <= planned
    <3>1. CASE E = Engine
      BY <1>1, <3>1 DEF Room, Wanted
    <3>2. CASE E # Engine
      BY <1>1, <1>4, <1>6, <2>1, <3>2, AdmissionCovers DEF books, planned
    <3> QED BY <3>1, <3>2
  <2> QED BY <1>1, <1>3, <1>4, <1>5, <2>1, <2>2
<1>7. Room'
  BY <1>1, <1>6 DEF Room, UsedBy
<1>8. Claimed'
  BY <1>1, <1>5 DEF Claimed
<1> QED BY <1>7, <1>8

\* An operation that is settled leaves a claim that covers the engine.
LEMMA RoomSettling ==
  ASSUME Owned, Owned', Books', Room, Settling
  PROVE  Room'
<1>1. /\ up' = up /\ resident' = resident /\ loading' = loading /\ flow' = NoFlow
      /\ claim \in Nat /\ Engine \in SUBSET Models /\ breach \in BOOLEAN /\ (breach => breach')
  BY ShapeParts DEF Settling, engineVars, Owned, EngineShape, Engine, Shape, TypeOK
<1> DEFINE now == Accounted(slots', reserved', covered')
<1>2. /\ now \in Nat
      /\ claim' = (IF now > claim \/ ~ \E m \in Models : slots'[m].unconfirmed THEN now ELSE claim)
  BY DEF Settling
<1> HIDE DEF now
<1>3. CASE \E m \in Models : slots'[m].unconfirmed
  <2>1. claim' \in Nat /\ claim' >= claim
    BY <1>1, <1>2, <1>3
  <2>2. \A E \in SUBSET Models : Wanted(E)' => Wanted(E)
    BY <1>1, NoFlowFields DEF Wanted, Engine
  <2> QED BY <1>1, <2>1, <2>2, RoomKeeps
<1>4. CASE ~ \E m \in Models : slots'[m].unconfirmed
  <2>1. LedgerCoversEngine'
    <3>1. Owned /\ Books => LedgerCoversEngine
      BY BooksCover
    <3>2. (Owned /\ Books => LedgerCoversEngine)'
      BY BooksCover, PTL
    <3> QED BY <3>2
  <2>2. claim' = now
    BY <1>2, <1>4
  <2>3. up' = "up" => UsedBy(Engine') <= now
    BY <1>4, <2>1 DEF LedgerCoversEngine, UsedBy, now, Engine, Accounted, Total, Mems, Charged,
         Reservation, ReservedExcept, Credits
  <2>4. Engine' = Engine /\ Wanted(Engine)
    BY <1>1 DEF Engine, Wanted
  <2>5. ~breach' => UsedBy(Engine) <= Budget
    BY <1>1, <2>4 DEF Room
  <2>6. \A E \in SUBSET Models : Wanted(E)' => E = Engine'
    BY <1>1, NoFlowFields DEF Wanted
  <2> QED BY <2>2, <2>3, <2>4, <2>5, <2>6 DEF Room, UsedBy
<1> QED BY <1>3, <1>4

\* A load in doubt stays in doubt.
LEMMA UnsureStays == ASSUME Owned, Settling PROVE Unsure => Unsure'
<1>1. ASSUME NEW m \in Models, slots[m].unconfirmed
      PROVE  slots'[m].unconfirmed
  <2>1. m # flow.id /\ m \notin flow.victims
    BY <1>1 DEF Settling, Owned, SlotsOfOp
  <2> QED BY <1>1, <2>1 DEF Settling
<1> QED BY <1>1 DEF Unsure

\* A claim that grows beyond the budget poisons the actor, or is one beside a
\* load in doubt: fenced, or a breach.
LEMMA ClaimedSettling ==
  ASSUME Owned, Claimed, Settling
  PROVE  Claimed'
<1> DEFINE now == Accounted(slots', reserved', covered')
           unsure == \E m \in Models : slots'[m].unconfirmed
<1>1. /\ up = "up" /\ ~poisoned /\ marker' = marker /\ flow' = NoFlow
      /\ now \in Nat /\ claim \in Nat /\ Budget \in Nat /\ breach \in BOOLEAN /\ marker \in BOOLEAN
      /\ claim' = (IF now > claim \/ ~unsure THEN now ELSE claim)
      /\ poisoned' <=> (now > claim /\ ~unsure)
      /\ breach' <=> (breach \/ (unsure /\ ~marker /\ now > Larger(claim, Budget)))
  <2>1. claim \in Nat /\ Budget \in Nat /\ breach \in BOOLEAN /\ marker \in BOOLEAN
    BY ShapeParts, SupervisorAssumption DEF Owned, Shape, TypeOK
  <2>2. /\ up = "up" /\ ~poisoned /\ marker' = marker /\ flow' = NoFlow /\ now \in Nat
        /\ claim' = (IF now > claim \/ ~unsure THEN now ELSE claim)
        /\ poisoned' <=> (now > claim /\ ~unsure)
    BY DEF Settling, Serving
  <2>3. breach' <=> (breach \/ (unsure /\ ~marker /\ now > Larger(claim, Budget)))
    BY DEF Settling
  <2> QED BY <2>1, <2>2, <2>3
<1>2. Unsure' <=> unsure
  BY DEF Unsure
<1>3. Accounted(slots, reserved, covered)' = now
  BY DEF Accounted, Reservation, ReservedExcept, Credits, Charged, Mems, Total
<1>4. flow'.pc \notin LoadCalls
  BY <1>1, NoFlowFields DEF LoadCalls
<1>5. ~breach /\ claim > Budget => unsure /\ marker
  BY <1>1, <1>2, UnsureStays DEF Claimed
<1> HIDE DEF now, unsure
<1>6. now <= claim'
  BY <1>1
<1>7. ~breach' /\ ~poisoned' /\ claim' > Budget => unsure /\ marker
  BY <1>1, <1>5 DEF Larger
<1> QED BY <1>1, <1>2, <1>3, <1>4, <1>6, <1>7 DEF Claimed

\* The books of an actor that has just adopted what a status shows.
LEMMA StartBooks ==
  ASSUME Owned, Owned', Start, up' = "up", \A m \in Models : covered[m] = 0
  PROVE  Accounted(slots', reserved', covered') = claim' /\ claim' = UsedBy(resident)
<1>1. /\ claim' = UsedBy(resident) /\ reserved' = UsedBy(resident) /\ covered' = covered
      /\ \A m \in Models : Adopted(slots'[m])
      /\ resident \in SUBSET Models /\ covered \in [Models -> Nat]
  BY ShapeParts DEF Start, Adopted, Owned, EngineShape
<1>2. PICK t \in [Models -> Slot] : t = slots'
  BY ShapeParts DEF Owned, Shape, TypeOK
<1>3. \A m \in Models : t[m].mem = 0
  BY <1>1, <1>2, AdoptedIs
<1>4. \A m \in Models : Charges(t)[m] = 0 /\ Credits(t, covered)[m] = 0
  BY <1>3 DEF Charges, Credits, Smaller
<1>5. Total(Charges(t), Models) = 0 /\ Total(Credits(t, covered), Models) = 0
  BY <1>4, SumZero, SupervisorAssumption DEF Total
<1>6. /\ Total(Mems(t), Charged(t)) = Total(Charges(t), Models)
      /\ UsedBy(resident) = Total(Seats(resident), Models)
      /\ Reservation(t, UsedBy(resident), covered) =
           AtLeast0(Total(Seats(resident), Models) - Total(Credits(t, covered), Models))
  BY <1>1, Parts
<1>7. UsedBy(resident) \in Nat
  BY <1>1, UsedGrows
<1>8. Accounted(t, UsedBy(resident), covered) = UsedBy(resident)
  BY <1>5, <1>6, <1>7 DEF Accounted, AtLeast0
<1> QED BY <1>1, <1>2, <1>8

\* Steps that keep the claim, and what the books say once no operation runs.
LEMMA ClaimedKeeps ==
  ASSUME Owned, Claimed, UNCHANGED <<up, reserved, covered, claim, breach, poisoned>>,
         slots' \in [Models -> Slot],
         \A m \in Models : slots'[m].unconfirmed = slots[m].unconfirmed,
         op' = None =>
           /\ op = None
           /\ \A m \in Models : /\ Occupies(slots[m].state) <=> Occupies(slots'[m].state)
                                /\ slots'[m].mem = slots[m].mem,
         marker /\ flow.pc \notin LoadCalls => marker' /\ flow'.pc \notin LoadCalls
  PROVE  Claimed'
<1>1. Unsure' = Unsure
  BY DEF Unsure
<1>2. op' = None => Accounted(slots, reserved, covered)' = Accounted(slots, reserved, covered)
  <2>1. /\ slots \in [Models -> Slot] /\ covered \in [Models -> Nat] /\ reserved \in Nat
    BY ShapeParts DEF Owned
  <2>2. op' = None => Accounted(slots', reserved, covered) = Accounted(slots, reserved, covered)
    BY <2>1, SameBooks
  <2>3. Accounted(slots, reserved, covered)' = Accounted(slots', reserved, covered)
    BY DEF Accounted, Reservation, ReservedExcept, Credits, Charged, Mems, Total
  <2> QED BY <2>2, <2>3
<1> QED BY <1>1, <1>2 DEF Claimed

LEMMA ClaimedStep ==
  ASSUME Owned, Owned', Fenced, Books, Room, Claimed, Effect
  PROVE  Claimed'
<1>1. /\ slots \in [Models -> Slot] /\ slots' \in [Models -> Slot]
  BY ShapeParts DEF Owned, Shape, TypeOK
<1>2. CASE Joins
  <2>1. op' # None
    BY <1>2, NoneAssumption DEF Joins
  <2> QED BY <1>1, <1>2, <2>1, ClaimedKeeps DEF Joins
<1>3. CASE MarkerAside \/ EngineAside \/ UNCHANGED vars
  <2>1. UNCHANGED <<actorVars, flow>> /\ (marker => marker')
    BY <1>3 DEF MarkerAside, EngineAside, EngineLoads, EngineUnloads, vars
  <2> QED BY <1>1, <2>1, ClaimedKeeps DEF actorVars
<1>4. CASE Works
  <2>1. UNCHANGED actorVars /\ Moves
    BY <1>4 DEF Works
  <2>2. flow.pc \notin LoadCalls => marker' = marker /\ flow'.pc \notin LoadCalls
    <3>1. flow.pc \notin LoadCalls => UnloadMoves \/ ConfirmUnloadMoves
      BY <2>1 DEF Moves, LoadCalls, EvictMoves, ConfirmEvictMoves, VerifyMoves, LoadMoves,
           ConfirmOomMoves, CleanupMoves, ConfirmCleanupMoves, ProbeMoves, PanicMoves
    <3>2. UnloadMoves \/ ConfirmUnloadMoves => marker' = marker /\ flow.pc \in UnloadCalls
      BY DEF UnloadMoves, ConfirmUnloadMoves, EngineSame, UnloadCalls
    <3>3. flow.pc \in UnloadCalls => flow'.pc \in UnloadCalls \cup {"done"}
      BY <2>1, MovesKeep
    <3> QED BY <3>1, <3>2, <3>3 DEF UnloadCalls, LoadCalls
  <2> QED BY <1>1, <2>1, <2>2, ClaimedKeeps DEF actorVars
<1>5. CASE Settling
  BY <1>5, ClaimedSettling
<1>6. CASE Leaves \/ OrphanEnds \/ OperatorReset
  BY <1>6 DEF Leaves, OrphanEnds, OperatorReset, actorVars, Claimed
<1>7. CASE Start
  <2>1. CASE up' # "up"
    BY <2>1 DEF Claimed
  <2>2. CASE up' = "up"
    <3>1. /\ up # "up" /\ flow = NoFlow /\ flow' = flow /\ ~marker /\ breach' = breach
      BY <1>7, <2>2 DEF Start, Locked
    <3>2. Accounted(slots', reserved', covered') = claim' /\ claim' = UsedBy(resident)
      BY <1>7, <2>2, <3>1, StartBooks DEF Books
    <3>3. loading = {} /\ resident \in SUBSET Models
      BY <3>1, ShapeParts DEF Fenced, Owned, EngineShape
    <3>4. ~breach => UsedBy(resident) <= Budget
      BY <3>3 DEF Room, Wanted, Engine
    <3>5. UsedBy(resident) \in Nat /\ Budget \in Nat
      BY <3>3, UsedGrows, SupervisorAssumption
    <3>6. Accounted(slots, reserved, covered)' = Accounted(slots', reserved', covered')
      BY DEF Accounted, Reservation, ReservedExcept, Credits, Charged, Mems, Total
    <3> QED BY <3>1, <3>2, <3>4, <3>5, <3>6 DEF Claimed
  <2> QED BY <2>1, <2>2
<1>8. ASSUME NEW id \in Models, UnloadStarts(id)
      PROVE  Claimed'
  <2>1. /\ UNCHANGED <<up, reserved, covered, claim, breach, poisoned, marker>>
        /\ op' # None /\ flow'.pc \notin LoadCalls
    BY <1>8, NoneAssumption, NoFlowFields DEF UnloadStarts, Unloading, LoadCalls
  <2>2. \A m \in Models : slots'[m].unconfirmed = slots[m].unconfirmed
    <3>1. slots'[id].unconfirmed \in BOOLEAN /\ slots[id].unconfirmed \in BOOLEAN
      BY <1>1, <1>8 DEF Slot
    <3> QED BY <1>8, <3>1 DEF UnloadStarts
  <2> QED BY <1>1, <2>1, <2>2, ClaimedKeeps
<1>9. ASSUME NEW id \in Models, ChatStarts(id) \/ ChatEnds(id)
      PROVE  Claimed'
  <2>1. /\ UNCHANGED <<up, reserved, covered, claim, breach, poisoned, marker>>
        /\ \A m \in Models : Alike(slots'[m], slots[m])
        /\ op' = None => op = None
    BY <1>9, NoneAssumption DEF ChatStarts, ChatEnds
  <2>2. flow.pc \notin LoadCalls => flow'.pc \notin LoadCalls
    BY <1>9 DEF ChatStarts, ChatEnds, Unloading, LoadCalls
  <2> QED BY <1>1, <2>1, <2>2, ClaimedKeeps DEF Alike
<1> QED BY <1>2, <1>3, <1>4, <1>5, <1>6, <1>7, <1>8, <1>9, RoomLoading DEF Effect

LEMMA RoomStep ==
  ASSUME Owned, Owned', Fenced, Books, Books', Room, Claimed, Effect, ~DirtyRetryOom
  PROVE  Room'
<1>1. /\ resident \subseteq Models /\ loading \subseteq Models /\ claim \in Nat
      /\ Engine \in SUBSET Models /\ Wanted(Engine) /\ claim' \in Nat
  <2>1. claim' \in Nat
    BY ShapeParts DEF Owned, Shape, TypeOK
  <2> QED BY <2>1, ShapeParts DEF Owned, EngineShape, Engine, Wanted
<1>2. CASE Joins \/ MarkerAside \/ UNCHANGED vars
  <2>1. UNCHANGED <<up, claim, flow, engineVars, breach>>
    BY <1>2 DEF Joins, MarkerAside, vars, actorVars
  <2>2. \A E \in SUBSET Models : Wanted(E)' => Wanted(E)
    BY <2>1 DEF Wanted, Engine, engineVars, UsedBy
  <2> QED BY <1>1, <2>1, <2>2, RoomKeeps
<1>3. CASE Works
  BY <1>3, RoomWorks
<1>4. CASE Settling
  BY <1>4, RoomSettling
<1>5. CASE Leaves
  <2>1. up' # "up" /\ resident' = resident /\ breach' = breach
    BY <1>5 DEF Leaves, ActorGone
  <2>2. \A E \in SUBSET Models : Wanted(E)' => \E F \in SUBSET Models : Wanted(F) /\ E \subseteq F
    <3> SUFFICES ASSUME NEW E \in SUBSET Models, Wanted(E)'
                 PROVE  \E F \in SUBSET Models : Wanted(F) /\ E \subseteq F
      OBVIOUS
    <3>1. CASE flow' = flow /\ loading' = loading
      BY <2>1, <3>1 DEF Wanted, Engine, UsedBy
    <3>2. CASE flow' = NoFlow /\ loading' = loading
      BY <2>1, <3>2, NoFlowFields DEF Wanted, Engine
    <3>3. CASE flow' = NoFlow /\ flow.pc \in {"load", "retry"} /\ loading' = loading \cup {flow.id}
      <4>1. loading = {}
        BY <3>3 DEF Fenced, LoadCalls
      <4>2. E = resident \cup {flow.id}
        BY <2>1, <3>3, <4>1, NoFlowFields DEF Wanted, Engine
      <4> QED BY <3>3, <4>2 DEF Wanted
    <3> QED BY <1>5, <3>1, <3>2, <3>3 DEF Leaves
  <2> QED BY <1>1, <2>1, <2>2, RoomKeeps
<1>6. CASE OrphanEnds
  <2>1. UNCHANGED <<up, claim, engineVars, breach>> /\ flow' = NoFlow
    BY <1>6 DEF OrphanEnds, actorVars
  <2>2. \A E \in SUBSET Models : Wanted(E)' => E = Engine
    BY <2>1, NoFlowFields DEF Wanted, Engine, engineVars
  <2> QED BY <1>1, <2>1, <2>2, RoomKeeps
<1>7. CASE Start
  <2>1. flow' = flow /\ resident' = resident /\ loading' = loading /\ breach' = breach
    BY <1>7 DEF Start, engineVars
  <2>2. \A E \in SUBSET Models : Wanted(E)' => Wanted(E)
    BY <2>1 DEF Wanted, Engine, UsedBy
  <2>3. CASE up' # "up"
    BY <1>1, <2>1, <2>2, <2>3, RoomKeeps
  <2>4. CASE up' = "up"
    <3>1. flow = NoFlow /\ ~marker /\ claim' = UsedBy(resident)
      BY <1>7, <2>4 DEF Start, Locked
    <3>2. loading = {}
      BY <3>1 DEF Fenced
    <3>3. \A E \in SUBSET Models : Wanted(E)' => E = resident
      BY <2>1, <3>1, <3>2, NoFlowFields DEF Wanted, Engine
    <3>4. (~breach => UsedBy(resident) <= Budget) /\ UsedBy(resident) \in Nat
      BY <1>1, <3>2, UsedGrows DEF Room, Engine
    <3> QED BY <2>1, <3>1, <3>3, <3>4 DEF Room, UsedBy
  <2> QED BY <2>3, <2>4
<1>8. CASE OperatorReset
  <2>1. up' # "up" /\ flow' = flow /\ flow = NoFlow /\ resident' = {} /\ loading' = {}
        /\ up' = up /\ claim' = claim /\ breach' = breach
    BY <1>8 DEF OperatorReset, Locked, actorVars
  <2>2. \A E \in SUBSET Models : Wanted(E)' => E \subseteq Engine
    BY <2>1, NoFlowFields DEF Wanted, Engine
  <2> QED BY <1>1, <2>1, <2>2, RoomKeeps
<1>9. CASE EngineAside
  <2>1. UNCHANGED <<up, claim, flow, breach>> /\ Engine' \subseteq Engine /\ loading' \subseteq loading
        /\ (loading = {} => resident' \subseteq resident)
    BY <1>9 DEF EngineAside, EngineLoads, EngineUnloads, Engine, actorVars
  <2>2. \A E \in SUBSET Models : Wanted(E)' => \E F \in SUBSET Models : Wanted(F) /\ E \subseteq F
    <3> SUFFICES ASSUME NEW E \in SUBSET Models, Wanted(E)'
                 PROVE  \E F \in SUBSET Models : Wanted(F) /\ E \subseteq F
      OBVIOUS
    <3>1. CASE E = Engine'
      BY <1>1, <2>1, <3>1
    <3>2. CASE flow.pc \in {"evict", "confirmEvict", "load", "confirmOom", "retry"} /\ E # Engine'
      <4>1. resident' \subseteq resident
        BY <2>1, <3>2 DEF Fenced, LoadCalls
      <4>2. flow.id \in Models
        BY <3>2 DEF Owned, TaskOfOp
      <4>3. CASE E = resident' \cup {flow.id} /\ Wanted(resident \cup {flow.id})
        BY <1>1, <4>1, <4>2, <4>3
      <4>4. CASE E # resident' \cup {flow.id} \/ ~Wanted(resident \cup {flow.id})
        <5>1. Wanted(E)
          BY <2>1, <3>2, <4>1, <4>4 DEF Wanted, UsedBy
        <5> QED BY <5>1
      <4> QED BY <4>3, <4>4
    <3> QED BY <2>1, <3>1, <3>2 DEF Wanted
  <2> QED BY <1>1, <2>1, <2>2, RoomKeeps
<1>10. ASSUME NEW id \in Models, UnloadStarts(id) \/ ChatStarts(id) \/ ChatEnds(id)
       PROVE  Room'
  <2>1. UNCHANGED <<up, claim, engineVars, breach>>
        /\ (flow' = flow \/ flow'.pc \in {"idle", "unload"})
    BY <1>10, NoFlowFields DEF UnloadStarts, ChatStarts, ChatEnds, Unloading
  <2>2. \A E \in SUBSET Models : Wanted(E)' => Wanted(E)
    BY <2>1 DEF Wanted, Engine, engineVars, UsedBy
  <2> QED BY <1>1, <2>1, <2>2, RoomKeeps
<1> QED BY <1>2, <1>3, <1>4, <1>5, <1>6, <1>7, <1>8, <1>9, <1>10, RoomLoading DEF Effect

LEMMA AlwaysRoom == ASSUME ~DirtyRetryOom PROVE Spec => [](Room /\ Claimed)
<1>1. Init => Room /\ Claimed
  BY NoFlowFields DEF Init, Room, Wanted, Engine, Claimed
<1>2. Owned /\ Fenced /\ Releases /\ Confirmed /\ Books /\ Room /\ Claimed /\ [Next]_vars
        => Room' /\ Claimed'
  BY Steps, BooksStep, RoomStep, ClaimedStep
<1> QED BY <1>1, <1>2, AlwaysOwned, AlwaysFenced, AlwaysReleases, AlwaysConfirmed, AlwaysBooks,
        PTL DEF Spec

\* Whatever the requests estimate, what the engine holds or may still allocate
\* stays within the budget, through evictions, retries after OOM, lost answers,
\* crashes and restarts, unless a settlement adopted a claim beyond it beside an
\* unfenced load in doubt (plan_eviction, handle_load, settle_runtime_capacity).
THEOREM NeverOvercommitted == ASSUME ~DirtyRetryOom PROVE Spec => []NoOvercommit
<1>1. Owned /\ Room => NoOvercommit
  <2>1. Owned => Engine \in SUBSET Models
    BY ShapeParts DEF Owned, EngineShape, Engine
  <2> QED BY <2>1 DEF Room, Wanted, Engine, NoOvercommit
<1> QED BY <1>1, AlwaysOwned, AlwaysRoom, PTL
-----------------------------------------------------------------------------
(* The claim in the shared ledger                                          *)

\* What of the sample the slots do not account for, and what the books hold
\* of each model: its charge and that rest.
Rest(s, cov, St) == [m \in Models |-> Seats(St)[m] - Credits(s, cov)[m]]
Owes(s, cov, St) == [m \in Models |-> Charges(s)[m] + Rest(s, cov, St)[m]]

\* The plan of a load: its own charge, the slots it spares, and the rest.
Spared(s, V) == [m \in Models |-> IF m \in Charged(s) \ V THEN s[m].mem ELSE 0]
Plan(s, b, cov, St, V) == [m \in Models |-> Spared(s, V)[m] + Rest(b, cov, St)[m]]

\* The rest is no more than the aggregate's reservation, which is cut off at 0.
LEMMA RestIs ==
  ASSUME NEW s \in [Models -> Slot], NEW cov \in [Models -> Nat], NEW St \in SUBSET Models
  PROVE  /\ Summable(Rest(s, cov, St), Models)
         /\ Total(Rest(s, cov, St), Models) <= Reservation(s, UsedBy(St), cov)
         /\ Reservation(s, UsedBy(St), cov) \in Nat
         /\ (\A m \in Models : s[m].mem <= Size[m] /\ (cov[m] > 0 => m \in St)) =>
              Reservation(s, UsedBy(St), cov) = Total(Rest(s, cov, St), Models)
<1> DEFINE rest == Rest(s, cov, St)
<1>1. /\ Summable(Seats(St), Models) /\ Summable(Credits(s, cov), Models)
      /\ Reservation(s, UsedBy(St), cov) =
           AtLeast0(Total(Seats(St), Models) - Total(Credits(s, cov), Models))
  BY Parts
<1>2. \A m \in Models : rest[m] = Seats(St)[m] - Credits(s, cov)[m] /\ rest[m] \in Int
  BY <1>1 DEF Rest, Summable
<1>3. (\A m \in Models : s[m].mem <= Size[m] /\ (cov[m] > 0 => m \in St)) =>
        \A m \in Models : rest[m] \in Nat
  <2> SUFFICES ASSUME NEW m \in Models, s[m].mem <= Size[m] /\ (cov[m] > 0 => m \in St)
               PROVE  rest[m] \in Nat
    OBVIOUS
  <2>1. s[m].mem \in Nat /\ Size[m] \in Nat /\ cov[m] \in Nat
    BY SupervisorAssumption DEF Slot
  <2>2. /\ Seats(St)[m] = (IF m \in St THEN Size[m] ELSE 0)
        /\ Credits(s, cov)[m] = IF Occupies(s[m].state) /\ ~s[m].unconfirmed
                                THEN Smaller(s[m].mem, cov[m]) ELSE 0
    BY DEF Seats, Credits
  <2> HIDE DEF rest
  <2> QED BY <1>2, <2>1, <2>2 DEF Smaller
<1> HIDE DEF rest
<1>4. Summable(rest, Models)
  BY <1>2, SupervisorAssumption DEF Summable
<1>5. Total(Seats(St), Models) = Total(rest, Models) + Total(Credits(s, cov), Models)
  <2>1. \A m \in Models : Seats(St)[m] = rest[m] + Credits(s, cov)[m]
    BY <1>1, <1>2 DEF Summable
  <2> QED BY <1>1, <1>4, <2>1, SumPlus DEF Total
<1>6. Total(Credits(s, cov), Models) \in Int /\ Total(rest, Models) \in Int
  BY <1>1, <1>4, SumInt DEF Total
<1>7. (\A m \in Models : rest[m] \in Nat) => Total(rest, Models) \in Nat
  BY SumNat, SupervisorAssumption DEF Total, Countable
<1> QED BY <1>1, <1>3, <1>4, <1>5, <1>6, <1>7 DEF AtLeast0, rest

LEMMA OwesIs ==
  ASSUME NEW s \in [Models -> Slot], NEW cov \in [Models -> Nat], NEW St \in SUBSET Models
  PROVE  /\ Summable(Owes(s, cov, St), Models)
         /\ Total(Owes(s, cov, St), Models) <= Accounted(s, UsedBy(St), cov)
         /\ (\A m \in Models : s[m].mem <= Size[m] /\ (cov[m] > 0 => m \in St)) =>
              Accounted(s, UsedBy(St), cov) = Total(Owes(s, cov, St), Models)
<1>1. /\ Summable(Rest(s, cov, St), Models)
      /\ Total(Rest(s, cov, St), Models) <= Reservation(s, UsedBy(St), cov)
      /\ Reservation(s, UsedBy(St), cov) \in Nat
      /\ (\A m \in Models : s[m].mem <= Size[m] /\ (cov[m] > 0 => m \in St)) =>
           Reservation(s, UsedBy(St), cov) = Total(Rest(s, cov, St), Models)
  BY RestIs
<1>2. Summable(Charges(s), Models) /\ Total(Mems(s), Charged(s)) = Total(Charges(s), Models)
  BY Parts
<1>3. \A m \in Models : /\ Owes(s, cov, St)[m] = Charges(s)[m] + Rest(s, cov, St)[m]
                        /\ Owes(s, cov, St)[m] \in Int
  BY <1>1, <1>2 DEF Owes, Summable
<1>4. Summable(Owes(s, cov, St), Models)
  BY <1>3, SupervisorAssumption DEF Summable
<1>5. Total(Owes(s, cov, St), Models) = Total(Charges(s), Models) + Total(Rest(s, cov, St), Models)
  BY <1>1, <1>2, <1>3, SumPlus DEF Total
<1>6. Total(Charges(s), Models) \in Int /\ Total(Rest(s, cov, St), Models) \in Int
  BY <1>1, <1>2, SumInt DEF Total
<1> QED BY <1>1, <1>2, <1>4, <1>5, <1>6 DEF Accounted

LEMMA PlanIs ==
  ASSUME NEW s \in [Models -> Slot], NEW b \in [Models -> Slot], NEW cov \in [Models -> Nat],
         NEW St \in SUBSET Models, NEW V \in SUBSET Models,
         NEW id \in Models \ V, Occupies(s[id].state)
  PROVE  /\ Summable(Plan(s, b, cov, St, V), Models)
         /\ Total(Plan(s, b, cov, St, V), Models) <=
              Reservation(b, UsedBy(St), cov) + s[id].mem + Others(s, V, id)
<1> DEFINE C == Charged(s) \ V
<1>1. /\ Summable(Rest(b, cov, St), Models) /\ Total(Rest(b, cov, St), Models) \in Int
      /\ Total(Rest(b, cov, St), Models) <= Reservation(b, UsedBy(St), cov)
      /\ Reservation(b, UsedBy(St), cov) \in Nat
  BY RestIs, SumInt DEF Total
<1>2. C \in SUBSET Models /\ id \in C /\ C \ {id} = Charged(s) \ (V \cup {id})
  BY DEF Charged
<1>3. \A m \in Models : s[m].mem \in Nat /\ Mems(s)[m] = s[m].mem
  BY DEF Slot, Mems
<1>4. Others(s, V, id) = SumFunctionOnSet(Mems(s), C \ {id})
  BY <1>2 DEF Others, Total
<1>5. \A m \in Models : Spared(s, V)[m] = (IF m \in C THEN Mems(s)[m] ELSE 0)
  BY DEF Spared, Mems
<1> HIDE DEF C
<1>6. Summable(Mems(s), C) /\ Summable(Spared(s, V), Models)
  <2>1. \A m \in Models : Spared(s, V)[m] \in Int
    BY <1>3, <1>5
  <2>2. IsFiniteSet(C)
    BY <1>2, FS_Subset, SupervisorAssumption
  <2> QED BY <1>2, <1>3, <2>1, <2>2, SupervisorAssumption DEF Summable
<1>7. Total(Spared(s, V), Models) = SumFunctionOnSet(Mems(s), C)
  BY <1>2, <1>5, <1>6, SumRestrict, SupervisorAssumption DEF Total
<1>8. SumFunctionOnSet(Mems(s), C) = s[id].mem + SumFunctionOnSet(Mems(s), C \ {id})
  BY <1>2, <1>3, <1>6, SumSplit
<1>9. \A m \in Models : /\ Plan(s, b, cov, St, V)[m] = Spared(s, V)[m] + Rest(b, cov, St)[m]
                        /\ Plan(s, b, cov, St, V)[m] \in Int
  BY <1>1, <1>6 DEF Plan, Summable
<1>10. Summable(Plan(s, b, cov, St, V), Models)
  BY <1>9, SupervisorAssumption DEF Summable
<1>11. Total(Plan(s, b, cov, St, V), Models) =
         Total(Spared(s, V), Models) + Total(Rest(b, cov, St), Models)
  BY <1>1, <1>6, <1>9, SumPlus DEF Total
<1>12. SumFunctionOnSet(Mems(s), C \ {id}) \in Int /\ s[id].mem \in Int
  <2>1. Summable(Mems(s), C \ {id})
    BY <1>6, FS_Subset DEF Summable
  <2> QED BY <1>3, <2>1, SumInt
<1> QED BY <1>1, <1>4, <1>7, <1>8, <1>10, <1>11, <1>12

\* What the task's sample and its list of freed victims say, and what it will
\* report of them.
Sampled ==
  up = "up" =>
  /\ flow.pc \in LoadCalls /\ flow.prev # None => flow.credit = flow.prev.mem
  /\ flow.status # None =>
       /\ flow.pc \notin {"evict", "confirmEvict"}
       /\ flow.status \cap flow.victims = {}
       /\ flow.id \in flow.status => flow.prev # None /\ flow.credit = flow.prev.mem
  /\ \/ flow.pc \in LoadCalls \ {"evict", "confirmEvict"}
     \/ flow.pc = "done" /\ (flow.ok \/ flow.outcome \in {"error", "retainError"})
     => flow.freed = flow.victims /\ (flow.victims = {} \/ flow.status # None)
  /\ flow.pc = "done" /\ ~flow.ok =>
       /\ flow.outcome = "stopped" /\ flow.status # None => flow.id \notin flow.status
       /\ flow.outcome = "error" => flow.prev = None
       /\ flow.outcome \in {"stopped", "restore"} /\ flow.status = None => flow.freed = {}

LEMMA SampledMoves ==
  ASSUME Owned, Fenced, Releases, Sampled, Confirmed, Works
  PROVE  Sampled'
<1>1. SUFFICES ASSUME up = "up" PROVE Sampled'
  BY DEF Works, actorVars, Sampled
<1>2. /\ up' = up /\ op' = op /\ Moves /\ flow.id = op.id /\ op # None
      /\ flow.id \notin flow.victims
  BY <1>1, MovesKeep DEF Works, actorVars, Owned, TaskOfOp, LoadCalls, UnloadCalls
<1>3. resident # None /\ resident \subseteq Engine /\ flow.freed \subseteq flow.victims
  BY NoneAssumption, ShapeParts DEF Owned, EngineShape, TaskShape, Engine
<1>4. flow.pc \notin {"evict", "confirmEvict"} => flow.freed \cap resident = {}
  BY <1>1, <1>3 DEF Releases
<1>5. flow.pc = "confirmEvict" /\ flow.prev = None => flow.id \notin resident
  BY <1>1, <1>3 DEF Releases
<1>6. flow.pc \in LoadCalls => flow.ok = FALSE \/ flow.ok = TRUE
  BY ShapeParts DEF Owned, TaskShape, Task
<1>7. flow.status = None \/ flow.status # None
  OBVIOUS
<1> USE DEF Moved, GoesTo, EndsAs, EndsCleared, Doubted, EndsReleased, LoadCalls
<1>8. CASE EvictMoves
  BY <1>1, <1>2, <1>3, <1>8 DEF EvictMoves, EngineSame, Sampled
<1>9. CASE ConfirmEvictMoves
  <2>1. /\ flow.pc = "confirmEvict" /\ flow.status = None
        /\ flow.prev # None => flow.credit = flow.prev.mem
    BY <1>1, <1>9 DEF ConfirmEvictMoves, Sampled
  <2>2. CASE /\ Released(flow.victims, flow.after) /\ flow.freed = flow.victims
             /\ Moved(IF flow.inherited THEN "verify" ELSE "load", flow.freed, flow.prev,
                      resident, flow.credit, flow.ok, flow.outcome)
    BY <1>1, <1>2, <1>3, <1>5, <2>1, <2>2 DEF Released, Sampled
  <2>3. ASSUME NEW freed \in SUBSET flow.victims, NEW status \in {resident, flow.status},
               \/ Released(flow.victims, flow.after) /\ status = resident
               \/ freed = {} /\ status = flow.status,
               NEW ok, NEW outcome, ok = FALSE,
               outcome \in {RejectedOutcome(flow), "unconfirmed"},
               Moved("done", freed, flow.prev, status, flow.credit, ok, outcome)
        PROVE  Sampled'
    <3>1. outcome \in {"stopped", "restore", "unconfirmed"}
      BY <2>3 DEF RejectedOutcome
    <3>2. status # None => resident \cap flow.victims = {} /\ status = resident
      BY <2>1, <2>3 DEF Released
    <3>3. status = None => freed = {}
      <4>1. status = resident \/ freed = {}
        BY <2>3
      <4> QED BY <1>3, <4>1
    <3>4. /\ flow'.pc = "done" /\ flow'.ok = FALSE /\ flow'.outcome = outcome
          /\ flow'.status = status /\ flow'.freed = freed /\ flow'.prev = flow.prev
          /\ flow'.credit = flow.credit /\ flow'.id = flow.id /\ flow'.victims = flow.victims
      BY <2>3
    <3>5. status # None => /\ status \cap flow.victims = {}
                           /\ flow.id \in status => flow.prev # None
      BY <1>5, <2>1, <3>2
    <3>6. outcome = "stopped" => flow.prev = None
      BY <2>3 DEF RejectedOutcome
    <3> QED BY <2>1, <3>1, <3>3, <3>4, <3>5, <3>6 DEF Sampled
  <2> QED BY <1>9, <2>2, <2>3 DEF ConfirmEvictMoves
\* Calls that go on, or report, with what the task already has.
<1>10. ASSUME flow.pc \in LoadCalls \ {"evict", "confirmEvict"},
              \/ GoesTo(flow'.pc) /\ flow'.pc \in LoadCalls \ {"evict", "confirmEvict"}
              \/ EndsAs(TRUE, "none") \/ EndsAs(FALSE, "unconfirmed")
              \/ EndsAs(FALSE, RejectedOutcome(flow)) \/ EndsAs(FALSE, RetainedOutcome(flow))
       PROVE  Sampled'
  <2>1. /\ flow.freed = flow.victims /\ (flow.victims = {} \/ flow.status # None)
        /\ flow.prev # None => flow.credit = flow.prev.mem
        /\ flow.status # None => /\ flow.status \cap flow.victims = {}
                                 /\ flow.id \in flow.status => flow.prev # None
    BY <1>1, <1>10 DEF Sampled
  <2>2. RejectedOutcome(flow) = (IF flow.prev = None THEN "stopped" ELSE "restore")
        /\ RetainedOutcome(flow) = (IF flow.prev = None THEN "error" ELSE "retainError")
    BY DEF RejectedOutcome, RetainedOutcome
  <2> QED BY <1>1, <1>2, <1>10, <2>1, <2>2 DEF Sampled
<1>11. CASE VerifyMoves
  BY <1>10, <1>11 DEF VerifyMoves
<1>12. CASE LoadMoves
  BY <1>10, <1>12 DEF LoadMoves, AcceptedMoves, RejectedMoves, OomMoves, LostMoves
<1>13. ASSUME flow.pc \in LoadCalls \ {"evict", "confirmEvict"}, Released({flow.id}, flow.absent),
              \/ EndsReleased
              \/ Moved("retry", flow.freed, None, resident, 0, flow.ok, flow.outcome)
       PROVE  Sampled'
  <2>1. flow.freed = flow.victims
    BY <1>1, <1>13 DEF Sampled
  <2>2. flow.id \notin resident /\ flow.victims \cap resident = {}
    BY <1>4, <1>13, <2>1 DEF Released
  <2> QED BY <1>1, <1>2, <1>3, <1>13, <2>1, <2>2 DEF Sampled
<1>14. CASE ConfirmOomMoves
  BY <1>10, <1>13, <1>14 DEF ConfirmOomMoves
<1>15. CASE CleanupMoves
  BY <1>10, <1>15 DEF CleanupMoves
<1>16. CASE ConfirmCleanupMoves
  BY <1>10, <1>13, <1>16 DEF ConfirmCleanupMoves
<1>17. CASE ProbeMoves
  BY <1>10, <1>17 DEF ProbeMoves
<1>18. CASE PanicMoves
  <2>1. Moved("done", {}, flow.first, None, 0, FALSE, "unconfirmed")
    BY <1>18 DEF PanicMoves
  <2> QED BY <1>1, <1>2, <2>1 DEF Sampled
<1>19. CASE UnloadMoves \/ ConfirmUnloadMoves
  <2>1. Unloads /\ flow.victims = {} /\ flow.prev = None /\ flow.freed = {}
    BY <1>1, <1>2, <1>3, <1>19 DEF UnloadMoves, ConfirmUnloadMoves, Owned, TaskOfOp, UnloadCalls,
       Unloads
  <2>2. flow.status = None
    <3>1. flow.pc # "done"
      BY <1>19 DEF UnloadMoves, ConfirmUnloadMoves
    <3> QED BY <1>1, <2>1, <3>1 DEF Confirmed
  <2>3. CASE UnloadMoves
    BY <1>1, <1>2, <2>1, <2>2, <2>3 DEF UnloadMoves, Sampled
  <2>4. CASE ConfirmUnloadMoves
    <3>1. CASE EndsAs(FALSE, "error")
      BY <1>1, <1>2, <2>1, <2>2, <3>1 DEF Sampled
    <3>2. CASE Released({flow.id}, flow.absent)
               /\ Moved("done", flow.freed, flow.prev, resident, flow.credit, TRUE, "none")
      <4>1. flow.id \notin resident
        BY <3>2 DEF Released
      <4> QED BY <1>1, <1>2, <2>1, <2>2, <3>2, <4>1 DEF Sampled
    <3> QED BY <2>4, <3>1, <3>2 DEF ConfirmUnloadMoves
  <2> QED BY <1>19, <2>3, <2>4
<1> QED BY <1>2, <1>8, <1>9, <1>11, <1>12, <1>14, <1>15, <1>16, <1>17, <1>18, <1>19 DEF Moves

LEMMA SampledStep ==
  ASSUME Owned, Fenced, Releases, Sampled, Confirmed, Effect
  PROVE  Sampled'
<1>1. CASE Works
  BY <1>1, SampledMoves
<1>2. CASE flow' = NoFlow
  BY <1>2, NoFlowFields DEF Sampled, LoadCalls
<1>3. CASE up' # "up"
  BY <1>3 DEF Sampled
<1>4. CASE flow' = flow /\ (up' = "up" => up = "up")
  BY <1>4 DEF Sampled
<1>5. ASSUME NEW id \in Models, NEW policy \in Policies, NEW victims \in SUBSET Models,
             NEW mem \in Estimates[id], Loading(id, policy, mem, victims)
      PROVE  Sampled'
  <2>1. /\ flow'.pc \in {"evict", "verify", "load"} /\ flow'.victims = victims
        /\ (flow'.pc # "evict" => victims = {}) /\ flow'.freed = {} /\ flow'.status = None
        /\ flow'.prev # None => flow'.credit = flow'.prev.mem
    BY <1>5 DEF Loading
  <2> QED BY <2>1 DEF Sampled
<1>6. ASSUME NEW id \in Models, Unloading(id)
      PROVE  Sampled'
  <2>1. flow'.pc = "unload" /\ flow'.status = None
    BY <1>6 DEF Unloading
  <2> QED BY <2>1 DEF Sampled, LoadCalls
<1>7. CASE Settling \/ Leaves \/ OrphanEnds
  BY <1>2, <1>3, <1>7 DEF Settling, Leaves, OrphanEnds
<1>8. CASE Start
  <2>1. up' = "up" => flow' = NoFlow
    BY <1>8 DEF Start, Locked
  <2> QED BY <1>2, <1>3, <2>1
<1>9. CASE Joins \/ MarkerAside \/ EngineAside \/ OperatorReset \/ UNCHANGED vars
  BY <1>4, <1>9 DEF Joins, MarkerAside, EngineAside, EngineLoads, EngineUnloads, OperatorReset,
     vars, actorVars
<1>10. ASSUME NEW id \in Models, UnloadStarts(id) \/ ChatStarts(id) \/ ChatEnds(id)
       PROVE  Sampled'
  BY <1>2, <1>4, <1>6, <1>10 DEF UnloadStarts, ChatStarts, ChatEnds
<1> QED BY <1>1, <1>5, <1>7, <1>8, <1>9, <1>10 DEF Effect

LEMMA AlwaysSampled == ASSUME ~DirtyRetryOom PROVE Spec => []Sampled
<1>1. Init => Sampled
  BY DEF Init, Sampled
<1>2. Owned /\ Fenced /\ Releases /\ Sampled /\ Confirmed /\ [Next]_vars => Sampled'
  BY Steps, SampledStep
<1> QED BY <1>1, <1>2, AlwaysOwned, AlwaysFenced, AlwaysReleases, AlwaysConfirmed, PTL DEF Spec
\* The slots as they were before the load in flight took its own.
Earliest == IF flow.first = None THEN NoSlot ELSE flow.first
Before == [m \in Models |-> IF m = flow.id THEN Earliest ELSE slots[m]]

\* The claim covers the books as they were and as the load planned them; with
\* no load in flight it is what the books say.  The actor found otherwise only
\* through a charge above its model's size.
Settles ==
  /\ OnlyOverestimatesPoison
  /\ up = "up" /\ ~Unsure =>
       IF Loads
       THEN /\ claim >= Accounted(Before, reserved, covered)
            /\ claim >= Reservation(Before, reserved, covered) + slots[flow.id].mem
                        + Others(slots, flow.victims, flow.id)
       ELSE claim = Accounted(slots, reserved, covered)

\* What the books hold of one model whose fate is known.
Owed(s, cov, St, m) ==
  (IF Occupies(s.state) THEN s.mem - Smaller(s.mem, cov) ELSE 0)
  + (IF m \in St THEN Size[m] ELSE 0)

LEMMA OwesAt ==
  ASSUME NEW s \in [Models -> Slot], NEW cov \in [Models -> Nat], NEW St \in SUBSET Models,
         NEW m \in Models, ~s[m].unconfirmed
  PROVE  Owes(s, cov, St)[m] = Owed(s[m], cov[m], St, m)
<1>1. s[m].mem \in Nat /\ Size[m] \in Nat /\ cov[m] \in Nat
  BY SupervisorAssumption DEF Slot
<1>2. Owes(s, cov, St)[m] = Charges(s)[m] + (Seats(St)[m] - Credits(s, cov)[m])
  BY DEF Owes, Rest
<1>3. /\ Charges(s)[m] = (IF Occupies(s[m].state) THEN s[m].mem ELSE 0)
      /\ Seats(St)[m] = (IF m \in St THEN Size[m] ELSE 0)
      /\ Credits(s, cov)[m] = (IF Occupies(s[m].state) THEN Smaller(s[m].mem, cov[m]) ELSE 0)
  BY DEF Charges, Seats, Credits
<1>4. Smaller(s[m].mem, cov[m]) \in Nat
  BY <1>1 DEF Smaller
<1> QED BY <1>1, <1>2, <1>3, <1>4 DEF Owed

\* The plan, for a model other than the target and for the target.
LEMMA PlanAt ==
  ASSUME NEW s \in [Models -> Slot], NEW b \in [Models -> Slot], NEW cov \in [Models -> Nat],
         NEW St \in SUBSET Models, NEW V \in SUBSET Models,
         NEW m \in Models, ~b[m].unconfirmed
  PROVE  Plan(s, b, cov, St, V)[m] =
           (IF Occupies(s[m].state) /\ m \notin V THEN s[m].mem ELSE 0)
           + ((IF m \in St THEN Size[m] ELSE 0)
              - (IF Occupies(b[m].state) THEN Smaller(b[m].mem, cov[m]) ELSE 0))
<1>1. Plan(s, b, cov, St, V)[m] = Spared(s, V)[m] + (Seats(St)[m] - Credits(b, cov)[m])
  BY DEF Plan, Rest
<1>2. Spared(s, V)[m] = (IF Occupies(s[m].state) /\ m \notin V THEN s[m].mem ELSE 0)
  BY DEF Spared, Charged
<1>3. /\ Seats(St)[m] = (IF m \in St THEN Size[m] ELSE 0)
      /\ Credits(b, cov)[m] = (IF Occupies(b[m].state) THEN Smaller(b[m].mem, cov[m]) ELSE 0)
  BY DEF Seats, Credits
<1> QED BY <1>1, <1>2, <1>3

\* Of the models charged for no more than they take, those that a settled
\* operation did not work on, and its victims, owe no more than before; if every
\* victim was freed they owe what the plan said.
LEMMA OthersSettle ==
  ASSUME Owned, Owned', Sampled, Confirmed, Settling, NEW St \in SUBSET Models, Seen(St),
         NEW m \in Models, m # flow.id, ~slots[m].unconfirmed, ~slots'[m].unconfirmed,
         slots'[m].mem <= Size[m]
  PROVE  LET new == IF flow.status # None THEN flow.status ELSE St
         IN  /\ Owed(slots'[m], covered'[m], new, m) <= Owed(slots[m], covered[m], St, m)
             /\ flow.freed = flow.victims /\ (flow.victims = {} \/ flow.status # None) =>
                  Owed(slots'[m], covered'[m], new, m) <=
                    (IF Occupies(slots[m].state) /\ m \notin flow.victims THEN slots[m].mem ELSE 0)
                    + ((IF m \in St THEN Size[m] ELSE 0)
                       - (IF Occupies(slots[m].state) THEN Smaller(slots[m].mem, covered[m]) ELSE 0))
<1>1. /\ slots[m].mem \in Nat /\ Size[m] \in Nat /\ covered[m] \in Nat
      /\ slots'[m].mem \in Nat /\ covered'[m] \in Nat
  BY SupervisorAssumption, ShapeParts DEF Owned, Slot, Settling
<1>2. slots[m].mem <= Size[m] /\ (covered[m] > 0 => m \in St)
  <2>1. slots'[m].mem = slots[m].mem
    BY DEF Settling
  <2> QED BY <2>1 DEF Seen
<1>3. Occupies(slots[m].state) /\ ~slots[m].inherited => slots[m].mem = Size[m]
  BY <1>1, <1>2 DEF Owned, SlotsOfOp, SlotRule
<1>4. m \in flow.victims =>
        /\ Occupies(slots[m].state) /\ ~slots[m].inherited
        /\ slots'[m].mem = slots[m].mem
        /\ Occupies(slots'[m].state) <=> m \notin flow.freed
  BY DEF Settling, Owned, SlotsOfOp, Occupies
<1>5. m \notin flow.victims => slots'[m] = slots[m]
  BY DEF Settling
<1>6. Smaller(slots[m].mem, covered[m]) \in Nat /\ Smaller(slots[m].mem, covered[m]) <= slots[m].mem
      /\ (m \notin St => Smaller(slots[m].mem, covered[m]) = 0)
  BY <1>1, <1>2 DEF Smaller
<1> DEFINE credit == Smaller(slots[m].mem, covered[m])
<1>7. CASE flow.status = None
  <2>1. covered'[m] = covered[m]
    BY <1>7 DEF Settling
  <2>2. Smaller(slots'[m].mem, covered'[m]) = credit
    BY <1>4, <1>5, <2>1
  <2> HIDE DEF credit
  <2> QED BY <1>1, <1>2, <1>4, <1>5, <1>6, <1>7, <2>2 DEF Owed, credit
<1>8. CASE flow.status # None
  <2>1. PICK S \in SUBSET Models : S = flow.status
    BY <1>8, ShapeParts DEF Owned, TaskShape, Task
  <2>2. covered'[m] = (IF m \notin S THEN 0
                       ELSE IF Occupies(slots'[m].state) THEN slots'[m].mem ELSE 0)
    BY <1>8, <2>1 DEF Settling, CoveredBy
  <2>3. S \cap flow.victims = {}
    BY <1>8, <2>1 DEF Sampled, Settling, Serving
  <2>4. m \in S => m \in St \/ (Occupies(slots[m].state) /\ slots[m].mem = Size[m])
    BY <1>3, <1>8, <2>1 DEF Seen, Backed
  <2>5. Smaller(slots'[m].mem, covered'[m]) =
          IF m \in S /\ Occupies(slots'[m].state) THEN slots'[m].mem ELSE 0
    BY <1>1, <2>2 DEF Smaller
  <2>6. Owed(slots'[m], covered'[m], S, m) =
          IF m \in S THEN Size[m] ELSE IF Occupies(slots'[m].state) THEN slots'[m].mem ELSE 0
    BY <1>1, <2>5 DEF Owed
  <2>7. Owed(slots[m], covered[m], St, m) =
          (IF Occupies(slots[m].state) THEN slots[m].mem - credit ELSE 0)
          + (IF m \in St THEN Size[m] ELSE 0)
    BY DEF Owed
  <2> HIDE DEF credit
  <2>8. CASE m \in S
    <3>1. m \notin flow.victims
      BY <2>3, <2>8
    <3> QED BY <1>1, <1>2, <1>6, <1>8, <2>1, <2>4, <2>6, <2>7, <2>8, <3>1 DEF credit
  <2>9. CASE m \notin S
    <3>1. CASE m \in flow.victims
      BY <1>1, <1>2, <1>4, <1>6, <1>8, <2>1, <2>6, <2>7, <2>9, <3>1 DEF credit
    <3>2. CASE m \notin flow.victims
      BY <1>1, <1>2, <1>5, <1>6, <1>8, <2>1, <2>6, <2>7, <2>9, <3>2 DEF credit
    <3> QED BY <3>1, <3>2
  <2> QED BY <2>8, <2>9
<1> QED BY <1>7, <1>8
\* The target of a settled load, when it is charged for no more than it takes,
\* owes no more than before the load, or than the load planned for it.
LEMMA TargetSettles ==
  ASSUME Owned, Owned', Sampled, Settling, Loads, NEW St \in SUBSET Models, Seen(St),
         ~slots'[flow.id].unconfirmed, slots'[flow.id].mem <= Size[flow.id]
  PROVE  LET id   == flow.id
             new  == IF flow.status # None THEN flow.status ELSE St
             owed == Owed(slots'[id], covered'[id], new, id)
         IN  \/ owed <= Owed(Earliest, covered[id], St, id)
             \/ /\ flow.freed = flow.victims /\ (flow.victims = {} \/ flow.status # None)
                /\ owed <= slots[id].mem
                     + ((IF id \in St THEN Size[id] ELSE 0)
                        - (IF Occupies(Earliest.state) THEN Smaller(Earliest.mem, covered[id]) ELSE 0))
<1> DEFINE id == flow.id
           new == IF flow.status # None THEN flow.status ELSE St
           owed == Owed(slots'[id], covered'[id], new, id)
           c == slots[id].mem
           p == Earliest.mem
           k == covered[id]
           full == flow.freed = flow.victims /\ (flow.victims = {} \/ flow.status # None)
           free == IF id \in St THEN Size[id] ELSE 0
           was == IF Occupies(Earliest.state) THEN Smaller(p, k) ELSE 0
<1>1. /\ up = "up" /\ flow.pc = "done" /\ id \in Models /\ op.id = id /\ op # None
      /\ op.kind = "load" /\ Settled(slots'[id], slots[id])
  BY DEF Settling, Serving, Loads
<1>2. /\ c \in Nat /\ Size[id] \in Nat /\ k \in Nat /\ slots'[id].mem \in Nat /\ covered'[id] \in Nat
  BY <1>1, SupervisorAssumption, ShapeParts DEF Owned, Slot, Settling
<1>3. /\ slots[id].state = "Loading" /\ slots[id].inherited = flow.inherited
      /\ (~flow.inherited => Size[id] <= c)
      /\ (k > 0 => id \in St)
  <2>1. slots[id].state = "Loading" /\ slots[id].inherited = flow.inherited
    BY <1>1 DEF Owned, SlotsOfOp, Loads
  <2>2. ~flow.inherited => Size[id] <= c
    BY <1>1, <2>1 DEF Owned, SlotsOfOp, SlotRule, Occupies
  <2> QED BY <1>1, <1>2, <2>1, <2>2 DEF Seen
<1>4. /\ flow.first = None => ~Occupies(Earliest.state) /\ p = 0
      /\ flow.first # None => /\ Occupies(Earliest.state) /\ Earliest.state \in {"Ready", "Error"}
                              /\ p \in Nat /\ (~flow.inherited => Size[id] <= p)
                              /\ Earliest = flow.first
  <2>1. CASE flow.first = None
    BY <2>1 DEF Earliest, NoSlot, Occupies
  <2>2. CASE flow.first # None
    <3>1. flow.first \in Slot
      BY <2>2, ShapeParts DEF Owned, TaskShape, Task
    <3>2. /\ flow.first.state \in {"Ready", "Error"} /\ flow.first.inherited = flow.inherited
          /\ SlotRule(id, flow.first)
      BY <2>2 DEF Owned, Past, Earlier
    <3>3. Earliest = flow.first /\ flow.first.mem \in Nat
      BY <2>2, <3>1 DEF Earliest, Slot
    <3>4. Occupies(flow.first.state)
      BY <3>2 DEF Occupies
    <3>5. ~flow.inherited => Size[id] <= flow.first.mem
      BY <3>2, <3>4 DEF SlotRule
    <3> QED BY <1>2, <2>2, <3>2, <3>3, <3>4, <3>5
  <2> QED BY <2>1, <2>2
<1>5. /\ flow.prev # None => flow.prev = flow.first
      /\ flow.inherited => flow.prev # None
      /\ flow.ok \in BOOLEAN /\ flow.inherited \in BOOLEAN
  BY ShapeParts DEF Owned, Past, TaskShape, Task
<1>6. /\ flow.ok \/ flow.outcome \in {"error", "retainError"} => full
      /\ ~flow.ok /\ flow.outcome = "stopped" /\ flow.status # None => id \notin flow.status
      /\ ~flow.ok /\ flow.outcome = "error" => flow.prev = None
      /\ flow.status # None /\ id \in flow.status => flow.prev # None /\ flow.credit = p
  <2>1. flow.status # None /\ id \in flow.status => flow.prev # None /\ flow.credit = flow.prev.mem
    BY <1>1 DEF Sampled
  <2>2. flow.prev # None => flow.prev.mem = p
    BY <1>4, <1>5
  <2> QED BY <1>1, <2>1, <2>2 DEF Sampled
<1>7. /\ id \in new /\ flow.status # None => id \in St \/ ~flow.inherited
  BY <1>1, <1>3 DEF Seen, Backed
<1>8. covered'[id] = IF flow.status = None THEN k ELSE IF id \in new THEN p ELSE 0
  <2>1. CASE flow.status = None
    BY <2>1 DEF Settling
  <2>2. CASE flow.status # None
    BY <1>1, <1>6, <2>2 DEF Settling, CoveredBy
  <2> QED BY <2>1, <2>2
<1>9. \/ slots'[id].mem = c /\ Occupies(slots'[id].state) /\ full
      \/ ~Occupies(slots'[id].state) /\ (flow.status # None => id \notin new)
      \/ /\ flow.first # None /\ slots'[id].mem = p /\ Occupies(slots'[id].state)
      \/ /\ flow.first # None /\ slots'[id].mem = Larger(c, p) /\ Occupies(slots'[id].state) /\ full
  <2>1. CASE flow.ok
    BY <1>1, <1>6, <2>1 DEF Settled, Occupies
  <2>2. CASE ~flow.ok
    <3>1. flow.outcome # "unconfirmed"
      BY <1>1, <2>2 DEF Settled
    <3> QED BY <1>1, <1>4, <1>5, <1>6, <2>2, <3>1 DEF Settled, Occupies
  <2> QED BY <2>1, <2>2
<1>10. /\ owed = (IF Occupies(slots'[id].state)
                  THEN slots'[id].mem - Smaller(slots'[id].mem, covered'[id]) ELSE 0)
                 + (IF id \in new THEN Size[id] ELSE 0)
       /\ Owed(Earliest, k, St, id) = (IF Occupies(Earliest.state) THEN p - Smaller(p, k) ELSE 0) + free
  BY DEF Owed
<1>11. flow.first = None => flow.prev = None /\ ~flow.inherited
  BY <1>5
<1>12. \/ owed <= Owed(Earliest, k, St, id)
       \/ full /\ owed <= c + (free - was)
  <2>1. p \in Nat /\ free \in Nat /\ was \in Nat /\ was <= p /\ was <= k
        /\ (free = Size[id] \/ (free = 0 /\ was = 0))
    <3>1. p \in Nat
      BY <1>4
    <3> HIDE DEF p, k, id
    <3> QED BY <1>2, <1>3, <1>4, <3>1 DEF Smaller, p, k, id
  <2>2. CASE flow.status = None
    <3>1. covered'[id] = k /\ new = St
      BY <1>8, <2>2
    <3>2. slots'[id].mem <= Size[id]
      OBVIOUS
    <3> DEFINE mem == slots'[id].mem
    <3>3. owed = (IF Occupies(slots'[id].state) THEN mem - Smaller(mem, k) ELSE 0) + free
      BY <1>10, <3>1
    <3>4. Owed(Earliest, k, St, id) = p - Smaller(p, k) + free /\ was = Smaller(p, k)
      <4>1. CASE flow.first = None
        BY <1>2, <1>4, <1>10, <4>1 DEF Smaller
      <4>2. CASE flow.first # None
        BY <1>4, <1>10, <4>2
      <4> QED BY <4>1, <4>2
    <3>5. mem \in Nat /\ c \in Nat /\ k \in Nat
      BY <1>2
    <3> HIDE DEF id, c, p, k, owed, full, new, mem, free, was
    <3>6. CASE mem = p /\ Occupies(slots'[id].state)
      BY <2>1, <3>3, <3>4, <3>6
    <3>7. CASE mem = c /\ Occupies(slots'[id].state) /\ full
      <4>1. CASE c < p
        BY <2>1, <3>3, <3>4, <3>5, <3>7, <4>1 DEF Smaller
      <4>2. CASE ~(c < p)
        BY <2>1, <3>3, <3>4, <3>5, <3>7, <4>2 DEF Smaller
      <4> QED BY <4>1, <4>2
    <3>8. CASE ~Occupies(slots'[id].state)
      BY <2>1, <3>3, <3>4, <3>5, <3>8 DEF Smaller
    <3> QED BY <1>9, <3>6, <3>7, <3>8 DEF mem, Larger
  <2>3. CASE flow.status # None /\ id \in new
    <3>1. covered'[id] = p /\ (id \in St \/ ~flow.inherited) /\ flow.first # None
      BY <1>4, <1>5, <1>6, <1>7, <1>8, <2>3
    <3> DEFINE mem == slots'[id].mem
    <3>2. \/ mem = c /\ full
          \/ mem = p
          \/ mem = Larger(c, p) /\ full
      BY <1>9, <2>3
    <3>3. owed = mem - Smaller(mem, p) + Size[id]
      BY <1>9, <1>10, <2>3, <3>1
    <3>4. Owed(Earliest, k, St, id) = p - was + free
      BY <1>4, <1>10, <3>1
    <3>5. free = Size[id] \/ (was = 0 /\ Size[id] <= c /\ Size[id] <= p)
      <4>1. CASE id \in St
        BY <4>1
      <4>2. CASE id \notin St
        <5>1. k = 0 /\ ~flow.inherited
          BY <1>2, <1>3, <3>1, <4>2
        <5>2. was = 0
          <6> HIDE DEF id, c, p, k
          <6> QED BY <2>1, <5>1 DEF Smaller
        <5> QED BY <1>3, <1>4, <3>1, <5>1, <5>2
      <4> QED BY <4>1, <4>2
    <3>6. mem <= Size[id]
      OBVIOUS
    <3> HIDE DEF id, c, p, k, owed, full, new, was, free, mem
    <3> QED BY <1>2, <1>3, <2>1, <3>2, <3>3, <3>4, <3>5, <3>6 DEF Smaller, Larger
  <2>4. CASE flow.status # None /\ id \notin new
    <3>1. covered'[id] = 0
      BY <1>8, <2>4
    <3>2. slots'[id].mem <= Size[id]
      OBVIOUS
    <3> HIDE DEF id, c, p, k, owed, full, new
    <3> QED BY <1>2, <1>3, <1>4, <1>9, <1>10, <2>1, <2>4, <3>1, <3>2 DEF Smaller, Larger
  <2> QED BY <2>2, <2>3, <2>4
<1> QED BY <1>12
LEMMA BeforeIs ==
  ASSUME Owned, flow.id \in Models
  PROVE  Before \in [Models -> Slot] /\ ~Earliest.unconfirmed
<1>1. slots \in [Models -> Slot]
  BY ShapeParts DEF Owned
<1>2. NoSlot \in Slot /\ ~NoSlot.unconfirmed
  BY SupervisorAssumption DEF NoSlot, Slot, ModelState
<1>3. Earliest \in Slot /\ ~Earliest.unconfirmed
  <2>1. flow.first \in Slot \cup {None}
    BY ShapeParts DEF Owned, TaskShape, Task
  <2> QED BY <1>2, <2>1 DEF Earliest, Owned, Past, Earlier
<1> QED BY <1>1, <1>3 DEF Before

LEMMA SettledClaim ==
  ASSUME Owned, Owned', Books, Sampled, Confirmed, Settles, Settling,
         ~Unsure, \A m \in Models : ~slots'[m].unconfirmed /\ slots'[m].mem <= Size[m]
  PROVE  Accounted(slots', reserved', covered') <= claim
<1> DEFINE id == flow.id
<1>1. /\ up = "up" /\ flow.pc = "done" /\ id \in Models /\ op.id = id /\ op # None
      /\ op.kind \in {"load", "unload"} /\ Settled(slots'[id], slots[id]) /\ id \notin flow.victims
  BY DEF Settling, Serving, Owned, TaskOfOp, Shape, Operation
<1>2. /\ slots \in [Models -> Slot] /\ slots' \in [Models -> Slot]
      /\ covered \in [Models -> Nat] /\ covered' \in [Models -> Nat] /\ claim \in Nat
      /\ flow.victims \in SUBSET Models
  BY ShapeParts DEF Settling, Owned, TaskShape, Task
<1>3. PICK St \in SUBSET Models : Seen(St)
  BY <1>1 DEF Books, Clear
<1>4. PICK new \in SUBSET Models : new = IF flow.status # None THEN flow.status ELSE St
  <2>1. flow.status \in (SUBSET Models) \cup {None}
    BY ShapeParts DEF Owned, TaskShape, Task
  <2> QED BY <2>1
<1>5. reserved = UsedBy(St) /\ reserved' = UsedBy(new)
  BY <1>3, <1>4 DEF Seen, Settling
<1>6. /\ Before \in [Models -> Slot] /\ ~Earliest.unconfirmed
      /\ Before[id] = Earliest /\ \A m \in Models \ {id} : Before[m] = slots[m]
  BY <1>1, BeforeIs DEF Before
<1>7. \A m \in Models : slots'[m].mem <= Size[m] /\ (covered'[m] > 0 => m \in new)
  <2>1. CASE flow.status = None
    BY <1>3, <1>4, <2>1 DEF Settling, Seen
  <2>2. CASE flow.status # None
    BY <1>4, <2>2 DEF Settling, CoveredBy
  <2> QED BY <2>1, <2>2
<1> DEFINE after == Owes(slots', covered', new)
           before == Owes(Before, covered, St)
           books == Owes(slots, covered, St)
           plan == Plan(slots, Before, covered, St, flow.victims)
           full == flow.freed = flow.victims /\ (flow.victims = {} \/ flow.status # None)
<1>8. /\ Summable(after, Models) /\ Accounted(slots', reserved', covered') = Total(after, Models)
      /\ Summable(before, Models) /\ Total(before, Models) <= Accounted(Before, reserved, covered)
      /\ Summable(books, Models) /\ Total(books, Models) <= Accounted(slots, reserved, covered)
  <2>1. Summable(after, Models) /\ Accounted(slots', reserved', covered') = Total(after, Models)
    BY <1>2, <1>5, <1>7, OwesIs
  <2> QED BY <1>2, <1>5, <1>6, <2>1, OwesIs
<1>9. /\ Total(after, Models) \in Int /\ Total(before, Models) \in Int
      /\ Total(books, Models) \in Int
  <2> HIDE DEF after, before, books
  <2> QED BY <1>8, SumInt DEF Total
<1>10. /\ Accounted(slots', reserved', covered') \in Nat
       /\ Accounted(Before, reserved, covered) \in Nat
       /\ Accounted(slots, reserved, covered) \in Nat
  <2>1. reserved \in Nat
    BY ShapeParts DEF Owned
  <2> QED BY <1>2, <1>6, <2>1, NumbersOf DEF Settling
<1>11. \A m \in Models : /\ after[m] = Owed(slots'[m], covered'[m], new, m)
                         /\ before[m] = Owed(Before[m], covered[m], St, m)
                         /\ books[m] = Owed(slots[m], covered[m], St, m)
  <2>1. \A m \in Models : ~slots[m].unconfirmed /\ ~Before[m].unconfirmed
    BY <1>6 DEF Unsure
  <2> QED BY <1>2, <1>6, <2>1, OwesAt
<1>12. \A m \in Models \ {id} : /\ after[m] <= books[m] /\ before[m] = books[m]
                                /\ full => after[m] <= plan[m]
  <2> TAKE m \in Models \ {id}
  <2>1. ~slots[m].unconfirmed /\ Before[m] = slots[m]
    BY <1>6 DEF Unsure
  <2>2. plan[m] = (IF Occupies(slots[m].state) /\ m \notin flow.victims THEN slots[m].mem ELSE 0)
                  + ((IF m \in St THEN Size[m] ELSE 0)
                     - (IF Occupies(slots[m].state) THEN Smaller(slots[m].mem, covered[m]) ELSE 0))
    BY <1>2, <1>6, <2>1, PlanAt
  <2> HIDE DEF after, before, books, plan
  <2> QED BY <1>3, <1>4, <1>11, <2>1, <2>2, OthersSettle
<1>13. CASE Loads
  <2>1. /\ claim >= Accounted(Before, reserved, covered)
        /\ claim >= Reservation(Before, reserved, covered) + slots[id].mem
                    + Others(slots, flow.victims, id)
    BY <1>1, <1>13 DEF Settles
  <2>2. /\ Summable(plan, Models)
        /\ Total(plan, Models) <= Reservation(Before, reserved, covered) + slots[id].mem
                                  + Others(slots, flow.victims, id)
    <3>1. Occupies(slots[id].state)
      BY <1>1, <1>13 DEF Owned, SlotsOfOp, Loads, Occupies
    <3>2. id \in Models \ flow.victims
      BY <1>1
    <3> DEFINE V == flow.victims
    <3>3. V \in SUBSET Models /\ id \in Models \ V
      BY <1>2, <3>2
    <3> HIDE DEF id, V
    <3>4. /\ Summable(Plan(slots, Before, covered, St, V), Models)
          /\ Total(Plan(slots, Before, covered, St, V), Models) <=
               Reservation(Before, UsedBy(St), covered) + slots[id].mem + Others(slots, V, id)
      <4>1. /\ slots \in [Models -> Slot] /\ Before \in [Models -> Slot]
            /\ covered \in [Models -> Nat]
        BY <1>2, <1>6
      <4> QED BY ONLY <3>1, <3>3, <4>1, St \in SUBSET Models, PlanIs
    <3> QED BY <1>5, <3>4 DEF V
  <2>3. plan[id] = slots[id].mem
          + ((IF id \in St THEN Size[id] ELSE 0)
             - (IF Occupies(Earliest.state) THEN Smaller(Earliest.mem, covered[id]) ELSE 0))
    <3>1. Occupies(slots[id].state)
      BY <1>1, <1>13 DEF Owned, SlotsOfOp, Loads, Occupies
    <3> DEFINE V == flow.victims
    <3>2. V \in SUBSET Models /\ id \in Models /\ id \notin V /\ ~Before[id].unconfirmed
      BY <1>1, <1>2, <1>6
    <3> HIDE DEF id, V
    <3>3. Plan(slots, Before, covered, St, V)[id] =
            (IF Occupies(slots[id].state) /\ id \notin V THEN slots[id].mem ELSE 0)
            + ((IF id \in St THEN Size[id] ELSE 0)
               - (IF Occupies(Before[id].state) THEN Smaller(Before[id].mem, covered[id]) ELSE 0))
      <4>1. /\ slots \in [Models -> Slot] /\ Before \in [Models -> Slot]
            /\ covered \in [Models -> Nat]
        BY <1>2, <1>6
      <4> QED BY ONLY <3>2, <4>1, St \in SUBSET Models, PlanAt
    <3> QED BY <1>6, <3>1, <3>2, <3>3 DEF V
  <2>4. after[id] <= before[id] \/ (full /\ after[id] <= plan[id])
    <3> HIDE DEF after, before, plan
    <3> QED BY <1>1, <1>3, <1>4, <1>6, <1>11, <1>13, <2>3, TargetSettles
  <2> HIDE DEF after, before, books, plan, full
  <2>5. CASE after[id] <= before[id]
    <3>1. \A m \in Models : after[m] <= before[m]
      BY <1>12, <2>5
    <3>2. Total(after, Models) <= Total(before, Models)
      BY <1>8, <3>1, SumMono DEF Total
    <3> QED BY <1>2, <1>8, <1>9, <1>10, <2>1, <3>2
  <2>6. CASE full /\ after[id] <= plan[id]
    <3>1. \A m \in Models : after[m] <= plan[m]
      BY <1>12, <2>6
    <3>2. Total(after, Models) <= Total(plan, Models)
      BY <1>8, <2>2, <3>1, SumMono DEF Total
    <3>3. Total(plan, Models) \in Int
      BY <2>2, SumInt DEF Total
    <3>4. /\ Reservation(Before, reserved, covered) \in Nat /\ slots[id].mem \in Nat
          /\ Others(slots, flow.victims, id) \in Int
      <4>1. reserved \in Nat /\ slots[id].mem \in Nat
        BY <1>1, <1>2, ShapeParts DEF Owned, Slot
      <4>2. Charged(slots) \ (flow.victims \cup {id}) \in SUBSET Models
        BY DEF Charged
      <4>3. Reservation(Before, reserved, covered) \in Nat
        BY <1>2, <1>6, <4>1, NumbersOf
      <4>4. Total(Mems(slots), Charged(slots) \ (flow.victims \cup {id})) \in Nat
        BY <1>2, <4>1, <4>2, NumbersOf
      <4> QED BY <4>1, <4>3, <4>4 DEF Others
    <3> QED BY <1>2, <1>8, <1>9, <1>10, <2>1, <2>2, <3>2, <3>3, <3>4
  <2> QED BY <2>4, <2>5, <2>6
<1>14. CASE ~Loads
  <2>1. op.kind = "unload" /\ claim = Accounted(slots, reserved, covered)
    BY <1>1, <1>14 DEF Settles, Loads
  <2>2. after[id] <= books[id]
    <3>1. /\ slots[id].mem \in Nat /\ Size[id] \in Nat /\ covered[id] \in Nat
          /\ Occupies(slots[id].state)
      BY <1>1, <1>2, <2>1, SupervisorAssumption DEF Slot, Owned, SlotsOfOp, Occupies
    <3>2. CASE flow.ok
      <4>1. id \notin new /\ ~Occupies(slots'[id].state)
        BY <1>1, <1>4, <2>1, <3>2 DEF Confirmed, Unloads, Settled, Occupies
      <4>2. after[id] = 0
        <5> HIDE DEF after
        <5> QED BY <1>1, <1>11, <4>1 DEF Owed
      <4>3. books[id] = (slots[id].mem - Smaller(slots[id].mem, covered[id]))
                        + (IF id \in St THEN Size[id] ELSE 0)
        <5> HIDE DEF books
        <5> QED BY <1>1, <1>11, <3>1 DEF Owed
      <4> HIDE DEF after, books
      <4> QED BY <3>1, <4>2, <4>3 DEF Smaller
    <3>3. CASE ~flow.ok
      <4>1. flow.outcome = "error" /\ flow.status = None
        BY <1>1, <2>1, <3>3 DEF Owned, Past, Confirmed, Unloads
      <4>2. /\ slots'[id].mem = slots[id].mem /\ Occupies(slots'[id].state)
            /\ covered'[id] = covered[id] /\ new = St
        BY <1>1, <1>4, <3>3, <4>1 DEF Settled, Occupies, Settling
      <4>3. after[id] = books[id] /\ books[id] \in Int
        <5> HIDE DEF after, books
        <5> QED BY <1>1, <1>8, <1>11, <3>1, <4>2 DEF Owed, Summable
      <4> HIDE DEF after, books
      <4> QED BY <4>3
    <3> QED BY <3>2, <3>3
  <2> HIDE DEF after, before, books, plan, full
  <2>3. \A m \in Models : after[m] <= books[m]
    BY <1>12, <2>2
  <2>4. Total(after, Models) <= Total(books, Models)
    BY <1>8, <2>3, SumMono DEF Total
  <2> QED BY <1>8, <1>9, <1>10, <2>1, <2>4
<1> QED BY <1>13, <1>14
LEMMA SettlesSettling ==
  ASSUME Owned, Owned', Books, Sampled, Confirmed, Settles, Settling
  PROVE  Settles'
<1> DEFINE now == Accounted(slots', reserved', covered')
           unsure == \E m \in Models : slots'[m].unconfirmed
<1>1. /\ claim' = (IF now > claim \/ ~unsure THEN now ELSE claim)
      /\ poisoned' = (now > claim /\ ~unsure) /\ op' = None
      /\ now \in Nat /\ claim \in Nat
  BY ShapeParts DEF Settling, Owned
<1>2. Unsure => unsure
  BY UnsureStays DEF Unsure
<1>3. ~unsure /\ (\A m \in Models : slots'[m].mem <= Size[m]) => now <= claim
  BY <1>2, SettledClaim
<1>4. Unsure' <=> unsure
  BY DEF Unsure
<1>5. Accounted(slots, reserved, covered)' = now
  BY DEF Accounted, Reservation, ReservedExcept, Credits, Charged, Mems, Total
<1>6. OnlyOverestimatesPoison' /\ (~unsure => claim' = now)
  <2>1. now > claim /\ ~unsure => \E m \in Models : slots'[m].mem > Size[m]
    <3>1. \A m \in Models : slots'[m].mem \in Nat /\ Size[m] \in Nat
      BY SupervisorAssumption DEF Settling, Slot
    <3> HIDE DEF now, unsure
    <3> QED BY <1>1, <1>3, <3>1
  <2> HIDE DEF now, unsure
  <2> QED BY <1>1, <2>1 DEF OnlyOverestimatesPoison
<1>7. ~Loads'
  BY <1>1 DEF Loads
<1> HIDE DEF now, unsure
<1> QED BY <1>4, <1>5, <1>6, <1>7 DEF Settles

\* The books of the slots as they are, and as they were before a load took its
\* own, are the same when it is admitted.
LEMMA SettlesLoading ==
  ASSUME Owned, Owned', Settles, NEW id \in Models, NEW policy \in Policies,
         NEW mem \in Estimates[id], NEW victims \in SUBSET Models,
         Loading(id, policy, mem, victims)
  PROVE  Settles'
<1>1. /\ up = "up" /\ up' = "up" /\ ~poisoned /\ ~poisoned' /\ op = None
      /\ UNCHANGED <<reserved, covered>> /\ ~slots[id].unconfirmed
      /\ op' # None /\ op'.kind = "load" /\ flow'.id = id /\ flow'.victims = victims
      /\ claim \in Nat /\ claim' \in Nat
  BY NoneAssumption, ShapeParts DEF Loading, MayLoad, Serving, Owned
<1>2. Admitted(id, mem, victims)
  BY LoadingSlots
<1>3. Unsure' => Unsure
  <2>1. \A m \in Models \ (victims \cup {id}) : slots'[m] = slots[m]
    BY <1>2 DEF Admitted
  <2> QED BY <1>2, <2>1 DEF Unsure, Admitted
<1>4. Unsure => Unsure'
  <2>1. ASSUME NEW m \in Models, slots[m].unconfirmed PROVE slots'[m].unconfirmed
    BY <1>1, <1>2, <2>1 DEF Admitted
  <2> QED BY <2>1 DEF Unsure
<1> SUFFICES ASSUME ~Unsure
             PROVE  /\ claim' >= Accounted(Before', reserved, covered)
                    /\ claim' >= Reservation(Before', reserved, covered) + slots'[id].mem
                                 + Others(slots', victims, id)
  BY <1>1, <1>3, <1>4 DEF Settles, OnlyOverestimatesPoison, Loads, Accounted, Reservation,
     ReservedExcept, Credits, Charged, Mems, Total, Others
<1>5. claim = Accounted(slots, reserved, covered)
  BY <1>1 DEF Settles, Loads
<1>6. /\ slots \in [Models -> Slot] /\ slots' \in [Models -> Slot]
      /\ reserved \in Nat /\ covered \in [Models -> Nat]
  BY ShapeParts DEF Owned, Loading
<1>7. flow'.first = PrevOf(slots[id])
  BY DEF Loading
<1>8. slots[id] # None
  BY <1>6, NoneAssumption
<1>9. Before' = [m \in Models |-> IF m = id THEN Earliest' ELSE slots'[m]]
  BY <1>1 DEF Before
<1>10. Earliest' = IF Occupies(slots[id].state) THEN slots[id] ELSE NoSlot
  BY <1>7, <1>8 DEF Earliest, PrevOf
<1>11. PICK b \in [Models -> Slot] : b = Before'
  <2>1. NoSlot \in Slot
    BY SupervisorAssumption DEF NoSlot, Slot, ModelState
  <2>2. Earliest' \in Slot
    BY <1>6, <1>10, <2>1
  <2> QED BY <1>6, <1>9, <2>2
<1>12. \A m \in Models : /\ Occupies(b[m].state) <=> Occupies(slots[m].state)
                         /\ Occupies(b[m].state) => /\ b[m].mem = slots[m].mem
                                                    /\ b[m].unconfirmed = slots[m].unconfirmed
  <2> TAKE m \in Models
  <2>1. CASE m = id
    BY <1>9, <1>10, <1>11, <2>1 DEF NoSlot, Occupies
  <2>2. CASE m \in victims
    BY <1>2, <1>6, <1>9, <1>11, <2>2 DEF Admitted, Occupies, Slot
  <2>3. CASE m \notin victims \cup {id}
    BY <1>2, <1>9, <1>11, <2>3 DEF Admitted
  <2> QED BY <2>1, <2>2, <2>3
<1>13. /\ Accounted(b, reserved, covered) = Accounted(slots, reserved, covered)
       /\ Reservation(b, reserved, covered) = Reservation(slots, reserved, covered)
  BY <1>6, <1>12, SameBooks
<1>14. claim' = Larger(claim, Reservation(slots, reserved, covered) + RequestCharge(id, mem)
                              + Others(slots', victims, id))
  BY DEF Loading, Held, Others
<1>15. slots'[id].mem = RequestCharge(id, mem)
  BY <1>2 DEF Admitted
<1>16. Reservation(slots, reserved, covered) + RequestCharge(id, mem)
         + Others(slots', victims, id) \in Int
  BY AdmissionFits
<1> QED BY <1>1, <1>5, <1>11, <1>13, <1>14, <1>15, <1>16 DEF Larger

\* Steps that touch the chats, the engine or the task only.
LEMMA SettlesKeep ==
  ASSUME Owned, Settles, UNCHANGED <<up, reserved, covered, claim, poisoned>>,
         slots' \in [Models -> Slot],
         \A m \in Models : /\ Occupies(slots[m].state) <=> Occupies(slots'[m].state)
                           /\ slots'[m].mem = slots[m].mem
                           /\ slots'[m].unconfirmed = slots[m].unconfirmed,
         \/ ~Loads /\ ~Loads'
         \/ Loads /\ Loads' /\ UNCHANGED <<flow.id, flow.victims, flow.first>>
  PROVE  Settles'
<1>1. /\ slots \in [Models -> Slot] /\ covered \in [Models -> Nat] /\ reserved \in Nat
  BY ShapeParts DEF Owned
<1>2. Unsure' = Unsure /\ OnlyOverestimatesPoison'
  BY DEF Unsure, Settles, OnlyOverestimatesPoison
<1>3. CASE ~Loads /\ ~Loads'
  <2>1. Accounted(slots', reserved, covered) = Accounted(slots, reserved, covered)
    BY <1>1, SameBooks
  <2>2. Accounted(slots, reserved, covered)' = Accounted(slots', reserved, covered)
    BY DEF Accounted, Reservation, ReservedExcept, Credits, Charged, Mems, Total
  <2> QED BY <1>2, <1>3, <2>1, <2>2 DEF Settles
<1>4. CASE Loads /\ Loads' /\ UNCHANGED <<flow.id, flow.victims, flow.first>>
  <2>1. CASE up # "up"
    BY <1>2, <2>1 DEF Settles
  <2>2. CASE up = "up"
    <3>1. flow.id \in Models
      BY <1>4, <2>2 DEF Loads, Owned, TaskOfOp
    <3>2. Earliest' = Earliest /\ Earliest \in Slot
      <4>1. NoSlot \in Slot
        BY SupervisorAssumption DEF NoSlot, Slot, ModelState
      <4>2. flow.first \in Slot \cup {None}
        BY ShapeParts DEF Owned, TaskShape, Task
      <4> QED BY <1>4, <4>1, <4>2 DEF Earliest
    <3>3. /\ Before = [m \in Models |-> IF m = flow.id THEN Earliest ELSE slots[m]]
          /\ Before' = [m \in Models |-> IF m = flow.id THEN Earliest ELSE slots'[m]]
      BY <1>4, <3>2 DEF Before
    <3>4. PICK a \in [Models -> Slot] : a = Before
      BY <1>1, <3>2, <3>3
    <3>5. PICK b \in [Models -> Slot] : b = Before'
      BY <3>2, <3>3
    <3>6. /\ Accounted(b, reserved, covered) = Accounted(a, reserved, covered)
          /\ Reservation(b, reserved, covered) = Reservation(a, reserved, covered)
      <4>1. \A m \in Models : /\ Occupies(b[m].state) <=> Occupies(a[m].state)
                              /\ b[m].mem = a[m].mem /\ b[m].unconfirmed = a[m].unconfirmed
        BY <3>3, <3>4, <3>5
      <4> QED BY <1>1, <4>1, SameBooks
    <3>7. Charged(slots') = Charged(slots) /\ Mems(slots') = Mems(slots)
      BY DEF Charged, Mems
    <3>8. /\ Others(slots', flow.victims, flow.id) = Others(slots, flow.victims, flow.id)
          /\ slots'[flow.id].mem = slots[flow.id].mem
      BY <3>1, <3>7 DEF Others
    <3>9. /\ Accounted(Before, reserved, covered)' = Accounted(b, reserved, covered)
          /\ Reservation(Before, reserved, covered)' = Reservation(b, reserved, covered)
          /\ Others(slots, flow.victims, flow.id)' = Others(slots', flow.victims, flow.id)
      BY <1>4, <3>5 DEF Accounted, Reservation, ReservedExcept, Credits, Charged, Mems, Total, Others
    <3> QED BY <1>2, <1>4, <3>4, <3>6, <3>8, <3>9 DEF Settles
  <2> QED BY <2>1, <2>2
<1> QED BY <1>3, <1>4
LEMMA SettlesStart ==
  ASSUME Owned, Owned', Start, \A m \in Models : covered[m] = 0
  PROVE  Settles'
<1>1. op' = None /\ ~poisoned'
  BY DEF Start, Owned, TaskOfOp
<1>2. up' = "up" => Accounted(slots', reserved', covered') = claim'
  BY StartBooks
<1>3. Accounted(slots, reserved, covered)' = Accounted(slots', reserved', covered')
  BY DEF Accounted, Reservation, ReservedExcept, Credits, Charged, Mems, Total
<1> QED BY <1>1, <1>2, <1>3 DEF Settles, OnlyOverestimatesPoison, Loads

LEMMA SettlesStep ==
  ASSUME Owned, Owned', Books, Sampled, Confirmed, Settles, Effect
  PROVE  Settles'
<1>1. /\ slots \in [Models -> Slot] /\ slots' \in [Models -> Slot]
      /\ covered \in [Models -> Nat] /\ reserved \in Nat
  BY ShapeParts DEF Owned, Shape, TypeOK
<1>2. CASE Joins
  <2>1. /\ UNCHANGED <<up, reserved, covered, claim, poisoned, slots, flow>>
        /\ Loads' <=> Loads
    BY <1>2, NoneAssumption DEF Joins, Loads
  <2> QED BY <1>1, <2>1, SettlesKeep
<1>3. CASE MarkerAside \/ EngineAside \/ OperatorReset \/ OrphanEnds \/ UNCHANGED vars
  <2>1. UNCHANGED <<up, reserved, covered, claim, poisoned, slots, op>>
    BY <1>3 DEF MarkerAside, EngineAside, EngineLoads, EngineUnloads, OperatorReset, OrphanEnds,
       vars, actorVars
  <2>2. Loads => flow' = flow
    BY <1>3 DEF MarkerAside, EngineAside, EngineLoads, EngineUnloads, OperatorReset, OrphanEnds,
       vars, Loads, Owned, TaskOfOp
  <2> QED BY <1>1, <2>1, <2>2, SettlesKeep DEF Loads
<1>4. CASE Works
  <2>1. UNCHANGED <<up, reserved, covered, claim, poisoned, slots, op>> /\ Moves
    BY <1>4 DEF Works, actorVars
  <2>2. UNCHANGED <<flow.id, flow.victims, flow.first>>
    BY <2>1, MovesKeep
  <2> QED BY <1>1, <2>1, <2>2, SettlesKeep DEF Loads
<1>5. CASE Settling
  BY <1>5, SettlesSettling
<1>6. CASE Leaves
  BY <1>6 DEF Leaves, ActorGone, Settles, OnlyOverestimatesPoison
<1>7. CASE Start
  <2>1. up # "up"
    BY <1>7 DEF Start
  <2> QED BY <1>7, <2>1, SettlesStart DEF Books
<1>8. ASSUME NEW id \in Models, UnloadStarts(id)
      PROVE  Settles'
  <2>1. /\ UNCHANGED <<up, reserved, covered, claim, poisoned>> /\ ~Loads /\ ~Loads'
        /\ Occupies(slots'[id].state) /\ Occupies(slots[id].state)
        /\ slots'[id].mem = slots[id].mem
        /\ \A m \in Models \ {id} : slots'[m] = slots[m]
    BY <1>8 DEF UnloadStarts, Loads, Occupies
  <2>2. slots'[id].unconfirmed = slots[id].unconfirmed
    <3>1. slots'[id].unconfirmed \in BOOLEAN /\ slots[id].unconfirmed \in BOOLEAN
      BY <1>1, <1>8 DEF Slot
    <3> QED BY <1>8, <3>1 DEF UnloadStarts
  <2> QED BY <1>1, <2>1, <2>2, SettlesKeep
<1>9. ASSUME NEW id \in Models, ChatStarts(id) \/ ChatEnds(id)
      PROVE  Settles'
  <2>1. /\ UNCHANGED <<up, reserved, covered, claim, poisoned>>
        /\ \A m \in Models : Alike(slots'[m], slots[m])
    BY <1>9 DEF ChatStarts, ChatEnds
  <2>2. \/ ~Loads /\ ~Loads'
        \/ Loads /\ Loads' /\ UNCHANGED <<flow.id, flow.victims, flow.first>>
    BY <1>9 DEF ChatStarts, ChatEnds, Loads, Unloads
  <2> QED BY <1>1, <2>1, <2>2, SettlesKeep DEF Alike
<1> QED BY <1>2, <1>3, <1>4, <1>5, <1>6, <1>7, <1>8, <1>9, SettlesLoading DEF Effect
LEMMA AlwaysSettles == ASSUME ~DirtyRetryOom PROVE Spec => []Settles
<1>1. Init => Settles
  BY DEF Init, Settles, OnlyOverestimatesPoison
<1>2. Owned /\ Books /\ Sampled /\ Confirmed /\ Settles /\ [Next]_vars => Settles'
  BY Steps, SettlesStep
<1> QED BY <1>1, <1>2, AlwaysOwned, AlwaysBooks, AlwaysSampled, AlwaysConfirmed, PTL DEF Spec

\* Reconciling an operation finds more in the books than was claimed for it, the
\* contradiction that poisons the actor (settle_runtime_capacity,
\* supervisor.rs:1138), only if some model is left charged above its size.
THEOREM PoisonNeedsOverestimate ==
  ASSUME ~DirtyRetryOom PROVE Spec => []OnlyOverestimatesPoison
<1>1. Settles => OnlyOverestimatesPoison
  BY DEF Settles
<1> QED BY <1>1, AlwaysSettles, PTL

\* Whatever the requests estimate, the books and then the claim in the shared
\* ledger cover the engine at every moment, the claim is the books' own total
\* whenever no operation runs and no load is in doubt (claim_runtime_capacity,
\* settle_runtime_capacity), and only a charge above a model's size poisons.
THEOREM ChargesHold ==
  ASSUME ~DirtyRetryOom PROVE Spec => []ChargesCoverEngine
<1>1. Owned /\ Room /\ Settles => ClaimCoversEngine
  <2> SUFFICES ASSUME Owned, Room, Settles, up = "up"
               PROVE  /\ UsedBy(Engine) <= claim
                      /\ op = None /\ ~Unsure => claim = Accounted(slots, reserved, covered)
    BY DEF ClaimCoversEngine, Engine, Unsure
  <2>1. Engine \in SUBSET Models
    BY ShapeParts DEF Owned, EngineShape, Engine
  <2> QED BY <2>1 DEF Room, Wanted, Settles, Loads
<1>2. Spec => []LedgerCoversEngine /\ []OnlyOverestimatesPoison
  BY LedgerCovers, PoisonNeedsOverestimate
<1> QED BY <1>1, <1>2, AlwaysOwned, AlwaysRoom, AlwaysSettles, PTL DEF ChargesCoverEngine

\* Whatever the requests estimate, chats are counted exactly as long as the
\* actor serves: no ChatDone is lost, none reaches a slot whose count was reset,
\* and the count keeps the engine from being told to drop a model they run on
\* (handle_chat_done, handle_unload, plan_eviction).
THEOREM ChatsCounted == Spec => []ChatsProtected
<1>1. Quiet => InflightExact
  BY DEF Quiet, InflightExact, Serving
<1> QED BY <1>1, ChatsUndisturbed, AlwaysQuiet, PTL DEF ChatsProtected

-----------------------------------------------------------------------------
(***************************************************************************)
(* The planner, for every snapshot, budget and request: what is left of    *)
(* the sorted queue is not older than what was chosen, and nothing was     *)
(* chosen once the others made room (PlanInv).                             *)
(***************************************************************************)
SnapEntry == [state : ModelState, pinned : BOOLEAN, inflight : Nat, mem : Nat, seq : Nat]
Missing == Shortfall(snap, budget, need)
Pool == Candidates(snap)
Freed(V) == SumFunctionOnSet(Mem(snap), V)
Queued == {queue[i] : i \in DOMAIN queue}

\* The sorted queue and the models chosen from its front.
Lru ==
  /\ queue \in Seq(Pool)
  /\ \A i, j \in DOMAIN queue : i < j => queue[i] # queue[j]
       /\ snap[queue[i]].seq <= snap[queue[j]].seq
  /\ chosen \cup Queued = Pool /\ chosen \cap Queued = {}
  /\ \A v \in chosen, c \in Queued : snap[v].seq <= snap[c].seq

\* No model was chosen once the others covered the shortfall.
Frugal ==
  /\ freedGb = Freed(chosen)
  /\ chosen # {} => /\ ~Fits
                    /\ \E v \in chosen : /\ \A w \in chosen : snap[w].seq <= snap[v].seq
                                         /\ Freed(chosen \ {v}) < Missing

Answer ==
  /\ verdict \in {"running", "evict", "impossible"}
  /\ verdict = "evict" => Fits \/ freedGb >= Missing
  /\ verdict = "impossible" => ~Fits /\ freedGb < Missing /\ chosen = Pool

PlanInv ==
  /\ snap \in [Ids -> SnapEntry] /\ budget \in Nat /\ need \in Nat
  /\ Lru /\ Frugal /\ Answer

\* The total of the plans is the sum over a set.
LEMMA TotalIs == \A f, V : Total(f, V) = SumFunctionOnSet(f, V)
  BY DEF Total

\* The snapshot is finite.
LEMMA IdsFinite == IsFiniteSet(Ids)
  BY EvictionLoopAssumption

\* What the plans of the code free are numbers.
LEMMA PlanAmounts ==
  ASSUME snap \in [Ids -> SnapEntry], budget \in Nat, need \in Nat
  PROVE  /\ \A V \in SUBSET Ids : Countable(Mem(snap), V) /\ Summable(Mem(snap), V)
              /\ Freed(V) \in Nat
         /\ \A V \in SUBSET Ids : \A m \in V : Freed(V) = snap[m].mem + Freed(V \ {m})
         /\ \A V \in SUBSET Ids : \A W \in SUBSET V : Freed(W) <= Freed(V)
              /\ Freed(V) = Freed(W) + Freed(V \ W)
         /\ Pool \subseteq Ids /\ Missing \in Int /\ IsFiniteSet(Pool)
         /\ Freed({}) = 0
<1>1. /\ DOMAIN Mem(snap) = Ids /\ DOMAIN snap = Ids
      /\ \A m \in Ids : Mem(snap)[m] = snap[m].mem /\ snap[m].mem \in Nat
  BY DEF Mem, SnapEntry
<1>2. ASSUME NEW V \in SUBSET Ids
      PROVE  Countable(Mem(snap), V) /\ Summable(Mem(snap), V) /\ Freed(V) \in Nat
  <2>1. IsFiniteSet(V)
    BY IdsFinite, FS_Subset
  <2>2. Countable(Mem(snap), V) /\ Summable(Mem(snap), V)
    BY <1>1, <2>1 DEF Countable, Summable
  <2> QED BY <2>2, SumNat DEF Freed
<1>3. ASSUME NEW V \in SUBSET Ids, NEW m \in V
      PROVE  Freed(V) = snap[m].mem + Freed(V \ {m})
  BY <1>1, <1>2, SumSplit DEF Freed
<1>4. ASSUME NEW V \in SUBSET Ids, NEW W \in SUBSET V
      PROVE  Freed(W) <= Freed(V) /\ Freed(V) = Freed(W) + Freed(V \ W)
  <2> DEFINE f == Mem(snap)
  <2>1. Countable(f, V)
    BY <1>2
  <2> HIDE DEF f
  <2>2. /\ SumFunctionOnSet(f, W) <= SumFunctionOnSet(f, V)
        /\ SumFunctionOnSet(f, V) = SumFunctionOnSet(f, W) + SumFunctionOnSet(f, V \ W)
    BY <2>1, SumSubset
  <2> QED BY <2>2 DEF Freed, f
<1>5. Pool \subseteq Ids
  BY <1>1 DEF Pool, Candidates
<1>6. IsFiniteSet(Pool)
  BY <1>5, IdsFinite, FS_Subset
<1>7. Missing \in Int
  <2>1. Occupied(snap) = Freed({m \in Ids : Occupies(snap[m].state)})
    BY <1>1, TotalIs DEF Occupied, Freed
  <2>2. Occupied(snap) \in Nat
    BY <1>2, <2>1
  <2> QED BY <2>2 DEF Missing, Shortfall
<1>8. Freed({}) = 0
  BY SumEmpty DEF Freed
<1> QED BY <1>2, <1>3, <1>4, <1>5, <1>6, <1>7, <1>8

\* An order of all candidates has each of them once.
LEMMA Ordered ==
  ASSUME NEW S, IsFiniteSet(S), NEW q \in [1 .. Cardinality(S) -> S],
         \A i, j \in DOMAIN q : i # j => q[i] # q[j]
  PROVE  {q[i] : i \in DOMAIN q} = S
<1>1. q \in Injection(1 .. Cardinality(S), S)
  BY DEF Injection, IsInjective
<1>2. Cardinality(S) \in Nat
  BY FS_CardinalityType
<1>3. Cardinality(1 .. Cardinality(S)) = Cardinality(S)
  BY <1>2, FS_Interval
<1>4. q \in Surjection(1 .. Cardinality(S), S)
  BY <1>1, <1>3, FS_Injection
<1> QED BY <1>4 DEF Surjection

\* The loop starts with nothing chosen and nothing freed.
LEMMA PlanInitHolds == PlanInit => PlanInv
<1> SUFFICES ASSUME PlanInit PROVE PlanInv
  OBVIOUS
<1>1. snap \in [Ids -> SnapEntry] /\ budget \in Nat /\ need \in Nat
  BY EvictionLoopAssumption DEF PlanInit, SnapEntry
<1>2. queue \in [1 .. Cardinality(Pool) -> Pool] /\ (\A i, j \in DOMAIN queue : i # j
        => queue[i] # queue[j])
      /\ Sorted(queue)
  BY DEF PlanInit, Orders, Pool
<1>3. IsFiniteSet(Pool) /\ Cardinality(Pool) \in Nat
  BY <1>1, PlanAmounts, FS_CardinalityType
<1>4. Queued = Pool
  BY <1>2, <1>3, Ordered DEF Queued
<1>5. chosen = {} /\ freedGb = 0 /\ verdict = "running"
  BY DEF PlanInit
<1>6. Lru
  <2>1. queue \in Seq(Pool)
    BY <1>2, <1>3
  <2>2. \A i, j \in DOMAIN queue : i < j => queue[i] # queue[j]
          /\ snap[queue[i]].seq <= snap[queue[j]].seq
    BY <1>2 DEF Sorted
  <2> QED BY <1>4, <1>5, <2>1, <2>2 DEF Lru
<1>7. Frugal /\ Answer
  BY <1>1, <1>5, PlanAmounts DEF Frugal, Answer
<1> QED BY <1>1, <1>6, <1>7 DEF PlanInv

\* The front of the queue and the rest of it.
LEMMA Front ==
  ASSUME NEW S, NEW q \in Seq(S), q # <<>>
  PROVE  /\ Tail(q) \in Seq(S) /\ Head(q) = q[1] /\ Head(q) \in S /\ 1 \in DOMAIN q
         /\ \A i \in DOMAIN Tail(q) : i + 1 \in DOMAIN q /\ Tail(q)[i] = q[i + 1] /\ 1 < i + 1
              /\ i \in Nat
         /\ \A i \in DOMAIN q : i = 1 \/ (i - 1 \in DOMAIN Tail(q) /\ q[i] = Tail(q)[i - 1])
  OBVIOUS

\* One turn of the loop.
LEMMA ChooseKeeps == PlanInv /\ Choose => PlanInv'
<1> SUFFICES ASSUME PlanInv, Choose PROVE PlanInv'
  OBVIOUS
<1> DEFINE h == Head(queue)
<1>1. /\ verdict = "running" /\ ~Fits /\ queue # <<>> /\ ~Stops(freedGb)
      /\ freedGb' = freedGb + snap[h].mem /\ chosen' = chosen \cup {h} /\ queue' = Tail(queue)
      /\ snap' = snap /\ budget' = budget /\ need' = need /\ verdict' = verdict
  BY DEF Choose, input
<1>2. snap \in [Ids -> SnapEntry] /\ budget \in Nat /\ need \in Nat
  BY DEF PlanInv
<1>3. Pool' = Pool /\ Missing' = Missing /\ (Fits <=> Fits') /\ \A V : Freed(V)' = Freed(V)
  BY <1>1 DEF Pool, Missing, Fits, Freed
<1>4. /\ queue \in Seq(Pool) /\ queue' \in Seq(Pool) /\ h = queue[1] /\ h \in Pool
           /\ 1 \in DOMAIN queue
      /\ \A i \in DOMAIN queue' : i + 1 \in DOMAIN queue /\ queue'[i] = queue[i + 1] /\ 1 < i + 1
           /\ i \in Nat
      /\ \A i \in DOMAIN queue : i = 1 \/ (i - 1 \in DOMAIN queue' /\ queue[i] = queue'[i - 1])
  BY <1>1, Front DEF PlanInv, Lru
<1> HIDE DEF h
<1>5. /\ \A i, j \in DOMAIN queue : i < j => queue[i] # queue[j]
           /\ snap[queue[i]].seq <= snap[queue[j]].seq
      /\ chosen \cup Queued = Pool /\ chosen \cap Queued = {}
      /\ \A v \in chosen, c \in Queued : snap[v].seq <= snap[c].seq
  BY DEF PlanInv, Lru
<1>6. h \in Queued /\ h \notin chosen
  BY <1>4, <1>5 DEF Queued
<1>7. Queued' = Queued \ {h}
  <2>1. Queued' \subseteq Queued \ {h}
    BY <1>4, <1>5 DEF Queued
  <2>2. ASSUME NEW i \in DOMAIN queue, queue[i] # h PROVE queue[i] \in Queued'
    <3>1. i - 1 \in DOMAIN queue' /\ queue[i] = queue'[i - 1]
      BY <1>4, <2>2
    <3> QED BY <3>1 DEF Queued
  <2> QED BY <2>1, <2>2 DEF Queued
<1>8. \A c \in Queued \ {h} : snap[h].seq <= snap[c].seq
  <2> SUFFICES ASSUME NEW i \in DOMAIN queue, queue[i] # h PROVE snap[h].seq <= snap[queue[i]].seq
    BY DEF Queued
  <2>1. 1 < i
    BY <1>4
  <2> QED BY <1>4, <1>5, <2>1
<1>9. Lru'
  <2>1. \A i, j \in DOMAIN queue' : i < j => queue'[i] # queue'[j]
          /\ snap[queue'[i]].seq <= snap[queue'[j]].seq
    BY <1>4, <1>5
  <2>2. chosen' \cup Queued' = Pool /\ chosen' \cap Queued' = {}
    BY <1>1, <1>5, <1>6, <1>7
  <2>3. \A v \in chosen', c \in Queued' : snap[v].seq <= snap[c].seq
    BY <1>1, <1>5, <1>7, <1>8
  <2> QED BY <1>1, <1>3, <1>4, <2>1, <2>2, <2>3 DEF Lru
<1>10. Frugal'
  <2>1. chosen' \in SUBSET Ids /\ chosen' \ {h} = chosen /\ h \in chosen'
    BY <1>1, <1>2, <1>4, <1>5, <1>6, PlanAmounts
  <2>2. Freed(chosen') = snap[h].mem + Freed(chosen) /\ Freed(chosen) \in Nat
    BY <1>2, <2>1, PlanAmounts
  <2>3. freedGb = Freed(chosen)
    BY DEF PlanInv, Frugal
  <2>4. snap[h].mem \in Nat
    BY <1>2, <1>4, PlanAmounts DEF SnapEntry
  <2>5. freedGb' = Freed(chosen')
    BY <1>1, <2>2, <2>3, <2>4
  <2>6. Freed(chosen' \ {h}) < Missing
    BY <1>1, <1>2, <2>1, <2>2, <2>3, PlanAmounts DEF Stops, Missing
  <2>7. \A w \in chosen' : snap[w].seq <= snap[h].seq
    <3>1. snap[h].seq \in Nat
      BY <1>2, <1>4, PlanAmounts DEF SnapEntry
    <3> QED BY <1>1, <1>5, <1>6, <3>1
  <2> QED BY <1>1, <1>3, <2>1, <2>5, <2>6, <2>7 DEF Frugal
<1>11. Answer'
  BY <1>1 DEF Answer
<1> QED BY <1>1, <1>2, <1>9, <1>10, <1>11 DEF PlanInv

\* The other steps only give the answer.
LEMMA OthersKeep == PlanInv /\ (NotNeeded \/ Conclude \/ UNCHANGED planVars) => PlanInv'
<1> SUFFICES ASSUME PlanInv, NotNeeded \/ Conclude \/ UNCHANGED planVars PROVE PlanInv'
  OBVIOUS
<1>1. /\ snap' = snap /\ budget' = budget /\ need' = need
      /\ freedGb' = freedGb /\ chosen' = chosen /\ queue' = queue
  BY DEF NotNeeded, Conclude, planVars, input
<1>2. snap \in [Ids -> SnapEntry] /\ budget \in Nat /\ need \in Nat /\ Lru /\ Frugal /\ Answer
  BY DEF PlanInv
<1>3. Pool' = Pool /\ Missing' = Missing /\ (Fits <=> Fits') /\ (\A V : Freed(V)' = Freed(V))
        /\ Queued' = Queued
  BY <1>1 DEF Pool, Missing, Fits, Freed, Queued
<1>4. Lru' /\ Frugal'
  BY <1>1, <1>2, <1>3 DEF Lru, Frugal
<1>5. Answer'
  <2>1. CASE NotNeeded
    BY <1>1, <1>3, <2>1 DEF NotNeeded, Answer
  <2>2. CASE UNCHANGED planVars
    BY <1>1, <1>2, <1>3, <2>2 DEF planVars, Answer
  <2>3. CASE Conclude
    <3>1. Freed(chosen) \in Nat /\ freedGb = Freed(chosen) /\ Missing \in Int
      BY <1>2, PlanAmounts DEF Frugal, Lru
    <3>2. CASE freedGb < Missing
      <4>1. queue = <<>>
        BY <2>3, <3>1, <3>2 DEF Conclude, Stops, Missing
      <4>2. Queued = {}
        BY <4>1 DEF Queued
      <4>3. verdict' = "impossible" /\ ~Fits
        BY <2>3, <3>2 DEF Conclude, Missing
      <4> QED BY <1>1, <1>2, <1>3, <3>2, <4>2, <4>3 DEF Answer, Lru
    <3>3. CASE ~(freedGb < Missing)
      <4>1. verdict' = "evict"
        BY <2>3, <3>3 DEF Conclude, Missing
      <4> QED BY <1>1, <1>3, <3>1, <3>3, <4>1 DEF Answer
    <3> QED BY <3>2, <3>3
  <2> QED BY <2>1, <2>2, <2>3
<1> QED BY <1>1, <1>2, <1>4, <1>5 DEF PlanInv

\* The invariant makes both answers right.
LEMMA PlanImplied == PlanInv => PlannerRight
<1> SUFFICES ASSUME PlanInv PROVE PlannerRight
  OBVIOUS
<1>1. snap \in [Ids -> SnapEntry] /\ budget \in Nat /\ need \in Nat /\ Lru /\ Frugal /\ Answer
  BY DEF PlanInv
<1>2. Missing \in Int /\ Pool \in SUBSET Ids /\ chosen \in SUBSET Pool
  BY <1>1, PlanAmounts DEF Lru
<1>3. ASSUME verdict = "evict" PROVE chosen \in Plans(snap, budget, need)
  <2>1. CASE Fits
    <3>1. chosen = {}
      BY <1>1, <2>1 DEF Frugal
    <3> QED BY <2>1, <3>1 DEF Plans, Fits
  <2>2. CASE ~Fits
    <3>1. Freed(chosen) >= Missing /\ ~(Missing <= 0)
      BY <1>1, <1>3, <2>2 DEF Answer, Frugal, Fits, Missing
    <3>2. chosen # {}
      BY <1>1, <1>2, <3>1, PlanAmounts
    <3>3. \A v \in chosen, c \in Pool \ chosen : snap[v].seq <= snap[c].seq
      BY <1>1 DEF Lru
    <3>4. LruPrefix(snap, chosen, Missing)
      BY <1>1, <3>1, <3>2, <3>3, TotalIs DEF LruPrefix, Frugal, Freed, Pool
    <3> QED BY <1>2, <3>1, <3>4 DEF Plans, Missing, Pool
  <2> QED BY <2>1, <2>2
<1>4. ASSUME verdict = "impossible"
      PROVE  ~(Missing <= 0) /\ Freed(Pool) < Missing
  BY <1>1, <1>4 DEF Answer, Frugal, Fits, Missing
<1>5. ASSUME verdict = "impossible" PROVE Plans(snap, budget, need) = {}
  <2>1. ASSUME NEW V \in SUBSET Pool, LruPrefix(snap, V, Missing) PROVE FALSE
    <3>1. Freed(V) >= Missing
      BY <2>1, TotalIs DEF LruPrefix, Freed
    <3>2. Freed(V) <= Freed(Pool) /\ Freed(V) \in Nat /\ Freed(Pool) \in Nat
      BY <1>1, <1>2, PlanAmounts
    <3> QED BY <1>2, <1>4, <1>5, <3>1, <3>2
  <2> QED BY <1>4, <1>5, <2>1 DEF Plans, Missing, Pool
<1>6. ASSUME verdict = "impossible",
             NEW V \in SUBSET Ids,
             \A m \in V : snap[m].state \in {"Ready", "Error"} /\ ~snap[m].pinned
               /\ snap[m].inflight = 0,
             Total(Mem(snap), {m \in Ids \ V : Occupies(snap[m].state)}) + need <= budget
      PROVE  FALSE
  <2> DEFINE Occ == {m \in Ids : Occupies(snap[m].state)}
             Idle == V \cap Pool
  <2>1. Occ \in SUBSET Ids /\ V \in SUBSET Occ /\ Idle \in SUBSET V /\ Idle \in SUBSET Pool
          /\ V \ Idle \in SUBSET Ids
    BY <1>6 DEF Occupies
  <2>2. {m \in Ids \ V : Occupies(snap[m].state)} = Occ \ V
    OBVIOUS
  <2>3. Freed(V \ Idle) = 0
    <3>1. \A m \in V \ Idle : Mem(snap)[m] = 0
      <4> SUFFICES ASSUME NEW m \in V \ Idle PROVE Mem(snap)[m] = 0
        OBVIOUS
      <4>1. m \in Ids /\ DOMAIN snap = Ids /\ snap[m] \in SnapEntry
        BY <1>1
      <4>2. ~(snap[m].mem > 0)
        BY <1>6, <4>1 DEF Pool, Candidates
      <4> QED BY <4>1, <4>2 DEF Mem, SnapEntry
    <3>2. IsFiniteSet(V \ Idle)
      BY <2>1, IdsFinite, FS_Subset
    <3> HIDE DEF Idle
    <3> QED BY <3>1, <3>2, SumZero DEF Freed
  <2>4. Occupied(snap) = Freed(Occ)
    BY <1>1, TotalIs DEF Occupied, Freed
  <2> HIDE DEF Occ, Idle
  <2>5. /\ Freed(Occ) = Freed(V) + Freed(Occ \ V) /\ Freed(V) = Freed(Idle) + Freed(V \ Idle)
        /\ Freed(Idle) <= Freed(Pool)
        /\ Freed(Occ) \in Nat /\ Freed(V) \in Nat /\ Freed(Occ \ V) \in Nat /\ Freed(Idle) \in Nat
             /\ Freed(Pool) \in Nat
    BY <1>1, <1>2, <2>1, PlanAmounts
  <2>6. Missing = need - (budget - Freed(Occ))
    BY <2>4 DEF Missing, Shortfall
  <2>7. Freed(Occ \ V) + need <= budget
    BY <1>6, <2>2, TotalIs DEF Freed
  <2>8. Freed(Pool) < Missing
    BY <1>4, <1>6
  <2> QED BY <1>1, <2>3, <2>5, <2>6, <2>7, <2>8
<1> QED BY <1>3, <1>5, <1>6 DEF PlannerRight, LoopMatchesPlans, ImpossibleIsTrue

\* eviction.rs: what the loop has chosen when it is done is a plan, the least
\* recently used models and none too many; and when it says that room cannot be
\* made, no set of models that may be evicted would make it.
THEOREM PlannerRightHolds == PlanSpec => []PlannerRight
<1>1. PlanInv /\ [PlanNext]_planVars => PlanInv'
  BY ChooseKeeps, OthersKeep DEF PlanNext
<1> QED BY <1>1, PlanInitHolds, PlanImplied, PTL DEF PlanSpec
=============================================================================
