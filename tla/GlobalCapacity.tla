--------------------------- MODULE GlobalCapacity ---------------------------
(***************************************************************************)
(* The capacity ledger shared by every runtime of the process              *)
(* (global_capacity.rs), with the supervisors that adopt their engine's    *)
(* residency into it at start-up, claim a load before sending it and       *)
(* settle the claim when the operation ends (supervisor.rs), as            *)
(* runtime.rs sets them up.                                                *)
(*                                                                         *)
(* A supervisor is seen here only through what it charges: which victims   *)
(* it picks and how it drives its engine is the Supervisor module's        *)
(* subject.  Memory is counted in grains; Grain grains are one unit of the *)
(* ledger.                                                                 *)
(***************************************************************************)
EXTENDS Integers, FiniteSets, Functions

CONSTANTS
  Runtimes,     \* provider ids, one supervisor and one allocation key each
  Models,       \* model ids
  Serves,       \* [Runtimes -> SUBSET Models]: what each engine can load
  Size,         \* [Models -> Nat]: the memory a resident model really takes
  Estimates,    \* [Models -> SUBSET Nat]: the memory_gb requests may name
  Outside,      \* [Runtimes -> Nat]: what another client of the engine may take
  Setups,       \* [exact, killed, budget (in grains), headroom (in units)]
  Grain,        \* grains per unit
  Epsilon,      \* CAPACITY_EPSILON_UNITS
  Remote,       \* runtimes the boot-time kill switch does not probe
  MaxRestarts,  \* bound: restarts of the process
  None          \* no operation

ASSUME GlobalCapacityAssumption ==
  /\ IsFiniteSet(Runtimes) /\ IsFiniteSet(Models)
  /\ Size \in [Models -> Nat \ {0}]
  /\ Serves \in [Runtimes -> SUBSET Models]
  /\ \A m \in Models : \A e \in Estimates[m] : e \in Nat /\ e >= Size[m]
  /\ Outside \in [Runtimes -> Nat]
  /\ {Epsilon, MaxRestarts} \subseteq Nat
  /\ Grain \in Nat \ {0}
  /\ Setups \subseteq [exact : BOOLEAN, killed : BOOLEAN, budget : Nat, headroom : Nat]
  /\ \A c \in Setups : ~c.exact => c.headroom = 0
  /\ Remote \subseteq Runtimes

Status == [ids : SUBSET Models, used : Nat]
Operation == [id : Models, charge : Nat, prev : Nat, victims : SUBSET Models,
              confirmed : BOOLEAN, status : Status \cup {None},
              pc : {"evict", "verify", "load"}]

ASSUME NoneAssumption == None \notin Status /\ None \notin Operation

VARIABLES
  setup,     \* the process's configuration: a byte budget or not, and whether
             \* it starts under the remote kill switch
  phase,     \* of each supervisor
  alloc,     \* the ledger: allocation key -> charged units
  claim,     \* StartupCapacityTracking: what the supervisor believes it holds
  slots,     \* what each model is charged; 0 when it occupies nothing
  measured,  \* the latest aggregate: memory in use, and what each slot it
             \* proves resident was charged then
  adopted,   \* slots taken over from the start-up status
  unsure,    \* slots whose load is unconfirmed
  op,        \* the load in flight, or None
  resident,  \* engine: models in memory
  late,      \* engine: loads that may still allocate
  extra,     \* engine: memory of other clients
  stray,     \* history: loads of a process that is gone
  granted,   \* history: models whose memory was allocated under a confirmation
  breach,    \* history: how far residency recorded without admission went
  restarts

ledger  == <<alloc, claim>>
books   == <<slots, measured, adopted, unsure>>
engine  == <<resident, late, extra>>
history == <<stray, granted, breach>>
config  == <<setup, restarts>>
vars == <<config, phase, ledger, books, op, engine, history>>

-----------------------------------------------------------------------------
(* Units.  Charges round up, the budget rounds down.  With a byte budget    *)
(* every estimate is rounded before it is summed, otherwise the sum is.     *)

Larger(a, b) == IF a < b THEN b ELSE a
Smaller(a, b) == IF a < b THEN a ELSE b

AtLeast0(n) == Larger(n, 0)
Units(grains) == (grains + Grain - 1) \div Grain

Own(grains) == IF setup.exact THEN Units(grains) ELSE grains
Entry(own) == IF setup.exact THEN own ELSE Units(own)

Budget == setup.budget \div Grain
Tolerance == IF setup.exact THEN 0 ELSE Epsilon
Usable == AtLeast0(Budget - setup.headroom)

\* exact_total_units, without the allocation of the runtimes in except
ReservedExcept(except) == SumFunctionOnSet(alloc, DOMAIN alloc \ except)
Reserved == ReservedExcept({})

Charges(s, ids) == SumFunctionOnSet(s, ids)
Memory(ids) == SumFunctionOnSet(Size, ids)
Used(r) == Memory(resident[r]) + extra[r]

\* exact_reserved_charge: what the aggregate shows beyond the slots it proves
\* resident, none of them credited with more than it is charged now.
Aggregate(x, s, doubtful) ==
  AtLeast0(Own(x.used)
           - Charges([m \in Models |-> Smaller(s[m], x.credit[m])], Models \ doubtful))
Seen(r) == Aggregate(measured[r], slots[r], unsure[r])

\* exact_charge of all slots; accounted_gb without a byte budget
Accounted(s, x, doubtful) == Charges(s, Models) + Aggregate(x, s, doubtful)

\* refresh_aggregate_except: a status replaces the aggregate.
Refreshed(status, s, doubtful, id, credit) ==
  [used |-> status.used,
   credit |-> [m \in Models |-> IF m \notin status.ids THEN 0
                                ELSE IF m = id THEN credit
                                ELSE IF m \in doubtful THEN 0 ELSE s[m]]]

-----------------------------------------------------------------------------
(* The ledger's decisions *)

\* check_admission: the full ceiling first, then the ceiling less headroom.
CheckAdmission(total, confirmed) ==
  IF total > Budget + Tolerance THEN "oom"
  ELSE IF ~confirmed /\ total > Usable + Tolerance THEN "headroom"
  ELSE "ok"

\* a runtime is judged alone
MutGrowth(r, units, confirmed) ==
  IF units <= alloc[r] THEN "ok" ELSE CheckAdmission(units, confirmed)

\* Growth of one allocation beside all the others.
Growth(r, units, confirmed) ==
  IF units <= alloc[r] THEN "ok"
  ELSE IF setup.budget = 0 THEN "oom"
  ELSE CheckAdmission(ReservedExcept({r}) + units, confirmed)

\* a plan that does not grow is not judged
MutJudge(r, held, planned, confirmed) ==
  Growth(r, Entry(held), confirmed)

\* claim_charge judges the plan even when it shrinks; resize only growth.
Judge(r, held, planned, confirmed) ==
  LET total == ReservedExcept({r}) + planned
  IN  IF ~setup.exact THEN Growth(r, Entry(held), TRUE)
      ELSE IF total > Budget THEN "oom"
      ELSE IF ~confirmed /\ total > Usable THEN "headroom"
      ELSE Growth(r, held, confirmed)

Tracked(r) == r \in DOMAIN alloc

\* the plan replaces the claim before the victims are gone
MutHeld(r, planned) == planned

\* claim_runtime_capacity: the old claim is kept until the release of what
\* it stood for is confirmed.
Held(r, planned) == Larger(claim[r], planned)

Admits(r, planned, confirmed) ==
  Tracked(r) => Judge(r, Held(r, planned), planned, confirmed) = "ok"

Record(r, own) ==
  /\ claim' = [claim EXCEPT ![r] = own]
  /\ alloc' = [alloc EXCEPT ![r] = Entry(own)]

Claim(r, planned) ==
  IF Tracked(r) THEN Record(r, Held(r, planned)) ELSE UNCHANGED ledger

\* Residency was recorded without admission and the total is now this.
Worse(total) ==
  IF breach = "budget" \/ total > Budget THEN "budget"
  ELSE IF total > Usable THEN "headroom" ELSE breach

\* settle_runtime_capacity: the books replace the claim, except that a load
\* of unknown fate keeps it from shrinking.  Books above the claim are
\* recorded without admission, and the actor trusts itself no more.
Settle(r, s, x, doubtful) ==
  LET now  == Accounted(s, x, doubtful)
      over == now > claim[r]
  IN  IF ~Tracked(r)
      THEN UNCHANGED <<ledger, phase, breach>>
      ELSE /\ IF over \/ doubtful = {} THEN Record(r, now) ELSE UNCHANGED ledger
           /\ phase' = IF over /\ doubtful = {}
                       THEN [phase EXCEPT ![r] = "poisoned"] ELSE phase
           /\ breach' = IF over THEN Worse(ReservedExcept({r}) + Entry(now)) ELSE breach

-----------------------------------------------------------------------------
(* Start-up *)

Adopt(r, own) ==
  /\ claim' = [claim EXCEPT ![r] = own]
  /\ alloc' = [x \in DOMAIN alloc \cup {r} |->
                 IF x = r THEN Entry(own) ELSE alloc[x]]
  /\ breach' = Worse(ReservedExcept({r}) + Larger(Entry(own), Units(Used(r))))

Unaccounted(used) == [used |-> used, credit |-> [m \in Models |-> 0]]

\* A status was taken: what it shows is charged, whatever the budget says.
\* A marker of the load fence leaves the actor refusing every command.
StartMeasured(r) ==
  /\ phase[r] = "starting"
  /\ Adopt(r, Own(Used(r)))
  /\ phase' = [phase EXCEPT ![r] = IF stray[r] = {} THEN "up" ELSE "refusing"]
  /\ measured' = [measured EXCEPT ![r] = Unaccounted(Used(r))]
  /\ adopted' = [adopted EXCEPT ![r] = resident[r]]
  /\ UNCHANGED <<config, slots, unsure, op, engine, stray, granted>>

\* unknown residency is taken for none
MutStartUnknown(r) ==
  /\ phase[r] = "starting"
  /\ Adopt(r, 0)
  /\ phase' = [phase EXCEPT ![r] = "unknown"]
  /\ UNCHANGED <<config, books, op, engine, stray, granted>>

\* block_growth_for_unknown_residency: no status, so the whole budget.
StartUnknown(r) ==
  /\ phase[r] = "starting"
  /\ Adopt(r, Own(setup.budget))
  /\ phase' = [phase EXCEPT ![r] = "unknown"]
  /\ UNCHANGED <<config, books, op, engine, stray, granted>>

-----------------------------------------------------------------------------
(* Loads *)

Serving(r) == phase[r] \in {"up", "untracked"} /\ op[r] = None

\* What the books charge a load: a slot taken over at start-up only pays
\* for what exceeds the aggregate it is part of.
RequestCharge(r, m, estimate) ==
  IF m \in adopted[r] THEN AtLeast0(Own(estimate) - Seen(r)) ELSE Own(estimate)

\* Victims make the plan fit the runtime's own budget, and none is taken
\* when it fits already.
FitsAlone(r, planned) == planned <= Own(setup.budget)
PlannedWith(r, m, charge, victims) ==
  Seen(r) + charge + Charges(slots[r], Models \ (victims \cup {m}))

VictimSets(r, m, charge) ==
  LET evictable == {v \in Models \ ({m} \cup adopted[r] \cup unsure[r]) : slots[r][v] > 0}
      fitting == {V \in SUBSET evictable : FitsAlone(r, PlannedWith(r, m, charge, V))}
  IN  IF {} \in fitting THEN {{}} ELSE fitting

\* A model adopted at start-up is looked for before it is sent.
SendPc(r, m) == IF m \in adopted[r] THEN "verify" ELSE "load"

\* handle_load.  A refusal by the ledger leaves everything as it was; the
\* fence's marker of a load of unknown fate refuses every other load.
StartLoad(r, m, estimate, confirmed) ==
  /\ Serving(r)
  /\ unsure[r] = {}
  /\ Seen(r) <= Own(setup.budget)
  /\ LET charge == RequestCharge(r, m, estimate)
     IN \E victims \in VictimSets(r, m, charge) :
          LET planned == PlannedWith(r, m, charge, victims)
          IN  /\ Admits(r, planned, confirmed)
              /\ Claim(r, planned)
              /\ op' = [op EXCEPT ![r] =
                          [id |-> m, charge |-> charge, prev |-> slots[r][m],
                           victims |-> victims, confirmed |-> confirmed,
                           status |-> None,
                           pc |-> IF victims # {} THEN "evict" ELSE SendPc(r, m)]]
              /\ slots' = [slots EXCEPT ![r] = [@ EXCEPT ![m] = charge]]
  /\ UNCHANGED <<config, phase, measured, adopted, unsure, engine, history>>

\* OpDone: books and ledger move together.
Finish(r, s, x, doubtful, confirmed) ==
  /\ granted' = [granted EXCEPT ![r] = {m \in confirmed : s[m] > 0}]
  /\ slots' = [slots EXCEPT ![r] = s]
  /\ measured' = [measured EXCEPT ![r] = x]
  /\ unsure' = [unsure EXCEPT ![r] = doubtful]
  /\ Settle(r, s, x, doubtful)
  /\ op' = [op EXCEPT ![r] = None]

\* The slots and the aggregate after the victims' fate is known.
Without(s, freed) == [m \in Models |-> IF m \in freed THEN 0 ELSE s[m]]

\* The target's old charge is all of it that a status from before the load
\* can show.
Measured(r, s, status) ==
  IF status = None THEN measured[r]
  ELSE Refreshed(status, s, unsure[r], op[r].id, op[r].prev)

\* confirm_memory_released: no more is in use than what is left of the books.
Released(used, left) == Own(used) <= left
AfterEviction(r) ==
  Charges(slots[r], Models \ (op[r].victims \cup {op[r].id})) + Seen(r) + op[r].prev

\* The victims leave the engine: all are proved gone, and those whose unload
\* was acknowledged are given up; or some may be gone and none is given up.
\* Unless every victim was, the load is not sent.
EvictVictims(r) ==
  /\ op[r] # None /\ op[r].pc = "evict"
  /\ \/ /\ resident' = [resident EXCEPT ![r] = @ \ op[r].victims]
        /\ LET status == [ids |-> resident'[r], used |-> Memory(resident'[r]) + extra[r]]
           IN  /\ Released(status.used, AfterEviction(r))
               /\ \/ /\ op' = [op EXCEPT ![r] = [@ EXCEPT !.pc = SendPc(r, op[r].id),
                                                              !.status = status]]
                     /\ UNCHANGED <<phase, ledger, books, granted, breach>>
                  \/ \E freed \in SUBSET op[r].victims :
                       LET s == Without([slots[r] EXCEPT ![op[r].id] = op[r].prev], freed)
                       IN  /\ freed # op[r].victims
                           /\ Finish(r, s, Measured(r, s, status), unsure[r], granted[r])
                           /\ UNCHANGED adopted
     \/ \E gone \in SUBSET op[r].victims :
          /\ resident' = [resident EXCEPT ![r] = @ \ gone]
          /\ Finish(r, [slots[r] EXCEPT ![op[r].id] = op[r].prev], measured[r], unsure[r],
                    granted[r])
          /\ UNCHANGED adopted
  /\ UNCHANGED <<config, late, extra, stray>>

Sent(r) == op[r] # None /\ op[r].pc = "load"

\* A status still shows the adopted model, within what the books allow.
Verify(r) ==
  /\ op[r] # None /\ op[r].pc = "verify"
  /\ op[r].id \in resident[r]
  /\ Released(Used(r), AfterEviction(r))
  /\ op' = [op EXCEPT ![r] = [@ EXCEPT !.pc = "load"]]
  /\ UNCHANGED <<config, phase, ledger, books, engine, history>>

\* What the load in flight allocates, it does under its own confirmation or
\* under none.
Granted(r) ==
  IF op[r].confirmed THEN granted[r] \cup {op[r].id} ELSE granted[r] \ {op[r].id}

\* The engine allocates for the load that was sent to it.
Allocate(r) ==
  /\ Sent(r) /\ op[r].id \notin resident[r]
  /\ resident' = [resident EXCEPT ![r] = @ \cup {op[r].id}]
  /\ granted' = [granted EXCEPT ![r] = Granted(r)]
  /\ UNCHANGED <<config, phase, ledger, books, op, late, extra, stray, breach>>

LoadDone(r) ==
  /\ Sent(r) /\ op[r].id \in resident[r]
  /\ LET s == Without(slots[r], op[r].victims)
     IN  Finish(r, s, Measured(r, s, op[r].status), unsure[r], granted[r])
  /\ UNCHANGED <<config, adopted, engine, stray>>

\* The engine rejected the load, or did not show the adopted model: what was
\* there before still is.
LoadRejected(r) ==
  /\ op[r] # None /\ op[r].pc \in {"verify", "load"}
  /\ op[r].id \in resident[r] => op[r].prev > 0 \/ op[r].id \in adopted[r]
  /\ LET s == [Without(slots[r], op[r].victims) EXCEPT ![op[r].id] = op[r].prev]
     IN  Finish(r, s, Measured(r, s, op[r].status), unsure[r], granted[r])
  /\ UNCHANGED <<config, adopted, engine, stray>>

\* The load in flight may still allocate when nobody waits for it any more.
Pending(r) == Sent(r) /\ op[r].id \notin resident[r]
LeftBehind(r) == late' = [late EXCEPT ![r] = @ \cup (IF Pending(r) THEN {op[r].id} ELSE {})]
GrantedBehind(r) == IF Pending(r) THEN Granted(r) ELSE granted[r]

\* The load's answer is lost: its slot keeps the larger footprint, and it may
\* allocate at any later time.
LoadUnconfirmed(r) ==
  /\ Sent(r)
  /\ LET id == op[r].id
         s == [Without(slots[r], op[r].victims) EXCEPT ![id] = Larger(@, op[r].prev)]
     IN  /\ Finish(r, s, Measured(r, s, op[r].status), unsure[r] \cup {id},
                   GrantedBehind(r))
         /\ LeftBehind(r)
  /\ UNCHANGED <<config, adopted, resident, extra, stray>>

\* The task dies between or in its calls: nothing it saw counts, and no victim
\* is given up.
LoadPanicked(r) ==
  /\ op[r] # None
  /\ LET id == op[r].id
         s == [slots[r] EXCEPT ![id] = Larger(@, op[r].prev)]
     IN  /\ Finish(r, s, measured[r], unsure[r] \cup {id},
                   GrantedBehind(r))
         /\ LeftBehind(r)
         /\ \E gone \in SUBSET (IF op[r].pc = "evict" THEN op[r].victims ELSE {}) :
              resident' = [resident EXCEPT ![r] = @ \ gone]
  /\ UNCHANGED <<config, adopted, extra, stray>>

\* An unload whose release is confirmed by a fresh status; one that fails
\* leaves the slot charged, whatever became of the model.
Unload(r, m) ==
  /\ Serving(r) /\ m \notin unsure[r]
  /\ slots[r][m] > 0 \/ m \in adopted[r]
  /\ resident' = [resident EXCEPT ![r] = @ \ {m}]
  /\ \/ LET s == Without(slots[r], {m})
            status == [ids |-> resident'[r], used |-> Memory(resident'[r]) + extra[r]]
        IN  /\ Released(status.used, Charges(slots[r], Models \ {m})
                                     + Aggregate(measured[r], s, unsure[r]))
            /\ Finish(r, s, Refreshed(status, s, unsure[r], None, 0), unsure[r], granted[r])
            /\ adopted' = [adopted EXCEPT ![r] = @ \ {m}]
     \/ UNCHANGED <<ledger, phase, books, op, breach, granted>>
  /\ UNCHANGED <<config, late, extra, stray>>

-----------------------------------------------------------------------------
(* The engines on their own, and the process *)

AllocateLate(r, m) ==
  /\ m \in late[r]
  /\ resident' = [resident EXCEPT ![r] = @ \cup {m}]
  /\ late' = [late EXCEPT ![r] = @ \ {m}]
  /\ UNCHANGED <<config, phase, ledger, books, op, extra, history>>

OtherClient(r) ==
  /\ extra[r] < Outside[r]
  /\ extra' = [extra EXCEPT ![r] = Outside[r]]
  /\ UNCHANGED <<config, phase, ledger, books, op, resident, late, history>>

AtBoot == [r \in Runtimes |-> IF setup.killed /\ r \in Remote THEN "untracked" ELSE "starting"]

\* The ledger is in memory only; the engines and their loads live on.
Restart ==
  /\ restarts < MaxRestarts
  /\ restarts' = restarts + 1
  /\ late' = [r \in Runtimes |->
                late[r] \cup (IF Pending(r) THEN {op[r].id} ELSE {})]
  /\ stray' = [r \in Runtimes |->
                 stray[r] \cup unsure[r] \cup (IF op[r] = None THEN {} ELSE {op[r].id})]
  /\ phase' = AtBoot
  /\ alloc' = [r \in {} |-> 0] /\ claim' = [r \in Runtimes |-> 0]
  /\ slots' = [r \in Runtimes |-> [m \in Models |-> 0]]
  /\ measured' = [r \in Runtimes |-> Unaccounted(0)]
  /\ op' = [r \in Runtimes |-> None]
  /\ adopted' = [r \in Runtimes |-> {}] /\ unsure' = [r \in Runtimes |-> {}]
  /\ granted' = [r \in Runtimes |-> {}]
  /\ breach' = "none"
  /\ UNCHANGED <<setup, resident, extra>>

-----------------------------------------------------------------------------
Init ==
  /\ setup \in Setups
  /\ phase = AtBoot
  /\ alloc = [r \in {} |-> 0] /\ claim = [r \in Runtimes |-> 0]
  /\ slots = [r \in Runtimes |-> [m \in Models |-> 0]]
  /\ measured = [r \in Runtimes |-> Unaccounted(0)]
  /\ adopted = [r \in Runtimes |-> {}] /\ unsure = [r \in Runtimes |-> {}]
  /\ op = [r \in Runtimes |-> None]
  /\ resident \in [Runtimes -> SUBSET Models]
  /\ \A r \in Runtimes : resident[r] \subseteq Serves[r]
  /\ late = [r \in Runtimes |-> {}] /\ extra = [r \in Runtimes |-> 0]
  /\ stray = [r \in Runtimes |-> {}] /\ granted = [r \in Runtimes |-> {}]
  /\ breach = "none" /\ restarts = 0

LoadStep(r) ==
  \/ \E m \in Serves[r], confirmed \in BOOLEAN :
       \E estimate \in Estimates[m] : StartLoad(r, m, estimate, confirmed)
  \/ EvictVictims(r) \/ Verify(r) \/ Allocate(r)
  \/ LoadDone(r) \/ LoadRejected(r) \/ LoadUnconfirmed(r) \/ LoadPanicked(r)

Next ==
  \/ \E r \in Runtimes :
       \/ StartMeasured(r) \/ StartUnknown(r)
       \/ LoadStep(r) \/ OtherClient(r)
       \/ \E m \in Serves[r] : Unload(r, m) \/ AllocateLate(r, m)
  \/ Restart

Spec == Init /\ [][Next]_vars

-----------------------------------------------------------------------------
(* Properties *)

\* The shape of the ledger and of what the supervisors keep.
TypeOK ==
  /\ setup \in Setups /\ restarts \in Nat
  /\ phase \in [Runtimes -> {"starting", "up", "refusing", "unknown", "untracked", "poisoned"}]
  /\ DOMAIN alloc \subseteq Runtimes /\ \A r \in DOMAIN alloc : alloc[r] \in Nat
  /\ claim \in [Runtimes -> Nat]
  /\ slots \in [Runtimes -> [Models -> Nat]]
  /\ measured \in [Runtimes -> [used : Nat, credit : [Models -> Nat]]]
  /\ op \in [Runtimes -> Operation \cup {None}]
  /\ {adopted, unsure, resident, late, stray, granted} \subseteq [Runtimes -> SUBSET Models]
  /\ extra \in [Runtimes -> Nat]
  /\ breach \in {"none", "headroom", "budget"}

\* What a runtime's engine holds or was told to load for this process.
MayHold(r) ==
  (resident[r] \cup late[r] \cup (IF Sent(r) THEN {op[r].id} ELSE {})) \ stray[r]

\* Every compare-and-set finds what its owner expects: a supervisor's claim
\* and the ledger's entry never come apart.
OwnersAgree ==
  /\ DOMAIN alloc = {r \in Runtimes : phase[r] \notin {"starting", "untracked"}}
  /\ \A r \in DOMAIN alloc : alloc[r] = Entry(claim[r])

\* The entry of a runtime covers its engine at every moment of an eviction,
\* a load and a retry, including loads that were given up as unconfirmed.
EntryCoversEngine ==
  \A r \in DOMAIN alloc :
    phase[r] # "unknown" => Memory(MayHold(r)) <= Grain * alloc[r]

JointMemory == SumFunctionOnSet([r \in DOMAIN alloc |-> Memory(MayHold(r))], DOMAIN alloc)

\* Together the runtimes never hold or ask for more than the budget, however
\* their loads, evictions and settlements interleave, as long as nothing
\* that was recorded without admission went over it.
JointBudget ==
  breach # "budget" =>
    JointMemory <= Grain * (Budget + Tolerance)

\* Every request names the same memory for a model.
SteadyEstimates == \A m \in Models : \A d, e \in Estimates[m] : d = e

\* The headroom is only used while something allocated under a confirmation
\* is still charged: no chain of unconfirmed loads gets into it
\* (global_capacity.rs:137-139).  This takes steady estimates: a reload that
\* names less memory than the load before it may enter the headroom.
HeadroomConfirmed ==
  breach = "none" /\ JointMemory > Grain * (Usable + Tolerance) =>
    \E r \in Runtimes : granted[r] # {} \/ (op[r] # None /\ op[r].confirmed)

\* Between operations, and unless a load's fate is unknown, the entry is
\* what the books say: nothing stays charged that was given up.
SettledWhenIdle ==
  \A r \in DOMAIN alloc :
    phase[r] = "up" /\ op[r] = None /\ unsure[r] = {} =>
      claim[r] = Accounted(slots[r], measured[r], {})

\* A caller told that a confirmation is needed is not told so in vain: the
\* same plan would be admitted with one.
ConfirmationHelps ==
  \A r \in DOMAIN alloc : \A planned \in 0 .. Own(setup.budget) :
    Judge(r, Held(r, planned), planned, FALSE) = "headroom" =>
      Judge(r, Held(r, planned), planned, TRUE) = "ok"

\* global_capacity.rs:151-180: the headroom is for those who confirm, and
\* confirming is enough.
HeadroomKept == HeadroomConfirmed /\ ConfirmationHelps

\* While the ledger is over its ceiling no load raises an entry, and while some
\* runtime's residency is unknown none does by more than the tolerance.
NoGrowthWhenFull ==
  [][\A r \in DOMAIN alloc : op[r] = None /\ op'[r] # None =>
       /\ Reserved > Budget + Tolerance => alloc'[r] <= alloc[r]
       /\ (\E x \in Runtimes \ {r} : phase[x] = "unknown") =>
            alloc'[r] <= alloc[r] + Tolerance]_vars

\* supervisor.rs:1133-1160: a runtime's entry is what its supervisor believes,
\* covers its engine during every operation, and is given back after it.
EntriesTrue == TypeOK /\ OwnersAgree /\ EntryCoversEngine /\ SettledWhenIdle
=============================================================================
