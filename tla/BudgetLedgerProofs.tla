--------------------------- MODULE BudgetLedgerProofs ---------------------------
(***************************************************************************)
(* Theorems about BudgetLedger, for every set of reservations, scopes,     *)
(* zones, limits and amounts.  What happens to one row in a step is told   *)
(* once, in RowSteps; types, answers, overflows and zones follow from it.  *)
(***************************************************************************)
EXTENDS BudgetLedger, SumLemmas

Statuses == {"active", "expired", "settled", "released"}

-----------------------------------------------------------------------------
(* Rows *)

\* A used row is a Row.
LEMMA UsedRow ==
  ASSUME TypeOK, NEW r \in Used
  PROVE  r \in Ids /\ rows[r] \in Row
  BY DEF TypeOK, Used, Unused

\* Changing the status of a row changes nothing else.
LEMMA StatusChange ==
  ASSUME NEW row \in Row, NEW status \in Statuses
  PROVE  LET n == [row EXCEPT !.status = status] IN
         /\ n \in Row
         /\ n.status = status /\ n.scope = row.scope /\ n.period = row.period
         /\ n.tenantPeriod = row.tenantPeriod /\ n.actual = row.actual
         /\ n.created = row.created /\ n.expires = row.expires /\ n.reserved = row.reserved
  BY DEF Row, Statuses

\* So does settling one, but for the amount charged.
LEMMA SettledRow ==
  ASSUME NEW row \in Row, NEW cost \in Charges
  PROVE  LET n == [row EXCEPT !.status = "settled", !.actual = cost] IN
         /\ n \in Row /\ n.status = "settled" /\ n.actual = cost
         /\ n.scope = row.scope /\ n.period = row.period
         /\ n.tenantPeriod = row.tenantPeriod /\ n.reserved = row.reserved
  BY DEF Row

\* Extending one changes its deadline only.
LEMMA ExtendedRow ==
  ASSUME NEW row \in Row, NEW t \in Nat
  PROVE  LET n == [row EXCEPT !.expires = t] IN
         /\ n \in Row
         /\ n.status = row.status /\ n.scope = row.scope /\ n.period = row.period
         /\ n.tenantPeriod = row.tenantPeriod /\ n.created = row.created
         /\ n.reserved = row.reserved
  BY DEF Row

-----------------------------------------------------------------------------
(* What one step does to a row *)

Lapsed(r) == rows[r].status = "active" /\ rows'[r] = Lapse(r)

Made(r) ==
  /\ r \notin Used
  /\ overflows = {}
  /\ rows'[r] \in Row
  /\ rows'[r].status = "active"

Extended(r) ==
  /\ Counted(r)
  /\ \E t \in Nat : rows'[r] = [rows[r] EXCEPT !.expires = t]

Billed(r) ==
  /\ Open(r) /\ ~ Overflowed(r)
  /\ \E cost \in Charges :
       rows'[r] = [rows[r] EXCEPT !.status = "settled", !.actual = cost]

Freed(r) ==
  /\ \/ Open(r) /\ ~ Overflowed(r)
     \/ rows[r].status = "released"
  /\ rows'[r] = [rows[r] EXCEPT !.status = "released"]

RowStep(r) ==
  \/ rows'[r] = rows[r]
  \/ Lapsed(r) \/ Made(r) \/ Extended(r) \/ Billed(r) \/ Freed(r)

\* The two periods of an admission are periods.
LEMMA AdmissionPeriods ==
  ASSUME TypeOK, NEW s \in Scopes, Configured(s)
  PROVE  PeriodNow(s) \in Periods /\ TenantPeriodNow(s) \in Periods
<1>1. /\ scopeConfig[s] # NoConfig => scopeConfig[s].zone \in Zones
      /\ tenantConfig # NoConfig => tenantConfig.zone \in Zones
      /\ now \in 0..MaxNow
  BY DEF TypeOK
<1> QED  BY <1>1 DEF Configured, PeriodNow, TenantPeriodNow, Periods

\* A row that may change is a Row, and stays one whatever its step.
LEMMA RowStepTyped ==
  ASSUME TypeOK, NEW r \in Ids, RowStep(r)
  PROVE  /\ rows'[r] \in Row \cup {Unused}
         /\ r \in Used => rows'[r] \in Row /\ rows'[r].status # "unused"
<1>1. CASE rows'[r] = rows[r]
  BY <1>1, UsedRow DEF TypeOK, Used, Unused, Row
<1>2. CASE Made(r)
  BY <1>2 DEF Made, Row
<1>3. CASE Lapsed(r) \/ Extended(r) \/ Billed(r) \/ Freed(r)
  <2>1. r \in Used
    BY <1>3 DEF Lapsed, Extended, Counted, CountedAt, Billed, Freed, Open, Used
  <2>2. rows[r] \in Row
    BY <2>1, UsedRow
  <2>3. rows'[r] \in Row
    <3>1. CASE Lapsed(r)
      BY <3>1, <2>2, StatusChange DEF Lapsed, Lapse, Statuses
    <3>2. CASE Extended(r)
      BY <3>2, <2>2, ExtendedRow DEF Extended
    <3>3. CASE Billed(r)
      BY <3>3, <2>2, SettledRow DEF Billed
    <3>4. CASE Freed(r)
      BY <3>4, <2>2, StatusChange DEF Freed, Statuses
    <3> QED  BY <1>3, <3>1, <3>2, <3>3, <3>4
  <2> QED  BY <2>3 DEF Row
<1> QED  BY <1>1, <1>2, <1>3 DEF RowStep

\* The sweep of an admission lapses rows, nothing else.
LEMMA SweepLapses ==
  ASSUME NEW s \in Scopes, NEW r \in Ids
  PROVE  \/ Swept(s)[r] = rows[r]
         \/ rows[r].status = "active" /\ Swept(s)[r] = Lapse(r)
  BY DEF Swept

\* A new row is a Row.
LEMMA ReserveRow ==
  ASSUME TypeOK, NEW r \in Ids, NEW s \in Scopes, NEW cost \in Costs, NEW t \in 0..MaxNow,
         Reserve(r, s, cost, t)
  PROVE  Made(r)
<1>1. rows'[r] = [status |-> "active", scope |-> s, period |-> PeriodNow(s),
                  tenantPeriod |-> TenantPeriodNow(s), reserved |-> cost, actual |-> 0,
                  created |-> now, expires |-> now + Ttl]
  BY DEF Reserve, Swept
<1>2. PeriodNow(s) \in Periods /\ TenantPeriodNow(s) \in Periods
  BY AdmissionPeriods DEF Reserve
<1>3. now \in 0..MaxNow /\ now + Ttl \in Nat
  BY BudgetLedgerAssumption DEF TypeOK
<1>4. rows'[r] \in Row
  BY <1>1, <1>2, <1>3 DEF Row
<1> QED  BY <1>1, <1>4 DEF Made, Reserve

\* What a caller's step does to the row of the reservation it names.
FinishRow(r) ==
  \/ rows' = rows
  \/ \E cost \in Charges : Charge(r, cost)
  \/ \E more \in 1..Ttl : Extend(r, more)
  \/ Release(r)

LEMMA FinishRows ==
  ASSUME Finish
  PROVE  \E r \in granted : FinishRow(r)
  BY DEF Finish, FinishRow, KeepOverflow, Settle, Replay

\* Callers change neither the clock nor the configuration.
LEMMA FinishKeeps ==
  ASSUME Finish
  PROVE  UNCHANGED <<now, config>>
<1>1. PICK r \in granted :
        \/ \E cost \in Charges :
             \/ KeepOverflow(r, cost)
             \/ Settle(r, cost) \/ Replay(r, cost)
        \/ \E more \in 1..Ttl : Extend(r, more)
        \/ Release(r)
  BY DEF Finish
<1>2. CASE \E cost \in Charges : KeepOverflow(r, cost)
  BY <1>2 DEF KeepOverflow
<1>3. ASSUME NEW cost, Settle(r, cost) \/ Replay(r, cost)
      PROVE  UNCHANGED <<now, config>>
  BY <1>3 DEF Settle, Replay, Charge
<1>4. CASE \E more \in 1..Ttl : Extend(r, more)
  BY <1>4 DEF Extend
<1>5. CASE Release(r)
  BY <1>5 DEF Release
<1> QED  BY <1>1, <1>2, <1>3, <1>4, <1>5

\* Every step does one of these things to every row.
LEMMA RowSteps ==
  ASSUME TypeOK, Next, NEW x \in Ids
  PROVE  RowStep(x)
<1> USE DEF RowStep
<1>1. ASSUME Operate \/ \E t \in (now + 1)..MaxNow : Tick(t)  PROVE  rows' = rows
  BY <1>1 DEF Operate, Configure, ConfigureTenant, RetainTenants, Tick
<1>2. ASSUME NEW s \in Scopes, CheckAdmission(s)  PROVE  RowStep(x)
  BY <1>2, SweepLapses DEF CheckAdmission, Lapsed
<1>3. ASSUME NEW s \in Scopes, NEW r \in Ids, NEW cost \in Costs, NEW t \in 0..MaxNow,
             Reserve(r, s, cost, t)
      PROVE  RowStep(x)
  <2>1. CASE x = r
    BY <1>3, <2>1, ReserveRow
  <2>2. CASE x # r
    <3>1. rows'[x] = Swept(s)[x]
      BY <1>3, <2>2 DEF Reserve, Swept
    <3> QED  BY <3>1, SweepLapses DEF Lapsed
  <2> QED  BY <2>1, <2>2
<1>4. ASSUME NEW at \in 0..now, SweepExpired(at)  PROVE  RowStep(x)
  BY <1>4 DEF SweepExpired, Lapsed
<1>5. CASE Finish
  <2>1. PICK q \in granted : FinishRow(q)
    BY <1>5, FinishRows
  <2>2. ASSUME NEW cost \in Charges, Charge(q, cost)  PROVE  RowStep(x)
    <3>1. CASE x = q
      BY <2>2, <3>1 DEF Charge, Billed, TypeOK
    <3>2. CASE x # q
      BY <2>2, <3>2 DEF Charge, TypeOK
    <3> QED  BY <3>1, <3>2
  <2>3. ASSUME NEW more \in 1..Ttl, Extend(q, more)  PROVE  RowStep(x)
    <3>1. now + more \in Nat
      BY BudgetLedgerAssumption DEF TypeOK
    <3>2. CASE x = q
      BY <2>3, <3>1, <3>2 DEF Extend, Extended, TypeOK
    <3>3. CASE x # q
      BY <2>3, <3>3 DEF Extend, TypeOK
    <3> QED  BY <3>2, <3>3
  <2>4. CASE Release(q)
    <3>1. CASE x = q
      BY <2>4, <3>1 DEF Release, Freed, TypeOK
    <3>2. CASE x # q
      BY <2>4, <3>2 DEF Release, TypeOK
    <3> QED  BY <3>1, <3>2
  <2> QED  BY <2>1, <2>2, <2>3, <2>4 DEF FinishRow
<1> QED  BY <1>1, <1>2, <1>3, <1>4, <1>5 DEF Next, Admit

-----------------------------------------------------------------------------
(* Types *)

\* Rows keep their types, and no id is given back.
LEMMA RowsTyped ==
  ASSUME TypeOK, Next
  PROVE  /\ rows' \in [Ids -> Row \cup {Unused}]
         /\ Used \subseteq Used'
<1>1. rows' = [x \in Ids |-> rows'[x]]
  <2> rows = [x \in Ids |-> rows[x]]
    BY DEF TypeOK
  <2>1. CASE Operate \/ \E t \in (now + 1)..MaxNow : Tick(t)
    BY <2>1 DEF Operate, Configure, ConfigureTenant, RetainTenants, Tick
  <2>2. CASE Admit
    BY <2>2 DEF Admit, CheckAdmission, Reserve, Swept
  <2>3. CASE \E at \in 0..now : SweepExpired(at)
    BY <2>3 DEF SweepExpired
  <2>4. CASE Finish
    <3>1. PICK r \in granted : FinishRow(r)
      BY <2>4, FinishRows
    <3>2. ASSUME NEW cost \in Charges, Charge(r, cost)
          PROVE  rows' = [x \in Ids |-> rows'[x]]
      BY <3>2 DEF Charge
    <3>3. ASSUME NEW more \in 1..Ttl, Extend(r, more)
          PROVE  rows' = [x \in Ids |-> rows'[x]]
      BY <3>3 DEF Extend
    <3>4. CASE Release(r)
      BY <3>4 DEF Release
    <3> QED  BY <3>1, <3>2, <3>3, <3>4 DEF FinishRow
  <2> QED  BY <2>1, <2>2, <2>3, <2>4 DEF Next
<1>2. \A x \in Ids : /\ rows'[x] \in Row \cup {Unused}
                     /\ x \in Used => rows'[x].status # "unused"
  BY RowSteps, RowStepTyped
<1> QED  BY <1>1, <1>2 DEF Used

\* A charge stays within the totals' range, and is credited to periods of the
\* ledger.
LEMMA ChargeTyped ==
  ASSUME TypeOK, NEW r \in granted, NEW cost \in Charges, Charge(r, cost)
  PROVE  /\ spent' \in [Scopes \X Periods -> 0..MaxAmount]
         /\ tenantSpent' \in [Periods -> 0..MaxAmount]
         /\ overage' \in [Ids -> Nat]
         /\ uncovered' \subseteq granted
         /\ UNCHANGED <<now, config, granted, overflows, under, freed>>
<1>1. r \in Ids /\ rows[r] \in Row
  BY UsedRow DEF TypeOK
<1>2. /\ <<rows[r].scope, rows[r].period>> \in Scopes \X Periods
      /\ rows[r].tenantPeriod \in Periods
      /\ rows[r].reserved \in Nat /\ cost \in Nat
  BY <1>1, BudgetLedgerAssumption DEF Row
<1>3. /\ spent[<<rows[r].scope, rows[r].period>>] + cost <= MaxAmount
      /\ tenantSpent[rows[r].tenantPeriod] + cost <= MaxAmount
  BY DEF Charge, Fits
<1>4. spent' \in [Scopes \X Periods -> 0..MaxAmount]
  <2>1. spent[<<rows[r].scope, rows[r].period>>] + cost \in 0..MaxAmount
    <3>1. spent[<<rows[r].scope, rows[r].period>>] \in 0..MaxAmount
      BY <1>2 DEF TypeOK
    <3> QED  BY <1>2, <1>3, <3>1, BudgetLedgerAssumption
  <2> QED  BY <1>2, <2>1 DEF TypeOK, Charge
<1>5. tenantSpent' \in [Periods -> 0..MaxAmount]
  <2>1. tenantSpent[rows[r].tenantPeriod] + cost \in 0..MaxAmount
    <3>1. tenantSpent[rows[r].tenantPeriod] \in 0..MaxAmount
      BY <1>2 DEF TypeOK
    <3> QED  BY <1>2, <1>3, <3>1, BudgetLedgerAssumption
  <2> QED  BY <1>2, <2>1 DEF TypeOK, Charge
<1>6. overage' \in [Ids -> Nat]
  <2>1. Over(cost, rows[r].reserved) \in Nat
    BY <1>2 DEF Over
  <2> QED  BY <1>1, <2>1 DEF TypeOK, Charge
<1>7. uncovered' \subseteq granted
  BY DEF TypeOK, Charge
<1> QED  BY <1>4, <1>5, <1>6, <1>7 DEF Charge, config

\* Types are preserved by every step.
LEMMA TypeStep ==
  ASSUME TypeOK, Next
  PROVE  TypeOK'
<1> USE DEF config, totals, answers
<1>1. rows' \in [Ids -> Row \cup {Unused}] /\ Used \subseteq Used'
  BY RowsTyped
<1>2. CASE Operate
  <2>1. CASE RetainTenants
    BY <1>1, <2>1 DEF TypeOK, RetainTenants
  <2>2. ASSUME NEW s \in Scopes, NEW limit \in Limits, NEW zone \in Zones, NEW at,
               Configure(s, limit, zone, at)
        PROVE  TypeOK'
    BY <1>1, <2>2 DEF TypeOK, Configure
  <2>3. ASSUME NEW limit \in Limits, NEW zone \in Zones, NEW gate \in Gates, NEW at,
               ConfigureTenant(limit, zone, gate, at)
        PROVE  TypeOK'
    BY <1>1, <2>3 DEF TypeOK, ConfigureTenant
  <2> QED  BY <1>2, <2>1, <2>2, <2>3 DEF Operate
<1>3. CASE Admit
  <2>1. ASSUME NEW s \in Scopes, CheckAdmission(s)  PROVE  TypeOK'
    BY <1>1, <2>1 DEF TypeOK, CheckAdmission
  <2>2. ASSUME NEW s \in Scopes, NEW r \in Ids, NEW cost \in Costs,
               NEW t \in {now, now + Ttl} \cap 0..MaxNow, Reserve(r, s, cost, t)
        PROVE  TypeOK'
    <3>1. r \in Used'
      <4>1. Made(r)
        BY <2>2, ReserveRow
      <4> QED  BY <4>1 DEF Made, Used
    <3>2. granted' \subseteq granted \cup {r} /\ granted \subseteq granted'
      BY <2>2 DEF Reserve
    <3>3. granted' \subseteq Used'
      BY <1>1, <3>1, <3>2 DEF TypeOK
    <3>4. under' \in [Ids -> [scope : Limits \cup {NoConfig}, tenant : Limits \cup {NoConfig}]]
      <4>1. /\ LimitOf(scopeConfig[s]) \in Limits \cup {NoConfig}
            /\ LimitOf(tenantConfig) \in Limits \cup {NoConfig}
        BY DEF TypeOK, LimitOf
      <4> QED  BY <2>2, <4>1 DEF TypeOK, Reserve
    <3>5. /\ now' \in 0..MaxNow /\ overflows' = {}
          /\ UNCHANGED <<config, totals, answers>>
      BY <2>2 DEF Reserve
    <3> QED  BY <1>1, <3>2, <3>3, <3>4, <3>5 DEF TypeOK
  <2> QED  BY <1>3, <2>1, <2>2 DEF Admit
<1>4. CASE Finish
  <2>1. ASSUME NEW r \in granted, NEW cost \in Charges, KeepOverflow(r, cost)
        PROVE  TypeOK'
    BY <1>1, <2>1 DEF TypeOK, KeepOverflow
  <2>2. ASSUME NEW r \in granted, NEW cost \in Charges, Charge(r, cost),
               acked' \subseteq acked \cup {<<r, cost>>}
        PROVE  TypeOK'
    <3>1. acked' \subseteq granted \X Charges
      BY <2>2 DEF TypeOK
    <3> QED  BY <1>1, <2>2, <3>1, ChargeTyped DEF TypeOK
  <2>3. ASSUME NEW r \in granted, NEW cost \in Charges, acked' = acked \cup {<<r, cost>>},
               UNCHANGED <<now, config, granted, totals, overflows, under, freed, uncovered>>
        PROVE  TypeOK'
    BY <1>1, <2>3 DEF TypeOK
  <2>4. ASSUME NEW r \in granted, NEW more \in 1..Ttl, Extend(r, more)
        PROVE  TypeOK'
    BY <1>1, <2>4 DEF TypeOK, Extend
  <2>5. ASSUME NEW r \in granted, Release(r)
        PROVE  TypeOK'
    BY <1>1, <2>5 DEF TypeOK, Release
  <2> QED  BY <1>4, <2>1, <2>2, <2>3, <2>4, <2>5 DEF Finish, Settle, Replay
<1>5. ASSUME NEW at, SweepExpired(at)  PROVE  TypeOK'
  BY <1>1, <1>5 DEF TypeOK, SweepExpired
<1>6. ASSUME NEW t \in (now + 1)..MaxNow, Tick(t)  PROVE  TypeOK'
  <2>1. t \in 0..MaxNow
    BY BudgetLedgerAssumption DEF TypeOK
  <2> QED  BY <1>1, <1>6, <2>1 DEF TypeOK, Tick
<1> QED  BY <1>2, <1>3, <1>4, <1>5, <1>6 DEF Next

\* The types hold, with totals in range: what overflows is never credited.
THEOREM Typed == Spec => []TypeOK
<1>1. Init => TypeOK
  BY BudgetLedgerAssumption DEF Init, TypeOK, Used, Unused
<1>2. TypeOK /\ [Next]_vars => TypeOK'
  <2>1. ASSUME TypeOK, UNCHANGED vars  PROVE  TypeOK'
    BY <2>1 DEF TypeOK, Used, vars, config, totals, answers
  <2> QED  BY <2>1, TypeStep
<1> QED  BY <1>1, <1>2, PTL DEF Spec

-----------------------------------------------------------------------------
(* Answers and overflows *)

\* A reservation whose charge was kept is neither settled nor released.
KeptOpen == \A o \in overflows : Open(o.id)

IInv == TypeOK /\ AnswersStand /\ KeptOpen

\* What a step answers is so when it ends.
NewAnswers ==
  /\ \A a \in acked' \ acked : rows'[a[1]].status = "settled" /\ rows'[a[1]].actual = a[2]
  /\ \A r \in freed' \ freed : rows'[r].status = "released"
  /\ \A o \in overflows' \ overflows : Open(o.id) /\ rows'[o.id] = rows[o.id]
  /\ overflows \subseteq overflows'

LEMMA NewAnswersTrue ==
  ASSUME TypeOK, Next
  PROVE  NewAnswers
<1> USE DEF answers, NewAnswers
<1>1. CASE UNCHANGED <<acked, freed, overflows>>
  BY <1>1
<1>2. CASE Finish
  <2>1. ASSUME NEW r \in granted, NEW cost \in Charges, KeepOverflow(r, cost)
        PROVE  NewAnswers
    BY <2>1 DEF KeepOverflow
  <2>2. ASSUME NEW r \in granted, NEW cost \in Charges, Charge(r, cost),
               acked' \subseteq acked \cup {<<r, cost>>}
        PROVE  NewAnswers
    <3>1. r \in Ids /\ rows[r] \in Row
      BY UsedRow DEF TypeOK
    <3>2. rows'[r].status = "settled" /\ rows'[r].actual = cost
      <4>1. rows'[r] = [rows[r] EXCEPT !.status = "settled", !.actual = cost]
        BY <2>2, <3>1 DEF Charge, TypeOK
      <4> QED  BY <3>1, <4>1 DEF Row
    <3> QED  BY <2>2, <3>2 DEF Charge
  <2>3. ASSUME NEW r \in granted, NEW cost \in Charges, acked' = acked \cup {<<r, cost>>},
               rows[r].status = "settled", rows[r].actual = cost,
               UNCHANGED <<rows, freed, overflows>>
        PROVE  NewAnswers
    BY <2>3
  <2>4. ASSUME NEW r \in granted, NEW more, Extend(r, more)  PROVE  NewAnswers
    BY <2>4 DEF Extend
  <2>5. ASSUME NEW r \in granted, Release(r)  PROVE  NewAnswers
    <3>1. r \in Ids /\ rows[r] \in Row
      BY UsedRow DEF TypeOK
    <3>2. rows'[r].status = "released"
      <4>1. rows'[r] = [rows[r] EXCEPT !.status = "released"]
        BY <2>5, <3>1 DEF Release, TypeOK
      <4> QED  BY <3>1, <4>1, StatusChange DEF Statuses
    <3> QED  BY <2>5, <3>2 DEF Release
  <2> QED  BY <1>2, <2>1, <2>2, <2>3, <2>4, <2>5 DEF Finish, Settle, Replay
<1>3. CASE Operate
  BY <1>1, <1>3 DEF Operate, Configure, ConfigureTenant, RetainTenants
<1>4. CASE Admit
  BY <1>1, <1>4 DEF Admit, CheckAdmission, Reserve
<1> QED  BY <1>1, <1>2, <1>3, <1>4 DEF Next, SweepExpired, Tick

\* A settled row stays as it is, a released one released, and one with a kept
\* charge open.
LEMMA FinalRows ==
  ASSUME TypeOK, Next, NEW r \in Ids
  PROVE  /\ rows[r].status = "settled" => rows'[r] = rows[r]
         /\ rows[r].status = "released" => rows'[r].status = "released"
         /\ Open(r) /\ Overflowed(r) => Open(r)'
<1>1. RowStep(r)
  BY RowSteps
<1>2. CASE r \notin Used
  BY <1>2 DEF Used, Open
<1>3. CASE r \in Used
  <2>1. rows[r] \in Row
    BY <1>3, UsedRow
  <2>2. CASE rows'[r] = rows[r]
    BY <2>2 DEF Open
  <2>3. CASE Lapsed(r)
    BY <2>1, <2>3, StatusChange DEF Lapsed, Lapse, Open, Statuses
  <2>4. CASE Extended(r)
    <3>1. rows[r].status = "active" /\ rows'[r].status = "active"
      BY <2>1, <2>4, ExtendedRow DEF Extended, Counted, CountedAt
    <3> QED  BY <3>1 DEF Open
  <2>5. CASE Billed(r)
    BY <2>5 DEF Billed, Open
  <2>6. CASE Freed(r)
    BY <2>1, <2>6, StatusChange DEF Freed, Open, Statuses
  <2>7. CASE Made(r)
    BY <1>3, <2>7 DEF Made
  <2> QED  BY <1>1, <2>2, <2>3, <2>4, <2>5, <2>6, <2>7 DEF RowStep
<1> QED  BY <1>2, <1>3

LEMMA InvStep ==
  ASSUME IInv, Next
  PROVE  IInv'
<1> USE DEF IInv
<1>1. TypeOK'
  BY TypeStep
<1>2. NewAnswers
  BY NewAnswersTrue
<1>3. /\ \A a \in acked : a[1] \in Ids
      /\ \A r \in freed : r \in Ids
      /\ \A o \in overflows : o.id \in Ids /\ Overflowed(o.id)
  BY DEF TypeOK, Used, Overflowed
<1>4. AnswersStand'
  <2>1. ASSUME NEW a \in acked'
        PROVE  rows'[a[1]].status = "settled" /\ rows'[a[1]].actual = a[2]
    <3>1. CASE a \in acked
      BY <1>3, <3>1, FinalRows DEF AnswersStand
    <3> QED  BY <1>2, <3>1 DEF NewAnswers
  <2>2. ASSUME NEW r \in freed'  PROVE  rows'[r].status = "released"
    <3>1. CASE r \in freed
      BY <1>3, <3>1, FinalRows DEF AnswersStand
    <3> QED  BY <1>2, <3>1 DEF NewAnswers
  <2> QED  BY <2>1, <2>2 DEF AnswersStand
<1>5. KeptOpen'
  <2>1. ASSUME NEW o \in overflows'  PROVE  Open(o.id)'
    <3>1. CASE o \in overflows
      BY <1>3, <3>1, FinalRows DEF KeptOpen
    <3>2. CASE o \notin overflows
      BY <1>2, <3>2 DEF NewAnswers, Open
    <3> QED  BY <3>1, <3>2
  <2> QED  BY <2>1 DEF KeptOpen
<1> QED  BY <1>1, <1>4, <1>5

LEMMA InvStutter ==
  ASSUME IInv, UNCHANGED vars
  PROVE  IInv'
BY DEF IInv, TypeOK, AnswersStand, KeptOpen, Open, Used, vars, config, totals, answers

LEMMA InitInv == Init => IInv
<1>1. Init => TypeOK
  BY BudgetLedgerAssumption DEF Init, TypeOK, Used, Unused
<1> QED  BY <1>1 DEF Init, IInv, AnswersStand, KeptOpen

LEMMA Invariant == Spec => []IInv
<1>1. IInv /\ [Next]_vars => IInv'
  BY InvStep, InvStutter
<1> QED  BY <1>1, InitInv, PTL DEF Spec

\* An answer a caller was given stands: no retry, race or later call changes
\* what a settlement charged, or charges what was released.
THEOREM AnswersNeverChange == Spec => []AnswersStand
<1>1. IInv => AnswersStand
  BY DEF IInv
<1> QED  BY <1>1, Invariant, PTL

\* A charge that overflowed is kept until the ledger is repaired, and holds up
\* every new reservation meanwhile.
THEOREM OverflowsHold == Spec => OverflowHolds
<1> DEFINE Holds == overflows # {} =>
                      /\ overflows \subseteq overflows'
                      /\ Used' = Used
                      /\ \A o \in overflows : Open(o.id)'
<1>1. ASSUME IInv, Next, overflows # {}
      PROVE  Holds
  <2>1. TypeOK
    BY <1>1 DEF IInv
  <2>2. Used' = Used
    <3>1. ASSUME NEW x \in Ids  PROVE  x \in Used <=> rows'[x].status # "unused"
      <4>1. CASE x \in Used
        BY <1>1, <2>1, <4>1, RowSteps, RowStepTyped
      <4>2. CASE x \notin Used
        <5>1. rows[x].status = "unused"
          BY <4>2 DEF Used
        <5>2. rows'[x] = rows[x]
          BY <1>1, <2>1, <5>1, RowSteps DEF RowStep, Lapsed, Made, Extended, Billed, Freed,
             Counted, CountedAt, Open
        <5> QED  BY <4>2, <5>1, <5>2
      <4> QED  BY <4>1, <4>2
    <3> QED  BY <3>1 DEF Used
  <2>3. overflows \subseteq overflows'
    BY <1>1, <2>1, NewAnswersTrue DEF NewAnswers
  <2>4. \A o \in overflows : Open(o.id)'
    BY <1>1, <2>3, InvStep DEF IInv, KeptOpen
  <2> QED  BY <2>2, <2>3, <2>4
<1>2. IInv /\ [Next]_vars => [Holds]_vars
  BY <1>1
<1> QED  BY <1>2, Invariant, PTL DEF Spec, OverflowHolds

-----------------------------------------------------------------------------
(* Holds *)

LEMMA TimePasses ==
  ASSUME TypeOK, Next
  PROVE  now \in Nat /\ now' \in Nat /\ now <= now'
<1>1. now \in Nat /\ Ttl \in Nat /\ MaxNow \in Nat
  BY BudgetLedgerAssumption DEF TypeOK
<1>2. CASE now' = now
  BY <1>1, <1>2
<1>3. CASE Operate
  BY <1>2, <1>3 DEF Operate, Configure, ConfigureTenant, RetainTenants
<1>4. CASE Admit
  <2>1. ASSUME NEW r \in Ids, NEW s \in Scopes, NEW cost \in Costs,
               NEW t \in {now, now + Ttl} \cap 0..MaxNow, Reserve(r, s, cost, t)
        PROVE  now' \in Nat /\ now <= now'
    BY <1>1, <2>1 DEF Reserve
  <2> QED  BY <1>1, <1>2, <1>4, <2>1 DEF Admit, CheckAdmission
<1>5. CASE Finish
  BY <1>2, <1>5, FinishKeeps
<1>6. ASSUME NEW t \in (now + 1)..MaxNow, Tick(t)  PROVE  now' \in Nat /\ now <= now'
  BY <1>1, <1>6 DEF Tick
<1> QED  BY <1>1, <1>2, <1>3, <1>4, <1>5, <1>6 DEF Next, SweepExpired

\* A used row that counts after a step counted before it, in the same scope and
\* periods.
LEMMA CountedBefore ==
  ASSUME TypeOK, Next, NEW r \in Used, Counted(r)'
  PROVE  /\ Counted(r)
         /\ rows'[r].scope = rows[r].scope /\ rows'[r].period = rows[r].period
         /\ rows'[r].tenantPeriod = rows[r].tenantPeriod
         /\ rows'[r].created = rows[r].created
<1>1. r \in Ids /\ rows[r] \in Row
  BY UsedRow
<1>2. rows'[r].status = "active" /\ rows'[r].expires > now'
  BY DEF Counted, CountedAt
<1>3. RowStep(r)
  BY <1>1, RowSteps
<1>4. CASE rows'[r] = rows[r]
  <2>1. rows[r].expires \in Nat
    BY <1>1 DEF Row
  <2>2. rows[r].expires > now
    BY <1>2, <1>4, <2>1, TimePasses
  <2> QED  BY <1>2, <1>4, <2>2 DEF Counted, CountedAt
<1>5. CASE Extended(r)
  BY <1>1, <1>5, ExtendedRow DEF Extended
<1>6. ~ Lapsed(r)
  BY <1>1, <1>2, StatusChange DEF Lapsed, Lapse, Statuses
<1>7. ~ Billed(r)
  <2>1. ASSUME Billed(r)  PROVE  FALSE
    <3>1. PICK cost \in Charges :
            rows'[r] = [rows[r] EXCEPT !.status = "settled", !.actual = cost]
      BY <2>1 DEF Billed
    <3>2. rows'[r].status = "settled"
      BY <1>1, <3>1 DEF Row
    <3> QED  BY <1>2, <3>2
  <2> QED  BY <2>1
<1>8. ~ Freed(r)
  BY <1>1, <1>2, StatusChange DEF Freed, Statuses
<1>9. ~ Made(r)
  BY DEF Made
<1> QED  BY <1>3, <1>4, <1>5, <1>6, <1>7, <1>8, <1>9 DEF RowStep

\* A hold that stopped counting never counts again, so its amount may be lent.
THEOREM LapsedHoldsStayLapsed == Spec => NeverResurrected
<1> DEFINE Stays == \A r \in Used : ~ Counted(r) => ~ Counted(r)'
<1>1. TypeOK /\ [Next]_vars => [Stays]_vars
  BY CountedBefore
<1> QED  BY <1>1, Typed, PTL DEF Spec, NeverResurrected

-----------------------------------------------------------------------------
(* Zones *)

\* A configuration that is accepted leaves one zone.
LEMMA OneZoneAfter ==
  ASSUME TypeOK, NEW zone \in Zones,
         \/ \E s \in Scopes, limit \in Limits, at \in 0..now : Configure(s, limit, zone, at)
         \/ \E gate \in Gates, limit \in Limits, at \in 0..now :
              ConfigureTenant(limit, zone, gate, at)
  PROVE  \A c \in Configs' : c.zone = zone
<1>1. ASSUME NEW s \in Scopes, NEW limit, NEW at, Configure(s, limit, zone, at)
      PROVE  \A c \in Configs' : c.zone = zone
  <2>1. \A o \in Scopes : scopeConfig'[o] # NoConfig => scopeConfig'[o].zone = zone
    <3>1. scopeConfig'[s].zone = zone
      BY <1>1 DEF Configure, TypeOK
    <3>2. \A o \in Scopes \ {s} : scopeConfig'[o] = scopeConfig[o]
      BY <1>1 DEF Configure, TypeOK
    <3> QED  BY <1>1, <3>1, <3>2 DEF Configure
  <2>2. tenantConfig' # NoConfig => tenantConfig'.zone = zone
    BY <1>1 DEF Configure
  <2> QED  BY <2>1, <2>2 DEF Configs
<1>2. ASSUME NEW limit, NEW gate, NEW at, ConfigureTenant(limit, zone, gate, at)
      PROVE  \A c \in Configs' : c.zone = zone
  BY <1>2 DEF ConfigureTenant, Configs
<1> QED  BY <1>1, <1>2

\* The zones configured for a tenant agree, in whatever order its scopes and
\* its own limit are configured, dropped and configured again.
THEOREM OneZonePerTenant == Spec => []ZonesAgree
<1>1. Init => ZonesAgree
  BY DEF Init, ZonesAgree, Configs
<1>2. ASSUME TypeOK, ZonesAgree, [Next]_vars  PROVE  ZonesAgree'
  <2>1. CASE UNCHANGED config
    BY <1>2, <2>1 DEF ZonesAgree, Configs, config
  <2>2. CASE RetainTenants
    BY <2>2 DEF RetainTenants, ZonesAgree, Configs
  <2>3. CASE Operate
    BY <1>2, <2>2, <2>3, OneZoneAfter DEF Operate, ZonesAgree
  <2>4. CASE Next /\ ~ Operate
    BY <2>1, <2>4, FinishKeeps DEF Next, Admit, CheckAdmission, Reserve, SweepExpired, Tick
  <2> QED  BY <1>2, <2>1, <2>3, <2>4 DEF vars
<1> QED  BY <1>1, <1>2, Typed, PTL DEF Spec

\* A hold that counts still has the configuration it was admitted by, its
\* scope's or the tenant's, and lies in the periods of every configured zone.
Anchored(r) ==
  /\ scopeConfig[rows[r].scope] # NoConfig \/ tenantConfig # NoConfig
  /\ \A c \in Configs :
       /\ rows[r].period = PeriodAt(rows[r].created, c.zone)
       /\ rows[r].tenantPeriod = PeriodAt(rows[r].created, c.zone)

HoldsAnchored == \A r \in Used \ orphans : Counted(r) => Anchored(r)

\* An accepted change of zone finds no hold that counts.
LEMMA ReconfiguredAnchored ==
  ASSUME TypeOK, HoldsAnchored, NEW r \in Used \ orphans, Counted(r), NEW zone \in Zones,
         NEW limit \in Limits, NEW at \in 0..now,
         \/ \E s \in Scopes : Configure(s, limit, zone, at)
         \/ \E gate \in Gates : ConfigureTenant(limit, zone, gate, at)
  PROVE  Anchored(r)'
<1> r \in Ids /\ rows[r] \in Row
  BY UsedRow
<1>1. CountedAt(r, at)
  <2>1. now \in Nat /\ rows[r].expires \in Nat
    BY BudgetLedgerAssumption DEF TypeOK, Row
  <2> QED  BY <2>1 DEF Counted, CountedAt
<1>2. Anchored(r)
  BY DEF HoldsAnchored
<1>3. rows[r].scope \in Scopes
  BY DEF Row
<1>4. \A c \in Configs' : c.zone = zone
  BY OneZoneAfter
<1>5. rows' = rows
  BY DEF Configure, ConfigureTenant
<1>6. scopeConfig'[rows[r].scope] # NoConfig \/ tenantConfig' # NoConfig
  <2>1. CASE \E s \in Scopes : Configure(s, limit, zone, at)
    <3>1. PICK s \in Scopes : Configure(s, limit, zone, at)
      BY <2>1
    <3>2. [limit |-> limit, zone |-> zone] # NoConfig
      BY BudgetLedgerAssumption
    <3> QED  BY <1>2, <1>3, <3>1, <3>2 DEF Anchored, Configure, TypeOK
  <2>2. CASE \E gate \in Gates : ConfigureTenant(limit, zone, gate, at)
    BY <2>2, BudgetLedgerAssumption DEF ConfigureTenant
  <2> QED  BY <2>1, <2>2
<1>7. \E c \in Configs : c.zone = zone
  <2>1. CASE \E s \in Scopes : Configure(s, limit, zone, at)
    <3>1. PICK s \in Scopes : Configure(s, limit, zone, at)
      BY <2>1
    <3>2. CASE tenantConfig # NoConfig
      BY <3>1, <3>2 DEF Configure, Configs
    <3>3. CASE tenantConfig = NoConfig
      <4>1. scopeConfig[rows[r].scope] # NoConfig
        BY <1>2, <3>3 DEF Anchored
      <4>2. scopeConfig[rows[r].scope].zone = zone
        BY <1>1, <1>3, <3>1, <4>1 DEF Configure
      <4> QED  BY <1>3, <4>1, <4>2 DEF Configs
    <3> QED  BY <3>2, <3>3
  <2>2. CASE \E gate \in Gates : ConfigureTenant(limit, zone, gate, at)
    <3>1. CASE tenantConfig # NoConfig
      BY <1>1, <2>2, <3>1 DEF ConfigureTenant, Configs
    <3>2. CASE tenantConfig = NoConfig
      BY <1>2, <1>3, <2>2, <3>2 DEF Anchored, ConfigureTenant, Configs
    <3> QED  BY <3>1, <3>2
  <2> QED  BY <2>1, <2>2
<1> QED  BY <1>2, <1>4, <1>5, <1>6, <1>7 DEF Anchored

\* A reservation is made in the periods of the one zone its tenant has.
LEMMA ReservedAnchored ==
  ASSUME TypeOK, ZonesAgree, NEW r \in Ids, NEW s \in Scopes, NEW cost \in Costs,
         NEW t \in 0..MaxNow, Reserve(r, s, cost, t)
  PROVE  Anchored(r)'
<1>1. /\ rows'[r].scope = s /\ rows'[r].created = now
      /\ rows'[r].period = PeriodNow(s) /\ rows'[r].tenantPeriod = TenantPeriodNow(s)
  BY DEF Reserve, Swept
<1>2. UNCHANGED config
  BY DEF Reserve
<1>3. Configured(s)
  BY DEF Reserve
<1>4. ASSUME NEW c \in Configs
      PROVE  PeriodNow(s) = PeriodAt(now, c.zone) /\ TenantPeriodNow(s) = PeriodAt(now, c.zone)
  <2>1. /\ scopeConfig[s] # NoConfig => scopeConfig[s].zone = c.zone
        /\ tenantConfig # NoConfig => tenantConfig.zone = c.zone
    BY <1>4 DEF ZonesAgree, Configs
  <2> QED  BY <1>3, <2>1 DEF PeriodNow, TenantPeriodNow, Configured
<1> QED  BY <1>1, <1>2, <1>3, <1>4 DEF Anchored, Configured, Configs, config

\* A step that leaves the configuration alone leaves older holds anchored.
LEMMA KeptAnchored ==
  ASSUME TypeOK, HoldsAnchored, Next, UNCHANGED config, NEW r \in Used \ orphans, Counted(r)'
  PROVE  Anchored(r)'
BY CountedBefore DEF HoldsAnchored, Anchored, Configs, config

\* Unless its tenant is dropped from the configuration, a hold that counts lies
\* in the periods an admission looks at, whatever is reconfigured meanwhile.
THEOREM HoldsStayVisible == Spec => []HeldInPresentZone
<1>1. Init => HoldsAnchored
  BY DEF Init, HoldsAnchored, Used, Unused
<1>2. ASSUME TypeOK, ZonesAgree, HoldsAnchored, [Next]_vars  PROVE  HoldsAnchored'
  <2> SUFFICES ASSUME NEW r \in Used' \ orphans', Counted(r)'  PROVE  Anchored(r)'
    BY DEF HoldsAnchored
  <2>1. CASE UNCHANGED vars
    BY <1>2, <2>1 DEF HoldsAnchored, Anchored, Configs, Counted, CountedAt, Used, vars, config
  <2>2. CASE Operate
    <3>1. rows' = rows /\ now' = now
      BY <2>2 DEF Operate, Configure, ConfigureTenant, RetainTenants
    <3>2. r \in Used /\ Counted(r)
      BY <3>1 DEF Used, Counted, CountedAt
    <3>3. ~ RetainTenants
      BY <3>2 DEF RetainTenants
    <3>4. orphans' = orphans
      BY <2>2, <3>3 DEF Operate, Configure, ConfigureTenant
    <3> QED  BY <1>2, <2>2, <3>1, <3>2, <3>3, <3>4, ReconfiguredAnchored DEF Operate
  <2>3. CASE Next /\ ~ Operate
    <3>1. UNCHANGED config
      BY <2>3, FinishKeeps DEF Next, Admit, CheckAdmission, Reserve, SweepExpired, Tick
    <3>2. CASE r \in Used
      BY <1>2, <2>3, <3>1, <3>2, KeptAnchored DEF config
    <3>3. CASE r \notin Used
      <4>1. r \in Ids /\ rows[r].status = "unused" /\ rows'[r] # rows[r]
        BY <3>3 DEF Used
      <4>2. \E s \in Scopes, cost \in Costs, t \in 0..MaxNow : Reserve(r, s, cost, t)
        <5>1. CASE Admit
          <6>1. ASSUME NEW q \in Ids, NEW s \in Scopes, NEW cost, NEW t,
                       Reserve(q, s, cost, t), q # r
                PROVE  FALSE
            <7>1. rows'[r] = Swept(s)[r]
              BY <4>1, <6>1 DEF Reserve, Swept
            <7> QED  BY <4>1, <7>1, SweepLapses
          <6>2. ASSUME NEW s \in Scopes, CheckAdmission(s)  PROVE  FALSE
            BY <4>1, <6>2, SweepLapses DEF CheckAdmission
          <6> QED  BY <5>1, <6>1, <6>2 DEF Admit
        <5>2. CASE Finish
          <6>1. PICK q \in granted : FinishRow(q)
            BY <5>2, FinishRows
          <6>2. q # r
            BY <1>2, <3>3 DEF TypeOK
          <6> QED  BY <1>2, <4>1, <6>1, <6>2 DEF FinishRow, Charge, Extend, Release, TypeOK
        <5>3. ~ (\E at \in 0..now : SweepExpired(at))
          BY <4>1 DEF SweepExpired
        <5>4. ~ (\E t \in (now + 1)..MaxNow : Tick(t))
          BY <4>1 DEF Tick
        <5> QED  BY <2>3, <5>1, <5>2, <5>3, <5>4 DEF Next
      <4> QED  BY <1>2, <4>1, <4>2, ReservedAnchored
    <3> QED  BY <3>2, <3>3
  <2> QED  BY <1>2, <2>1, <2>2, <2>3
<1>3. TypeOK /\ HoldsAnchored => HeldInPresentZone
  <2> SUFFICES ASSUME TypeOK, HoldsAnchored, NEW r \in Used \ orphans, Counted(r)
               PROVE  /\ scopeConfig[rows[r].scope] # NoConfig =>
                           rows[r].period = PeriodAt(rows[r].created, scopeConfig[rows[r].scope].zone)
                      /\ tenantConfig # NoConfig =>
                           rows[r].tenantPeriod = PeriodAt(rows[r].created, tenantConfig.zone)
    BY DEF HeldInPresentZone
  <2>1. Anchored(r)
    BY DEF HoldsAnchored
  <2>2. rows[r].scope \in Scopes
    BY UsedRow DEF Row
  <2> QED  BY <2>1, <2>2 DEF Anchored, Configs
<1> QED  BY <1>1, <1>2, <1>3, Typed, OneZonePerTenant, PTL DEF Spec

-----------------------------------------------------------------------------
(* Accounts.  What a row holds, what it was charged, and what it was       *)
(* charged beyond its hold, as amounts that are 0 for every other row.     *)

HeldOf(r) == IF Counted(r) THEN rows[r].reserved ELSE 0
PaidOf(r) == IF r \in Settled THEN rows[r].actual ELSE 0
BeyondOf(r) ==
  IF r \notin Settled THEN 0 ELSE IF r \in uncovered THEN rows[r].actual ELSE overage[r]

HeldMap == [r \in Ids |-> HeldOf(r)]
PaidMap == [r \in Ids |-> PaidOf(r)]
BeyondMap == [r \in Ids |-> BeyondOf(r)]

LEMMA RowAmounts ==
  ASSUME TypeOK, NEW r \in Used
  PROVE  /\ HeldOf(r) \in Nat /\ PaidOf(r) \in Nat /\ BeyondOf(r) \in Nat
         /\ rows[r].reserved \in Nat
<1>1. r \in Ids /\ rows[r] \in Row
  BY UsedRow
<1>2. rows[r].reserved \in Costs /\ rows[r].actual \in Charges \cup {0}
  BY <1>1 DEF Row
<1>3. rows[r].reserved \in Nat /\ rows[r].actual \in Nat
  <2>1. Costs \subseteq Nat /\ Charges \subseteq Nat /\ 0 \in Nat
    BY BudgetLedgerAssumption
  <2> QED  BY <1>2, <2>1
<1>4. overage[r] \in Nat
  BY <1>1 DEF TypeOK
<1> QED  BY <1>3, <1>4 DEF HeldOf, PaidOf, BeyondOf

\* The sums of the specification are these.
LEMMA AccountsAre ==
  ASSUME TypeOK, NEW S \in SUBSET Used
  PROVE  /\ Reserved({r \in S : Counted(r)}) = SumFunctionOnSet(HeldMap, S)
         /\ Charged(S) = SumFunctionOnSet(PaidMap, S)
         /\ Excess(S) = SumFunctionOnSet(BeyondMap, S)
<1>1. /\ S \subseteq Ids /\ IsFiniteSet(S) /\ IsFiniteSet(S \cap Settled)
      /\ IsFiniteSet({r \in S : Counted(r)})
  <2>1. S \subseteq Ids
    BY DEF Used
  <2> QED BY <2>1, FS_Subset, BudgetLedgerAssumption
<1>2. \A r \in S : HeldOf(r) \in Nat /\ PaidOf(r) \in Nat /\ BeyondOf(r) \in Nat
  BY RowAmounts
<1>3. Reserved({r \in S : Counted(r)}) = SumFunctionOnSet(HeldMap, S)
  <2> DEFINE T == {r \in S : Counted(r)}
             f == [r \in T |-> rows[r].reserved]
             g == HeldMap
  <2>1. /\ Summable(f, T)
        /\ \A x \in T : g[x] = f[x]
        /\ \A x \in S \ T : g[x] = 0
    BY <1>1, <1>2 DEF Summable, HeldMap, HeldOf
  <2> HIDE DEF f, g
  <2>2. SumFunctionOnSet(g, S) = SumFunctionOnSet(f, T)
    BY <1>1, <2>1, SumRestrict
  <2> QED BY <2>2 DEF f, g, Reserved
<1>4. Charged(S) = SumFunctionOnSet(PaidMap, S)
  <2> DEFINE T == S \cap Settled
             f == [r \in T |-> rows[r].actual]
             g == PaidMap
  <2>1. /\ Summable(f, T)
        /\ \A x \in T : g[x] = f[x]
        /\ \A x \in S \ T : g[x] = 0
    BY <1>1, <1>2 DEF Summable, PaidMap, PaidOf
  <2> HIDE DEF f, g
  <2>2. SumFunctionOnSet(g, S) = SumFunctionOnSet(f, T)
    BY <1>1, <2>1, SumRestrict
  <2> QED BY <2>2 DEF f, g, Charged
<1>5. Excess(S) = SumFunctionOnSet(BeyondMap, S)
  <2> DEFINE T == S \cap Settled
             f == [r \in T |-> IF r \in uncovered THEN rows[r].actual ELSE overage[r]]
             g == BeyondMap
  <2>1. /\ Summable(f, T)
        /\ \A x \in T : g[x] = f[x]
        /\ \A x \in S \ T : g[x] = 0
    BY <1>1, <1>2 DEF Summable, BeyondMap, BeyondOf
  <2> HIDE DEF f, g
  <2>2. SumFunctionOnSet(g, S) = SumFunctionOnSet(f, T)
    BY <1>1, <2>1, SumRestrict
  <2> QED BY <2>2 DEF f, g, Excess
<1> QED BY <1>3, <1>4, <1>5

\* Every step reserves, charges, or is quiet: it moves no total and settles no
\* row.
Quiet ==
  /\ UNCHANGED <<totals, under, uncovered>>
  /\ \A x \in Ids : rows'[x] = rows[x] \/ Lapsed(x) \/ Extended(x) \/ Freed(x)

LEMMA StepKinds ==
  ASSUME TypeOK, Next
  PROVE  \/ Quiet
         \/ \E r \in Ids, s \in Scopes, cost \in Costs, t \in 0..MaxNow : Reserve(r, s, cost, t)
         \/ \E r \in granted, cost \in Charges : Charge(r, cost)
<1> USE DEF Quiet, answers, totals
<1>1. CASE Operate \/ \E t \in (now + 1)..MaxNow : Tick(t)
  BY <1>1 DEF Operate, Configure, ConfigureTenant, RetainTenants, Tick
<1>2. ASSUME NEW s \in Scopes, CheckAdmission(s)  PROVE  Quiet
  BY <1>2, SweepLapses DEF CheckAdmission, Lapsed
<1>3. ASSUME NEW at \in 0..now, SweepExpired(at)  PROVE  Quiet
  BY <1>3 DEF SweepExpired, Lapsed
<1>4. ASSUME NEW r \in granted, NEW cost \in Charges,
             \/ KeepOverflow(r, cost)
             \/ Settle(r, cost) \/ Replay(r, cost)
      PROVE  Quiet \/ Charge(r, cost)
  BY <1>4 DEF KeepOverflow, Settle, Replay
<1>5. ASSUME NEW r \in granted, NEW more \in 1..Ttl, Extend(r, more)  PROVE  Quiet
  <2>1. now + more \in Nat
    BY BudgetLedgerAssumption DEF TypeOK
  <2> QED  BY <1>5, <2>1 DEF Extend, Extended, TypeOK
<1>6. ASSUME NEW r \in granted, Release(r)  PROVE  Quiet
  BY <1>6 DEF Release, Freed, TypeOK
<1> QED  BY <1>1, <1>2, <1>3, <1>4, <1>5, <1>6 DEF Next, Admit, Finish

\* Where a row is accounted never changes, nor what was reserved by it.
LEMMA RowKept ==
  ASSUME TypeOK, Next, NEW r \in Used
  PROVE  /\ r \in Used' /\ rows'[r] \in Row
         /\ rows'[r].scope = rows[r].scope /\ rows'[r].period = rows[r].period
         /\ rows'[r].tenantPeriod = rows[r].tenantPeriod
         /\ rows'[r].reserved = rows[r].reserved
<1>1. r \in Ids /\ rows[r] \in Row
  BY UsedRow
<1>2. RowStep(r)
  BY <1>1, RowSteps
<1>3. r \in Used' /\ rows'[r] \in Row
  BY <1>1, <1>2, RowStepTyped DEF Used
<1>4. CASE Lapsed(r)
  BY <1>1, <1>3, <1>4, StatusChange DEF Lapsed, Lapse, Statuses
<1>5. CASE Extended(r)
  BY <1>1, <1>3, <1>5, ExtendedRow DEF Extended
<1>6. CASE Billed(r)
  <2>1. PICK cost \in Charges :
          rows'[r] = [rows[r] EXCEPT !.status = "settled", !.actual = cost]
    BY <1>6 DEF Billed
  <2> QED  BY <1>1, <1>3, <2>1, SettledRow DEF Row
<1>7. CASE Freed(r)
  BY <1>1, <1>3, <1>7, StatusChange DEF Freed, Statuses
<1> QED  BY <1>2, <1>3, <1>4, <1>5, <1>6, <1>7 DEF RowStep, Made

\* A row that is not billed holds no more than before, and is charged the same.
LEMMA QuietRow ==
  ASSUME TypeOK, Next, NEW r \in Used, UNCHANGED overage[r], r \in uncovered' <=> r \in uncovered,
         rows'[r] = rows[r] \/ Lapsed(r) \/ Extended(r) \/ Freed(r)
  PROVE  /\ HeldOf(r)' <= HeldOf(r)
         /\ PaidOf(r)' = PaidOf(r)
         /\ BeyondOf(r)' = BeyondOf(r)
<1>1. r \in Ids /\ rows[r] \in Row
  BY UsedRow
<1>2. HeldOf(r)' <= HeldOf(r)
  <2>1. HeldOf(r) \in Nat /\ rows[r].reserved \in Nat
    BY RowAmounts
  <2>2. rows'[r].reserved = rows[r].reserved
    BY RowKept
  <2>3. CASE Counted(r)'
    BY <2>1, <2>2, <2>3, CountedBefore DEF HeldOf
  <2>4. CASE ~ Counted(r)'
    BY <2>1, <2>4 DEF HeldOf
  <2> QED  BY <2>3, <2>4
<1>3. /\ r \in Settled' <=> r \in Settled
      /\ r \in Settled => rows'[r] = rows[r]
  <2>1. CASE rows'[r] = rows[r]
    BY <1>1, <2>1 DEF Settled
  <2>2. CASE Lapsed(r) \/ Extended(r) \/ Freed(r)
    <3>1. rows[r].status # "settled"
      BY <2>2 DEF Lapsed, Extended, Freed, Counted, CountedAt, Open
    <3>2. rows'[r].status # "settled"
      <4>1. CASE Lapsed(r)
        BY <1>1, <4>1, StatusChange DEF Lapsed, Lapse, Statuses
      <4>2. CASE Extended(r)
        BY <1>1, <3>1, <4>2, ExtendedRow DEF Extended
      <4>3. CASE Freed(r)
        BY <1>1, <4>3, StatusChange DEF Freed, Statuses
      <4> QED  BY <2>2, <4>1, <4>2, <4>3
    <3> QED  BY <3>1, <3>2 DEF Settled
  <2> QED  BY <2>1, <2>2
<1> QED  BY <1>2, <1>3 DEF PaidOf, BeyondOf

\* A charge takes the hold of its row away, charges it, and records how far it
\* went beyond the hold.
LEMMA ChargedRow ==
  ASSUME TypeOK, NEW r \in Used, NEW cost \in Charges, Charge(r, cost)
  PROVE  /\ cost \in Nat
         /\ HeldOf(r)' = 0
         /\ PaidOf(r)' = PaidOf(r) + cost
         /\ BeyondOf(r)' \in Nat /\ BeyondOf(r)' + HeldOf(r) >= BeyondOf(r) + cost
<1>1. r \in Ids /\ rows[r] \in Row
  BY UsedRow
<1>2. rows'[r].status = "settled" /\ rows'[r].actual = cost
  <2>1. rows'[r] = [rows[r] EXCEPT !.status = "settled", !.actual = cost]
    BY <1>1 DEF Charge, TypeOK
  <2> QED  BY <1>1, <2>1, SettledRow DEF Row
<1>3. r \notin Settled
  BY DEF Charge, Open, Settled
<1>4. r \in Settled' /\ ~ Counted(r)'
  BY <1>1, <1>2 DEF Settled, Counted, CountedAt
<1>5. overage'[r] = Over(cost, rows[r].reserved)
  BY <1>1 DEF Charge, TypeOK
<1>6. Counted(r) => (r \in uncovered' <=> r \in uncovered)
  BY DEF Charge
<1>7. ~ Counted(r) => r \in uncovered'
  BY DEF Charge
<1>8. cost \in Nat /\ rows[r].reserved \in Nat
  BY RowAmounts, BudgetLedgerAssumption
<1>9. HeldOf(r)' = 0 /\ PaidOf(r) = 0 /\ PaidOf(r)' = cost /\ BeyondOf(r) = 0
  BY <1>2, <1>3, <1>4 DEF HeldOf, PaidOf, BeyondOf
<1>10. BeyondOf(r)' = IF r \in uncovered' THEN cost ELSE Over(cost, rows[r].reserved)
  BY <1>2, <1>4, <1>5 DEF BeyondOf
<1>11. HeldOf(r) = IF Counted(r) THEN rows[r].reserved ELSE 0
  BY DEF HeldOf
<1>12. Over(cost, rows[r].reserved) \in Nat /\ Over(cost, rows[r].reserved) + rows[r].reserved >= cost
  BY <1>8 DEF Over
<1>13. BeyondOf(r)' \in Nat /\ BeyondOf(r)' + HeldOf(r) >= cost
  BY <1>7, <1>8, <1>10, <1>11, <1>12
<1> QED  BY <1>8, <1>9, <1>13

\* A new row holds at most what it reserves, and is charged nothing.
LEMMA ReservedRow ==
  ASSUME TypeOK, NEW r \in Ids, NEW s \in Scopes, NEW cost \in Costs, NEW t \in 0..MaxNow,
         Reserve(r, s, cost, t)
  PROVE  /\ cost \in Nat
         /\ HeldOf(r)' \in 0..cost /\ PaidOf(r)' = 0 /\ BeyondOf(r)' = 0
<1>1. rows'[r] = [status |-> "active", scope |-> s, period |-> PeriodNow(s),
                  tenantPeriod |-> TenantPeriodNow(s), reserved |-> cost, actual |-> 0,
                  created |-> now, expires |-> now + Ttl]
  BY DEF Reserve, Swept
<1>2. cost \in Nat
  BY BudgetLedgerAssumption
<1>3. r \notin Settled' /\ rows'[r].reserved = cost
  BY <1>1 DEF Settled
<1> QED  BY <1>2, <1>3 DEF HeldOf, PaidOf, BeyondOf

-----------------------------------------------------------------------------
(* The rows S of a scope's or the tenant's period, and the total kept for   *)
(* them: the total is what they were charged, and with what they hold it    *)
(* stays, but for what went beyond the holds, within every limit that is at *)
(* least the one each was admitted under.  It is stated of every such       *)
(* number, since the configured limit may be lowered and raised again.      *)

AccountsOk(S, dimension, total, h, p, b, u) ==
  /\ total = SumFunctionOnSet(p, S)
  /\ \A limit \in Nat :
       (\A r \in S : u[r][dimension] # NoConfig /\ u[r][dimension] <= limit) =>
         total + SumFunctionOnSet(h, S) <= limit + SumFunctionOnSet(b, S)

Balanced(S, dimension, total) ==
  AccountsOk(S, dimension, total, HeldMap, PaidMap, BeyondMap, under)
BalancedNext(S, dimension, total) ==
  AccountsOk(S, dimension, total, HeldMap', PaidMap', BeyondMap', under')

AccountsBalance ==
  /\ \A s \in Scopes, p \in Periods : Balanced(ScopeRows(s, p), "scope", spent[s, p])
  /\ \A p \in Periods : Balanced(TenantRows(p), "tenant", tenantSpent[p])

\* Numbers in a balance.
LEMMA MapsCount ==
  ASSUME TypeOK, NEW S \in SUBSET Used
  PROVE  /\ Countable(HeldMap, S) /\ Countable(PaidMap, S) /\ Countable(BeyondMap, S)
         /\ Summable(HeldMap, S) /\ Summable(PaidMap, S) /\ Summable(BeyondMap, S)
         /\ IsFiniteSet(S) /\ S \in SUBSET Ids
<1>1. S \subseteq Ids /\ IsFiniteSet(S)
  <2>1. S \subseteq Ids
    BY DEF Used
  <2> QED  BY <2>1, FS_Subset, BudgetLedgerAssumption
<1>2. \A r \in S : r \in Used
  OBVIOUS
<1>3. Countable(HeldMap, S) /\ Countable(PaidMap, S) /\ Countable(BeyondMap, S)
  BY <1>1, <1>2, RowAmounts DEF Countable, HeldMap, PaidMap, BeyondMap
<1> QED  BY <1>1, <1>3 DEF Countable, Summable

LEMMA NextAmounts ==
  ASSUME TypeOK, Next, NEW r \in Used'
  PROVE  /\ r \in Ids
         /\ HeldOf(r)' \in Nat /\ PaidOf(r)' \in Nat /\ BeyondOf(r)' \in Nat
<1>1. r \in Ids /\ rows'[r] \in Row /\ overage'[r] \in Nat
  BY TypeStep DEF TypeOK, Used, Unused
<1>2. rows'[r].reserved \in Costs /\ rows'[r].actual \in Charges \cup {0}
  BY <1>1 DEF Row
<1>3. rows'[r].reserved \in Nat /\ rows'[r].actual \in Nat
  <2>1. Costs \subseteq Nat /\ Charges \subseteq Nat /\ 0 \in Nat
    BY BudgetLedgerAssumption
  <2> QED  BY <1>2, <2>1
<1> QED  BY <1>1, <1>3 DEF HeldOf, PaidOf, BeyondOf

LEMMA MapsCountNext ==
  ASSUME TypeOK, Next, NEW S \in SUBSET Used'
  PROVE  /\ Summable(HeldMap', S) /\ Summable(PaidMap', S) /\ Summable(BeyondMap', S)
         /\ IsFiniteSet(S) /\ S \in SUBSET Ids
<1>1. S \subseteq Ids /\ IsFiniteSet(S)
  <2>1. S \subseteq Ids
    BY DEF Used
  <2> QED  BY <2>1, FS_Subset, BudgetLedgerAssumption
<1>2. \A r \in S : HeldOf(r)' \in Int /\ PaidOf(r)' \in Int /\ BeyondOf(r)' \in Int
  BY NextAmounts
<1> QED  BY <1>1, <1>2 DEF Summable, HeldMap, PaidMap, BeyondMap

\* No row of the group is billed.
QuietGroup(S) ==
  \A r \in S :
    /\ under'[r] = under[r]
    /\ HeldOf(r)' <= HeldOf(r) /\ PaidOf(r)' = PaidOf(r) /\ BeyondOf(r)' = BeyondOf(r)

LEMMA QuietSums ==
  ASSUME TypeOK, Next, NEW S \in SUBSET Used, QuietGroup(S)
  PROVE  /\ SumFunctionOnSet(HeldMap', S) <= SumFunctionOnSet(HeldMap, S)
         /\ SumFunctionOnSet(PaidMap', S) = SumFunctionOnSet(PaidMap, S)
         /\ SumFunctionOnSet(BeyondMap', S) = SumFunctionOnSet(BeyondMap, S)
<1>1. S \in SUBSET Used'
  BY RowKept
<1>2. /\ Summable(HeldMap, S) /\ Summable(PaidMap, S) /\ Summable(BeyondMap, S)
      /\ Summable(HeldMap', S) /\ S \in SUBSET Ids
  BY <1>1, MapsCount, MapsCountNext
<1>3. \A r \in S : /\ HeldMap'[r] <= HeldMap[r] /\ PaidMap[r] = PaidMap'[r]
                   /\ BeyondMap[r] = BeyondMap'[r]
  BY <1>2 DEF QuietGroup, HeldMap, PaidMap, BeyondMap
<1>4. SumFunctionOnSet(HeldMap', S) <= SumFunctionOnSet(HeldMap, S)
  BY <1>2, <1>3, SumMono
<1>5. SumFunctionOnSet(PaidMap, S) = SumFunctionOnSet(PaidMap', S)
  BY <1>2, <1>3, SumSame
<1>6. SumFunctionOnSet(BeyondMap, S) = SumFunctionOnSet(BeyondMap', S)
  BY <1>2, <1>3, SumSame
<1> QED  BY <1>4, <1>5, <1>6

LEMMA SumsAreNumbers ==
  ASSUME TypeOK, Next, NEW S \in SUBSET Used
  PROVE  /\ SumFunctionOnSet(HeldMap, S) \in Nat /\ SumFunctionOnSet(PaidMap, S) \in Nat
         /\ SumFunctionOnSet(BeyondMap, S) \in Nat
         /\ SumFunctionOnSet(HeldMap', S) \in Int /\ SumFunctionOnSet(BeyondMap', S) \in Int
<1>1. S \in SUBSET Used'
  BY RowKept
<1> QED  BY <1>1, MapsCount, MapsCountNext, SumNat, SumInt

LEMMA QuietBalance ==
  ASSUME TypeOK, Next, NEW S \in SUBSET Used, QuietGroup(S), NEW d, NEW total \in Nat,
         Balanced(S, d, total)
  PROVE  BalancedNext(S, d, total)
<1> DEFINE h == SumFunctionOnSet(HeldMap, S)
           b == SumFunctionOnSet(BeyondMap, S)
           hn == SumFunctionOnSet(HeldMap', S)
           bn == SumFunctionOnSet(BeyondMap', S)
<1>1. /\ hn <= h /\ bn = b
      /\ total = SumFunctionOnSet(PaidMap', S)
      /\ h \in Nat /\ hn \in Int /\ b \in Nat /\ bn \in Int
  BY QuietSums, SumsAreNumbers DEF Balanced, AccountsOk
<1>2. \A limit \in Nat : (\A r \in S : under[r][d] # NoConfig /\ under[r][d] <= limit) =>
        total + h <= limit + b
  BY DEF Balanced, AccountsOk
<1>3. \A limit \in Nat : (\A r \in S : under'[r][d] # NoConfig /\ under'[r][d] <= limit) =>
        total + hn <= limit + bn
  <2> HIDE DEF h, b, hn, bn
  <2> SUFFICES ASSUME NEW limit \in Nat,
                      \A r \in S : under'[r][d] # NoConfig /\ under'[r][d] <= limit
               PROVE  total + hn <= limit + bn
    OBVIOUS
  <2>1. total + h <= limit + b
    BY <1>2 DEF QuietGroup
  <2> QED  BY <1>1, <2>1
<1> QED  BY <1>1, <1>3 DEF BalancedNext, AccountsOk

\* One row of the group is charged, the others stay as they are.
LEMMA ChargedBalance ==
  ASSUME TypeOK, Next, NEW S \in SUBSET Used, NEW r \in S, QuietGroup(S \ {r}),
         under'[r] = under[r], NEW cost \in Charges, Charge(r, cost),
         NEW d, NEW total \in Nat, Balanced(S, d, total)
  PROVE  BalancedNext(S, d, total + cost)
<1> DEFINE h == SumFunctionOnSet(HeldMap, S)
           b == SumFunctionOnSet(BeyondMap, S)
           hn == SumFunctionOnSet(HeldMap', S)
           bn == SumFunctionOnSet(BeyondMap', S)
           extra == BeyondOf(r)' - BeyondOf(r)
<1>1. S \in SUBSET Used' /\ r \in Used
  BY RowKept
<1>2. /\ Summable(HeldMap, S) /\ Summable(PaidMap, S) /\ Summable(BeyondMap, S)
      /\ Summable(HeldMap', S) /\ S \in SUBSET Ids
  BY <1>1, MapsCount, MapsCountNext
<1>3. /\ cost \in Nat /\ HeldOf(r) \in Nat /\ BeyondOf(r) \in Nat /\ BeyondOf(r)' \in Nat
      /\ HeldOf(r)' = 0 /\ PaidOf(r)' = PaidOf(r) + cost
      /\ BeyondOf(r)' + HeldOf(r) >= BeyondOf(r) + cost
  BY <1>1, ChargedRow, RowAmounts
<1>4. /\ HeldMap'[r] <= HeldMap[r] + (-HeldOf(r))
      /\ PaidMap'[r] = PaidMap[r] + cost
      /\ BeyondMap'[r] = BeyondMap[r] + extra
      /\ -HeldOf(r) \in Int /\ extra \in Int
  BY <1>2, <1>3 DEF HeldMap, PaidMap, BeyondMap
<1>5. \A q \in S \ {r} : /\ HeldMap'[q] <= HeldMap[q] /\ PaidMap'[q] = PaidMap[q]
                         /\ BeyondMap'[q] = BeyondMap[q]
  BY <1>2 DEF QuietGroup, HeldMap, PaidMap, BeyondMap
<1>6. hn <= h + (-HeldOf(r))
  BY <1>2, <1>4, <1>5, SumStep
<1>7. SumFunctionOnSet(PaidMap', S) = SumFunctionOnSet(PaidMap, S) + cost
  BY <1>2, <1>3, <1>4, <1>5, SumChange
<1>8. bn = b + extra
  <2> HIDE DEF extra
  <2> QED  BY <1>2, <1>4, <1>5, SumChange
<1>9. h \in Nat /\ hn \in Int /\ b \in Nat /\ bn \in Int
  BY SumsAreNumbers
<1>10. \A limit \in Nat : (\A q \in S : under[q][d] # NoConfig /\ under[q][d] <= limit) =>
        total + h <= limit + b
  BY DEF Balanced, AccountsOk
<1>11. \A limit \in Nat : (\A q \in S : under'[q][d] # NoConfig /\ under'[q][d] <= limit) =>
        total + cost + hn <= limit + bn
  <2> SUFFICES ASSUME NEW limit \in Nat,
                      \A q \in S : under'[q][d] # NoConfig /\ under'[q][d] <= limit
               PROVE  total + cost + hn <= limit + bn
    OBVIOUS
  <2> HIDE DEF h, b, hn, bn
  <2>1. total + h <= limit + b
    BY <1>10 DEF QuietGroup
  <2> QED  BY <1>3, <1>6, <1>8, <1>9, <2>1
<1>12. total + cost = SumFunctionOnSet(PaidMap', S)
  BY <1>7 DEF Balanced, AccountsOk
<1> QED  BY <1>11, <1>12 DEF BalancedNext, AccountsOk

\* A row is reserved in the group, within every limit it was admitted under.
LEMMA GrownBalance ==
  ASSUME TypeOK, Next, NEW S \in SUBSET Used, QuietGroup(S),
         NEW r \in Used', r \notin S, NEW cost \in Nat, HeldOf(r)' \in 0..cost,
         PaidOf(r)' = 0, BeyondOf(r)' = 0,
         NEW d, NEW total \in Nat, Balanced(S, d, total),
         \/ cost = 0
         \/ under'[r][d] = NoConfig
         \/ /\ under'[r][d] \in Nat
            /\ total + SumFunctionOnSet(HeldMap, S) + cost <= under'[r][d]
  PROVE  BalancedNext(S \cup {r}, d, total)
<1> DEFINE h == SumFunctionOnSet(HeldMap, S)
           b == SumFunctionOnSet(BeyondMap, S)
           hn == SumFunctionOnSet(HeldMap', S)
           bn == SumFunctionOnSet(BeyondMap', S)
           hr == SumFunctionOnSet(HeldMap', S \cup {r})
           br == SumFunctionOnSet(BeyondMap', S \cup {r})
           held == HeldOf(r)'
<1>1. S \in SUBSET Used' /\ r \in Ids
  BY RowKept, NextAmounts
<1>2. Summable(HeldMap', S) /\ Summable(PaidMap', S) /\ Summable(BeyondMap', S)
  BY <1>1, MapsCountNext
<1>3. HeldMap'[r] = held /\ PaidMap'[r] = 0 /\ BeyondMap'[r] = 0 /\ held \in Int
  BY <1>1 DEF HeldMap, PaidMap, BeyondMap
<1>4. hr = held + hn
  <2> HIDE DEF held
  <2> QED  BY <1>2, <1>3, SumAdd
<1>5. SumFunctionOnSet(PaidMap', S \cup {r}) = 0 + SumFunctionOnSet(PaidMap', S)
  BY <1>2, <1>3, SumAdd
<1>6. br = 0 + bn
  BY <1>2, <1>3, SumAdd
<1>7. /\ hn <= h /\ bn = b
      /\ total = SumFunctionOnSet(PaidMap', S)
      /\ h \in Nat /\ hn \in Int /\ b \in Nat /\ bn \in Int
  BY QuietSums, SumsAreNumbers DEF Balanced, AccountsOk
<1>8. total = SumFunctionOnSet(PaidMap', S \cup {r})
  BY <1>5, <1>7
<1>9. \A limit \in Nat : (\A q \in S : under[q][d] # NoConfig /\ under[q][d] <= limit) =>
        total + h <= limit + b
  BY DEF Balanced, AccountsOk
<1>10. \A limit \in Nat :
        (\A q \in S \cup {r} : under'[q][d] # NoConfig /\ under'[q][d] <= limit) =>
          total + hr <= limit + br
  <2> SUFFICES ASSUME NEW limit \in Nat,
                      \A q \in S \cup {r} : under'[q][d] # NoConfig /\ under'[q][d] <= limit
               PROVE  total + hr <= limit + br
    OBVIOUS
  <2>1. under'[r][d] # NoConfig /\ under'[r][d] <= limit
    OBVIOUS
  <2>2. held \in 0..cost
    OBVIOUS
  <2>3. \/ cost = 0
        \/ under'[r][d] \in Nat /\ total + h + cost <= under'[r][d]
    BY <2>1
  <2>4. \A q \in S : under[q][d] # NoConfig /\ under[q][d] <= limit
    BY DEF QuietGroup
  <2> HIDE DEF h, b, hn, bn, hr, br, held
  <2>5. total + h <= limit + b
    BY <1>9, <2>4
  <2>6. CASE cost = 0
    BY <1>4, <1>6, <1>7, <2>2, <2>5, <2>6
  <2>7. CASE under'[r][d] \in Nat /\ total + h + cost <= under'[r][d]
    BY <1>4, <1>6, <1>7, <2>1, <2>2, <2>7
  <2> QED  BY <2>3, <2>6, <2>7
<1> QED  BY <1>8, <1>10 DEF BalancedNext, AccountsOk

\* Used rows stay in their groups; those of unused ids join none unless made.
LEMMA GroupsKept ==
  ASSUME TypeOK, Next, NEW r \in Used
  PROVE  /\ \A s \in Scopes, p \in Periods : r \in ScopeRows(s, p)' <=> r \in ScopeRows(s, p)
         /\ \A p \in Periods : r \in TenantRows(p)' <=> r \in TenantRows(p)
BY RowKept DEF ScopeRows, TenantRows

\* Where a step finds and leaves the balance of a group.
LEMMA BalanceNext ==
  /\ \A s \in Scopes, p \in Periods :
       Balanced(ScopeRows(s, p), "scope", spent[s, p])' =
       BalancedNext(ScopeRows(s, p)', "scope", spent'[s, p])
  /\ \A p \in Periods :
       Balanced(TenantRows(p), "tenant", tenantSpent[p])' =
       BalancedNext(TenantRows(p)', "tenant", tenantSpent'[p])
BY DEF Balanced, BalancedNext, AccountsOk

LEMMA TotalsAreNumbers ==
  ASSUME TypeOK
  PROVE  /\ \A s \in Scopes, p \in Periods : spent[s, p] \in Nat /\ ScopeRows(s, p) \in SUBSET Used
         /\ \A p \in Periods : tenantSpent[p] \in Nat /\ TenantRows(p) \in SUBSET Used
<1>1. MaxAmount \in Nat
  BY BudgetLedgerAssumption
<1>2. \A s \in Scopes, p \in Periods : spent[s, p] \in 0..MaxAmount
  BY DEF TypeOK
<1>3. \A p \in Periods : tenantSpent[p] \in 0..MaxAmount
  BY DEF TypeOK
<1>4. \A n \in 0..MaxAmount : n \in Nat
  BY <1>1
<1> QED  BY <1>2, <1>3, <1>4 DEF ScopeRows, TenantRows

LEMMA AccountsQuiet ==
  ASSUME TypeOK, Next, AccountsBalance, Quiet
  PROVE  AccountsBalance'
<1>1. Used' = Used
  <2>1. \A x \in Ids : x \notin Used => rows'[x] = rows[x]
    BY DEF Quiet, Used, Lapsed, Extended, Freed, Counted, CountedAt, Open
  <2> QED  BY <2>1, RowKept DEF Used
<1>2. UNCHANGED <<spent, tenantSpent, under, overage, uncovered>>
  BY DEF Quiet, totals
<1>3. \A x \in Used : QuietGroup({x})
  BY <1>2, QuietRow DEF QuietGroup, Quiet, Used
<1>4. ASSUME NEW s \in Scopes, NEW p \in Periods
      PROVE  BalancedNext(ScopeRows(s, p)', "scope", spent'[s, p])
  <2>1. ScopeRows(s, p)' = ScopeRows(s, p)
    BY <1>1, GroupsKept DEF ScopeRows
  <2>2. QuietGroup(ScopeRows(s, p)) /\ ScopeRows(s, p) \in SUBSET Used /\ spent[s, p] \in Nat
    BY <1>3, TotalsAreNumbers DEF QuietGroup
  <2> QED  BY <1>2, <2>1, <2>2, QuietBalance DEF AccountsBalance
<1>5. ASSUME NEW p \in Periods
      PROVE  BalancedNext(TenantRows(p)', "tenant", tenantSpent'[p])
  <2>1. TenantRows(p)' = TenantRows(p)
    BY <1>1, GroupsKept DEF TenantRows
  <2>2. QuietGroup(TenantRows(p)) /\ TenantRows(p) \in SUBSET Used /\ tenantSpent[p] \in Nat
    BY <1>3, TotalsAreNumbers DEF QuietGroup
  <2> QED  BY <1>2, <2>1, <2>2, QuietBalance DEF AccountsBalance
<1> QED  BY <1>4, <1>5, BalanceNext DEF AccountsBalance

LEMMA AccountsCharge ==
  ASSUME TypeOK, Next, AccountsBalance, NEW r \in granted, NEW cost \in Charges, Charge(r, cost)
  PROVE  AccountsBalance'
<1>1. r \in Used /\ r \in Ids /\ rows[r] \in Row
  BY UsedRow DEF TypeOK
<1>2. \A x \in Ids \ {r} : rows'[x] = rows[x] /\ overage'[x] = overage[x]
                           /\ (x \in uncovered' <=> x \in uncovered)
  BY DEF Charge, TypeOK
<1>3. under' = under
  BY DEF Charge
<1>4. Used' = Used
  BY <1>1, <1>2, RowKept DEF Used
<1>5. \A S \in SUBSET Used : QuietGroup(S \ {r})
  <2>1. \A x \in Used \ {r} : /\ HeldOf(x)' <= HeldOf(x) /\ PaidOf(x)' = PaidOf(x)
                              /\ BeyondOf(x)' = BeyondOf(x)
    BY <1>2, QuietRow DEF Used
  <2> QED  BY <1>3, <2>1 DEF QuietGroup
<1>6. rows[r].scope \in Scopes /\ rows[r].period \in Periods /\ rows[r].tenantPeriod \in Periods
  BY <1>1 DEF Row
<1>7. ASSUME NEW s \in Scopes, NEW p \in Periods
      PROVE  BalancedNext(ScopeRows(s, p)', "scope", spent'[s, p])
  <2>1. ScopeRows(s, p)' = ScopeRows(s, p)
    BY <1>4, GroupsKept DEF ScopeRows
  <2>2. ScopeRows(s, p) \in SUBSET Used /\ spent[s, p] \in Nat
    BY TotalsAreNumbers
  <2>3. Balanced(ScopeRows(s, p), "scope", spent[s, p])
    BY DEF AccountsBalance
  <2>4. CASE r \in ScopeRows(s, p)
    <3>1. spent'[s, p] = spent[s, p] + cost
      BY <1>6, <2>4 DEF ScopeRows, Charge, TypeOK
    <3> QED  BY <1>3, <1>5, <2>1, <2>2, <2>3, <2>4, <3>1, ChargedBalance
  <2>5. CASE r \notin ScopeRows(s, p)
    <3>1. spent'[s, p] = spent[s, p]
      <4>1. <<rows[r].scope, rows[r].period>> # <<s, p>>
        BY <1>1, <2>5 DEF ScopeRows
      <4> QED  BY <4>1 DEF Charge, TypeOK
    <3>2. ScopeRows(s, p) \ {r} = ScopeRows(s, p)
      BY <2>5
    <3>3. QuietGroup(ScopeRows(s, p))
      BY <1>5, <2>2, <3>2
    <3> QED  BY <2>1, <2>2, <2>3, <3>1, <3>3, QuietBalance
  <2> QED  BY <2>4, <2>5
<1>8. ASSUME NEW p \in Periods
      PROVE  BalancedNext(TenantRows(p)', "tenant", tenantSpent'[p])
  <2>1. TenantRows(p)' = TenantRows(p)
    BY <1>4, GroupsKept DEF TenantRows
  <2>2. TenantRows(p) \in SUBSET Used /\ tenantSpent[p] \in Nat
    BY TotalsAreNumbers
  <2>3. Balanced(TenantRows(p), "tenant", tenantSpent[p])
    BY DEF AccountsBalance
  <2>4. CASE r \in TenantRows(p)
    <3>1. tenantSpent'[p] = tenantSpent[p] + cost
      BY <1>6, <2>4 DEF TenantRows, Charge, TypeOK
    <3> QED  BY <1>3, <1>5, <2>1, <2>2, <2>3, <2>4, <3>1, ChargedBalance
  <2>5. CASE r \notin TenantRows(p)
    <3>1. tenantSpent'[p] = tenantSpent[p]
      BY <1>1, <2>5 DEF TenantRows, Charge, TypeOK
    <3>2. TenantRows(p) \ {r} = TenantRows(p)
      BY <2>5
    <3>3. QuietGroup(TenantRows(p))
      BY <1>5, <2>2, <3>2
    <3> QED  BY <2>1, <2>2, <2>3, <3>1, <3>3, QuietBalance
  <2> QED  BY <2>4, <2>5
<1> QED  BY <1>7, <1>8, BalanceNext DEF AccountsBalance

\* What an admission checks, of the group the row would join.
LEMMA AdmittedWithin ==
  ASSUME TypeOK, NEW r \in Ids, NEW s \in Scopes, NEW cost \in Costs, NEW t \in 0..MaxNow,
         Reserve(r, s, cost, t)
  PROVE  LET p == PeriodNow(s)
             tp == TenantPeriodNow(s)
         IN /\ \/ cost = 0
               \/ under'[r]["scope"] = NoConfig
               \/ /\ under'[r]["scope"] \in Nat
                  /\ spent[s, p] + SumFunctionOnSet(HeldMap, ScopeRows(s, p)) + cost
                       <= under'[r]["scope"]
            /\ \/ cost = 0
               \/ under'[r]["tenant"] = NoConfig
               \/ /\ under'[r]["tenant"] \in Nat
                  /\ tenantSpent[tp] + SumFunctionOnSet(HeldMap, TenantRows(tp)) + cost
                       <= under'[r]["tenant"]
<1> DEFINE p == PeriodNow(s)
           tp == TenantPeriodNow(s)
           sh == SumFunctionOnSet(HeldMap, ScopeRows(s, p))
           th == SumFunctionOnSet(HeldMap, TenantRows(tp))
<1>1. p \in Periods /\ tp \in Periods
  BY AdmissionPeriods DEF Reserve
<1>2. /\ spent[s, p] \in Nat /\ ScopeRows(s, p) \in SUBSET Used
      /\ tenantSpent[tp] \in Nat /\ TenantRows(tp) \in SUBSET Used
  BY <1>1, TotalsAreNumbers
<1>3. ScopeHeld(s, p) = sh /\ TenantHeld(tp) = th
  BY <1>2, AccountsAre DEF ScopeHeld, TenantHeld
<1>4. sh \in Nat /\ th \in Nat
  BY <1>2, MapsCount, SumNat
<1>5. under'[r] = [scope |-> LimitOf(scopeConfig[s]), tenant |-> LimitOf(tenantConfig)]
  BY DEF Reserve, TypeOK
<1>6. under'[r]["scope"] = LimitOf(scopeConfig[s]) /\ under'[r]["tenant"] = LimitOf(tenantConfig)
  BY <1>5
<1>7. /\ scopeConfig[s] # NoConfig => scopeConfig[s].limit \in Nat
      /\ tenantConfig # NoConfig => tenantConfig.limit \in Nat
  <2>1. Limits \subseteq Nat
    BY BudgetLedgerAssumption
  <2>2. /\ scopeConfig[s] # NoConfig => scopeConfig[s].limit \in Limits
        /\ tenantConfig # NoConfig => tenantConfig.limit \in Limits
    BY DEF TypeOK
  <2> QED  BY <2>1, <2>2
<1>8. cost \in Nat
  BY BudgetLedgerAssumption
<1>9. CASE cost = 0
  BY <1>9
<1>10. \A a, b, c, n \in Nat : ~ (c + (a + b) > n) => a + b + c <= n
  OBVIOUS
<1>11. CASE cost # 0
  <2>1. /\ scopeConfig[s] # NoConfig => ~ Exceeds(cost, scopeConfig[s].limit, spent[s, p] + sh)
        /\ tenantConfig # NoConfig => ~ Exceeds(cost, tenantConfig.limit, tenantSpent[tp] + th)
    BY <1>3, <1>11 DEF Reserve, Admissible
  <2>2. ASSUME scopeConfig[s] # NoConfig
        PROVE  under'[r]["scope"] \in Nat /\ spent[s, p] + sh + cost <= under'[r]["scope"]
    <3>1. under'[r]["scope"] = scopeConfig[s].limit
      BY <1>6, <2>2 DEF LimitOf
    <3>2. ~ (cost + (spent[s, p] + sh) > scopeConfig[s].limit)
      BY <1>11, <2>1, <2>2 DEF Exceeds
    <3>3. scopeConfig[s].limit \in Nat
      BY <1>7, <2>2
    <3> QED  BY <1>2, <1>4, <1>8, <1>10, <3>1, <3>2, <3>3
  <2>3. ASSUME tenantConfig # NoConfig
        PROVE  under'[r]["tenant"] \in Nat /\ tenantSpent[tp] + th + cost <= under'[r]["tenant"]
    <3>1. under'[r]["tenant"] = tenantConfig.limit
      BY <1>6, <2>3 DEF LimitOf
    <3>2. ~ (cost + (tenantSpent[tp] + th) > tenantConfig.limit)
      BY <1>11, <2>1, <2>3 DEF Exceeds
    <3>3. tenantConfig.limit \in Nat
      BY <1>7, <2>3
    <3> QED  BY <1>2, <1>4, <1>8, <1>10, <3>1, <3>2, <3>3
  <2>4. /\ scopeConfig[s] = NoConfig => under'[r]["scope"] = NoConfig
        /\ tenantConfig = NoConfig => under'[r]["tenant"] = NoConfig
    BY <1>6 DEF LimitOf
  <2> QED  BY <2>2, <2>3, <2>4
<1> QED  BY <1>9, <1>11

LEMMA AccountsReserve ==
  ASSUME TypeOK, Next, AccountsBalance, NEW r \in Ids, NEW s0 \in Scopes, NEW cost \in Costs,
         NEW t \in 0..MaxNow, Reserve(r, s0, cost, t)
  PROVE  AccountsBalance'
<1>1. r \notin Used /\ Made(r)
  BY ReserveRow DEF Reserve
<1>2. r \in Used'
  BY <1>1 DEF Made, Used
<1>3. /\ rows'[r].scope = s0 /\ rows'[r].period = PeriodNow(s0)
      /\ rows'[r].tenantPeriod = TenantPeriodNow(s0)
  BY DEF Reserve, Swept
<1>4. \A x \in Ids \ {r} : rows'[x] = rows[x] \/ Lapsed(x)
  <2>1. \A x \in Ids \ {r} : rows'[x] = Swept(s0)[x]
    BY DEF Reserve, Swept
  <2> QED  BY <2>1, SweepLapses DEF Lapsed
<1>5. Used' = Used \cup {r}
  <2>1. \A x \in Ids \ {r} : x \notin Used => x \notin Used'
    BY <1>4 DEF Used, Lapsed
  <2> QED  BY <1>2, <2>1, RowKept DEF Used
<1>6. /\ UNCHANGED <<spent, tenantSpent, overage, uncovered>>
      /\ \A x \in Used : under'[x] = under[x]
  BY <1>1 DEF Reserve, totals, answers, TypeOK, Used
<1>7. \A S \in SUBSET Used : QuietGroup(S)
  <2>1. \A x \in Used : x \in Ids \ {r}
    BY <1>1 DEF Used
  <2>2. \A x \in Used : /\ HeldOf(x)' <= HeldOf(x) /\ PaidOf(x)' = PaidOf(x)
                        /\ BeyondOf(x)' = BeyondOf(x)
    BY <1>4, <1>6, <2>1, QuietRow
  <2> QED  BY <1>6, <2>2 DEF QuietGroup
<1>8. /\ cost \in Nat /\ HeldOf(r)' \in 0..cost /\ PaidOf(r)' = 0 /\ BeyondOf(r)' = 0
  BY ReservedRow
<1>9. ASSUME NEW s \in Scopes, NEW p \in Periods
      PROVE  BalancedNext(ScopeRows(s, p)', "scope", spent'[s, p])
  <2>1. ScopeRows(s, p) \in SUBSET Used /\ spent[s, p] \in Nat
    BY TotalsAreNumbers
  <2>2. Balanced(ScopeRows(s, p), "scope", spent[s, p]) /\ QuietGroup(ScopeRows(s, p))
    BY <1>7, <2>1 DEF AccountsBalance
  <2>3. CASE s = s0 /\ p = PeriodNow(s0)
    <3>1. ScopeRows(s, p)' = ScopeRows(s, p) \cup {r}
      BY <1>2, <1>3, <1>5, <2>3, GroupsKept DEF ScopeRows
    <3>2. r \notin ScopeRows(s, p)
      BY <1>1 DEF ScopeRows
    <3>3. \/ cost = 0
          \/ under'[r]["scope"] = NoConfig
          \/ /\ under'[r]["scope"] \in Nat
             /\ spent[s, p] + SumFunctionOnSet(HeldMap, ScopeRows(s, p)) + cost
                  <= under'[r]["scope"]
      BY <2>3, AdmittedWithin
    <3> QED  BY <1>2, <1>6, <1>8, <2>1, <2>2, <3>1, <3>2, <3>3, GrownBalance
  <2>4. CASE ~ (s = s0 /\ p = PeriodNow(s0))
    <3>1. ScopeRows(s, p)' = ScopeRows(s, p)
      BY <1>3, <1>5, <2>4, GroupsKept DEF ScopeRows
    <3> QED  BY <1>6, <2>1, <2>2, <3>1, QuietBalance
  <2> QED  BY <2>3, <2>4
<1>10. ASSUME NEW p \in Periods
       PROVE  BalancedNext(TenantRows(p)', "tenant", tenantSpent'[p])
  <2>1. TenantRows(p) \in SUBSET Used /\ tenantSpent[p] \in Nat
    BY TotalsAreNumbers
  <2>2. Balanced(TenantRows(p), "tenant", tenantSpent[p]) /\ QuietGroup(TenantRows(p))
    BY <1>7, <2>1 DEF AccountsBalance
  <2>3. CASE p = TenantPeriodNow(s0)
    <3>1. TenantRows(p)' = TenantRows(p) \cup {r}
      BY <1>2, <1>3, <1>5, <2>3, GroupsKept DEF TenantRows
    <3>2. r \notin TenantRows(p)
      BY <1>1 DEF TenantRows
    <3>3. \/ cost = 0
          \/ under'[r]["tenant"] = NoConfig
          \/ /\ under'[r]["tenant"] \in Nat
             /\ tenantSpent[p] + SumFunctionOnSet(HeldMap, TenantRows(p)) + cost
                  <= under'[r]["tenant"]
      BY <2>3, AdmittedWithin
    <3> QED  BY <1>2, <1>6, <1>8, <2>1, <2>2, <3>1, <3>2, <3>3, GrownBalance
  <2>4. CASE p # TenantPeriodNow(s0)
    <3>1. TenantRows(p)' = TenantRows(p)
      BY <1>3, <1>5, <2>4, GroupsKept DEF TenantRows
    <3> QED  BY <1>6, <2>1, <2>2, <3>1, QuietBalance
  <2> QED  BY <2>3, <2>4
<1> QED  BY <1>9, <1>10, BalanceNext DEF AccountsBalance

LEMMA AccountsInv == Spec => []AccountsBalance
<1>1. Init => AccountsBalance
  <2> SUFFICES ASSUME Init  PROVE  AccountsBalance
    OBVIOUS
  <2>1. Used = {}
    BY DEF Init, Used, Unused
  <2>2. \A s \in Scopes, p \in Periods : ScopeRows(s, p) = {} /\ spent[s, p] = 0
    BY <2>1 DEF Init, ScopeRows
  <2>3. \A p \in Periods : TenantRows(p) = {} /\ tenantSpent[p] = 0
    BY <2>1 DEF Init, TenantRows
  <2>4. \A d : Balanced({}, d, 0)
    BY SumEmpty DEF Balanced, AccountsOk
  <2> QED  BY <2>2, <2>3, <2>4 DEF AccountsBalance
<1>2. TypeOK /\ AccountsBalance /\ [Next]_vars => AccountsBalance'
  <2>1. ASSUME AccountsBalance, UNCHANGED vars  PROVE  AccountsBalance'
    BY <2>1 DEF AccountsBalance, Balanced, HeldMap, PaidMap, BeyondMap, HeldOf, PaidOf, BeyondOf,
       Counted, CountedAt, Settled, ScopeRows, TenantRows, Used, vars, totals, answers
  <2> QED  BY <2>1, StepKinds, AccountsQuiet, AccountsReserve, AccountsCharge
<1> QED  BY <1>1, <1>2, Typed, PTL DEF Spec

\* Each total of a period is exactly what was settled in it, over every order of
\* settlements, kept overflows, releases and sweeps (settle, credit, sweep_expired).
THEOREM BooksAlwaysBalance == Spec => []BooksBalance
<1>1. TypeOK /\ AccountsBalance => BooksBalance
  BY AccountsAre, TotalsAreNumbers DEF AccountsBalance, Balanced, AccountsOk, BooksBalance
<1> QED  BY <1>1, Typed, AccountsInv, PTL

\* What a period has spent and still holds exceeds the limit its rows were
\* admitted under only by what was charged beyond the holds: no two concurrent
\* reservations get the same last unit (reserve, settle, the overage log).
THEOREM LimitsHold == Spec => []WithinLimits
<1>1. ASSUME TypeOK, AccountsBalance  PROVE  WithinLimits
  <2>1. /\ \A s \in Scopes : scopeConfig[s] # NoConfig => scopeConfig[s].limit \in Nat
        /\ tenantConfig # NoConfig => tenantConfig.limit \in Nat
    <3>1. Limits \subseteq Nat
      BY BudgetLedgerAssumption
    <3>2. /\ \A s \in Scopes : scopeConfig[s] # NoConfig => scopeConfig[s].limit \in Limits
          /\ tenantConfig # NoConfig => tenantConfig.limit \in Limits
      BY <1>1 DEF TypeOK
    <3> QED  BY <3>1, <3>2
  <2>2. ASSUME NEW s \in Scopes, NEW p \in Periods
        PROVE  Within(scopeConfig[s], ScopeRows(s, p), "scope", spent[s, p] + ScopeHeld(s, p))
    <3>1. Balanced(ScopeRows(s, p), "scope", spent[s, p])
      BY <1>1 DEF AccountsBalance
    <3>2. /\ ScopeHeld(s, p) = SumFunctionOnSet(HeldMap, ScopeRows(s, p))
          /\ Excess(ScopeRows(s, p)) = SumFunctionOnSet(BeyondMap, ScopeRows(s, p))
      BY <1>1, AccountsAre, TotalsAreNumbers DEF ScopeHeld
    <3> QED  BY <2>1, <3>1, <3>2 DEF Balanced, AccountsOk, Within, AdmittedUnder
  <2>3. ASSUME NEW p \in Periods
        PROVE  Within(tenantConfig, TenantRows(p), "tenant", tenantSpent[p] + TenantHeld(p))
    <3>1. Balanced(TenantRows(p), "tenant", tenantSpent[p])
      BY <1>1 DEF AccountsBalance
    <3>2. /\ TenantHeld(p) = SumFunctionOnSet(HeldMap, TenantRows(p))
          /\ Excess(TenantRows(p)) = SumFunctionOnSet(BeyondMap, TenantRows(p))
      BY <1>1, AccountsAre, TotalsAreNumbers DEF TenantHeld
    <3> QED  BY <2>1, <3>1, <3>2 DEF Balanced, AccountsOk, Within, AdmittedUnder
  <2> QED  BY <2>2, <2>3 DEF WithinLimits
<1> QED  BY <1>1, Typed, AccountsInv, PTL

-----------------------------------------------------------------------------
(* What the run checks, put together.                                      *)

\* The zones of a tenant agree, and the holds that count are where an
\* admission looks for them.
THEOREM HoldsVisibleHolds == Spec => []HoldsVisible
BY Typed, OneZonePerTenant, HoldsStayVisible, PTL DEF HoldsVisible

\* A lapsed hold stays lapsed, a charge that overflowed stays kept.
THEOREM NothingUndoneHolds == Spec => NothingUndone
BY LapsedHoldsStayLapsed, OverflowsHold, PTL DEF NothingUndone
=============================================================================
