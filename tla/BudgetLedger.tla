----------------------------- MODULE BudgetLedger -----------------------------
(***************************************************************************)
(* The budget ledger of one tenant                                         *)
(* (idoris-tenancy/src/budget/ledger.rs): reservations held against the    *)
(* limit of a (key, provider, model) scope and of the whole tenant, and    *)
(* the settled spend of each billing period.  Every write is one SQLite    *)
(* IMMEDIATE transaction, hence one step here, whichever thread or process *)
(* runs it.  configure and sweep_expired read the clock before they wait   *)
(* for the writer lock: such a step takes the instant `at` it was called,  *)
(* at or before the instant it runs.  reserve and extend read it under the *)
(* lock; settle uses it only for the late flag of its receipt, which is    *)
(* left out.                                                               *)
(*                                                                         *)
(* A caller may repeat any call on a reservation it was granted, at any    *)
(* time, from any thread.  A call that is refused changes nothing and is   *)
(* no step.  Amounts are minor units; MaxAmount stands for i64::MAX.       *)
(***************************************************************************)
EXTENDS FiniteSets, Functions

CONSTANTS
  Ids,          \* reservation ids (Uuid), each handed out once
  Scopes,       \* (key, provider, model) of the tenant
  Zones,        \* billing time zones
  Offset,       \* how far a zone's wall clock is ahead
  PeriodLength, \* instants of a billing period
  Ttl,          \* ttl_ms
  Limits,       \* limits an operator may configure
  Gates,        \* spend gates an operator may configure
  Costs,        \* estimates a caller may reserve
  Charges,      \* actual costs a caller may settle
  MaxAmount,    \* the largest total an i64 holds
  MaxNow,       \* bound: the clock stays in 0..MaxNow
  NoConfig      \* an absent configuration row

ASSUME BudgetLedgerAssumption ==
  /\ IsFiniteSet(Ids)
  /\ Offset \in [Zones -> Nat]
  /\ PeriodLength \in Nat \ {0} /\ Ttl \in Nat \ {0}
  /\ Limits \subseteq Nat /\ Costs \subseteq Nat /\ Charges \subseteq Nat
  /\ Gates \subseteq {"paid_only", "all"}
  /\ MaxAmount \in Nat /\ MaxNow \in Nat
  /\ NoConfig \notin [limit : Limits, zone : Zones]
  /\ NoConfig \notin [limit : Limits, zone : Zones, gate : Gates]
  /\ NoConfig \notin Limits

VARIABLES
  now,          \* the clock
  scopeConfig,  \* budget_config
  tenantConfig, \* tenant_config
  orphans,      \* history: holds that counted when their tenant was dropped
  rows,         \* reservations
  granted,      \* ids whose reserve call returned Ok: callers hold these
  spent,        \* budget_periods
  tenantSpent,  \* tenant_periods
  overage,      \* budget_overage_events: the overage logged for an id
  overflows,    \* budget_amount_overflows: the charge kept for an id
  under,        \* history: the limits a reservation was admitted under
  acked,        \* history: settlements answered Ok, with their amount
  freed,        \* history: releases answered Ok
  uncovered     \* history: ids settled when their hold no longer counted

config == <<scopeConfig, tenantConfig, orphans>>
totals == <<spent, tenantSpent, overage>>
answers == <<acked, freed, uncovered>>
vars == <<now, config, rows, granted, totals, overflows, under, answers>>

\* billing_period_key
PeriodAt(t, z) == (t + Offset[z]) \div PeriodLength
Periods == {PeriodAt(t, z) : t \in 0..MaxNow, z \in Zones}

Unused == [status |-> "unused"]
Used == {r \in Ids : rows[r].status # "unused"}
Settled == {r \in Ids : rows[r].status = "settled"}
Open(r) == rows[r].status \in {"active", "expired"}

\* A hold counts against the limits while active and before its deadline.
CountedAt(r, t) == rows[r].status = "active" /\ rows[r].expires > t
Counted(r) == CountedAt(r, now)

Reserved(S) == SumFunctionOnSet([r \in S |-> rows[r].reserved], S)
ScopeRows(s, p) == {r \in Used : rows[r].scope = s /\ rows[r].period = p}
TenantRows(p) == {r \in Used : rows[r].tenantPeriod = p}

\* active_reserved_for, tenant_active_reserved_for
ScopeHeld(s, p) == Reserved({r \in ScopeRows(s, p) : Counted(r)})
TenantHeld(p) == Reserved({r \in TenantRows(p) : Counted(r)})

-----------------------------------------------------------------------------
(* Configuration.                                                          *)

\* configure: the zone must agree with the tenant's and with every other
\* scope's, and may change only while this scope holds nothing.
Configure(s, limit, zone, at) ==
  /\ tenantConfig # NoConfig => tenantConfig.zone = zone
  /\ \A o \in Scopes \ {s} : scopeConfig[o] # NoConfig => scopeConfig[o].zone = zone
  /\ scopeConfig[s] # NoConfig /\ scopeConfig[s].zone # zone =>
       ~ \E r \in Used : rows[r].scope = s /\ CountedAt(r, at)
  /\ scopeConfig' = [scopeConfig EXCEPT ![s] = [limit |-> limit, zone |-> zone]]
  /\ UNCHANGED <<now, tenantConfig, orphans, rows, granted, totals, overflows, under, answers>>

\* configure_tenant: the same rules for the tenant's own row.
MutConfigureTenant(limit, zone, gate, at) ==
  /\ \A s \in Scopes : scopeConfig[s] # NoConfig => scopeConfig[s].zone = zone
  /\ tenantConfig' = [limit |-> limit, zone |-> zone, gate |-> gate]
  /\ UNCHANGED <<now, scopeConfig, orphans, rows, granted, totals, overflows, under, answers>>
ConfigureTenant(limit, zone, gate, at) ==
  /\ \A s \in Scopes : scopeConfig[s] # NoConfig => scopeConfig[s].zone = zone
  /\ tenantConfig # NoConfig /\ tenantConfig.zone # zone =>
       ~ \E r \in Used : CountedAt(r, at)
  /\ tenantConfig' = [limit |-> limit, zone |-> zone, gate |-> gate]
  /\ UNCHANGED <<now, scopeConfig, orphans, rows, granted, totals, overflows, under, answers>>

\* retain_tenants without this tenant: its configuration goes, its rows stay.
RetainTenants ==
  /\ tenantConfig # NoConfig \/ \E s \in Scopes : scopeConfig[s] # NoConfig
  /\ scopeConfig' = [s \in Scopes |-> NoConfig]
  /\ tenantConfig' = NoConfig
  /\ orphans' = orphans \cup {r \in Used : Counted(r)}
  /\ UNCHANGED <<now, rows, granted, totals, overflows, under, answers>>

-----------------------------------------------------------------------------
(* Admission.                                                              *)

Configured(s) == scopeConfig[s] # NoConfig \/ tenantConfig # NoConfig

\* A scope's period follows its own zone, the tenant's when it has none; the
\* tenant period prefers the tenant's.
PeriodNow(s) == PeriodAt(now, IF scopeConfig[s] # NoConfig THEN scopeConfig[s].zone
                                                           ELSE tenantConfig.zone)
TenantPeriodNow(s) == PeriodAt(now, IF tenantConfig # NoConfig THEN tenantConfig.zone
                                                               ELSE scopeConfig[s].zone)

Gate == IF tenantConfig # NoConfig THEN tenantConfig.gate ELSE "paid_only"

\* exceeds_limit.  Saturating the sum changes no answer: limits are i64 too.
Exceeds(cost, limit, committed) ==
  IF cost = 0 /\ Gate = "all" THEN committed >= limit
                              ELSE cost + committed > limit

MutAdmissible(s, cost) ==
  \/ Gate = "paid_only" /\ cost = 0
  \/ /\ scopeConfig[s] # NoConfig =>
          ~ Exceeds(cost, scopeConfig[s].limit, spent[s, PeriodNow(s)] + ScopeHeld(s, PeriodNow(s)))
     /\ tenantConfig # NoConfig =>
          ~ Exceeds(cost, tenantConfig.limit, tenantSpent[TenantPeriodNow(s)])
Admissible(s, cost) ==
  \/ Gate = "paid_only" /\ cost = 0
  \/ /\ scopeConfig[s] # NoConfig =>
          ~ Exceeds(cost, scopeConfig[s].limit,
                    spent[s, PeriodNow(s)] + ScopeHeld(s, PeriodNow(s)))
     /\ tenantConfig # NoConfig =>
          ~ Exceeds(cost, tenantConfig.limit,
                    tenantSpent[TenantPeriodNow(s)] + TenantHeld(TenantPeriodNow(s)))

Lapse(r) == [rows[r] EXCEPT !.status = "expired"]

\* sweep_expired_scope: the scope's lapsed rows of the current period.
Swept(s) == [r \in Ids |->
  IF r \in ScopeRows(s, PeriodNow(s)) /\ rows[r].status = "active" /\ ~ Counted(r)
  THEN Lapse(r) ELSE rows[r]]

LimitOf(c) == IF c # NoConfig THEN c.limit ELSE NoConfig

\* reserve.  t is when the commit has returned: if the deadline has passed by
\* then, the row stays but the caller gets an error and never learns its id.
\* A deadline found missed before the commit rolls back: only time passes.
Reserve(r, s, cost, t) ==
  /\ r \notin Used
  /\ overflows = {}
  /\ Configured(s)
  /\ Admissible(s, cost)
  /\ rows' = [Swept(s) EXCEPT ![r] =
       [status |-> "active", scope |-> s, period |-> PeriodNow(s),
        tenantPeriod |-> TenantPeriodNow(s), reserved |-> cost, actual |-> 0,
        created |-> now, expires |-> now + Ttl]]
  /\ granted' = IF t < now + Ttl THEN granted \cup {r} ELSE granted
  /\ under' = [under EXCEPT ![r] = [scope |-> LimitOf(scopeConfig[s]),
                                    tenant |-> LimitOf(tenantConfig)]]
  /\ now' = t
  /\ UNCHANGED <<config, totals, overflows, answers>>

\* check_admission, or a reserve refused for its amount: the sweep is kept.
CheckAdmission(s) ==
  /\ overflows = {}
  /\ Configured(s)
  /\ rows' = Swept(s)
  /\ UNCHANGED <<now, config, granted, totals, overflows, under, answers>>

SweepExpired(at) ==
  /\ rows' = [r \in Ids |-> IF rows[r].status = "active" /\ ~ CountedAt(r, at)
                            THEN Lapse(r) ELSE rows[r]]
  /\ UNCHANGED <<now, config, granted, totals, overflows, under, answers>>

-----------------------------------------------------------------------------
(* What a caller does with a reservation it was granted.                   *)

MutOverflowed(r) == FALSE
Overflowed(r) == \E o \in overflows : o.id = r

Fits(r, cost) ==
  /\ spent[rows[r].scope, rows[r].period] + cost <= MaxAmount
  /\ tenantSpent[rows[r].tenantPeriod] + cost <= MaxAmount

Over(cost, reserved) == IF cost > reserved THEN cost - reserved ELSE 0

\* settle, up to its commit: charge an open reservation, lapsed or not, to the
\* periods it was made in.
MutCharge(r, cost) ==
  /\ Open(r)
  /\ ~ Overflowed(r)
  /\ Fits(r, cost)
  /\ spent' = [spent EXCEPT ![<<rows[r].scope, rows[r].period>>] = @ + cost]
  /\ tenantSpent' = IF tenantConfig = NoConfig THEN tenantSpent
                    ELSE [tenantSpent EXCEPT ![rows[r].tenantPeriod] = @ + cost]
  /\ overage' = [overage EXCEPT ![r] = Over(cost, rows[r].reserved)]
  /\ rows' = [rows EXCEPT ![r] = [@ EXCEPT !.status = "settled", !.actual = cost]]
  /\ uncovered' = IF Counted(r) THEN uncovered ELSE uncovered \cup {r}
  /\ UNCHANGED <<now, config, granted, overflows, under, freed>>
Charge(r, cost) ==
  /\ Open(r)
  /\ ~ Overflowed(r)
  /\ Fits(r, cost)
  /\ spent' = [spent EXCEPT ![<<rows[r].scope, rows[r].period>>] = @ + cost]
  /\ tenantSpent' = [tenantSpent EXCEPT ![rows[r].tenantPeriod] = @ + cost]
  /\ overage' = [overage EXCEPT ![r] = Over(cost, rows[r].reserved)]
  /\ rows' = [rows EXCEPT ![r] = [@ EXCEPT !.status = "settled", !.actual = cost]]
  /\ uncovered' = IF Counted(r) THEN uncovered ELSE uncovered \cup {r}
  /\ UNCHANGED <<now, config, granted, overflows, under, freed>>

\* AmountOverflow: the exact charge is kept, neither total moves.
KeepOverflow(r, cost) ==
  /\ Open(r)
  /\ ~ Overflowed(r)
  /\ ~ Fits(r, cost)
  /\ overflows' = overflows \cup {[id |-> r, amount |-> cost]}
  /\ UNCHANGED <<now, config, rows, granted, totals, under, answers>>

\* settle: above four times the reserved amount the charge is committed and
\* the caller gets OverageTooLarge instead of a receipt.
Settle(r, cost) ==
  /\ Charge(r, cost)
  /\ acked' = IF cost <= 4 * rows[r].reserved THEN acked \cup {<<r, cost>>} ELSE acked

\* replay_settlement: OverageTooLarge counts as done, and so does a row that
\* is settled already for this very amount.  (The check that follows a refused
\* settle reads a final row: it needs no step of its own.)
Replay(r, cost) ==
  /\ \/ Charge(r, cost)
     \/ /\ rows[r].status = "settled"
        /\ rows[r].actual = cost
        /\ UNCHANGED <<now, config, rows, granted, totals, overflows, under,
                       freed, uncovered>>
  /\ acked' = acked \cup {<<r, cost>>}

\* extend: an active, unexpired hold, up to four times the ttl in all.
Extend(r, more) ==
  /\ Counted(r)
  /\ now + more <= rows[r].created + 4 * Ttl
  /\ rows' = [rows EXCEPT ![r] = [@ EXCEPT !.expires = now + more]]
  /\ UNCHANGED <<now, config, granted, totals, overflows, under, answers>>

\* release: an expired row too becomes released, so no late settle charges it.
MutRelease(r) ==
  /\ \/ Open(r) /\ ~ Overflowed(r)
     \/ rows[r].status = "released"
  /\ rows' = IF rows[r].status = "expired" THEN rows
             ELSE [rows EXCEPT ![r] = [@ EXCEPT !.status = "released"]]
  /\ freed' = freed \cup {r}
  /\ UNCHANGED <<now, config, granted, totals, overflows, under, acked, uncovered>>
Release(r) ==
  /\ \/ Open(r) /\ ~ Overflowed(r)
     \/ rows[r].status = "released"
  /\ rows' = [rows EXCEPT ![r] = [@ EXCEPT !.status = "released"]]
  /\ freed' = freed \cup {r}
  /\ UNCHANGED <<now, config, granted, totals, overflows, under, acked, uncovered>>

-----------------------------------------------------------------------------

Tick(t) ==
  /\ now' = t
  /\ UNCHANGED <<config, rows, granted, totals, overflows, under, answers>>

Init ==
  /\ now = 0
  /\ scopeConfig = [s \in Scopes |-> NoConfig]
  /\ tenantConfig = NoConfig
  /\ orphans = {}
  /\ rows = [r \in Ids |-> Unused]
  /\ granted = {}
  /\ spent = [sp \in Scopes \X Periods |-> 0]
  /\ tenantSpent = [p \in Periods |-> 0]
  /\ overage = [r \in Ids |-> 0]
  /\ overflows = {}
  /\ under = [r \in Ids |-> [scope |-> NoConfig, tenant |-> NoConfig]]
  /\ acked = {} /\ freed = {} /\ uncovered = {}

Operate ==
  \/ \E at \in 0..now, limit \in Limits, zone \in Zones :
       \/ \E s \in Scopes : Configure(s, limit, zone, at)
       \/ \E gate \in Gates : ConfigureTenant(limit, zone, gate, at)
  \/ RetainTenants

Admit ==
  \E s \in Scopes :
    \/ CheckAdmission(s)
    \* Any other instant is one of these followed by a Tick.
    \/ \E r \in Ids, cost \in Costs, t \in {now, now + Ttl} \cap 0..MaxNow :
         Reserve(r, s, cost, t)

Finish ==
  \E r \in granted :
    \/ \E cost \in Charges : KeepOverflow(r, cost) \/ Settle(r, cost) \/ Replay(r, cost)
    \/ \E more \in 1..Ttl : Extend(r, more)
    \/ Release(r)

Next ==
  \/ Operate
  \/ Admit
  \/ Finish
  \/ \E at \in 0..now : SweepExpired(at)
  \/ \E t \in (now + 1)..MaxNow : Tick(t)

Spec == Init /\ [][Next]_vars

-----------------------------------------------------------------------------
(* Properties.                                                             *)

Row == [status : {"active", "expired", "settled", "released"}, scope : Scopes,
        period : Periods, tenantPeriod : Periods, reserved : Costs,
        actual : Charges \cup {0}, created : 0..MaxNow, expires : Nat]

\* Types: a row exists for every id handed out, and totals stay in range.
TypeOK ==
  /\ now \in 0..MaxNow
  /\ scopeConfig \in [Scopes -> [limit : Limits, zone : Zones] \cup {NoConfig}]
  /\ tenantConfig \in [limit : Limits, zone : Zones, gate : Gates] \cup {NoConfig}
  /\ orphans \subseteq Used
  /\ rows \in [Ids -> Row \cup {Unused}]
  /\ granted \subseteq Used
  /\ spent \in [Scopes \X Periods -> 0..MaxAmount]
  /\ tenantSpent \in [Periods -> 0..MaxAmount]
  /\ overage \in [Ids -> Nat]
  /\ overflows \subseteq [id : granted, amount : Charges]
  /\ under \in [Ids -> [scope : Limits \cup {NoConfig}, tenant : Limits \cup {NoConfig}]]
  /\ acked \subseteq granted \X Charges
  /\ freed \subseteq granted /\ uncovered \subseteq granted

Charged(S) ==
  LET settled == S \cap Settled
  IN SumFunctionOnSet([r \in settled |-> rows[r].actual], settled)

\* Both totals of a period are exactly the charges settled in it: no charge is
\* lost, doubled or booked in one total only, whether the tenant's limit was
\* configured before, after or never (settle credits both unconditionally).
BooksBalance ==
  /\ \A s \in Scopes, p \in Periods : spent[s, p] = Charged(ScopeRows(s, p))
  /\ \A p \in Periods : tenantSpent[p] = Charged(TenantRows(p))

\* What the settled rows of S cost beyond what was held for them: the logged
\* overage, and the whole charge when the hold had lapsed before settle ran.
Excess(S) ==
  LET settled == S \cap Settled
  IN SumFunctionOnSet([r \in settled |-> IF r \in uncovered THEN rows[r].actual
                                                           ELSE overage[r]], settled)

AdmittedUnder(S, dimension, limit) ==
  \A r \in S : under[r][dimension] # NoConfig /\ under[r][dimension] <= limit

Within(c, S, dimension, committed) ==
  c # NoConfig /\ AdmittedUnder(S, dimension, c.limit) =>
    committed <= c.limit + Excess(S)

\* Concurrent callers never share the last unit of a budget (reserve's check
\* and deduction are one transaction): what a period has spent and still holds
\* exceeds the limit its rows were admitted under only by overages that were
\* logged and by charges that came after their hold had lapsed.
WithinLimits ==
  /\ \A s \in Scopes, p \in Periods :
       Within(scopeConfig[s], ScopeRows(s, p), "scope", spent[s, p] + ScopeHeld(s, p))
  /\ \A p \in Periods :
       Within(tenantConfig, TenantRows(p), "tenant", tenantSpent[p] + TenantHeld(p))

\* An answer a caller was given stands: a settlement answered Ok is charged,
\* for exactly that amount, whatever is retried with another amount or raced;
\* a release answered Ok is never charged (settle refuses released rows).
AnswersStand ==
  /\ \A a \in acked : rows[a[1]].status = "settled" /\ rows[a[1]].actual = a[2]
  /\ \A r \in freed : rows[r].status = "released"

\* Every configured zone of the tenant is the same (B-2), whatever the order of
\* configure, configure_tenant and retain_tenants.
Configs == ({tenantConfig} \cup {scopeConfig[s] : s \in Scopes}) \ {NoConfig}
ZonesAgree == \A c, d \in Configs : c.zone = d.zone

\* A hold that counts lies in the periods its tenant's present zone assigns to
\* the instant it was made (L2: a zone does not change under active holds), so
\* an admission in that zone sees it.  Only a hold whose tenant was dropped
\* from the configuration meanwhile may be left behind in another zone.
HeldInPresentZone ==
  \A r \in Used \ orphans : Counted(r) =>
    /\ scopeConfig[rows[r].scope] # NoConfig =>
         rows[r].period = PeriodAt(rows[r].created, scopeConfig[rows[r].scope].zone)
    /\ tenantConfig # NoConfig =>
         rows[r].tenantPeriod = PeriodAt(rows[r].created, tenantConfig.zone)

\* A hold that stopped counting never counts again: another reserve may have
\* been given its amount (extend refuses a lapsed row, swept or not).
NeverResurrected ==
  [][\A r \in Used : ~ Counted(r) => ~ Counted(r)']_vars

\* A charge too large for its totals is kept, unaltered, out of reach of release
\* and of a settle with another amount, and the tenant reserves nothing more.
OverflowHolds ==
  [][overflows # {} =>
       /\ overflows \subseteq overflows'
       /\ Used' = Used
       /\ \A o \in overflows : Open(o.id)']_vars
\* ledger.rs:326-490: the zones of a tenant agree through every order of
\* configure, configure_tenant and retain_tenants, and so the holds that count
\* are where an admission looks for them.
HoldsVisible == TypeOK /\ ZonesAgree /\ HeldInPresentZone

\* Time and late callers undo nothing: a lapsed hold stays lapsed (extend), a
\* charge that overflowed stays kept (settle).
NothingUndone == NeverResurrected /\ OverflowHolds
=============================================================================
