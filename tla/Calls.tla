-------------------------------- MODULE Calls --------------------------------
(***************************************************************************)
(* One buffered chat call from its first event to its usage record: the    *)
(* handler and its middleware (idoris-router/src/lib.rs), the budget of a  *)
(* proxied call (proxy_budget.rs), the guard that owns a reservation and   *)
(* the local execution path (dispatch.rs).                                 *)
(*                                                                         *)
(* A call is a future: at each of its awaits the client may go away, which *)
(* runs the Drop of what it holds and nothing else.  An append to the      *)
(* event log runs on a thread of its own and may still happen then.  Every *)
(* write to the ledger or the log may fail; a crash loses every guard but  *)
(* no row.  Proxied calls of one key share a flight (module Flights), here *)
(* reduced to who leads it and what it shows.  What the ledger does with   *)
(* a row is module BudgetLedger's.                                         *)
(***************************************************************************)
EXTENDS Integers

CONSTANTS
  Requests,
  Keys,      \* idempotency keys of proxied calls
  NoKey,     \* a call without X-iDoris-Request-Id
  Estimates, \* what a candidate is estimated to cost; 0 is free
  Bills,     \* what an execution may turn out to cost
  NoBill,    \* no price for the usage, or no settlement
  Nobody

ASSUME CallsAssumption ==
  /\ Estimates \subseteq Nat /\ Bills \subseteq Nat
  /\ NoBill \notin Nat
  /\ NoKey \notin Keys
  /\ Nobody \notin Requests

VARIABLES
  wired, \* whether a budget ledger is configured
  call,  \* the state of the handler, and what it knows
  row,   \* the ledger's row of the call's reservation
  log,   \* the events appended for the call
  usage, \* the cost in the usage record written for the call
  lead,  \* the call that holds the flight of a key
  shown  \* the outcome the flight of a key shows to the others

flights == <<lead, shown>>
vars == <<wired, call, row, log, usage, flights>>

\* guard: whether a ReservationGuard holds the row's id, and if it releases it
\* when dropped.  ran: what is known of the execution (history).  failed: a
\* ledger write of this call failed (history).
Fresh == [phase |-> "new", route |-> "none", key |-> NoKey, est |-> 0,
          guard |-> "none", ran |-> "no", answer |-> "none", replay |-> FALSE,
          bill |-> NoBill, failed |-> FALSE]

NoRow == [status |-> "none", amount |-> 0]
Active(est) == [status |-> "active", amount |-> est]
Released(w) == [w EXCEPT !.status = "released"]
Charged(bill) == [status |-> "settled", amount |-> bill]

Paid(r) == call[r].est > 0

\* The event that is being appended while a call is in this phase.
Appending == [receiving   |-> "request_received", inspecting |-> "inspected",
              profiling   |-> "profiled",         deciding   |-> "decided",
              reserving   |-> "budget_reserved",  dispatching |-> "dispatched",
              settling    |-> "budget_settled",   finalizing |-> "audit_finalized"]

Event(r) ==
  IF call[r].phase = "completing"
  THEN IF call[r].answer = "ok" THEN "completed_success" ELSE "completed_failure"
  ELSE Appending[call[r].phase]

Logging == (DOMAIN Appending) \cup {"completing"}
Awaiting == Logging \cup {"waiting", "preparing", "sending", "chatting", "recording"}
Over == {"done", "gone", "crashed"}

\* The key of a flight names the provider too: one that is paid, or free.
Slots == Keys \X BOOLEAN
Slot(r) == <<call[r].key, Paid(r)>>
Leads(r) == Slot(r) \in Slots /\ lead[Slot(r)] = r

Init ==
  /\ wired \in BOOLEAN
  /\ call = [r \in Requests |-> Fresh]
  /\ row = [r \in Requests |-> NoRow]
  /\ log = [r \in Requests |-> {}]
  /\ usage = [r \in Requests |-> NoBill]
  /\ lead = [k \in Slots |-> Nobody]
  /\ shown = [k \in Slots |-> "none"]

-----------------------------------------------------------------------------
(* Guards and answers.                                                     *)

\* Drop of a ReservationGuard; the release may fail, unnoticed.
Drop(r, c, ok) ==
  /\ call' = [call EXCEPT ![r] = [c EXCEPT !.guard = "none",
                 !.failed = @ \/ (c.guard = "drop" /\ ~ok)]]
  /\ row' = [row EXCEPT ![r] = IF c.guard = "drop" /\ ok THEN Released(@) ELSE @]

\* The handler returns: its guards are dropped, the audit event comes next.
Respond(r, c, answer) ==
  \E ok \in BOOLEAN :
    Drop(r, [c EXCEPT !.phase = "finalizing", !.answer = answer], ok)

\* release_now: the id is given up even when the release fails.
ReleaseNow(r, ok) ==
  row' = [row EXCEPT ![r] = IF call[r].guard # "none" /\ ok THEN Released(@) ELSE @]

Logged(r) == log' = [log EXCEPT ![r] = @ \cup {Event(r)}]

\* The flight r leads shows this to the calls that wait for it.
Show(r, outcome) ==
  IF ~Leads(r) THEN UNCHANGED flights
  ELSE /\ lead' = [lead EXCEPT ![Slot(r)] = Nobody]
       /\ shown' = [shown EXCEPT ![Slot(r)] = outcome]

-----------------------------------------------------------------------------
(* Before the candidate runs.                                              *)

\* An authenticated request that passed validation.
Receive(r, k) ==
  /\ call[r].phase = "new"
  /\ call' = [call EXCEPT ![r].phase = "receiving", ![r].key = k]
  /\ UNCHANGED <<wired, row, log, usage, flights>>

AfterNote == [receiving |-> "inspecting", inspecting |-> "profiling", profiling |-> "deciding"]

\* request_received, inspected and profiled are in the log.
Noted(r) ==
  /\ call[r].phase \in DOMAIN AfterNote
  /\ Logged(r)
  /\ call' = [call EXCEPT ![r].phase = AfterNote[@]]
  /\ UNCHANGED <<wired, row, usage, flights>>

\* decided is in the log: no candidate, or one that is proxied or runs here.
Decided(r) ==
  /\ call[r].phase = "deciding"
  /\ Logged(r)
  /\ \/ Respond(r, call[r], "error")
     \/ \E route \in {"proxy", "local"}, est \in Estimates :
          /\ call' = [call EXCEPT ![r].phase = "routed", ![r].route = route, ![r].est = est]
          /\ UNCHANGED row
  /\ UNCHANGED <<wired, usage, flights>>

\* The ledger refuses (limits, spend gate, not configured), or there is none
\* and the candidate is paid; or paid streaming, or a supervisor that is bound
\* to another card; or a field the candidate cannot serve.
TurnedDown(r) ==
  /\ call[r].phase = "routed"
  /\ Respond(r, call[r], "error")
  /\ UNCHANGED <<wired, log, usage, flights>>

\* ProxyBudget::new: a paid call only asks for admission, its row is made when
\* it leads.  Local calls and free ones hold a row from here on, if there is a
\* ledger.
Admit(r) ==
  LET holds == wired /\ (call[r].route = "local" \/ ~Paid(r)) IN
  /\ call[r].phase = "routed"
  /\ Paid(r) => wired
  /\ call' = [call EXCEPT
       ![r].guard = IF holds THEN "drop" ELSE "none",
       ![r].phase = CASE call[r].route = "proxy" -> "waiting"
                      [] call[r].route = "local" /\ Paid(r) -> "reserving"
                      [] OTHER -> "preparing"]
  /\ row' = [row EXCEPT ![r] = IF holds THEN Active(call[r].est) ELSE @]
  /\ UNCHANGED <<wired, log, usage, flights>>

-----------------------------------------------------------------------------
(* The proxied call: its flight and its observer.                          *)

MayLead(r) == Slot(r) \in Slots => (lead[Slot(r)] = Nobody /\ shown[Slot(r)] = "none")

\* What another call of the key made of it is replayed.
Replayed(r) ==
  /\ call[r].phase = "waiting" /\ Slot(r) \in Slots
  /\ lead[Slot(r)] = Nobody /\ shown[Slot(r)] # "none"
  /\ Respond(r, [call[r] EXCEPT !.replay = TRUE], shown[Slot(r)])
  /\ UNCHANGED <<wired, log, usage, flights>>

\* A closed gate, a full registry or another body under the same key.
NotForwarded(r) ==
  /\ call[r].phase = "waiting"
  /\ Respond(r, call[r], "error")
  /\ UNCHANGED <<wired, log, usage, flights>>

\* r leads.  prepare_for_post makes the row of a paid call ...
Lead(r) ==
  /\ call[r].phase = "waiting" /\ MayLead(r)
  /\ lead' = IF Slot(r) \in Slots THEN [lead EXCEPT ![Slot(r)] = r] ELSE lead
  /\ IF Paid(r)
     THEN /\ row' = [row EXCEPT ![r] = Active(call[r].est)]
          /\ call' = [call EXCEPT ![r].phase = "reserving", ![r].guard = "drop"]
     ELSE /\ call' = [call EXCEPT ![r].phase = "dispatching"]
          /\ UNCHANGED row
  /\ UNCHANGED <<wired, log, usage, shown>>

\* ... unless the ledger refuses now: the observer fails, nothing is sent.
LeadRefused(r) ==
  /\ call[r].phase = "waiting" /\ MayLead(r) /\ Paid(r)
  /\ Respond(r, call[r], "error")
  /\ UNCHANGED <<wired, log, usage, flights>>

\* budget_reserved is in the log.
Reserved(r) ==
  /\ call[r].phase = "reserving"
  /\ Logged(r)
  /\ call' = [call EXCEPT ![r].phase =
                IF call[r].route = "proxy" THEN "dispatching" ELSE "preparing"]
  /\ UNCHANGED <<wired, row, usage, flights>>

\* dispatched is in the log: a paid POST is armed, its row is kept from now on
\* whatever becomes of the future.
MutDispatched(r) ==
  /\ call[r].phase = "dispatching"
  /\ Logged(r)
  /\ call' = [call EXCEPT
       ![r].phase = IF call[r].route = "proxy" THEN "sending" ELSE "chatting"]
  /\ UNCHANGED <<wired, row, usage, flights>>
Dispatched(r) ==
  /\ call[r].phase = "dispatching"
  /\ Logged(r)
  /\ call' = [call EXCEPT
       ![r].phase = IF call[r].route = "proxy" THEN "sending" ELSE "chatting",
       ![r].guard = IF call[r].route = "proxy" /\ Paid(r) THEN "keep" ELSE @]
  /\ UNCHANGED <<wired, row, usage, flights>>

\* One of the two appends failed: nothing runs.  The proxy releases and lets
\* the next call of the key lead.
MutPreludeFailed(r) ==
  /\ call[r].phase = "dispatching"
  /\ call' = [call EXCEPT
       ![r].phase = IF call[r].route = "proxy" THEN "sending" ELSE "chatting",
       ![r].guard = IF call[r].route = "proxy" /\ Paid(r) THEN "keep" ELSE @]
  /\ UNCHANGED <<wired, row, log, usage, flights>>
PreludeFailed(r) ==
  /\ call[r].phase \in {"reserving", "dispatching"}
  /\ Respond(r, call[r], "error")
  /\ Show(r, "none")
  /\ UNCHANGED <<wired, log, usage>>

-----------------------------------------------------------------------------
(* The POST.  A paid call is finished (ProxyBudget::finish) and its flight *)
(* published before it appends completed; a free one appends it before its *)
(* flight is published, and keeps its empty row to the end.                *)

MayPublish(r, outcome) == IF Paid(r) THEN Show(r, outcome) ELSE UNCHANGED flights

\* No connection was made, or a complete answer outside 2xx: release_unsent.
MutNotExecuted(r) ==
  /\ call[r].phase = "sending"
  /\ call' = [call EXCEPT ![r].phase = "completing", ![r].answer = "error",
                          ![r].guard = IF Paid(r) THEN "none" ELSE @]
  /\ MayPublish(r, "error")
  /\ UNCHANGED <<wired, row, log, usage>>
NotExecuted(r) ==
  /\ call[r].phase = "sending"
  /\ IF Paid(r)
     THEN \E ok \in BOOLEAN :
            /\ ReleaseNow(r, ok)
            /\ call' = [call EXCEPT
                 ![r].phase = IF ok THEN "completing" ELSE "finalizing",
                 ![r].answer = "error", ![r].guard = "none", ![r].failed = @ \/ ~ok]
     ELSE /\ call' = [call EXCEPT ![r].phase = "completing", ![r].answer = "error"]
          /\ UNCHANGED row
  /\ MayPublish(r, "error")
  /\ UNCHANGED <<wired, log, usage>>

\* A timeout, a body cut short, 3xx, 408, 5xx, no usage in a paid 2xx: the row
\* is kept until it lapses (retain_until_expiry).
InDoubt(r) ==
  /\ call[r].phase = "sending"
  /\ call' = [call EXCEPT ![r].phase = "completing", ![r].answer = "error",
                          ![r].guard = IF Paid(r) THEN "none" ELSE @,
                          ![r].ran = "maybe"]
  /\ MayPublish(r, "error")
  /\ UNCHANGED <<wired, row, log, usage>>

\* A 2xx of a paid call passes only when it is settled for its usage.
MutSettled(r) ==
  /\ call[r].phase = "sending" /\ Paid(r)
  /\ \E bill \in Bills :
       /\ call' = [call EXCEPT ![r].phase = "completing", ![r].answer = "ok",
                     ![r].guard = "none", ![r].ran = "yes", ![r].bill = bill]
       /\ \/ row' = [row EXCEPT ![r] = Charged(bill)]
          \/ UNCHANGED row
  /\ MayPublish(r, "ok")
  /\ UNCHANGED <<wired, log, usage>>
Settled(r) ==
  /\ call[r].phase = "sending" /\ Paid(r)
  /\ \E bill \in Bills :
       /\ row' = [row EXCEPT ![r] = Charged(bill)]
       /\ call' = [call EXCEPT ![r].phase = "completing", ![r].answer = "ok",
                     ![r].guard = "none", ![r].ran = "yes", ![r].bill = bill]
  /\ MayPublish(r, "ok")
  /\ UNCHANGED <<wired, log, usage>>

\* Its usage has no price, or the settlement failed: an error for the caller,
\* the row is kept.
Unsettled(r) ==
  /\ call[r].phase = "sending" /\ Paid(r)
  /\ call' = [call EXCEPT ![r].phase = "completing", ![r].answer = "error",
                ![r].guard = "none", ![r].ran = "yes", ![r].failed = TRUE]
  /\ MayPublish(r, "error")
  /\ UNCHANGED <<wired, row, log, usage>>

Succeeded(r) ==
  /\ call[r].phase = "sending" /\ ~Paid(r)
  /\ call' = [call EXCEPT ![r].phase = "completing", ![r].answer = "ok", ![r].ran = "yes"]
  /\ UNCHANGED <<wired, row, log, usage, flights>>

-----------------------------------------------------------------------------
(* The local execution.                                                    *)

\* Catalogue, footprint and load.
Prepared(r) ==
  /\ call[r].phase = "preparing"
  /\ call' = [call EXCEPT ![r].phase = "dispatching"]
  /\ UNCHANGED <<wired, row, log, usage, flights>>

PreparationFailed(r) ==
  /\ call[r].phase = "preparing"
  /\ Respond(r, call[r], "error")
  /\ UNCHANGED <<wired, log, usage, flights>>

\* The model answered: the call is charged at once, as well as it can be.  The
\* ledger may fail, or charge an extreme overage and report an error.
Chatted(r) ==
  /\ call[r].phase = "chatting"
  /\ \E charged \in BOOLEAN, told \in BOOLEAN, bill \in IF Paid(r) THEN Bills ELSE {0} :
       LET held == call[r].guard # "none" IN
       /\ call' = [call EXCEPT ![r].phase = "completing", ![r].answer = "ok",
                     ![r].guard = "none", ![r].ran = "yes",
                     ![r].bill = IF held /\ charged /\ told /\ Paid(r) THEN bill ELSE NoBill,
                     ![r].failed = @ \/ (held /\ ~charged)]
       /\ row' = [row EXCEPT ![r] = IF held /\ charged THEN Charged(bill) ELSE @]
  /\ UNCHANGED <<wired, log, usage, flights>>

\* It failed: the row is held until the failure is in the log.
ChatFailed(r) ==
  /\ call[r].phase = "chatting"
  /\ call' = [call EXCEPT ![r].phase = "completing", ![r].answer = "error", ![r].ran = "maybe"]
  /\ UNCHANGED <<wired, row, log, usage, flights>>

-----------------------------------------------------------------------------
(* The end.                                                                *)

\* completed is in the log; a charge of a local call is announced after it.
Completed(r) ==
  /\ call[r].phase = "completing"
  /\ Logged(r)
  /\ IF call[r].route = "local" /\ call[r].bill # NoBill
     THEN /\ call' = [call EXCEPT ![r].phase = "settling"]
          /\ UNCHANGED row
     ELSE Respond(r, call[r], call[r].answer)
  /\ Show(r, call[r].answer)
  /\ UNCHANGED <<wired, usage>>

\* completed could not be appended: only a settled proxied call is answered.
CompletionFailed(r) ==
  LET answer == IF call[r].route = "proxy" /\ call[r].bill # NoBill THEN "ok" ELSE "error" IN
  /\ call[r].phase = "completing"
  /\ Respond(r, call[r], answer)
  /\ Show(r, "error")
  /\ UNCHANGED <<wired, log, usage>>

\* budget_settled is appended, or only missed.
Announced(r) ==
  /\ call[r].phase = "settling"
  /\ Logged(r) \/ UNCHANGED log
  /\ Respond(r, call[r], call[r].answer)
  /\ UNCHANGED <<wired, usage, flights>>

\* One of the first four appends failed.
NotNoted(r) ==
  /\ call[r].phase \in (DOMAIN AfterNote) \cup {"deciding"}
  /\ Respond(r, call[r], "error")
  /\ UNCHANGED <<wired, log, usage, flights>>

\* The middleware: audit_finalized, appended or counted as a failure ...
Finalized(r) ==
  /\ call[r].phase = "finalizing"
  /\ Logged(r) \/ UNCHANGED log
  /\ call' = [call EXCEPT ![r].phase = "recording"]
  /\ UNCHANGED <<wired, row, usage, flights>>

\* ... and the usage record of an inference whose cost is known.
Fact(r) ==
  IF call[r].answer # "ok" \/ call[r].replay THEN NoBill
  ELSE IF Paid(r) THEN call[r].bill ELSE 0

Recorded(r) ==
  /\ call[r].phase = "recording"
  /\ usage' = [usage EXCEPT ![r] = Fact(r)] \/ UNCHANGED usage
  /\ call' = [call EXCEPT ![r].phase = "done"]
  /\ UNCHANGED <<wired, row, log, flights>>

-----------------------------------------------------------------------------
(* Faults.                                                                 *)

\* What a POST or a chat that is abandoned has done.
Abandoned(r) ==
  IF call[r].phase \in {"sending", "chatting"} THEN "maybe" ELSE call[r].ran

\* The client goes away: the future is dropped where it waits.  An append, or
\* the write of the usage record, may still happen; the guard of the flight
\* leaves the uncertain marker.
Cancel(r) ==
  /\ call[r].phase \in Awaiting
  /\ \E ok \in BOOLEAN :
       Drop(r, [call[r] EXCEPT !.phase = "gone", !.ran = Abandoned(r)], ok)
  /\ \/ UNCHANGED log
     \/ /\ call[r].phase \in Logging
        /\ Logged(r)
  /\ \/ UNCHANGED usage
     \/ /\ call[r].phase = "recording"
        /\ usage' = [usage EXCEPT ![r] = Fact(r)]
  /\ Show(r, "error")
  /\ UNCHANGED wired

\* The process dies and is started again: guards and flights are gone.
Crash ==
  /\ call' = [r \in Requests |->
       IF call[r].phase \in {"new"} \cup Over THEN call[r]
       ELSE [call[r] EXCEPT !.phase = "crashed", !.guard = "none", !.ran = Abandoned(r)]]
  /\ lead' = [k \in Slots |-> Nobody]
  /\ shown' = [k \in Slots |-> "none"]
  /\ UNCHANGED <<wired, row, log, usage>>

\* The row's time to live is over.
Lapse(r) ==
  /\ row[r].status = "active"
  /\ row' = [row EXCEPT ![r].status = "lapsed"]
  /\ UNCHANGED <<wired, call, log, usage, flights>>

\* The flight is not kept any longer.
Forget(k) ==
  /\ lead[k] = Nobody /\ shown[k] # "none"
  /\ shown' = [shown EXCEPT ![k] = "none"]
  /\ UNCHANGED <<wired, call, row, log, usage, lead>>

-----------------------------------------------------------------------------

Step(r) ==
  \/ Noted(r) \/ Decided(r) \/ NotNoted(r) \/ TurnedDown(r) \/ Admit(r)
  \/ Replayed(r) \/ NotForwarded(r) \/ Lead(r) \/ LeadRefused(r)
  \/ Reserved(r) \/ Dispatched(r) \/ PreludeFailed(r)
  \/ NotExecuted(r) \/ InDoubt(r) \/ Settled(r) \/ Unsettled(r) \/ Succeeded(r)
  \/ Prepared(r) \/ PreparationFailed(r) \/ Chatted(r) \/ ChatFailed(r)
  \/ Completed(r) \/ CompletionFailed(r) \/ Announced(r)
  \/ Finalized(r) \/ Recorded(r)

Next ==
  \/ \E r \in Requests :
       \/ \E k \in Keys \cup {NoKey} : Receive(r, k)
       \/ Step(r) \/ Cancel(r) \/ Lapse(r)
  \/ Crash
  \/ \E k \in Slots : Forget(k)

Spec == Init /\ [][Next]_vars

-----------------------------------------------------------------------------
(* Properties.                                                             *)

Phases == Awaiting \cup Over \cup {"new", "routed"}

\* Types: what a call knows of itself, its row, its events.
TypeOK ==
  /\ wired \in BOOLEAN
  /\ call \in [Requests -> [phase : Phases, route : {"none", "proxy", "local"},
                 key : Keys \cup {NoKey}, est : Estimates \cup {0},
                 guard : {"none", "drop", "keep"}, ran : {"no", "maybe", "yes"},
                 answer : {"none", "ok", "error"}, replay : BOOLEAN,
                 bill : Bills \cup {NoBill}, failed : BOOLEAN]]
  /\ row \in [Requests -> [status : {"none", "active", "lapsed", "settled", "released"},
                           amount : Nat]]
  /\ log \in [Requests -> SUBSET {"request_received", "inspected", "profiled", "decided",
                 "budget_reserved", "dispatched", "completed_success",
                 "completed_failure", "budget_settled", "audit_finalized"}]
  /\ usage \in [Requests -> Nat \cup {NoBill}]
  /\ lead \in [Slots -> Requests \cup {Nobody}]
  /\ shown \in [Slots -> {"none", "ok", "error"}]

Proxied(r) == call[r].route = "proxy"

\* A paid POST that may have run is never declared free (retain_on_drop: "must
\* not turn an uncertain execution into a free call"), whenever the caller goes
\* away and whatever the upstream answers.
NeverFree ==
  \A r \in Requests : Proxied(r) /\ Paid(r) /\ call[r].ran # "no" =>
    row[r].status \in {"active", "lapsed", "settled"}

\* Money is charged for what ran, once it is known to have run, and only when
\* the attempt was logged before; a charge that the handler knows is the row's.
ChargedForWork ==
  \A r \in Requests :
    /\ row[r].status = "settled" => call[r].ran = "yes" /\ "dispatched" \in log[r]
    /\ call[r].bill # NoBill => row[r] = Charged(call[r].bill)

\* Nothing leaves for a paid candidate without its reservation, in the ledger
\* and in the log, and the reservation is still the call's while it is out.
Backed ==
  \A r \in Requests : Paid(r) =>
    /\ "dispatched" \in log[r] => "budget_reserved" \in log[r]
    /\ call[r].phase \in {"sending", "chatting"} =>
         /\ row[r].status \in {"active", "lapsed"} /\ row[r].amount = call[r].est
         /\ {"budget_reserved", "dispatched"} \subseteq log[r]

\* A call that is over and did not run holds no money, unless the process died
\* or the release itself failed: every early return and every await gives the
\* reservation back.
NothingHeldForNothing ==
  \A r \in Requests :
    call[r].phase \in {"finalizing", "recording", "done", "gone"} /\ row[r].status = "active" =>
      call[r].ran # "no" \/ call[r].failed

\* A paid answer that is not a replay was charged; a replay costs its caller
\* nothing, in the ledger or in the usage records.
AnswersPaidFor ==
  \A r \in Requests :
    /\ Proxied(r) /\ Paid(r) /\ call[r].answer = "ok" /\ ~call[r].replay =>
         row[r].status = "settled"
    /\ call[r].replay => row[r].status # "settled" /\ usage[r] = NoBill

\* The usage record of a paid call says what the ledger charged, and nothing is
\* recorded for a call that was not charged.
UsageMatchesLedger ==
  \A r \in Requests : usage[r] # NoBill /\ Paid(r) => row[r] = Charged(usage[r])

\* The log tells the story in order: what an event presupposes was there before
\* it, an attempt is completed one way only, and what it says is so.
LogTellsTruth ==
  \A r \in Requests :
    LET has(e) == e \in log[r] IN
    /\ has("inspected") => has("request_received")
    /\ has("profiled") => has("inspected")
    /\ has("decided") => has("profiled")
    /\ has("budget_reserved") \/ has("dispatched") => has("decided")
    /\ has("completed_success") \/ has("completed_failure") => has("dispatched")
    /\ ~(has("completed_success") /\ has("completed_failure"))
    /\ has("completed_success") => call[r].ran = "yes"
    /\ has("budget_settled") => row[r].status = "settled" /\ has("completed_success")

\* A guard that would release or settle a row is never left with the id of a
\* row that is final: settling takes the id first, and so does a release.
GuardsOwnOpenRows ==
  \A r \in Requests : call[r].guard # "none" => row[r].status \in {"active", "lapsed"}
-----------------------------------------------------------------------------
(* What the runs check together.                                           *)

\* ReservationGuard does its part at every early return and await: it never
\* holds the id of a row that is final, and gives back what did not run.
GuardsSound == TypeOK /\ GuardsOwnOpenRows /\ NothingHeldForNothing

\* Money follows the work: reserved and logged before it leaves, never declared
\* free once it may have run, charged only when it is known to have.
MoneyFollowsWork == NeverFree /\ ChargedForWork /\ Backed

\* The answer, the charge and the usage record of a call agree, for the leader
\* of a flight and for those who are handed its answer.
BillsAgree == AnswersPaidFor /\ UsageMatchesLedger
=============================================================================
