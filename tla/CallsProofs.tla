----------------------------- MODULE CallsProofs -----------------------------
(***************************************************************************)
(* Theorems about Calls, for any number of concurrent calls, keys,         *)
(* estimates and bills.  The calls meet only in their flights, which       *)
(* decide who leads and what is replayed and never who pays: so the        *)
(* inductive invariant is about one call at a time, and relates, phase by  *)
(* phase, what the handler knows (c), its row (w), its events (l) and its  *)
(* usage record (u).                                                       *)
(***************************************************************************)
EXTENDS Calls, TLAPS

Before == {"new", "receiving", "inspecting", "profiling", "deciding", "routed"}
Open == {"waiting", "reserving", "preparing", "dispatching", "sending", "chatting"}
After == {"finalizing", "recording", "done", "gone", "crashed"}

Record == [phase : Phases, route : {"none", "proxy", "local"},
           key : Keys \cup {NoKey}, est : Estimates \cup {0},
           guard : {"none", "drop", "keep"}, ran : {"no", "maybe", "yes"},
           answer : {"none", "ok", "error"}, replay : BOOLEAN,
           bill : Bills \cup {NoBill}, failed : BOOLEAN]
Row == [status : {"none", "active", "lapsed", "settled", "released"}, amount : Nat]
Events == {"request_received", "inspected", "profiled", "decided", "budget_reserved",
           "dispatched", "completed_success", "completed_failure", "budget_settled",
           "audit_finalized"}
Fact_ == Nat \cup {NoBill}

\* Until an execution ends nothing is known of it, and before it is admitted a
\* call has no row.
NotYet(c, w, u) ==
  /\ c.phase \in Before \cup Open =>
       /\ c.ran = "no" /\ c.answer = "none" /\ c.replay = FALSE
       /\ c.bill = NoBill /\ c.failed = FALSE
  /\ c.phase \in Before => c.guard = "none" /\ w = NoRow
  /\ c.phase \notin Over => u = NoBill

\* A row that a call made is in its guard, and a paid call has one whenever it
\* may run; only a paid POST keeps it against a drop.
InHand(c, w) ==
  /\ c.phase \in Open =>
       /\ c.guard = "none" => w = NoRow
       /\ c.guard # "none" => w.amount = c.est
  /\ c.phase \in {"routed", "reserving", "dispatching"} => c.route \in {"proxy", "local"}
  /\ c.phase = "waiting" => c.route = "proxy" /\ (c.est > 0 => c.guard = "none")
  /\ c.phase = "reserving" => c.est > 0 /\ c.guard = "drop"
  /\ c.phase \in {"preparing", "chatting"} => c.route = "local"
  /\ c.phase = "sending" => c.route = "proxy" /\ (c.est > 0 => c.guard = "keep")
  /\ c.phase \in {"preparing", "dispatching", "chatting"} /\ c.est > 0 => c.guard = "drop"
  /\ c.guard = "keep" => c.phase = "sending" /\ c.est > 0
  /\ c.guard # "none" => w.status \in {"active", "lapsed"}
  /\ c.phase \in After => c.guard = "none"

\* What is charged ran, and is charged once; what may have run is not released.
Paying(c, w, l, u) ==
  /\ w.status = "settled" => c.ran = "yes" /\ "dispatched" \in l
  /\ c.bill # NoBill => w = Charged(c.bill)
  /\ c.route = "proxy" /\ c.est > 0 /\ c.ran # "no" => w.status \in {"active", "lapsed", "settled"}
  /\ c.route = "proxy" /\ c.est > 0 /\ c.answer = "ok" /\ ~c.replay => w.status = "settled"
  /\ c.replay => w.status # "settled" /\ u = NoBill
  /\ u # NoBill /\ c.est > 0 => w = Charged(u)
  /\ c.phase \in {"finalizing", "recording", "done", "gone"} /\ w.status = "active" =>
       c.ran # "no" \/ c.failed

\* When the execution is over.
Concluding(c, w) ==
  /\ c.phase = "completing" =>
       /\ c.answer \in {"ok", "error"} /\ c.replay = FALSE
       /\ c.answer = "ok" => c.ran = "yes"
       /\ c.bill # NoBill => c.answer = "ok"
       /\ c.route = "proxy" /\ c.est > 0 => c.guard = "none"
       /\ c.route = "proxy" /\ c.est > 0 /\ c.answer = "ok" => c.bill # NoBill
       /\ c.guard = "none" /\ w.status = "active" => c.ran # "no" \/ c.failed
  /\ c.phase = "settling" =>
       /\ c.route = "local" /\ c.bill # NoBill /\ c.guard = "none"
       /\ c.answer = "ok" /\ c.replay = FALSE

\* What the events tell of the call, wherever it is.
Told(c, w, l) ==
  /\ "inspected" \in l => "request_received" \in l
  /\ "profiled" \in l => "inspected" \in l
  /\ "decided" \in l => "profiled" \in l
  /\ "budget_reserved" \in l \/ "dispatched" \in l => "decided" \in l
  /\ "completed_success" \in l \/ "completed_failure" \in l => "dispatched" \in l
  /\ ~("completed_success" \in l /\ "completed_failure" \in l)
  /\ "completed_success" \in l => c.ran = "yes"
  /\ "budget_settled" \in l => w.status = "settled" /\ "completed_success" \in l
  /\ c.est > 0 /\ "dispatched" \in l => "budget_reserved" \in l

\* Which of them there are when a call comes to a phase, and which not yet.
Timely(c, l) ==
  /\ c.phase = "inspecting" => "request_received" \in l
  /\ c.phase = "profiling" => "inspected" \in l
  /\ c.phase = "deciding" => "profiled" \in l
  /\ c.phase \in Open \cup {"routed", "completing", "settling"} => "decided" \in l
  /\ c.phase \in {"preparing", "dispatching"} /\ c.est > 0 => "budget_reserved" \in l
  /\ c.phase \in {"sending", "chatting", "completing", "settling"} => "dispatched" \in l
  /\ c.phase = "settling" => "completed_success" \in l
  /\ c.phase \in Before => "dispatched" \notin l
  /\ c.phase \in Before \cup Open \cup {"completing"} =>
       "completed_success" \notin l /\ "completed_failure" \notin l

Good(c, w, l, u) ==
  /\ NotYet(c, w, u) /\ InHand(c, w) /\ Paying(c, w, l, u) /\ Concluding(c, w)
  /\ Told(c, w, l) /\ Timely(c, l)

IInv == TypeOK /\ \A r \in Requests : Good(call[r], row[r], log[r], usage[r])

-----------------------------------------------------------------------------
(* Steps of one call *)

\* A step gives one call a record, a row, a log and a usage record.
Becomes(r, c, w, l, u) ==
  /\ c \in Record /\ w \in Row /\ l \in SUBSET Events /\ u \in Fact_
  /\ wired' = wired
  /\ call' = [call EXCEPT ![r] = c] /\ row' = [row EXCEPT ![r] = w]
  /\ log' = [log EXCEPT ![r] = l] /\ usage' = [usage EXCEPT ![r] = u]
FlightsOK ==
  lead \in [Slots -> Requests \cup {Nobody}] /\ shown \in [Slots -> {"none", "ok", "error"}]

\* What a state of the invariant is made of.
LEMMA Parts ==
  ASSUME IInv
  PROVE  /\ wired \in BOOLEAN /\ FlightsOK
         /\ call \in [Requests -> Record] /\ row \in [Requests -> Row]
         /\ log \in [Requests -> SUBSET Events] /\ usage \in [Requests -> Fact_]
         /\ \A r \in Requests : /\ call[r] \in Record /\ row[r] \in Row
                                /\ log[r] \in SUBSET Events /\ usage[r] \in Fact_
                                /\ Good(call[r], row[r], log[r], usage[r])
  BY DEF IInv, TypeOK, Record, Row, Events, Fact_, FlightsOK

\* It is enough to look at the call that takes the step.
LEMMA Becoming ==
  ASSUME IInv, NEW r \in Requests, NEW c, NEW w, NEW l, NEW u,
         Becomes(r, c, w, l, u), FlightsOK', Good(c, w, l, u)
  PROVE  IInv'
<1>1. /\ call' \in [Requests -> Record] /\ row' \in [Requests -> Row]
      /\ log' \in [Requests -> SUBSET Events] /\ usage' \in [Requests -> Fact_]
  BY Parts DEF Becomes
<1>2. TypeOK'
  BY <1>1, Parts DEF TypeOK, Record, Row, Events, Fact_, FlightsOK, Becomes
<1>3. call'[r] = c /\ row'[r] = w /\ log'[r] = l /\ usage'[r] = u
  BY Parts DEF Becomes
<1>4. \A q \in Requests \ {r} :
        call'[q] = call[q] /\ row'[q] = row[q] /\ log'[q] = log[q] /\ usage'[q] = usage[q]
  BY Parts DEF Becomes
<1>5. \A q \in Requests : Good(call'[q], row'[q], log'[q], usage'[q])
  BY <1>3, <1>4, Parts
<1> QED
  BY <1>2, <1>5 DEF IInv

\* Amounts and rows.
LEMMA Amounts ==
  /\ Estimates \cup {0} \subseteq Nat /\ Bills \subseteq Nat /\ NoBill \notin Nat
  /\ \A e \in Nat : Active(e) \in Row /\ Charged(e) \in Row
  /\ \A w \in Row : Released(w) \in Row
  BY CallsAssumption DEF CallsAssumption, Active, Charged, Released, Row

LEMMA Phasing ==
  /\ DOMAIN AfterNote = {"receiving", "inspecting", "profiling"}
  /\ AfterNote["receiving"] = "inspecting"
  /\ AfterNote["inspecting"] = "profiling"
  /\ AfterNote["profiling"] = "deciding"
  /\ Logging = {"receiving", "inspecting", "profiling", "deciding", "reserving",
                "dispatching", "settling", "finalizing", "completing"}
  /\ Phases = {"receiving", "inspecting", "profiling", "deciding", "reserving",
               "dispatching", "settling", "finalizing", "completing", "waiting",
               "preparing", "sending", "chatting", "recording", "done", "gone",
               "crashed", "new", "routed"}
  BY DEF AfterNote, Logging, Appending, Phases, Awaiting, Over

\* What a call appends in each phase.
LEMMA Appended ==
  ASSUME NEW r
  PROVE  /\ call[r].phase = "receiving" => Event(r) = "request_received"
         /\ call[r].phase = "inspecting" => Event(r) = "inspected"
         /\ call[r].phase = "profiling" => Event(r) = "profiled"
         /\ call[r].phase = "deciding" => Event(r) = "decided"
         /\ call[r].phase = "reserving" => Event(r) = "budget_reserved"
         /\ call[r].phase = "dispatching" => Event(r) = "dispatched"
         /\ call[r].phase = "settling" => Event(r) = "budget_settled"
         /\ call[r].phase = "finalizing" => Event(r) = "audit_finalized"
         /\ call[r].phase = "completing" =>
              Event(r) = IF call[r].answer = "ok" THEN "completed_success" ELSE "completed_failure"
  BY DEF Event, Appending

\* The flights stay what they are.
LEMMA Showing ==
  ASSUME IInv, NEW r, NEW outcome \in {"none", "ok", "error"}, Show(r, outcome)
  PROVE  FlightsOK'
  BY Parts DEF Show, Leads, FlightsOK, flights

LEMMA NotShowing ==
  ASSUME IInv, UNCHANGED flights
  PROVE  FlightsOK'
  BY Parts DEF FlightsOK, flights

-----------------------------------------------------------------------------
(* How a call ends *)

\* d is what the handler knows when it returns, before its guards are dropped.
Ends(r, d, l) ==
  /\ d \in Record /\ l \in SUBSET Events /\ log[r] \subseteq l
  /\ d.phase = "finalizing" /\ d.answer \in {"ok", "error"}
  /\ d.est = call[r].est /\ d.route = call[r].route /\ d.guard = call[r].guard
  /\ d.ran = call[r].ran /\ d.bill = call[r].bill /\ d.failed = call[r].failed
  /\ call[r].phase \notin {"sending", "chatting"} \cup After
  /\ d.replay => call[r].phase = "waiting"
  /\ d.answer = "ok" /\ ~d.replay /\ d.route = "proxy" /\ d.est > 0 => row[r].status = "settled"
  /\ log' = [log EXCEPT ![r] = l] /\ Told(call[r], row[r], l)
  /\ UNCHANGED <<wired, usage>>

\* What the handler knows once it has an answer, its own or a replayed one.
LEMMA Answered ==
  ASSUME NEW d \in Record, NEW answer \in {"ok", "error"}
  PROVE  /\ [d EXCEPT !.phase = "finalizing", !.answer = answer] \in Record
         /\ [d EXCEPT !.replay = TRUE, !.phase = "finalizing", !.answer = answer] \in Record
<1>1. "finalizing" \in Phases
  BY Phasing
<1> QED
  BY <1>1 DEF Record

\* A response leaves nothing held for nothing, and nothing charged unaccounted.
LEMMA Responding ==
  ASSUME IInv, NEW r \in Requests, NEW d, NEW l, NEW ok \in BOOLEAN,
         Ends(r, d, l), Drop(r, d, ok), FlightsOK'
  PROVE  IInv'
<1> DEFINE c == [d EXCEPT !.guard = "none", !.failed = @ \/ (d.guard = "drop" /\ ~ok)]
           w == IF d.guard = "drop" /\ ok THEN Released(row[r]) ELSE row[r]
           u == usage[r]
<1>0. /\ call[r] \in Record /\ row[r] \in Row /\ usage[r] \in Fact_
      /\ Good(call[r], row[r], log[r], usage[r])
  BY Parts
<1>1. /\ c.phase = "finalizing" /\ c.route = call[r].route /\ c.est = call[r].est
      /\ c.guard = "none" /\ c.ran = call[r].ran /\ c.answer = d.answer
      /\ c.replay = d.replay /\ c.bill = call[r].bill
      /\ c.failed = (call[r].failed \/ (call[r].guard = "drop" /\ ~ok))
  BY DEF Ends, Record
<1>2. c \in Record
  BY DEF Ends, Record
<1>2a. w \in Row
  BY <1>0, Amounts
<1>3. Becomes(r, c, w, l, u)
  BY <1>0, <1>2, <1>2a, Parts DEF Ends, Drop, Becomes
<1>4. call[r].phase \in Before \cup (Open \ {"sending", "chatting"}) \cup {"completing", "settling"}
  BY <1>0, Phasing DEF Ends, Record, Before, Open, After
<1> HIDE DEF c
<1>5. w.status = IF call[r].guard = "drop" /\ ok THEN "released" ELSE row[r].status
  BY <1>0 DEF Released, Ends, Row
<1>6. /\ call[r].guard # "keep"
      /\ row[r].status = "settled" => w = row[r]
      /\ call[r].bill # NoBill => w = row[r]
  BY <1>0, <1>4 DEF Ends, Good, InHand, Paying, NotYet, Open, Before, Released, Charged
<1>7. NotYet(c, w, u)
  BY <1>0, <1>1, <1>4 DEF Good, NotYet, Before, Open, After, Over
<1>8. InHand(c, w)
  BY <1>1 DEF InHand, Open, After
<1>9. Paying(c, w, l, u)
  <2>1. w.status = "settled" => c.ran = "yes" /\ "dispatched" \in l
    BY <1>0, <1>1, <1>4, <1>5
       DEF Good, Paying, NotYet, InHand, Ends, Told, Before, Open, NoRow
  <2>2. c.bill # NoBill => w = Charged(c.bill)
    BY <1>0, <1>1, <1>6 DEF Good, Paying
  <2>3. c.route = "proxy" /\ c.est > 0 /\ c.ran # "no" =>
          w.status \in {"active", "lapsed", "settled"}
    BY <1>0, <1>1, <1>4, <1>5 DEF Good, NotYet, Paying, Concluding, Before, Open
  <2>4. c.route = "proxy" /\ c.est > 0 /\ c.answer = "ok" /\ ~c.replay => w.status = "settled"
    BY <1>1, <1>6 DEF Ends
  <2>5. c.replay => w.status # "settled" /\ u = NoBill
    BY <1>0, <1>1, <1>4, <1>5 DEF Ends, Good, NotYet, InHand, Open, Over, NoRow
  <2>6. u # NoBill /\ c.est > 0 => w = Charged(u)
    BY <1>0, <1>4 DEF Good, NotYet, Over, Before, Open
  <2>7. w.status = "active" => c.ran # "no" \/ c.failed
    <3>1. CASE call[r].guard = "drop"
      BY <1>1, <1>5, <3>1
    <3>2. CASE call[r].guard = "none"
      <4>1. CASE call[r].phase \in Before \cup Open
        BY <1>0, <1>5, <3>2, <4>1 DEF Good, NotYet, InHand, NoRow
      <4>2. CASE call[r].phase = "completing"
        BY <1>0, <1>1, <1>5, <3>2, <4>2 DEF Good, Concluding
      <4>3. CASE call[r].phase = "settling"
        BY <1>0, <1>5, <3>2, <4>3 DEF Good, Concluding, Paying, Charged
      <4> QED
        BY <1>4, <4>1, <4>2, <4>3
    <3> QED
      BY <1>0, <1>6, <3>1, <3>2 DEF Record
  <2> QED
    BY <2>1, <2>2, <2>3, <2>4, <2>5, <2>6, <2>7 DEF Paying
<1>10. Concluding(c, w)
  BY <1>1 DEF Concluding
<1>11. Told(c, w, l)
  BY <1>1, <1>6 DEF Ends, Told
<1>12. Timely(c, l)
  BY <1>1 DEF Timely, Before, Open
<1> QED
  BY <1>3, <1>7, <1>8, <1>9, <1>10, <1>11, <1>12, Becoming DEF Good


-----------------------------------------------------------------------------
(* The steps *)


\* Before the candidate runs.
LEMMA ReceiveKeeps ==
  ASSUME IInv, NEW r \in Requests, NEW k \in Keys \cup {NoKey}, Receive(r, k)
  PROVE  IInv'
<1> DEFINE c == [call[r] EXCEPT !.phase = "receiving", !.key = k]
<1>0. /\ call[r] \in Record /\ row[r] \in Row /\ log[r] \in SUBSET Events
      /\ usage[r] \in Fact_ /\ Good(call[r], row[r], log[r], usage[r])
  BY Parts
<1>1. /\ c.phase = "receiving" /\ c.route = call[r].route /\ c.key = k /\ c.est = call[r].est
      /\ c.guard = call[r].guard /\ c.ran = call[r].ran /\ c.answer = call[r].answer
      /\ c.replay = call[r].replay /\ c.bill = call[r].bill /\ c.failed = call[r].failed
  BY <1>0 DEF Record
<1>2. c \in Record
  BY <1>0, Phasing, Amounts DEF Receive, Record
<1>3. Becomes(r, c, row[r], log[r], usage[r])
  BY <1>0, <1>2, Parts DEF Receive, Becomes
<1>4. FlightsOK'
  BY NotShowing DEF Receive
<1> HIDE DEF c
<1>5. call[r].phase = "new"
  BY DEF Receive
<1>6. Good(c, row[r], log[r], usage[r])
  BY <1>0, <1>1, <1>5, Phasing, Appended
     DEF Good, NotYet, InHand, Paying, Concluding, Told, Timely, Before, Open, After,
         Over, NoRow, Active, Released, Charged, Paid, Record
<1> QED
  BY <1>3, <1>4, <1>6, Becoming

LEMMA NotedKeeps ==
  ASSUME IInv, NEW r \in Requests, Noted(r)
  PROVE  IInv'
<1> DEFINE c == [call[r] EXCEPT !.phase = AfterNote[call[r].phase]]
           l == log[r] \cup {Event(r)}
<1>0. /\ call[r] \in Record /\ row[r] \in Row /\ log[r] \in SUBSET Events
      /\ usage[r] \in Fact_ /\ Good(call[r], row[r], log[r], usage[r])
  BY Parts
<1>1. /\ c.phase = AfterNote[call[r].phase] /\ c.route = call[r].route /\ c.key = call[r].key
      /\ c.est = call[r].est /\ c.guard = call[r].guard /\ c.ran = call[r].ran
      /\ c.answer = call[r].answer /\ c.replay = call[r].replay /\ c.bill = call[r].bill
      /\ c.failed = call[r].failed
  BY <1>0 DEF Record
<1>2. c \in Record
  BY <1>0, Phasing, Amounts DEF Noted, Logged, Record
<1>2l. l \in SUBSET Events
  BY <1>0, Phasing, Appended DEF Noted, Logged, Events
<1>3. Becomes(r, c, row[r], l, usage[r])
  BY <1>0, <1>2, <1>2l, Parts DEF Noted, Logged, Becomes
<1>4. FlightsOK'
  BY NotShowing DEF Noted, Logged
<1> HIDE DEF c
<1>6. Good(c, row[r], l, usage[r])
  BY <1>0, <1>1, Phasing, Appended
     DEF Noted, Logged, Good, NotYet, InHand, Paying, Concluding, Told, Timely, Before,
         Open, After, Over, NoRow, Active, Released, Charged, Paid, Record
<1> QED
  BY <1>3, <1>4, <1>6, Becoming

LEMMA DecidedKeeps ==
  ASSUME IInv, NEW r \in Requests, Decided(r)
  PROVE  IInv'
<1>1. CASE Respond(r, call[r], "error")
  <2> DEFINE d == [call[r] EXCEPT !.phase = "finalizing", !.answer = "error"]
             l == log[r] \cup {Event(r)}
  <2>10. /\ call[r] \in Record /\ row[r] \in Row /\ log[r] \in SUBSET Events
         /\ Good(call[r], row[r], log[r], usage[r])
    BY Parts
  <2>11. PICK ok \in BOOLEAN : Drop(r, [call[r] EXCEPT !.phase = "finalizing", !.answer = "error"], ok)
    BY <1>1, <2>10 DEF Decided, Respond
  <2>12. Drop(r, d, ok)
    BY <2>11
  <2>13. /\ d.phase = "finalizing" /\ d.answer = "error" /\ d.replay = call[r].replay
         /\ d.est = call[r].est /\ d.route = call[r].route /\ d.guard = call[r].guard
         /\ d.ran = call[r].ran /\ d.bill = call[r].bill /\ d.failed = call[r].failed
    BY <2>10 DEF Record
  <2>14. "error" \in {"ok", "error"} /\ log[r] \subseteq l
    BY <1>1, <2>10, Parts DEF Decided, Good, Concluding, Paying, FlightsOK
  <2>14a. l \in SUBSET Events
    BY <1>1, <2>10, Phasing, Appended DEF Decided, Events
  <2>14b. d \in Record
    BY <2>10, <2>14, Answered
  <2>15. Told(call[r], row[r], l)
    BY <1>1, <2>10, Phasing, Appended
       DEF Decided, Good, NotYet, Told, Timely, Concluding, Paying, Charged, Before, Open
  <2>16. log' = [log EXCEPT ![r] = l] /\ UNCHANGED <<wired, usage>>
    BY <1>1, Parts DEF Decided, Logged
  <2>17. FlightsOK'
    BY <1>1, <2>14, NotShowing DEF Decided, flights
  <2> HIDE DEF d
  <2>18. Ends(r, d, l)
    BY <1>1, <2>10, <2>13, <2>14, <2>14a, <2>14b, <2>15, <2>16, Phasing
       DEF Ends, Decided, After, Good, NotYet, Concluding, Paying, Charged, Before, Open,
           Paid
  <2> QED
    BY <2>12, <2>17, <2>18, Responding
<1>2. CASE ~Respond(r, call[r], "error")
  <2>p. PICK route \in {"proxy", "local"}, est \in Estimates :
          /\ call' = [call EXCEPT ![r].phase = "routed", ![r].route = route, ![r].est = est]
          /\ UNCHANGED row
    BY <1>2 DEF Decided
  <2> DEFINE c == [call[r] EXCEPT !.phase = "routed", !.route = route, !.est = est]
             l == log[r] \cup {Event(r)}
  <2>0. /\ call[r] \in Record /\ row[r] \in Row /\ log[r] \in SUBSET Events
        /\ usage[r] \in Fact_ /\ Good(call[r], row[r], log[r], usage[r])
    BY Parts
  <2>1. /\ c.phase = "routed" /\ c.route = route /\ c.key = call[r].key /\ c.est = est
        /\ c.guard = call[r].guard /\ c.ran = call[r].ran /\ c.answer = call[r].answer
        /\ c.replay = call[r].replay /\ c.bill = call[r].bill /\ c.failed = call[r].failed
    BY <2>p, <2>0 DEF Record
  <2>2. c \in Record
    BY <2>p, <2>0, Phasing, Amounts DEF Decided, Record
  <2>2l. l \in SUBSET Events
    BY <2>p, <2>0, Phasing, Appended DEF Decided, Events
  <2>3. Becomes(r, c, row[r], l, usage[r])
    BY <2>p, <2>0, <2>2, <2>2l, Parts DEF Decided, Becomes, Logged
  <2>4. FlightsOK'
    BY <2>p, NotShowing DEF Decided
  <2> HIDE DEF c
  <2>5. call[r].phase = "deciding"
    BY <2>p DEF Decided
  <2>6. Good(c, row[r], l, usage[r])
    BY <2>p, <2>0, <2>1, <2>5, Phasing, Appended
       DEF Good, NotYet, InHand, Paying, Concluding, Told, Timely, Before, Open, After,
           Over, NoRow, Active, Released, Charged, Paid, Record
  <2> QED
    BY <2>3, <2>4, <2>6, Becoming
<1> QED
  BY <1>1, <1>2

LEMMA NotNotedKeeps ==
  ASSUME IInv, NEW r \in Requests, NotNoted(r)
  PROVE  IInv'
<1> DEFINE d == [call[r] EXCEPT !.phase = "finalizing", !.answer = "error"]
           l == log[r]
<1>10. /\ call[r] \in Record /\ row[r] \in Row /\ log[r] \in SUBSET Events
       /\ Good(call[r], row[r], log[r], usage[r])
  BY Parts
<1>11. PICK ok \in BOOLEAN : Drop(r, [call[r] EXCEPT !.phase = "finalizing", !.answer = "error"], ok)
  BY <1>10 DEF NotNoted, Respond
<1>12. Drop(r, d, ok)
  BY <1>11
<1>13. /\ d.phase = "finalizing" /\ d.answer = "error" /\ d.replay = call[r].replay
       /\ d.est = call[r].est /\ d.route = call[r].route /\ d.guard = call[r].guard
       /\ d.ran = call[r].ran /\ d.bill = call[r].bill /\ d.failed = call[r].failed
  BY <1>10 DEF Record
<1>14. "error" \in {"ok", "error"} /\ log[r] \subseteq l
  BY <1>10, Parts DEF NotNoted, Good, Concluding, Paying, FlightsOK
<1>14a. l \in SUBSET Events
  BY <1>10, Phasing, Appended DEF NotNoted, Events
<1>14b. d \in Record
  BY <1>10, <1>14, Answered
<1>15. Told(call[r], row[r], l)
  BY <1>10, Phasing, Appended
     DEF NotNoted, Good, NotYet, Told, Timely, Concluding, Paying, Charged, Before, Open
<1>16. log' = [log EXCEPT ![r] = l] /\ UNCHANGED <<wired, usage>>
  BY Parts DEF NotNoted, Logged
<1>17. FlightsOK'
  BY <1>14, NotShowing DEF NotNoted, flights
<1> HIDE DEF d
<1>18. Ends(r, d, l)
  BY <1>10, <1>13, <1>14, <1>14a, <1>14b, <1>15, <1>16, Phasing
     DEF Ends, NotNoted, After, Good, NotYet, Concluding, Paying, Charged, Before, Open,
         Paid
<1> QED
  BY <1>12, <1>17, <1>18, Responding

LEMMA TurnedDownKeeps ==
  ASSUME IInv, NEW r \in Requests, TurnedDown(r)
  PROVE  IInv'
<1> DEFINE d == [call[r] EXCEPT !.phase = "finalizing", !.answer = "error"]
           l == log[r]
<1>10. /\ call[r] \in Record /\ row[r] \in Row /\ log[r] \in SUBSET Events
       /\ Good(call[r], row[r], log[r], usage[r])
  BY Parts
<1>11. PICK ok \in BOOLEAN : Drop(r, [call[r] EXCEPT !.phase = "finalizing", !.answer = "error"], ok)
  BY <1>10 DEF TurnedDown, Respond
<1>12. Drop(r, d, ok)
  BY <1>11
<1>13. /\ d.phase = "finalizing" /\ d.answer = "error" /\ d.replay = call[r].replay
       /\ d.est = call[r].est /\ d.route = call[r].route /\ d.guard = call[r].guard
       /\ d.ran = call[r].ran /\ d.bill = call[r].bill /\ d.failed = call[r].failed
  BY <1>10 DEF Record
<1>14. "error" \in {"ok", "error"} /\ log[r] \subseteq l
  BY <1>10, Parts DEF TurnedDown, Good, Concluding, Paying, FlightsOK
<1>14a. l \in SUBSET Events
  BY <1>10, Phasing, Appended DEF TurnedDown, Events
<1>14b. d \in Record
  BY <1>10, <1>14, Answered
<1>15. Told(call[r], row[r], l)
  BY <1>10, Phasing, Appended
     DEF TurnedDown, Good, NotYet, Told, Timely, Concluding, Paying, Charged, Before,
         Open
<1>16. log' = [log EXCEPT ![r] = l] /\ UNCHANGED <<wired, usage>>
  BY Parts DEF TurnedDown, Logged
<1>17. FlightsOK'
  BY <1>14, NotShowing DEF TurnedDown, flights
<1> HIDE DEF d
<1>18. Ends(r, d, l)
  BY <1>10, <1>13, <1>14, <1>14a, <1>14b, <1>15, <1>16, Phasing
     DEF Ends, TurnedDown, After, Good, NotYet, Concluding, Paying, Charged, Before,
         Open, Paid
<1> QED
  BY <1>12, <1>17, <1>18, Responding

LEMMA AdmitKeeps ==
  ASSUME IInv, NEW r \in Requests, Admit(r)
  PROVE  IInv'
<1>0. call[r].route \in {"proxy", "local"} /\ call[r].guard = "none"
  BY Parts DEF Admit, Good, InHand, NotYet, Before
<1>1. CASE call[r].route = "proxy" /\ Paid(r)
  <2> DEFINE c == [call[r] EXCEPT !.phase = "waiting", !.guard = "none"]
  <2>0. /\ call[r] \in Record /\ row[r] \in Row /\ log[r] \in SUBSET Events
        /\ usage[r] \in Fact_ /\ Good(call[r], row[r], log[r], usage[r])
    BY Parts
  <2>1. /\ c.phase = "waiting" /\ c.route = call[r].route /\ c.key = call[r].key
        /\ c.est = call[r].est /\ c.guard = "none" /\ c.ran = call[r].ran
        /\ c.answer = call[r].answer /\ c.replay = call[r].replay /\ c.bill = call[r].bill
        /\ c.failed = call[r].failed
    BY <1>0, <1>1, <2>0 DEF Record
  <2>2. c \in Record
    BY <1>0, <1>1, <2>0, Phasing, Amounts DEF Admit, Record
  <2>3. Becomes(r, c, row[r], log[r], usage[r])
    BY <1>0, <1>1, <2>0, <2>2, Parts DEF Admit, Becomes
  <2>4. FlightsOK'
    BY <1>0, <1>1, NotShowing DEF Admit
  <2> HIDE DEF c
  <2>5. call[r].phase = "routed" /\ (Paid(r) => wired)
    BY <1>0, <1>1 DEF Admit
  <2>6. Good(c, row[r], log[r], usage[r])
    BY <1>0, <1>1, <2>0, <2>1, <2>5, Phasing, Appended
       DEF Good, NotYet, InHand, Paying, Concluding, Told, Timely, Before, Open, After,
           Over, NoRow, Active, Released, Charged, Paid, Record
  <2> QED
    BY <2>3, <2>4, <2>6, Becoming
<1>2. CASE call[r].route = "proxy" /\ ~Paid(r)
  <2> DEFINE c == [call[r] EXCEPT !.phase = "waiting",
                                  !.guard = IF wired THEN "drop" ELSE "none"]
             w == IF wired THEN Active(call[r].est) ELSE row[r]
  <2>0. /\ call[r] \in Record /\ row[r] \in Row /\ log[r] \in SUBSET Events
        /\ usage[r] \in Fact_ /\ Good(call[r], row[r], log[r], usage[r])
    BY Parts
  <2>1. /\ c.phase = "waiting" /\ c.route = call[r].route /\ c.key = call[r].key
        /\ c.est = call[r].est /\ c.guard = (IF wired THEN "drop" ELSE "none")
        /\ c.ran = call[r].ran /\ c.answer = call[r].answer /\ c.replay = call[r].replay
        /\ c.bill = call[r].bill /\ c.failed = call[r].failed
    BY <1>0, <1>2, <2>0 DEF Record
  <2>2. c \in Record
    BY <1>0, <1>2, <2>0, Phasing, Amounts DEF Admit, Record
  <2>2w. w \in Row
    BY <1>0, <1>2, <2>0, Amounts DEF Admit, Record
  <2>3. Becomes(r, c, w, log[r], usage[r])
    BY <1>0, <1>2, <2>0, <2>2, <2>2w, Parts DEF Admit, Becomes
  <2>4. FlightsOK'
    BY <1>0, <1>2, NotShowing DEF Admit
  <2> HIDE DEF c
  <2>5. call[r].phase = "routed" /\ (Paid(r) => wired)
    BY <1>0, <1>2 DEF Admit
  <2>6. Good(c, w, log[r], usage[r])
    BY <1>0, <1>2, <2>0, <2>1, <2>5, Phasing, Appended
       DEF Good, NotYet, InHand, Paying, Concluding, Told, Timely, Before, Open, After,
           Over, NoRow, Active, Released, Charged, Paid, Record
  <2> QED
    BY <2>3, <2>4, <2>6, Becoming
<1>3. CASE call[r].route = "local" /\ Paid(r)
  <2> DEFINE c == [call[r] EXCEPT !.phase = "reserving", !.guard = "drop"]
             w == Active(call[r].est)
  <2>0. /\ call[r] \in Record /\ row[r] \in Row /\ log[r] \in SUBSET Events
        /\ usage[r] \in Fact_ /\ Good(call[r], row[r], log[r], usage[r])
    BY Parts
  <2>1. /\ c.phase = "reserving" /\ c.route = call[r].route /\ c.key = call[r].key
        /\ c.est = call[r].est /\ c.guard = "drop" /\ c.ran = call[r].ran
        /\ c.answer = call[r].answer /\ c.replay = call[r].replay /\ c.bill = call[r].bill
        /\ c.failed = call[r].failed
    BY <1>0, <1>3, <2>0 DEF Record
  <2>2. c \in Record
    BY <1>0, <1>3, <2>0, Phasing, Amounts DEF Admit, Record
  <2>2w. w \in Row
    BY <1>0, <1>3, <2>0, Amounts DEF Admit, Record
  <2>3. Becomes(r, c, w, log[r], usage[r])
    BY <1>0, <1>3, <2>0, <2>2, <2>2w, Parts DEF Admit, Becomes
  <2>4. FlightsOK'
    BY <1>0, <1>3, NotShowing DEF Admit
  <2> HIDE DEF c
  <2>5. call[r].phase = "routed" /\ (Paid(r) => wired)
    BY <1>0, <1>3 DEF Admit
  <2>6. Good(c, w, log[r], usage[r])
    BY <1>0, <1>3, <2>0, <2>1, <2>5, Phasing, Appended
       DEF Good, NotYet, InHand, Paying, Concluding, Told, Timely, Before, Open, After,
           Over, NoRow, Active, Released, Charged, Paid, Record
  <2> QED
    BY <2>3, <2>4, <2>6, Becoming
<1>4. CASE call[r].route = "local" /\ ~Paid(r)
  <2> DEFINE c == [call[r] EXCEPT !.phase = "preparing",
                                  !.guard = IF wired THEN "drop" ELSE "none"]
             w == IF wired THEN Active(call[r].est) ELSE row[r]
  <2>0. /\ call[r] \in Record /\ row[r] \in Row /\ log[r] \in SUBSET Events
        /\ usage[r] \in Fact_ /\ Good(call[r], row[r], log[r], usage[r])
    BY Parts
  <2>1. /\ c.phase = "preparing" /\ c.route = call[r].route /\ c.key = call[r].key
        /\ c.est = call[r].est /\ c.guard = (IF wired THEN "drop" ELSE "none")
        /\ c.ran = call[r].ran /\ c.answer = call[r].answer /\ c.replay = call[r].replay
        /\ c.bill = call[r].bill /\ c.failed = call[r].failed
    BY <1>0, <1>4, <2>0 DEF Record
  <2>2. c \in Record
    BY <1>0, <1>4, <2>0, Phasing, Amounts DEF Admit, Record
  <2>2w. w \in Row
    BY <1>0, <1>4, <2>0, Amounts DEF Admit, Record
  <2>3. Becomes(r, c, w, log[r], usage[r])
    BY <1>0, <1>4, <2>0, <2>2, <2>2w, Parts DEF Admit, Becomes
  <2>4. FlightsOK'
    BY <1>0, <1>4, NotShowing DEF Admit
  <2> HIDE DEF c
  <2>5. call[r].phase = "routed" /\ (Paid(r) => wired)
    BY <1>0, <1>4 DEF Admit
  <2>6. Good(c, w, log[r], usage[r])
    BY <1>0, <1>4, <2>0, <2>1, <2>5, Phasing, Appended
       DEF Good, NotYet, InHand, Paying, Concluding, Told, Timely, Before, Open, After,
           Over, NoRow, Active, Released, Charged, Paid, Record
  <2> QED
    BY <2>3, <2>4, <2>6, Becoming
<1> QED
  BY <1>0, <1>1, <1>2, <1>3, <1>4

\* The flight and its observer.
LEMMA ReplayedKeeps ==
  ASSUME IInv, NEW r \in Requests, Replayed(r)
  PROVE  IInv'
<1> DEFINE d == [call[r] EXCEPT !.replay = TRUE, !.phase = "finalizing",
                                !.answer = shown[Slot(r)]]
           l == log[r]
<1>10. /\ call[r] \in Record /\ row[r] \in Row /\ log[r] \in SUBSET Events
       /\ Good(call[r], row[r], log[r], usage[r])
  BY Parts
<1>11. PICK ok \in BOOLEAN : Drop(r, [[call[r] EXCEPT !.replay = TRUE] EXCEPT !.phase = "finalizing", !.answer = shown[Slot(r)]], ok)
  BY <1>10 DEF Replayed, Respond
<1>12. Drop(r, d, ok)
  BY <1>11
<1>13. /\ d.phase = "finalizing" /\ d.answer = shown[Slot(r)] /\ d.replay = TRUE
       /\ d.est = call[r].est /\ d.route = call[r].route /\ d.guard = call[r].guard
       /\ d.ran = call[r].ran /\ d.bill = call[r].bill /\ d.failed = call[r].failed
  BY <1>10 DEF Record
<1>14. shown[Slot(r)] \in {"ok", "error"} /\ log[r] \subseteq l
  BY <1>10, Parts DEF Replayed, Good, Concluding, Paying, FlightsOK
<1>14a. l \in SUBSET Events
  BY <1>10, Phasing, Appended DEF Replayed, Events
<1>14b. d \in Record
  BY <1>10, <1>14, Answered
<1>15. Told(call[r], row[r], l)
  BY <1>10, Phasing, Appended
     DEF Replayed, Good, NotYet, Told, Timely, Concluding, Paying, Charged, Before, Open
<1>16. log' = [log EXCEPT ![r] = l] /\ UNCHANGED <<wired, usage>>
  BY Parts DEF Replayed, Logged
<1>17. FlightsOK'
  BY <1>14, NotShowing DEF Replayed, flights
<1> HIDE DEF d
<1>18. Ends(r, d, l)
  BY <1>10, <1>13, <1>14, <1>14a, <1>14b, <1>15, <1>16, Phasing
     DEF Ends, Replayed, After, Good, NotYet, Concluding, Paying, Charged, Before, Open,
         Paid
<1> QED
  BY <1>12, <1>17, <1>18, Responding

LEMMA NotForwardedKeeps ==
  ASSUME IInv, NEW r \in Requests, NotForwarded(r)
  PROVE  IInv'
<1> DEFINE d == [call[r] EXCEPT !.phase = "finalizing", !.answer = "error"]
           l == log[r]
<1>10. /\ call[r] \in Record /\ row[r] \in Row /\ log[r] \in SUBSET Events
       /\ Good(call[r], row[r], log[r], usage[r])
  BY Parts
<1>11. PICK ok \in BOOLEAN : Drop(r, [call[r] EXCEPT !.phase = "finalizing", !.answer = "error"], ok)
  BY <1>10 DEF NotForwarded, Respond
<1>12. Drop(r, d, ok)
  BY <1>11
<1>13. /\ d.phase = "finalizing" /\ d.answer = "error" /\ d.replay = call[r].replay
       /\ d.est = call[r].est /\ d.route = call[r].route /\ d.guard = call[r].guard
       /\ d.ran = call[r].ran /\ d.bill = call[r].bill /\ d.failed = call[r].failed
  BY <1>10 DEF Record
<1>14. "error" \in {"ok", "error"} /\ log[r] \subseteq l
  BY <1>10, Parts DEF NotForwarded, Good, Concluding, Paying, FlightsOK
<1>14a. l \in SUBSET Events
  BY <1>10, Phasing, Appended DEF NotForwarded, Events
<1>14b. d \in Record
  BY <1>10, <1>14, Answered
<1>15. Told(call[r], row[r], l)
  BY <1>10, Phasing, Appended
     DEF NotForwarded, Good, NotYet, Told, Timely, Concluding, Paying, Charged, Before,
         Open
<1>16. log' = [log EXCEPT ![r] = l] /\ UNCHANGED <<wired, usage>>
  BY Parts DEF NotForwarded, Logged
<1>17. FlightsOK'
  BY <1>14, NotShowing DEF NotForwarded, flights
<1> HIDE DEF d
<1>18. Ends(r, d, l)
  BY <1>10, <1>13, <1>14, <1>14a, <1>14b, <1>15, <1>16, Phasing
     DEF Ends, NotForwarded, After, Good, NotYet, Concluding, Paying, Charged, Before,
         Open, Paid
<1> QED
  BY <1>12, <1>17, <1>18, Responding

LEMMA LeadKeeps ==
  ASSUME IInv, NEW r \in Requests, Lead(r)
  PROVE  IInv'
<1>1. CASE Paid(r)
  <2> DEFINE c == [call[r] EXCEPT !.phase = "reserving", !.guard = "drop"]
             w == Active(call[r].est)
  <2>0. /\ call[r] \in Record /\ row[r] \in Row /\ log[r] \in SUBSET Events
        /\ usage[r] \in Fact_ /\ Good(call[r], row[r], log[r], usage[r])
    BY Parts
  <2>1. /\ c.phase = "reserving" /\ c.route = call[r].route /\ c.key = call[r].key
        /\ c.est = call[r].est /\ c.guard = "drop" /\ c.ran = call[r].ran
        /\ c.answer = call[r].answer /\ c.replay = call[r].replay /\ c.bill = call[r].bill
        /\ c.failed = call[r].failed
    BY <1>1, <2>0 DEF Record
  <2>2. c \in Record
    BY <1>1, <2>0, Phasing, Amounts DEF Lead, Record, FlightsOK
  <2>2w. w \in Row
    BY <1>1, <2>0, Amounts DEF Lead, Record
  <2>3. Becomes(r, c, w, log[r], usage[r])
    BY <1>1, <2>0, <2>2, <2>2w, Parts DEF Lead, Becomes, FlightsOK
  <2>4. FlightsOK'
    BY <1>1, Parts DEF Lead, FlightsOK
  <2> HIDE DEF c
  <2>5. call[r].phase = "waiting"
    BY <1>1 DEF Lead
  <2>6. Good(c, w, log[r], usage[r])
    BY <1>1, <2>0, <2>1, <2>5, Phasing, Appended
       DEF Good, NotYet, InHand, Paying, Concluding, Told, Timely, Before, Open, After,
           Over, NoRow, Active, Released, Charged, Paid, Record
  <2> QED
    BY <2>3, <2>4, <2>6, Becoming
<1>2. CASE ~Paid(r)
  <2> DEFINE c == [call[r] EXCEPT !.phase = "dispatching"]
  <2>0. /\ call[r] \in Record /\ row[r] \in Row /\ log[r] \in SUBSET Events
        /\ usage[r] \in Fact_ /\ Good(call[r], row[r], log[r], usage[r])
    BY Parts
  <2>1. /\ c.phase = "dispatching" /\ c.route = call[r].route /\ c.key = call[r].key
        /\ c.est = call[r].est /\ c.guard = call[r].guard /\ c.ran = call[r].ran
        /\ c.answer = call[r].answer /\ c.replay = call[r].replay /\ c.bill = call[r].bill
        /\ c.failed = call[r].failed
    BY <1>2, <2>0 DEF Record
  <2>2. c \in Record
    BY <1>2, <2>0, Phasing, Amounts DEF Lead, Record, FlightsOK
  <2>3. Becomes(r, c, row[r], log[r], usage[r])
    BY <1>2, <2>0, <2>2, Parts DEF Lead, Becomes, FlightsOK
  <2>4. FlightsOK'
    BY <1>2, Parts DEF Lead, FlightsOK
  <2> HIDE DEF c
  <2>5. call[r].phase = "waiting"
    BY <1>2 DEF Lead
  <2>6. Good(c, row[r], log[r], usage[r])
    BY <1>2, <2>0, <2>1, <2>5, Phasing, Appended
       DEF Good, NotYet, InHand, Paying, Concluding, Told, Timely, Before, Open, After,
           Over, NoRow, Active, Released, Charged, Paid, Record
  <2> QED
    BY <2>3, <2>4, <2>6, Becoming
<1> QED
  BY <1>1, <1>2

LEMMA LeadRefusedKeeps ==
  ASSUME IInv, NEW r \in Requests, LeadRefused(r)
  PROVE  IInv'
<1> DEFINE d == [call[r] EXCEPT !.phase = "finalizing", !.answer = "error"]
           l == log[r]
<1>10. /\ call[r] \in Record /\ row[r] \in Row /\ log[r] \in SUBSET Events
       /\ Good(call[r], row[r], log[r], usage[r])
  BY Parts
<1>11. PICK ok \in BOOLEAN : Drop(r, [call[r] EXCEPT !.phase = "finalizing", !.answer = "error"], ok)
  BY <1>10 DEF LeadRefused, Respond
<1>12. Drop(r, d, ok)
  BY <1>11
<1>13. /\ d.phase = "finalizing" /\ d.answer = "error" /\ d.replay = call[r].replay
       /\ d.est = call[r].est /\ d.route = call[r].route /\ d.guard = call[r].guard
       /\ d.ran = call[r].ran /\ d.bill = call[r].bill /\ d.failed = call[r].failed
  BY <1>10 DEF Record
<1>14. "error" \in {"ok", "error"} /\ log[r] \subseteq l
  BY <1>10, Parts DEF LeadRefused, Good, Concluding, Paying, FlightsOK
<1>14a. l \in SUBSET Events
  BY <1>10, Phasing, Appended DEF LeadRefused, Events
<1>14b. d \in Record
  BY <1>10, <1>14, Answered
<1>15. Told(call[r], row[r], l)
  BY <1>10, Phasing, Appended
     DEF LeadRefused, Good, NotYet, Told, Timely, Concluding, Paying, Charged, Before,
         Open
<1>16. log' = [log EXCEPT ![r] = l] /\ UNCHANGED <<wired, usage>>
  BY Parts DEF LeadRefused, Logged
<1>17. FlightsOK'
  BY <1>14, NotShowing DEF LeadRefused, flights
<1> HIDE DEF d
<1>18. Ends(r, d, l)
  BY <1>10, <1>13, <1>14, <1>14a, <1>14b, <1>15, <1>16, Phasing
     DEF Ends, LeadRefused, After, Good, NotYet, Concluding, Paying, Charged, Before,
         Open, Paid
<1> QED
  BY <1>12, <1>17, <1>18, Responding

LEMMA ReservedKeeps ==
  ASSUME IInv, NEW r \in Requests, Reserved(r)
  PROVE  IInv'
<1>1. CASE call[r].route = "proxy"
  <2> DEFINE c == [call[r] EXCEPT !.phase = "dispatching"]
             l == log[r] \cup {Event(r)}
  <2>0. /\ call[r] \in Record /\ row[r] \in Row /\ log[r] \in SUBSET Events
        /\ usage[r] \in Fact_ /\ Good(call[r], row[r], log[r], usage[r])
    BY Parts
  <2>1. /\ c.phase = "dispatching" /\ c.route = call[r].route /\ c.key = call[r].key
        /\ c.est = call[r].est /\ c.guard = call[r].guard /\ c.ran = call[r].ran
        /\ c.answer = call[r].answer /\ c.replay = call[r].replay /\ c.bill = call[r].bill
        /\ c.failed = call[r].failed
    BY <1>1, <2>0 DEF Record
  <2>2. c \in Record
    BY <1>1, <2>0, Phasing, Amounts DEF Reserved, Logged, Record
  <2>2l. l \in SUBSET Events
    BY <1>1, <2>0, Phasing, Appended DEF Reserved, Logged, Events
  <2>3. Becomes(r, c, row[r], l, usage[r])
    BY <1>1, <2>0, <2>2, <2>2l, Parts DEF Reserved, Logged, Becomes
  <2>4. FlightsOK'
    BY <1>1, NotShowing DEF Reserved, Logged
  <2> HIDE DEF c
  <2>5. call[r].phase = "reserving"
    BY <1>1 DEF Reserved, Logged
  <2>6. Good(c, row[r], l, usage[r])
    BY <1>1, <2>0, <2>1, <2>5, Phasing, Appended
       DEF Good, NotYet, InHand, Paying, Concluding, Told, Timely, Before, Open, After,
           Over, NoRow, Active, Released, Charged, Paid, Record
  <2> QED
    BY <2>3, <2>4, <2>6, Becoming
<1>2. CASE call[r].route # "proxy"
  <2> DEFINE c == [call[r] EXCEPT !.phase = "preparing"]
             l == log[r] \cup {Event(r)}
  <2>0. /\ call[r] \in Record /\ row[r] \in Row /\ log[r] \in SUBSET Events
        /\ usage[r] \in Fact_ /\ Good(call[r], row[r], log[r], usage[r])
    BY Parts
  <2>1. /\ c.phase = "preparing" /\ c.route = call[r].route /\ c.key = call[r].key
        /\ c.est = call[r].est /\ c.guard = call[r].guard /\ c.ran = call[r].ran
        /\ c.answer = call[r].answer /\ c.replay = call[r].replay /\ c.bill = call[r].bill
        /\ c.failed = call[r].failed
    BY <1>2, <2>0 DEF Record
  <2>2. c \in Record
    BY <1>2, <2>0, Phasing, Amounts DEF Reserved, Logged, Record
  <2>2l. l \in SUBSET Events
    BY <1>2, <2>0, Phasing, Appended DEF Reserved, Logged, Events
  <2>3. Becomes(r, c, row[r], l, usage[r])
    BY <1>2, <2>0, <2>2, <2>2l, Parts DEF Reserved, Logged, Becomes
  <2>4. FlightsOK'
    BY <1>2, NotShowing DEF Reserved, Logged
  <2> HIDE DEF c
  <2>5. call[r].phase = "reserving"
    BY <1>2 DEF Reserved, Logged
  <2>6. Good(c, row[r], l, usage[r])
    BY <1>2, <2>0, <2>1, <2>5, Phasing, Appended
       DEF Good, NotYet, InHand, Paying, Concluding, Told, Timely, Before, Open, After,
           Over, NoRow, Active, Released, Charged, Paid, Record
  <2> QED
    BY <2>3, <2>4, <2>6, Becoming
<1> QED
  BY <1>1, <1>2

LEMMA DispatchedKeeps ==
  ASSUME IInv, NEW r \in Requests, Dispatched(r)
  PROVE  IInv'
<1>1. CASE call[r].route = "proxy" /\ Paid(r)
  <2> DEFINE c == [call[r] EXCEPT !.phase = "sending", !.guard = "keep"]
             l == log[r] \cup {Event(r)}
  <2>0. /\ call[r] \in Record /\ row[r] \in Row /\ log[r] \in SUBSET Events
        /\ usage[r] \in Fact_ /\ Good(call[r], row[r], log[r], usage[r])
    BY Parts
  <2>1. /\ c.phase = "sending" /\ c.route = call[r].route /\ c.key = call[r].key
        /\ c.est = call[r].est /\ c.guard = "keep" /\ c.ran = call[r].ran
        /\ c.answer = call[r].answer /\ c.replay = call[r].replay /\ c.bill = call[r].bill
        /\ c.failed = call[r].failed
    BY <1>1, <2>0 DEF Record
  <2>2. c \in Record
    BY <1>1, <2>0, Phasing, Amounts DEF Dispatched, Logged, Record
  <2>2l. l \in SUBSET Events
    BY <1>1, <2>0, Phasing, Appended DEF Dispatched, Logged, Events
  <2>3. Becomes(r, c, row[r], l, usage[r])
    BY <1>1, <2>0, <2>2, <2>2l, Parts DEF Dispatched, Logged, Becomes
  <2>4. FlightsOK'
    BY <1>1, NotShowing DEF Dispatched, Logged
  <2> HIDE DEF c
  <2>5. call[r].phase = "dispatching"
    BY <1>1 DEF Dispatched, Logged
  <2>6. Good(c, row[r], l, usage[r])
    BY <1>1, <2>0, <2>1, <2>5, Phasing, Appended
       DEF Good, NotYet, InHand, Paying, Concluding, Told, Timely, Before, Open, After,
           Over, NoRow, Active, Released, Charged, Paid, Record
  <2> QED
    BY <2>3, <2>4, <2>6, Becoming
<1>2. CASE call[r].route = "proxy" /\ ~Paid(r)
  <2> DEFINE c == [call[r] EXCEPT !.phase = "sending", !.guard = call[r].guard]
             l == log[r] \cup {Event(r)}
  <2>0. /\ call[r] \in Record /\ row[r] \in Row /\ log[r] \in SUBSET Events
        /\ usage[r] \in Fact_ /\ Good(call[r], row[r], log[r], usage[r])
    BY Parts
  <2>1. /\ c.phase = "sending" /\ c.route = call[r].route /\ c.key = call[r].key
        /\ c.est = call[r].est /\ c.guard = call[r].guard /\ c.ran = call[r].ran
        /\ c.answer = call[r].answer /\ c.replay = call[r].replay /\ c.bill = call[r].bill
        /\ c.failed = call[r].failed
    BY <1>2, <2>0 DEF Record
  <2>2. c \in Record
    BY <1>2, <2>0, Phasing, Amounts DEF Dispatched, Logged, Record
  <2>2l. l \in SUBSET Events
    BY <1>2, <2>0, Phasing, Appended DEF Dispatched, Logged, Events
  <2>3. Becomes(r, c, row[r], l, usage[r])
    BY <1>2, <2>0, <2>2, <2>2l, Parts DEF Dispatched, Logged, Becomes
  <2>4. FlightsOK'
    BY <1>2, NotShowing DEF Dispatched, Logged
  <2> HIDE DEF c
  <2>5. call[r].phase = "dispatching"
    BY <1>2 DEF Dispatched, Logged
  <2>6. Good(c, row[r], l, usage[r])
    BY <1>2, <2>0, <2>1, <2>5, Phasing, Appended
       DEF Good, NotYet, InHand, Paying, Concluding, Told, Timely, Before, Open, After,
           Over, NoRow, Active, Released, Charged, Paid, Record
  <2> QED
    BY <2>3, <2>4, <2>6, Becoming
<1>3. CASE call[r].route # "proxy"
  <2> DEFINE c == [call[r] EXCEPT !.phase = "chatting", !.guard = call[r].guard]
             l == log[r] \cup {Event(r)}
  <2>0. /\ call[r] \in Record /\ row[r] \in Row /\ log[r] \in SUBSET Events
        /\ usage[r] \in Fact_ /\ Good(call[r], row[r], log[r], usage[r])
    BY Parts
  <2>1. /\ c.phase = "chatting" /\ c.route = call[r].route /\ c.key = call[r].key
        /\ c.est = call[r].est /\ c.guard = call[r].guard /\ c.ran = call[r].ran
        /\ c.answer = call[r].answer /\ c.replay = call[r].replay /\ c.bill = call[r].bill
        /\ c.failed = call[r].failed
    BY <1>3, <2>0 DEF Record
  <2>2. c \in Record
    BY <1>3, <2>0, Phasing, Amounts DEF Dispatched, Logged, Record
  <2>2l. l \in SUBSET Events
    BY <1>3, <2>0, Phasing, Appended DEF Dispatched, Logged, Events
  <2>3. Becomes(r, c, row[r], l, usage[r])
    BY <1>3, <2>0, <2>2, <2>2l, Parts DEF Dispatched, Logged, Becomes
  <2>4. FlightsOK'
    BY <1>3, NotShowing DEF Dispatched, Logged
  <2> HIDE DEF c
  <2>5. call[r].phase = "dispatching"
    BY <1>3 DEF Dispatched, Logged
  <2>6. Good(c, row[r], l, usage[r])
    BY <1>3, <2>0, <2>1, <2>5, Phasing, Appended
       DEF Good, NotYet, InHand, Paying, Concluding, Told, Timely, Before, Open, After,
           Over, NoRow, Active, Released, Charged, Paid, Record
  <2> QED
    BY <2>3, <2>4, <2>6, Becoming
<1> QED
  BY <1>1, <1>2, <1>3

LEMMA PreludeFailedKeeps ==
  ASSUME IInv, NEW r \in Requests, PreludeFailed(r)
  PROVE  IInv'
<1> DEFINE d == [call[r] EXCEPT !.phase = "finalizing", !.answer = "error"]
           l == log[r]
<1>10. /\ call[r] \in Record /\ row[r] \in Row /\ log[r] \in SUBSET Events
       /\ Good(call[r], row[r], log[r], usage[r])
  BY Parts
<1>11. PICK ok \in BOOLEAN : Drop(r, [call[r] EXCEPT !.phase = "finalizing", !.answer = "error"], ok)
  BY <1>10 DEF PreludeFailed, Respond
<1>12. Drop(r, d, ok)
  BY <1>11
<1>13. /\ d.phase = "finalizing" /\ d.answer = "error" /\ d.replay = call[r].replay
       /\ d.est = call[r].est /\ d.route = call[r].route /\ d.guard = call[r].guard
       /\ d.ran = call[r].ran /\ d.bill = call[r].bill /\ d.failed = call[r].failed
  BY <1>10 DEF Record
<1>14. "error" \in {"ok", "error"} /\ log[r] \subseteq l
  BY <1>10, Parts DEF PreludeFailed, Good, Concluding, Paying, FlightsOK
<1>14a. l \in SUBSET Events
  BY <1>10, Phasing, Appended DEF PreludeFailed, Events
<1>14b. d \in Record
  BY <1>10, <1>14, Answered
<1>15. Told(call[r], row[r], l)
  BY <1>10, Phasing, Appended
     DEF PreludeFailed, Good, NotYet, Told, Timely, Concluding, Paying, Charged, Before,
         Open
<1>16. log' = [log EXCEPT ![r] = l] /\ UNCHANGED <<wired, usage>>
  BY Parts DEF PreludeFailed, Logged
<1>17. FlightsOK'
  BY <1>14, Showing DEF PreludeFailed, flights
<1> HIDE DEF d
<1>18. Ends(r, d, l)
  BY <1>10, <1>13, <1>14, <1>14a, <1>14b, <1>15, <1>16, Phasing
     DEF Ends, PreludeFailed, After, Good, NotYet, Concluding, Paying, Charged, Before,
         Open, Paid
<1> QED
  BY <1>12, <1>17, <1>18, Responding

\* The POST.
LEMMA NotExecutedKeeps ==
  ASSUME IInv, NEW r \in Requests, NotExecuted(r)
  PROVE  IInv'
<1>1. CASE Paid(r)
  <2>0. PICK ok \in BOOLEAN :
          /\ ReleaseNow(r, ok)
          /\ call' = [call EXCEPT
               ![r].phase = IF ok THEN "completing" ELSE "finalizing",
               ![r].answer = "error", ![r].guard = "none", ![r].failed = @ \/ ~ok]
    BY <1>1 DEF NotExecuted
  <2>1. call[r].phase = "sending" /\ call[r].guard # "none" /\ call[r].failed \in BOOLEAN
    BY <1>1, Parts DEF NotExecuted, Good, InHand, Record, Paid
  <2>2. CASE ok = TRUE
    <3> DEFINE c == [call[r] EXCEPT !.phase = "completing", !.answer = "error",
                                  !.guard = "none", !.failed = call[r].failed]
               w == Released(row[r])
    <3>0. /\ call[r] \in Record /\ row[r] \in Row /\ log[r] \in SUBSET Events
          /\ usage[r] \in Fact_ /\ Good(call[r], row[r], log[r], usage[r])
      BY Parts
    <3>1. /\ c.phase = "completing" /\ c.route = call[r].route /\ c.key = call[r].key
          /\ c.est = call[r].est /\ c.guard = "none" /\ c.ran = call[r].ran
          /\ c.answer = "error" /\ c.replay = call[r].replay /\ c.bill = call[r].bill
          /\ c.failed = call[r].failed
      BY <1>1, <2>0, <2>1, <2>2, <3>0 DEF Record
    <3>2. c \in Record
      BY <1>1, <2>0, <2>1, <2>2, <3>0, Phasing, Amounts
         DEF NotExecuted, ReleaseNow, MayPublish, Record
    <3>2w. w \in Row
      BY <1>1, <2>0, <2>1, <2>2, <3>0, Amounts
         DEF NotExecuted, ReleaseNow, MayPublish, Record
    <3>3. Becomes(r, c, w, log[r], usage[r])
      BY <1>1, <2>0, <2>1, <2>2, <3>0, <3>2, <3>2w, Parts
         DEF NotExecuted, ReleaseNow, MayPublish, Becomes
    <3>4. FlightsOK'
      BY <1>1, <2>0, <2>1, <2>2, Showing DEF NotExecuted, ReleaseNow, MayPublish
    <3> HIDE DEF c
    <3>5. call[r].phase = "sending"
      BY <1>1, <2>0, <2>1, <2>2 DEF NotExecuted, ReleaseNow, MayPublish
    <3>6. NotYet(c, w, usage[r])
      BY <1>1, <2>0, <2>1, <2>2, <3>0, <3>1, <3>5, Phasing, Appended
         DEF Good, NotYet, InHand, Paying, Concluding, Told, Timely, Before, Open, After,
             Over, NoRow, Active, Released, Charged, Paid, Record
    <3>7. InHand(c, w)
      BY <1>1, <2>0, <2>1, <2>2, <3>0, <3>1, <3>5, Phasing, Appended
         DEF Good, NotYet, InHand, Paying, Concluding, Told, Timely, Before, Open, After,
             Over, NoRow, Active, Released, Charged, Paid, Record
    <3>8. Paying(c, w, log[r], usage[r])
      BY <1>1, <2>0, <2>1, <2>2, <3>0, <3>1, <3>5, Phasing, Appended
         DEF Good, NotYet, InHand, Paying, Concluding, Told, Timely, Before, Open, After,
             Over, NoRow, Active, Released, Charged, Paid, Record
    <3>9. Concluding(c, w)
      BY <1>1, <2>0, <2>1, <2>2, <3>0, <3>1, <3>5, Phasing, Appended
         DEF Good, NotYet, InHand, Paying, Concluding, Told, Timely, Before, Open, After,
             Over, NoRow, Active, Released, Charged, Paid, Record
    <3>10. Told(c, w, log[r])
      BY <1>1, <2>0, <2>1, <2>2, <3>0, <3>1, <3>5, Phasing, Appended
         DEF Good, NotYet, InHand, Paying, Concluding, Told, Timely, Before, Open, After,
             Over, NoRow, Active, Released, Charged, Paid, Record
    <3>11. Timely(c, log[r])
      BY <1>1, <2>0, <2>1, <2>2, <3>0, <3>1, <3>5, Phasing, Appended
         DEF Good, NotYet, InHand, Paying, Concluding, Told, Timely, Before, Open, After,
             Over, NoRow, Active, Released, Charged, Paid, Record
    <3> QED
      BY <3>3, <3>4, <3>6, <3>7, <3>8, <3>9, <3>10, <3>11, Becoming DEF Good
  <2>3. CASE ok = FALSE
    <3> DEFINE c == [call[r] EXCEPT !.phase = "finalizing", !.answer = "error",
                                  !.guard = "none", !.failed = TRUE]
    <3>0. /\ call[r] \in Record /\ row[r] \in Row /\ log[r] \in SUBSET Events
          /\ usage[r] \in Fact_ /\ Good(call[r], row[r], log[r], usage[r])
      BY Parts
    <3>1. /\ c.phase = "finalizing" /\ c.route = call[r].route /\ c.key = call[r].key
          /\ c.est = call[r].est /\ c.guard = "none" /\ c.ran = call[r].ran
          /\ c.answer = "error" /\ c.replay = call[r].replay /\ c.bill = call[r].bill
          /\ c.failed = TRUE
      BY <1>1, <2>0, <2>1, <2>3, <3>0 DEF Record
    <3>2. c \in Record
      BY <1>1, <2>0, <2>1, <2>3, <3>0, Phasing, Amounts
         DEF NotExecuted, ReleaseNow, MayPublish, Record
    <3>3. Becomes(r, c, row[r], log[r], usage[r])
      BY <1>1, <2>0, <2>1, <2>3, <3>0, <3>2, Parts
         DEF NotExecuted, ReleaseNow, MayPublish, Becomes
    <3>4. FlightsOK'
      BY <1>1, <2>0, <2>1, <2>3, Showing DEF NotExecuted, ReleaseNow, MayPublish
    <3> HIDE DEF c
    <3>5. call[r].phase = "sending"
      BY <1>1, <2>0, <2>1, <2>3 DEF NotExecuted, ReleaseNow, MayPublish
    <3>6. NotYet(c, row[r], usage[r])
      BY <1>1, <2>0, <2>1, <2>3, <3>0, <3>1, <3>5, Phasing, Appended
         DEF Good, NotYet, InHand, Paying, Concluding, Told, Timely, Before, Open, After,
             Over, NoRow, Active, Released, Charged, Paid, Record
    <3>7. InHand(c, row[r])
      BY <1>1, <2>0, <2>1, <2>3, <3>0, <3>1, <3>5, Phasing, Appended
         DEF Good, NotYet, InHand, Paying, Concluding, Told, Timely, Before, Open, After,
             Over, NoRow, Active, Released, Charged, Paid, Record
    <3>8. Paying(c, row[r], log[r], usage[r])
      BY <1>1, <2>0, <2>1, <2>3, <3>0, <3>1, <3>5, Phasing, Appended
         DEF Good, NotYet, InHand, Paying, Concluding, Told, Timely, Before, Open, After,
             Over, NoRow, Active, Released, Charged, Paid, Record
    <3>9. Concluding(c, row[r])
      BY <1>1, <2>0, <2>1, <2>3, <3>0, <3>1, <3>5, Phasing, Appended
         DEF Good, NotYet, InHand, Paying, Concluding, Told, Timely, Before, Open, After,
             Over, NoRow, Active, Released, Charged, Paid, Record
    <3>10. Told(c, row[r], log[r])
      BY <1>1, <2>0, <2>1, <2>3, <3>0, <3>1, <3>5, Phasing, Appended
         DEF Good, NotYet, InHand, Paying, Concluding, Told, Timely, Before, Open, After,
             Over, NoRow, Active, Released, Charged, Paid, Record
    <3>11. Timely(c, log[r])
      BY <1>1, <2>0, <2>1, <2>3, <3>0, <3>1, <3>5, Phasing, Appended
         DEF Good, NotYet, InHand, Paying, Concluding, Told, Timely, Before, Open, After,
             Over, NoRow, Active, Released, Charged, Paid, Record
    <3> QED
      BY <3>3, <3>4, <3>6, <3>7, <3>8, <3>9, <3>10, <3>11, Becoming DEF Good
  <2> QED
    BY <2>2, <2>3
<1>2. CASE ~Paid(r)
  <2> DEFINE c == [call[r] EXCEPT !.phase = "completing", !.answer = "error"]
  <2>0. /\ call[r] \in Record /\ row[r] \in Row /\ log[r] \in SUBSET Events
        /\ usage[r] \in Fact_ /\ Good(call[r], row[r], log[r], usage[r])
    BY Parts
  <2>1. /\ c.phase = "completing" /\ c.route = call[r].route /\ c.key = call[r].key
        /\ c.est = call[r].est /\ c.guard = call[r].guard /\ c.ran = call[r].ran
        /\ c.answer = "error" /\ c.replay = call[r].replay /\ c.bill = call[r].bill
        /\ c.failed = call[r].failed
    BY <1>2, <2>0 DEF Record
  <2>2. c \in Record
    BY <1>2, <2>0, Phasing, Amounts DEF NotExecuted, MayPublish, Record
  <2>3. Becomes(r, c, row[r], log[r], usage[r])
    BY <1>2, <2>0, <2>2, Parts DEF NotExecuted, MayPublish, Becomes
  <2>4. FlightsOK'
    BY <1>2, NotShowing DEF NotExecuted, MayPublish
  <2> HIDE DEF c
  <2>5. call[r].phase = "sending"
    BY <1>2 DEF NotExecuted, MayPublish
  <2>6. Good(c, row[r], log[r], usage[r])
    BY <1>2, <2>0, <2>1, <2>5, Phasing, Appended
       DEF Good, NotYet, InHand, Paying, Concluding, Told, Timely, Before, Open, After,
           Over, NoRow, Active, Released, Charged, Paid, Record
  <2> QED
    BY <2>3, <2>4, <2>6, Becoming
<1> QED
  BY <1>1, <1>2

LEMMA InDoubtKeeps ==
  ASSUME IInv, NEW r \in Requests, InDoubt(r)
  PROVE  IInv'
<1>1. CASE Paid(r)
  <2> DEFINE c == [call[r] EXCEPT !.phase = "completing", !.answer = "error",
                                  !.guard = "none", !.ran = "maybe"]
  <2>0. /\ call[r] \in Record /\ row[r] \in Row /\ log[r] \in SUBSET Events
        /\ usage[r] \in Fact_ /\ Good(call[r], row[r], log[r], usage[r])
    BY Parts
  <2>1. /\ c.phase = "completing" /\ c.route = call[r].route /\ c.key = call[r].key
        /\ c.est = call[r].est /\ c.guard = "none" /\ c.ran = "maybe" /\ c.answer = "error"
        /\ c.replay = call[r].replay /\ c.bill = call[r].bill /\ c.failed = call[r].failed
    BY <1>1, <2>0 DEF Record
  <2>2. c \in Record
    BY <1>1, <2>0, Phasing, Amounts DEF InDoubt, MayPublish, Record
  <2>3. Becomes(r, c, row[r], log[r], usage[r])
    BY <1>1, <2>0, <2>2, Parts DEF InDoubt, MayPublish, Becomes
  <2>4. FlightsOK'
    BY <1>1, Showing DEF InDoubt, MayPublish
  <2> HIDE DEF c
  <2>5. call[r].phase = "sending"
    BY <1>1 DEF InDoubt, MayPublish
  <2>6. Good(c, row[r], log[r], usage[r])
    BY <1>1, <2>0, <2>1, <2>5, Phasing, Appended
       DEF Good, NotYet, InHand, Paying, Concluding, Told, Timely, Before, Open, After,
           Over, NoRow, Active, Released, Charged, Paid, Record
  <2> QED
    BY <2>3, <2>4, <2>6, Becoming
<1>2. CASE ~Paid(r)
  <2> DEFINE c == [call[r] EXCEPT !.phase = "completing", !.answer = "error",
                                  !.guard = call[r].guard, !.ran = "maybe"]
  <2>0. /\ call[r] \in Record /\ row[r] \in Row /\ log[r] \in SUBSET Events
        /\ usage[r] \in Fact_ /\ Good(call[r], row[r], log[r], usage[r])
    BY Parts
  <2>1. /\ c.phase = "completing" /\ c.route = call[r].route /\ c.key = call[r].key
        /\ c.est = call[r].est /\ c.guard = call[r].guard /\ c.ran = "maybe"
        /\ c.answer = "error" /\ c.replay = call[r].replay /\ c.bill = call[r].bill
        /\ c.failed = call[r].failed
    BY <1>2, <2>0 DEF Record
  <2>2. c \in Record
    BY <1>2, <2>0, Phasing, Amounts DEF InDoubt, MayPublish, Record
  <2>3. Becomes(r, c, row[r], log[r], usage[r])
    BY <1>2, <2>0, <2>2, Parts DEF InDoubt, MayPublish, Becomes
  <2>4. FlightsOK'
    BY <1>2, NotShowing DEF InDoubt, MayPublish
  <2> HIDE DEF c
  <2>5. call[r].phase = "sending"
    BY <1>2 DEF InDoubt, MayPublish
  <2>6. Good(c, row[r], log[r], usage[r])
    BY <1>2, <2>0, <2>1, <2>5, Phasing, Appended
       DEF Good, NotYet, InHand, Paying, Concluding, Told, Timely, Before, Open, After,
           Over, NoRow, Active, Released, Charged, Paid, Record
  <2> QED
    BY <2>3, <2>4, <2>6, Becoming
<1> QED
  BY <1>1, <1>2

LEMMA SettledKeeps ==
  ASSUME IInv, NEW r \in Requests, Settled(r)
  PROVE  IInv'
<1>p. PICK bill \in Bills :
        /\ row' = [row EXCEPT ![r] = Charged(bill)]
        /\ call' = [call EXCEPT ![r].phase = "completing", ![r].answer = "ok",
                     ![r].guard = "none", ![r].ran = "yes", ![r].bill = bill]
  BY DEF Settled
<1>b. bill \in Nat /\ bill # NoBill
  BY Amounts
<1> DEFINE c == [call[r] EXCEPT !.phase = "completing", !.answer = "ok", !.guard = "none",
                                !.ran = "yes", !.bill = bill]
           w == Charged(bill)
<1>0. /\ call[r] \in Record /\ row[r] \in Row /\ log[r] \in SUBSET Events
      /\ usage[r] \in Fact_ /\ Good(call[r], row[r], log[r], usage[r])
  BY Parts
<1>1. /\ c.phase = "completing" /\ c.route = call[r].route /\ c.key = call[r].key
      /\ c.est = call[r].est /\ c.guard = "none" /\ c.ran = "yes" /\ c.answer = "ok"
      /\ c.replay = call[r].replay /\ c.bill = bill /\ c.failed = call[r].failed
  BY <1>b, <1>p, <1>0 DEF Record
<1>2. c \in Record
  BY <1>b, <1>p, <1>0, Phasing, Amounts DEF Settled, MayPublish, Record
<1>2w. w \in Row
  BY <1>b, <1>p, <1>0, Amounts DEF Settled, MayPublish, Record
<1>3. Becomes(r, c, w, log[r], usage[r])
  BY <1>b, <1>p, <1>0, <1>2, <1>2w, Parts DEF Settled, MayPublish, Becomes
<1>4. FlightsOK'
  BY <1>b, <1>p, Showing DEF Settled, MayPublish
<1> HIDE DEF c
<1>5. call[r].phase = "sending" /\ Paid(r)
  BY <1>b, <1>p DEF Settled, MayPublish
<1>6. Good(c, w, log[r], usage[r])
  BY <1>b, <1>p, <1>0, <1>1, <1>5, Phasing, Appended
     DEF Good, NotYet, InHand, Paying, Concluding, Told, Timely, Before, Open, After,
         Over, NoRow, Active, Released, Charged, Paid, Record
<1> QED
  BY <1>3, <1>4, <1>6, Becoming

LEMMA UnsettledKeeps ==
  ASSUME IInv, NEW r \in Requests, Unsettled(r)
  PROVE  IInv'
<1> DEFINE c == [call[r] EXCEPT !.phase = "completing", !.answer = "error",
                                !.guard = "none", !.ran = "yes", !.failed = TRUE]
<1>0. /\ call[r] \in Record /\ row[r] \in Row /\ log[r] \in SUBSET Events
      /\ usage[r] \in Fact_ /\ Good(call[r], row[r], log[r], usage[r])
  BY Parts
<1>1. /\ c.phase = "completing" /\ c.route = call[r].route /\ c.key = call[r].key
      /\ c.est = call[r].est /\ c.guard = "none" /\ c.ran = "yes" /\ c.answer = "error"
      /\ c.replay = call[r].replay /\ c.bill = call[r].bill /\ c.failed = TRUE
  BY <1>0 DEF Record
<1>2. c \in Record
  BY <1>0, Phasing, Amounts DEF Unsettled, MayPublish, Record
<1>3. Becomes(r, c, row[r], log[r], usage[r])
  BY <1>0, <1>2, Parts DEF Unsettled, MayPublish, Becomes
<1>4. FlightsOK'
  BY Showing DEF Unsettled, MayPublish
<1> HIDE DEF c
<1>5. call[r].phase = "sending" /\ Paid(r)
  BY DEF Unsettled, MayPublish
<1>6. Good(c, row[r], log[r], usage[r])
  BY <1>0, <1>1, <1>5, Phasing, Appended
     DEF Good, NotYet, InHand, Paying, Concluding, Told, Timely, Before, Open, After,
         Over, NoRow, Active, Released, Charged, Paid, Record
<1> QED
  BY <1>3, <1>4, <1>6, Becoming

LEMMA SucceededKeeps ==
  ASSUME IInv, NEW r \in Requests, Succeeded(r)
  PROVE  IInv'
<1> DEFINE c == [call[r] EXCEPT !.phase = "completing", !.answer = "ok", !.ran = "yes"]
<1>0. /\ call[r] \in Record /\ row[r] \in Row /\ log[r] \in SUBSET Events
      /\ usage[r] \in Fact_ /\ Good(call[r], row[r], log[r], usage[r])
  BY Parts
<1>1. /\ c.phase = "completing" /\ c.route = call[r].route /\ c.key = call[r].key
      /\ c.est = call[r].est /\ c.guard = call[r].guard /\ c.ran = "yes" /\ c.answer = "ok"
      /\ c.replay = call[r].replay /\ c.bill = call[r].bill /\ c.failed = call[r].failed
  BY <1>0 DEF Record
<1>2. c \in Record
  BY <1>0, Phasing, Amounts DEF Succeeded, Record
<1>3. Becomes(r, c, row[r], log[r], usage[r])
  BY <1>0, <1>2, Parts DEF Succeeded, Becomes
<1>4. FlightsOK'
  BY NotShowing DEF Succeeded
<1> HIDE DEF c
<1>5. call[r].phase = "sending" /\ ~Paid(r)
  BY DEF Succeeded
<1>6. Good(c, row[r], log[r], usage[r])
  BY <1>0, <1>1, <1>5, Phasing, Appended
     DEF Good, NotYet, InHand, Paying, Concluding, Told, Timely, Before, Open, After,
         Over, NoRow, Active, Released, Charged, Paid, Record
<1> QED
  BY <1>3, <1>4, <1>6, Becoming

\* The local execution.
LEMMA PreparedKeeps ==
  ASSUME IInv, NEW r \in Requests, Prepared(r)
  PROVE  IInv'
<1> DEFINE c == [call[r] EXCEPT !.phase = "dispatching"]
<1>0. /\ call[r] \in Record /\ row[r] \in Row /\ log[r] \in SUBSET Events
      /\ usage[r] \in Fact_ /\ Good(call[r], row[r], log[r], usage[r])
  BY Parts
<1>1. /\ c.phase = "dispatching" /\ c.route = call[r].route /\ c.key = call[r].key
      /\ c.est = call[r].est /\ c.guard = call[r].guard /\ c.ran = call[r].ran
      /\ c.answer = call[r].answer /\ c.replay = call[r].replay /\ c.bill = call[r].bill
      /\ c.failed = call[r].failed
  BY <1>0 DEF Record
<1>2. c \in Record
  BY <1>0, Phasing, Amounts DEF Prepared, Record
<1>3. Becomes(r, c, row[r], log[r], usage[r])
  BY <1>0, <1>2, Parts DEF Prepared, Becomes
<1>4. FlightsOK'
  BY NotShowing DEF Prepared
<1> HIDE DEF c
<1>5. call[r].phase = "preparing"
  BY DEF Prepared
<1>6. Good(c, row[r], log[r], usage[r])
  BY <1>0, <1>1, <1>5, Phasing, Appended
     DEF Good, NotYet, InHand, Paying, Concluding, Told, Timely, Before, Open, After,
         Over, NoRow, Active, Released, Charged, Paid, Record
<1> QED
  BY <1>3, <1>4, <1>6, Becoming

LEMMA PreparationFailedKeeps ==
  ASSUME IInv, NEW r \in Requests, PreparationFailed(r)
  PROVE  IInv'
<1> DEFINE d == [call[r] EXCEPT !.phase = "finalizing", !.answer = "error"]
           l == log[r]
<1>10. /\ call[r] \in Record /\ row[r] \in Row /\ log[r] \in SUBSET Events
       /\ Good(call[r], row[r], log[r], usage[r])
  BY Parts
<1>11. PICK ok \in BOOLEAN : Drop(r, [call[r] EXCEPT !.phase = "finalizing", !.answer = "error"], ok)
  BY <1>10 DEF PreparationFailed, Respond
<1>12. Drop(r, d, ok)
  BY <1>11
<1>13. /\ d.phase = "finalizing" /\ d.answer = "error" /\ d.replay = call[r].replay
       /\ d.est = call[r].est /\ d.route = call[r].route /\ d.guard = call[r].guard
       /\ d.ran = call[r].ran /\ d.bill = call[r].bill /\ d.failed = call[r].failed
  BY <1>10 DEF Record
<1>14. "error" \in {"ok", "error"} /\ log[r] \subseteq l
  BY <1>10, Parts DEF PreparationFailed, Good, Concluding, Paying, FlightsOK
<1>14a. l \in SUBSET Events
  BY <1>10, Phasing, Appended DEF PreparationFailed, Events
<1>14b. d \in Record
  BY <1>10, <1>14, Answered
<1>15. Told(call[r], row[r], l)
  BY <1>10, Phasing, Appended
     DEF PreparationFailed, Good, NotYet, Told, Timely, Concluding, Paying, Charged,
         Before, Open
<1>16. log' = [log EXCEPT ![r] = l] /\ UNCHANGED <<wired, usage>>
  BY Parts DEF PreparationFailed, Logged
<1>17. FlightsOK'
  BY <1>14, NotShowing DEF PreparationFailed, flights
<1> HIDE DEF d
<1>18. Ends(r, d, l)
  BY <1>10, <1>13, <1>14, <1>14a, <1>14b, <1>15, <1>16, Phasing
     DEF Ends, PreparationFailed, After, Good, NotYet, Concluding, Paying, Charged,
         Before, Open, Paid
<1> QED
  BY <1>12, <1>17, <1>18, Responding

LEMMA ChattedKeeps ==
  ASSUME IInv, NEW r \in Requests, Chatted(r)
  PROVE  IInv'
<1>1. PICK charged \in BOOLEAN, told \in BOOLEAN, bill \in IF Paid(r) THEN Bills ELSE {0} :
        /\ call' = [call EXCEPT ![r].phase = "completing", ![r].answer = "ok",
                     ![r].guard = "none", ![r].ran = "yes",
                     ![r].bill = IF call[r].guard # "none" /\ charged /\ told /\ Paid(r) THEN bill ELSE NoBill,
                     ![r].failed = @ \/ (call[r].guard # "none" /\ ~charged)]
        /\ row' = [row EXCEPT ![r] = IF call[r].guard # "none" /\ charged THEN Charged(bill) ELSE @]
  BY DEF Chatted
<1>2. bill \in Nat /\ call[r].failed \in BOOLEAN
  BY Amounts, Parts DEF Record
<1>3. CASE call[r].guard # "none" /\ charged = TRUE /\ told = TRUE /\ Paid(r)
  <2> DEFINE c == [call[r] EXCEPT !.phase = "completing", !.answer = "ok",
                                  !.guard = "none", !.ran = "yes", !.bill = bill,
                                  !.failed = call[r].failed]
             w == Charged(bill)
  <2>0. /\ call[r] \in Record /\ row[r] \in Row /\ log[r] \in SUBSET Events
        /\ usage[r] \in Fact_ /\ Good(call[r], row[r], log[r], usage[r])
    BY Parts
  <2>1. /\ c.phase = "completing" /\ c.route = call[r].route /\ c.key = call[r].key
        /\ c.est = call[r].est /\ c.guard = "none" /\ c.ran = "yes" /\ c.answer = "ok"
        /\ c.replay = call[r].replay /\ c.bill = bill /\ c.failed = call[r].failed
    BY <1>1, <1>2, <1>3, <2>0 DEF Record
  <2>2. c \in Record
    BY <1>1, <1>2, <1>3, <2>0, Phasing, Amounts DEF Chatted, Record
  <2>2w. w \in Row
    BY <1>1, <1>2, <1>3, <2>0, Amounts DEF Chatted, Record
  <2>3. Becomes(r, c, w, log[r], usage[r])
    BY <1>1, <1>2, <1>3, <2>0, <2>2, <2>2w, Parts DEF Chatted, Becomes
  <2>4. FlightsOK'
    BY <1>1, <1>2, <1>3, NotShowing DEF Chatted
  <2> HIDE DEF c
  <2>5. call[r].phase = "chatting"
    BY <1>1, <1>2, <1>3 DEF Chatted
  <2>6. Good(c, w, log[r], usage[r])
    BY <1>1, <1>2, <1>3, <2>0, <2>1, <2>5, Phasing, Appended
       DEF Good, NotYet, InHand, Paying, Concluding, Told, Timely, Before, Open, After,
           Over, NoRow, Active, Released, Charged, Paid, Record
  <2> QED
    BY <2>3, <2>4, <2>6, Becoming
<1>4. CASE call[r].guard # "none" /\ charged = TRUE /\ told = FALSE
  <2> DEFINE c == [call[r] EXCEPT !.phase = "completing", !.answer = "ok",
                                  !.guard = "none", !.ran = "yes", !.bill = NoBill,
                                  !.failed = call[r].failed]
             w == Charged(bill)
  <2>0. /\ call[r] \in Record /\ row[r] \in Row /\ log[r] \in SUBSET Events
        /\ usage[r] \in Fact_ /\ Good(call[r], row[r], log[r], usage[r])
    BY Parts
  <2>1. /\ c.phase = "completing" /\ c.route = call[r].route /\ c.key = call[r].key
        /\ c.est = call[r].est /\ c.guard = "none" /\ c.ran = "yes" /\ c.answer = "ok"
        /\ c.replay = call[r].replay /\ c.bill = NoBill /\ c.failed = call[r].failed
    BY <1>1, <1>2, <1>4, <2>0 DEF Record
  <2>2. c \in Record
    BY <1>1, <1>2, <1>4, <2>0, Phasing, Amounts DEF Chatted, Record
  <2>2w. w \in Row
    BY <1>1, <1>2, <1>4, <2>0, Amounts DEF Chatted, Record
  <2>3. Becomes(r, c, w, log[r], usage[r])
    BY <1>1, <1>2, <1>4, <2>0, <2>2, <2>2w, Parts DEF Chatted, Becomes
  <2>4. FlightsOK'
    BY <1>1, <1>2, <1>4, NotShowing DEF Chatted
  <2> HIDE DEF c
  <2>5. call[r].phase = "chatting"
    BY <1>1, <1>2, <1>4 DEF Chatted
  <2>6. Good(c, w, log[r], usage[r])
    BY <1>1, <1>2, <1>4, <2>0, <2>1, <2>5, Phasing, Appended
       DEF Good, NotYet, InHand, Paying, Concluding, Told, Timely, Before, Open, After,
           Over, NoRow, Active, Released, Charged, Paid, Record
  <2> QED
    BY <2>3, <2>4, <2>6, Becoming
<1>7. CASE call[r].guard # "none" /\ charged = TRUE /\ ~Paid(r)
  <2> DEFINE c == [call[r] EXCEPT !.phase = "completing", !.answer = "ok",
                                  !.guard = "none", !.ran = "yes", !.bill = NoBill,
                                  !.failed = call[r].failed]
             w == Charged(bill)
  <2>0. /\ call[r] \in Record /\ row[r] \in Row /\ log[r] \in SUBSET Events
        /\ usage[r] \in Fact_ /\ Good(call[r], row[r], log[r], usage[r])
    BY Parts
  <2>1. /\ c.phase = "completing" /\ c.route = call[r].route /\ c.key = call[r].key
        /\ c.est = call[r].est /\ c.guard = "none" /\ c.ran = "yes" /\ c.answer = "ok"
        /\ c.replay = call[r].replay /\ c.bill = NoBill /\ c.failed = call[r].failed
    BY <1>1, <1>2, <1>7, <2>0 DEF Record
  <2>2. c \in Record
    BY <1>1, <1>2, <1>7, <2>0, Phasing, Amounts DEF Chatted, Record
  <2>2w. w \in Row
    BY <1>1, <1>2, <1>7, <2>0, Amounts DEF Chatted, Record
  <2>3. Becomes(r, c, w, log[r], usage[r])
    BY <1>1, <1>2, <1>7, <2>0, <2>2, <2>2w, Parts DEF Chatted, Becomes
  <2>4. FlightsOK'
    BY <1>1, <1>2, <1>7, NotShowing DEF Chatted
  <2> HIDE DEF c
  <2>5. call[r].phase = "chatting"
    BY <1>1, <1>2, <1>7 DEF Chatted
  <2>6. Good(c, w, log[r], usage[r])
    BY <1>1, <1>2, <1>7, <2>0, <2>1, <2>5, Phasing, Appended
       DEF Good, NotYet, InHand, Paying, Concluding, Told, Timely, Before, Open, After,
           Over, NoRow, Active, Released, Charged, Paid, Record
  <2> QED
    BY <2>3, <2>4, <2>6, Becoming
<1>5. CASE call[r].guard # "none" /\ charged = FALSE
  <2> DEFINE c == [call[r] EXCEPT !.phase = "completing", !.answer = "ok",
                                  !.guard = "none", !.ran = "yes", !.bill = NoBill,
                                  !.failed = TRUE]
  <2>0. /\ call[r] \in Record /\ row[r] \in Row /\ log[r] \in SUBSET Events
        /\ usage[r] \in Fact_ /\ Good(call[r], row[r], log[r], usage[r])
    BY Parts
  <2>1. /\ c.phase = "completing" /\ c.route = call[r].route /\ c.key = call[r].key
        /\ c.est = call[r].est /\ c.guard = "none" /\ c.ran = "yes" /\ c.answer = "ok"
        /\ c.replay = call[r].replay /\ c.bill = NoBill /\ c.failed = TRUE
    BY <1>1, <1>2, <1>5, <2>0 DEF Record
  <2>2. c \in Record
    BY <1>1, <1>2, <1>5, <2>0, Phasing, Amounts DEF Chatted, Record
  <2>3. Becomes(r, c, row[r], log[r], usage[r])
    BY <1>1, <1>2, <1>5, <2>0, <2>2, Parts DEF Chatted, Becomes
  <2>4. FlightsOK'
    BY <1>1, <1>2, <1>5, NotShowing DEF Chatted
  <2> HIDE DEF c
  <2>5. call[r].phase = "chatting"
    BY <1>1, <1>2, <1>5 DEF Chatted
  <2>6. Good(c, row[r], log[r], usage[r])
    BY <1>1, <1>2, <1>5, <2>0, <2>1, <2>5, Phasing, Appended
       DEF Good, NotYet, InHand, Paying, Concluding, Told, Timely, Before, Open, After,
           Over, NoRow, Active, Released, Charged, Paid, Record
  <2> QED
    BY <2>3, <2>4, <2>6, Becoming
<1>6. CASE call[r].guard = "none"
  <2> DEFINE c == [call[r] EXCEPT !.phase = "completing", !.answer = "ok",
                                  !.guard = "none", !.ran = "yes", !.bill = NoBill,
                                  !.failed = call[r].failed]
  <2>0. /\ call[r] \in Record /\ row[r] \in Row /\ log[r] \in SUBSET Events
        /\ usage[r] \in Fact_ /\ Good(call[r], row[r], log[r], usage[r])
    BY Parts
  <2>1. /\ c.phase = "completing" /\ c.route = call[r].route /\ c.key = call[r].key
        /\ c.est = call[r].est /\ c.guard = "none" /\ c.ran = "yes" /\ c.answer = "ok"
        /\ c.replay = call[r].replay /\ c.bill = NoBill /\ c.failed = call[r].failed
    BY <1>1, <1>2, <1>6, <2>0 DEF Record
  <2>2. c \in Record
    BY <1>1, <1>2, <1>6, <2>0, Phasing, Amounts DEF Chatted, Record
  <2>3. Becomes(r, c, row[r], log[r], usage[r])
    BY <1>1, <1>2, <1>6, <2>0, <2>2, Parts DEF Chatted, Becomes
  <2>4. FlightsOK'
    BY <1>1, <1>2, <1>6, NotShowing DEF Chatted
  <2> HIDE DEF c
  <2>5. call[r].phase = "chatting"
    BY <1>1, <1>2, <1>6 DEF Chatted
  <2>6. Good(c, row[r], log[r], usage[r])
    BY <1>1, <1>2, <1>6, <2>0, <2>1, <2>5, Phasing, Appended
       DEF Good, NotYet, InHand, Paying, Concluding, Told, Timely, Before, Open, After,
           Over, NoRow, Active, Released, Charged, Paid, Record
  <2> QED
    BY <2>3, <2>4, <2>6, Becoming
<1> QED
  BY <1>1, <1>3, <1>4, <1>7, <1>5, <1>6

LEMMA ChatFailedKeeps ==
  ASSUME IInv, NEW r \in Requests, ChatFailed(r)
  PROVE  IInv'
<1> DEFINE c == [call[r] EXCEPT !.phase = "completing", !.answer = "error", !.ran = "maybe"]
<1>0. /\ call[r] \in Record /\ row[r] \in Row /\ log[r] \in SUBSET Events
      /\ usage[r] \in Fact_ /\ Good(call[r], row[r], log[r], usage[r])
  BY Parts
<1>1. /\ c.phase = "completing" /\ c.route = call[r].route /\ c.key = call[r].key
      /\ c.est = call[r].est /\ c.guard = call[r].guard /\ c.ran = "maybe"
      /\ c.answer = "error" /\ c.replay = call[r].replay /\ c.bill = call[r].bill
      /\ c.failed = call[r].failed
  BY <1>0 DEF Record
<1>2. c \in Record
  BY <1>0, Phasing, Amounts DEF ChatFailed, Record
<1>3. Becomes(r, c, row[r], log[r], usage[r])
  BY <1>0, <1>2, Parts DEF ChatFailed, Becomes
<1>4. FlightsOK'
  BY NotShowing DEF ChatFailed
<1> HIDE DEF c
<1>5. call[r].phase = "chatting"
  BY DEF ChatFailed
<1>6. Good(c, row[r], log[r], usage[r])
  BY <1>0, <1>1, <1>5, Phasing, Appended
     DEF Good, NotYet, InHand, Paying, Concluding, Told, Timely, Before, Open, After,
         Over, NoRow, Active, Released, Charged, Paid, Record
<1> QED
  BY <1>3, <1>4, <1>6, Becoming

\* The end.
LEMMA CompletedKeeps ==
  ASSUME IInv, NEW r \in Requests, Completed(r)
  PROVE  IInv'
<1>0. call[r].answer \in {"ok", "error"}
  BY Parts DEF Completed, Good, Concluding
<1>1. CASE call[r].route = "local" /\ call[r].bill # NoBill
  <2> DEFINE c == [call[r] EXCEPT !.phase = "settling"]
             l == log[r] \cup {Event(r)}
  <2>0. /\ call[r] \in Record /\ row[r] \in Row /\ log[r] \in SUBSET Events
        /\ usage[r] \in Fact_ /\ Good(call[r], row[r], log[r], usage[r])
    BY Parts
  <2>1. /\ c.phase = "settling" /\ c.route = call[r].route /\ c.key = call[r].key
        /\ c.est = call[r].est /\ c.guard = call[r].guard /\ c.ran = call[r].ran
        /\ c.answer = call[r].answer /\ c.replay = call[r].replay /\ c.bill = call[r].bill
        /\ c.failed = call[r].failed
    BY <1>0, <1>1, <2>0 DEF Record
  <2>2. c \in Record
    BY <1>0, <1>1, <2>0, Phasing, Amounts DEF Completed, Logged, Record
  <2>2l. l \in SUBSET Events
    BY <1>0, <1>1, <2>0, Phasing, Appended DEF Completed, Logged, Events
  <2>3. Becomes(r, c, row[r], l, usage[r])
    BY <1>0, <1>1, <2>0, <2>2, <2>2l, Parts DEF Completed, Logged, Becomes
  <2>4. FlightsOK'
    BY <1>0, <1>1, Showing DEF Completed, Logged
  <2> HIDE DEF c
  <2>5. call[r].phase = "completing"
    BY <1>0, <1>1 DEF Completed, Logged
  <2>6. Good(c, row[r], l, usage[r])
    BY <1>0, <1>1, <2>0, <2>1, <2>5, Phasing, Appended
       DEF Good, NotYet, InHand, Paying, Concluding, Told, Timely, Before, Open, After,
           Over, NoRow, Active, Released, Charged, Paid, Record
  <2> QED
    BY <2>3, <2>4, <2>6, Becoming
<1>2. CASE ~(call[r].route = "local" /\ call[r].bill # NoBill)
  <2> DEFINE d == [call[r] EXCEPT !.phase = "finalizing", !.answer = call[r].answer]
             l == log[r] \cup {Event(r)}
  <2>10. /\ call[r] \in Record /\ row[r] \in Row /\ log[r] \in SUBSET Events
         /\ Good(call[r], row[r], log[r], usage[r])
    BY Parts
  <2>11. PICK ok \in BOOLEAN : Drop(r, [call[r] EXCEPT !.phase = "finalizing", !.answer = call[r].answer], ok)
    BY <1>0, <1>2, <2>10 DEF Completed, Respond
  <2>12. Drop(r, d, ok)
    BY <2>11
  <2>13. /\ d.phase = "finalizing" /\ d.answer = call[r].answer /\ d.replay = call[r].replay
         /\ d.est = call[r].est /\ d.route = call[r].route /\ d.guard = call[r].guard
         /\ d.ran = call[r].ran /\ d.bill = call[r].bill /\ d.failed = call[r].failed
    BY <2>10 DEF Record
  <2>14. call[r].answer \in {"ok", "error"} /\ log[r] \subseteq l
    BY <1>0, <1>2, <2>10, Parts DEF Completed, Good, Concluding, Paying, FlightsOK
  <2>14a. l \in SUBSET Events
    BY <1>0, <1>2, <2>10, Phasing, Appended DEF Completed, Events
  <2>14b. d \in Record
    BY <2>10, <2>14, Answered
  <2>15. Told(call[r], row[r], l)
    BY <1>0, <1>2, <2>10, Phasing, Appended
       DEF Completed, Good, NotYet, Told, Timely, Concluding, Paying, Charged, Before,
           Open
  <2>16. log' = [log EXCEPT ![r] = l] /\ UNCHANGED <<wired, usage>>
    BY <1>0, <1>2, Parts DEF Completed, Logged
  <2>17. FlightsOK'
    BY <1>0, <1>2, <2>14, Showing DEF Completed, flights
  <2> HIDE DEF d
  <2>18. Ends(r, d, l)
    BY <1>0, <1>2, <2>10, <2>13, <2>14, <2>14a, <2>14b, <2>15, <2>16, Phasing
       DEF Ends, Completed, After, Good, NotYet, Concluding, Paying, Charged, Before,
           Open, Paid
  <2> QED
    BY <2>12, <2>17, <2>18, Responding
<1> QED
  BY <1>1, <1>2

LEMMA CompletionFailedKeeps ==
  ASSUME IInv, NEW r \in Requests, CompletionFailed(r)
  PROVE  IInv'
<1> DEFINE d == [call[r] EXCEPT !.phase = "finalizing",
                                !.answer = (IF call[r].route = "proxy" /\ call[r].bill # NoBill THEN "ok" ELSE "error")]
           l == log[r]
<1>10. /\ call[r] \in Record /\ row[r] \in Row /\ log[r] \in SUBSET Events
       /\ Good(call[r], row[r], log[r], usage[r])
  BY Parts
<1>11. PICK ok \in BOOLEAN : Drop(r, [call[r] EXCEPT !.phase = "finalizing", !.answer = (IF call[r].route = "proxy" /\ call[r].bill # NoBill THEN "ok" ELSE "error")], ok)
  BY <1>10 DEF CompletionFailed, Respond
<1>12. Drop(r, d, ok)
  BY <1>11
<1>13. /\ d.phase = "finalizing" /\ d.answer = (IF call[r].route = "proxy" /\ call[r].bill # NoBill THEN "ok" ELSE "error") /\ d.replay = call[r].replay
       /\ d.est = call[r].est /\ d.route = call[r].route /\ d.guard = call[r].guard
       /\ d.ran = call[r].ran /\ d.bill = call[r].bill /\ d.failed = call[r].failed
  BY <1>10 DEF Record
<1>14. (IF call[r].route = "proxy" /\ call[r].bill # NoBill THEN "ok" ELSE "error") \in {"ok", "error"} /\ log[r] \subseteq l
  BY <1>10, Parts DEF CompletionFailed, Good, Concluding, Paying, FlightsOK
<1>14a. l \in SUBSET Events
  BY <1>10, Phasing, Appended DEF CompletionFailed, Events
<1>14b. d \in Record
  BY <1>10, <1>14, Answered
<1>15. Told(call[r], row[r], l)
  BY <1>10, Phasing, Appended
     DEF CompletionFailed, Good, NotYet, Told, Timely, Concluding, Paying, Charged,
         Before, Open
<1>16. log' = [log EXCEPT ![r] = l] /\ UNCHANGED <<wired, usage>>
  BY Parts DEF CompletionFailed, Logged
<1>17. FlightsOK'
  BY <1>14, Showing DEF CompletionFailed, flights
<1> HIDE DEF d
<1>18. Ends(r, d, l)
  BY <1>10, <1>13, <1>14, <1>14a, <1>14b, <1>15, <1>16, Phasing
     DEF Ends, CompletionFailed, After, Good, NotYet, Concluding, Paying, Charged,
         Before, Open, Paid
<1> QED
  BY <1>12, <1>17, <1>18, Responding

LEMMA AnnouncedKeeps ==
  ASSUME IInv, NEW r \in Requests, Announced(r)
  PROVE  IInv'
<1>1. CASE Logged(r)
  <2> DEFINE d == [call[r] EXCEPT !.phase = "finalizing", !.answer = call[r].answer]
             l == log[r] \cup {Event(r)}
  <2>10. /\ call[r] \in Record /\ row[r] \in Row /\ log[r] \in SUBSET Events
         /\ Good(call[r], row[r], log[r], usage[r])
    BY Parts
  <2>11. PICK ok \in BOOLEAN : Drop(r, [call[r] EXCEPT !.phase = "finalizing", !.answer = call[r].answer], ok)
    BY <1>1, <2>10 DEF Announced, Respond
  <2>12. Drop(r, d, ok)
    BY <2>11
  <2>13. /\ d.phase = "finalizing" /\ d.answer = call[r].answer /\ d.replay = call[r].replay
         /\ d.est = call[r].est /\ d.route = call[r].route /\ d.guard = call[r].guard
         /\ d.ran = call[r].ran /\ d.bill = call[r].bill /\ d.failed = call[r].failed
    BY <2>10 DEF Record
  <2>14. call[r].answer \in {"ok", "error"} /\ log[r] \subseteq l
    BY <1>1, <2>10, Parts DEF Announced, Good, Concluding, Paying, FlightsOK
  <2>14a. l \in SUBSET Events
    BY <1>1, <2>10, Phasing, Appended DEF Announced, Events
  <2>14b. d \in Record
    BY <2>10, <2>14, Answered
  <2>15. Told(call[r], row[r], l)
    BY <1>1, <2>10, Phasing, Appended
       DEF Announced, Good, NotYet, Told, Timely, Concluding, Paying, Charged, Before,
           Open
  <2>16. log' = [log EXCEPT ![r] = l] /\ UNCHANGED <<wired, usage>>
    BY <1>1, Parts DEF Announced, Logged
  <2>17. FlightsOK'
    BY <1>1, <2>14, NotShowing DEF Announced, flights
  <2> HIDE DEF d
  <2>18. Ends(r, d, l)
    BY <1>1, <2>10, <2>13, <2>14, <2>14a, <2>14b, <2>15, <2>16, Phasing
       DEF Ends, Announced, After, Good, NotYet, Concluding, Paying, Charged, Before,
           Open, Paid
  <2> QED
    BY <2>12, <2>17, <2>18, Responding
<1>2. CASE UNCHANGED log
  <2> DEFINE d == [call[r] EXCEPT !.phase = "finalizing", !.answer = call[r].answer]
             l == log[r]
  <2>10. /\ call[r] \in Record /\ row[r] \in Row /\ log[r] \in SUBSET Events
         /\ Good(call[r], row[r], log[r], usage[r])
    BY Parts
  <2>11. PICK ok \in BOOLEAN : Drop(r, [call[r] EXCEPT !.phase = "finalizing", !.answer = call[r].answer], ok)
    BY <1>2, <2>10 DEF Announced, Respond
  <2>12. Drop(r, d, ok)
    BY <2>11
  <2>13. /\ d.phase = "finalizing" /\ d.answer = call[r].answer /\ d.replay = call[r].replay
         /\ d.est = call[r].est /\ d.route = call[r].route /\ d.guard = call[r].guard
         /\ d.ran = call[r].ran /\ d.bill = call[r].bill /\ d.failed = call[r].failed
    BY <2>10 DEF Record
  <2>14. call[r].answer \in {"ok", "error"} /\ log[r] \subseteq l
    BY <1>2, <2>10, Parts DEF Announced, Good, Concluding, Paying, FlightsOK
  <2>14a. l \in SUBSET Events
    BY <1>2, <2>10, Phasing, Appended DEF Announced, Events
  <2>14b. d \in Record
    BY <2>10, <2>14, Answered
  <2>15. Told(call[r], row[r], l)
    BY <1>2, <2>10, Phasing, Appended
       DEF Announced, Good, NotYet, Told, Timely, Concluding, Paying, Charged, Before,
           Open
  <2>16. log' = [log EXCEPT ![r] = l] /\ UNCHANGED <<wired, usage>>
    BY <1>2, Parts DEF Announced, Logged
  <2>17. FlightsOK'
    BY <1>2, <2>14, NotShowing DEF Announced, flights
  <2> HIDE DEF d
  <2>18. Ends(r, d, l)
    BY <1>2, <2>10, <2>13, <2>14, <2>14a, <2>14b, <2>15, <2>16, Phasing
       DEF Ends, Announced, After, Good, NotYet, Concluding, Paying, Charged, Before,
           Open, Paid
  <2> QED
    BY <2>12, <2>17, <2>18, Responding
<1> QED
  BY <1>1, <1>2 DEF Announced

LEMMA FinalizedKeeps ==
  ASSUME IInv, NEW r \in Requests, Finalized(r)
  PROVE  IInv'
<1>1. CASE Logged(r)
  <2> DEFINE c == [call[r] EXCEPT !.phase = "recording"]
             l == log[r] \cup {Event(r)}
  <2>0. /\ call[r] \in Record /\ row[r] \in Row /\ log[r] \in SUBSET Events
        /\ usage[r] \in Fact_ /\ Good(call[r], row[r], log[r], usage[r])
    BY Parts
  <2>1. /\ c.phase = "recording" /\ c.route = call[r].route /\ c.key = call[r].key
        /\ c.est = call[r].est /\ c.guard = call[r].guard /\ c.ran = call[r].ran
        /\ c.answer = call[r].answer /\ c.replay = call[r].replay /\ c.bill = call[r].bill
        /\ c.failed = call[r].failed
    BY <1>1, <2>0 DEF Record
  <2>2. c \in Record
    BY <1>1, <2>0, Phasing, Amounts DEF Finalized, Logged, Record
  <2>2l. l \in SUBSET Events
    BY <1>1, <2>0, Phasing, Appended DEF Finalized, Logged, Events
  <2>3. Becomes(r, c, row[r], l, usage[r])
    BY <1>1, <2>0, <2>2, <2>2l, Parts DEF Finalized, Logged, Becomes
  <2>4. FlightsOK'
    BY <1>1, NotShowing DEF Finalized, Logged
  <2> HIDE DEF c
  <2>5. call[r].phase = "finalizing"
    BY <1>1 DEF Finalized, Logged
  <2>6. Good(c, row[r], l, usage[r])
    BY <1>1, <2>0, <2>1, <2>5, Phasing, Appended
       DEF Good, NotYet, InHand, Paying, Concluding, Told, Timely, Before, Open, After,
           Over, NoRow, Active, Released, Charged, Paid, Record
  <2> QED
    BY <2>3, <2>4, <2>6, Becoming
<1>2. CASE UNCHANGED log
  <2> DEFINE c == [call[r] EXCEPT !.phase = "recording"]
  <2>0. /\ call[r] \in Record /\ row[r] \in Row /\ log[r] \in SUBSET Events
        /\ usage[r] \in Fact_ /\ Good(call[r], row[r], log[r], usage[r])
    BY Parts
  <2>1. /\ c.phase = "recording" /\ c.route = call[r].route /\ c.key = call[r].key
        /\ c.est = call[r].est /\ c.guard = call[r].guard /\ c.ran = call[r].ran
        /\ c.answer = call[r].answer /\ c.replay = call[r].replay /\ c.bill = call[r].bill
        /\ c.failed = call[r].failed
    BY <1>2, <2>0 DEF Record
  <2>2. c \in Record
    BY <1>2, <2>0, Phasing, Amounts DEF Finalized, Record
  <2>3. Becomes(r, c, row[r], log[r], usage[r])
    BY <1>2, <2>0, <2>2, Parts DEF Finalized, Becomes
  <2>4. FlightsOK'
    BY <1>2, NotShowing DEF Finalized
  <2> HIDE DEF c
  <2>5. call[r].phase = "finalizing"
    BY <1>2 DEF Finalized
  <2>6. Good(c, row[r], log[r], usage[r])
    BY <1>2, <2>0, <2>1, <2>5, Phasing, Appended
       DEF Good, NotYet, InHand, Paying, Concluding, Told, Timely, Before, Open, After,
           Over, NoRow, Active, Released, Charged, Paid, Record
  <2> QED
    BY <2>3, <2>4, <2>6, Becoming
<1> QED
  BY <1>1, <1>2 DEF Finalized

LEMMA RecordedKeeps ==
  ASSUME IInv, NEW r \in Requests, Recorded(r)
  PROVE  IInv'
<1>1. CASE usage' = [usage EXCEPT ![r] = Fact(r)]
  <2> DEFINE c == [call[r] EXCEPT !.phase = "done"]
             u == Fact(r)
  <2>0. /\ call[r] \in Record /\ row[r] \in Row /\ log[r] \in SUBSET Events
        /\ usage[r] \in Fact_ /\ Good(call[r], row[r], log[r], usage[r])
    BY Parts
  <2>1. /\ c.phase = "done" /\ c.route = call[r].route /\ c.key = call[r].key
        /\ c.est = call[r].est /\ c.guard = call[r].guard /\ c.ran = call[r].ran
        /\ c.answer = call[r].answer /\ c.replay = call[r].replay /\ c.bill = call[r].bill
        /\ c.failed = call[r].failed
    BY <1>1, <2>0 DEF Record
  <2>2. c \in Record
    BY <1>1, <2>0, Phasing, Amounts DEF Recorded, Record
  <2>2u. u \in Fact_
    BY <1>1, <2>0, Amounts DEF Recorded, Record, Fact_, Fact, Paid
  <2>3. Becomes(r, c, row[r], log[r], u)
    BY <1>1, <2>0, <2>2, <2>2u, Parts DEF Recorded, Becomes
  <2>4. FlightsOK'
    BY <1>1, NotShowing DEF Recorded
  <2> HIDE DEF c
  <2>5. call[r].phase = "recording"
    BY <1>1 DEF Recorded
  <2>6. Good(c, row[r], log[r], u)
    BY <1>1, <2>0, <2>1, <2>5, Phasing, Appended
       DEF Good, NotYet, InHand, Paying, Concluding, Told, Timely, Before, Open, After,
           Over, NoRow, Active, Released, Charged, Paid, Fact, Record
  <2> QED
    BY <2>3, <2>4, <2>6, Becoming
<1>2. CASE UNCHANGED usage
  <2> DEFINE c == [call[r] EXCEPT !.phase = "done"]
  <2>0. /\ call[r] \in Record /\ row[r] \in Row /\ log[r] \in SUBSET Events
        /\ usage[r] \in Fact_ /\ Good(call[r], row[r], log[r], usage[r])
    BY Parts
  <2>1. /\ c.phase = "done" /\ c.route = call[r].route /\ c.key = call[r].key
        /\ c.est = call[r].est /\ c.guard = call[r].guard /\ c.ran = call[r].ran
        /\ c.answer = call[r].answer /\ c.replay = call[r].replay /\ c.bill = call[r].bill
        /\ c.failed = call[r].failed
    BY <1>2, <2>0 DEF Record
  <2>2. c \in Record
    BY <1>2, <2>0, Phasing, Amounts DEF Recorded, Record
  <2>3. Becomes(r, c, row[r], log[r], usage[r])
    BY <1>2, <2>0, <2>2, Parts DEF Recorded, Becomes
  <2>4. FlightsOK'
    BY <1>2, NotShowing DEF Recorded
  <2> HIDE DEF c
  <2>5. call[r].phase = "recording"
    BY <1>2 DEF Recorded
  <2>6. Good(c, row[r], log[r], usage[r])
    BY <1>2, <2>0, <2>1, <2>5, Phasing, Appended
       DEF Good, NotYet, InHand, Paying, Concluding, Told, Timely, Before, Open, After,
           Over, NoRow, Active, Released, Charged, Paid, Record
  <2> QED
    BY <2>3, <2>4, <2>6, Becoming
<1> QED
  BY <1>1, <1>2 DEF Recorded

\* Faults.
LEMMA LapseKeeps ==
  ASSUME IInv, NEW r \in Requests, Lapse(r)
  PROVE  IInv'
<1> DEFINE c == call[r]
           w == [row[r] EXCEPT !.status = "lapsed"]
<1>0. /\ call[r] \in Record /\ row[r] \in Row /\ log[r] \in SUBSET Events
      /\ usage[r] \in Fact_ /\ Good(call[r], row[r], log[r], usage[r])
  BY Parts
<1>1. /\ c.phase = call[r].phase /\ c.route = call[r].route /\ c.key = call[r].key
      /\ c.est = call[r].est /\ c.guard = call[r].guard /\ c.ran = call[r].ran
      /\ c.answer = call[r].answer /\ c.replay = call[r].replay /\ c.bill = call[r].bill
      /\ c.failed = call[r].failed
  BY <1>0 DEF Record
<1>2. c \in Record
  BY <1>0, Phasing, Amounts DEF Lapse, Record
<1>2w. w \in Row
  BY <1>0, Amounts DEF Lapse, Record, Row
<1>3. Becomes(r, c, w, log[r], usage[r])
  BY <1>0, <1>2, <1>2w, Parts DEF Lapse, Becomes
<1>4. FlightsOK'
  BY NotShowing DEF Lapse
<1> HIDE DEF c
<1>5. row[r].status = "active"
  BY DEF Lapse
<1>6. Good(c, w, log[r], usage[r])
  BY <1>0, <1>1, <1>5, Phasing, Appended
     DEF Good, NotYet, InHand, Paying, Concluding, Told, Timely, Before, Open, After,
         Over, NoRow, Active, Released, Charged, Paid, Record
<1> QED
  BY <1>3, <1>4, <1>6, Becoming

\* A client that goes away leaves the row of a paid POST, and no other.
LEMMA CancelKeeps ==
  ASSUME IInv, NEW r \in Requests, Cancel(r)
  PROVE  IInv'
<1>1. PICK ok \in BOOLEAN :
        Drop(r, [call[r] EXCEPT !.phase = "gone", !.ran = Abandoned(r)], ok)
  BY DEF Cancel
<1>2. PICK l \in {log[r], log[r] \cup {Event(r)}} :
        /\ log' = [log EXCEPT ![r] = l]
        /\ l # log[r] => call[r].phase \in Logging
  BY Parts DEF Cancel, Logged
<1>3. PICK u \in {usage[r], Fact(r)} :
        /\ usage' = [usage EXCEPT ![r] = u]
        /\ u # usage[r] => call[r].phase = "recording"
  BY Parts DEF Cancel
<1> DEFINE d == [call[r] EXCEPT !.phase = "gone", !.ran = Abandoned(r)]
           c == [d EXCEPT !.guard = "none", !.failed = @ \/ (d.guard = "drop" /\ ~ok)]
           w == IF call[r].guard = "drop" /\ ok THEN Released(row[r]) ELSE row[r]
<1>0. /\ call[r] \in Record /\ row[r] \in Row /\ log[r] \in SUBSET Events /\ usage[r] \in Fact_
      /\ Good(call[r], row[r], log[r], usage[r])
  BY Parts
<1>4. Abandoned(r) = IF call[r].phase \in {"sending", "chatting"} THEN "maybe" ELSE call[r].ran
  BY DEF Abandoned
<1>5. /\ c.phase = "gone" /\ c.route = call[r].route /\ c.est = call[r].est
      /\ c.guard = "none" /\ c.ran = Abandoned(r) /\ c.answer = call[r].answer
      /\ c.replay = call[r].replay /\ c.bill = call[r].bill
      /\ c.failed = (call[r].failed \/ (call[r].guard = "drop" /\ ~ok))
  BY <1>0 DEF Record
<1>6. c \in Record
  <2>1. "gone" \in Phases /\ Abandoned(r) \in {"no", "maybe", "yes"}
    BY <1>0, <1>4, Phasing DEF Record
  <2>2. d \in Record
    BY <1>0, <2>1 DEF Record
  <2> QED
    BY <2>2 DEF Record
<1>7. w \in Row /\ l \in SUBSET Events /\ u \in Fact_
  <2>1. w \in Row
    BY <1>0, Amounts
  <2>2. l \in SUBSET Events
    BY <1>0, <1>2, Phasing, Appended DEF Events
  <2>3. u \in Fact_
    BY <1>0, Amounts DEF Fact, Fact_, Record
  <2> QED
    BY <2>1, <2>2, <2>3
<1>8. Becomes(r, c, w, l, u)
  <2>1. wired' = wired /\ call' = [call EXCEPT ![r] = c] /\ row' = [row EXCEPT ![r] = w]
    BY <1>0, <1>1, Parts DEF Drop, Cancel, Record
  <2> QED
    BY <1>2, <1>3, <1>6, <1>7, <2>1 DEF Becomes
<1>9. FlightsOK'
  BY Showing DEF Cancel
<1> HIDE DEF c
<1>10. call[r].phase \in Before \cup Open \cup {"completing", "settling", "finalizing", "recording"}
  BY Phasing DEF Cancel, Awaiting, Before, Open
<1>11. w.status = IF call[r].guard = "drop" /\ ok THEN "released" ELSE row[r].status
  BY <1>0 DEF Released, Row
<1>12. /\ row[r].status = "settled" => w = row[r]
       /\ call[r].bill # NoBill => w = row[r]
  BY <1>0 DEF Good, InHand, Paying, Charged
<1>13. /\ usage[r] = NoBill
       /\ u # NoBill => /\ call[r].phase = "recording" /\ call[r].answer = "ok" /\ ~call[r].replay
                        /\ call[r].est > 0 => u = call[r].bill
  BY <1>0, <1>3, <1>10 DEF Good, NotYet, Over, Before, Open, Fact, Paid
<1>14. NotYet(c, w, u)
  BY <1>5 DEF NotYet, Before, Open, Over
<1>15. InHand(c, w)
  BY <1>5 DEF InHand, Open, After
<1>16. Paying(c, w, l, u)
  <2>1. w.status = "settled" => c.ran = "yes" /\ "dispatched" \in l
    BY <1>0, <1>2, <1>4, <1>5, <1>11 DEF Good, Paying, NotYet, Open
  <2>2. c.bill # NoBill => w = Charged(c.bill)
    BY <1>0, <1>5, <1>12 DEF Good, Paying
  <2>3. c.route = "proxy" /\ c.est > 0 /\ c.ran # "no" =>
          w.status \in {"active", "lapsed", "settled"}
    BY <1>0, <1>4, <1>5, <1>10, <1>11
       DEF Good, NotYet, InHand, Paying, Concluding, Before, Open, After
  <2>4. c.route = "proxy" /\ c.est > 0 /\ c.answer = "ok" /\ ~c.replay => w.status = "settled"
    BY <1>0, <1>5, <1>12 DEF Good, Paying
  <2>5. c.replay => w.status # "settled" /\ u = NoBill
    BY <1>0, <1>5, <1>11, <1>13 DEF Good, Paying
  <2>6. u # NoBill /\ c.est > 0 => w = Charged(u)
    BY <1>0, <1>5, <1>12, <1>13 DEF Good, Paying
  <2>7. w.status = "active" => c.ran # "no" \/ c.failed
    <3>1. CASE call[r].guard = "drop"
      BY <1>5, <1>11, <3>1
    <3>2. CASE call[r].guard = "keep"
      BY <1>0, <1>4, <1>5, <3>2 DEF Good, InHand
    <3>3. CASE call[r].guard = "none"
      <4>1. CASE call[r].phase \in Before \cup Open
        BY <1>0, <1>11, <3>3, <4>1 DEF Good, NotYet, InHand, NoRow
      <4>2. CASE call[r].phase = "completing"
        BY <1>0, <1>4, <1>5, <1>11, <3>3, <4>2 DEF Good, Concluding
      <4>3. CASE call[r].phase = "settling"
        BY <1>0, <1>11, <3>3, <4>3 DEF Good, Concluding, Paying, Charged
      <4>4. CASE call[r].phase \in {"finalizing", "recording"}
        BY <1>0, <1>4, <1>5, <1>11, <3>3, <4>4 DEF Good, Paying
      <4> QED
        BY <1>10, <4>1, <4>2, <4>3, <4>4
    <3> QED
      BY <1>0, <3>1, <3>2, <3>3 DEF Record
  <2> QED
    BY <2>1, <2>2, <2>3, <2>4, <2>5, <2>6, <2>7 DEF Paying
<1>17. Concluding(c, w)
  BY <1>5 DEF Concluding
<1>18. Told(c, w, l)
  <2>1. Told(c, w, log[r])
    BY <1>0, <1>4, <1>5, <1>12 DEF Good, Told, Timely, Open
  <2>2. CASE l = log[r] \cup {Event(r)} /\ call[r].phase \in Logging
    <3>1. call[r].phase = "completing" /\ call[r].answer = "ok" => c.ran = "yes"
      BY <1>0, <1>4, <1>5 DEF Good, Concluding
    <3>2. call[r].phase = "settling" => w.status = "settled"
      BY <1>0, <1>11 DEF Good, Concluding, Paying, Charged
    <3> QED
      BY <1>0, <1>5, <2>1, <2>2, <3>1, <3>2, Phasing, Appended
         DEF Good, Told, Timely, InHand, Before, Open
  <2> QED
    BY <1>2, <2>1, <2>2
<1>19. Timely(c, l)
  BY <1>5 DEF Timely, Before, Open
<1> QED
  BY <1>8, <1>9, <1>14, <1>15, <1>16, <1>17, <1>18, <1>19, Becoming DEF Good

\* A crash takes every guard and no row.
LEMMA CrashKeeps ==
  ASSUME IInv, Crash
  PROVE  IInv'
<1>1. ASSUME NEW r \in Requests
      PROVE  call'[r] \in Record /\ Good(call'[r], row[r], log[r], usage[r])
  <2>0. /\ call[r] \in Record /\ row[r] \in Row /\ log[r] \in SUBSET Events
        /\ Good(call[r], row[r], log[r], usage[r])
    BY Parts
  <2>1. CASE call[r].phase \in {"new"} \cup Over
    BY <2>0, <2>1 DEF Crash
  <2>2. CASE call[r].phase \notin {"new"} \cup Over
    <3> DEFINE c == [call[r] EXCEPT !.phase = "crashed", !.guard = "none",
                                  !.ran = Abandoned(r)]
    <3>1. call'[r] = c
      BY <2>2 DEF Crash
    <3>2. Abandoned(r) = IF call[r].phase \in {"sending", "chatting"} THEN "maybe" ELSE call[r].ran
      BY DEF Abandoned
    <3>3. /\ c.phase = "crashed" /\ c.route = call[r].route /\ c.est = call[r].est
          /\ c.guard = "none" /\ c.ran = Abandoned(r) /\ c.answer = call[r].answer
          /\ c.replay = call[r].replay /\ c.bill = call[r].bill
      BY <2>0 DEF Record
    <3>4. c \in Record
      <4>1. "crashed" \in Phases /\ Abandoned(r) \in {"no", "maybe", "yes"}
        BY <2>0, <3>2, Phasing DEF Record
      <4> QED
        BY <2>0, <4>1 DEF Record
    <3> HIDE DEF c
    <3>5. NotYet(c, row[r], usage[r]) /\ InHand(c, row[r]) /\ Concluding(c, row[r])
      BY <3>3 DEF NotYet, InHand, Concluding, Before, Open, After, Over
    <3>6. Paying(c, row[r], log[r], usage[r])
      BY <2>0, <3>2, <3>3 DEF Good, Paying, NotYet, InHand, Open
    <3>7. Told(c, row[r], log[r]) /\ Timely(c, log[r])
      BY <2>0, <3>2, <3>3 DEF Good, Told, Timely, Before, Open
    <3> QED
      BY <3>1, <3>4, <3>5, <3>6, <3>7 DEF Good
  <2> QED
    BY <2>1, <2>2
<1>2. call' \in [Requests -> Record]
  BY <1>1 DEF Crash
<1>3. FlightsOK' /\ UNCHANGED <<wired, row, log, usage>>
  BY DEF Crash, FlightsOK
<1>4. TypeOK'
  BY <1>2, <1>3, Parts DEF TypeOK, Record, Row, Events, Fact_, FlightsOK
<1> QED
  BY <1>1, <1>3, <1>4 DEF IInv

\* What flights forget is no matter of a call's money or events.
LEMMA StillKeeps ==
  ASSUME IInv, UNCHANGED <<wired, call, row, log, usage>>, FlightsOK'
  PROVE  IInv'
<1>1. TypeOK'
  BY Parts DEF TypeOK, Record, Row, Events, Fact_, FlightsOK
<1> QED
  BY <1>1, Parts DEF IInv

-----------------------------------------------------------------------------
(* The invariant *)

LEMMA Initially == Init => IInv
<1> SUFFICES ASSUME Init
             PROVE  IInv
  OBVIOUS
<1>1. Fresh \in Record /\ NoRow \in Row
  BY Phasing DEF Fresh, NoRow, Record, Row
<1>2. Good(Fresh, NoRow, {}, NoBill)
  BY
     DEF Fresh, NoRow, Good, NotYet, InHand, Paying, Concluding, Told, Timely, Before,
         Open,
         After, Over
<1>3. TypeOK
  BY <1>1 DEF Init, TypeOK, Record, Row
<1> QED
  BY <1>2, <1>3 DEF Init, IInv

LEMMA Stepwise == IInv /\ [Next]_vars => IInv'
<1> SUFFICES ASSUME IInv, [Next]_vars
             PROVE  IInv'
  OBVIOUS
<1>1. ASSUME NEW r \in Requests, NEW k \in Keys \cup {NoKey}, Receive(r, k)
      PROVE  IInv'
  BY <1>1, ReceiveKeeps
<1>2. ASSUME NEW r \in Requests, Step(r)
      PROVE  IInv'
  <2>1. CASE Noted(r) \/ Decided(r) \/ NotNoted(r) \/ TurnedDown(r) \/ Admit(r)
    BY <2>1, NotedKeeps, DecidedKeeps, NotNotedKeeps, TurnedDownKeeps, AdmitKeeps
  <2>2. CASE Replayed(r) \/ NotForwarded(r) \/ Lead(r) \/ LeadRefused(r)
    BY <2>2, ReplayedKeeps, NotForwardedKeeps, LeadKeeps, LeadRefusedKeeps
  <2>3. CASE Reserved(r) \/ Dispatched(r) \/ PreludeFailed(r)
    BY <2>3, ReservedKeeps, DispatchedKeeps, PreludeFailedKeeps
  <2>4. CASE NotExecuted(r) \/ InDoubt(r) \/ Settled(r) \/ Unsettled(r) \/ Succeeded(r)
    BY <2>4, NotExecutedKeeps, InDoubtKeeps, SettledKeeps, UnsettledKeeps, SucceededKeeps
  <2>5. CASE Prepared(r) \/ PreparationFailed(r) \/ Chatted(r) \/ ChatFailed(r)
    BY <2>5, PreparedKeeps, PreparationFailedKeeps, ChattedKeeps, ChatFailedKeeps
  <2>6. CASE Completed(r) \/ CompletionFailed(r) \/ Announced(r) \/ Finalized(r) \/ Recorded(r)
    BY <2>6, CompletedKeeps, CompletionFailedKeeps, AnnouncedKeeps, FinalizedKeeps,
       RecordedKeeps
  <2> QED
    BY <1>2, <2>1, <2>2, <2>3, <2>4, <2>5, <2>6 DEF Step
<1>3. ASSUME NEW r \in Requests, Cancel(r) \/ Lapse(r)
      PROVE  IInv'
  BY <1>3, CancelKeeps, LapseKeeps
<1>4. CASE Crash
  BY <1>4, CrashKeeps
<1>5. ASSUME NEW k \in Slots, Forget(k)
      PROVE  IInv'
  <2>1. FlightsOK' /\ UNCHANGED <<wired, call, row, log, usage>>
    BY <1>5, Parts DEF Forget, FlightsOK
  <2> QED
    BY <2>1, StillKeeps
<1>6. CASE UNCHANGED vars
  <2>1. FlightsOK' /\ UNCHANGED <<wired, call, row, log, usage>>
    BY <1>6, Parts DEF vars, flights, FlightsOK
  <2> QED
    BY <2>1, StillKeeps
<1> QED
  BY <1>1, <1>2, <1>3, <1>4, <1>5, <1>6 DEF Next

LEMMA Inductive == Spec => []IInv
  BY Initially, Stepwise, PTL DEF Spec

-----------------------------------------------------------------------------
(* What a reader should know *)

\* Every call's record, row, events and usage record keep their types.
THEOREM TypesHold == Spec => []TypeOK
<1>1. IInv => TypeOK
  BY DEF IInv
<1> QED
  BY <1>1, Inductive, PTL

\* A guard that would release or settle a row never holds one that is final.
THEOREM GuardsHold == Spec => []GuardsOwnOpenRows
<1>1. IInv => GuardsOwnOpenRows
  BY Parts DEF GuardsOwnOpenRows, Good, InHand
<1> QED
  BY <1>1, Inductive, PTL

\* A paid POST that may have run is not declared free, whoever goes away.
THEOREM NeverFreeHolds == Spec => []NeverFree
<1>1. IInv => NeverFree
  BY Parts DEF NeverFree, Good, Paying, Proxied, Paid
<1> QED
  BY <1>1, Inductive, PTL

\* Money is charged for what is known to have run and was logged before.
THEOREM ChargedForWorkHolds == Spec => []ChargedForWork
<1>1. IInv => ChargedForWork
  BY Parts DEF ChargedForWork, Good, Paying
<1> QED
  BY <1>1, Inductive, PTL

\* Nothing leaves for a paid candidate without its reservation, in the ledger
\* and in the log.
THEOREM BackedHolds == Spec => []Backed
<1>1. IInv => Backed
  <2> SUFFICES ASSUME IInv, NEW r \in Requests, Paid(r)
               PROVE  /\ "dispatched" \in log[r] => "budget_reserved" \in log[r]
                      /\ call[r].phase \in {"sending", "chatting"} =>
                           /\ row[r].status \in {"active", "lapsed"} /\ row[r].amount = call[r].est
                           /\ {"budget_reserved", "dispatched"} \subseteq log[r]
    BY DEF Backed
  <2>1. Good(call[r], row[r], log[r], usage[r])
    BY Parts
  <2> QED
    BY <2>1 DEF Good, InHand, Told, Timely, Open, Paid
<1> QED
  BY <1>1, Inductive, PTL

\* A call that is over and did not run holds no money, unless its release
\* failed or the process died.
THEOREM NothingHeldHolds == Spec => []NothingHeldForNothing
<1>1. IInv => NothingHeldForNothing
  BY Parts DEF NothingHeldForNothing, Good, Paying
<1> QED
  BY <1>1, Inductive, PTL

\* A paid answer was charged once, and its replays cost nothing.
THEOREM AnswersPaidForHolds == Spec => []AnswersPaidFor
<1>1. IInv => AnswersPaidFor
  BY Parts DEF AnswersPaidFor, Good, Paying, Proxied, Paid
<1> QED
  BY <1>1, Inductive, PTL

\* The usage record of a paid call is what the ledger charged.
THEOREM UsageHolds == Spec => []UsageMatchesLedger
<1>1. IInv => UsageMatchesLedger
  BY Parts DEF UsageMatchesLedger, Good, Paying, Paid
<1> QED
  BY <1>1, Inductive, PTL

\* The log tells the story of a call in order, and what it says is so.
THEOREM LogHolds == Spec => []LogTellsTruth
<1>1. IInv => LogTellsTruth
  BY Parts DEF LogTellsTruth, Good, Told
<1> QED
  BY <1>1, Inductive, PTL

-----------------------------------------------------------------------------
(* What the run checks, put together.                                      *)

\* A guard never holds the id of a final row, and gives back what did not run.
THEOREM GuardsSoundHolds == Spec => []GuardsSound
BY TypesHold, GuardsHold, NothingHeldHolds, PTL DEF GuardsSound

\* Money follows the work: reserved before it, never free after it, charged
\* only for it.
THEOREM MoneyFollowsWorkHolds == Spec => []MoneyFollowsWork
BY NeverFreeHolds, ChargedForWorkHolds, BackedHolds, PTL DEF MoneyFollowsWork

\* Answer, charge and usage record agree, for leaders and followers.
THEOREM BillsAgreeHolds == Spec => []BillsAgree
BY AnswersPaidForHolds, UsageHolds, PTL DEF BillsAgree
=============================================================================
