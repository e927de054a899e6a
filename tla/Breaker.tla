-------------------------------- MODULE Breaker --------------------------------
(***************************************************************************)
(* The circuit breakers (idoris-policy/src/breaker.rs) as the router uses  *)
(* them: one gate per provider and one per HTTP origin, each a breaker of  *)
(* the shared book.  A proxied send claims its provider and its origin at  *)
(* once and is refused if either refuses (ChatProxy::claim_send); a local  *)
(* or subscription execution captures its provider's gate and runs whether *)
(* or not it was given a ticket (ProviderGuard, drive_external).  Both     *)
(* were chosen earlier, by an advisory look at the gates (blocked_cards).  *)
(*                                                                         *)
(* A key includes the credential class, so a gate has one threshold and    *)
(* one recovery window.  All tickets come from one book, which is never    *)
(* cloned: the issuer of a ticket always matches and is left out.          *)
(***************************************************************************)
EXTENDS Naturals, Integers, FiniteSets

CONSTANTS
  Requests,    \* request slots
  Providers,   \* gates keyed by provider
  Connections, \* gates keyed by HTTP origin
  Routes,      \* [external : BOOLEAN, gates : SUBSET Gates]
  Threshold,   \* failure_threshold of each gate
  Recovery,    \* recovery_ms of each gate
  Delays,      \* Retry-After values an upstream may send
  MaxNow,      \* bound: the clock stays in 0..MaxNow
  MaxSends,    \* bound: admissions in a behaviour
  Nobody       \* no request

Gates == Providers \cup Connections

ASSUME BreakerAssumption ==
  /\ Routes \subseteq [external : BOOLEAN, gates : SUBSET Gates]
  /\ Threshold \in [Gates -> Nat \ {0}]
  /\ Recovery \in [Gates -> Nat]
  /\ Delays \subseteq Nat
  /\ MaxNow \in Nat /\ MaxSends \in Nat
  /\ Providers \cap Connections = {}
  /\ Nobody \notin Requests

VARIABLES
  book,    \* the breaker of each gate
  req,     \* where each request is: idle, chosen or sent, and its route
  tickets, \* the ticket a request holds for a gate
  now,     \* the wall clock
  sends

vars == <<book, req, tickets, now, sends>>

NoRoute == [external |-> FALSE, gates |-> {}]
NoTicket == [held |-> FALSE, generation |-> 0, probe |-> FALSE]
NoCohort == -1

-----------------------------------------------------------------------------
(* Transitions of one breaker.  HalfOpen always has its probe in flight:   *)
(* no code path builds HalfOpen { probing: false }.                        *)

Ready(b) == b.state = "closed" \/ (b.state = "open" /\ now >= b.until)

\* admit: what the breaker becomes, and the ticket it hands out.
Admitted(b) ==
  IF b.state = "closed" THEN b ELSE [b EXCEPT !.state = "halfOpen", !.until = 0]

Ticket(b) ==
  [held |-> TRUE, generation |-> b.generation, probe |-> b.state # "closed"]

Recovered(b) == [state |-> "closed", failures |-> 0, until |-> 0,
                 generation |-> b.generation + 1, cohort |-> NoCohort]

MutOnSuccess(b, t) ==
  IF b.state = "closed" THEN [b EXCEPT !.failures = 0]
  ELSE Recovered(b)
OnSuccess(b, t) ==
  IF t.generation # b.generation THEN b
  ELSE IF b.state = "closed" THEN [b EXCEPT !.failures = 0]
  ELSE IF b.state = "halfOpen" /\ t.probe THEN Recovered(b)
  ELSE b

\* Enter OPEN; a fresh ticket starts a new generation.
Tripped(b, t, until) ==
  [state |-> "open", failures |-> 0, until |-> until,
   generation |-> IF t.generation = b.generation THEN b.generation + 1 ELSE b.generation,
   cohort |-> IF t.generation = b.generation THEN b.generation ELSE b.cohort]

\* A ticket of another generation, or an ordinary one during a probe.
Superseded(b, t) ==
  t.generation # b.generation \/ (b.state = "halfOpen" /\ ~t.probe)

OnFailure(g, b, t) ==
  IF Superseded(b, t) \/ b.state = "open" THEN b
  ELSE IF b.state = "closed" /\ b.failures + 1 < Threshold[g]
  THEN [b EXCEPT !.failures = @ + 1]
  ELSE Tripped(b, t, now + Recovery[g])

Later(a, b) == IF a < b THEN b ELSE a

\* The tickets in flight when the gate opened may still lengthen the window.
Extends(b, t) == b.state = "open" /\ b.cohort = t.generation

MutOnRetryAfter(g, b, t, ms) ==
  IF Superseded(b, t) /\ ~Extends(b, t) THEN b
  ELSE Tripped(b, t, now + ms)
OnRetryAfter(g, b, t, ms) ==
  IF Superseded(b, t) /\ ~Extends(b, t) THEN b
  ELSE LET asked == IF t.probe THEN Later(now + ms, now + Recovery[g]) ELSE now + ms
       IN  Tripped(b, t, IF b.state = "open" THEN Later(b.until, asked) ELSE asked)

-----------------------------------------------------------------------------
(* Reports.  An outcome is a verdict and the Retry-After of the answer.    *)

Verdicts == {"success", "fault", "ignored"}
NoDelay == -1

MutIgnored(g, b, t) == b
Ignored(g, b, t) == IF t.probe THEN OnFailure(g, b, t) ELSE b

\* CapturedSendClaim::finish on an origin: only a probe's faults count, a
\* Retry-After always does.
MutOriginFault(g, b, t, delay) ==
  IF delay = NoDelay THEN b ELSE OnRetryAfter(g, b, t, delay)
OriginFault(g, b, t, delay) ==
  LET counted == IF t.probe THEN OnFailure(g, b, t) ELSE b
  IN  IF delay = NoDelay THEN counted ELSE OnRetryAfter(g, counted, t, delay)

Reported(g, b, t, verdict, delay) ==
  CASE verdict = "success" -> OnSuccess(b, t)
    [] verdict = "ignored" -> Ignored(g, b, t)
    [] verdict = "fault"   -> IF g \in Providers THEN OnFailure(g, b, t)
                              ELSE OriginFault(g, b, t, delay)

\* Every ticket the request holds is reported under one lock.
Settle(r, verdict, delay) ==
  /\ book' = [g \in Gates |->
                IF tickets[r][g].held
                THEN Reported(g, book[g], tickets[r][g], verdict, delay)
                ELSE book[g]]
  /\ tickets' = [tickets EXCEPT ![r] = [g \in Gates |-> NoTicket]]
  /\ req' = [req EXCEPT ![r] = [phase |-> "idle", route |-> NoRoute]]
  /\ UNCHANGED <<now, sends>>

-----------------------------------------------------------------------------
Init ==
  /\ book = [g \in Gates |-> [state |-> "closed", failures |-> 0, until |-> 0,
                              generation |-> 0, cohort |-> NoCohort]]
  /\ req = [r \in Requests |-> [phase |-> "idle", route |-> NoRoute]]
  /\ tickets = [r \in Requests |-> [g \in Gates |-> NoTicket]]
  /\ now = 0 /\ sends = 0

\* A card is chosen among those whose gates looked ready.
Choose(r, route) ==
  /\ req[r].phase = "idle"
  /\ sends < MaxSends
  /\ \A g \in route.gates : Ready(book[g])
  /\ req' = [req EXCEPT ![r] = [phase |-> "chosen", route |-> route]]
  /\ sends' = sends + 1
  /\ UNCHANGED <<book, tickets, now>>

\* The gates in ok are claimed by r.
Claim(r, ok) ==
  /\ book' = [g \in Gates |-> IF g \in ok THEN Admitted(book[g]) ELSE book[g]]
  /\ tickets' = [tickets EXCEPT ![r] =
                   [g \in Gates |-> IF g \in ok THEN Ticket(book[g]) ELSE NoTicket]]
  /\ req' = [req EXCEPT ![r].phase = "sent"]
  /\ UNCHANGED <<now, sends>>

\* A proxied send holds all its gates or is not sent (claim_send).
MutMaySend(gates) == \E g \in gates : Ready(book[g])
MaySend(gates) == \A g \in gates : Ready(book[g])

Send(r) ==
  /\ req[r].phase = "chosen" /\ ~req[r].route.external
  /\ MaySend(req[r].route.gates)
  /\ Claim(r, req[r].route.gates)

SendRefused(r) ==
  /\ req[r].phase = "chosen" /\ ~req[r].route.external
  /\ ~MaySend(req[r].route.gates)
  /\ req' = [req EXCEPT ![r] = [phase |-> "idle", route |-> NoRoute]]
  /\ UNCHANGED <<book, tickets, now, sends>>

\* An external execution runs with the tickets it could get (begin_provider).
BeginExternal(r) ==
  /\ req[r].phase = "chosen" /\ req[r].route.external
  /\ Claim(r, {g \in req[r].route.gates : Ready(book[g])})

\* The upstream answered.
FinishSend(r) ==
  /\ req[r].phase = "sent" /\ ~req[r].route.external
  /\ \/ Settle(r, "success", NoDelay)
     \/ \E delay \in Delays \cup {NoDelay} : Settle(r, "fault", delay)

FinishExternal(r) ==
  /\ req[r].phase = "sent" /\ req[r].route.external
  /\ \E verdict \in Verdicts : Settle(r, verdict, NoDelay)

\* The caller went away, the observer failed, a task panicked.
Dropped(r) ==
  /\ req[r].phase = "sent"
  /\ Settle(r, "ignored", NoDelay)

\* The wall clock moves on, or is set back.
Tick ==
  /\ now' \in 0 .. MaxNow /\ now' # now
  /\ UNCHANGED <<book, req, tickets, sends>>

Step(r) ==
  \/ \E route \in Routes : Choose(r, route)
  \/ Send(r) \/ SendRefused(r) \/ BeginExternal(r)
  \/ FinishSend(r) \/ FinishExternal(r) \/ Dropped(r)

Next == Tick \/ \E r \in Requests : Step(r)

Spec == Init /\ [][Next]_vars

\* A send is bounded by its header timeout, an execution by its adapter's
\* timeouts, and a dropped future still runs its guard's Drop.
Fairness ==
  \A r \in Requests : WF_vars(FinishSend(r) \/ FinishExternal(r) \/ Dropped(r))

FairSpec == Spec /\ Fairness

-----------------------------------------------------------------------------
(* Properties *)

\* The shape of the book and of what the requests hold.
TypeOK ==
  /\ book \in [Gates -> [state : {"closed", "open", "halfOpen"}, failures : Nat,
                         until : Nat, generation : Nat, cohort : Nat \cup {NoCohort}]]
  /\ req \in [Requests -> [phase : {"idle", "chosen", "sent"},
                           route : Routes \cup {NoRoute}]]
  /\ tickets \in [Requests -> [Gates -> [held : BOOLEAN, generation : Nat,
                                         probe : BOOLEAN]]]
  /\ now \in Nat /\ sends \in Nat

\* r holds the ticket of g's current generation.
Current(r, g) ==
  tickets[r][g].held /\ tickets[r][g].generation = book[g].generation

\* r holds the probe of gate g.
OwnsProbe(r, g) == Current(r, g) /\ tickets[r][g].probe

\* A gate is half open exactly while one request in flight owns its probe:
\* no ticket is lost on a refusal of the other gate of a pair, on a cancel
\* or a panic, and no late report frees or duplicates it.
ProbeOwned ==
  \A g \in Gates :
    /\ book[g].state = "halfOpen" <=> \E r \in Requests : OwnsProbe(r, g)
    /\ \A r, s \in Requests : OwnsProbe(r, g) /\ OwnsProbe(s, g) => r = s

\* While a gate is open nobody holds a ticket that counts for it: answers of
\* requests sent before it opened can neither close it nor count again.
OpenForgets ==
  \A g \in Gates : book[g].state = "open" => \A r \in Requests : ~Current(r, g)

\* breaker.rs:9-10: once the window has passed a single probe is let through:
\* of the requests in flight only one holds a probe, and no proxied send runs
\* without the tickets of all its gates.
OneProbeAtATime ==
  \A g \in Gates :
    Cardinality({r \in Requests :
       /\ req[r].phase = "sent" /\ g \in req[r].route.gates
       /\ \/ tickets[r][g].probe
          \/ ~tickets[r][g].held /\ ~req[r].route.external}) <= 1

\* A gate that is open stays open until its window has passed, and a late
\* Retry-After only ever lengthens the window.
CooldownHolds ==
  [][\A g \in Gates : book[g].state = "open" =>
       \/ book'[g].state = "open" /\ book'[g].until >= book[g].until
       \/ book'[g].state = "halfOpen" /\ now >= book[g].until]_vars

\* A half-open gate closes only with the answer of the request that owned
\* the probe, and that request was really sent.
OnlyProbeCloses ==
  [][\A g \in Gates :
       book[g].state = "halfOpen" /\ book'[g].state = "closed" =>
         \E r \in Requests : /\ OwnsProbe(r, g) /\ req[r].phase = "sent"
                             /\ ~tickets'[r][g].held]_vars

\* The gates implement ProbeGates.
Phase == [g \in Gates |-> CASE book[g].state = "closed"   -> "closed"
                            [] book[g].state = "open"     -> "cooling"
                            [] book[g].state = "halfOpen" -> "probing"]

Owner == [g \in Gates |-> IF \E r \in Requests : OwnsProbe(r, g)
                          THEN CHOOSE r \in Requests : OwnsProbe(r, g)
                          ELSE Nobody]

Abstract == INSTANCE ProbeGates WITH phase <- Phase, owner <- Owner

\* Every step of the book is a step of the abstract gates: no gate leaves
\* probing or changes its prober except by an answer.
GatesSafe == Abstract!Safe

\* No probe is left without an answer: a claim that is cancelled, refused
\* by its observer or unwound reports a failure (the guards' Drop).
ProbesAnswered == Abstract!Live
\* breaker.rs:184, 361: every ticket is accounted for: the owner of a probe is
\* known exactly while its gate is half open, and nothing in flight counts for
\* an open gate.
ProbesAccounted == TypeOK /\ ProbeOwned /\ OpenForgets

\* breaker.rs:184-310: time alone opens the way for a probe, and its answer
\* alone closes a gate: late answers and other requests move neither.
GatesMoveInTurn == CooldownHolds /\ OnlyProbeCloses
=============================================================================
