----------------------------- MODULE BreakerProofs -----------------------------
(***************************************************************************)
(* Theorems about Breaker, for every set of requests, gates, routes,       *)
(* thresholds and windows.  The inductive invariant says, gate by gate,    *)
(* which tickets may be in flight in each state of the breaker: it is what *)
(* makes comparing a ticket's generation with the breaker's enough.        *)
(***************************************************************************)
EXTENDS Breaker, FiniteSetTheorems, TLAPS

BreakerRec == [state : {"closed", "open", "halfOpen"}, failures : Nat,
               until : Nat, generation : Nat, cohort : Nat \cup {NoCohort}]
TicketRec == [held : BOOLEAN, generation : Nat, probe : BOOLEAN]

\* Only a request that was sent holds tickets.
HoldersSent ==
  \A r \in Requests, g \in Gates : tickets[r][g].held => req[r].phase = "sent"

\* The tickets in flight for g: none from the future, none that counts
\* while g is open, no probe that counts while it is closed, nothing but
\* the probe while it is half open.
TicketsOf(g) ==
  /\ \A r \in Requests :
       tickets[r][g].held => tickets[r][g].generation <= book[g].generation
  /\ book[g].state = "open" => \A r \in Requests : ~Current(r, g)
  /\ book[g].state = "closed" => \A r \in Requests : ~OwnsProbe(r, g)
  /\ book[g].state = "halfOpen" =>
       \A r \in Requests : Current(r, g) => tickets[r][g].probe
  /\ book[g].state = "halfOpen" => \E r \in Requests : OwnsProbe(r, g)
  /\ \A r, s \in Requests : OwnsProbe(r, g) /\ OwnsProbe(s, g) => r = s

IInv == TypeOK /\ HoldersSent /\ \A g \in Gates : TicketsOf(g)

-----------------------------------------------------------------------------
(* What the transitions of one breaker do *)

\* on_success closes only a half-open breaker, for its own probe, and then
\* starts a new generation.
LEMMA SuccessStep ==
  ASSUME NEW b \in BreakerRec, NEW t \in TicketRec
  PROVE  LET n == OnSuccess(b, t) IN
         /\ n \in BreakerRec
         /\ \/ n.state = b.state /\ n.generation = b.generation
            \/ /\ b.state = "halfOpen" /\ t.probe /\ t.generation = b.generation
               /\ n.state = "closed" /\ n.generation = b.generation + 1
         /\ b.state = "halfOpen" /\ t.probe /\ t.generation = b.generation
              => n.state = "closed"
         /\ b.state = "open" => n = b
  BY DEF OnSuccess, Recovered, BreakerRec, TicketRec

\* on_failure opens a closed or half-open breaker with a new generation, or
\* only counts.
LEMMA FailureStep ==
  ASSUME NEW g \in Gates, NEW b \in BreakerRec, NEW t \in TicketRec, now \in Nat
  PROVE  LET n == OnFailure(g, b, t) IN
         /\ n \in BreakerRec
         /\ \/ n.state = b.state /\ n.generation = b.generation
            \/ /\ b.state # "open" /\ t.generation = b.generation
               /\ b.state = "halfOpen" => t.probe
               /\ n.state = "open" /\ n.generation = b.generation + 1
         /\ b.state = "halfOpen" /\ t.probe /\ t.generation = b.generation
              => n.state = "open"
         /\ b.state = "open" => n = b
  BY BreakerAssumption
     DEF OnFailure, Superseded, Tripped, BreakerRec, TicketRec

\* on_retry_after opens the breaker for a fresh ticket, and lengthens the
\* window for one of the cohort.
LEMMA RetryAfterStep ==
  ASSUME NEW g \in Gates, NEW b \in BreakerRec, NEW t \in TicketRec, now \in Nat,
         NEW ms \in Nat
  PROVE  LET n == OnRetryAfter(g, b, t, ms) IN
         /\ n \in BreakerRec
         /\ \/ n.state = b.state /\ n.generation = b.generation
            \/ /\ t.generation = b.generation
               /\ b.state = "halfOpen" => t.probe
               /\ n.state = "open" /\ n.generation = b.generation + 1
         /\ b.state = "halfOpen" /\ t.probe /\ t.generation = b.generation
              => n.state = "open"
         /\ b.state = "open" => n.state = "open" /\ n.until >= b.until
  <1>1. Recovery[g] \in Nat
    BY BreakerAssumption
  <1> QED
    BY <1>1 DEF OnRetryAfter, Superseded, Extends, Tripped, Later,
                BreakerRec, TicketRec

\* A report leaves the breaker's state and generation alone, or starts a new
\* generation in another state; a live probe's report always ends the probe.
\* This holds for a proxied fault on an origin too, where a counted failure
\* and a Retry-After follow each other on the same ticket.
LEMMA ReportStep ==
  ASSUME NEW g \in Gates, NEW b \in BreakerRec, NEW t \in TicketRec, now \in Nat,
         NEW verdict \in Verdicts, NEW delay \in Delays \cup {NoDelay}
  PROVE  LET n == Reported(g, b, t, verdict, delay) IN
         /\ n \in BreakerRec
         /\ \/ n.state = b.state /\ n.generation = b.generation
            \/ /\ t.generation = b.generation
               /\ b.state = "halfOpen" => t.probe
               /\ n.state \in {"closed", "open"} /\ n.generation = b.generation + 1
               /\ b.state = "closed" => n.state = "open"
         /\ b.state = "halfOpen" /\ t.probe /\ t.generation = b.generation
              => n.state # "halfOpen"
         /\ b.state = "open" => n.state = "open" /\ n.until >= b.until
  <1> DEFINE n == Reported(g, b, t, verdict, delay)
             f == OnFailure(g, b, t)
  <1>b. b.until \in Nat /\ b.generation \in Nat /\ t.generation \in Nat
    BY DEF BreakerRec, TicketRec
  <1>1. CASE verdict = "success"
    <2>1. n = OnSuccess(b, t)
      BY <1>1 DEF Reported
    <2> QED
      BY <1>b, <2>1, SuccessStep DEF BreakerRec
  <1>f. /\ f \in BreakerRec
        /\ \/ f.state = b.state /\ f.generation = b.generation
           \/ /\ b.state # "open" /\ t.generation = b.generation
              /\ b.state = "halfOpen" => t.probe
              /\ f.state = "open" /\ f.generation = b.generation + 1
        /\ b.state = "halfOpen" /\ t.probe /\ t.generation = b.generation
              => f.state = "open"
        /\ b.state = "open" => f = b
    BY FailureStep
  <1>2. CASE verdict = "ignored"
    <2>1. n = IF t.probe THEN f ELSE b
      BY <1>2 DEF Reported, Ignored
    <2> QED
      BY <1>b, <1>f, <2>1 DEF BreakerRec
  <1>3. CASE verdict = "fault" /\ g \in Providers
    <2>1. n = f
      BY <1>3 DEF Reported
    <2> QED
      BY <1>b, <1>f, <2>1 DEF BreakerRec
  <1>4. CASE verdict = "fault" /\ g \notin Providers
    <2> DEFINE c == IF t.probe THEN f ELSE b
    <2>c. c \in BreakerRec
      BY <1>f
    <2>1. CASE delay = NoDelay
      <3>1. n = c
        BY <1>4, <2>1 DEF Reported, OriginFault
      <3> QED
        BY <1>b, <1>f, <3>1 DEF BreakerRec
    <2>2. CASE delay # NoDelay
      <3>1. n = OnRetryAfter(g, c, t, delay)
        BY <1>4, <2>2 DEF Reported, OriginFault
      <3>2. delay \in Nat
        BY <2>2, BreakerAssumption
      <3>3. /\ n \in BreakerRec
            /\ \/ n.state = c.state /\ n.generation = c.generation
               \/ /\ t.generation = c.generation
                  /\ c.state = "halfOpen" => t.probe
                  /\ n.state = "open" /\ n.generation = c.generation + 1
            /\ c.state = "halfOpen" /\ t.probe /\ t.generation = c.generation
                  => n.state = "open"
            /\ c.state = "open" => n.state = "open" /\ n.until >= c.until
        BY <2>c, <3>1, <3>2, RetryAfterStep
      <3>4. CASE t.probe
        <4>1. c = f
          BY <3>4
        <4> HIDE DEF c
        <4> QED
          BY <1>b, <1>f, <3>3, <4>1, <3>4 DEF BreakerRec
      <3>5. CASE ~t.probe
        <4>1. c = b
          BY <3>5
        <4> HIDE DEF c
        <4> QED
          BY <1>b, <3>3, <4>1, <3>5 DEF BreakerRec
      <3> QED
        BY <3>4, <3>5
    <2> QED
      BY <2>1, <2>2
  <1> QED
    BY <1>1, <1>2, <1>3, <1>4 DEF Verdicts

-----------------------------------------------------------------------------
(* The inductive invariant *)

LEMMA InitInv == Init => IInv
  <1> SUFFICES ASSUME Init PROVE IInv
    OBVIOUS
  <1>1. TypeOK
    BY DEF Init, TypeOK, NoRoute, NoTicket
  <1>2. \A r \in Requests, g \in Gates : ~tickets[r][g].held
    BY DEF Init, NoTicket
  <1>3. \A g \in Gates : book[g].state = "closed"
    BY DEF Init
  <1> QED
    BY <1>1, <1>2, <1>3 DEF IInv, HoldersSent, TicketsOf, Current, OwnsProbe

\* Reporting a request's tickets preserves the invariant.
LEMMA SettleInv ==
  ASSUME IInv, NEW r \in Requests, NEW verdict \in Verdicts,
         NEW delay \in Delays \cup {NoDelay}, Settle(r, verdict, delay)
  PROVE  IInv'
  <1> USE DEF IInv
  <1>t. /\ book \in [Gates -> BreakerRec] /\ now \in Nat
        /\ tickets \in [Requests -> [Gates -> TicketRec]]
    BY DEF TypeOK, BreakerRec, TicketRec
  <1>n. /\ NoTicket \in TicketRec /\ ~NoTicket.held
    BY DEF NoTicket, TicketRec
  <1>b. \A g \in Gates :
          book'[g] = IF tickets[r][g].held
                     THEN Reported(g, book[g], tickets[r][g], verdict, delay)
                     ELSE book[g]
    BY DEF Settle
  <1>h. \A s \in Requests, g \in Gates :
          tickets'[s][g] = IF s = r THEN NoTicket ELSE tickets[s][g]
    BY <1>t DEF Settle
  <1>1. TypeOK'
    <2>1. book' \in [Gates -> BreakerRec]
      <3>1. \A g \in Gates : book'[g] \in BreakerRec
        BY <1>t, <1>b, ReportStep
      <3> QED
        BY <3>1 DEF Settle
    <2>2. tickets' \in [Requests -> [Gates -> TicketRec]]
      BY <1>t, <1>n DEF Settle
    <2>3. req' \in [Requests -> [phase : {"idle", "chosen", "sent"},
                                route : Routes \cup {NoRoute}]]
      BY DEF Settle, TypeOK
    <2> QED
      BY <2>1, <2>2, <2>3 DEF TypeOK, BreakerRec, TicketRec, Settle
  <1>2. HoldersSent'
    BY <1>h, <1>n DEF HoldersSent, Settle, TypeOK
  <1>3. ASSUME NEW g \in Gates PROVE TicketsOf(g)'
    <2> DEFINE b == book[g]
               n == book'[g]
               t == tickets[r][g]
    <2>1. b \in BreakerRec /\ t \in TicketRec /\ b.generation \in Nat
      BY <1>t DEF BreakerRec
    <2>2. \A s \in Requests :
            /\ tickets'[s][g].held => s # r /\ tickets[s][g].held
            /\ s # r => tickets'[s][g] = tickets[s][g]
            /\ tickets[s][g].generation \in Nat
            /\ tickets[s][g].held => tickets[s][g].generation <= b.generation
      BY <1>h, <1>n, <1>t DEF TicketRec, TicketsOf
    <2>3. CASE n.generation = b.generation /\ n.state = b.state /\ ~Current(r, g)
      BY <2>1, <2>2, <2>3 DEF TicketsOf, Current, OwnsProbe
    <2>4. CASE n.generation = b.generation /\ n.state = b.state /\ b.state # "halfOpen"
      BY <2>1, <2>2, <2>4 DEF TicketsOf, Current, OwnsProbe
    <2>5. CASE n.generation = b.generation + 1 /\ n.state \in {"closed", "open"}
      <3>1. \A s \in Requests : ~Current(s, g)'
        BY <2>1, <2>2, <2>5 DEF Current
      <3>2. \A s \in Requests :
              tickets'[s][g].held => tickets'[s][g].generation <= n.generation
        BY <2>1, <2>2, <2>5
      <3> QED
        BY <2>5, <3>1, <3>2 DEF TicketsOf, OwnsProbe
    <2>6. CASE ~t.held
      BY <1>b, <2>3, <2>6 DEF Current
    <2>7. CASE t.held
      <3>1. n = Reported(g, b, t, verdict, delay)
        BY <1>b, <2>7
      <3>2. /\ \/ n.state = b.state /\ n.generation = b.generation
               \/ n.state \in {"closed", "open"} /\ n.generation = b.generation + 1
            /\ b.state = "halfOpen" /\ t.probe /\ t.generation = b.generation
                 => n.state # "halfOpen"
        BY <1>t, <2>1, <3>1, ReportStep
      <3>3. b.state = "halfOpen" /\ Current(r, g) => n.state # "halfOpen"
        BY <3>2 DEF TicketsOf, Current
      <3> QED
        BY <2>3, <2>4, <2>5, <3>2, <3>3
    <2> QED
      BY <2>6, <2>7
  <1> QED
    BY <1>1, <1>2, <1>3

\* Claiming gates that are ready preserves the invariant.
LEMMA ClaimInv ==
  ASSUME IInv, NEW r \in Requests, NEW ok, req[r].phase = "chosen",
         \A g \in Gates : g \in ok => Ready(book[g]),
         Claim(r, ok)
  PROVE  IInv'
  <1> USE DEF IInv
  <1>t. /\ book \in [Gates -> BreakerRec] /\ now \in Nat
        /\ tickets \in [Requests -> [Gates -> TicketRec]]
        /\ req \in [Requests -> [phase : {"idle", "chosen", "sent"},
                                 route : Routes \cup {NoRoute}]]
    BY DEF TypeOK, BreakerRec, TicketRec
  <1>n. /\ NoTicket \in TicketRec /\ ~NoTicket.held
    BY DEF NoTicket, TicketRec
  <1>b. \A g \in Gates :
          book'[g] = IF g \in ok THEN Admitted(book[g]) ELSE book[g]
    BY DEF Claim
  <1>h. \A s \in Requests, g \in Gates :
          tickets'[s][g] = IF s = r
                           THEN IF g \in ok THEN Ticket(book[g]) ELSE NoTicket
                           ELSE tickets[s][g]
    BY <1>t DEF Claim
  <1>f. \A g \in Gates : ~tickets[r][g].held
    BY DEF HoldersSent
  <1>a. \A b \in BreakerRec :
          /\ Admitted(b) \in BreakerRec /\ Admitted(b).generation = b.generation
          /\ Admitted(b).state = IF b.state = "closed" THEN "closed" ELSE "halfOpen"
          /\ Ticket(b) \in TicketRec /\ Ticket(b).held
          /\ Ticket(b).generation = b.generation
          /\ Ticket(b).probe <=> b.state # "closed"
          /\ b.generation \in Nat
    BY DEF Admitted, Ticket, BreakerRec, TicketRec
  <1>1. TypeOK'
    <2>1. book' \in [Gates -> BreakerRec]
      BY <1>t, <1>a DEF Claim
    <2>2. tickets' \in [Requests -> [Gates -> TicketRec]]
      BY <1>t, <1>n, <1>a DEF Claim
    <2>3. req' \in [Requests -> [phase : {"idle", "chosen", "sent"},
                                route : Routes \cup {NoRoute}]]
      BY <1>t DEF Claim
    <2> QED
      BY <2>1, <2>2, <2>3 DEF TypeOK, BreakerRec, TicketRec, Claim
  <1>2. HoldersSent'
    BY <1>h, <1>n, <1>t DEF HoldersSent, Claim
  <1>3. ASSUME NEW g \in Gates PROVE TicketsOf(g)'
    <2>1. book[g] \in BreakerRec /\ book[g].generation \in Nat
      BY <1>t DEF BreakerRec
    <2>2. CASE g \notin ok
      <3>1. /\ book'[g] = book[g] /\ ~tickets'[r][g].held
            /\ \A s \in Requests : s # r => tickets'[s][g] = tickets[s][g]
        BY <1>b, <1>h, <1>n, <2>2
      <3> QED
        BY <3>1, <1>f DEF TicketsOf, Current, OwnsProbe
    <2>3. CASE g \in ok /\ book[g].state = "closed"
      <3>1. /\ book'[g].state = "closed" /\ book'[g].generation = book[g].generation
            /\ tickets'[r][g].generation = book[g].generation /\ ~tickets'[r][g].probe
            /\ \A s \in Requests : s # r => tickets'[s][g] = tickets[s][g]
        BY <1>a, <1>b, <1>h, <2>1, <2>3
      <3> QED
        BY <3>1, <2>1, <2>3 DEF TicketsOf, Current, OwnsProbe
    <2>4. CASE g \in ok /\ book[g].state = "open"
      <3>1. /\ book'[g].state = "halfOpen" /\ book'[g].generation = book[g].generation
            /\ tickets'[r][g].generation = book[g].generation
            /\ tickets'[r][g].held /\ tickets'[r][g].probe
            /\ \A s \in Requests : s # r => tickets'[s][g] = tickets[s][g]
        BY <1>a, <1>b, <1>h, <2>1, <2>4
      <3>2. \A s \in Requests : Current(s, g)' => s = r
        BY <3>1, <2>4 DEF TicketsOf, Current
      <3> QED
        BY <3>1, <3>2, <2>1 DEF TicketsOf, Current, OwnsProbe
    <2> QED
      BY <2>2, <2>3, <2>4 DEF Ready
  <1> QED
    BY <1>1, <1>2, <1>3

\* A step that touches neither book nor tickets, and leaves the requests
\* that were sent as they are.
LEMMA QuietInv ==
  ASSUME IInv, TypeOK', UNCHANGED <<book, tickets>>,
         \A r \in Requests : req[r].phase = "sent" => req'[r].phase = "sent"
  PROVE  IInv'
  BY DEF IInv, HoldersSent, TicketsOf, Current, OwnsProbe

LEMMA NextInv == IInv /\ [Next]_vars => IInv'
  <1> SUFFICES ASSUME IInv, [Next]_vars PROVE IInv'
    OBVIOUS
  <1>t. TypeOK /\ NoDelay \in Delays \cup {NoDelay}
    BY DEF IInv
  <1>v. {"success", "fault", "ignored"} = Verdicts
    BY DEF Verdicts
  <1>1. CASE Tick
    <2>1. now' \in Nat
      BY <1>1, BreakerAssumption DEF Tick
    <2> QED
      BY <1>1, <1>t, <2>1, QuietInv DEF Tick, TypeOK
  <1>2. ASSUME NEW r \in Requests, NEW route \in Routes, Choose(r, route) PROVE IInv'
    BY <1>2, <1>t, QuietInv DEF Choose, TypeOK
  <1>3. ASSUME NEW r \in Requests, Send(r) PROVE IInv'
    BY <1>3, ClaimInv DEF Send, MaySend
  <1>4. ASSUME NEW r \in Requests, SendRefused(r) PROVE IInv'
    BY <1>4, <1>t, QuietInv DEF SendRefused, TypeOK
  <1>5. ASSUME NEW r \in Requests, BeginExternal(r) PROVE IInv'
    <2> DEFINE ok == {g \in req[r].route.gates : Ready(book[g])}
    <2>1. /\ Claim(r, ok) /\ req[r].phase = "chosen"
          /\ \A g \in Gates : g \in ok => Ready(book[g])
      BY <1>5 DEF BeginExternal
    <2> HIDE DEF ok
    <2> QED
      BY <2>1, ClaimInv
  <1>6. ASSUME NEW r \in Requests, FinishSend(r) PROVE IInv'
    <2>1. CASE Settle(r, "success", NoDelay)
      BY <1>t, <1>v, <2>1, SettleInv
    <2>2. ASSUME NEW delay \in Delays \cup {NoDelay}, Settle(r, "fault", delay)
          PROVE  IInv'
      BY <1>v, <2>2, SettleInv
    <2> QED
      BY <1>6, <2>1, <2>2 DEF FinishSend
  <1>7. ASSUME NEW r \in Requests, FinishExternal(r) PROVE IInv'
    BY <1>7, <1>t, SettleInv DEF FinishExternal
  <1>8. ASSUME NEW r \in Requests, Dropped(r) PROVE IInv'
    BY <1>8, <1>t, <1>v, SettleInv DEF Dropped
  <1>9. CASE UNCHANGED vars
    BY <1>9, <1>t, QuietInv DEF vars, TypeOK
  <1> QED
    BY <1>1, <1>2, <1>3, <1>4, <1>5, <1>6, <1>7, <1>8, <1>9 DEF Next, Step

LEMMA SpecInv == Spec => []IInv
  BY InitInv, NextInv, PTL DEF Spec

-----------------------------------------------------------------------------
(* What a step may do to a gate *)

\* A step settles one request, claims gates for one, or touches no gate.
LEMMA StepKinds ==
  ASSUME [Next]_vars
  PROVE  \/ UNCHANGED <<book, tickets>>
         \/ \E r \in Requests, verdict \in Verdicts, delay \in Delays \cup {NoDelay} :
              req[r].phase = "sent" /\ Settle(r, verdict, delay)
         \/ \E r \in Requests : \E ok :
              /\ Claim(r, ok)
              /\ \A g \in Gates : g \in ok => Ready(book[g])
  <1>1. CASE Tick \/ UNCHANGED vars
    BY <1>1 DEF Tick, vars
  <1>2. ASSUME NEW r \in Requests, NEW route \in Routes, Choose(r, route)
        PROVE  UNCHANGED <<book, tickets>>
    BY <1>2 DEF Choose
  <1>3. ASSUME NEW r \in Requests, SendRefused(r) PROVE UNCHANGED <<book, tickets>>
    BY <1>3 DEF SendRefused
  <1>4. ASSUME NEW r \in Requests, Send(r)
        PROVE  \E ok : Claim(r, ok) /\ \A g \in Gates : g \in ok => Ready(book[g])
    BY <1>4 DEF Send, MaySend
  <1>5. ASSUME NEW r \in Requests, BeginExternal(r)
        PROVE  \E ok : Claim(r, ok) /\ \A g \in Gates : g \in ok => Ready(book[g])
    BY <1>5 DEF BeginExternal
  <1>6. ASSUME NEW r \in Requests, FinishSend(r) \/ FinishExternal(r) \/ Dropped(r)
        PROVE  \E verdict \in Verdicts, delay \in Delays \cup {NoDelay} :
                 req[r].phase = "sent" /\ Settle(r, verdict, delay)
    BY <1>6 DEF FinishSend, FinishExternal, Dropped, Verdicts
  <1> QED
    BY <1>1, <1>2, <1>3, <1>4, <1>5, <1>6 DEF Next, Step

\* The moves of one gate: it stays, with the same prober; it opens; its
\* probe starts once the window has passed; its prober answers.
LEMMA GateStep ==
  ASSUME IInv, [Next]_vars, NEW g \in Gates
  PROVE  \/ /\ book'[g].state = book[g].state
            /\ book[g].state = "open" => book'[g].until >= book[g].until
            /\ \A s \in Requests : OwnsProbe(s, g)' <=> OwnsProbe(s, g)
         \/ book[g].state = "closed" /\ book'[g].state = "open"
         \/ book[g].state = "open" /\ book'[g].state = "halfOpen" /\ now >= book[g].until
         \/ /\ book[g].state = "halfOpen" /\ book'[g].state \in {"closed", "open"}
            /\ \E r \in Requests : /\ OwnsProbe(r, g) /\ req[r].phase = "sent"
                                  /\ ~tickets'[r][g].held
  <1>i. IInv'
    BY NextInv
  <1>t. /\ book \in [Gates -> BreakerRec] /\ now \in Nat
        /\ tickets \in [Requests -> [Gates -> TicketRec]]
        /\ book[g] \in BreakerRec /\ book[g].until \in Nat /\ book[g].generation \in Nat
        /\ book[g].state \in {"closed", "open", "halfOpen"}
    BY DEF IInv, TypeOK, BreakerRec, TicketRec
  <1>o. ASSUME book'[g].state = book[g].state, book[g].state # "halfOpen"
        PROVE  \A s \in Requests : OwnsProbe(s, g)' <=> OwnsProbe(s, g)
    BY <1>i, <1>o, <1>t DEF IInv, TicketsOf, OwnsProbe
  <1>1. CASE UNCHANGED <<book, tickets>>
    BY <1>1, <1>t DEF OwnsProbe, Current
  <1>2. ASSUME NEW r \in Requests, NEW verdict \in Verdicts,
               NEW delay \in Delays \cup {NoDelay},
               req[r].phase = "sent", Settle(r, verdict, delay)
        PROVE  \/ /\ book'[g].state = book[g].state
                  /\ book[g].state = "open" => book'[g].until >= book[g].until
                  /\ \A s \in Requests : OwnsProbe(s, g)' <=> OwnsProbe(s, g)
               \/ book[g].state = "closed" /\ book'[g].state = "open"
               \/ /\ book[g].state = "halfOpen" /\ book'[g].state \in {"closed", "open"}
                  /\ OwnsProbe(r, g) /\ ~tickets'[r][g].held
    <2>1. /\ ~tickets'[r][g].held
          /\ \A s \in Requests : s # r => tickets'[s][g] = tickets[s][g]
      BY <1>2, <1>t DEF Settle, NoTicket
    <2>2. CASE ~tickets[r][g].held
      <3>1. book'[g] = book[g]
        BY <1>2, <2>2 DEF Settle
      <3> QED
        BY <1>t, <2>1, <2>2, <3>1 DEF OwnsProbe, Current
    <2>3. CASE tickets[r][g].held
      <3>1. book'[g] = Reported(g, book[g], tickets[r][g], verdict, delay)
        BY <1>2, <2>3 DEF Settle
      <3>2. /\ \/ /\ book'[g].state = book[g].state
                  /\ book'[g].generation = book[g].generation
               \/ /\ tickets[r][g].generation = book[g].generation
                  /\ book[g].state = "halfOpen" => tickets[r][g].probe
                  /\ book'[g].state \in {"closed", "open"}
                  /\ book[g].state = "closed" => book'[g].state = "open"
            /\ book[g].state = "halfOpen" /\ tickets[r][g].probe
                 /\ tickets[r][g].generation = book[g].generation
                 => book'[g].state # "halfOpen"
            /\ book[g].state = "open" => book'[g].state = "open"
                                          /\ book'[g].until >= book[g].until
        BY <1>t, <3>1, ReportStep
      <3>3. CASE book[g].state # "halfOpen"
        BY <1>t, <1>o, <3>2, <3>3
      <3>4. CASE book[g].state = "halfOpen" /\ OwnsProbe(r, g)
        BY <1>t, <2>1, <3>2, <3>4 DEF OwnsProbe, Current
      <3>5. CASE book[g].state = "halfOpen" /\ ~OwnsProbe(r, g)
        <4>1. /\ book'[g].state = book[g].state
              /\ book'[g].generation = book[g].generation
          BY <2>3, <3>2, <3>5 DEF OwnsProbe, Current
        <4> QED
          BY <2>1, <3>5, <4>1 DEF OwnsProbe, Current
      <3> QED
        BY <3>3, <3>4, <3>5
    <2> QED
      BY <2>2, <2>3
  <1>3. ASSUME NEW r \in Requests, NEW ok, Claim(r, ok),
               \A x \in Gates : x \in ok => Ready(book[x])
        PROVE  \/ /\ book'[g].state = book[g].state
                  /\ book[g].state = "open" => book'[g].until >= book[g].until
                  /\ \A s \in Requests : OwnsProbe(s, g)' <=> OwnsProbe(s, g)
               \/ /\ book[g].state = "open" /\ book'[g].state = "halfOpen"
                  /\ now >= book[g].until
    <2>1. book'[g] = IF g \in ok THEN Admitted(book[g]) ELSE book[g]
      BY <1>3 DEF Claim
    <2>2. CASE g \in ok /\ book[g].state = "closed"
      BY <1>o, <2>1, <2>2 DEF Admitted
    <2>3. CASE g \in ok /\ book[g].state = "open"
      BY <1>3, <1>t, <2>1, <2>3 DEF Admitted, Ready, BreakerRec
    <2>4. CASE g \notin ok /\ book[g].state # "halfOpen"
      BY <1>o, <1>t, <2>1, <2>4
    <2>5. CASE g \notin ok /\ book[g].state = "halfOpen"
      <3>1. book'[g] = book[g]
        BY <2>1, <2>5
      <3>2. \A s \in Requests : s # r => tickets'[s][g] = tickets[s][g]
        BY <1>3, <1>t DEF Claim
      <3>3. ~tickets'[r][g].held
        BY <1>3, <1>t, <2>5 DEF Claim, NoTicket
      <3>4. PICK p \in Requests : OwnsProbe(p, g)'
        BY <1>i, <2>5, <3>1 DEF IInv, TicketsOf
      <3>5. OwnsProbe(p, g)
        BY <3>1, <3>2, <3>3, <3>4 DEF OwnsProbe, Current
      <3> QED
        BY <1>i, <2>5, <3>1, <3>4, <3>5 DEF IInv, TicketsOf
    <2> QED
      BY <1>3, <2>2, <2>3, <2>4, <2>5 DEF Ready
  <1> QED
    BY <1>1, <1>2, <1>3, StepKinds

-----------------------------------------------------------------------------
(* Theorems *)

\* The book and the tickets keep their shape: counters and windows never
\* become negative, whatever the order of the answers.
THEOREM Typed == Spec => []TypeOK
  <1>1. IInv => TypeOK
    BY DEF IInv
  <1> QED
    BY <1>1, SpecInv, PTL

\* A gate is half open exactly while one request owns its probe: neither a
\* refused pair, a cancel, nor a late answer loses or doubles a probe.
THEOREM ProbesOwned == Spec => []ProbeOwned
  <1>1. IInv => ProbeOwned
    <2> SUFFICES ASSUME IInv, NEW g \in Gates
                 PROVE  /\ book[g].state = "halfOpen"
                             <=> \E r \in Requests : OwnsProbe(r, g)
                        /\ \A r, s \in Requests :
                             OwnsProbe(r, g) /\ OwnsProbe(s, g) => r = s
      BY DEF ProbeOwned
    <2>1. book[g].state \in {"closed", "open", "halfOpen"}
      BY DEF IInv, TypeOK
    <2>2. TicketsOf(g)
      BY DEF IInv
    <2> QED
      BY <2>1, <2>2 DEF TicketsOf, OwnsProbe
  <1> QED
    BY <1>1, SpecInv, PTL

\* No answer in flight counts for an open gate.
THEOREM OpenGatesForget == Spec => []OpenForgets
  <1>1. IInv => OpenForgets
    BY DEF IInv, TicketsOf, OpenForgets
  <1> QED
    BY <1>1, SpecInv, PTL

\* An open gate waits for its window, which no late answer shortens.
THEOREM CooldownsHold == Spec => CooldownHolds
  <1>1. IInv /\ [Next]_vars =>
          [\A g \in Gates : book[g].state = "open" =>
             \/ book'[g].state = "open" /\ book'[g].until >= book[g].until
             \/ book'[g].state = "halfOpen" /\ now >= book[g].until]_vars
    BY GateStep
  <1> QED
    BY <1>1, SpecInv, PTL DEF Spec, CooldownHolds

\* Only the answer of the request that owns the probe closes a gate.
THEOREM OnlyProbesClose == Spec => OnlyProbeCloses
  <1>1. IInv /\ [Next]_vars =>
          [\A g \in Gates :
             book[g].state = "halfOpen" /\ book'[g].state = "closed" =>
               \E r \in Requests : /\ OwnsProbe(r, g) /\ req[r].phase = "sent"
                                   /\ ~tickets'[r][g].held]_vars
    BY GateStep
  <1> QED
    BY <1>1, SpecInv, PTL DEF Spec, OnlyProbeCloses

\* The book refines the abstract gates: whatever the requests, their order
\* and the clock, every gate moves only as ProbeGates allows.
THEOREM Refinement == Spec => GatesSafe
  <1>1. Init => Abstract!Init
    <2> SUFFICES ASSUME Init PROVE Abstract!Init
      OBVIOUS
    <2>1. \A g \in Gates : book[g].state = "closed"
                           /\ \A r \in Requests : ~OwnsProbe(r, g)
      BY DEF Init, OwnsProbe, Current, NoTicket
    <2> QED
      BY <2>1 DEF Abstract!Init, Phase, Owner
  <1>2. IInv /\ [Next]_vars => [Abstract!Next]_(Abstract!vars)
    <2> SUFFICES ASSUME IInv, [Next]_vars, NEW g \in Gates
                 PROVE  \/ Abstract!Rest(g) \/ Abstract!Trip(g) \/ Abstract!Probe(g)
                        \/ Abstract!Recover(g) \/ Abstract!Relapse(g)
      BY DEF Abstract!Next
    <2>i. IInv' /\ TicketsOf(g) /\ TicketsOf(g)'
      BY NextInv DEF IInv
    <2>s. /\ book[g].state \in {"closed", "open", "halfOpen"}
          /\ book'[g].state \in {"closed", "open", "halfOpen"}
      BY <2>i DEF IInv, TypeOK
    <2>o. /\ book[g].state # "halfOpen" => Owner[g] = Nobody
          /\ book'[g].state # "halfOpen" => Owner'[g] = Nobody
          /\ book'[g].state = "halfOpen" => Owner'[g] \in Requests
      BY <2>i, <2>s DEF Owner, TicketsOf, OwnsProbe
    <2>1. CASE /\ book'[g].state = book[g].state
               /\ \A s \in Requests : OwnsProbe(s, g)' <=> OwnsProbe(s, g)
      <3>1. Phase'[g] = Phase[g]
        BY <2>1, <2>s DEF Phase
      <3>2. Owner'[g] = Owner[g]
        <4>1. CASE book[g].state # "halfOpen"
          BY <2>1, <2>o, <4>1
        <4>2. CASE book[g].state = "halfOpen"
          <5>1. PICK p \in Requests : OwnsProbe(p, g)
            BY <2>i, <4>2 DEF TicketsOf
          <5>2. Owner[g] = p
            BY <2>i, <5>1 DEF Owner, TicketsOf
          <5>3. OwnsProbe(p, g)' /\ \A s \in Requests : OwnsProbe(s, g)' => s = p
            BY <2>1, <2>i, <5>1 DEF TicketsOf
          <5>4. Owner'[g] = p
            BY <5>3 DEF Owner
          <5> QED
            BY <5>2, <5>4
        <4> QED
          BY <4>1, <4>2
      <3> QED
        BY <3>1, <3>2 DEF Abstract!Rest
    <2>2. CASE book[g].state = "closed" /\ book'[g].state = "open"
      BY <2>2, <2>o DEF Abstract!Trip, Phase
    <2>3. CASE book[g].state = "open" /\ book'[g].state = "halfOpen"
      BY <2>3, <2>o DEF Abstract!Probe, Phase
    <2>4. CASE book[g].state = "halfOpen" /\ book'[g].state = "closed"
      BY <2>4, <2>o DEF Abstract!Recover, Phase
    <2>5. CASE book[g].state = "halfOpen" /\ book'[g].state = "open"
      BY <2>5, <2>o DEF Abstract!Relapse, Phase
    <2> QED
      BY <2>1, <2>2, <2>3, <2>4, <2>5, GateStep
  <1> QED
    BY <1>1, <1>2, SpecInv, PTL DEF Spec, GatesSafe, Abstract!Safe

-----------------------------------------------------------------------------
(* One probe at a time *)

\* A probe in flight still counts: nothing but its own answer ends its
\* generation.  A proxied send in flight holds the tickets of all its gates.
ProbesLive == \A r \in Requests, g \in Gates : tickets[r][g].probe => OwnsProbe(r, g)
SentHoldAll ==
  \A r \in Requests : req[r].phase = "sent" /\ ~req[r].route.external =>
    \A g \in req[r].route.gates : g \in Gates /\ tickets[r][g].held

LEMMA ProbesLiveStep ==
  ASSUME IInv, ProbesLive, [Next]_vars
  PROVE  ProbesLive'
  <1> SUFFICES ASSUME NEW s \in Requests, NEW g \in Gates, tickets'[s][g].probe
               PROVE  OwnsProbe(s, g)'
    BY DEF ProbesLive
  <1>t. /\ tickets \in [Requests -> [Gates -> TicketRec]]
        /\ TicketsOf(g) /\ book \in [Gates -> BreakerRec]
    BY DEF IInv, TypeOK, TicketRec, BreakerRec
  <1>1. CASE tickets'[s][g] = tickets[s][g]
    <2>1. OwnsProbe(s, g)
      BY <1>1 DEF ProbesLive
    <2>2. book[g].state = "halfOpen"
      BY <1>t, <2>1 DEF TicketsOf, OwnsProbe, BreakerRec
    <2>3. ~ \E r \in Requests : OwnsProbe(r, g) /\ ~tickets'[r][g].held
      BY <1>1, <1>t, <2>1 DEF TicketsOf, OwnsProbe, Current
    <2> QED
      BY <2>1, <2>2, <2>3, GateStep
  <1>2. ASSUME NEW r \in Requests, NEW verdict, NEW delay, Settle(r, verdict, delay)
        PROVE  tickets'[s][g] = tickets[s][g]
    <2>1. s # r
      BY <1>2, <1>t DEF Settle, NoTicket
    <2> QED
      BY <1>2, <1>t, <2>1 DEF Settle
  <1>3. ASSUME NEW r \in Requests, NEW ok, Claim(r, ok),
               \A x \in Gates : x \in ok => Ready(book[x])
        PROVE  OwnsProbe(s, g)'
    <2>1. CASE s # r
      <3>1. tickets'[s][g] = tickets[s][g]
        BY <1>3, <1>t, <2>1 DEF Claim
      <3> QED
        BY <1>1, <3>1
    <2>2. CASE s = r
      <3>1. tickets'[s][g] = IF g \in ok THEN Ticket(book[g]) ELSE NoTicket
        BY <1>3, <1>t, <2>2 DEF Claim
      <3>2. g \in ok /\ tickets'[s][g] = Ticket(book[g])
        BY <3>1 DEF NoTicket
      <3>3. book'[g] = Admitted(book[g]) /\ book[g] \in BreakerRec
        BY <1>3, <1>t, <3>2 DEF Claim
      <3>4. book'[g].generation = book[g].generation
        BY <3>3 DEF Admitted, BreakerRec
      <3> QED
        BY <3>2, <3>4 DEF OwnsProbe, Current, Ticket
    <2> QED
      BY <2>1, <2>2
  <1> QED
    BY <1>1, <1>2, <1>3, StepKinds

LEMMA SentHoldAllStep ==
  ASSUME IInv, SentHoldAll, [Next]_vars
  PROVE  SentHoldAll'
  <1> SUFFICES ASSUME NEW s \in Requests, req'[s].phase = "sent", ~req'[s].route.external,
                      NEW g \in req'[s].route.gates
               PROVE  g \in Gates /\ tickets'[s][g].held
    BY DEF SentHoldAll
  <1>t. /\ tickets \in [Requests -> [Gates -> TicketRec]]
        /\ req \in [Requests -> [phase : {"idle", "chosen", "sent"},
                                 route : Routes \cup {NoRoute}]]
    BY DEF IInv, TypeOK, TicketRec
  <1>1. CASE req'[s] = req[s] /\ tickets'[s] = tickets[s]
    BY <1>1 DEF SentHoldAll
  <1>2. CASE Tick \/ UNCHANGED vars
    BY <1>1, <1>2 DEF Tick, vars
  <1>3. ASSUME NEW r \in Requests, s # r, Step(r)
        PROVE  req'[s] = req[s] /\ tickets'[s] = tickets[s]
    BY <1>3, <1>t DEF Step, Choose, Send, SendRefused, BeginExternal, FinishSend,
       FinishExternal, Dropped, Claim, Settle
  <1>4. CASE Step(s)
    <2>1. CASE Send(s)
      <3>1. req'[s].route = req[s].route /\ req[s].route \in Routes \cup {NoRoute}
        BY <1>t, <2>1 DEF Send, Claim
      <3>2. g \in req[s].route.gates /\ g \in Gates
        BY <3>1, BreakerAssumption DEF NoRoute
      <3>3. tickets'[s][g] = Ticket(book[g])
        BY <1>t, <2>1, <3>2 DEF Send, Claim
      <3> QED
        BY <3>2, <3>3 DEF Ticket
    <2>2. CASE BeginExternal(s)
      BY <1>t, <2>2 DEF BeginExternal, Claim
    <2>3. ASSUME ~Send(s), ~BeginExternal(s)
          PROVE  req'[s].phase # "sent"
      BY <1>4, <1>t, <2>3 DEF Step, Choose, SendRefused, FinishSend, FinishExternal, Dropped, Settle
    <2> QED
      BY <2>1, <2>2, <2>3
  <1> QED
    BY <1>1, <1>2, <1>3, <1>4 DEF Next

\* Once the window has passed a single probe is let through, and no proxied
\* send runs beside it without the tickets of its gates.
THEOREM OneProbe == Spec => []OneProbeAtATime
  <1>1. Init => ProbesLive /\ SentHoldAll
    BY DEF Init, ProbesLive, SentHoldAll, NoTicket
  <1>2. IInv /\ ProbesLive /\ SentHoldAll /\ [Next]_vars => ProbesLive' /\ SentHoldAll'
    BY ProbesLiveStep, SentHoldAllStep
  <1>3. ASSUME IInv, ProbesLive, SentHoldAll
        PROVE  OneProbeAtATime
    <2> SUFFICES ASSUME NEW g \in Gates
                 PROVE  Cardinality({r \in Requests :
                           /\ req[r].phase = "sent" /\ g \in req[r].route.gates
                           /\ \/ tickets[r][g].probe
                              \/ ~tickets[r][g].held /\ ~req[r].route.external}) <= 1
      BY DEF OneProbeAtATime
    <2> DEFINE P == {r \in Requests :
                       /\ req[r].phase = "sent" /\ g \in req[r].route.gates
                       /\ \/ tickets[r][g].probe
                          \/ ~tickets[r][g].held /\ ~req[r].route.external}
    <2>1. \A r \in P : r \in Requests /\ OwnsProbe(r, g)
      BY <1>3 DEF ProbesLive, SentHoldAll
    <2>2. \A r, s \in P : r = s
      BY <1>3, <2>1 DEF IInv, TicketsOf
    <2> HIDE DEF P
    <2>3. Cardinality(P) <= 1
      <3>1. CASE P = {}
        BY <3>1, FS_EmptySet
      <3>2. ASSUME NEW r \in P  PROVE  Cardinality(P) <= 1
        <4>1. P = {r}
          BY <2>2
        <4> QED
          BY <4>1, FS_Singleton
      <3> QED
        BY <3>1, <3>2
    <2> QED
      BY <2>3 DEF P
  <1> QED
    BY <1>1, <1>2, <1>3, SpecInv, PTL DEF Spec

-----------------------------------------------------------------------------
(* What the run checks, put together.                                      *)

\* Every ticket is accounted for: one live probe for each half-open gate, and
\* nothing in flight that counts for an open one.
THEOREM ProbesAccountedHolds == Spec => []ProbesAccounted
BY Typed, ProbesOwned, OpenGatesForget, PTL DEF ProbesAccounted

\* Time alone opens the way for a probe, its answer alone closes a gate.
THEOREM GatesMoveInTurnHolds == Spec => GatesMoveInTurn
BY CooldownsHold, OnlyProbesClose, PTL DEF GatesMoveInTurn
=============================================================================
