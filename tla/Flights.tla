-------------------------------- MODULE Flights --------------------------------
(* The buffered forwarding path of the chat proxy (proxy.rs): a request    *)
(* under an id joins or opens the flight of its key, the holder of the     *)
(* flight's outcome lock makes the POST, and everybody else is answered    *)
(* from the flight or from the response cache.  The window starts when the *)
(* leader is done, whatever way it ended.                                  *)
EXTENDS Integers, FiniteSets, FiniteSetsExt, SequencesExt

CONSTANTS
  Requests, Keys,
  NoKey,            \* a request without an id
  Prints,           \* fingerprints: payload, privacy class, locality
  Bodies,           \* sizes of response bodies
  Overhead,         \* bytes of an entry or a flight beside its outcome
  Marker,           \* bytes of an error body
  Window, MaxEntries, MaxCacheBytes, MaxFlightBytes, Permits,
  MaxNow,           \* bound of the clock
  Nobody

ASSUME FlightsAssumption ==
  /\ NoKey \notin Keys /\ Nobody \notin Requests
  /\ IsFiniteSet(Keys) /\ IsFiniteSet(Requests)
  /\ Window \in Nat \ {0} /\ Permits \in Nat /\ Overhead \in Nat /\ Marker \in Nat
  /\ Bodies \subseteq Nat
  /\ MaxEntries \in Nat /\ MaxCacheBytes \in Nat /\ MaxFlightBytes \in Nat
  /\ MaxNow \in Nat

VARIABLES
  req,          \* request -> its state
  registry,     \* key -> the flight registered for it; a flight is named by
                \* the request that opened it
  flight,       \* flight -> its record
  cache,        \* the response cache, oldest entry first
  flightBytes,  \* the byte account of the flights
  permits,      \* permits left
  effect,       \* key -> when the last POST that may have been executed ended
  now

vars == <<req, registry, flight, cache, flightBytes, permits, effect, now>>

-----------------------------------------------------------------------------
(* Outcomes.  origin is the request whose POST the body answers.           *)

NoOutcome == [status |-> 0, origin |-> Nobody, cached |-> FALSE, executed |-> FALSE,
              size |-> 0]
Failure(status) ==
  [status |-> status, origin |-> Nobody, cached |-> FALSE, executed |-> FALSE,
   size |-> Marker]
Answer(r, status, size) ==
  [status |-> status, origin |-> r, cached |-> FALSE, executed |-> TRUE, size |-> size]

Never == -1
NoFlight == [key |-> NoKey, print |-> Nobody, outcome |-> NoOutcome,
             retainedAt |-> Never, bytes |-> 0]

Fresh == [phase |-> "new", key |-> NoKey, print |-> Nobody, flight |-> Nobody,
          outcome |-> NoOutcome, uncertain |-> FALSE, settled |-> FALSE]

-----------------------------------------------------------------------------
(* The response cache.                                                     *)

Hits(k, p) ==
  {i \in DOMAIN cache : cache[i].key = k /\ now - cache[i].at < Window}

\* lookup_cached: the entry of the key, or a conflict with its fingerprint.
MutCachedReply(k, p) ==
  LET e == cache[CHOOSE i \in Hits(k, p) : TRUE]
  IN  [Answer(e.origin, 200, e.size) EXCEPT !.cached = TRUE, !.executed = FALSE]
CachedReply(k, p) ==
  LET e == cache[CHOOSE i \in Hits(k, p) : TRUE]
  IN  IF e.print # p THEN Failure(409)
      ELSE [Answer(e.origin, 200, e.size) EXCEPT !.cached = TRUE, !.executed = FALSE]

CacheBytes(s) == SumFunctionOnSet([i \in DOMAIN s |-> Overhead + s[i].size], DOMAIN s)
Expired(e) == e.at <= now - Window
Fits(s) == Len(s) <= MaxEntries /\ CacheBytes(s) <= MaxCacheBytes

\* The expired entries in front go, then the oldest ones until the rest fits.
Pruned(s) ==
  LET kept == {i \in 1 .. Len(s) + 1 :
                 /\ i <= Len(s) => ~Expired(s[i])
                 /\ Fits(SubSeq(s, i, Len(s)))}
  IN  SubSeq(s, Min(kept), Len(s))

\* A key is written again at the end, so that the order is the order of expiry.
Remembered(e) ==
  LET old == {i \in DOMAIN cache : cache[i].key = e.key}
      others == IF old = {} THEN cache ELSE RemoveAt(cache, CHOOSE i \in old : TRUE)
  IN  Pruned(IF Overhead + e.size <= MaxCacheBytes THEN Append(others, e) ELSE others)

-----------------------------------------------------------------------------
(* The registry.                                                           *)

Holders(f) == {r \in Requests : req[r].flight = f}
Flying == {registry[k] : k \in Keys} \ {Nobody}

\* A flight somebody holds stays, and so does one kept for the window.
Stays(f) ==
  \/ Holders(f) # {}
  \/ flight[f].retainedAt # Never /\ now - flight[f].retainedAt < Window

\* Drop of a Flight: the last reference gives its bytes back.
Dropped == {f \in Flying : ~Stays(f) /\ Holders(f) = {}}
BytesOf(fs) == SumFunctionOnSet([f \in Requests |-> flight[f].bytes], fs)
LastHolder(r) ==
  req[r].flight # Nobody /\ Holders(req[r].flight) = {r} /\ req[r].flight \notin Flying
FreedBy(r) == IF LastHolder(r) THEN flight[req[r].flight].bytes ELSE 0

Room(bytes, used) == bytes <= MaxFlightBytes - used

-----------------------------------------------------------------------------
Init ==
  /\ req = [r \in Requests |-> Fresh]
  /\ registry = [k \in Keys |-> Nobody]
  /\ flight = [r \in Requests |-> NoFlight]
  /\ cache = <<>>
  /\ flightBytes = 0
  /\ permits = Permits
  /\ effect = [k \in Keys |-> -Window]
  /\ now = 0

\* Where a call stands before its POST: the breaker's gates may refuse it.
Unsent == {<<"observing", NoOutcome>>, <<"completing", Failure(503)>>}

\* r is answered: it lets its flight go, its permit goes with the body.
Replied(r, outcome) ==
  req' = [req EXCEPT ![r].phase = "replying", ![r].flight = Nobody,
                     ![r].outcome = outcome]

\* r is over: its flight and its permit go.  Of a settled call it is
\* remembered what was asked.
Ended(r) ==
  /\ req' = [req EXCEPT ![r] =
        IF req[r].settled THEN [req[r] EXCEPT !.phase = "done", !.outcome = NoOutcome]
        ELSE [Fresh EXCEPT !.phase = "done"]]
  /\ permits' = permits + 1

\* A permit is taken or the request refused; a cache hit needs no flight.
Arrive(r, k, p) ==
  /\ req[r].phase = "new"
  /\ LET to(phase, outcome) ==
           req' = [req EXCEPT ![r].phase = phase, ![r].key = k, ![r].print = p,
                              ![r].outcome = outcome]
     IN  IF permits = 0
         THEN /\ req' = [req EXCEPT ![r].phase = "done"]
              /\ UNCHANGED permits
         ELSE /\ permits' = permits - 1
              /\ IF Hits(k, p) # {} THEN to("replying", CachedReply(k, p))
                 ELSE \E next \in (IF k = NoKey THEN Unsent ELSE {<<"joining", NoOutcome>>}) :
                        to(next[1], next[2])
  /\ UNCHANGED <<registry, flight, cache, flightBytes, effect, now>>

\* Under the registry's lock: sweep it, then find or open the key's flight.
Join(r) ==
  LET k == req[r].key
      swept == [j \in Keys |-> IF registry[j] # Nobody /\ Stays(registry[j])
                               THEN registry[j] ELSE Nobody]
      used == flightBytes - BytesOf(Dropped)
      full == Cardinality({j \in Keys : swept[j] # Nobody}) >= MaxEntries
      rest == [f \in Requests |-> IF f \in Dropped THEN NoFlight ELSE flight[f]]
  IN
  /\ req[r].phase = "joining"
  /\ \/ /\ swept[k] # Nobody
        /\ IF flight[swept[k]].print # req[r].print THEN Replied(r, Failure(409))
           ELSE req' = [req EXCEPT ![r].phase = "waiting", ![r].flight = swept[k]]
        /\ registry' = swept /\ flight' = rest /\ flightBytes' = used
     \/ /\ swept[k] = Nobody
        /\ full \/ ~Room(Overhead + Marker, used)
        /\ Replied(r, IF full /\ Hits(k, req[r].print) # {}
                      THEN CachedReply(k, req[r].print) ELSE Failure(503))
        /\ registry' = swept /\ flight' = rest /\ flightBytes' = used
     \/ /\ swept[k] = Nobody
        /\ ~full /\ Room(Overhead + Marker, used)
        /\ req' = [req EXCEPT ![r].phase = "waiting", ![r].flight = r]
        /\ registry' = [swept EXCEPT ![k] = r]
        /\ flight' = [rest EXCEPT ![r] = [NoFlight EXCEPT !.key = k,
                        !.print = req[r].print, !.bytes = Overhead + Marker]]
        /\ flightBytes' = used + Overhead + Marker
  /\ UNCHANGED <<cache, permits, effect, now>>

-----------------------------------------------------------------------------
(* The outcome lock.                                                       *)

Leading == {"observing", "sending", "completing"}
Locked(f) == \E r \in Holders(f) : req[r].phase \in Leading

\* The flight has an outcome: it is replayed, unless it is only the marker
\* and the leader's answer is in the cache.
Follow(r) ==
  LET f == req[r].flight
      o == flight[f].outcome
  IN
  /\ req[r].phase = "waiting" /\ ~Locked(f) /\ o # NoOutcome
  /\ Replied(r, IF o.status = 502 /\ ~o.cached /\ Hits(req[r].key, req[r].print) # {}
                THEN CachedReply(req[r].key, req[r].print)
                ELSE [o EXCEPT !.executed = FALSE])
  /\ flightBytes' = flightBytes - FreedBy(r)
  /\ UNCHANGED <<registry, flight, cache, permits, effect, now>>

\* The flight has none: r leads.  It leaves the fail-closed marker first,
\* then looks at the cache once more and at the breaker's gates.
Lead(r) ==
  LET f == req[r].flight IN
  /\ req[r].phase = "waiting" /\ ~Locked(f) /\ flight[f].outcome = NoOutcome
  /\ flight' = [flight EXCEPT ![f].outcome = Failure(502)]
  /\ \E next \in (IF Hits(req[r].key, req[r].print) # {}
                  THEN {<<"completing", CachedReply(req[r].key, req[r].print)>>}
                  ELSE Unsent) :
       req' = [req EXCEPT ![r].phase = next[1], ![r].outcome = next[2]]
  /\ UNCHANGED <<registry, cache, flightBytes, permits, effect, now>>

\* The observer (the budget, the event log) let the POST go.
Send(r) ==
  /\ req[r].phase = "observing"
  /\ req' = [req EXCEPT ![r].phase = "sending"]
  /\ UNCHANGED <<registry, flight, cache, flightBytes, permits, effect, now>>

\* The observer failed: nothing was sent, so the next waiter may lead.
ObserverFailed(r) ==
  LET f == req[r].flight IN
  /\ req[r].phase = "observing"
  /\ Ended(r)
  /\ flight' = IF f = Nobody THEN flight
               ELSE [flight EXCEPT ![f].outcome = NoOutcome]
  /\ flightBytes' = flightBytes - FreedBy(r)
  /\ UNCHANGED <<registry, cache, effect, now>>

-----------------------------------------------------------------------------
(* The POST.                                                               *)

MayHaveRun(r) ==
  IF req[r].key = NoKey THEN UNCHANGED effect
  ELSE effect' = [effect EXCEPT ![req[r].key] = now]

\* No connection, the last retry included: only this is ever tried again.
NotConnected(r) ==
  /\ req[r].phase = "sending"
  /\ req' = [req EXCEPT ![r].phase = "completing", ![r].outcome = Failure(502)]
  /\ UNCHANGED <<registry, flight, cache, flightBytes, permits, effect, now>>

\* A complete answer that says the POST was not executed (4xx).
Rejected(r) ==
  /\ req[r].phase = "sending"
  /\ req' = [req EXCEPT ![r].phase = "completing", ![r].outcome = Answer(r, 400, Marker)]
  /\ UNCHANGED <<registry, flight, cache, flightBytes, permits, effect, now>>

\* A 2xx that passes the success gate.
Succeeded(r) ==
  /\ req[r].phase = "sending"
  /\ \E size \in Bodies :
       req' = [req EXCEPT ![r].phase = "completing", ![r].outcome = Answer(r, 200, size)]
  /\ MayHaveRun(r)
  /\ UNCHANGED <<registry, flight, cache, flightBytes, permits, now>>

\* 3xx, 408, 5xx, a timeout, a body cut short, a usage that does not parse,
\* a success gate that fails.
InDoubt(r) ==
  /\ req[r].phase = "sending"
  /\ req' = [req EXCEPT ![r].phase = "completing", ![r].outcome = Failure(502),
                        ![r].uncertain = TRUE]
  /\ MayHaveRun(r)
  /\ UNCHANGED <<registry, flight, cache, flightBytes, permits, now>>

-----------------------------------------------------------------------------
(* The end of the leader.                                                  *)

\* The outcome as the flight keeps it for the others.
Replay(r) ==
  LET o == req[r].outcome
  IN  IF o.status = 200 THEN [o EXCEPT !.cached = TRUE, !.executed = FALSE] ELSE o

\* The bytes the flight needs more, or gives back, for its outcome.
MutGrown(r) == Replay(r).size - flight[req[r].flight].bytes
Grown(r) == Overhead + Replay(r).size - flight[req[r].flight].bytes
Retainable(r) == Grown(r) <= 0 \/ Room(Grown(r), flightBytes)

\* The completed observer settled the call: cache it, and publish it on the
\* flight; what succeeded or is in doubt is kept for the window.
Completed(r) ==
  LET o == req[r].outcome
      f == req[r].flight
      new == o.status = 200 /\ o.executed /\ ~req[r].uncertain
      kept == o.status = 200 \/ req[r].uncertain \/ ~Retainable(r)
  IN
  /\ req[r].phase = "completing"
  /\ req' = [req EXCEPT ![r].phase = "replying", ![r].flight = Nobody,
                        ![r].uncertain = FALSE, ![r].settled = f # Nobody /\ new]
  /\ cache' = IF f # Nobody /\ new
              THEN Remembered([key |-> req[r].key, at |-> now, print |-> req[r].print,
                               origin |-> r, size |-> o.size])
              ELSE cache
  /\ IF f = Nobody THEN UNCHANGED <<flight, flightBytes>>
     ELSE /\ flight' = [flight EXCEPT
                 ![f].outcome = IF Retainable(r) THEN Replay(r) ELSE Failure(502),
                 ![f].bytes = IF Retainable(r) THEN @ + Grown(r) ELSE @,
                 ![f].retainedAt = IF kept THEN now ELSE @]
          /\ flightBytes' = (IF Retainable(r) THEN flightBytes + Grown(r) ELSE flightBytes)
                              - FreedBy(r)
  /\ UNCHANGED <<registry, permits, effect, now>>

\* Its observer failed: the caller gets the error, the others a 503 marker.
CompletionFailed(r) ==
  LET f == req[r].flight IN
  /\ req[r].phase = "completing"
  /\ Ended(r)
  /\ flight' = IF f = Nobody THEN flight
               ELSE [flight EXCEPT ![f].outcome = Failure(503), ![f].retainedAt = now]
  /\ flightBytes' = flightBytes - FreedBy(r)
  /\ UNCHANGED <<registry, cache, effect, now>>

\* The caller's future is dropped at an await.  A leader's guard keeps the
\* flight, with its marker, for the window.
MutCancel(r) ==
  /\ req[r].phase \in {"waiting", "observing", "sending", "completing"}
  /\ Ended(r)
  /\ flightBytes' = flightBytes - FreedBy(r)
  /\ IF req[r].phase = "sending" THEN MayHaveRun(r) ELSE UNCHANGED effect
  /\ UNCHANGED <<registry, flight, cache, now>>
Cancel(r) ==
  LET f == req[r].flight IN
  /\ req[r].phase \in {"waiting", "observing", "sending", "completing"}
  /\ Ended(r)
  /\ flight' = IF req[r].phase = "waiting" \/ f = Nobody THEN flight
               ELSE [flight EXCEPT ![f].retainedAt = now]
  /\ flightBytes' = flightBytes - FreedBy(r)
  /\ IF req[r].phase = "sending" THEN MayHaveRun(r) ELSE UNCHANGED effect
  /\ UNCHANGED <<registry, cache, now>>

\* The last of the outgoing bytes is dropped: sent, or the client went away.
BodyDropped(r) ==
  /\ req[r].phase = "replying"
  /\ Ended(r)
  /\ UNCHANGED <<registry, flight, cache, flightBytes, effect, now>>

Tick ==
  /\ now < MaxNow
  /\ now' = now + 1
  /\ UNCHANGED <<req, registry, flight, cache, flightBytes, permits, effect>>

Step(r) ==
  \/ \E k \in Keys \cup {NoKey}, p \in Prints : Arrive(r, k, p)
  \/ Join(r) \/ Follow(r) \/ Lead(r)
  \/ Send(r) \/ ObserverFailed(r)
  \/ NotConnected(r) \/ Rejected(r) \/ Succeeded(r) \/ InDoubt(r)
  \/ Completed(r) \/ CompletionFailed(r) \/ BodyDropped(r) \/ Cancel(r)

Next == Tick \/ \E r \in Requests : Step(r)

Spec == Init /\ [][Next]_vars

-----------------------------------------------------------------------------
(* Properties *)

Outcomes == [status : {0, 200, 400, 409, 502, 503}, origin : Requests \cup {Nobody},
             cached : BOOLEAN, executed : BOOLEAN, size : Nat]

\* The shape of the requests, the flights, the cache and the accounts.
TypeOK ==
  /\ req \in [Requests ->
       [phase : {"new", "joining", "waiting", "replying", "done"} \cup Leading,
        key : Keys \cup {NoKey}, print : Prints \cup {Nobody},
        flight : Requests \cup {Nobody}, outcome : Outcomes,
        uncertain : BOOLEAN, settled : BOOLEAN]]
  /\ registry \in [Keys -> Requests \cup {Nobody}]
  /\ flight \in [Requests ->
       [key : Keys \cup {NoKey}, print : Prints \cup {Nobody}, outcome : Outcomes,
        retainedAt : Nat \cup {Never}, bytes : Nat]]
  /\ cache \in Seq([key : Keys, at : Nat, print : Prints, origin : Requests, size : Nat])
  /\ flightBytes \in Nat
  /\ permits \in Nat
  /\ effect \in [Keys -> Int]
  /\ now \in Nat

\* proxy.rs:1136-1138, 1223-1224, 1288: the proxy implements IdempotentPosts:
\* no second POST under a key while one is under way, or within the window
\* of one that may have been executed, whoever was cancelled, failed or
\* pruned in between.
Posting == [k \in Keys |-> {r \in Requests : req[r].key = k /\ req[r].phase = "sending"}]
Once == INSTANCE IdempotentPosts WITH posting <- Posting
PostedOnce == Once!Spec

\* A success anybody is answered with, from the cache, the flight or the
\* upstream, is the body of a POST with his key and payload that was
\* settled before it was published.
Published ==
  {[key |-> req[r].key, print |-> req[r].print, outcome |-> req[r].outcome] :
     r \in {q \in Requests : req[q].phase = "replying" /\ req[q].key # NoKey}}
  \cup {[key |-> flight[f].key, print |-> flight[f].print, outcome |-> flight[f].outcome] :
     f \in Flying}
  \cup {[key |-> cache[i].key, print |-> cache[i].print,
         outcome |-> Answer(cache[i].origin, 200, cache[i].size)] : i \in DOMAIN cache}

SettledFirst ==
  \A a \in Published : a.outcome.status = 200 =>
    LET o == req[a.outcome.origin]
    IN  o.settled /\ o.key = a.key /\ o.print = a.print

\* The byte account of the flights is the sum over the flights alive, covers
\* what they keep, and stays within its limit; so does their number.
Alive == (Flying \cup {req[r].flight : r \in Requests}) \ {Nobody}
FlightsAccounted ==
  /\ flightBytes = BytesOf(Alive)
  /\ flightBytes <= MaxFlightBytes
  /\ \A f \in Alive : flight[f].bytes >= Overhead + flight[f].outcome.size
  /\ Cardinality(Flying) <= MaxEntries

\* The cache keeps one entry per key in the order of expiry, which prune's
\* early end relies on, within its bounds.
CacheInOrder ==
  /\ \A i, j \in DOMAIN cache :
       i < j => cache[i].at <= cache[j].at /\ cache[i].key # cache[j].key
  /\ Fits(cache)

\* A permit is out for every admitted request until its body is gone, and
\* for nothing else: neither the cache nor a flight holds one.
PermitsExact ==
  permits + Cardinality({r \in Requests : req[r].phase \notin {"new", "done"}}) = Permits
\* proxy.rs:865, 1343: the three accounts of the proxy - permits, the flights'
\* bytes, the cache with its order - are exact at every await and after every
\* cancel.
AccountsExact == TypeOK /\ FlightsAccounted /\ CacheInOrder /\ PermitsExact
=============================================================================
