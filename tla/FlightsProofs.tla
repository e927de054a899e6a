----------------------------- MODULE FlightsProofs -----------------------------
(***************************************************************************)
(* Proofs about Flights, for every set of requests, keys, payloads and     *)
(* sizes and every window and limit.  A request holds only the flight that *)
(* is registered for its key, so that what a key may do can be read off    *)
(* one flight.                                                             *)
(***************************************************************************)
EXTENDS Flights, SumLemmas

-----------------------------------------------------------------------------
(* The invariant *)

\* The requests hold registered flights, each of its own key and payload, and
\* a flight has the name of a request that has come.
Registered ==
  /\ \A k \in Keys : registry[k] # Nobody =>
       /\ flight[registry[k]].key = k
       /\ req[registry[k]].phase \notin {"new", "joining"}
  /\ \A r \in Requests :
       /\ req[r].flight # Nobody =>
            /\ req[r].phase \in {"waiting"} \cup Leading /\ req[r].key \in Keys
            /\ registry[req[r].key] = req[r].flight
            /\ flight[req[r].flight].print = req[r].print
       /\ req[r].phase = "joining" => req[r].key \in Keys
       /\ req[r].phase \in {"joining", "waiting"} \cup Leading => req[r].print \in Prints
       /\ req[r].phase = "waiting" => req[r].flight # Nobody
       /\ req[r].phase \in Leading /\ req[r].key # NoKey => req[r].flight # Nobody

\* One leads a flight, behind the marker.
OneLeads ==
  \A r \in Requests : req[r].phase \in Leading /\ req[r].flight # Nobody =>
    /\ flight[req[r].flight].outcome = Failure(502)
    /\ \A s \in Requests : req[s].phase \in Leading /\ req[s].flight = req[r].flight => s = r

Concluded ==
  \A r \in Requests :
    /\ req[r].phase = "completing" => req[r].outcome.status # 0
    /\ req[r].uncertain => req[r].phase = "completing" /\ req[r].outcome.status = 502

\* Nothing that may have been executed under k lies within the window.
Rested(k) == now >= effect[k] + Window

\* The flight is kept for a window from then on, or its leader will see to it.
Kept(f, k) == flight[f].retainedAt # Never /\ effect[k] <= flight[f].retainedAt
Keeping(r, f) ==
  /\ req[r].phase = "completing" /\ req[r].flight = f
  /\ req[r].outcome.status = 200 \/ req[r].uncertain
Shut(f, k) ==
  flight[f].outcome # NoOutcome /\ (Kept(f, k) \/ \E r \in Requests : Keeping(r, f))

\* A key is closed by its flight for as long as it has to be.
Closed ==
  /\ \A k \in Keys : effect[k] <= now
  /\ \A k \in Keys : Rested(k) \/ (registry[k] # Nobody /\ Shut(registry[k], k))
  /\ \A r \in Requests :
       req[r].phase \in {"observing", "sending"} /\ req[r].key # NoKey => Rested(req[r].key)

\* A POST with this key and payload was answered and settled.
Good(o, k, p) ==
  o \in Requests /\ req[o].settled /\ req[o].key = k /\ req[o].print = p

\* What is passed on is settled, and what a leader will pass on is so or is his.
Honest ==
  /\ \A r \in Requests : req[r].settled => req[r].phase \in {"replying", "done"}
  /\ \A r \in Requests :
       req[r].phase = "replying" /\ req[r].key # NoKey /\ req[r].outcome.status = 200 =>
         Good(req[r].outcome.origin, req[r].key, req[r].print)
  /\ \A r \in Requests :
       req[r].phase = "completing" /\ req[r].key # NoKey /\ req[r].outcome.status = 200 =>
         \/ Good(req[r].outcome.origin, req[r].key, req[r].print)
         \/ req[r].outcome.origin = r /\ req[r].outcome.executed
  /\ \A f \in Flying : flight[f].outcome.status = 200 =>
       Good(flight[f].outcome.origin, flight[f].key, flight[f].print)
  /\ \A i \in DOMAIN cache : Good(cache[i].origin, cache[i].key, cache[i].print)

\* The bytes, the number and the marker's share of the flights.
Counted ==
  /\ flightBytes = BytesOf(Flying) /\ flightBytes <= MaxFlightBytes
  /\ \A f \in Flying :
       /\ flight[f].bytes >= Overhead + flight[f].outcome.size
       /\ flight[f].outcome = NoOutcome \/ Locked(f) => flight[f].bytes >= Overhead + Marker
  /\ Cardinality(Flying) <= MaxEntries

Ordered == CacheInOrder /\ \A i \in DOMAIN cache : cache[i].at <= now

IInv == /\ TypeOK /\ Registered /\ OneLeads /\ Concluded /\ Closed /\ Honest /\ Counted
        /\ Ordered /\ PermitsExact
-----------------------------------------------------------------------------
(* The shape of the state *)

Call == [phase : {"new", "joining", "waiting", "replying", "done"} \cup Leading,
         key : Keys \cup {NoKey}, print : Prints \cup {Nobody},
         flight : Requests \cup {Nobody}, outcome : Outcomes,
         uncertain : BOOLEAN, settled : BOOLEAN]
FlightRec == [key : Keys \cup {NoKey}, print : Prints \cup {Nobody}, outcome : Outcomes,
              retainedAt : Nat \cup {Never}, bytes : Nat]
Entry == [key : Keys, at : Nat, print : Prints, origin : Requests, size : Nat]

CallTypes == req \in [Requests -> Call] /\ permits \in Nat
FlightTypes ==
  registry \in [Keys -> Requests \cup {Nobody}] /\ flight \in [Requests -> FlightRec]
CacheTypes == cache \in Seq(Entry) /\ effect \in [Keys -> Int] /\ now \in Nat

LEMMA TypesSplit == TypeOK => CallTypes /\ FlightTypes /\ CacheTypes /\ flightBytes \in Nat
BY DEF TypeOK, CallTypes, FlightTypes, CacheTypes, Call, FlightRec, Entry

LEMMA TypesJoin ==
  CallTypes' /\ FlightTypes' /\ CacheTypes' /\ flightBytes' \in Nat => TypeOK'
BY DEF TypeOK, CallTypes, FlightTypes, CacheTypes, Call, FlightRec, Entry

LEMMA Parameters ==
  /\ Window \in Nat \ {0} /\ Permits \in Nat /\ Overhead \in Nat /\ Marker \in Nat
  /\ Bodies \subseteq Nat /\ MaxEntries \in Nat /\ MaxCacheBytes \in Nat
  /\ MaxFlightBytes \in Nat /\ NoKey \notin Keys /\ Nobody \notin Requests
  /\ IsFiniteSet(Keys) /\ IsFiniteSet(Requests)
BY FlightsAssumption

LEMMA OutcomeFact ==
  /\ NoOutcome \in Outcomes /\ NoOutcome.status = 0 /\ NoOutcome.size = 0
  /\ \A s \in {409, 502, 503} : /\ Failure(s) \in Outcomes /\ Failure(s) # NoOutcome
                                /\ Failure(s).status = s /\ Failure(s).size = Marker
  /\ \A r \in Requests, s \in {200, 400}, n \in Nat :
       /\ Answer(r, s, n) \in Outcomes /\ Answer(r, s, n).status = s
       /\ Answer(r, s, n).origin = r /\ Answer(r, s, n).executed
       /\ Answer(r, s, n).size = n
BY Parameters DEF NoOutcome, Failure, Answer, Outcomes

\* A reply from the cache is a conflict or the body of an entry of that key.
LEMMA CachedFact ==
  ASSUME CacheTypes, NEW k, NEW p, Hits(k, p) # {}
  PROVE  /\ k \in Keys /\ CachedReply(k, p) \in Outcomes /\ CachedReply(k, p).status \in {200, 409}
         /\ CachedReply(k, p).status = 200 =>
              \E i \in DOMAIN cache : /\ cache[i].key = k /\ cache[i].print = p
                                      /\ CachedReply(k, p).origin = cache[i].origin
<1> DEFINE i == CHOOSE i \in Hits(k, p) : TRUE
           e == cache[i]
           hit == [Answer(e.origin, 200, e.size) EXCEPT !.cached = TRUE, !.executed = FALSE]
<1>1. i \in Hits(k, p)
  OBVIOUS
<1>2. i \in DOMAIN cache /\ e.key = k /\ e \in Entry
  BY <1>1 DEF Hits, CacheTypes
<1>3. CachedReply(k, p) = IF e.print # p THEN Failure(409) ELSE hit
  BY DEF CachedReply
<1> HIDE DEF i
<1>4. hit \in Outcomes /\ hit.status = 200 /\ hit.origin = e.origin
  BY <1>2 DEF Entry, Outcomes, Answer
<1>5. Failure(409) \in Outcomes /\ Failure(409).status = 409
  BY OutcomeFact
<1>6. k \in Keys
  BY <1>2 DEF Entry
<1> HIDE DEF hit, e
<1>7. CASE e.print # p
  BY <1>3, <1>5, <1>6, <1>7
<1>8. CASE e.print = p
  <2>1. CachedReply(k, p) = hit
    BY <1>3, <1>8
  <2>2. cache[i].key = k /\ cache[i].print = p /\ hit.origin = cache[i].origin
    BY <1>2, <1>4, <1>8 DEF e
  <2> QED BY <1>2, <1>4, <1>6, <2>1, <2>2
<1> QED BY <1>7, <1>8

\* What is left of a sequence when entries in front go.
LEMMA PrunedFact ==
  ASSUME NEW s \in Seq(Entry), CacheTypes
  PROVE  \E i \in 1 .. Len(s) + 1 : Pruned(s) = SubSeq(s, i, Len(s)) /\ Fits(SubSeq(s, i, Len(s)))
<1> DEFINE kept == {i \in 1 .. Len(s) + 1 :
                      /\ i <= Len(s) => ~Expired(s[i])
                      /\ Fits(SubSeq(s, i, Len(s)))}
<1>1. Len(s) \in Nat
  OBVIOUS
<1>2. Len(s) + 1 \in kept
  <2>1. SubSeq(s, Len(s) + 1, Len(s)) = <<>>
    BY <1>1
  <2>2. CacheBytes(<<>>) = 0
    <3>1. DOMAIN <<>> = {}
      OBVIOUS
    <3> QED BY <3>1, SumEmpty DEF CacheBytes
  <2>3. Fits(<<>>)
    <3>1. Len(<<>>) = 0
      OBVIOUS
    <3>2. 0 <= MaxEntries /\ 0 <= MaxCacheBytes
      BY Parameters
    <3> QED BY <2>2, <3>1, <3>2 DEF Fits
  <2>4. Len(s) + 1 \in 1 .. Len(s) + 1 /\ ~(Len(s) + 1 <= Len(s))
    BY <1>1
  <2> HIDE DEF Fits
  <2> QED BY <2>1, <2>3, <2>4
<1>3. Min(kept) \in kept
  <2>1. PICK i \in kept : \A j \in kept : i <= j
    <3>1. kept \in SUBSET Nat
      BY <1>1
    <3> HIDE DEF kept
    <3> QED BY <1>2, <3>1, NatMin
  <2> HIDE DEF kept
  <2> QED BY <2>1 DEF Min
<1>4. Pruned(s) = SubSeq(s, Min(kept), Len(s))
  BY DEF Pruned
<1> QED BY <1>3, <1>4
-----------------------------------------------------------------------------
(* The steps of a call, field by field *)

Still(r) == \A s \in Requests : s # r => req'[s] = req[s]

\* What a step makes of r: everything but what is asked.
After(r, ph, f, o) ==
  /\ req' \in [Requests -> Call] /\ Still(r)
  /\ req'[r].phase = ph /\ req'[r].flight = f /\ req'[r].outcome = o
Asks(r) == req'[r].key = req[r].key /\ req'[r].print = req[r].print
Marks(r) == req'[r].uncertain = req[r].uncertain /\ req'[r].settled = req[r].settled

\* One call changes, as a whole.
LEMMA Changed ==
  ASSUME CallTypes, NEW r \in Requests, NEW c, req' = [req EXCEPT ![r] = c]
  PROVE  /\ req'[r] = c /\ Still(r)
         /\ c \in Call => req' \in [Requests -> Call]
BY DEF CallTypes, Still

LEMMA RepliedFact ==
  ASSUME CallTypes, NEW r \in Requests, NEW o \in Outcomes, Replied(r, o)
  PROVE  After(r, "replying", Nobody, o) /\ Asks(r) /\ Marks(r)
BY DEF Replied, CallTypes, After, Asks, Marks, Still, Call

LEMMA EndedFact ==
  ASSUME CallTypes, NEW r \in Requests, Ended(r)
  PROVE  /\ After(r, "done", IF req[r].settled THEN req[r].flight ELSE Nobody, NoOutcome)
         /\ req'[r].settled = req[r].settled /\ permits' = permits + 1
         /\ req[r].settled => Asks(r) /\ req'[r].uncertain = req[r].uncertain
         /\ ~req[r].settled => req'[r].key = NoKey /\ req'[r].print = Nobody /\ ~req'[r].uncertain
<1>1. NoOutcome \in Outcomes
  BY OutcomeFact
<1>2. CASE req[r].settled
  <2> DEFINE c == [req[r] EXCEPT !.phase = "done", !.outcome = NoOutcome]
  <2>1. req' = [req EXCEPT ![r] = c] /\ permits' = permits + 1
    BY <1>2 DEF Ended
  <2>2. req[r] \in Call
    BY DEF CallTypes
  <2>3. /\ c \in Call /\ c.phase = "done" /\ c.outcome = NoOutcome /\ c.flight = req[r].flight
        /\ c.key = req[r].key /\ c.print = req[r].print
        /\ c.uncertain = req[r].uncertain /\ c.settled = req[r].settled
    BY <1>1, <2>2 DEF Call
  <2> HIDE DEF c
  <2>4. req'[r] = c /\ Still(r) /\ req' \in [Requests -> Call]
    BY <2>1, <2>3, Changed
  <2> QED BY <1>2, <2>1, <2>3, <2>4 DEF After, Asks
<1>3. CASE ~req[r].settled
  <2> DEFINE c == [Fresh EXCEPT !.phase = "done"]
  <2>1. req' = [req EXCEPT ![r] = c] /\ permits' = permits + 1
    BY <1>3 DEF Ended
  <2>2. Fresh \in Call
    BY <1>1 DEF Fresh, Call
  <2>3. /\ c \in Call /\ c.phase = "done" /\ c.outcome = NoOutcome /\ c.flight = Nobody
        /\ c.key = NoKey /\ c.print = Nobody /\ ~c.uncertain /\ ~c.settled
    <3>1. /\ Fresh.outcome = NoOutcome /\ Fresh.flight = Nobody /\ Fresh.key = NoKey
          /\ Fresh.print = Nobody /\ Fresh.uncertain = FALSE /\ Fresh.settled = FALSE
      BY DEF Fresh
    <3> HIDE DEF Fresh
    <3> QED BY <2>2, <3>1 DEF Call
  <2> HIDE DEF c
  <2>4. req'[r] = c /\ Still(r) /\ req' \in [Requests -> Call]
    BY <2>1, <2>3, Changed
  <2>5. req'[r].settled = FALSE /\ req[r].settled = FALSE
    BY <1>3, <2>3, <2>4 DEF CallTypes, Call
  <2> QED BY <1>3, <2>1, <2>3, <2>4, <2>5 DEF After
<1>4. req[r].settled \in BOOLEAN
  BY DEF CallTypes, Call
<1> QED BY <1>2, <1>3, <1>4

\* Where a call stands that has not sent its POST.
LEMMA UnsentFact ==
  \A next \in Unsent : /\ next[2] \in Outcomes
                       /\ \/ next[1] = "observing"
                          \/ next[1] = "completing" /\ next[2] = Failure(503)
BY OutcomeFact DEF Unsent

LEMMA ArriveFact ==
  ASSUME CallTypes, CacheTypes, NEW r \in Requests, NEW k \in Keys \cup {NoKey}, NEW p \in Prints,
         Arrive(r, k, p)
  PROVE  /\ req[r].phase = "new"
         /\ After(r, req'[r].phase, req[r].flight, req'[r].outcome) /\ Marks(r)
         /\ \/ req'[r].phase = "done" /\ Asks(r) /\ permits' = permits
               /\ req'[r].outcome = req[r].outcome
            \/ /\ req'[r].key = k /\ req'[r].print = p /\ permits' = permits - 1 /\ permits # 0
               /\ \/ /\ req'[r].phase = "replying" /\ Hits(k, p) # {}
                     /\ req'[r].outcome = CachedReply(k, p)
                  \/ req'[r].phase = "joining" /\ k \in Keys
                  \/ /\ k = NoKey
                     /\ \/ req'[r].phase = "observing"
                        \/ req'[r].phase = "completing" /\ req'[r].outcome = Failure(503)
<1> DEFINE To(phase, outcome) ==
      req' = [req EXCEPT ![r].phase = phase, ![r].key = k, ![r].print = p,
                         ![r].outcome = outcome]
<1>1. ASSUME NEW ph \in {"replying", "joining"} \cup Leading, NEW o \in Outcomes, To(ph, o)
      PROVE  After(r, ph, req[r].flight, o) /\ Marks(r) /\ req'[r].key = k /\ req'[r].print = p
  <2> DEFINE c == [req[r] EXCEPT !.phase = ph, !.key = k, !.print = p, !.outcome = o]
  <2>1. req[r] \in Call
    BY DEF CallTypes
  <2>2. c \in Call
    BY <2>1 DEF Call, Leading
  <2>4. req' = [req EXCEPT ![r] = c]
    BY <1>1
  <2>5. /\ c.phase = ph /\ c.key = k /\ c.print = p /\ c.flight = req[r].flight /\ c.outcome = o
        /\ c.uncertain = req[r].uncertain /\ c.settled = req[r].settled
    BY <2>1 DEF Call
  <2> HIDE DEF c
  <2>6. req'[r] = c /\ Still(r) /\ req' \in [Requests -> Call]
    BY <2>2, <2>4, Changed
  <2> QED BY <2>5, <2>6 DEF After, Marks
<1>2. CASE permits = 0
  <2>1. req' = [req EXCEPT ![r].phase = "done"] /\ permits' = permits
    BY <1>2 DEF Arrive
  <2>2. After(r, "done", req[r].flight, req[r].outcome) /\ Marks(r) /\ Asks(r)
    BY <2>1 DEF CallTypes, After, Marks, Asks, Still, Call
  <2> QED BY <2>1, <2>2 DEF Arrive, After
<1>3. CASE permits # 0 /\ Hits(k, p) # {}
  <2>1. To("replying", CachedReply(k, p)) /\ permits' = permits - 1
    BY <1>3 DEF Arrive
  <2>2. CachedReply(k, p) \in Outcomes
    BY <1>3, CachedFact
  <2> HIDE DEF To
  <2>3. After(r, "replying", req[r].flight, CachedReply(k, p)) /\ Marks(r)
        /\ req'[r].key = k /\ req'[r].print = p
    BY <1>1, <2>1, <2>2
  <2> QED BY <1>3, <2>1, <2>3 DEF Arrive, After
<1>4. CASE permits # 0 /\ Hits(k, p) = {}
  <2>1. PICK next \in (IF k = NoKey THEN Unsent ELSE {<<"joining", NoOutcome>>}) :
          To(next[1], next[2])
    BY <1>4 DEF Arrive
  <2>2. permits' = permits - 1
    BY <1>4 DEF Arrive
  <2> HIDE DEF To
  <2>3. /\ next[1] \in {"replying", "joining"} \cup Leading /\ next[2] \in Outcomes
        /\ \/ next[1] = "joining" /\ k \in Keys
           \/ k = NoKey /\ (next[1] = "observing"
                            \/ (next[1] = "completing" /\ next[2] = Failure(503)))
    BY UnsentFact, OutcomeFact DEF Leading
  <2>4. After(r, next[1], req[r].flight, next[2]) /\ Marks(r) /\ req'[r].key = k /\ req'[r].print = p
    BY <1>1, <2>1, <2>3
  <2> QED BY <1>4, <2>2, <2>3, <2>4 DEF Arrive, After
<1> QED BY <1>2, <1>3, <1>4
LEMMA LeadFact ==
  ASSUME CallTypes, CacheTypes, NEW r \in Requests, Lead(r)
  PROVE  /\ req[r].phase = "waiting" /\ After(r, req'[r].phase, req[r].flight, req'[r].outcome)
         /\ Asks(r) /\ Marks(r)
         /\ \/ req'[r].phase = "observing"
            \/ /\ req'[r].phase = "completing"
               /\ \/ req'[r].outcome = Failure(503)
                  \/ /\ Hits(req[r].key, req[r].print) # {}
                     /\ req'[r].outcome = CachedReply(req[r].key, req[r].print)
<1>1. PICK next \in (IF Hits(req[r].key, req[r].print) # {}
                     THEN {<<"completing", CachedReply(req[r].key, req[r].print)>>}
                     ELSE Unsent) :
        req' = [req EXCEPT ![r].phase = next[1], ![r].outcome = next[2]]
  BY DEF Lead
<1>2. /\ next[2] \in Outcomes
      /\ \/ next[1] = "observing"
         \/ /\ next[1] = "completing"
            /\ \/ next[2] = Failure(503)
               \/ /\ Hits(req[r].key, req[r].print) # {}
                  /\ next[2] = CachedReply(req[r].key, req[r].print)
  <2>1. CASE Hits(req[r].key, req[r].print) # {}
    BY <1>1, <2>1, CachedFact
  <2>2. CASE Hits(req[r].key, req[r].print) = {}
    BY <1>1, <2>2, UnsentFact
  <2> QED BY <2>1, <2>2
<1> DEFINE ph == next[1]
           o == next[2]
<1>3. ph \in Leading /\ o \in Outcomes
  BY <1>2 DEF Leading
<1>4. req' = [req EXCEPT ![r].phase = ph, ![r].outcome = o]
  BY <1>1
<1>5. ph = next[1] /\ o = next[2]
  OBVIOUS
<1> HIDE DEF ph, o
<1>6. After(r, ph, req[r].flight, o) /\ Asks(r) /\ Marks(r)
  BY <1>3, <1>4 DEF CallTypes, After, Asks, Marks, Still, Call
<1> QED BY <1>2, <1>5, <1>6 DEF Lead, After

LEMMA SendFact ==
  ASSUME CallTypes, NEW r \in Requests, Send(r)
  PROVE  /\ req[r].phase = "observing" /\ After(r, "sending", req[r].flight, req[r].outcome)
         /\ Asks(r) /\ Marks(r)
BY DEF Send, CallTypes, After, Asks, Marks, Still, Call, Leading

\* How a POST ends.
PostEnds(r) == NotConnected(r) \/ Rejected(r) \/ Succeeded(r) \/ InDoubt(r)

LEMMA PostEndsFact ==
  ASSUME CallTypes, NEW r \in Requests, PostEnds(r)
  PROVE  /\ req[r].phase = "sending" /\ After(r, "completing", req[r].flight, req'[r].outcome)
         /\ Asks(r) /\ req'[r].settled = req[r].settled
         /\ \/ /\ NotConnected(r) \/ Rejected(r)
               /\ req'[r].outcome.status \in {400, 502} /\ req'[r].uncertain = req[r].uncertain
            \/ /\ Succeeded(r) /\ req'[r].uncertain = req[r].uncertain
               /\ req'[r].outcome.status = 200 /\ req'[r].outcome.origin = r
               /\ req'[r].outcome.executed
            \/ InDoubt(r) /\ req'[r].outcome.status = 502 /\ req'[r].uncertain = TRUE
<1>1. ASSUME NEW o \in Outcomes, req' = [req EXCEPT ![r].phase = "completing", ![r].outcome = o]
      PROVE  After(r, "completing", req[r].flight, o) /\ Asks(r) /\ Marks(r)
  BY <1>1 DEF CallTypes, After, Asks, Marks, Still, Call, Leading
<1>2. CASE NotConnected(r)
  <2>1. Failure(502) \in Outcomes /\ Failure(502).status = 502
    BY OutcomeFact
  <2>2. After(r, "completing", req[r].flight, Failure(502)) /\ Asks(r) /\ Marks(r)
    BY <1>1, <1>2, <2>1 DEF NotConnected
  <2> QED BY <1>2, <2>1, <2>2 DEF NotConnected, After, Marks
<1>3. CASE Rejected(r)
  <2>1. Marker \in Nat
    BY Parameters
  <2>2. Answer(r, 400, Marker) \in Outcomes /\ Answer(r, 400, Marker).status = 400
    BY <2>1, OutcomeFact
  <2>3. After(r, "completing", req[r].flight, Answer(r, 400, Marker)) /\ Asks(r) /\ Marks(r)
    BY <1>1, <1>3, <2>2 DEF Rejected
  <2> QED BY <1>3, <2>2, <2>3 DEF Rejected, After, Marks
<1>4. CASE Succeeded(r)
  <2>1. PICK size \in Bodies :
          req' = [req EXCEPT ![r].phase = "completing", ![r].outcome = Answer(r, 200, size)]
    BY <1>4 DEF Succeeded
  <2>2. size \in Nat
    BY Parameters
  <2>3. /\ Answer(r, 200, size) \in Outcomes /\ Answer(r, 200, size).status = 200
        /\ Answer(r, 200, size).origin = r /\ Answer(r, 200, size).executed
    BY <2>2, OutcomeFact
  <2>4. After(r, "completing", req[r].flight, Answer(r, 200, size)) /\ Asks(r) /\ Marks(r)
    BY <1>1, <2>1, <2>3
  <2> QED BY <1>4, <2>3, <2>4 DEF Succeeded, After, Marks
<1>5. CASE InDoubt(r)
  <2>1. Failure(502) \in Outcomes /\ Failure(502).status = 502
    BY OutcomeFact
  <2>2. req' = [req EXCEPT ![r].phase = "completing", ![r].outcome = Failure(502),
                           ![r].uncertain = TRUE]
    BY <1>5 DEF InDoubt
  <2>3. After(r, "completing", req[r].flight, Failure(502)) /\ Asks(r)
        /\ req'[r].uncertain = TRUE /\ req'[r].settled = req[r].settled
    <3> DEFINE t == TRUE
               o == Failure(502)
               c == [req[r] EXCEPT !.phase = "completing", !.outcome = o, !.uncertain = t]
    <3>1. req' = [req EXCEPT ![r].phase = "completing", ![r].outcome = o, ![r].uncertain = t]
      BY <2>2
    <3>2. t \in BOOLEAN /\ t = TRUE /\ o = Failure(502) /\ o \in Outcomes
      BY <2>1
    <3> HIDE DEF t, o
    <3>3. req' = [req EXCEPT ![r] = c]
      BY <3>1
    <3>4. req[r] \in Call
      BY DEF CallTypes
    <3>b. t \in BOOLEAN /\ o \in Outcomes
      BY <3>2
    <3>5. /\ c \in Call /\ c.phase = "completing" /\ c.outcome = o
          /\ c.flight = req[r].flight /\ c.key = req[r].key /\ c.print = req[r].print
          /\ c.uncertain = t /\ c.settled = req[r].settled
      <4>1. c \in Call
        BY ONLY <3>b, <3>4 DEF Call, Leading
      <4>2. /\ c.phase = "completing" /\ c.outcome = o
            /\ c.flight = req[r].flight /\ c.key = req[r].key /\ c.print = req[r].print
        BY ONLY <3>4 DEF Call
      <4>3. c.uncertain = t /\ c.settled = req[r].settled
        BY ONLY <3>4 DEF Call
      <4> QED BY <4>1, <4>2, <4>3
    <3> HIDE DEF c
    <3>6. req'[r] = c /\ Still(r) /\ req' \in [Requests -> Call]
      BY <3>3, <3>5, Changed
    <3> QED BY <3>2, <3>5, <3>6 DEF After, Asks
  <2> HIDE DEF Failure
  <2>4. req[r].phase = "sending" /\ req'[r].outcome.status = 502
    BY <1>5, <2>1, <2>3 DEF InDoubt, After
  <2>5. After(r, "completing", req[r].flight, req'[r].outcome)
    BY <2>3 DEF After
  <2> QED BY <1>5, <2>3, <2>4, <2>5
<1> QED BY <1>2, <1>3, <1>4, <1>5 DEF PostEnds

LEMMA CompletedFact ==
  ASSUME CallTypes, NEW r \in Requests, Completed(r)
  PROVE  /\ req[r].phase = "completing" /\ After(r, "replying", Nobody, req[r].outcome)
         /\ Asks(r) /\ req'[r].uncertain = FALSE
         /\ req'[r].settled =
              (req[r].flight # Nobody /\ req[r].outcome.status = 200
               /\ req[r].outcome.executed /\ ~req[r].uncertain)
<1> DEFINE f == req[r].flight
           o == req[r].outcome
           new == o.status = 200 /\ o.executed /\ ~req[r].uncertain
           b == f # Nobody /\ new
           no == FALSE
           c == [req[r] EXCEPT !.phase = "replying", !.flight = Nobody,
                               !.uncertain = no, !.settled = b]
<1>1. req[r] \in Call
  BY DEF CallTypes
<1>2. b \in BOOLEAN
  OBVIOUS
<1>3. req' = [req EXCEPT ![r].phase = "replying", ![r].flight = Nobody,
                         ![r].uncertain = no, ![r].settled = b]
  BY DEF Completed
<1>4. b = (req[r].flight # Nobody /\ req[r].outcome.status = 200
           /\ req[r].outcome.executed /\ ~req[r].uncertain)
  OBVIOUS
<1>n. no \in BOOLEAN /\ no = FALSE
  OBVIOUS
<1> HIDE DEF b, no
<1>e. req' = [req EXCEPT ![r] = c]
  BY <1>3
<1>5. c \in Call /\ c.phase = "replying" /\ c.flight = Nobody /\ c.outcome = req[r].outcome
      /\ c.key = req[r].key /\ c.print = req[r].print /\ c.uncertain = no /\ c.settled = b
  BY <1>1, <1>2, <1>n DEF Call
<1> HIDE DEF c
<1>6. req'[r] = c /\ Still(r) /\ req' \in [Requests -> Call]
  BY <1>e, <1>5, Changed
<1>7. req[r].phase = "completing"
  BY DEF Completed
<1> QED BY <1>4, <1>n, <1>5, <1>6, <1>7 DEF After, Asks
-----------------------------------------------------------------------------
(* The steps of a flight, field by field *)

FlightIs(f, o, t, n) ==
  /\ flight' \in [Requests -> FlightRec] /\ \A g \in Requests : g # f => flight'[g] = flight[g]
  /\ flight'[f].key = flight[f].key /\ flight'[f].print = flight[f].print
  /\ flight'[f].outcome = o /\ flight'[f].retainedAt = t /\ flight'[f].bytes = n

LEMMA FlightChanged ==
  ASSUME FlightTypes, NEW f \in Requests, NEW c, flight' = [flight EXCEPT ![f] = c]
  PROVE  /\ flight'[f] = c /\ \A g \in Requests : g # f => flight'[g] = flight[g]
         /\ c \in FlightRec => flight' \in [Requests -> FlightRec]
BY DEF FlightTypes

LEMMA FlightSet ==
  ASSUME FlightTypes, NEW f \in Requests, NEW o \in Outcomes, NEW t \in Nat \cup {Never},
         NEW n \in Nat
  PROVE  /\ flight' = [flight EXCEPT ![f].outcome = o] =>
              FlightIs(f, o, flight[f].retainedAt, flight[f].bytes)
         /\ flight' = [flight EXCEPT ![f].retainedAt = t] =>
              FlightIs(f, flight[f].outcome, t, flight[f].bytes)
         /\ flight' = [flight EXCEPT ![f].outcome = o, ![f].retainedAt = t] =>
              FlightIs(f, o, t, flight[f].bytes)
         /\ flight' = [flight EXCEPT ![f].outcome = o, ![f].bytes = n, ![f].retainedAt = t] =>
              FlightIs(f, o, t, n)
<1> DEFINE c1 == [flight[f] EXCEPT !.outcome = o]
           c2 == [flight[f] EXCEPT !.retainedAt = t]
           c3 == [flight[f] EXCEPT !.outcome = o, !.retainedAt = t]
           c4 == [flight[f] EXCEPT !.outcome = o, !.bytes = n, !.retainedAt = t]
<1>0. flight[f] \in FlightRec
  BY DEF FlightTypes
<1>1. /\ c1 \in FlightRec /\ c1.key = flight[f].key /\ c1.print = flight[f].print
      /\ c1.outcome = o /\ c1.retainedAt = flight[f].retainedAt /\ c1.bytes = flight[f].bytes
  BY <1>0 DEF FlightRec
<1>2. /\ c2 \in FlightRec /\ c2.key = flight[f].key /\ c2.print = flight[f].print
      /\ c2.outcome = flight[f].outcome /\ c2.retainedAt = t /\ c2.bytes = flight[f].bytes
  BY <1>0 DEF FlightRec
<1>3. /\ c3 \in FlightRec /\ c3.key = flight[f].key /\ c3.print = flight[f].print
      /\ c3.outcome = o /\ c3.retainedAt = t /\ c3.bytes = flight[f].bytes
  BY <1>0 DEF FlightRec
<1>4. /\ c4 \in FlightRec /\ c4.key = flight[f].key /\ c4.print = flight[f].print
      /\ c4.outcome = o /\ c4.retainedAt = t /\ c4.bytes = n
  BY <1>0 DEF FlightRec
<1>5. /\ flight' = [flight EXCEPT ![f].outcome = o] => flight' = [flight EXCEPT ![f] = c1]
      /\ flight' = [flight EXCEPT ![f].retainedAt = t] => flight' = [flight EXCEPT ![f] = c2]
      /\ flight' = [flight EXCEPT ![f].outcome = o, ![f].retainedAt = t] =>
           flight' = [flight EXCEPT ![f] = c3]
      /\ flight' = [flight EXCEPT ![f].outcome = o, ![f].bytes = n, ![f].retainedAt = t] =>
           flight' = [flight EXCEPT ![f] = c4]
  OBVIOUS
<1> HIDE DEF c1, c2, c3, c4
<1>6. flight' = [flight EXCEPT ![f].outcome = o] =>
        FlightIs(f, o, flight[f].retainedAt, flight[f].bytes)
  <2> SUFFICES ASSUME flight' = [flight EXCEPT ![f] = c1]
               PROVE  FlightIs(f, o, flight[f].retainedAt, flight[f].bytes)
    BY <1>5
  <2> QED BY <1>1, FlightChanged DEF FlightIs
<1>7. flight' = [flight EXCEPT ![f].retainedAt = t] =>
        FlightIs(f, flight[f].outcome, t, flight[f].bytes)
  <2> SUFFICES ASSUME flight' = [flight EXCEPT ![f] = c2]
               PROVE  FlightIs(f, flight[f].outcome, t, flight[f].bytes)
    BY <1>5
  <2> QED BY <1>2, FlightChanged DEF FlightIs
<1>8. flight' = [flight EXCEPT ![f].outcome = o, ![f].retainedAt = t] =>
        FlightIs(f, o, t, flight[f].bytes)
  <2> SUFFICES ASSUME flight' = [flight EXCEPT ![f] = c3]
               PROVE  FlightIs(f, o, t, flight[f].bytes)
    BY <1>5
  <2> QED BY <1>3, FlightChanged DEF FlightIs
<1>9. flight' = [flight EXCEPT ![f].outcome = o, ![f].bytes = n, ![f].retainedAt = t] =>
        FlightIs(f, o, t, n)
  <2> SUFFICES ASSUME flight' = [flight EXCEPT ![f] = c4]
               PROVE  FlightIs(f, o, t, n)
    BY <1>5
  <2> QED BY <1>4, FlightChanged DEF FlightIs
<1> QED BY <1>6, <1>7, <1>8, <1>9

\* A holder's flight is registered: nobody's departure frees bytes by itself.
LEMMA HeldFlying ==
  ASSUME Registered, NEW r \in Requests, req[r].flight # Nobody
  PROVE  req[r].flight \in Flying
BY DEF Registered, Flying

LEMMA NothingFreed ==
  ASSUME Registered, NEW r \in Requests
  PROVE  FreedBy(r) = 0 /\ ~LastHolder(r)
BY HeldFlying DEF FreedBy, LastHolder

LEMMA AliveFlying == Registered => Alive = Flying
BY HeldFlying DEF Alive, Flying

\* The flight of a request is registered under its key, and no other is.
LEMMA HoldsFact ==
  ASSUME CallTypes, FlightTypes, Registered, NEW r \in Requests, req[r].flight # Nobody
  PROVE  /\ req[r].key \in Keys /\ req[r].flight \in Requests
         /\ registry[req[r].key] = req[r].flight /\ flight[req[r].flight].key = req[r].key
         /\ flight[req[r].flight].print = req[r].print
         /\ \A k \in Keys : registry[k] = req[r].flight => k = req[r].key
         /\ req[r].phase \in {"waiting"} \cup Leading
<1>1. /\ req[r].phase \in {"waiting"} \cup Leading /\ req[r].key \in Keys
      /\ registry[req[r].key] = req[r].flight /\ flight[req[r].flight].print = req[r].print
  BY DEF Registered
<1>2. req[r].flight \in Requests
  BY DEF CallTypes, Call
<1>3. \A k \in Keys : registry[k] = req[r].flight => flight[req[r].flight].key = k
  BY DEF Registered
<1> QED BY <1>1, <1>2, <1>3
-----------------------------------------------------------------------------
(* What the steps have in common: some let r's flight go, some lead on.    *)

Shape == CallTypes /\ FlightTypes /\ CacheTypes /\ flightBytes \in Nat

\* A settled call is over: it holds no flight.
SettledOver == \A r \in Requests : req[r].settled => req[r].phase \in {"replying", "done"}

\* Nothing but r's flight changes, and that only if r led it.
OwnFlight(r) ==
  /\ flight' \in [Requests -> FlightRec]
  /\ \A g \in Requests : flight'[g].key = flight[g].key /\ flight'[g].print = flight[g].print
  /\ \A g \in Requests :
       flight'[g] = flight[g] \/ (g = req[r].flight /\ req[r].phase \in {"waiting"} \cup Leading)

LEMMA OwnSame ==
  ASSUME FlightTypes, NEW r, flight' = flight
  PROVE  OwnFlight(r)
BY DEF OwnFlight, FlightTypes

LEMMA OwnIs ==
  ASSUME NEW r, req[r].phase \in {"waiting"} \cup Leading, NEW o, NEW t, NEW n,
         FlightIs(req[r].flight, o, t, n)
  PROVE  OwnFlight(r)
BY DEF OwnFlight, FlightIs

LEMMA EndsFact ==
  ASSUME Shape, Registered, SettledOver, NEW r \in Requests, Ended(r)
  PROVE  /\ After(r, "done", Nobody, NoOutcome) /\ permits' = permits + 1
         /\ req'[r].settled = req[r].settled
         /\ req[r].settled => Asks(r) /\ req'[r].uncertain = req[r].uncertain
         /\ ~req[r].settled => req'[r].key = NoKey /\ req'[r].print = Nobody /\ ~req'[r].uncertain
<1>1. req[r].settled => req[r].flight = Nobody
  <2> SUFFICES ASSUME req[r].settled PROVE req[r].flight = Nobody
    OBVIOUS
  <2>1. req[r].phase \notin {"waiting"} \cup Leading
    BY DEF SettledOver, Leading
  <2> QED BY <2>1 DEF Registered
<1>2. CallTypes
  BY DEF Shape
<1> QED BY <1>1, <1>2, EndedFact

LEMMA FollowFact ==
  ASSUME Shape, Registered, NEW r \in Requests, Follow(r)
  PROVE  /\ req[r].phase = "waiting" /\ req[r].flight \in Requests
         /\ After(r, "replying", Nobody, req'[r].outcome) /\ Asks(r) /\ Marks(r)
         /\ flight[req[r].flight].outcome # NoOutcome
         /\ \/ /\ Hits(req[r].key, req[r].print) # {}
               /\ req'[r].outcome = CachedReply(req[r].key, req[r].print)
            \/ /\ req'[r].outcome.status = flight[req[r].flight].outcome.status
               /\ req'[r].outcome.origin = flight[req[r].flight].outcome.origin
         /\ flightBytes' = flightBytes /\ UNCHANGED <<registry, flight, cache, permits, effect, now>>
<1> DEFINE f == req[r].flight
           o == flight[f].outcome
           cached == CachedReply(req[r].key, req[r].print)
           hit == o.status = 502 /\ ~o.cached /\ Hits(req[r].key, req[r].print) # {}
           no == FALSE
           told == [o EXCEPT !.executed = no]
<1>1. req[r].phase = "waiting" /\ f # Nobody
  BY DEF Follow, Registered
<1>2. f \in Requests
  BY <1>1, HoldsFact DEF Shape
<1>3. o \in Outcomes
  BY <1>2 DEF Shape, FlightTypes, FlightRec
<1>4. told \in Outcomes /\ told.status = o.status /\ told.origin = o.origin
  <2>1. no \in BOOLEAN
    OBVIOUS
  <2> HIDE DEF no, o
  <2> QED BY ONLY <1>3, <2>1 DEF Outcomes
<1>5. FreedBy(r) = 0
  BY NothingFreed
<1>6. flightBytes' = flightBytes
  BY <1>5 DEF Follow, Shape
<1>7. UNCHANGED <<registry, flight, cache, permits, effect, now>> /\ o # NoOutcome
  BY DEF Follow
<1>8. Replied(r, IF hit THEN cached ELSE told)
  BY DEF Follow
<1> HIDE DEF told
<1>9. CASE hit
  <2>1. cached \in Outcomes /\ Hits(req[r].key, req[r].print) # {}
    BY <1>9, CachedFact DEF Shape
  <2>2. Replied(r, cached)
    BY <1>8, <1>9
  <2>3. After(r, "replying", Nobody, cached) /\ Asks(r) /\ Marks(r)
    BY <2>1, <2>2, RepliedFact DEF Shape
  <2>4. req'[r].outcome = cached
    BY <2>3 DEF After
  <2> QED BY <1>1, <1>2, <1>6, <1>7, <2>1, <2>3, <2>4
<1>10. CASE ~hit
  <2>2. Replied(r, told)
    BY <1>8, <1>10
  <2>3. After(r, "replying", Nobody, told) /\ Asks(r) /\ Marks(r)
    BY <1>4, <2>2, RepliedFact DEF Shape
  <2>4. req'[r].outcome = told
    BY <2>3 DEF After
  <2> QED BY <1>1, <1>2, <1>4, <1>6, <1>7, <2>3, <2>4
<1> QED BY <1>9, <1>10

\* What a leader leaves on his flight.
LEMMA LeadFlight ==
  ASSUME Shape, Registered, NEW r \in Requests, Lead(r)
  PROVE  /\ req[r].flight \in Requests /\ flight[req[r].flight].outcome = NoOutcome
         /\ ~Locked(req[r].flight)
         /\ FlightIs(req[r].flight, Failure(502), flight[req[r].flight].retainedAt,
                     flight[req[r].flight].bytes)
<1>1. req[r].flight \in Requests
  BY HoldsFact DEF Lead, Registered, Shape
<1>2. Failure(502) \in Outcomes
  BY OutcomeFact
<1>3. /\ flight' = [flight EXCEPT ![req[r].flight].outcome = Failure(502)]
      /\ flight[req[r].flight].outcome = NoOutcome /\ ~Locked(req[r].flight)
  BY DEF Lead
<1>4. flight[req[r].flight].retainedAt \in Nat \cup {Never} /\ flight[req[r].flight].bytes \in Nat
  BY <1>1 DEF Shape, FlightTypes, FlightRec
<1> QED BY <1>1, <1>2, <1>3, <1>4, FlightSet DEF Shape

LEMMA ObserverFailedFlight ==
  ASSUME Shape, Registered, NEW r \in Requests, ObserverFailed(r)
  PROVE  /\ req[r].phase = "observing"
         /\ \/ req[r].flight = Nobody /\ flight' = flight
            \/ /\ req[r].flight \in Requests
               /\ FlightIs(req[r].flight, NoOutcome, flight[req[r].flight].retainedAt,
                           flight[req[r].flight].bytes)
         /\ flightBytes' = flightBytes
<1>1. req[r].phase = "observing" /\ flightBytes' = flightBytes
  BY NothingFreed DEF ObserverFailed, Shape
<1>2. CASE req[r].flight = Nobody
  BY <1>1, <1>2 DEF ObserverFailed
<1>3. CASE req[r].flight # Nobody
  <2>1. req[r].flight \in Requests
    BY <1>3, HoldsFact DEF Shape
  <2>2. NoOutcome \in Outcomes
    BY OutcomeFact
  <2>3. flight' = [flight EXCEPT ![req[r].flight].outcome = NoOutcome]
    BY <1>3 DEF ObserverFailed
  <2>4. flight[req[r].flight].retainedAt \in Nat \cup {Never} /\ flight[req[r].flight].bytes \in Nat
    BY <2>1 DEF Shape, FlightTypes, FlightRec
  <2> QED BY <1>1, <2>1, <2>2, <2>3, <2>4, FlightSet DEF Shape
<1> QED BY <1>2, <1>3

LEMMA CompletionFailedFlight ==
  ASSUME Shape, Registered, NEW r \in Requests, CompletionFailed(r)
  PROVE  /\ req[r].phase = "completing"
         /\ \/ req[r].flight = Nobody /\ flight' = flight
            \/ /\ req[r].flight \in Requests
               /\ FlightIs(req[r].flight, Failure(503), now, flight[req[r].flight].bytes)
         /\ flightBytes' = flightBytes
<1>1. req[r].phase = "completing" /\ flightBytes' = flightBytes
  BY NothingFreed DEF CompletionFailed, Shape
<1>2. CASE req[r].flight = Nobody
  BY <1>1, <1>2 DEF CompletionFailed
<1>3. CASE req[r].flight # Nobody
  <2>1. req[r].flight \in Requests
    BY <1>3, HoldsFact DEF Shape
  <2>2. Failure(503) \in Outcomes
    BY OutcomeFact
  <2>3. flight' = [flight EXCEPT ![req[r].flight].outcome = Failure(503),
                                 ![req[r].flight].retainedAt = now]
    BY <1>3 DEF CompletionFailed
  <2>4. now \in Nat \cup {Never} /\ flight[req[r].flight].bytes \in Nat
    BY <2>1 DEF Shape, FlightTypes, FlightRec, CacheTypes
  <2> QED BY <1>1, <2>1, <2>2, <2>3, <2>4, FlightSet DEF Shape
<1> QED BY <1>2, <1>3

LEMMA CancelFlight ==
  ASSUME Shape, Registered, NEW r \in Requests, Cancel(r)
  PROVE  /\ req[r].phase \in {"waiting"} \cup Leading
         /\ \/ (req[r].phase = "waiting" \/ req[r].flight = Nobody) /\ flight' = flight
            \/ /\ req[r].phase \in Leading /\ req[r].flight \in Requests
               /\ FlightIs(req[r].flight, flight[req[r].flight].outcome, now,
                           flight[req[r].flight].bytes)
         /\ flightBytes' = flightBytes
<1>1. req[r].phase \in {"waiting"} \cup Leading /\ flightBytes' = flightBytes
  BY NothingFreed DEF Cancel, Shape, Leading
<1>2. CASE req[r].phase = "waiting" \/ req[r].flight = Nobody
  BY <1>1, <1>2 DEF Cancel
<1>3. CASE ~(req[r].phase = "waiting" \/ req[r].flight = Nobody)
  <2>1. req[r].flight \in Requests
    BY <1>3, HoldsFact DEF Shape
  <2>3. flight' = [flight EXCEPT ![req[r].flight].retainedAt = now]
    BY <1>3 DEF Cancel
  <2>4. /\ now \in Nat \cup {Never} /\ flight[req[r].flight].bytes \in Nat
        /\ flight[req[r].flight].outcome \in Outcomes
    BY <2>1 DEF Shape, FlightTypes, FlightRec, CacheTypes
  <2> QED BY <1>1, <1>3, <2>1, <2>3, <2>4, FlightSet DEF Shape
<1> QED BY <1>2, <1>3
LEMMA ReplayFact ==
  ASSUME CallTypes, NEW r \in Requests
  PROVE  /\ Replay(r) \in Outcomes /\ Replay(r).status = req[r].outcome.status
         /\ Replay(r).origin = req[r].outcome.origin /\ Replay(r).size = req[r].outcome.size
<1> DEFINE o == req[r].outcome
           yes == TRUE
           no == FALSE
           told == [o EXCEPT !.cached = yes, !.executed = no]
<1>1. o \in Outcomes
  BY DEF CallTypes, Call
<1>2. Replay(r) = IF o.status = 200 THEN told ELSE o
  BY DEF Replay
<1>3. yes \in BOOLEAN /\ no \in BOOLEAN
  OBVIOUS
<1> HIDE DEF yes, no, o
<1>4. told \in Outcomes /\ told.status = o.status /\ told.origin = o.origin /\ told.size = o.size
  <2>1. told \in Outcomes
    <3> DEFINE mid == [o EXCEPT !.cached = yes]
    <3>1. mid \in Outcomes
      BY ONLY <1>1, <1>3 DEF Outcomes
    <3>2. told = [mid EXCEPT !.executed = no]
      BY ONLY <1>1 DEF Outcomes
    <3> HIDE DEF mid, told
    <3>3. [mid EXCEPT !.executed = no] \in Outcomes
      BY ONLY <1>3, <3>1 DEF Outcomes
    <3> QED BY ONLY <3>2, <3>3
  <2>2. told.status = o.status /\ told.origin = o.origin /\ told.size = o.size
    BY ONLY <1>1 DEF Outcomes
  <2> QED BY <2>1, <2>2
<1>5. /\ Replay(r) \in Outcomes /\ Replay(r).status = o.status
      /\ Replay(r).origin = o.origin /\ Replay(r).size = o.size
  BY <1>1, <1>2, <1>4
<1> QED BY <1>5 DEF o

\* The completed flight is kept for the window if it has to be.
Retained(r) == \/ req[r].outcome.status = 200 \/ req[r].uncertain \/ ~Retainable(r)

LEMMA CompletedFlight ==
  ASSUME Shape, Registered, NEW r \in Requests, Completed(r)
  PROVE  \/ req[r].flight = Nobody /\ flight' = flight /\ flightBytes' = flightBytes
         \/ /\ req[r].flight \in Requests
            /\ FlightIs(req[r].flight,
                 IF Retainable(r) THEN Replay(r) ELSE Failure(502),
                 IF Retained(r) THEN now ELSE flight[req[r].flight].retainedAt,
                 IF Retainable(r) THEN Overhead + req[r].outcome.size
                 ELSE flight[req[r].flight].bytes)
            /\ Grown(r) = Overhead + req[r].outcome.size - flight[req[r].flight].bytes
            /\ flightBytes' = IF Retainable(r) THEN flightBytes + Grown(r) ELSE flightBytes
<1> DEFINE f == req[r].flight
<1>1. CASE f = Nobody
  BY <1>1 DEF Completed
<1>2. CASE f # Nobody
  <2>1. f \in Requests
    BY <1>2, HoldsFact DEF Shape
  <2>2. /\ flight[f].retainedAt \in Nat \cup {Never} /\ flight[f].bytes \in Nat
        /\ flight[f].outcome \in Outcomes /\ flight[f] \in FlightRec
    BY <2>1 DEF Shape, FlightTypes, FlightRec
  <2>3. Replay(r) \in Outcomes /\ Failure(502) \in Outcomes /\ req[r].outcome.size \in Nat
        /\ Replay(r).size = req[r].outcome.size
    BY ReplayFact, OutcomeFact DEF Shape, CallTypes, Call, Outcomes
  <2>4. Grown(r) = Overhead + req[r].outcome.size - flight[f].bytes
    BY <2>3 DEF Grown
  <2>5. Grown(r) \in Int /\ flight[f].bytes + Grown(r) = Overhead + req[r].outcome.size
        /\ Overhead + req[r].outcome.size \in Nat
    BY <2>2, <2>3, <2>4, Parameters
  <2>6. flightBytes' = IF Retainable(r) THEN flightBytes + Grown(r) ELSE flightBytes
    <3>1. FreedBy(r) = 0
      BY NothingFreed
    <3>2. flightBytes' = (IF Retainable(r) THEN flightBytes + Grown(r) ELSE flightBytes) - 0
      BY <1>2, <3>1 DEF Completed
    <3> QED BY <2>5, <3>2 DEF Shape
  <2> DEFINE o == IF Retainable(r) THEN Replay(r) ELSE Failure(502)
             n == IF Retainable(r) THEN flight[f].bytes + Grown(r) ELSE flight[f].bytes
             t == IF Retained(r) THEN now ELSE flight[f].retainedAt
  <2>7. o \in Outcomes /\ n \in Nat /\ t \in Nat \cup {Never}
    BY <2>2, <2>3, <2>5 DEF Shape, CacheTypes
  <2>8. flight' = [flight EXCEPT ![f].outcome = o, ![f].bytes = n, ![f].retainedAt = t]
    <3> DEFINE c == [flight[f] EXCEPT !.outcome = o,
                       !.bytes = IF Retainable(r) THEN @ + Grown(r) ELSE @,
                       !.retainedAt = IF Retained(r) THEN now ELSE @]
    <3>1. flight' = [flight EXCEPT ![f].outcome = o,
                       ![f].bytes = IF Retainable(r) THEN @ + Grown(r) ELSE @,
                       ![f].retainedAt = IF Retained(r) THEN now ELSE @]
      BY <1>2 DEF Completed, Retained
    <3> HIDE DEF o
    <3> QED BY <2>1, <3>1 DEF Shape, FlightTypes, FlightRec
  <2>9. FlightIs(f, o, t, n)
    <3> HIDE DEF o, n, t
    <3> QED BY <2>1, <2>7, <2>8, FlightSet DEF Shape
  <2> QED BY <2>1, <2>4, <2>5, <2>6, <2>9
<1> QED BY <1>1, <1>2

-----------------------------------------------------------------------------
(* Some steps let r's flight go, some lead on.                             *)

Goes(r) == Follow(r) \/ ObserverFailed(r) \/ Completed(r) \/ CompletionFailed(r)
             \/ Cancel(r) \/ BodyDropped(r)
LeadsOn(r) == Lead(r) \/ Send(r) \/ PostEnds(r)

LEMMA GoesFact ==
  ASSUME Shape, Registered, SettledOver, NEW r \in Requests, Goes(r)
  PROVE  /\ req[r].phase \notin {"new", "joining", "done"}
         /\ After(r, req'[r].phase, Nobody, req'[r].outcome)
         /\ req'[r].phase \in {"replying", "done"}
         /\ OwnFlight(r) /\ registry' = registry /\ now' = now
<1>1. CASE Follow(r)
  BY <1>1, FollowFact, OwnSame DEF After, Shape
<1>2. CASE ObserverFailed(r)
  BY <1>2, EndsFact, ObserverFailedFlight, OwnSame, OwnIs DEF ObserverFailed, After, Shape, Leading
<1>3. CASE Completed(r)
  <2>1. req[r].phase = "completing" /\ After(r, "replying", Nobody, req[r].outcome)
    BY <1>3, CompletedFact DEF Shape
  <2>2. OwnFlight(r)
    BY <1>3, <2>1, CompletedFlight, OwnSame, OwnIs DEF Shape, Leading
  <2> QED BY <1>3, <2>1, <2>2 DEF Completed, After
<1>4. CASE CompletionFailed(r)
  BY <1>4, EndsFact, CompletionFailedFlight, OwnSame, OwnIs
     DEF CompletionFailed, After, Shape, Leading
<1>5. CASE Cancel(r)
  BY <1>5, EndsFact, CancelFlight, OwnSame, OwnIs DEF Cancel, After, Shape, Leading
<1>6. CASE BodyDropped(r)
  BY <1>6, EndsFact, OwnSame DEF BodyDropped, After, Shape
<1> QED BY <1>1, <1>2, <1>3, <1>4, <1>5, <1>6 DEF Goes

LEMMA LeadsOnFact ==
  ASSUME Shape, Registered, NEW r \in Requests, LeadsOn(r)
  PROVE  /\ req[r].phase \in {"waiting"} \cup Leading /\ req'[r].phase \in Leading
         /\ After(r, req'[r].phase, req[r].flight, req'[r].outcome) /\ Asks(r)
         /\ req'[r].settled = req[r].settled
         /\ OwnFlight(r) /\ UNCHANGED <<registry, cache, flightBytes, permits, now>>
<1>1. CASE Lead(r)
  <2>1. /\ req[r].phase = "waiting" /\ After(r, req'[r].phase, req[r].flight, req'[r].outcome)
        /\ Asks(r) /\ req'[r].settled = req[r].settled /\ req'[r].phase \in Leading
    BY <1>1, LeadFact DEF Shape, Marks, Leading
  <2>2. OwnFlight(r)
    BY <1>1, <2>1, LeadFlight, OwnIs
  <2> QED BY <1>1, <2>1, <2>2 DEF Lead
<1>2. CASE Send(r)
  BY <1>2, SendFact, OwnSame DEF Send, Shape, Marks, Leading, After
<1>3. CASE PostEnds(r)
  <2>1. /\ req[r].phase = "sending" /\ After(r, "completing", req[r].flight, req'[r].outcome)
        /\ Asks(r) /\ req'[r].settled = req[r].settled
    BY <1>3, PostEndsFact DEF Shape
  <2>2. UNCHANGED <<registry, flight, cache, flightBytes, permits, now>>
    BY <1>3 DEF PostEnds, NotConnected, Rejected, Succeeded, InDoubt
  <2>3. OwnFlight(r)
    BY <2>2, OwnSame DEF Shape
  <2> QED BY <2>1, <2>2, <2>3 DEF After, Leading
<1> QED BY <1>1, <1>2, <1>3 DEF LeadsOn
-----------------------------------------------------------------------------
(* The sweep and the join                                                  *)

Swept == [j \in Keys |-> IF registry[j] # Nobody /\ Stays(registry[j])
                         THEN registry[j] ELSE Nobody]
Rest == [f \in Requests |-> IF f \in Dropped THEN NoFlight ELSE flight[f]]
Used == flightBytes - BytesOf(Dropped)
FullNow == Cardinality({j \in Keys : Swept[j] # Nobody}) >= MaxEntries
Opened(r) == [NoFlight EXCEPT !.key = req[r].key, !.print = req[r].print,
                              !.bytes = Overhead + Marker]

LEMMA NoFlightFact ==
  /\ NoFlight \in FlightRec
  /\ \A r \in Requests : CallTypes =>
       /\ Opened(r) \in FlightRec /\ Opened(r).key = req[r].key /\ Opened(r).print = req[r].print
       /\ Opened(r).outcome = NoOutcome /\ Opened(r).retainedAt = Never
       /\ Opened(r).bytes = Overhead + Marker
<1>1. NoOutcome \in Outcomes /\ Overhead + Marker \in Nat /\ Never \in Nat \cup {Never}
  BY OutcomeFact, Parameters
<1>2. NoFlight \in FlightRec /\ NoFlight.outcome = NoOutcome /\ NoFlight.retainedAt = Never
  BY <1>1 DEF NoFlight, FlightRec
<1>3. ASSUME NEW r \in Requests, CallTypes
      PROVE  /\ Opened(r) \in FlightRec /\ Opened(r).key = req[r].key
             /\ Opened(r).print = req[r].print /\ Opened(r).outcome = NoOutcome
             /\ Opened(r).retainedAt = Never /\ Opened(r).bytes = Overhead + Marker
  <2>1. req[r].key \in Keys \cup {NoKey} /\ req[r].print \in Prints \cup {Nobody}
    BY <1>3 DEF CallTypes, Call
  <2> QED BY ONLY <1>1, <1>2, <2>1 DEF Opened, FlightRec
<1> QED BY <1>2, <1>3

\* Only flights nobody holds are swept, each with its key.
LEMMA SweepFact ==
  ASSUME FlightTypes
  PROVE  /\ Dropped \subseteq Flying /\ Flying \subseteq Requests
         /\ \A f \in Dropped : ~Stays(f) /\ \A s \in Requests : req[s].flight # f
         /\ Rest \in [Requests -> FlightRec] /\ Swept \in [Keys -> Requests \cup {Nobody}]
         /\ \A f \in Requests : f \notin Dropped => Rest[f] = flight[f]
         /\ \A j \in Keys :
              \/ Swept[j] = registry[j] /\ registry[j] \notin Dropped
              \/ Swept[j] = Nobody /\ registry[j] \in Dropped
<1>1. Flying \subseteq Requests
  BY DEF FlightTypes, Flying
<1>2. \A f \in Dropped : ~Stays(f) /\ \A s \in Requests : req[s].flight # f
  BY DEF Dropped, Holders
<1>3. Rest \in [Requests -> FlightRec]
  BY NoFlightFact DEF Rest, FlightTypes
<1>4. Swept \in [Keys -> Requests \cup {Nobody}]
  BY DEF Swept, FlightTypes
<1>5. \A f \in Requests : f \notin Dropped => Rest[f] = flight[f]
  BY DEF Rest
<1>6. ASSUME NEW j \in Keys
      PROVE  \/ Swept[j] = registry[j] /\ registry[j] \notin Dropped
             \/ Swept[j] = Nobody /\ registry[j] \in Dropped
  <2>1. CASE registry[j] = Nobody
    BY <2>1 DEF Swept, Dropped, Flying
  <2>2. CASE registry[j] # Nobody /\ Stays(registry[j])
    BY <2>2 DEF Swept, Dropped
  <2>3. CASE registry[j] # Nobody /\ ~Stays(registry[j])
    <3>1. registry[j] \in Flying
      BY <2>3 DEF Flying
    <3>2. Holders(registry[j]) = {}
      BY <2>3 DEF Stays
    <3> QED BY <2>3, <3>1, <3>2 DEF Swept, Dropped
  <2> QED BY <2>1, <2>2, <2>3
<1> QED BY <1>1, <1>2, <1>3, <1>4, <1>5, <1>6 DEF Dropped

LEMMA JoinFact ==
  ASSUME Shape, Registered, NEW r \in Requests, Join(r)
  PROVE  /\ req[r].phase = "joining" /\ req[r].key \in Keys /\ req[r].flight = Nobody
         /\ After(r, req'[r].phase, req'[r].flight, req'[r].outcome) /\ Asks(r) /\ Marks(r)
         /\ UNCHANGED <<cache, permits, effect, now>>
         /\ \/ /\ req'[r].phase = "replying" /\ req'[r].flight = Nobody
               /\ \/ req'[r].outcome = Failure(409) \/ req'[r].outcome = Failure(503)
                  \/ /\ Hits(req[r].key, req[r].print) # {}
                     /\ req'[r].outcome = CachedReply(req[r].key, req[r].print)
               /\ registry' = Swept /\ flight' = Rest /\ flightBytes' = Used
            \/ /\ req'[r].phase = "waiting" /\ req'[r].flight = Swept[req[r].key]
               /\ Swept[req[r].key] # Nobody
               /\ flight[Swept[req[r].key]].print = req[r].print
               /\ registry' = Swept /\ flight' = Rest /\ flightBytes' = Used
            \/ /\ req'[r].phase = "waiting" /\ req'[r].flight = r
               /\ Swept[req[r].key] = Nobody /\ ~FullNow /\ Room(Overhead + Marker, Used)
               /\ registry' = [Swept EXCEPT ![req[r].key] = r]
               /\ flight' = [Rest EXCEPT ![r] = Opened(r)]
               /\ flightBytes' = Used + Overhead + Marker
<1> DEFINE k == req[r].key
<1>1. req[r].phase = "joining" /\ k \in Keys /\ req[r].flight = Nobody
  BY DEF Join, Registered, Leading
<1>2. UNCHANGED <<cache, permits, effect, now>>
  BY DEF Join
<1>3. ASSUME NEW ph \in {"waiting"}, NEW f \in Requests,
             req' = [req EXCEPT ![r].phase = ph, ![r].flight = f]
      PROVE  After(r, ph, f, req[r].outcome) /\ Asks(r) /\ Marks(r)
  BY <1>3 DEF Shape, CallTypes, After, Asks, Marks, Still, Call
<1>4. Failure(409) \in Outcomes /\ Failure(503) \in Outcomes
  BY OutcomeFact
<1>5. CASE /\ Swept[k] # Nobody /\ flight[Swept[k]].print # req[r].print
           /\ Replied(r, Failure(409))
           /\ registry' = Swept /\ flight' = Rest /\ flightBytes' = Used
  <2>1. After(r, "replying", Nobody, Failure(409)) /\ Asks(r) /\ Marks(r)
    BY <1>4, <1>5, RepliedFact DEF Shape
  <2> QED BY <1>1, <1>2, <1>5, <2>1 DEF After
<1>6. CASE /\ Swept[k] # Nobody /\ flight[Swept[k]].print = req[r].print
           /\ req' = [req EXCEPT ![r].phase = "waiting", ![r].flight = Swept[k]]
           /\ registry' = Swept /\ flight' = Rest /\ flightBytes' = Used
  <2>1. Swept[k] \in Requests
    BY <1>1, <1>6, SweepFact DEF Shape
  <2>2. After(r, "waiting", Swept[k], req[r].outcome) /\ Asks(r) /\ Marks(r)
    <3> HIDE DEF Swept
    <3> DEFINE f == Swept[k]
    <3>1. f \in Requests /\ req' = [req EXCEPT ![r].phase = "waiting", ![r].flight = f]
      BY <1>6, <2>1
    <3> HIDE DEF f
    <3>2. After(r, "waiting", f, req[r].outcome) /\ Asks(r) /\ Marks(r)
      BY <1>3, <3>1
    <3> QED BY <3>2 DEF f
  <2> QED BY <1>1, <1>2, <1>6, <2>2 DEF After
<1>7. CASE /\ Swept[k] = Nobody
           /\ Replied(r, IF FullNow /\ Hits(k, req[r].print) # {}
                         THEN CachedReply(k, req[r].print) ELSE Failure(503))
           /\ registry' = Swept /\ flight' = Rest /\ flightBytes' = Used
  <2>1. PICK o \in Outcomes : /\ Replied(r, o)
                              /\ \/ o = Failure(503)
                                 \/ Hits(k, req[r].print) # {} /\ o = CachedReply(k, req[r].print)
    <3>1. CASE FullNow /\ Hits(k, req[r].print) # {}
      BY <1>7, <3>1, CachedFact DEF Shape
    <3>2. CASE ~(FullNow /\ Hits(k, req[r].print) # {})
      BY <1>4, <1>7, <3>2
    <3> QED BY <3>1, <3>2
  <2>2. After(r, "replying", Nobody, o) /\ Asks(r) /\ Marks(r)
    BY <2>1, RepliedFact DEF Shape
  <2> QED BY <1>1, <1>2, <1>7, <2>1, <2>2 DEF After
<1>8. CASE /\ Swept[k] = Nobody /\ ~FullNow /\ Room(Overhead + Marker, Used)
           /\ req' = [req EXCEPT ![r].phase = "waiting", ![r].flight = r]
           /\ registry' = [Swept EXCEPT ![k] = r] /\ flight' = [Rest EXCEPT ![r] = Opened(r)]
           /\ flightBytes' = Used + Overhead + Marker
  <2>1. After(r, "waiting", r, req[r].outcome) /\ Asks(r) /\ Marks(r)
    BY <1>3, <1>8
  <2> QED BY <1>1, <1>2, <1>8, <2>1 DEF After
<1>10. \/ /\ Swept[k] # Nobody
          /\ IF flight[Swept[k]].print # req[r].print THEN Replied(r, Failure(409))
             ELSE req' = [req EXCEPT ![r].phase = "waiting", ![r].flight = Swept[k]]
          /\ registry' = Swept /\ flight' = Rest /\ flightBytes' = Used
       \/ /\ Swept[k] = Nobody
          /\ FullNow \/ ~Room(Overhead + Marker, Used)
          /\ Replied(r, IF FullNow /\ Hits(k, req[r].print) # {}
                        THEN CachedReply(k, req[r].print) ELSE Failure(503))
          /\ registry' = Swept /\ flight' = Rest /\ flightBytes' = Used
       \/ /\ Swept[k] = Nobody
          /\ ~FullNow /\ Room(Overhead + Marker, Used)
          /\ req' = [req EXCEPT ![r].phase = "waiting", ![r].flight = r]
          /\ registry' = [Swept EXCEPT ![k] = r]
          /\ flight' = [Rest EXCEPT ![r] = Opened(r)]
          /\ flightBytes' = Used + Overhead + Marker
  BY DEF Join, Swept, Rest, Used, FullNow, Opened
<1> HIDE DEF k
<1> QED BY <1>5, <1>6, <1>7, <1>8, <1>10
-----------------------------------------------------------------------------
(* The registry                                                            *)

LEMMA StepKinds ==
  ASSUME NEW r \in Requests, Step(r)
  PROVE  \/ \E k \in Keys \cup {NoKey}, p \in Prints : Arrive(r, k, p)
         \/ Join(r) \/ Goes(r) \/ LeadsOn(r)
BY DEF Step, Goes, LeadsOn, PostEnds

\* What the registry says of a key, and a request of its flight.
KeyOk(k) == registry[k] # Nobody =>
              /\ flight[registry[k]].key = k
              /\ req[registry[k]].phase \notin {"new", "joining"}
CallOk(r) ==
  /\ req[r].flight # Nobody =>
       /\ req[r].phase \in {"waiting"} \cup Leading /\ req[r].key \in Keys
       /\ registry[req[r].key] = req[r].flight
       /\ flight[req[r].flight].print = req[r].print
  /\ req[r].phase = "joining" => req[r].key \in Keys
  /\ req[r].phase \in {"joining", "waiting"} \cup Leading => req[r].print \in Prints
  /\ req[r].phase = "waiting" => req[r].flight # Nobody
  /\ req[r].phase \in Leading /\ req[r].key # NoKey => req[r].flight # Nobody

LEMMA RegisteredIs ==
  /\ Registered <=> (\A k \in Keys : KeyOk(k)) /\ (\A r \in Requests : CallOk(r))
  /\ Registered' <=> (\A k \in Keys : KeyOk(k)') /\ (\A r \in Requests : CallOk(r)')
BY DEF Registered, KeyOk, CallOk

LEMMA RegisteredKept ==
  ASSUME Shape, Registered, SettledOver, NEW r \in Requests, Step(r)
  PROVE  Registered'
<1>1. ASSUME NEW k \in Keys \cup {NoKey}, NEW p \in Prints, Arrive(r, k, p)
      PROVE  Registered'
  <2>1. /\ req[r].phase = "new" /\ Still(r) /\ req'[r].flight = req[r].flight
        /\ \/ req'[r].phase = "done"
           \/ /\ req'[r].key = k /\ req'[r].print = p
              /\ \/ req'[r].phase = "replying"
                 \/ req'[r].phase = "joining" /\ k \in Keys
                 \/ k = NoKey /\ req'[r].phase \in Leading
    BY <1>1, ArriveFact DEF Shape, After, Leading
  <2>2. UNCHANGED <<registry, flight>>
    BY <1>1 DEF Arrive
  <2>3. req[r].flight = Nobody
    BY <2>1 DEF Registered, Leading
  <2>4. ASSUME NEW j \in Keys PROVE KeyOk(j)'
    <3>1. KeyOk(j)
      BY RegisteredIs
    <3>2. registry[j] \in Requests \cup {Nobody} /\ registry[j] # r
      BY <2>1, <3>1, Parameters DEF KeyOk, Shape, FlightTypes
    <3> QED BY <2>1, <2>2, <3>1, <3>2 DEF KeyOk, Still
  <2>5. ASSUME NEW s \in Requests, s # r PROVE CallOk(s)'
    <3>1. CallOk(s) /\ req'[s] = req[s]
      BY <2>1, <2>5, RegisteredIs DEF Still
    <3> QED BY <2>2, <3>1 DEF CallOk
  <2>6. CallOk(r)'
    BY <2>1, <2>3 DEF CallOk, Leading
  <2> QED BY <2>4, <2>5, <2>6, RegisteredIs
<1>2. ASSUME Goes(r) PROVE Registered'
  <2>1. /\ req[r].phase \notin {"new", "joining", "done"} /\ Still(r) /\ req'[r].flight = Nobody
        /\ req'[r].phase \in {"replying", "done"} /\ OwnFlight(r) /\ registry' = registry
    BY <1>2, GoesFact DEF After
  <2>4. ASSUME NEW j \in Keys PROVE KeyOk(j)'
    <3>1. KeyOk(j) /\ registry[j] \in Requests \cup {Nobody}
      BY RegisteredIs DEF Shape, FlightTypes
    <3> QED BY <2>1, <3>1 DEF KeyOk, Still, OwnFlight
  <2>5. ASSUME NEW s \in Requests, s # r PROVE CallOk(s)'
    <3>1. CallOk(s) /\ req'[s] = req[s] /\ req[s].flight \in Requests \cup {Nobody}
      BY <2>1, <2>5, RegisteredIs DEF Still, Shape, CallTypes, Call
    <3> QED BY <2>1, <3>1 DEF CallOk, OwnFlight
  <2>6. CallOk(r)'
    BY <2>1 DEF CallOk, Leading
  <2> QED BY <2>4, <2>5, <2>6, RegisteredIs
<1>3. ASSUME LeadsOn(r) PROVE Registered'
  <2>1. /\ req[r].phase \in {"waiting"} \cup Leading /\ req'[r].phase \in Leading
        /\ Still(r) /\ req'[r].flight = req[r].flight /\ Asks(r)
        /\ OwnFlight(r) /\ registry' = registry
    BY <1>3, LeadsOnFact DEF After
  <2>4. ASSUME NEW j \in Keys PROVE KeyOk(j)'
    <3>1. KeyOk(j) /\ registry[j] \in Requests \cup {Nobody}
      BY RegisteredIs DEF Shape, FlightTypes
    <3>2. \A s \in Requests : req'[s].phase \in {"new", "joining"} =>
                                req[s].phase \in {"new", "joining"}
      BY <2>1 DEF Still, Leading
    <3> QED BY <2>1, <3>1, <3>2 DEF KeyOk, OwnFlight
  <2>5. ASSUME NEW s \in Requests, s # r PROVE CallOk(s)'
    <3>1. CallOk(s) /\ req'[s] = req[s] /\ req[s].flight \in Requests \cup {Nobody}
      BY <2>1, <2>5, RegisteredIs DEF Still, Shape, CallTypes, Call
    <3> QED BY <2>1, <3>1 DEF CallOk, OwnFlight
  <2>6. CallOk(r)'
    <3>1. CallOk(r) /\ req[r].flight \in Requests \cup {Nobody}
      BY RegisteredIs DEF Shape, CallTypes, Call
    <3>2. flight'[req[r].flight].print = flight[req[r].flight].print \/ req[r].flight = Nobody
      BY <2>1, <3>1 DEF OwnFlight
    <3> QED BY <2>1, <3>1, <3>2 DEF CallOk, Asks, Leading
  <2> QED BY <2>4, <2>5, <2>6, RegisteredIs
<1>4. ASSUME Join(r) PROVE Registered'
  <2> DEFINE k == req[r].key
  <2>1. /\ req[r].phase = "joining" /\ k \in Keys /\ Still(r) /\ Asks(r)
        /\ req'[r].key = k /\ req'[r].print = req[r].print /\ req[r].print \in Prints
        /\ \/ req'[r].phase = "replying" /\ req'[r].flight = Nobody
              /\ registry' = Swept /\ flight' = Rest
           \/ /\ req'[r].phase = "waiting" /\ req'[r].flight = Swept[k] /\ Swept[k] # Nobody
              /\ flight[Swept[k]].print = req[r].print
              /\ registry' = Swept /\ flight' = Rest
           \/ /\ req'[r].phase = "waiting" /\ req'[r].flight = r
              /\ registry' = [Swept EXCEPT ![k] = r]
              /\ flight' = [Rest EXCEPT ![r] = Opened(r)]
    <3>1. req[r].phase = "joining" => req[r].print \in Prints
      BY DEF Registered
    <3> QED BY <1>4, <3>1, JoinFact DEF After, Asks
  <2>2. \A j \in Keys : registry[j] # r
    BY <2>1, RegisteredIs, Parameters DEF KeyOk
  <2>3. /\ Rest \in [Requests -> FlightRec] /\ Swept \in [Keys -> Requests \cup {Nobody}]
        /\ \A f \in Requests : f \notin Dropped => Rest[f] = flight[f]
        /\ \A j \in Keys : \/ Swept[j] = registry[j] /\ registry[j] \notin Dropped
                           \/ Swept[j] = Nobody /\ registry[j] \in Dropped
        /\ \A s \in Requests : req[s].flight \notin Dropped
    BY SweepFact DEF Shape
  <2>4. Opened(r).key = k /\ Opened(r).print = req[r].print
    BY NoFlightFact DEF Shape
  <2>5. /\ \A j \in Keys : registry'[j] = Swept[j] \/ (j = k /\ registry'[j] = r
                                                       /\ flight'[r] = Opened(r)
                                                       /\ req'[r].phase = "waiting")
        /\ \A f \in Requests : f # r => flight'[f] = Rest[f]
    BY <2>1, <2>3
  <2> HIDE DEF k
  <2>6. \A j \in Keys : Swept[j] # Nobody =>
          /\ Swept[j] \in Requests /\ Swept[j] # r /\ Swept[j] = registry[j]
          /\ Swept[j] \notin Dropped /\ flight'[Swept[j]] = flight[Swept[j]]
    <3> SUFFICES ASSUME NEW j \in Keys, Swept[j] # Nobody
                 PROVE  /\ Swept[j] \in Requests /\ Swept[j] # r /\ Swept[j] = registry[j]
                        /\ Swept[j] \notin Dropped /\ flight'[Swept[j]] = flight[Swept[j]]
      OBVIOUS
    <3>1. Swept[j] \in Requests /\ Swept[j] = registry[j] /\ Swept[j] \notin Dropped
      BY <2>3
    <3>2. Swept[j] # r
      BY <2>2, <3>1
    <3> QED BY <2>3, <2>5, <3>1, <3>2
  <2>7. ASSUME NEW j \in Keys PROVE KeyOk(j)'
    <3>1. KeyOk(j)
      BY RegisteredIs
    <3>2. CASE registry'[j] = Swept[j] /\ Swept[j] # Nobody
      <4>1. req'[Swept[j]] = req[Swept[j]]
        BY <2>1, <2>6, <3>2 DEF Still
      <4> QED BY <2>6, <3>1, <3>2, <4>1 DEF KeyOk
    <3>3. CASE registry'[j] = Swept[j] /\ Swept[j] = Nobody
      BY <3>3 DEF KeyOk
    <3>4. CASE j = k /\ registry'[j] = r /\ flight'[r] = Opened(r) /\ req'[r].phase = "waiting"
      BY <2>4, <3>4 DEF KeyOk
    <3> QED BY <2>5, <3>2, <3>3, <3>4
  <2>8. ASSUME NEW s \in Requests, s # r PROVE CallOk(s)'
    <3>1. CallOk(s) /\ req'[s] = req[s] /\ req[s].flight \in Requests \cup {Nobody}
      BY <2>1, <2>8, RegisteredIs DEF Still, Shape, CallTypes, Call
    <3>2. CASE req[s].flight = Nobody
      BY <3>1, <3>2 DEF CallOk
    <3>3. CASE req[s].flight # Nobody
      <4>1. req[s].key \in Keys /\ registry[req[s].key] = req[s].flight
        BY <3>1, <3>3 DEF CallOk
      <4>2. Swept[req[s].key] = req[s].flight
        BY <2>3, <4>1
      <4>3. registry'[req[s].key] = req[s].flight
        <5>1. req[s].key # k \/ registry'[k] = Swept[k]
          BY <2>1, <3>3, <4>2, <1>4, JoinFact DEF k
        <5> QED BY <2>5, <4>1, <4>2, <5>1
      <4>4. flight'[req[s].flight] = flight[req[s].flight]
        BY <2>6, <3>3, <4>1, <4>2
      <4> QED BY <3>1, <3>3, <4>1, <4>3, <4>4 DEF CallOk
    <3> QED BY <3>2, <3>3
  <2>9. CallOk(r)'
    <3>1. CASE req'[r].phase = "replying" /\ req'[r].flight = Nobody
      BY <3>1 DEF CallOk, Leading
    <3>2. CASE /\ req'[r].phase = "waiting" /\ req'[r].flight = Swept[k] /\ Swept[k] # Nobody
               /\ flight[Swept[k]].print = req[r].print /\ registry' = Swept
      <4>1. flight'[Swept[k]] = flight[Swept[k]]
        BY <2>1, <2>6, <3>2
      <4> QED BY <2>1, <3>2, <4>1 DEF CallOk
    <3>3. CASE /\ req'[r].phase = "waiting" /\ req'[r].flight = r
               /\ registry' = [Swept EXCEPT ![k] = r]
               /\ flight' = [Rest EXCEPT ![r] = Opened(r)]
      <4>1. registry'[k] = r /\ flight'[r] = Opened(r)
        BY <2>1, <2>3, <3>3
      <4> QED BY <2>1, <2>4, <3>3, <4>1, Parameters DEF CallOk
    <3> QED BY <2>1, <3>1, <3>2, <3>3
  <2> QED BY <2>7, <2>8, <2>9, RegisteredIs
<1> QED BY <1>1, <1>2, <1>3, <1>4, StepKinds
-----------------------------------------------------------------------------
(* One leads, behind the marker                                            *)

LEMMA SettledOverKept ==
  ASSUME Shape, Registered, SettledOver, NEW r \in Requests, Step(r)
  PROVE  SettledOver'
<1>0. SUFFICES ASSUME Still(r), req'[r].settled => req'[r].phase \in {"replying", "done"}
               PROVE  SettledOver'
  <2>1. Still(r)
    BY StepKinds, ArriveFact, JoinFact, GoesFact, LeadsOnFact DEF Shape, After
  <2>2. req'[r].settled => req'[r].phase \in {"replying", "done"}
    <3>1. ASSUME NEW k \in Keys \cup {NoKey}, NEW p \in Prints, Arrive(r, k, p)
          PROVE  ~req'[r].settled
      BY <3>1, ArriveFact DEF SettledOver, Shape, Marks
    <3>2. ASSUME Join(r) PROVE ~req'[r].settled
      BY <3>2, JoinFact DEF SettledOver, Marks
    <3>3. ASSUME Goes(r) PROVE req'[r].phase \in {"replying", "done"}
      BY <3>3, GoesFact
    <3>4. ASSUME LeadsOn(r) PROVE ~req'[r].settled
      BY <3>4, LeadsOnFact DEF SettledOver, Leading
    <3> QED BY <3>1, <3>2, <3>3, <3>4, StepKinds
  <2> QED BY <1>0, <2>1, <2>2
<1>1. ASSUME NEW s \in Requests PROVE req'[s].settled => req'[s].phase \in {"replying", "done"}
  BY <1>0 DEF SettledOver, Still
<1> QED BY <1>1 DEF SettledOver

\* r leads its flight alone, behind the marker.
LeadsAlone(r) ==
  req[r].phase \in Leading /\ req[r].flight # Nobody =>
    /\ flight[req[r].flight].outcome = Failure(502)
    /\ \A s \in Requests : req[s].phase \in Leading /\ req[s].flight = req[r].flight => s = r

LEMMA OneLeadsIs ==
  /\ OneLeads <=> \A r \in Requests : LeadsAlone(r)
  /\ OneLeads' <=> \A r \in Requests : LeadsAlone(r)'
BY DEF OneLeads, LeadsAlone

\* Who leads after a step led before, unless he begins to.
LEMMA OneLeadsKept ==
  ASSUME Shape, Registered, SettledOver, OneLeads, NEW r \in Requests, Step(r)
  PROVE  OneLeads'
<1>0. \A s \in Requests : req[s].flight \in Requests \cup {Nobody}
  BY DEF Shape, CallTypes, Call
<1>1. ASSUME Still(r), \A g \in Requests : flight'[g] = flight[g] \/
                         (\A s \in Requests : req[s].flight = g => req[s].phase \notin Leading \/ s = r),
             req'[r].phase \notin Leading \/ req'[r].flight = Nobody
      PROVE  OneLeads'
  <2> SUFFICES ASSUME NEW s \in Requests, req'[s].phase \in Leading, req'[s].flight # Nobody
               PROVE  /\ flight'[req'[s].flight].outcome = Failure(502)
                      /\ \A q \in Requests :
                           req'[q].phase \in Leading /\ req'[q].flight = req'[s].flight => q = s
    BY OneLeadsIs DEF LeadsAlone
  <2>1. s # r /\ req'[s] = req[s]
    BY <1>1 DEF Still
  <2>2. LeadsAlone(s) /\ req[s].flight \in Requests
    BY <1>0, <2>1, OneLeadsIs
  <2>3. flight'[req[s].flight] = flight[req[s].flight]
    BY <1>1, <2>1, <2>2
  <2>4. ASSUME NEW q \in Requests, req'[q].phase \in Leading, req'[q].flight = req'[s].flight
        PROVE  q = s
    <3>1. q # r /\ req'[q] = req[q]
      BY <1>1, <2>1, <2>2, <2>4 DEF Still
    <3> QED BY <2>1, <2>2, <2>4, <3>1 DEF LeadsAlone
  <2> QED BY <2>1, <2>2, <2>3, <2>4 DEF LeadsAlone
<1>2. ASSUME NEW k \in Keys \cup {NoKey}, NEW p \in Prints, Arrive(r, k, p)
      PROVE  OneLeads'
  <2>1. Still(r) /\ req'[r].flight = req[r].flight /\ req[r].phase = "new" /\ flight' = flight
    <3>1. After(r, req'[r].phase, req[r].flight, req'[r].outcome) /\ req[r].phase = "new"
      BY <1>2, ArriveFact DEF Shape
    <3>2. flight' = flight
      BY <1>2 DEF Arrive
    <3> QED BY <3>1, <3>2 DEF After
  <2>2. req[r].flight = Nobody
    BY <2>1 DEF Registered, Leading
  <2> QED BY <1>1, <2>1, <2>2
<1>3. ASSUME Goes(r) PROVE OneLeads'
  <2>1. /\ Still(r) /\ req'[r].flight = Nobody /\ req[r].phase \notin {"new", "joining", "done"}
        /\ OwnFlight(r)
    BY <1>3, GoesFact DEF After
  <2>2. CASE req[r].phase \in Leading
    <3>1. ASSUME NEW g \in Requests, flight'[g] # flight[g], NEW s \in Requests,
                 req[s].flight = g, req[s].phase \in Leading
          PROVE  s = r
      <4>1. req[r].flight = g /\ g # Nobody
        BY <2>1, <3>1, Parameters DEF OwnFlight
      <4> QED BY <2>2, <3>1, <4>1, OneLeadsIs DEF LeadsAlone
    <3> QED BY <1>1, <2>1, <3>1
  <2>3. CASE req[r].phase \notin Leading
    <3>1. flight' = flight
      BY <1>3, <2>3, FollowFact, CancelFlight
         DEF Goes, ObserverFailed, Completed, CompletionFailed, BodyDropped, Leading
    <3> QED BY <1>1, <2>1, <3>1
  <2> QED BY <2>2, <2>3
<1>4. ASSUME Join(r) PROVE OneLeads'
  <2>1. /\ req[r].phase = "joining" /\ Still(r) /\ req'[r].phase \in {"replying", "waiting"}
        /\ \/ flight' = Rest \/ flight' = [Rest EXCEPT ![r] = Opened(r)]
    BY <1>4, JoinFact DEF After
  <2>2. /\ Rest \in [Requests -> FlightRec]
        /\ \A f \in Requests : f \notin Dropped => Rest[f] = flight[f]
        /\ \A s \in Requests : req[s].flight \notin Dropped
    BY SweepFact DEF Shape
  <2>3. \A s \in Requests : req[s].flight # r
    <3>1. \A k \in Keys : registry[k] # r
      BY <2>1, RegisteredIs, Parameters DEF KeyOk
    <3> QED BY <3>1, RegisteredIs, Parameters DEF CallOk
  <2>4. ASSUME NEW g \in Requests, NEW s \in Requests, req[s].flight = g
        PROVE  flight'[g] = flight[g]
    BY <2>1, <2>2, <2>3, <2>4
  <2> QED BY <1>1, <2>1, <2>4 DEF Leading
<1>5. ASSUME Lead(r) PROVE OneLeads'
  <2> DEFINE f == req[r].flight
  <2>1. /\ Still(r) /\ req'[r].flight = f /\ f \in Requests
        /\ FlightIs(f, Failure(502), flight[f].retainedAt, flight[f].bytes) /\ ~Locked(f)
    BY <1>5, LeadFact, LeadFlight DEF After, Shape
  <2>2. \A s \in Requests : req[s].phase \in Leading => req[s].flight # f
    BY <2>1 DEF Locked, Holders
  <2>3. f # Nobody
    BY <2>1, Parameters
  <2> SUFFICES ASSUME NEW s \in Requests, req'[s].phase \in Leading, req'[s].flight # Nobody
               PROVE  /\ flight'[req'[s].flight].outcome = Failure(502)
                      /\ \A q \in Requests :
                           req'[q].phase \in Leading /\ req'[q].flight = req'[s].flight => q = s
    BY OneLeadsIs DEF LeadsAlone
  <2> HIDE DEF f
  <2>4. CASE s = r
    <3>1. flight'[req'[s].flight].outcome = Failure(502)
      BY <2>1, <2>4 DEF FlightIs
    <3>2. ASSUME NEW q \in Requests, req'[q].phase \in Leading, req'[q].flight = f, q # r
          PROVE  FALSE
      BY <2>1, <2>2, <3>2 DEF Still
    <3> QED BY <2>1, <2>4, <3>1, <3>2
  <2>5. CASE s # r
    <3>1. req'[s] = req[s]
      BY <2>1, <2>5 DEF Still
    <3>2. LeadsAlone(s) /\ req[s].flight # f /\ req[s].flight \in Requests
      BY <1>0, <2>2, <3>1, OneLeadsIs
    <3>3. flight'[req[s].flight] = flight[req[s].flight]
      BY <2>1, <3>2 DEF FlightIs
    <3>4. ASSUME NEW q \in Requests, req'[q].phase \in Leading, req'[q].flight = req'[s].flight
          PROVE  q = s
      <4>1. q # r
        BY <2>1, <3>1, <3>2, <3>4
      <4>2. req'[q] = req[q]
        BY <2>1, <4>1 DEF Still
      <4> QED BY <3>1, <3>2, <3>4, <4>2 DEF LeadsAlone
    <3> QED BY <3>1, <3>2, <3>3, <3>4 DEF LeadsAlone
  <2> QED BY <2>4, <2>5
<1>6. ASSUME Send(r) \/ PostEnds(r) PROVE OneLeads'
  <2>1. /\ Still(r) /\ req'[r].flight = req[r].flight /\ req[r].phase \in Leading
        /\ flight' = flight
    BY <1>6, SendFact, PostEndsFact
       DEF After, Shape, Send, PostEnds, NotConnected, Rejected, Succeeded, InDoubt, Leading
  <2>2. \A s \in Requests : /\ req'[s].phase \in Leading => req[s].phase \in Leading
                            /\ req'[s].flight = req[s].flight
    BY <2>1 DEF Still
  <2> QED BY <2>1, <2>2, OneLeadsIs DEF LeadsAlone
<1> QED BY <1>2, <1>3, <1>4, <1>5, <1>6, StepKinds DEF LeadsOn
-----------------------------------------------------------------------------
(* What a leader has concluded                                             *)

ConcludedOf(r) ==
  /\ req[r].phase = "completing" => req[r].outcome.status # 0
  /\ req[r].uncertain => req[r].phase = "completing" /\ req[r].outcome.status = 502

LEMMA ConcludedIs ==
  /\ Concluded <=> \A r \in Requests : ConcludedOf(r)
  /\ Concluded' <=> \A r \in Requests : ConcludedOf(r)'
BY DEF Concluded, ConcludedOf

LEMMA ConcludedKept ==
  ASSUME Shape, Registered, SettledOver, Concluded, NEW r \in Requests, Step(r)
  PROVE  Concluded'
<1>0. ConcludedOf(r) /\ (req[r].settled => req[r].phase \in {"replying", "done"})
  BY ConcludedIs DEF SettledOver
<1>1. SUFFICES ASSUME TRUE PROVE Still(r) /\ ConcludedOf(r)'
  <2>1. \A s \in Requests : s # r /\ Still(r) => (ConcludedOf(s) => ConcludedOf(s)')
    BY DEF Still, ConcludedOf
  <2> QED BY <1>1, <2>1, ConcludedIs
<1>2. ASSUME NEW k \in Keys \cup {NoKey}, NEW p \in Prints, Arrive(r, k, p)
      PROVE  Still(r) /\ ConcludedOf(r)'
  <2>1. /\ req[r].phase = "new" /\ After(r, req'[r].phase, req[r].flight, req'[r].outcome)
        /\ req'[r].uncertain = req[r].uncertain
        /\ req'[r].phase = "completing" => req'[r].outcome = Failure(503)
    BY <1>2, ArriveFact DEF Shape, Marks
  <2> QED BY <1>0, <2>1, OutcomeFact DEF ConcludedOf, After
<1>3. ASSUME Join(r) PROVE Still(r) /\ ConcludedOf(r)'
  <2>1. /\ req[r].phase = "joining" /\ After(r, req'[r].phase, req'[r].flight, req'[r].outcome)
        /\ req'[r].uncertain = req[r].uncertain /\ req'[r].phase # "completing"
    BY <1>3, JoinFact DEF Marks
  <2> QED BY <1>0, <2>1 DEF ConcludedOf, After
<1>4. ASSUME Goes(r) PROVE Still(r) /\ ConcludedOf(r)'
  <2>1. Still(r) /\ req'[r].phase \in {"replying", "done"}
    BY <1>4, GoesFact DEF After
  <2>2. ~req'[r].uncertain
    <3>1. CASE Follow(r)
      BY <1>0, <3>1, FollowFact DEF Marks, ConcludedOf
    <3>2. CASE Completed(r)
      BY <3>2, CompletedFact DEF Shape
    <3>3. CASE Ended(r)
      BY <1>0, <3>3, EndsFact DEF ConcludedOf
    <3> QED BY <1>4, <3>1, <3>2, <3>3 DEF Goes, ObserverFailed, CompletionFailed, Cancel, BodyDropped
  <2> QED BY <2>1, <2>2 DEF ConcludedOf
<1>5. ASSUME Lead(r) PROVE Still(r) /\ ConcludedOf(r)'
  <2>1. /\ req[r].phase = "waiting" /\ Still(r) /\ req'[r].uncertain = req[r].uncertain
        /\ req'[r].phase = "completing" =>
             \/ req'[r].outcome = Failure(503)
             \/ /\ Hits(req[r].key, req[r].print) # {}
                /\ req'[r].outcome = CachedReply(req[r].key, req[r].print)
    BY <1>5, LeadFact DEF Shape, Marks, After
  <2>2. req'[r].phase = "completing" => req'[r].outcome.status # 0
    BY <2>1, OutcomeFact, CachedFact DEF Shape
  <2> QED BY <1>0, <2>1, <2>2 DEF ConcludedOf
<1>6. ASSUME Send(r) PROVE Still(r) /\ ConcludedOf(r)'
  <2>1. /\ req[r].phase = "observing" /\ Still(r) /\ req'[r].uncertain = req[r].uncertain
        /\ req'[r].phase = "sending"
    BY <1>6, SendFact DEF Shape, Marks, After
  <2> QED BY <1>0, <2>1 DEF ConcludedOf
<1>7. ASSUME PostEnds(r) PROVE Still(r) /\ ConcludedOf(r)'
  <2>1. /\ req[r].phase = "sending" /\ Still(r) /\ req'[r].phase = "completing"
        /\ \/ /\ req'[r].outcome.status \in {200, 400, 502}
              /\ req'[r].uncertain = req[r].uncertain
           \/ req'[r].outcome.status = 502 /\ req'[r].uncertain = TRUE
    BY <1>7, PostEndsFact DEF Shape, After
  <2> QED BY <1>0, <2>1 DEF ConcludedOf
<1> QED BY <1>2, <1>3, <1>4, <1>5, <1>6, <1>7, StepKinds DEF LeadsOn

-----------------------------------------------------------------------------
(* A key is closed for as long as it has to be                             *)

\* The two halves of Closed: a key, and who may POST.
ClosedKey(k) ==
  effect[k] <= now /\ (Rested(k) \/ (registry[k] # Nobody /\ Shut(registry[k], k)))
MayPost(r) ==
  req[r].phase \in {"observing", "sending"} /\ req[r].key # NoKey => Rested(req[r].key)

LEMMA ClosedIs ==
  /\ Closed <=> (\A k \in Keys : ClosedKey(k)) /\ (\A r \in Requests : MayPost(r))
  /\ Closed' <=> (\A k \in Keys : ClosedKey(k)') /\ (\A r \in Requests : MayPost(r)')
BY DEF Closed, ClosedKey, MayPost

\* Nothing changes for a flight that is neither touched nor held by r.
LEMMA ShutKept ==
  ASSUME NEW r \in Requests, Still(r), NEW f \in Requests, NEW k \in Keys, Shut(f, k),
         flight'[f] = flight[f], effect'[k] = effect[k], ~Keeping(r, f)
  PROVE  Shut(f, k)'
<1>1. CASE Kept(f, k)
  BY <1>1 DEF Shut, Kept
<1>2. CASE \E s \in Requests : Keeping(s, f)
  <2>1. PICK s \in Requests : Keeping(s, f)
    BY <1>2
  <2>2. req'[s] = req[s]
    BY <2>1 DEF Still
  <2>3. Keeping(s, f)'
    BY <2>1, <2>2 DEF Keeping
  <2> QED BY <2>3 DEF Shut
<1> QED BY <1>1, <1>2 DEF Shut

\* A step under which every key and every poster stays as it was, but r's.
LEMMA ClosedBy ==
  ASSUME Shape, Closed, NEW r \in Requests, Still(r), now' = now,
         \A k \in Keys : \/ ClosedKey(k)'
                         \/ /\ registry'[k] = registry[k] /\ effect'[k] = effect[k]
                            /\ registry[k] # Nobody =>
                                 flight'[registry[k]] = flight[registry[k]]
                                 /\ ~Keeping(r, registry[k]),
         \A k \in Keys : effect'[k] = effect[k] \/
           (\A s \in Requests : s # r /\ req[s].key = k => req[s].phase \notin {"observing", "sending"}),
         MayPost(r)', \A s \in Requests : req[s].key \in Keys \cup {NoKey}
  PROVE  Closed'
<1>1. ASSUME NEW k \in Keys PROVE ClosedKey(k)'
  <2>1. ClosedKey(k) /\ registry[k] \in Requests \cup {Nobody}
    BY ClosedIs DEF Shape, FlightTypes
  <2> SUFFICES ASSUME registry'[k] = registry[k], effect'[k] = effect[k],
                      registry[k] # Nobody =>
                        flight'[registry[k]] = flight[registry[k]] /\ ~Keeping(r, registry[k])
               PROVE  ClosedKey(k)'
    OBVIOUS
  <2>2. CASE Rested(k)
    BY <2>1, <2>2 DEF ClosedKey, Rested
  <2>3. CASE registry[k] # Nobody /\ Shut(registry[k], k)
    <3>1. Shut(registry[k], k)'
      <4> DEFINE f == registry[k]
      <4>1. f \in Requests /\ Shut(f, k) /\ flight'[f] = flight[f] /\ ~Keeping(r, f)
        BY <2>1, <2>3
      <4>2. registry'[k] = f
        OBVIOUS
      <4>3. ASSUME NEW g \in Requests, g = f PROVE Shut(g, k)'
        <5> HIDE DEF f
        <5> QED BY <4>1, <4>3, ShutKept
      <4> QED BY <4>1, <4>2, <4>3 DEF Shut, Kept, Keeping
    <3> QED BY <2>1, <2>3, <3>1 DEF ClosedKey
  <2> QED BY <2>1, <2>2, <2>3 DEF ClosedKey
<1>2. ASSUME NEW s \in Requests, s # r PROVE MayPost(s)'
  <2>1. req'[s] = req[s] /\ MayPost(s) /\ req[s].key \in Keys \cup {NoKey}
    BY <1>2, ClosedIs DEF Still
  <2> SUFFICES ASSUME req[s].phase \in {"observing", "sending"}, req[s].key # NoKey
               PROVE  Rested(req[s].key)'
    BY <2>1 DEF MayPost
  <2>2. req[s].key \in Keys /\ Rested(req[s].key)
    BY <2>1 DEF MayPost
  <2>3. effect'[req[s].key] = effect[req[s].key]
    BY <1>2, <2>2
  <2> QED BY <2>1, <2>2, <2>3 DEF Rested
<1> QED BY <1>1, <1>2, ClosedIs
\* One leads under a key.
LEMMA OneLeadsKey ==
  ASSUME Shape, Registered, OneLeads, NEW r \in Requests, req[r].phase \in Leading,
         req[r].key \in Keys
  PROVE  /\ req[r].flight \in Requests /\ registry[req[r].key] = req[r].flight
         /\ \A s \in Requests : s # r /\ req[s].key = req[r].key => req[s].phase \notin Leading
<1>0. req[r].key # NoKey
  BY Parameters
<1>1. req[r].flight # Nobody
  BY <1>0, RegisteredIs DEF CallOk
<1>2. req[r].flight \in Requests /\ registry[req[r].key] = req[r].flight
  BY <1>1, HoldsFact DEF Shape
<1>3. ASSUME NEW s \in Requests, s # r, req[s].key = req[r].key, req[s].phase \in Leading
      PROVE  FALSE
  <2>1. req[s].flight # Nobody
    BY <1>0, <1>3, RegisteredIs DEF CallOk
  <2>2. registry[req[s].key] = req[s].flight
    BY <2>1, RegisteredIs DEF CallOk
  <2>3. req[s].flight = req[r].flight
    BY <1>2, <1>3, <2>2
  <2> QED BY <1>1, <1>3, <2>3, OneLeadsIs DEF LeadsAlone
<1> QED BY <1>2, <1>3

\* The mark that a POST may have run.
LEMMA MayHaveRunFact ==
  ASSUME CacheTypes, NEW r \in Requests, MayHaveRun(r)
  PROVE  /\ effect' \in [Keys -> Int]
         /\ req[r].key = NoKey => effect' = effect
         /\ req[r].key \in Keys => effect'[req[r].key] = now
         /\ \A k \in Keys : k # req[r].key => effect'[k] = effect[k]
BY Parameters DEF MayHaveRun, CacheTypes

\* What a leader does under his key, the others' keys do not see.
LEMMA OthersKeys ==
  ASSUME Shape, Registered, NEW r \in Requests, OwnFlight(r), registry' = registry,
         NEW k \in Keys, k # req[r].key, registry[k] # Nobody
  PROVE  flight'[registry[k]] = flight[registry[k]] /\ ~Keeping(r, registry[k])
<1>1. registry[k] # req[r].flight
  BY HoldsFact DEF Shape
<1>2. registry[k] \in Requests
  BY DEF Shape, FlightTypes
<1> QED BY <1>1, <1>2 DEF OwnFlight, Keeping

LEMMA ClosedKeptGoes ==
  ASSUME Shape, Registered, SettledOver, OneLeads, Concluded, Closed, NEW r \in Requests, Goes(r),
         NEW k, k = req[r].key, NEW f, f = req[r].flight
  PROVE  Closed'
<1>1. /\ Still(r) /\ OwnFlight(r) /\ registry' = registry /\ now' = now /\ MayPost(r)'
  BY GoesFact DEF After, MayPost
<1>2. \A s \in Requests : req[s].key \in Keys \cup {NoKey}
  BY DEF Shape, CallTypes, Call
<1>3. \A j \in Keys : registry[j] \in Requests \cup {Nobody}
  BY DEF Shape, FlightTypes
<1>4. ASSUME effect' = effect, k \in Keys => ClosedKey(k)'
      PROVE  Closed'
  <2>1. \A j \in Keys : \/ ClosedKey(j)'
                        \/ /\ registry'[j] = registry[j] /\ effect'[j] = effect[j]
                           /\ registry[j] # Nobody =>
                                flight'[registry[j]] = flight[registry[j]] /\ ~Keeping(r, registry[j])
    BY <1>1, <1>4, OthersKeys
  <2> QED BY <1>1, <1>2, <1>4, <2>1, ClosedBy
<1>5. ASSUME effect' = effect, flight' = flight, req[r].phase # "completing"
      PROVE  Closed'
  <2>1. \A g : ~Keeping(r, g)
    BY <1>5 DEF Keeping
  <2> QED BY <1>1, <1>2, <1>5, <2>1, ClosedBy
<1>6. CASE Follow(r)
  BY <1>5, <1>6, FollowFact
<1>7. CASE BodyDropped(r)
  BY <1>5, <1>7 DEF BodyDropped
<1>8. CASE ObserverFailed(r)
  <2>1. effect' = effect /\ req[r].phase = "observing"
    BY <1>8 DEF ObserverFailed
  <2>2. ASSUME k \in Keys PROVE ClosedKey(k)'
    <3>1. Rested(k) /\ ClosedKey(k)
      BY <2>1, <2>2, ClosedIs, Parameters DEF MayPost
    <3> QED BY <1>1, <2>1, <3>1 DEF ClosedKey, Rested
  <2> QED BY <1>4, <2>1, <2>2
<1>9. ASSUME req[r].phase \in Leading, k \in Keys,
             flight'[f].outcome # NoOutcome, flight'[f].retainedAt = now,
             effect'[k] <= now
      PROVE  ClosedKey(k)'
  <2>1. f \in Requests /\ registry[k] = f /\ f # Nobody
    BY <1>9, OneLeadsKey, Parameters
  <2>2. now \in Nat /\ Never \notin Nat
    BY DEF Shape, CacheTypes, Never
  <2>3. registry'[k] = f /\ effect'[k] <= now'
    BY <1>1, <1>9, <2>1
  <2>4. (flight[f].outcome # NoOutcome)' /\ (flight[f].retainedAt # Never)'
    BY <1>9, <2>2
  <2>5. Shut(f, k)'
    BY <1>9, <2>2, <2>4 DEF Shut, Kept
  <2> QED BY <2>1, <2>3, <2>5 DEF ClosedKey
<1>10. CASE CompletionFailed(r)
  <2>1. effect' = effect /\ req[r].phase = "completing" /\ req[r].phase \in Leading
    BY <1>10 DEF CompletionFailed, Leading
  <2>2. ASSUME k \in Keys PROVE ClosedKey(k)'
    <3>1. f \in Requests /\ f # Nobody /\ effect[k] <= now
      BY <2>1, <2>2, OneLeadsKey, Parameters, ClosedIs DEF ClosedKey
    <3>2. flight'[f].outcome # NoOutcome /\ flight'[f].retainedAt = now
      BY <1>10, <3>1, CompletionFailedFlight, OutcomeFact DEF FlightIs
    <3> QED BY <1>9, <2>1, <2>2, <3>1, <3>2
  <2> QED BY <1>4, <2>1, <2>2
<1>11. CASE Cancel(r)
  <2>1. CASE req[r].phase = "waiting"
    BY <1>5, <1>11, <2>1, CancelFlight DEF Cancel
  <2>2. CASE req[r].phase # "waiting"
    <3>0. req[r].phase \in Leading
      BY <1>11, <2>2, CancelFlight
    <3>1. CASE k \notin Keys
      <4>1. k = NoKey
        BY <1>2, <3>1
      <4>2. effect' = effect
        BY <1>11, <4>1, MayHaveRunFact DEF Cancel, Shape
      <4> QED BY <1>4, <3>1, <4>2
    <3>2. CASE k \in Keys
      <4>1. /\ f \in Requests /\ f # Nobody /\ registry[k] = f
            /\ \A s \in Requests : s # r /\ req[s].key = k => req[s].phase \notin Leading
        BY <3>0, <3>2, OneLeadsKey, Parameters
      <4>2. flight'[f].outcome = flight[f].outcome /\ flight'[f].retainedAt = now
        BY <1>11, <2>2, <4>1, CancelFlight DEF FlightIs
      <4>3. flight[f].outcome # NoOutcome
        BY <3>0, <4>1, OneLeadsIs, OutcomeFact DEF LeadsAlone
      <4>4. effect[k] <= now /\ now <= now
        BY <3>2, ClosedIs DEF ClosedKey, Shape, CacheTypes
      <4>5. effect'[k] <= now /\ \A j \in Keys : j # k => effect'[j] = effect[j]
        BY <1>11, <3>2, <4>4, MayHaveRunFact DEF Cancel, Shape
      <4>6. ClosedKey(k)'
        BY <1>9, <3>0, <3>2, <4>2, <4>3, <4>5
      <4>7. \A j \in Keys : \/ ClosedKey(j)'
                            \/ /\ registry'[j] = registry[j] /\ effect'[j] = effect[j]
                               /\ registry[j] # Nobody =>
                                    flight'[registry[j]] = flight[registry[j]]
                                    /\ ~Keeping(r, registry[j])
        BY <1>1, <4>5, <4>6, OthersKeys
      <4>8. \A j \in Keys : effect'[j] = effect[j] \/
              (\A s \in Requests : s # r /\ req[s].key = j =>
                 req[s].phase \notin {"observing", "sending"})
        BY <4>1, <4>5 DEF Leading
      <4> QED BY <1>1, <1>2, <4>7, <4>8, ClosedBy
    <3> QED BY <3>1, <3>2
  <2> QED BY <2>1, <2>2
<1>12. CASE Completed(r)
  <2>1. effect' = effect /\ req[r].phase = "completing" /\ req[r].phase \in Leading
    BY <1>12, CompletedFact DEF Completed, Shape, Leading
  <2>2. ASSUME k \in Keys PROVE ClosedKey(k)'
    <3>1. /\ f \in Requests /\ f # Nobody /\ registry[k] = f
          /\ \A s \in Requests : s # r /\ req[s].key = k => req[s].phase \notin Leading
          /\ ClosedKey(k)
      BY <2>1, <2>2, OneLeadsKey, Parameters, ClosedIs
    <3>2. /\ flight'[f].outcome = IF Retainable(r) THEN Replay(r) ELSE Failure(502)
          /\ flight'[f].retainedAt = IF Retained(r) THEN now ELSE flight[f].retainedAt
      BY <1>12, <3>1, CompletedFlight DEF FlightIs
    <3>3. flight'[f].outcome # NoOutcome
      <4>1. Replay(r).status # 0
        BY <2>1, ReplayFact, ConcludedIs DEF ConcludedOf, Shape
      <4> QED BY <3>2, <4>1, OutcomeFact
    <3>4. CASE Retained(r)
      BY <1>9, <2>1, <2>2, <3>1, <3>2, <3>3, <3>4 DEF ClosedKey
    <3>5. CASE ~Retained(r)
      <4>1. \A s \in Requests : ~Keeping(s, f)
        <5> SUFFICES ASSUME NEW s \in Requests, Keeping(s, f) PROVE FALSE
          OBVIOUS
        <5>1. s # r
          BY <3>5 DEF Keeping, Retained
        <5>2. req[s].phase \in Leading /\ req[s].flight = f
          BY DEF Keeping, Leading
        <5>3. req[s].key = k
          <6>1. registry[req[s].key] = f /\ req[s].key \in Keys
            BY <3>1, <5>2, HoldsFact DEF Shape
          <6> QED BY <3>1, <6>1, HoldsFact DEF Shape
        <5> QED BY <3>1, <5>1, <5>2, <5>3
      <4>2. Rested(k) \/ Kept(f, k)
        BY <3>1, <4>1 DEF ClosedKey, Shut
      <4>3. Rested(k)' \/ Kept(f, k)'
        <5>1. Kept(f, k) => flight'[f].retainedAt # Never /\ effect'[k] <= flight'[f].retainedAt
          BY <2>1, <3>2, <3>5 DEF Kept
        <5>2. Rested(k) => now' >= effect'[k] + Window
          BY <1>1, <2>1 DEF Rested
        <5>3. CASE Rested(k)
          BY <5>2, <5>3 DEF Rested
        <5>4. CASE Kept(f, k)
          BY <5>1, <5>4 DEF Kept
        <5> QED BY <4>2, <5>3, <5>4
      <4> QED BY <1>1, <2>1, <3>1, <3>3, <4>3 DEF ClosedKey, Shut
    <3> QED BY <3>4, <3>5
  <2> QED BY <1>4, <2>1, <2>2
<1> QED BY <1>6, <1>7, <1>8, <1>10, <1>11, <1>12 DEF Goes
LEMMA ClosedKeptLeads ==
  ASSUME Shape, Registered, OneLeads, Concluded, Closed, NEW r \in Requests, LeadsOn(r),
         NEW k, k = req[r].key, NEW f, f = req[r].flight
  PROVE  Closed'
<1>1. /\ Still(r) /\ OwnFlight(r) /\ registry' = registry /\ now' = now
      /\ req'[r].key = k /\ req'[r].flight = f
  BY LeadsOnFact DEF After, Asks
<1>2. \A s \in Requests : req[s].key \in Keys \cup {NoKey}
  BY DEF Shape, CallTypes, Call
<1>3. ASSUME effect' = effect, k \in Keys => ClosedKey(k)', MayPost(r)'
      PROVE  Closed'
  <2>1. \A j \in Keys : \/ ClosedKey(j)'
                        \/ /\ registry'[j] = registry[j] /\ effect'[j] = effect[j]
                           /\ registry[j] # Nobody =>
                                flight'[registry[j]] = flight[registry[j]] /\ ~Keeping(r, registry[j])
    BY <1>1, <1>3, OthersKeys
  <2> QED BY <1>1, <1>2, <1>3, <2>1, ClosedBy
<1>4. ASSUME effect' = effect, flight' = flight, req[r].phase # "completing", MayPost(r)'
      PROVE  Closed'
  <2>1. \A g : ~Keeping(r, g)
    BY <1>4 DEF Keeping
  <2> QED BY <1>1, <1>2, <1>4, <2>1, ClosedBy
<1>5. CASE Lead(r)
  <2>1. effect' = effect /\ req[r].phase = "waiting"
    BY <1>5 DEF Lead
  <2>2. k \in Keys /\ f \in Requests /\ registry[k] = f /\ flight[f].outcome = NoOutcome
    <3>1. req[r].flight # Nobody
      BY <2>1, RegisteredIs DEF CallOk
    <3> QED BY <1>5, <3>1, HoldsFact, LeadFlight DEF Shape
  <2>3. Rested(k) /\ effect[k] <= now
    BY <2>2, ClosedIs DEF ClosedKey, Shut
  <2>4. Rested(k)' /\ effect'[k] <= now'
    BY <1>1, <2>1, <2>3 DEF Rested
  <2>5. ClosedKey(k)'
    BY <2>4 DEF ClosedKey
  <2>6. MayPost(r)'
    BY <1>1, <2>4 DEF MayPost
  <2> QED BY <1>3, <2>1, <2>5, <2>6
<1>6. CASE Send(r)
  <2>1. effect' = effect /\ flight' = flight /\ req[r].phase = "observing"
    BY <1>6 DEF Send
  <2>2. k # NoKey => Rested(k)
    BY <2>1, ClosedIs DEF MayPost
  <2>3. k # NoKey => Rested(k)'
    BY <1>1, <2>1, <2>2 DEF Rested
  <2>4. MayPost(r)'
    BY <1>1, <2>3 DEF MayPost
  <2> QED BY <1>4, <2>1, <2>4
<1>7. CASE PostEnds(r)
  <2>1. /\ req[r].phase = "sending" /\ req[r].phase \in Leading /\ req'[r].phase = "completing"
        /\ flight' = flight
    BY <1>7, PostEndsFact DEF Shape, After, Leading, PostEnds, NotConnected, Rejected,
                              Succeeded, InDoubt
  <2>2. MayPost(r)'
    BY <2>1 DEF MayPost
  <2>3. CASE NotConnected(r) \/ Rejected(r)
    <3>1. effect' = effect
      BY <2>3 DEF NotConnected, Rejected
    <3> QED BY <1>4, <2>1, <2>2, <3>1
  <2>4. CASE Succeeded(r) \/ InDoubt(r)
    <3>0. MayHaveRun(r)
      BY <2>4 DEF Succeeded, InDoubt
    <3>1. CASE k \notin Keys
      <4>1. effect' = effect
        BY <1>2, <3>0, <3>1, MayHaveRunFact DEF Shape
      <4> QED BY <1>4, <2>1, <2>2, <4>1
    <3>2. CASE k \in Keys
      <4>1. /\ f \in Requests /\ f # Nobody /\ registry[k] = f
            /\ \A s \in Requests : s # r /\ req[s].key = k => req[s].phase \notin Leading
        BY <2>1, <3>2, OneLeadsKey, Parameters
      <4>2. flight[f].outcome # NoOutcome
        BY <2>1, <4>1, OneLeadsIs, OutcomeFact DEF LeadsAlone
      <4>3. effect'[k] = now /\ \A j \in Keys : j # k => effect'[j] = effect[j]
        BY <3>0, <3>2, MayHaveRunFact DEF Shape
      <4>4. req'[r].outcome.status = 200 \/ req'[r].uncertain
        <5>1. CASE Succeeded(r)
          <6>1. PICK size \in Bodies :
                  req' = [req EXCEPT ![r].phase = "completing", ![r].outcome = Answer(r, 200, size)]
            BY <5>1 DEF Succeeded
          <6>2. req'[r].outcome = Answer(r, 200, size)
            BY <6>1 DEF Shape, CallTypes, Call
          <6>3. size \in Nat
            BY Parameters
          <6> QED BY <6>2, <6>3, OutcomeFact
        <5>2. CASE InDoubt(r)
          <6>1. req' = [req EXCEPT ![r].phase = "completing", ![r].outcome = Failure(502),
                                   ![r].uncertain = TRUE]
            BY <5>2 DEF InDoubt
          <6> QED BY <6>1 DEF Shape, CallTypes, Call
        <5> QED BY <2>4, <5>1, <5>2
      <4>5. Keeping(r, f)'
        BY <1>1, <2>1, <4>4 DEF Keeping
      <4>6. Shut(f, k)'
        BY <2>1, <4>2, <4>5 DEF Shut
      <4>7. ClosedKey(k)'
        <5>1. effect'[k] <= now'
          BY <1>1, <4>3 DEF Shape, CacheTypes
        <5> QED BY <1>1, <4>1, <4>6, <5>1 DEF ClosedKey
      <4>8. \A j \in Keys : \/ ClosedKey(j)'
                            \/ /\ registry'[j] = registry[j] /\ effect'[j] = effect[j]
                               /\ registry[j] # Nobody =>
                                    flight'[registry[j]] = flight[registry[j]]
                                    /\ ~Keeping(r, registry[j])
        BY <1>1, <4>3, <4>7, OthersKeys
      <4>9. \A j \in Keys : effect'[j] = effect[j] \/
              (\A s \in Requests : s # r /\ req[s].key = j =>
                 req[s].phase \notin {"observing", "sending"})
        BY <4>1, <4>3 DEF Leading
      <4> QED BY <1>1, <1>2, <2>2, <4>8, <4>9, ClosedBy
    <3> QED BY <3>1, <3>2
  <2> QED BY <1>7, <2>3, <2>4 DEF PostEnds
<1> QED BY <1>5, <1>6, <1>7 DEF LeadsOn

\* A flight is swept only when its key has rested.
LEMMA SweptRested ==
  ASSUME Shape, Closed, NEW k \in Keys, registry[k] \in Dropped
  PROVE  Rested(k)
<1>1. ~Stays(registry[k]) /\ registry[k] \in Requests
      /\ \A s \in Requests : req[s].flight # registry[k]
  BY SweepFact DEF Shape
<1>2. SUFFICES ASSUME Shut(registry[k], k) PROVE Rested(k)
  BY ClosedIs DEF ClosedKey
<1>3. Kept(registry[k], k)
  BY <1>1, <1>2 DEF Shut, Keeping
<1> DEFINE t == flight[registry[k]].retainedAt
<1>4. t \in Nat /\ effect[k] <= t /\ effect[k] \in Int /\ now \in Nat
  BY <1>1, <1>3 DEF Kept, Shape, FlightTypes, FlightRec, CacheTypes
<1>5. ~(now - t < Window)
  BY <1>1, <1>3 DEF Stays, Kept
<1> HIDE DEF t
<1>6. now >= effect[k] + Window
  BY <1>4, <1>5, Parameters
<1> QED BY <1>6 DEF Rested

LEMMA ClosedKeptJoin ==
  ASSUME Shape, Registered, Closed, NEW r \in Requests, Join(r),
         NEW k, k = req[r].key
  PROVE  Closed'
<1>1. /\ req[r].phase = "joining" /\ Still(r) /\ req'[r].phase \in {"replying", "waiting"}
      /\ effect' = effect /\ now' = now /\ k \in Keys
      /\ \/ registry' = Swept /\ flight' = Rest
         \/ /\ Swept[k] = Nobody
            /\ registry' = [Swept EXCEPT ![k] = r] /\ flight' = [Rest EXCEPT ![r] = Opened(r)]
  BY JoinFact DEF After
<1>2. /\ Rest \in [Requests -> FlightRec] /\ Swept \in [Keys -> Requests \cup {Nobody}]
      /\ \A f \in Requests : f \notin Dropped => Rest[f] = flight[f]
      /\ \A j \in Keys : \/ Swept[j] = registry[j] /\ registry[j] \notin Dropped
                         \/ Swept[j] = Nobody /\ registry[j] \in Dropped
  BY SweepFact DEF Shape
<1>3. \A j \in Keys : registry[j] # r
  BY <1>1, RegisteredIs, Parameters DEF KeyOk
<1>4. ASSUME NEW j \in Keys
      PROVE  \/ ClosedKey(j)'
             \/ /\ registry'[j] = registry[j] /\ effect'[j] = effect[j]
                /\ registry[j] # Nobody =>
                     flight'[registry[j]] = flight[registry[j]] /\ ~Keeping(r, registry[j])
  <2>1. ClosedKey(j) /\ registry[j] \in Requests \cup {Nobody}
    BY ClosedIs DEF Shape, FlightTypes
  <2>2. CASE Rested(j)
    <3>1. Rested(j)' /\ effect'[j] <= now'
      BY <1>1, <2>1, <2>2 DEF Rested, ClosedKey
    <3> QED BY <3>1 DEF ClosedKey
  <2>3. CASE ~Rested(j)
    <3>1. registry[j] # Nobody /\ registry[j] \notin Dropped /\ registry[j] # r
      BY <1>3, <2>1, <2>3, SweptRested DEF ClosedKey
    <3>2. Swept[j] = registry[j] /\ (j # k \/ Swept[k] # Nobody)
      BY <1>2, <3>1
    <3>3. registry'[j] = registry[j]
      BY <1>1, <1>2, <3>2
    <3>4. flight'[registry[j]] = flight[registry[j]]
      BY <1>1, <1>2, <2>1, <3>1
    <3>5. ~Keeping(r, registry[j])
      BY <1>1 DEF Keeping
    <3> QED BY <1>1, <3>3, <3>4, <3>5
  <2> QED BY <2>2, <2>3
<1>5. MayPost(r)'
  BY <1>1 DEF MayPost
<1>6. \A s \in Requests : req[s].key \in Keys \cup {NoKey}
  BY DEF Shape, CallTypes, Call
<1> QED BY <1>1, <1>4, <1>5, <1>6, ClosedBy

LEMMA ClosedKept ==
  ASSUME Shape, Registered, SettledOver, OneLeads, Concluded, Closed, NEW r \in Requests, Step(r)
  PROVE  Closed'
<1>1. ASSUME NEW k \in Keys \cup {NoKey}, NEW p \in Prints, Arrive(r, k, p)
      PROVE  Closed'
  <2>1. /\ req[r].phase = "new" /\ After(r, req'[r].phase, req[r].flight, req'[r].outcome)
        /\ \/ req'[r].phase \notin {"observing", "sending"} \/ req'[r].key = NoKey
    BY <1>1, ArriveFact DEF Shape
  <2>2. UNCHANGED <<registry, flight, effect, now>>
    BY <1>1 DEF Arrive
  <2>3. Still(r) /\ MayPost(r)' /\ \A g : ~Keeping(r, g)
    BY <2>1 DEF After, MayPost, Keeping
  <2>4. \A s \in Requests : req[s].key \in Keys \cup {NoKey}
    BY DEF Shape, CallTypes, Call
  <2> QED BY <2>2, <2>3, <2>4, ClosedBy
<1> QED BY <1>1, StepKinds, ClosedKeptGoes, ClosedKeptLeads, ClosedKeptJoin
-----------------------------------------------------------------------------
(* The cache                                                               *)

InOrder(s) ==
  \A i, j \in DOMAIN s : i < j => s[i].at <= s[j].at /\ s[i].key # s[j].key
FromCache(s, e) ==
  \A i \in DOMAIN s : s[i] = e \/ \E j \in DOMAIN cache : s[i] = cache[j]

\* A sequence without its i-th element.
LEMMA RemovedFact ==
  ASSUME NEW s \in Seq(Entry), NEW i \in DOMAIN s
  PROVE  /\ RemoveAt(s, i) \in Seq(Entry) /\ Len(RemoveAt(s, i)) = Len(s) - 1
         /\ \A j \in 1 .. Len(s) - 1 : RemoveAt(s, i)[j] = IF j < i THEN s[j] ELSE s[j + 1]
<1>1. i \in 1 .. Len(s) /\ Len(s) \in Nat
  OBVIOUS
<1> DEFINE a == SubSeq(s, 1, i - 1)
           b == SubSeq(s, i + 1, Len(s))
<1>2. /\ a \in Seq(Entry) /\ Len(a) = i - 1 /\ \A j \in 1 .. i - 1 : a[j] = s[j]
  BY <1>1
<1>3. /\ b \in Seq(Entry) /\ Len(b) = Len(s) - i /\ \A j \in 1 .. Len(s) - i : b[j] = s[j + i]
  BY <1>1
<1>4. RemoveAt(s, i) = a \o b
  BY DEF RemoveAt
<1> HIDE DEF a, b
<1>5. /\ a \o b \in Seq(Entry) /\ Len(a \o b) = Len(a) + Len(b)
      /\ \A n \in 1 .. Len(a) + Len(b) :
           (a \o b)[n] = IF n <= Len(a) THEN a[n] ELSE b[n - Len(a)]
  <2>1. a \in Seq(Entry) /\ b \in Seq(Entry)
    BY <1>2, <1>3
  <2> QED BY ONLY <2>1
<1>6. Len(a) + Len(b) = Len(s) - 1
  BY <1>1, <1>2, <1>3
<1>7. ASSUME NEW j \in 1 .. Len(s) - 1
      PROVE  (a \o b)[j] = IF j < i THEN s[j] ELSE s[j + 1]
  <2>1. CASE j < i
    <3>1. j \in 1 .. Len(a)
      BY <1>1, <1>2, <2>1
    <3>2. (a \o b)[j] = a[j]
      <4>1. j \in 1 .. Len(a) + Len(b) /\ j <= Len(a)
        BY <1>1, <1>2, <1>6, <2>1, <3>1
      <4> QED BY ONLY <1>5, <4>1
    <3> QED BY <1>2, <2>1, <3>1, <3>2
  <2>2. CASE ~(j < i)
    <3>1. j \in Len(a) + 1 .. Len(a) + Len(b)
      BY <1>1, <1>2, <1>3, <2>2
    <3>2. (a \o b)[j] = b[j - Len(a)]
      <4>1. j \in 1 .. Len(a) + Len(b) /\ ~(j <= Len(a))
        BY <1>1, <1>2, <1>6, <2>2, <3>1
      <4> QED BY ONLY <1>5, <4>1
    <3>3. j - Len(a) \in 1 .. Len(s) - i /\ (j - Len(a)) + i = j + 1
      BY <1>1, <1>2, <2>2
    <3>4. b[j - Len(a)] = s[(j - Len(a)) + i]
      BY <1>3, <3>3
    <3> QED BY <2>2, <3>2, <3>3, <3>4
  <2> QED BY <2>1, <2>2
<1> QED BY <1>4, <1>5, <1>6, <1>7

\* A key leaves its old entry; the order of the others stays.
Without(e) == LET old == {i \in DOMAIN cache : cache[i].key = e.key}
              IN  IF old = {} THEN cache ELSE RemoveAt(cache, CHOOSE i \in old : TRUE)

LEMMA OthersFact ==
  ASSUME CacheTypes, InOrder(cache), NEW e \in Entry, NEW others, others = Without(e)
  PROVE  /\ others \in Seq(Entry) /\ InOrder(others) /\ FromCache(others, e)
         /\ \A i \in DOMAIN others : /\ others[i].key # e.key
                                     /\ \E j \in DOMAIN cache : others[i] = cache[j]
<1> DEFINE old == {i \in DOMAIN cache : cache[i].key = e.key}
           i == CHOOSE i \in old : TRUE
<1>0. cache \in Seq(Entry)
  BY DEF CacheTypes
<1>1. CASE old = {}
  <2>1. others = cache
    BY <1>1 DEF Without
  <2> QED BY <1>0, <1>1, <2>1 DEF FromCache
<1>2. CASE old # {}
  <2>1. others = RemoveAt(cache, i)
    BY <1>2 DEF Without
  <2>2. i \in DOMAIN cache /\ cache[i].key = e.key
    BY <1>2
  <2> HIDE DEF i
  <2>3. /\ others \in Seq(Entry) /\ Len(others) = Len(cache) - 1
        /\ \A j \in 1 .. Len(cache) - 1 : others[j] = IF j < i THEN cache[j] ELSE cache[j + 1]
    BY <1>0, <2>1, <2>2, RemovedFact
  <2>4. DOMAIN others = 1 .. Len(cache) - 1 /\ DOMAIN cache = 1 .. Len(cache) /\ Len(cache) \in Nat
    BY <1>0, <2>3
  <2> DEFINE At(j) == IF j < i THEN j ELSE j + 1
  <2>5. \A j \in DOMAIN others : /\ At(j) \in DOMAIN cache /\ others[j] = cache[At(j)] /\ At(j) # i
    <3>1. i \in 1 .. Len(cache)
      BY <2>2, <2>4
    <3>2. ASSUME NEW j \in DOMAIN others
          PROVE  At(j) \in DOMAIN cache /\ others[j] = cache[At(j)] /\ At(j) # i
      <4>1. j \in 1 .. Len(cache) - 1
        BY <2>4
      <4>2. CASE j < i
        BY <2>3, <2>4, <3>1, <4>1, <4>2
      <4>3. CASE ~(j < i)
        BY <2>3, <2>4, <3>1, <4>1, <4>3
      <4> QED BY <4>2, <4>3
    <3> QED BY <3>2
  <2>6. \A j, k \in DOMAIN others : j < k => At(j) < At(k)
    BY <2>2, <2>4
  <2>7. \A j \in DOMAIN cache : j # i => cache[j].key # e.key
    <3>1. ASSUME NEW j \in DOMAIN cache, j # i PROVE cache[j].key # cache[i].key
      <4>1. j < i \/ i < j
        BY <2>2, <2>4, <3>1
      <4> QED BY <2>2, <4>1 DEF InOrder
    <3> QED BY <2>2, <3>1
  <2> HIDE DEF At
  <2>8. InOrder(others)
    <3>1. ASSUME NEW j \in DOMAIN others, NEW k \in DOMAIN others, j < k
          PROVE  others[j].at <= others[k].at /\ others[j].key # others[k].key
      <4>1. At(j) \in DOMAIN cache /\ At(k) \in DOMAIN cache /\ At(j) < At(k)
        BY <2>5, <2>6, <3>1
      <4>2. cache[At(j)].at <= cache[At(k)].at /\ cache[At(j)].key # cache[At(k)].key
        BY <4>1 DEF InOrder
      <4> QED BY <2>5, <4>2
    <3> QED BY <3>1 DEF InOrder
  <2> QED BY <2>3, <2>5, <2>7, <2>8 DEF FromCache
<1> QED BY <1>1, <1>2

LEMMA RememberedFact ==
  ASSUME CacheTypes, InOrder(cache), NEW e \in Entry, \A i \in DOMAIN cache : cache[i].at <= e.at
  PROVE  /\ Remembered(e) \in Seq(Entry) /\ InOrder(Remembered(e)) /\ Fits(Remembered(e))
         /\ FromCache(Remembered(e), e)
<1> DEFINE others == Without(e)
           s == IF Overhead + e.size <= MaxCacheBytes THEN Append(others, e) ELSE others
<1>1. Remembered(e) = Pruned(s)
  BY DEF Remembered, Without
<1>2. /\ others \in Seq(Entry) /\ InOrder(others) /\ FromCache(others, e)
      /\ \A i \in DOMAIN others : /\ others[i].key # e.key
                                  /\ \E j \in DOMAIN cache : others[i] = cache[j]
  BY OthersFact
<1> HIDE DEF others
<1>3. s \in Seq(Entry) /\ InOrder(s) /\ FromCache(s, e)
  <2>1. CASE s = others
    BY <1>2, <2>1
  <2>2. CASE s = Append(others, e)
    <3> DEFINE n == Len(others)
    <3>1. /\ s \in Seq(Entry) /\ DOMAIN s = 1 .. n + 1 /\ DOMAIN others = 1 .. n /\ n \in Nat
          /\ s[n + 1] = e /\ \A i \in 1 .. n : s[i] = others[i]
      BY <1>2, <2>2
    <3> HIDE DEF s, n
    <3>2. ASSUME NEW i \in DOMAIN s, NEW j \in DOMAIN s, i < j
          PROVE  s[i].at <= s[j].at /\ s[i].key # s[j].key
      <4>1. i \in DOMAIN others /\ s[i] = others[i]
        BY <3>1, <3>2
      <4>2. CASE j = n + 1
        <5>1. others[i].key # e.key /\ others[i].at <= e.at
          BY <1>2, <4>1
        <5> QED BY <3>1, <4>1, <4>2, <5>1
      <4>3. CASE j # n + 1
        <5>1. j \in DOMAIN others /\ s[j] = others[j]
          BY <3>1, <4>3
        <5> QED BY <1>2, <3>2, <4>1, <5>1 DEF InOrder
      <4> QED BY <4>2, <4>3
    <3>3. \A i \in DOMAIN s : s[i] = e \/ \E j \in DOMAIN cache : s[i] = cache[j]
      BY <1>2, <3>1
    <3> QED BY <3>1, <3>2, <3>3 DEF InOrder, FromCache
  <2> QED BY <2>1, <2>2
<1> HIDE DEF s
<1>4. PICK i \in 1 .. Len(s) + 1 : Pruned(s) = SubSeq(s, i, Len(s)) /\ Fits(SubSeq(s, i, Len(s)))
  BY <1>3, PrunedFact
<1> DEFINE p == SubSeq(s, i, Len(s))
<1>5. /\ p \in Seq(Entry) /\ DOMAIN p = 1 .. Len(s) + 1 - i
      /\ \A j \in DOMAIN p : p[j] = s[j + i - 1] /\ j + i - 1 \in DOMAIN s
  BY <1>3
<1>6. Remembered(e) = p /\ Fits(p)
  BY <1>1, <1>4
<1> HIDE DEF p
<1>7. InOrder(p)
  <2>1. ASSUME NEW j \in DOMAIN p, NEW k \in DOMAIN p, j < k
        PROVE  p[j].at <= p[k].at /\ p[j].key # p[k].key
    <3>1. j + i - 1 < k + i - 1
      BY <1>3, <1>5, <2>1
    <3>2. /\ s[j + i - 1].at <= s[k + i - 1].at /\ s[j + i - 1].key # s[k + i - 1].key
      BY <1>3, <1>5, <3>1 DEF InOrder
    <3> QED BY <1>5, <3>2
  <2> QED BY <2>1 DEF InOrder
<1>8. FromCache(p, e)
  BY <1>3, <1>5 DEF FromCache
<1> QED BY <1>5, <1>6, <1>7, <1>8
LEMMA OrderedIs ==
  /\ Ordered <=> InOrder(cache) /\ Fits(cache) /\ \A i \in DOMAIN cache : cache[i].at <= now
  /\ Ordered' <=> (InOrder(cache) /\ Fits(cache) /\ \A i \in DOMAIN cache : cache[i].at <= now)'
BY DEF Ordered, CacheInOrder, InOrder

\* What a step does to the cache.
NewEntry(r) == [key |-> req[r].key, at |-> now, print |-> req[r].print, origin |-> r,
                size |-> req[r].outcome.size]
Caches(r) ==
  /\ Completed(r) /\ req[r].flight # Nobody /\ req'[r].settled
  /\ NewEntry(r) \in Entry /\ cache' = Remembered(NewEntry(r))

LEMMA CacheStep ==
  ASSUME Shape, Registered, NEW r \in Requests, Step(r)
  PROVE  cache' = cache \/ Caches(r)
<1>1. ASSUME Completed(r), cache' # cache PROVE Caches(r)
  <2> DEFINE o == req[r].outcome
             f == req[r].flight
             new == o.status = 200 /\ o.executed /\ ~req[r].uncertain
  <2>1. cache' = IF f # Nobody /\ new
                 THEN Remembered([key |-> req[r].key, at |-> now, print |-> req[r].print,
                                  origin |-> r, size |-> o.size])
                 ELSE cache
    BY <1>1 DEF Completed
  <2>2. f # Nobody /\ new /\ cache' = Remembered(NewEntry(r))
    BY <1>1, <2>1 DEF NewEntry
  <2>3. req'[r].settled
    BY <1>1, <2>2, CompletedFact DEF Shape
  <2>4. NewEntry(r) \in Entry
    <3>1. req[r].key \in Keys
      BY <2>2, HoldsFact DEF Shape
    <3>2. req[r].print \in Prints
      BY <1>1, RegisteredIs DEF CallOk, Completed, Leading
    <3>3. now \in Nat /\ req[r].outcome.size \in Nat
      BY DEF Shape, CacheTypes, CallTypes, Call, Outcomes
    <3> QED BY <3>1, <3>2, <3>3 DEF NewEntry, Entry
  <2> QED BY <1>1, <2>2, <2>3, <2>4 DEF Caches
<1>2. CASE \E k \in Keys \cup {NoKey}, p \in Prints : Arrive(r, k, p)
  BY <1>2 DEF Arrive
<1>3. CASE Join(r)
  BY <1>3 DEF Join
<1>4. CASE LeadsOn(r)
  BY <1>4, LeadsOnFact
<1>5. CASE Goes(r)
  BY <1>1, <1>5 DEF Goes, Follow, ObserverFailed, CompletionFailed, Cancel, BodyDropped
<1> QED BY <1>2, <1>3, <1>4, <1>5, StepKinds

LEMMA NowStays ==
  ASSUME NEW r \in Requests, Step(r)
  PROVE  now' = now
BY DEF Step, Arrive, Join, Follow, Lead, Send, ObserverFailed, NotConnected, Rejected, Succeeded,
       InDoubt, Completed, CompletionFailed, BodyDropped, Cancel

LEMMA OrderedKept ==
  ASSUME Shape, Registered, Ordered, NEW r \in Requests, Step(r)
  PROVE  Ordered' /\ cache' \in Seq(Entry)
<1>0. now' = now /\ cache \in Seq(Entry) /\ now \in Nat /\ CacheTypes
  BY NowStays DEF Shape, CacheTypes
<1>1. InOrder(cache) /\ Fits(cache) /\ \A i \in DOMAIN cache : cache[i].at <= now
  BY OrderedIs
<1>2. CASE cache' = cache
  <2>1. InOrder(cache)' /\ Fits(cache)' /\ (\A i \in DOMAIN cache : cache[i].at <= now)'
    BY <1>0, <1>1, <1>2 DEF InOrder, Fits, CacheBytes
  <2> QED BY <1>0, <1>2, <2>1, OrderedIs
<1>3. CASE Caches(r)
  <2> DEFINE e == NewEntry(r)
             c == Remembered(e)
  <2>1. e \in Entry /\ e.at = now /\ cache' = c
    BY <1>3 DEF Caches, NewEntry
  <2> HIDE DEF e
  <2>2. c \in Seq(Entry) /\ InOrder(c) /\ Fits(c) /\ FromCache(c, e)
    BY <1>0, <1>1, <2>1, RememberedFact
  <2> HIDE DEF c
  <2>3. \A i \in DOMAIN c : c[i].at <= now
    BY <1>0, <1>1, <2>1, <2>2 DEF FromCache
  <2>4. InOrder(cache)' /\ Fits(cache)' /\ (\A i \in DOMAIN cache : cache[i].at <= now)'
    <3>1. InOrder(cache)'
      BY <2>1, <2>2 DEF InOrder
    <3>2. Fits(cache)'
      BY <2>1, <2>2 DEF Fits, CacheBytes
    <3>3. (\A i \in DOMAIN cache : cache[i].at <= now)'
      BY <1>0, <2>1, <2>3
    <3> QED BY <3>1, <3>2, <3>3
  <2> QED BY <2>1, <2>2, <2>4, OrderedIs
<1> QED BY <1>2, <1>3, CacheStep

LEMMA TypesKept ==
  ASSUME Shape, Registered, SettledOver, Ordered, NEW r \in Requests, Step(r)
  PROVE  CallTypes' /\ FlightTypes' /\ CacheTypes'
<1>1. CacheTypes'
  <2>1. cache' \in Seq(Entry) /\ now' \in Nat
    BY OrderedKept, NowStays DEF Shape, CacheTypes
  <2>2. effect' \in [Keys -> Int]
    <3>1. effect' = effect \/ MayHaveRun(r)
      BY DEF Step, Arrive, Join, Follow, Lead, Send, ObserverFailed, NotConnected, Rejected,
             Succeeded, InDoubt, Completed, CompletionFailed, BodyDropped, Cancel
    <3> QED BY <3>1, MayHaveRunFact DEF Shape, CacheTypes
  <2> QED BY <2>1, <2>2 DEF CacheTypes
<1>2. CallTypes'
  <2>0. permits \in Nat
    BY DEF Shape, CallTypes
  <2>1. req' \in [Requests -> Call]
    BY StepKinds, ArriveFact, JoinFact, GoesFact, LeadsOnFact DEF Shape, After
  <2>2. permits' \in Nat
    <3>1. ASSUME NEW k \in Keys \cup {NoKey}, NEW p \in Prints, Arrive(r, k, p)
          PROVE  permits' \in Nat
      <4>1. permits' = permits \/ (permits' = permits - 1 /\ permits # 0)
        BY <3>1, ArriveFact DEF Shape
      <4> QED BY <2>0, <4>1
    <3>2. ASSUME Goes(r) PROVE permits' \in Nat
      <4>1. permits' = permits \/ permits' = permits + 1
        BY <3>2 DEF Goes, Follow, Completed, ObserverFailed, CompletionFailed, BodyDropped,
                    Cancel, Ended
      <4> QED BY <2>0, <4>1
    <3>3. ASSUME Join(r) \/ LeadsOn(r) PROVE permits' \in Nat
      BY <2>0, <3>3, LeadsOnFact DEF Join
    <3> QED BY <3>1, <3>2, <3>3, StepKinds
  <2> QED BY <2>1, <2>2 DEF CallTypes
<1>3. FlightTypes'
  <2>1. ASSUME NEW k \in Keys \cup {NoKey}, NEW p \in Prints, Arrive(r, k, p)
        PROVE  FlightTypes'
    BY <2>1 DEF Arrive, FlightTypes, Shape
  <2>2. CASE Goes(r) \/ LeadsOn(r)
    BY <2>2, GoesFact, LeadsOnFact DEF OwnFlight, FlightTypes, Shape
  <2>3. CASE Join(r)
    <3>1. /\ Rest \in [Requests -> FlightRec] /\ Swept \in [Keys -> Requests \cup {Nobody}]
          /\ Opened(r) \in FlightRec
      BY SweepFact, NoFlightFact DEF Shape
    <3>2. \/ registry' = Swept /\ flight' = Rest
          \/ /\ registry' = [Swept EXCEPT ![req[r].key] = r]
             /\ flight' = [Rest EXCEPT ![r] = Opened(r)]
      BY <2>3, JoinFact
    <3> HIDE DEF Rest, Swept, Opened
    <3> QED BY <3>1, <3>2 DEF FlightTypes
  <2> QED BY <2>1, <2>2, <2>3, StepKinds
<1> QED BY <1>1, <1>2, <1>3
-----------------------------------------------------------------------------
(* Nothing is passed on that is not settled                                *)

LEMMA GoodKept ==
  ASSUME Shape, Registered, SettledOver, NEW r \in Requests, Step(r),
         NEW o, NEW k, NEW p, Good(o, k, p)
  PROVE  Good(o, k, p)'
<1>1. o \in Requests /\ req[o].settled /\ req[o].key = k /\ req[o].print = p
      /\ req[o].phase \in {"replying", "done"}
  BY DEF Good, SettledOver
<1>2. CASE o # r
  <2>1. Still(r)
    BY StepKinds, ArriveFact, JoinFact, GoesFact, LeadsOnFact DEF Shape, After
  <2>2. req'[o] = req[o]
    BY <1>1, <1>2, <2>1 DEF Still
  <2> QED BY <1>1, <2>2 DEF Good
<1>3. CASE o = r
  <2>1. BodyDropped(r)
    <3>1. Goes(r)
      BY <1>1, <1>3, StepKinds, ArriveFact, JoinFact, LeadsOnFact DEF Shape, Leading
    <3>2. req[r].phase = "replying"
      BY <1>1, <1>3, <3>1, GoesFact
    <3> QED BY <3>1, <3>2 DEF Goes, Follow, ObserverFailed, Completed, CompletionFailed, Cancel
  <2>2. Asks(r) /\ req'[r].settled = req[r].settled
    BY <1>1, <1>3, <2>1, EndsFact DEF BodyDropped
  <2> QED BY <1>1, <1>3, <2>2 DEF Good, Asks
<1> QED BY <1>2, <1>3

HonestReply(r) ==
  req[r].phase = "replying" /\ req[r].key # NoKey /\ req[r].outcome.status = 200 =>
    Good(req[r].outcome.origin, req[r].key, req[r].print)
HonestLeader(r) ==
  req[r].phase = "completing" /\ req[r].key # NoKey /\ req[r].outcome.status = 200 =>
    \/ Good(req[r].outcome.origin, req[r].key, req[r].print)
    \/ req[r].outcome.origin = r /\ req[r].outcome.executed
HonestFlight(f) ==
  flight[f].outcome.status = 200 => Good(flight[f].outcome.origin, flight[f].key, flight[f].print)
HonestEntry(e) == Good(e.origin, e.key, e.print)

LEMMA HonestIs ==
  /\ Honest <=> /\ SettledOver /\ \A r \in Requests : HonestReply(r) /\ HonestLeader(r)
                /\ \A f \in Flying : HonestFlight(f)
                /\ \A i \in DOMAIN cache : HonestEntry(cache[i])
  /\ Honest' <=> /\ SettledOver' /\ \A r \in Requests : HonestReply(r)' /\ HonestLeader(r)'
                 /\ (\A f \in Flying : HonestFlight(f))'
                 /\ (\A i \in DOMAIN cache : HonestEntry(cache[i]))'
BY DEF Honest, SettledOver, HonestReply, HonestLeader, HonestFlight, HonestEntry

\* What the cache answers was settled under that key, with that payload.
LEMMA CachedGood ==
  ASSUME Shape, Honest, NEW k, NEW p, Hits(k, p) # {}, CachedReply(k, p).status = 200
  PROVE  Good(CachedReply(k, p).origin, k, p)
<1>1. PICK i \in DOMAIN cache : /\ cache[i].key = k /\ cache[i].print = p
                                /\ CachedReply(k, p).origin = cache[i].origin
  BY CachedFact DEF Shape
<1>2. Good(cache[i].origin, cache[i].key, cache[i].print)
  BY HonestIs DEF HonestEntry
<1> QED BY <1>1, <1>2

\* The requests that r's step does not concern.
LEMMA HonestOthers ==
  ASSUME Shape, Registered, Honest, NEW r \in Requests, Step(r), NEW s \in Requests, s # r
  PROVE  HonestReply(s)' /\ HonestLeader(s)'
<1>1. Still(r)
  BY StepKinds, ArriveFact, JoinFact, GoesFact, LeadsOnFact, HonestIs DEF Shape, After
<1>2. req'[s] = req[s] /\ HonestReply(s) /\ HonestLeader(s) /\ SettledOver
  BY <1>1, HonestIs DEF Still
<1>3. \A o, k, p : Good(o, k, p) => Good(o, k, p)'
  BY <1>2, GoodKept
<1>4. ASSUME NEW o, NEW k, NEW p, o = req[s].outcome.origin, k = req[s].key, p = req[s].print
      PROVE  HonestReply(s)' /\ HonestLeader(s)'
  <2>1. Good(o, k, p) => Good(o, k, p)'
    BY <1>3
  <2>2. o = req'[s].outcome.origin /\ k = req'[s].key /\ p = req'[s].print
    BY <1>2, <1>4
  <2>3. HonestReply(s)'
    BY <1>2, <1>4, <2>1, <2>2 DEF HonestReply, Good
  <2>4. HonestLeader(s)'
    BY <1>2, <1>4, <2>1, <2>2 DEF HonestLeader, Good
  <2> QED BY <2>3, <2>4
<1> QED BY <1>4

\* r itself.
LEMMA HonestOwn ==
  ASSUME Shape, Registered, Concluded, Honest, NEW r \in Requests, Step(r)
  PROVE  HonestReply(r)' /\ HonestLeader(r)'
<1>0. SettledOver
  BY HonestIs
<1>g. ASSUME NEW o, NEW k, NEW p, Good(o, k, p) PROVE Good(o, k, p)'
  BY <1>0, <1>g, GoodKept
\* It is enough that the new outcome is no success, or a good one before.
<1>1. ASSUME NEW k, NEW p, req'[r].key = k, req'[r].print = p, NEW o, o = req'[r].outcome.origin,
             req'[r].outcome.status = 200 => Good(o, k, p)
      PROVE  HonestReply(r)' /\ HonestLeader(r)'
  <2>1. req'[r].outcome.status = 200 => Good(o, k, p)'
    BY <1>1, <1>g
  <2>2. o = (req[r].outcome.origin)' /\ k = (req[r].key)' /\ p = (req[r].print)'
    BY <1>1
  <2> QED BY <2>1, <2>2 DEF HonestReply, HonestLeader, Good
<1>2. ASSUME NEW k \in Keys \cup {NoKey}, NEW p \in Prints, Arrive(r, k, p)
      PROVE  HonestReply(r)' /\ HonestLeader(r)'
  <2>1. CASE req'[r].phase \notin {"replying", "completing"}
    BY <2>1 DEF HonestReply, HonestLeader
  <2>2. CASE req'[r].phase = "replying"
    <3>1. /\ req'[r].key = k /\ req'[r].print = p /\ Hits(k, p) # {}
          /\ req'[r].outcome = CachedReply(k, p)
      BY <1>2, <2>2, ArriveFact DEF Shape
    <3>2. req'[r].outcome.status = 200 => Good(req'[r].outcome.origin, k, p)
      BY <3>1, CachedGood
    <3> QED BY <1>1, <3>1, <3>2
  <2>3. CASE req'[r].phase = "completing"
    <3>1. req'[r].key = k /\ k = NoKey
      BY <1>2, <2>3, ArriveFact DEF Shape
    <3> QED BY <2>3, <3>1 DEF HonestReply, HonestLeader
  <2> QED BY <2>1, <2>2, <2>3
<1>3. ASSUME NEW k, NEW p, req[r].key = k, req[r].print = p, Asks(r),
             \/ req'[r].outcome.status # 200
             \/ Hits(k, p) # {} /\ req'[r].outcome = CachedReply(k, p)
      PROVE  HonestReply(r)' /\ HonestLeader(r)'
  <2>1. req'[r].key = k /\ req'[r].print = p
    BY <1>3 DEF Asks
  <2>2. req'[r].outcome.status = 200 => Good(req'[r].outcome.origin, k, p)
    BY <1>3, CachedGood
  <2> QED BY <1>1, <2>1, <2>2
<1>4. CASE Join(r)
  <2>1. CASE req'[r].phase \notin {"replying", "completing"}
    BY <2>1 DEF HonestReply, HonestLeader
  <2>2. CASE req'[r].phase \in {"replying", "completing"}
    <3>1. /\ Asks(r)
          /\ \/ req'[r].outcome = Failure(409) \/ req'[r].outcome = Failure(503)
             \/ /\ Hits(req[r].key, req[r].print) # {}
                /\ req'[r].outcome = CachedReply(req[r].key, req[r].print)
      BY <1>4, <2>2, JoinFact
    <3>2. Failure(409).status # 200 /\ Failure(503).status # 200
      BY OutcomeFact
    <3> QED BY <1>3, <3>1, <3>2
  <2> QED BY <2>1, <2>2
<1>5. CASE Lead(r)
  <2>1. CASE req'[r].phase \notin {"replying", "completing"}
    BY <2>1 DEF HonestReply, HonestLeader
  <2>2. CASE req'[r].phase \in {"replying", "completing"}
    <3>1. /\ Asks(r)
          /\ \/ req'[r].outcome = Failure(503)
             \/ /\ Hits(req[r].key, req[r].print) # {}
                /\ req'[r].outcome = CachedReply(req[r].key, req[r].print)
      BY <1>5, <2>2, LeadFact DEF Shape
    <3>2. Failure(503).status # 200
      BY OutcomeFact
    <3> QED BY <1>3, <3>1, <3>2
  <2> QED BY <2>1, <2>2
<1>6. CASE Send(r)
  <2>1. req'[r].phase = "sending"
    BY <1>6, SendFact DEF Shape, After
  <2> QED BY <2>1 DEF HonestReply, HonestLeader
<1>7. CASE PostEnds(r)
  <2>1. /\ req'[r].phase = "completing"
        /\ \/ req'[r].outcome.status # 200
           \/ req'[r].outcome.origin = r /\ req'[r].outcome.executed
    <3>1. CallTypes
      BY DEF Shape
    <3>2. After(r, "completing", req[r].flight, req'[r].outcome)
      BY <1>7, <3>1, PostEndsFact
    <3>3. \/ req'[r].outcome.status \in {400, 502} \/ req'[r].outcome.status = 502
          \/ req'[r].outcome.origin = r /\ req'[r].outcome.executed
      BY <1>7, <3>1, PostEndsFact
    <3> QED BY <3>2, <3>3 DEF After
  <2> QED BY <2>1 DEF HonestReply, HonestLeader
<1>8. CASE Follow(r)
  <2> DEFINE f == req[r].flight
  <2>1. /\ req[r].phase = "waiting" /\ f \in Requests /\ Asks(r)
        /\ \/ /\ Hits(req[r].key, req[r].print) # {}
              /\ req'[r].outcome = CachedReply(req[r].key, req[r].print)
           \/ /\ req'[r].outcome.status = flight[f].outcome.status
              /\ req'[r].outcome.origin = flight[f].outcome.origin
    BY <1>8, FollowFact
  <2>2. f # Nobody /\ f \in Flying /\ flight[f].key = req[r].key /\ flight[f].print = req[r].print
    BY <2>1, Parameters, HoldsFact, HeldFlying DEF Shape
  <2>3. HonestFlight(f)
    BY <2>2, HonestIs
  <2>4. CASE /\ req'[r].outcome.status = flight[f].outcome.status
             /\ req'[r].outcome.origin = flight[f].outcome.origin
    <3>1. req'[r].outcome.status = 200 =>
            Good(req'[r].outcome.origin, req[r].key, req[r].print)
      BY <2>2, <2>3, <2>4 DEF HonestFlight
    <3>2. req'[r].key = req[r].key /\ req'[r].print = req[r].print
      BY <2>1 DEF Asks
    <3> QED BY <1>1, <3>1, <3>2
  <2> QED BY <1>3, <2>1, <2>4
<1>9. CASE Completed(r)
  <2>1. /\ req[r].phase = "completing" /\ req'[r].phase = "replying" /\ Asks(r)
        /\ req'[r].outcome = req[r].outcome
        /\ req'[r].settled = (req[r].flight # Nobody /\ req[r].outcome.status = 200
                              /\ req[r].outcome.executed /\ ~req[r].uncertain)
    BY <1>9, CompletedFact DEF Shape, After
  <2>2. HonestLeader(r) /\ (req[r].uncertain => req[r].outcome.status = 502)
    BY HonestIs, ConcludedIs DEF ConcludedOf
  <2>3. CASE req[r].outcome.status # 200
    BY <1>3, <2>1, <2>3
  <2>4. CASE req[r].key = NoKey
    BY <2>1, <2>4 DEF Asks, HonestReply, HonestLeader
  <2>5. CASE Good(req[r].outcome.origin, req[r].key, req[r].print)
    <3>1. req'[r].key = req[r].key /\ req'[r].print = req[r].print
      BY <2>1 DEF Asks
    <3> QED BY <1>1, <2>1, <2>5, <3>1
  <2>6. CASE /\ req[r].outcome.status = 200 /\ req[r].key # NoKey
             /\ req[r].outcome.origin = r /\ req[r].outcome.executed
    <3>1. req[r].flight # Nobody
      BY <2>1, <2>6, RegisteredIs DEF CallOk, Leading
    <3>2. req'[r].settled /\ req'[r].outcome.origin = r
      <4>1. /\ req[r].flight # Nobody /\ req[r].outcome.status = 200
            /\ req[r].outcome.executed /\ ~req[r].uncertain
        BY <2>2, <2>6, <3>1
      <4>2. req'[r].settled
        BY ONLY <2>1, <4>1, Zenon
      <4> QED BY <2>1, <2>6, <4>2
    <3> QED BY <2>1, <3>2 DEF HonestReply, HonestLeader, Good
  <2> QED BY <2>1, <2>2, <2>3, <2>4, <2>5, <2>6 DEF HonestLeader
<1>10. CASE Ended(r)
  <2>1. req'[r].phase = "done"
    BY <1>0, <1>10, EndsFact DEF After
  <2> QED BY <2>1 DEF HonestReply, HonestLeader
<1> QED BY <1>2, <1>4, <1>5, <1>6, <1>7, <1>8, <1>9, <1>10, StepKinds
        DEF LeadsOn, Goes, ObserverFailed, CompletionFailed, Cancel, BodyDropped
\* The flights after the sweep and the join.
LEMMA FlyingJoin ==
  ASSUME Shape, Registered, NEW r \in Requests, Join(r)
  PROVE  /\ r \notin Flying /\ Flying \subseteq Requests /\ Dropped \subseteq Flying
         /\ \/ registry' = Swept /\ flight' = Rest /\ Flying' = Flying \ Dropped
               /\ flightBytes' = Used
            \/ /\ Swept[req[r].key] = Nobody /\ ~FullNow /\ Room(Overhead + Marker, Used)
               /\ registry' = [Swept EXCEPT ![req[r].key] = r]
               /\ Flying' = (Flying \ Dropped) \cup {r}
               /\ flight'[r] = Opened(r) /\ flightBytes' = Used + Overhead + Marker
         /\ \A f \in Flying \ Dropped : flight'[f] = flight[f]
<1> DEFINE k == req[r].key
<1>1. /\ req[r].phase = "joining" /\ k \in Keys
      /\ \/ registry' = Swept /\ flight' = Rest /\ flightBytes' = Used
         \/ /\ Swept[k] = Nobody /\ ~FullNow /\ Room(Overhead + Marker, Used)
            /\ registry' = [Swept EXCEPT ![k] = r] /\ flight' = [Rest EXCEPT ![r] = Opened(r)]
            /\ flightBytes' = Used + Overhead + Marker
  BY JoinFact
<1>2. /\ Rest \in [Requests -> FlightRec] /\ Swept \in [Keys -> Requests \cup {Nobody}]
      /\ Dropped \subseteq Flying /\ Flying \subseteq Requests
      /\ \A f \in Requests : f \notin Dropped => Rest[f] = flight[f]
      /\ \A j \in Keys : \/ Swept[j] = registry[j] /\ registry[j] \notin Dropped
                         \/ Swept[j] = Nobody /\ registry[j] \in Dropped
  BY SweepFact DEF Shape
<1>3. r \notin Flying
  <2>1. \A j \in Keys : registry[j] # r
    BY <1>1, RegisteredIs, Parameters DEF KeyOk
  <2> QED BY <2>1 DEF Flying
<1>4. {Swept[j] : j \in Keys} \ {Nobody} = Flying \ Dropped
  <2>1. ASSUME NEW j \in Keys, Swept[j] # Nobody PROVE Swept[j] \in Flying \ Dropped
    BY <1>2, <2>1 DEF Flying
  <2>2. ASSUME NEW f \in Flying \ Dropped PROVE f # Nobody /\ \E j \in Keys : f = Swept[j]
    <3>1. PICK j \in Keys : f = registry[j] /\ f # Nobody
      BY DEF Flying
    <3> QED BY <1>2, <3>1
  <2> QED BY <2>1, <2>2
<1>5. CASE registry' = Swept /\ flight' = Rest /\ flightBytes' = Used
  <2>1. Flying' = Flying \ Dropped
    BY <1>4, <1>5 DEF Flying
  <2> QED BY <1>2, <1>3, <1>5, <2>1
<1>6. CASE /\ Swept[k] = Nobody /\ ~FullNow /\ Room(Overhead + Marker, Used)
           /\ registry' = [Swept EXCEPT ![k] = r] /\ flight' = [Rest EXCEPT ![r] = Opened(r)]
           /\ flightBytes' = Used + Overhead + Marker
  <2>1. \A j \in Keys : registry'[j] = IF j = k THEN r ELSE Swept[j]
    BY <1>2, <1>6
  <2>2. Flying' = {registry'[j] : j \in Keys} \ {Nobody}
    BY DEF Flying
  <2>3. {registry'[j] : j \in Keys} \ {Nobody} = ({Swept[j] : j \in Keys} \ {Nobody}) \cup {r}
    <3>0. r # Nobody
      BY Parameters
    <3>1. ASSUME NEW x \in {registry'[j] : j \in Keys} \ {Nobody}
          PROVE  x \in ({Swept[j] : j \in Keys} \ {Nobody}) \cup {r}
      BY <2>1
    <3>2. ASSUME NEW x \in {Swept[j] : j \in Keys} \ {Nobody}
          PROVE  x \in {registry'[j] : j \in Keys} \ {Nobody}
      <4>1. PICK j \in Keys : x = Swept[j] /\ x # Nobody
        OBVIOUS
      <4>2. j # k
        BY <1>6, <4>1
      <4> QED BY <2>1, <4>1, <4>2
    <3>3. r \in {registry'[j] : j \in Keys} \ {Nobody}
      BY <1>1, <2>1, <3>0
    <3> QED BY <3>1, <3>2, <3>3
  <2>4. Flying' = (Flying \ Dropped) \cup {r}
    BY <1>4, <2>2, <2>3
  <2>5. flight'[r] = Opened(r) /\ \A f \in Requests : f # r => flight'[f] = Rest[f]
    BY <1>2, <1>6
  <2> QED BY <1>2, <1>3, <1>6, <2>4, <2>5
<1> QED BY <1>1, <1>5, <1>6

LEMMA HonestFlightsKept ==
  ASSUME Shape, Registered, OneLeads, Concluded, Honest, NEW r \in Requests, Step(r)
  PROVE  (\A f \in Flying : HonestFlight(f))'
<1>0. SettledOver
  BY HonestIs
<1>1. SUFFICES ASSUME NEW f \in Flying', flight'[f].outcome.status = 200
               PROVE  HonestFlight(f)'
  BY DEF HonestFlight, Good
<1>2. ASSUME f \in Flying, flight'[f].outcome = flight[f].outcome,
             flight'[f].key = flight[f].key, flight'[f].print = flight[f].print
      PROVE  HonestFlight(f)'
  <2>1. ASSUME NEW o, NEW k, NEW p, o = flight[f].outcome.origin, k = flight[f].key,
               p = flight[f].print
        PROVE  HonestFlight(f)'
    <3>1. Good(o, k, p)
      BY <1>1, <1>2, <2>1, HonestIs DEF HonestFlight
    <3>2. Good(o, k, p)'
      BY <1>0, <3>1, GoodKept
    <3> QED BY <1>2, <2>1, <3>2 DEF HonestFlight, Good
  <2> QED BY <2>1
<1>3. ASSUME NEW k \in Keys \cup {NoKey}, NEW p \in Prints, Arrive(r, k, p)
      PROVE  f \in Flying /\ flight' = flight
  <2>1. UNCHANGED <<registry, flight>>
    BY <1>3 DEF Arrive
  <2> QED BY <1>1, <2>1 DEF Flying
<1>4. ASSUME Join(r)
      PROVE  /\ f \in Flying /\ flight'[f].outcome = flight[f].outcome
             /\ flight'[f].key = flight[f].key /\ flight'[f].print = flight[f].print
  <2>1. CASE f \in Flying \ Dropped
    BY <1>4, <2>1, FlyingJoin
  <2>2. CASE f = r /\ flight'[r] = Opened(r)
    <3>1. flight'[f].outcome.status = 0
      BY <2>2, NoFlightFact, OutcomeFact DEF Shape
    <3> QED BY <1>1, <3>1
  <2> QED BY <1>1, <1>4, <2>1, <2>2, FlyingJoin
<1>5. ASSUME Goes(r) \/ LeadsOn(r) PROVE f \in Flying /\ f \in Requests /\ OwnFlight(r)
  <2>1. registry' = registry /\ OwnFlight(r)
    BY <1>0, <1>5, GoesFact, LeadsOnFact
  <2>2. f \in Flying
    BY <1>1, <2>1 DEF Flying
  <2> QED BY <2>1, <2>2, SweepFact DEF Shape
<1>6. ASSUME Goes(r) \/ LeadsOn(r), ~Completed(r) PROVE flight'[f].outcome = flight[f].outcome
  <2>1. CASE flight'[f] = flight[f]
    BY <2>1
  <2>2. CASE flight'[f] # flight[f]
    <3>1. f = req[r].flight /\ f \in Requests
      BY <1>5, <1>6, <2>2 DEF OwnFlight
    <3>2. NoOutcome.status # 200 /\ Failure(502).status # 200 /\ Failure(503).status # 200
      BY OutcomeFact
    <3>3. CASE Lead(r)
      BY <1>1, <3>1, <3>2, <3>3, LeadFlight DEF FlightIs
    <3>4. CASE ObserverFailed(r)
      BY <1>1, <2>2, <3>1, <3>2, <3>4, ObserverFailedFlight DEF FlightIs
    <3>5. CASE CompletionFailed(r)
      BY <1>1, <2>2, <3>1, <3>2, <3>5, CompletionFailedFlight DEF FlightIs
    <3>6. CASE Cancel(r)
      BY <2>2, <3>1, <3>6, CancelFlight DEF FlightIs
    <3>7. CASE Follow(r) \/ BodyDropped(r) \/ Send(r) \/ PostEnds(r)
      BY <2>2, <3>7 DEF Follow, BodyDropped, Send, PostEnds, NotConnected, Rejected,
                        Succeeded, InDoubt
    <3> QED BY <1>6, <3>3, <3>4, <3>5, <3>6, <3>7 DEF Goes, LeadsOn
  <2> QED BY <2>1, <2>2
<1>7. ASSUME Completed(r) PROVE HonestFlight(f)'
  <2>0. f \in Flying /\ f \in Requests /\ OwnFlight(r)
    BY <1>5, <1>7 DEF Goes
  <2>1. CASE flight'[f] = flight[f]
    BY <1>2, <2>0, <2>1
  <2>2. CASE flight'[f] # flight[f]
    <3>1. f = req[r].flight
      BY <2>0, <2>2 DEF OwnFlight
    <3>2. flight'[f].outcome = IF Retainable(r) THEN Replay(r) ELSE Failure(502)
      BY <1>7, <2>2, <3>1, CompletedFlight DEF FlightIs
    <3>3. Failure(502).status # 200
      BY OutcomeFact
    <3>4. flight'[f].outcome.status = req[r].outcome.status
          /\ flight'[f].outcome.origin = req[r].outcome.origin
      BY <1>1, <3>2, <3>3, ReplayFact DEF Shape
    <3>5. /\ req'[r].phase = "replying" /\ Asks(r) /\ req'[r].outcome = req[r].outcome
      BY <1>7, CompletedFact DEF Shape, After
    <3>6. req[r].key \in Keys /\ flight[f].key = req[r].key /\ flight[f].print = req[r].print
      BY <2>0, <3>1, HoldsFact, Parameters DEF Shape
    <3>7. HonestReply(r)'
      BY HonestOwn
    <3>8. req'[r].key # NoKey
      BY <3>5, <3>6, Parameters DEF Asks
    <3>9. Good(req[r].outcome.origin, req[r].key, req[r].print)'
      BY <1>1, <3>4, <3>5, <3>7, <3>8 DEF HonestReply
    <3>10. /\ flight'[f].outcome.origin = req'[r].outcome.origin
           /\ flight'[f].key = req'[r].key /\ flight'[f].print = req'[r].print
      BY <2>0, <3>4, <3>5, <3>6 DEF OwnFlight, Asks
    <3> QED BY <3>9, <3>10 DEF HonestFlight, Good
  <2> QED BY <2>1, <2>2
<1>8. CASE Goes(r) \/ LeadsOn(r)
  <2>1. CASE Completed(r)
    BY <1>7, <2>1
  <2>2. CASE ~Completed(r)
    BY <1>2, <1>5, <1>6, <1>8, <2>2 DEF OwnFlight
  <2> QED BY <2>1, <2>2
<1> QED BY <1>2, <1>3, <1>4, <1>8, StepKinds

LEMMA HonestKept ==
  ASSUME Shape, Registered, OneLeads, Concluded, Ordered, Honest, NEW r \in Requests, Step(r)
  PROVE  Honest'
<1>0. SettledOver
  BY HonestIs
<1>1. SettledOver'
  BY <1>0, SettledOverKept
<1>2. \A s \in Requests : HonestReply(s)' /\ HonestLeader(s)'
  BY HonestOthers, HonestOwn
<1>3. (\A f \in Flying : HonestFlight(f))'
  BY HonestFlightsKept
<1>4. (\A i \in DOMAIN cache : HonestEntry(cache[i]))'
  <2> SUFFICES ASSUME NEW i \in DOMAIN cache' PROVE HonestEntry(cache[i])'
    BY DEF HonestEntry, Good
  <2>1. ASSUME NEW j \in DOMAIN cache, cache'[i] = cache[j]
        PROVE  HonestEntry(cache[i])'
    <3>1. ASSUME NEW o, NEW k, NEW p, o = cache[j].origin, k = cache[j].key, p = cache[j].print
          PROVE  HonestEntry(cache[i])'
      <4>1. Good(o, k, p)
        BY <3>1, HonestIs DEF HonestEntry
      <4>2. Good(o, k, p)'
        BY <1>0, <4>1, GoodKept
      <4> QED BY <2>1, <3>1, <4>2 DEF HonestEntry, Good
    <3> QED BY <3>1
  <2>2. CASE cache' = cache
    BY <2>1, <2>2
  <2>3. CASE Caches(r)
    <3> DEFINE e == NewEntry(r)
    <3>1. e \in Entry /\ cache' = Remembered(e) /\ Completed(r) /\ req'[r].settled
      BY <2>3 DEF Caches
    <3>2. FromCache(Remembered(e), e)
      <4>1. CacheTypes /\ InOrder(cache) /\ \A j \in DOMAIN cache : cache[j].at <= e.at
        BY OrderedIs DEF Shape, NewEntry
      <4> HIDE DEF e
      <4> QED BY <3>1, <4>1, RememberedFact
    <3>3. e.origin = r /\ e.key = req[r].key /\ e.print = req[r].print
      BY DEF NewEntry
    <3>4. Asks(r)
      BY <3>1, CompletedFact DEF Shape
    <3>5. cache'[i] = e \/ \E j \in DOMAIN cache : cache'[i] = cache[j]
      BY <3>1, <3>2 DEF FromCache
    <3>6. ASSUME cache'[i] = e PROVE HonestEntry(cache[i])'
      <4>1. cache'[i].origin = r /\ cache'[i].key = req'[r].key /\ cache'[i].print = req'[r].print
        BY <3>3, <3>4, <3>6 DEF Asks
      <4> QED BY <3>1, <4>1 DEF HonestEntry, Good
    <3> QED BY <2>1, <3>5, <3>6
  <2> QED BY <2>2, <2>3, CacheStep
<1> QED BY <1>1, <1>2, <1>3, <1>4, HonestIs
-----------------------------------------------------------------------------
(* The account of the flights                                              *)

Sizes == [f \in Requests |-> flight[f].bytes]

Covered(f) ==
  /\ flight[f].bytes >= Overhead + flight[f].outcome.size
  /\ flight[f].outcome = NoOutcome \/ Locked(f) => flight[f].bytes >= Overhead + Marker

LEMMA CountedIs ==
  /\ Counted <=> /\ flightBytes = SumFunctionOnSet(Sizes, Flying) /\ flightBytes <= MaxFlightBytes
                 /\ \A f \in Flying : Covered(f)
                 /\ Cardinality(Flying) <= MaxEntries
  /\ Counted' <=> /\ flightBytes' = SumFunctionOnSet(Sizes', Flying')
                  /\ flightBytes' <= MaxFlightBytes
                  /\ (\A f \in Flying : Covered(f))'
                  /\ Cardinality(Flying') <= MaxEntries
BY DEF Counted, Covered, BytesOf, Sizes

LEMMA SizesFact ==
  ASSUME FlightTypes
  PROVE  /\ IsFiniteSet(Flying) /\ Flying \subseteq Requests
         /\ \A S \in SUBSET Flying : Summable(Sizes, S) /\ Countable(Sizes, S)
<1>1. Flying \subseteq Requests
  BY SweepFact
<1>2. \A f \in Requests : Sizes[f] \in Nat
  BY DEF FlightTypes, FlightRec, Sizes
<1>3. IsFiniteSet(Flying)
  BY <1>1, Parameters, FS_Subset
<1> QED BY <1>1, <1>2, <1>3, FS_Subset DEF Summable, Countable

\* The same flights with the same bytes make the same sum.
LEMMA SameSum ==
  ASSUME FlightTypes, FlightTypes', Flying' = Flying,
         \A f \in Flying : flight'[f].bytes = flight[f].bytes
  PROVE  SumFunctionOnSet(Sizes', Flying') = SumFunctionOnSet(Sizes, Flying)
<1>1. Summable(Sizes, Flying) /\ Flying \subseteq Requests
  BY SizesFact
<1>2. \A f \in Flying : Sizes[f] = Sizes'[f]
  BY <1>1 DEF Sizes
<1>3. SumFunctionOnSet(Sizes, Flying) = SumFunctionOnSet(Sizes', Flying)
  BY ONLY <1>1, <1>2, SumSame
<1> QED BY <1>3

\* A flight stays covered if it and its lock do not change.
LEMMA CoveredSame ==
  ASSUME NEW f \in Requests, Covered(f), flight'[f] = flight[f], Locked(f)' => Locked(f)
  PROVE  Covered(f)'
BY DEF Covered

\* Only who begins to lead locks a flight.
LEMMA LockedKept ==
  ASSUME NEW r \in Requests, Still(r), NEW f \in Requests,
         \/ req'[r].phase \notin Leading \/ req'[r].flight # f
         \/ req[r].phase \in Leading /\ req[r].flight = f
  PROVE  Locked(f)' => Locked(f)
<1> SUFFICES ASSUME Locked(f)' PROVE Locked(f)
  OBVIOUS
<1>1. PICK s \in Requests : req'[s].flight = f /\ req'[s].phase \in Leading
  BY DEF Locked, Holders
<1>2. CASE s = r
  BY <1>1, <1>2 DEF Locked, Holders
<1>3. CASE s # r
  <2>1. req[s].flight = f /\ req[s].phase \in Leading
    BY <1>1, <1>3 DEF Still
  <2> QED BY <2>1 DEF Locked, Holders
<1> QED BY <1>2, <1>3

LEMMA CountedKeptJoin ==
  ASSUME Shape, Registered, Counted, FlightTypes', NEW r \in Requests, Join(r)
  PROVE  Counted' /\ flightBytes' \in Nat
<1> DEFINE D == Dropped
           K == Flying \ Dropped
<1>1. /\ r \notin Flying /\ Flying \subseteq Requests /\ D \subseteq Flying
      /\ \A f \in K : flight'[f] = flight[f]
      /\ \/ Flying' = K /\ flightBytes' = Used
         \/ /\ Swept[req[r].key] = Nobody /\ ~FullNow /\ Room(Overhead + Marker, Used)
            /\ Flying' = K \cup {r} /\ flight'[r] = Opened(r)
            /\ flightBytes' = Used + Overhead + Marker
  BY FlyingJoin
<1>2. /\ flightBytes = SumFunctionOnSet(Sizes, Flying) /\ flightBytes <= MaxFlightBytes
      /\ \A f \in Flying : Covered(f)
      /\ Cardinality(Flying) <= MaxEntries
  BY CountedIs
<1>3. /\ IsFiniteSet(Flying) /\ Countable(Sizes, Flying) /\ Summable(Sizes, K)
      /\ Countable(Sizes, K) /\ IsFiniteSet(K) /\ K \subseteq Flying
  BY SizesFact, FS_Subset DEF Shape
<1>4. /\ SumFunctionOnSet(Sizes, Flying) = SumFunctionOnSet(Sizes, D) + SumFunctionOnSet(Sizes, K)
      /\ SumFunctionOnSet(Sizes, D) <= SumFunctionOnSet(Sizes, Flying)
  BY <1>1, <1>3, SumSubset
<1>5. SumFunctionOnSet(Sizes, D) \in Nat /\ SumFunctionOnSet(Sizes, K) \in Nat
  BY <1>1, <1>3, SizesFact, SumNat DEF Shape
<1>6. Used = SumFunctionOnSet(Sizes, K) /\ Used \in Nat /\ Used <= MaxFlightBytes
  <2>1. Used = flightBytes - SumFunctionOnSet(Sizes, D)
    BY DEF Used, BytesOf, Sizes
  <2> DEFINE a == SumFunctionOnSet(Sizes, D)
             b == SumFunctionOnSet(Sizes, K)
             c == SumFunctionOnSet(Sizes, Flying)
  <2>2. Used = flightBytes - a /\ flightBytes = c /\ c = a + b /\ a \in Nat /\ b \in Nat
        /\ c <= MaxFlightBytes /\ MaxFlightBytes \in Nat
    BY <1>2, <1>4, <1>5, <2>1, Parameters
  <2> HIDE DEF a, b, c
  <2>3. Used = b /\ Used \in Nat /\ Used <= MaxFlightBytes
    BY ONLY <2>2
  <2> QED BY <2>3 DEF b
<1>7. SumFunctionOnSet(Sizes', K) = SumFunctionOnSet(Sizes, K)
  <2>1. \A f \in K : Sizes[f] = Sizes'[f]
    BY <1>1 DEF Sizes
  <2> QED BY <1>3, <2>1, SumSame
<1>8. \A f \in K : Covered(f)'
  <2> SUFFICES ASSUME NEW f \in K PROVE Covered(f)'
    OBVIOUS
  <2>1. Still(r) /\ req'[r].phase \notin Leading
    BY JoinFact DEF After, Leading
  <2>2. f \in Requests /\ Covered(f) /\ flight'[f] = flight[f]
    BY <1>1, <1>2
  <2> QED BY <2>1, <2>2, LockedKept, CoveredSame
<1>9. Cardinality(K) <= MaxEntries
  <2>1. Cardinality(K) <= Cardinality(Flying) /\ Cardinality(K) \in Nat /\ Cardinality(Flying) \in Nat
    BY <1>3, FS_Subset, FS_CardinalityType
  <2> QED BY <1>2, <2>1, Parameters
<1>10. CASE Flying' = K /\ flightBytes' = Used
  <2>1. (\A f \in Flying : Covered(f))'
    BY <1>8, <1>10 DEF Covered
  <2> QED BY <1>6, <1>7, <1>9, <1>10, <2>1, CountedIs
<1>11. CASE /\ ~FullNow /\ Room(Overhead + Marker, Used)
            /\ Flying' = K \cup {r} /\ flight'[r] = Opened(r)
            /\ flightBytes' = Used + Overhead + Marker
  <2>1. /\ flight'[r].bytes = Overhead + Marker /\ flight'[r].outcome = NoOutcome
        /\ flight'[r].outcome.size = 0
    BY <1>11, NoFlightFact, OutcomeFact DEF Shape
  <2>2. Sizes'[r] = Overhead + Marker /\ Overhead + Marker \in Nat
    BY <2>1, Parameters DEF Sizes
  <2>3. Summable(Sizes', K)
    <3>1. \A f \in K : Sizes'[f] = Sizes[f]
      BY <1>1 DEF Sizes
    <3> QED BY <1>3, <3>1 DEF Summable
  <2>4. SumFunctionOnSet(Sizes', K \cup {r}) = Sizes'[r] + SumFunctionOnSet(Sizes', K)
    BY <1>1, <2>2, <2>3, SumAdd
  <2>5. flightBytes' = SumFunctionOnSet(Sizes', Flying')
    <3>1. SumFunctionOnSet(Sizes', Flying') = (Overhead + Marker) + Used
      BY <1>6, <1>7, <1>11, <2>2, <2>4
    <3> QED BY <1>6, <1>11, <3>1, Parameters
  <2>6. flightBytes' <= MaxFlightBytes /\ flightBytes' \in Nat
    <3>1. Overhead + Marker <= MaxFlightBytes - Used
      BY <1>11 DEF Room
    <3> QED BY <1>6, <1>11, <3>1, Parameters
  <2>7. Covered(r)'
    BY <2>1, Parameters DEF Covered
  <2>8. (\A f \in Flying : Covered(f))'
    <3>1. \A f \in K \cup {r} : Covered(f)'
      BY <1>8, <2>7
    <3> QED BY <1>11, <3>1 DEF Covered
  <2>9. Cardinality(Flying') <= MaxEntries
    <3> DEFINE J == {j \in Keys : Swept[j] # Nobody}
               g == [j \in J |-> Swept[j]]
    <3>1. IsFiniteSet(J)
      BY Parameters, FS_Subset
    <3>2. K \subseteq {g[j] : j \in J}
      <4>1. ASSUME NEW f \in K PROVE \E j \in J : f = g[j]
        <5>1. PICK j \in Keys : f = registry[j] /\ f # Nobody
          BY DEF Flying
        <5>2. Swept[j] = f
          BY <5>1, SweepFact DEF Shape
        <5> QED BY <5>1, <5>2
      <4> QED BY <4>1
    <3>3. IsFiniteSet({g[j] : j \in J}) /\ Cardinality({g[j] : j \in J}) <= Cardinality(J)
      <4> DEFINE T == {g[j] : j \in J}
      <4>1. g \in Surjection(J, T)
        BY DEF Surjection
      <4> HIDE DEF T, g, J
      <4>2. IsFiniteSet(T) /\ Cardinality(T) <= Cardinality(J)
        BY ONLY <3>1, <4>1, FS_Surjection
      <4> QED BY <4>2 DEF T
    <3>4. Cardinality(K) <= Cardinality({g[j] : j \in J})
      BY <3>2, <3>3, FS_Subset
    <3>5. ~(Cardinality(J) >= MaxEntries)
      BY <1>11 DEF FullNow
    <3>6. /\ Cardinality(K) \in Nat /\ Cardinality(J) \in Nat
          /\ Cardinality({g[j] : j \in J}) \in Nat
      BY <1>3, <3>1, <3>3, FS_CardinalityType
    <3>7. Cardinality(K \cup {r}) = Cardinality(K) + 1
      BY <1>1, <1>3, FS_AddElement
    <3> HIDE DEF J, g
    <3> QED BY <1>11, <3>3, <3>4, <3>5, <3>6, <3>7, Parameters
  <2> QED BY <2>5, <2>6, <2>8, <2>9, CountedIs
<1> QED BY <1>1, <1>10, <1>11
\* Only the completed leader's flight changes its bytes, and only it can lose
\* its cover.
LEMMA CountedKeptOther ==
  ASSUME Shape, Registered, SettledOver, OneLeads, Concluded, Counted, FlightTypes',
         NEW r \in Requests, Goes(r) \/ LeadsOn(r), NEW f, f = req[r].flight
  PROVE  Counted' /\ flightBytes' \in Nat
<1>1. /\ Still(r) /\ OwnFlight(r) /\ registry' = registry /\ Flying' = Flying
      /\ req'[r].flight = f \/ req'[r].flight = Nobody
      /\ req[r].phase \in {"waiting", "replying"} \cup Leading
  <2>1. CASE Goes(r)
    BY <2>1, GoesFact DEF After, Flying, Leading, Shape, CallTypes, Call
  <2>2. CASE LeadsOn(r)
    BY <2>2, LeadsOnFact DEF After, Flying, Leading
  <2> QED BY <2>1, <2>2
<1>a. Goes(r) => req'[r].phase \notin Leading
  BY GoesFact DEF Leading
<1>2. /\ flightBytes = SumFunctionOnSet(Sizes, Flying) /\ flightBytes <= MaxFlightBytes
      /\ (\A g \in Flying : Covered(g)) /\ Cardinality(Flying) <= MaxEntries
      /\ Flying \subseteq Requests /\ flightBytes \in Nat
  BY CountedIs, SizesFact DEF Shape
<1>3. f # Nobody => f \in Flying /\ f \in Requests
  BY HeldFlying, HoldsFact DEF Shape
<1>4. f # Nobody /\ req[r].phase \in Leading => Locked(f)
  BY DEF Locked, Holders
\* Everybody else's flight.
<1>5. ASSUME NEW g \in Flying, g # f PROVE Covered(g)' /\ flight'[g] = flight[g]
  <2>1. g \in Requests /\ flight'[g] = flight[g] /\ Covered(g) /\ g # Nobody
    BY <1>1, <1>2, <1>5, Parameters DEF OwnFlight
  <2>2. Locked(g)' => Locked(g)
    BY <1>1, <1>5, <2>1, LockedKept
  <2> QED BY <2>1, <2>2, CoveredSame
\* The flight keeps its bytes.
<1>6. ASSUME flightBytes' = flightBytes,
             f # Nobody => Covered(f)' /\ flight'[f].bytes = flight[f].bytes
      PROVE  Counted' /\ flightBytes' \in Nat
  <2>1. \A g \in Flying : Covered(g)' /\ flight'[g].bytes = flight[g].bytes
    BY <1>2, <1>5, <1>6, Parameters
  <2>2. SumFunctionOnSet(Sizes', Flying') = SumFunctionOnSet(Sizes, Flying)
    BY <1>1, <2>1, SameSum DEF Shape
  <2>3. (\A g \in Flying : Covered(g))'
    BY <1>1, <2>1 DEF Covered
  <2> QED BY <1>1, <1>2, <1>6, <2>2, <2>3, CountedIs
<1>7. ASSUME flight' = flight, flightBytes' = flightBytes, f # Nobody => (Locked(f)' => Locked(f))
      PROVE  Counted' /\ flightBytes' \in Nat
  <2>1. ASSUME f # Nobody PROVE Covered(f)' /\ flight'[f].bytes = flight[f].bytes
    BY <1>2, <1>3, <1>7, <2>1, CoveredSame
  <2> QED BY <1>6, <1>7, <2>1
<1>8. Goes(r) \/ req[r].phase \in Leading => (f # Nobody => (Locked(f)' => Locked(f)))
  BY <1>1, <1>a, <1>3, LockedKept
<1>9. CASE Follow(r) \/ BodyDropped(r)
  BY <1>7, <1>8, <1>9, FollowFact DEF Goes, BodyDropped
<1>10. CASE Send(r) \/ PostEnds(r)
  <2>1. /\ req[r].phase \in Leading /\ flight' = flight /\ flightBytes' = flightBytes
    BY <1>10 DEF Send, PostEnds, NotConnected, Rejected, Succeeded, InDoubt, Leading
  <2> QED BY <1>7, <1>8, <2>1
<1>11. ASSUME f # Nobody, NEW o \in Outcomes, o.size <= Marker, NEW t,
              FlightIs(f, o, t, flight[f].bytes), flight[f].bytes >= Overhead + Marker
       PROVE  Covered(f)' /\ flight'[f].bytes = flight[f].bytes
  <2>1. flight'[f].outcome = o /\ flight'[f].bytes = flight[f].bytes
    BY <1>11 DEF FlightIs
  <2>2. flight[f].bytes \in Nat /\ o.size \in Nat
    BY <1>3, <1>11 DEF Shape, FlightTypes, FlightRec, Outcomes
  <2>3. flight[f].bytes >= Overhead + o.size
    BY <1>11, <2>2, Parameters
  <2> QED BY <1>11, <2>1, <2>3 DEF Covered
<1>12. /\ NoOutcome.size <= Marker /\ NoOutcome \in Outcomes
       /\ Failure(502).size <= Marker /\ Failure(502) \in Outcomes
       /\ Failure(503).size <= Marker /\ Failure(503) \in Outcomes
  BY OutcomeFact, Parameters
<1>13. f # Nobody /\ (req[r].phase \in Leading \/ flight[f].outcome = NoOutcome) =>
         flight[f].bytes >= Overhead + Marker
  BY <1>2, <1>3, <1>4 DEF Covered
<1>14. CASE Lead(r)
  <2>1. /\ f \in Requests /\ flight[f].outcome = NoOutcome /\ flightBytes' = flightBytes
        /\ FlightIs(f, Failure(502), flight[f].retainedAt, flight[f].bytes)
    BY <1>14, LeadFlight DEF Lead
  <2> QED BY <1>6, <1>11, <1>12, <1>13, <2>1
<1>15. CASE ObserverFailed(r)
  <2>1. /\ req[r].phase \in Leading /\ flightBytes' = flightBytes
        /\ f # Nobody => FlightIs(f, NoOutcome, flight[f].retainedAt, flight[f].bytes)
    BY <1>15, ObserverFailedFlight DEF Leading
  <2> QED BY <1>6, <1>11, <1>12, <1>13, <2>1
<1>16. CASE CompletionFailed(r)
  <2>1. /\ req[r].phase \in Leading /\ flightBytes' = flightBytes
        /\ f # Nobody => FlightIs(f, Failure(503), now, flight[f].bytes)
    BY <1>16, CompletionFailedFlight DEF Leading
  <2> QED BY <1>6, <1>11, <1>12, <1>13, <2>1
<1>17. CASE Cancel(r)
  <2>1. CASE flight' = flight
    BY <1>7, <1>8, <1>17, <2>1, CancelFlight DEF Goes
  <2>2. CASE flight' # flight
    <3>1. /\ req[r].phase \in Leading /\ f \in Requests /\ flightBytes' = flightBytes
          /\ FlightIs(f, flight[f].outcome, now, flight[f].bytes)
      BY <1>17, <2>2, CancelFlight
    <3>2. f # Nobody
      BY <3>1, Parameters
    <3>3. flight[f].outcome = Failure(502)
      BY <3>1, <3>2, OneLeadsIs DEF LeadsAlone
    <3> QED BY <1>6, <1>11, <1>12, <1>13, <3>1, <3>2, <3>3
  <2> QED BY <2>1, <2>2
<1>18. CASE Completed(r)
  <2>0. req[r].phase = "completing" /\ req[r].phase \in Leading
    BY <1>18 DEF Completed, Leading
  <2>1. CASE f = Nobody
    BY <1>7, <1>18, <2>1, CompletedFlight, Parameters
  <2>2. CASE f # Nobody /\ ~Retainable(r)
    <3>1. PICK t : FlightIs(f, Failure(502), t, flight[f].bytes) /\ flightBytes' = flightBytes
      BY <1>18, <2>2, CompletedFlight
    <3> QED BY <1>6, <1>11, <1>12, <1>13, <2>0, <2>2, <3>1
  <2>3. CASE f # Nobody /\ Retainable(r)
    <3> DEFINE d == Grown(r)
               n == Overhead + req[r].outcome.size
    <3>0. PICK t : t = IF Retained(r) THEN now ELSE flight[req[r].flight].retainedAt
      OBVIOUS
    <3>1. /\ FlightIs(f, Replay(r), t, n)
          /\ d = n - flight[f].bytes /\ flightBytes' = flightBytes + d
      <4>1. /\ FlightIs(req[r].flight,
                 IF Retainable(r) THEN Replay(r) ELSE Failure(502),
                 IF Retained(r) THEN now ELSE flight[req[r].flight].retainedAt,
                 IF Retainable(r) THEN Overhead + req[r].outcome.size
                 ELSE flight[req[r].flight].bytes)
        BY <1>18, <2>3, CompletedFlight
      <4>a. /\ Grown(r) = Overhead + req[r].outcome.size - flight[req[r].flight].bytes
            /\ flightBytes' = IF Retainable(r) THEN flightBytes + Grown(r) ELSE flightBytes
        BY <1>18, <2>3, CompletedFlight
      <4>2. FlightIs(req[r].flight, Replay(r), t, n)
        <5>1. /\ (IF Retainable(r) THEN Replay(r) ELSE Failure(502)) = Replay(r)
              /\ (IF Retainable(r) THEN Overhead + req[r].outcome.size
                  ELSE flight[req[r].flight].bytes) = Overhead + req[r].outcome.size
          BY <2>3
        <5> QED BY ONLY <3>0, <4>1, <5>1
      <4>3. d = n - flight[req[r].flight].bytes /\ flightBytes' = flightBytes + d
        <5>1. flightBytes' = flightBytes + Grown(r)
          BY ONLY <2>3, <4>a, Zenon
        <5>2. req[r].outcome.size \in Nat /\ flight[req[r].flight].bytes \in Nat
          BY <1>3, <2>3 DEF Shape, FlightTypes, FlightRec, CallTypes, Call, Outcomes
        <5>3. Grown(r) = (Overhead + req[r].outcome.size) - flight[req[r].flight].bytes
          BY <4>a, <5>2, Parameters
        <5> QED BY ONLY <5>1, <5>3
      <4> HIDE DEF n, d
      <4> QED BY ONLY <4>2, <4>3, f = req[r].flight
    <3>2. /\ f \in Requests /\ f \in Flying /\ flight[f].bytes \in Nat /\ n \in Nat
          /\ Replay(r).size = req[r].outcome.size
      BY <1>3, <2>3, ReplayFact, Parameters
         DEF Shape, FlightTypes, FlightRec, CallTypes, Call, Outcomes
    <3>3. d \in Int /\ (d <= 0 \/ d <= MaxFlightBytes - flightBytes)
      BY <2>3, <3>1, <3>2 DEF Retainable, Room
    <3>4. flight'[f].bytes = n /\ flight'[f].outcome = Replay(r)
      BY <3>1 DEF FlightIs
    <3>5. Sizes'[f] = Sizes[f] + d
      <4>1. Sizes'[f] = n /\ Sizes[f] = flight[f].bytes
        BY <3>2, <3>4 DEF Sizes
      <4> HIDE DEF d, n
      <4> QED BY <3>1, <3>2, <4>1
    <3>6. \A g \in Flying \ {f} : Sizes'[g] = Sizes[g]
      BY <1>2, <1>5 DEF Sizes
    <3>7. Summable(Sizes, Flying)
      BY SizesFact DEF Shape
    <3> HIDE DEF d
    <3>8. SumFunctionOnSet(Sizes', Flying) = SumFunctionOnSet(Sizes, Flying) + d
      BY <3>2, <3>3, <3>5, <3>6, <3>7, SumChange
    <3>9. flightBytes' = SumFunctionOnSet(Sizes', Flying') /\ flightBytes' <= MaxFlightBytes
      BY <1>1, <1>2, <3>1, <3>3, <3>8, Parameters
    <3>10. flightBytes' \in Nat
      <4>1. Countable(Sizes', Flying')
        <5>1. IsFiniteSet(Flying') /\ Flying' \subseteq Requests
          BY <1>1, <1>2, SizesFact DEF Shape
        <5>2. \A g \in Requests : Sizes'[g] \in Nat
          BY DEF FlightTypes, FlightRec, Sizes
        <5> QED BY <5>1, <5>2 DEF Countable
      <4> QED BY <3>9, <4>1, SumNat
    <3>11. ~Locked(f)'
      <4> SUFFICES ASSUME Locked(f)' PROVE FALSE
        OBVIOUS
      <4>1. PICK s \in Requests : req'[s].flight = f /\ req'[s].phase \in Leading
        BY DEF Locked, Holders
      <4>2. s # r
        BY <1>a, <1>18, <4>1 DEF Goes
      <4>3. req[s].flight = f /\ req[s].phase \in Leading
        BY <1>1, <4>1, <4>2 DEF Still
      <4> QED BY <2>0, <2>3, <4>2, <4>3, OneLeadsIs DEF LeadsAlone
    <3>12. Covered(f)'
      <4>1. flight'[f].outcome.size = req[r].outcome.size
        BY <3>2, <3>4
      <4>2. flight'[f].bytes >= Overhead + flight'[f].outcome.size
        BY <3>2, <3>4, <4>1
      <4>3. flight'[f].outcome # NoOutcome
        <5>1. Replay(r).status # 0
          BY <2>0, ReplayFact, ConcludedIs DEF ConcludedOf, Shape
        <5> QED BY <3>4, <5>1, OutcomeFact
      <4> QED BY <3>11, <4>2, <4>3 DEF Covered
    <3>13. (\A g \in Flying : Covered(g))'
      <4>1. \A g \in Flying : Covered(g)'
        BY <1>5, <3>12
      <4> QED BY <1>1, <4>1 DEF Covered
    <3> QED BY <1>1, <1>2, <3>9, <3>10, <3>13, CountedIs
  <2> QED BY <2>1, <2>2, <2>3
<1> QED BY <1>9, <1>10, <1>14, <1>15, <1>16, <1>17, <1>18 DEF Goes, LeadsOn
LEMMA CountedKept ==
  ASSUME Shape, Registered, SettledOver, OneLeads, Concluded, Counted, FlightTypes',
         NEW r \in Requests, Step(r)
  PROVE  Counted' /\ flightBytes' \in Nat
<1>1. ASSUME NEW k \in Keys \cup {NoKey}, NEW p \in Prints, Arrive(r, k, p)
      PROVE  Counted' /\ flightBytes' \in Nat
  <2>0. Still(r)
    BY <1>1, ArriveFact DEF Shape, After
  <2>1. UNCHANGED <<registry, flight, flightBytes>> /\ Still(r)
    BY <1>1, <2>0 DEF Arrive
  <2>2. req[r].phase = "new" /\ req'[r].flight = req[r].flight
    BY <1>1, ArriveFact DEF Shape, After
  <2>3. req'[r].flight = Nobody
    BY <2>2, RegisteredIs DEF CallOk, Leading
  <2>4. Flying' = Flying /\ Flying \subseteq Requests /\ Nobody \notin Flying
    BY <2>1, SizesFact, Parameters DEF Flying, Shape
  <2>5. ASSUME NEW g \in Flying PROVE Covered(g)' /\ flight'[g].bytes = flight[g].bytes
    <3>1. g \in Requests /\ g # Nobody /\ Covered(g) /\ flight'[g] = flight[g]
      BY <2>1, <2>4, <2>5, CountedIs
    <3>2. Locked(g)' => Locked(g)
      BY <2>1, <2>3, <3>1, LockedKept
    <3> QED BY <3>1, <3>2, CoveredSame
  <2>6. SumFunctionOnSet(Sizes', Flying') = SumFunctionOnSet(Sizes, Flying)
    BY <2>4, <2>5, SameSum DEF Shape
  <2>7. (\A g \in Flying : Covered(g))'
    BY <2>4, <2>5 DEF Covered
  <2> QED BY <2>1, <2>4, <2>6, <2>7, CountedIs DEF Shape
<1>2. CASE Join(r)
  BY <1>2, CountedKeptJoin
<1>3. CASE Goes(r) \/ LeadsOn(r)
  <2>1. PICK f : f = req[r].flight
    OBVIOUS
  <2> QED BY <1>3, <2>1, CountedKeptOther
<1> QED BY <1>1, <1>2, <1>3, StepKinds
-----------------------------------------------------------------------------
(* The permits                                                             *)

\* The admitted requests whose body is not gone.
Admitted == {r \in Requests : req[r].phase \notin {"new", "done"}}

LEMMA PermitsIs ==
  /\ PermitsExact <=> permits + Cardinality(Admitted) = Permits
  /\ PermitsExact' <=> permits' + Cardinality(Admitted') = Permits
BY DEF PermitsExact, Admitted

\* A permit goes with a request's admission and comes back with its end.
LEMMA PermitStep ==
  ASSUME Shape, Registered, SettledOver, NEW r \in Requests, Step(r)
  PROVE  /\ Still(r)
         /\ \/ permits' = permits /\ (r \in Admitted' <=> r \in Admitted)
            \/ permits' = permits - 1 /\ permits # 0 /\ r \in Admitted' /\ r \notin Admitted
            \/ permits' = permits + 1 /\ r \notin Admitted' /\ r \in Admitted
<1>1. ASSUME NEW k \in Keys \cup {NoKey}, NEW p \in Prints, Arrive(r, k, p)
      PROVE  /\ Still(r) /\ r \notin Admitted
             /\ \/ permits' = permits /\ r \notin Admitted'
                \/ permits' = permits - 1 /\ permits # 0 /\ r \in Admitted'
  BY <1>1, ArriveFact DEF Shape, After, Admitted
<1>2. CASE Join(r)
  BY <1>2, JoinFact DEF After, Admitted
<1>3. CASE LeadsOn(r)
  BY <1>3, LeadsOnFact DEF After, Admitted, Leading
<1>4. CASE Goes(r)
  <2>1. Still(r) /\ r \in Admitted
    BY <1>4, GoesFact DEF After, Admitted
  <2>2. CASE Follow(r) \/ Completed(r)
    <3>1. permits' = permits
      BY <2>2 DEF Follow, Completed
    <3>2. req'[r].phase = "replying"
      BY <2>2, FollowFact, CompletedFact DEF After, Shape
    <3> QED BY <2>1, <3>1, <3>2 DEF Admitted
  <2>3. CASE ObserverFailed(r) \/ CompletionFailed(r) \/ Cancel(r) \/ BodyDropped(r)
    <3>1. Ended(r)
      BY <2>3 DEF ObserverFailed, CompletionFailed, Cancel, BodyDropped
    <3>2. permits' = permits + 1 /\ req'[r].phase = "done"
      BY <3>1, EndedFact DEF After, Shape
    <3> QED BY <2>1, <3>2 DEF Admitted
  <2> QED BY <1>4, <2>2, <2>3 DEF Goes
<1> QED BY <1>1, <1>2, <1>3, <1>4, StepKinds

LEMMA PermitsKept ==
  ASSUME Shape, Registered, SettledOver, PermitsExact, NEW r \in Requests, Step(r)
  PROVE  PermitsExact'
<1>1. /\ Admitted \subseteq Requests /\ Admitted' \subseteq Requests
      /\ IsFiniteSet(Admitted) /\ IsFiniteSet(Admitted')
  <2>1. Admitted \subseteq Requests /\ Admitted' \subseteq Requests
    BY DEF Admitted
  <2> QED BY <2>1, Parameters, FS_Subset
<1>2. /\ Cardinality(Admitted) \in Nat /\ permits \in Nat
      /\ permits + Cardinality(Admitted) = Permits
  BY <1>1, FS_CardinalityType, PermitsIs DEF Shape, CallTypes
<1>3. \A s \in Requests : s # r => (s \in Admitted' <=> s \in Admitted)
  BY PermitStep DEF Still, Admitted
<1>4. CASE permits' = permits /\ (r \in Admitted' <=> r \in Admitted)
  <2>1. Admitted' = Admitted
    BY <1>1, <1>3, <1>4
  <2> QED BY <1>2, <1>4, <2>1, PermitsIs
<1>5. CASE permits' = permits - 1 /\ r \in Admitted' /\ r \notin Admitted
  <2>1. Admitted' = Admitted \cup {r}
    BY <1>1, <1>3, <1>5
  <2>2. Cardinality(Admitted') = Cardinality(Admitted) + 1
    BY <1>1, <1>5, <2>1, FS_AddElement
  <2>3. permits' + Cardinality(Admitted') = Permits
    BY <1>2, <1>5, <2>2, Parameters
  <2> QED BY <2>3, PermitsIs
<1>6. CASE permits' = permits + 1 /\ r \notin Admitted' /\ r \in Admitted
  <2>1. Admitted' = Admitted \ {r}
    BY <1>1, <1>3, <1>6
  <2>2. Cardinality(Admitted') = Cardinality(Admitted) - 1
    BY <1>1, <1>6, <2>1, FS_RemoveElement
  <2>3. permits' + Cardinality(Admitted') = Permits
    BY <1>2, <1>6, <2>2, Parameters
  <2> QED BY <2>3, PermitsIs
<1> QED BY <1>4, <1>5, <1>6, PermitStep
-----------------------------------------------------------------------------
(* The invariant                                                           *)

LEMMA StepInv ==
  ASSUME IInv, NEW r \in Requests, Step(r)
  PROVE  IInv'
<1>1. /\ Shape /\ Registered /\ OneLeads /\ Concluded /\ Closed /\ Honest /\ Counted
      /\ Ordered /\ PermitsExact
  BY TypesSplit DEF IInv, Shape
<1>2. SettledOver
  BY <1>1, HonestIs
<1>3. CallTypes' /\ FlightTypes' /\ CacheTypes'
  BY <1>1, <1>2, TypesKept
<1>4. Counted' /\ flightBytes' \in Nat
  BY <1>1, <1>2, <1>3, CountedKept
<1>5. TypeOK'
  BY <1>3, <1>4, TypesJoin
<1>6. Registered'
  BY <1>1, <1>2, RegisteredKept
<1>7. OneLeads' /\ Concluded' /\ Closed'
  BY <1>1, <1>2, OneLeadsKept, ConcludedKept, ClosedKept
<1>8. Honest' /\ Ordered' /\ PermitsExact'
  BY <1>1, <1>2, HonestKept, OrderedKept, PermitsKept
<1> QED BY <1>4, <1>5, <1>6, <1>7, <1>8 DEF IInv

\* Time and stuttering: only the clock moves, forward.
LEMMA WaitInv ==
  ASSUME IInv, UNCHANGED <<req, registry, flight, cache, flightBytes, permits, effect>>,
         now' \in Nat, now' >= now
  PROVE  IInv'
<1>0. /\ now \in Nat /\ effect \in [Keys -> Int]
      /\ UNCHANGED req /\ UNCHANGED registry /\ UNCHANGED flight /\ UNCHANGED cache
      /\ UNCHANGED flightBytes /\ UNCHANGED permits /\ UNCHANGED effect
  BY DEF IInv, TypeOK
<1>1. TypeOK'
  BY <1>0 DEF IInv, TypeOK
<1>2. Registered' /\ OneLeads' /\ Concluded'
  BY <1>0 DEF IInv, Registered, OneLeads, Concluded
<1>3. Closed'
  <2>1. ASSUME NEW k \in Keys PROVE effect[k] \in Int /\ (Rested(k) => Rested(k)')
    BY <1>0, Parameters, <2>1 DEF Rested
  <2>2. \A f, k : Shut(f, k)' <=> Shut(f, k)
    BY <1>0 DEF Shut, Kept, Keeping
  <2>3. ASSUME NEW k \in Keys PROVE ClosedKey(k)'
    <3>1. ClosedKey(k) /\ effect'[k] = effect[k] /\ registry'[k] = registry[k]
      BY <1>0, ClosedIs DEF IInv
    <3>2. effect'[k] <= now'
      BY <1>0, <2>1, <3>1 DEF ClosedKey
    <3>3. CASE Rested(k)
      BY <2>1, <3>2, <3>3 DEF ClosedKey
    <3>4. CASE registry[k] # Nobody /\ Shut(registry[k], k)
      <4>1. Shut(registry[k], k)'
        BY <1>0, <3>4 DEF Shut, Kept, Keeping
      <4> QED BY <3>1, <3>2, <3>4, <4>1 DEF ClosedKey
    <3> QED BY <3>1, <3>3, <3>4 DEF ClosedKey
  <2>4. ASSUME NEW r \in Requests PROVE MayPost(r)'
    <3>1. MayPost(r) /\ req'[r] = req[r] /\ req[r].key \in Keys \cup {NoKey}
      BY <1>0, ClosedIs DEF IInv, TypeOK
    <3> SUFFICES ASSUME req[r].phase \in {"observing", "sending"}, req[r].key # NoKey
                 PROVE  Rested(req[r].key)'
      BY <3>1 DEF MayPost
    <3>2. req[r].key \in Keys /\ Rested(req[r].key)
      BY <3>1 DEF MayPost
    <3>3. now >= effect[req[r].key] + Window /\ effect[req[r].key] \in Int
      BY <1>0, <3>2 DEF Rested
    <3>4. now' >= effect[req[r].key] + Window
      BY <1>0, <3>3, Parameters
    <3> QED BY <1>0, <3>1, <3>4 DEF Rested
  <2> QED BY <2>3, <2>4, ClosedIs
<1>4. Honest'
  <2>1. Flying' = Flying
    BY <1>0 DEF Flying
  <2> QED BY <1>0, <2>1 DEF IInv, Honest, Good
<1>5. Counted'
  <2>1. Flying' = Flying
    BY <1>0 DEF Flying
  <2>2. Sizes' = Sizes
    BY <1>0 DEF Sizes
  <2>3. \A f \in Flying : Covered(f)
    BY CountedIs DEF IInv
  <2>4. (\A f \in Flying : Covered(f))'
    BY <1>0, <2>1, <2>3 DEF Covered, Locked, Holders
  <2> QED BY <1>0, <2>1, <2>2, <2>4, CountedIs DEF IInv
<1>6. Ordered'
  <2>1. CacheInOrder'
    BY <1>0 DEF IInv, Ordered, CacheInOrder, Fits, CacheBytes
  <2>2. (\A i \in DOMAIN cache : cache[i].at <= now)'
    <3>1. \A i \in DOMAIN cache : cache[i].at \in Nat /\ cache[i].at <= now
      <4>1. cache \in Seq(Entry)
        BY TypesSplit DEF IInv, CacheTypes
      <4>2. \A i \in DOMAIN cache : cache[i] \in Entry
        BY <4>1
      <4> QED BY <4>2 DEF IInv, Ordered, Entry
    <3> QED BY <1>0, <3>1
  <2> QED BY <2>1, <2>2 DEF Ordered
<1>7. PermitsExact'
  BY <1>0 DEF IInv, PermitsExact
<1> QED BY <1>1, <1>2, <1>3, <1>4, <1>5, <1>6, <1>7 DEF IInv

LEMMA InitInv == Init => IInv
<1> SUFFICES ASSUME Init PROVE IInv
  OBVIOUS
<1>0. /\ req = [r \in Requests |-> Fresh] /\ registry = [k \in Keys |-> Nobody]
      /\ flight = [r \in Requests |-> NoFlight] /\ cache = <<>> /\ flightBytes = 0
      /\ permits = Permits /\ effect = [k \in Keys |-> -Window] /\ now = 0
  BY DEF Init
<1>1. \A r \in Requests : req[r].phase = "new" /\ req[r].flight = Nobody /\ ~req[r].settled
                           /\ ~req[r].uncertain
  BY <1>0 DEF Fresh
<1>2. TypeOK
  <2>1. Fresh \in Call /\ NoFlight \in FlightRec
    BY OutcomeFact, NoFlightFact DEF Fresh, Call
  <2>2. CallTypes /\ FlightTypes /\ flightBytes \in Nat
    BY <1>0, <2>1, Parameters DEF CallTypes, FlightTypes
  <2>3. CacheTypes
    BY <1>0, Parameters DEF CacheTypes
  <2> QED BY <2>2, <2>3 DEF TypeOK, CallTypes, FlightTypes, CacheTypes, Call, FlightRec, Entry
<1>3. Registered /\ OneLeads /\ Concluded
  BY <1>0, <1>1 DEF Registered, OneLeads, Concluded, Leading
<1>4. Closed
  <2>1. ASSUME NEW k \in Keys PROVE effect[k] <= now /\ Rested(k)
    BY <1>0, Parameters DEF Rested
  <2> QED BY <1>1, <2>1 DEF Closed
<1>5. Flying = {}
  BY <1>0 DEF Flying
<1>6. Honest
  BY <1>0, <1>1, <1>5 DEF Honest
<1>7. Counted
  <2>1. SumFunctionOnSet(Sizes, {}) = 0
    BY SumEmpty
  <2>2. Cardinality(Flying) = 0
    BY <1>5, FS_EmptySet
  <2> QED BY <1>0, <1>5, <2>1, <2>2, CountedIs, Parameters
<1>8. Ordered
  <2>1. CacheBytes(<<>>) = 0
    <3>1. DOMAIN <<>> = {}
      OBVIOUS
    <3> QED BY <3>1, SumEmpty DEF CacheBytes
  <2>2. Fits(cache)
    BY <1>0, <2>1, Parameters DEF Fits
  <2> QED BY <1>0, <2>2 DEF Ordered, CacheInOrder
<1>9. PermitsExact
  <2>1. Admitted = {}
    BY <1>1 DEF Admitted
  <2>2. Cardinality(Admitted) = 0
    BY <2>1, FS_EmptySet
  <2> QED BY <1>0, <2>2, PermitsIs, Parameters
<1> QED BY <1>2, <1>3, <1>4, <1>6, <1>7, <1>8, <1>9 DEF IInv

LEMMA NextInv == IInv /\ [Next]_vars => IInv'
<1> SUFFICES ASSUME IInv, [Next]_vars PROVE IInv'
  OBVIOUS
<1>1. now \in Nat
  BY DEF IInv, TypeOK
<1>2. CASE Tick
  BY <1>1, <1>2, WaitInv DEF Tick
<1>3. CASE \E r \in Requests : Step(r)
  BY <1>3, StepInv
<1>4. CASE UNCHANGED vars
  BY <1>1, <1>4, WaitInv DEF vars
<1> QED BY <1>2, <1>3, <1>4 DEF Next

THEOREM Invariance == Spec => []IInv
<1>1. Init => IInv
  BY InitInv
<1>2. IInv /\ [Next]_vars => IInv'
  BY NextInv
<1> QED BY <1>1, <1>2, PTL DEF Spec
-----------------------------------------------------------------------------
(* What the runs check, for every instance                                 *)

\* proxy.rs:865, 1343: at every await and after every cancel the permits, the
\* bytes of the flights and the cache with its order are exact.
THEOREM AccountsAlwaysExact == Spec => []AccountsExact
<1>1. ASSUME IInv PROVE AccountsExact
  <2>1. Alive = Flying
    BY <1>1, AliveFlying DEF IInv
  <2>2. FlightsAccounted
    BY <1>1, <2>1 DEF IInv, Counted, FlightsAccounted
  <2> QED BY <1>1, <2>2 DEF IInv, Ordered, AccountsExact
<1> QED BY <1>1, Invariance, PTL

\* proxy.rs:1135-1136, 1305-1319: a success the cache, a flight or a reply carries is the
\* body of a POST with the same key and payload that was settled before it was
\* published, whoever was cancelled, failed or pruned in between.
THEOREM SettledAlwaysFirst == Spec => []SettledFirst
<1>1. ASSUME IInv PROVE SettledFirst
  <2>1. /\ \A r \in Requests : HonestReply(r)
        /\ \A f \in Flying : HonestFlight(f)
        /\ \A i \in DOMAIN cache : HonestEntry(cache[i])
    BY <1>1, HonestIs DEF IInv
  <2> SUFFICES ASSUME NEW a \in Published, a.outcome.status = 200
               PROVE  Good(a.outcome.origin, a.key, a.print)
    BY DEF SettledFirst, Good
  <2>2. CASE \E r \in Requests : /\ req[r].phase = "replying" /\ req[r].key # NoKey
                                 /\ a = [key |-> req[r].key, print |-> req[r].print,
                                         outcome |-> req[r].outcome]
    BY <2>1, <2>2 DEF HonestReply
  <2>3. CASE \E f \in Flying : a = [key |-> flight[f].key, print |-> flight[f].print,
                                    outcome |-> flight[f].outcome]
    BY <2>1, <2>3 DEF HonestFlight
  <2>4. CASE \E i \in DOMAIN cache :
               a = [key |-> cache[i].key, print |-> cache[i].print,
                    outcome |-> Answer(cache[i].origin, 200, cache[i].size)]
    <3>1. PICK i \in DOMAIN cache :
            /\ a.key = cache[i].key /\ a.print = cache[i].print
            /\ a.outcome = Answer(cache[i].origin, 200, cache[i].size)
      BY <2>4
    <3>2. a.outcome.origin = cache[i].origin
      BY <3>1 DEF Answer
    <3> QED BY <2>1, <3>1, <3>2 DEF HonestEntry
  <2> QED BY <2>2, <2>3, <2>4 DEF Published
<1> QED BY <1>1, Invariance, PTL
-----------------------------------------------------------------------------
(* The proxy posts once                                                    *)

\* Who posts under a key before and after a step of r.
LEMMA PostingBy ==
  ASSUME NEW r \in Requests, Still(r), NEW k \in Keys,
         (req'[r].key = k /\ req'[r].phase = "sending")
           <=> (req[r].key = k /\ req[r].phase = "sending")
  PROVE  Posting'[k] = Posting[k]
BY DEF Still, Posting

\* Nobody posts beside who leads under a key.
LEMMA PostingAlone ==
  ASSUME Shape, Registered, OneLeads, NEW r \in Requests, req[r].phase \in Leading,
         NEW k \in Keys, req[r].key = k, Still(r)
  PROVE  /\ Posting[k] = IF req[r].phase = "sending" THEN {r} ELSE {}
         /\ Posting'[k] = IF req'[r].phase = "sending" /\ req'[r].key = k THEN {r} ELSE {}
<1>1. \A s \in Requests : s # r /\ req[s].key = k => req[s].phase # "sending"
  BY OneLeadsKey DEF Leading
<1>2. \A s \in Requests : s # r => req'[s] = req[s]
  BY DEF Still
<1> QED BY <1>1, <1>2 DEF Posting

\* The step of r that changes what is posted under its key.
PostStep(k, r) ==
  \/ /\ Posting[k] = {} /\ Rested(k) /\ Posting'[k] = {r} /\ effect' = effect
  \/ /\ Posting[k] = {r} /\ Posting'[k] = {}
     /\ effect' = effect \/ effect' = [effect EXCEPT ![k] = now]

LEMMA PostKinds ==
  ASSUME IInv, NEW r \in Requests, Step(r)
  PROVE  \/ effect' = effect /\ \A k \in Keys : Posting'[k] = Posting[k]
         \/ \E k \in Keys : PostStep(k, r) /\ \A j \in Keys \ {k} : Posting'[j] = Posting[j]
<1>1. /\ Shape /\ Registered /\ OneLeads /\ Closed /\ SettledOver
      /\ req[r].key \in Keys \cup {NoKey}
  <2>1. Shape /\ Registered /\ OneLeads /\ Closed /\ Honest
    BY TypesSplit DEF IInv, Shape
  <2> QED BY <2>1, HonestIs DEF Shape, CallTypes, Call
<1>2. Still(r)
  BY <1>1, PermitStep
<1>3. ASSUME effect' = effect, req[r].phase # "sending", req'[r].phase # "sending"
      PROVE  effect' = effect /\ \A k \in Keys : Posting'[k] = Posting[k]
  BY <1>2, <1>3, PostingBy
<1>4. ASSUME effect' = effect, req[r].key = NoKey, req'[r].key = NoKey
      PROVE  effect' = effect /\ \A k \in Keys : Posting'[k] = Posting[k]
  BY <1>2, <1>4, PostingBy, Parameters
<1>5. ASSUME NEW k \in Keys \cup {NoKey}, NEW p \in Prints, Arrive(r, k, p)
      PROVE  effect' = effect /\ req[r].phase # "sending" /\ req'[r].phase # "sending"
  <2>1. req[r].phase = "new" /\ req'[r].phase # "sending"
    BY <1>1, <1>5, ArriveFact DEF Shape
  <2>2. effect' = effect
    BY <1>5 DEF Arrive
  <2> QED BY <2>1, <2>2
<1>6. CASE Join(r) \/ Lead(r) \/ Follow(r) \/ ObserverFailed(r) \/ Completed(r)
             \/ CompletionFailed(r) \/ BodyDropped(r)
  <2>1. effect' = effect
    BY <1>6 DEF Join, Lead, Follow, ObserverFailed, Completed, CompletionFailed, BodyDropped
  <2>2. req[r].phase # "sending"
    BY <1>6 DEF Join, Lead, Follow, ObserverFailed, Completed, CompletionFailed, BodyDropped
  <2>3. req'[r].phase # "sending"
    <3>1. CASE Join(r)
      BY <1>1, <3>1, JoinFact
    <3>2. CASE Lead(r)
      BY <1>1, <3>2, LeadFact DEF Shape
    <3>3. CASE Goes(r)
      BY <1>1, <3>3, GoesFact
    <3> QED BY <1>6, <3>1, <3>2, <3>3 DEF Goes
  <2> QED BY <1>3, <2>1, <2>2, <2>3
<1>7. ASSUME NEW k \in Keys, req[r].key = k, req[r].phase \in Leading, PostStep(k, r),
             req'[r].key = k \/ req'[r].phase # "sending"
      PROVE  \E j \in Keys : PostStep(j, r) /\ \A i \in Keys \ {j} : Posting'[i] = Posting[i]
  <2>1. \A j \in Keys \ {k} : Posting'[j] = Posting[j]
    BY <1>2, <1>7, PostingBy
  <2> QED BY <1>7, <2>1
<1>8. CASE Send(r)
  <2>1. /\ req[r].phase = "observing" /\ req'[r].phase = "sending" /\ effect' = effect
        /\ req'[r].key = req[r].key /\ req[r].phase \in Leading
    BY <1>1, <1>8, SendFact DEF Send, Shape, After, Asks, Leading
  <2>2. CASE req[r].key = NoKey
    BY <1>4, <2>1, <2>2
  <2>3. CASE req[r].key \in Keys
    <3>1. Posting[req[r].key] = {} /\ Posting'[req[r].key] = {r}
      BY <1>1, <1>2, <2>1, <2>3, PostingAlone
    <3>2. Rested(req[r].key)
      BY <1>1, <2>1, <2>3, ClosedIs, Parameters DEF MayPost
    <3> QED BY <1>7, <2>1, <2>3, <3>1, <3>2 DEF PostStep
  <2> QED BY <1>1, <2>2, <2>3
\* The POST is over.
<1>9. ASSUME req[r].phase = "sending", req'[r].phase # "sending",
             effect' = effect \/ MayHaveRun(r), req'[r].key \in {req[r].key, NoKey}
      PROVE  \/ effect' = effect /\ \A k \in Keys : Posting'[k] = Posting[k]
             \/ \E k \in Keys : PostStep(k, r) /\ \A j \in Keys \ {k} : Posting'[j] = Posting[j]
  <2>1. req[r].phase \in Leading
    BY <1>9 DEF Leading
  <2>2. CASE req[r].key = NoKey
    BY <1>4, <1>9, <2>2 DEF MayHaveRun
  <2>3. CASE req[r].key \in Keys
    <3>1. Posting[req[r].key] = {r} /\ Posting'[req[r].key] = {}
      BY <1>1, <1>2, <1>9, <2>1, <2>3, PostingAlone
    <3>2. effect' = effect \/ effect' = [effect EXCEPT ![req[r].key] = now]
      BY <1>9, <2>3, Parameters DEF MayHaveRun
    <3> QED BY <1>7, <1>9, <2>1, <2>3, <3>1, <3>2 DEF PostStep
  <2> QED BY <1>1, <2>2, <2>3
<1>10. CASE PostEnds(r)
  <2>1. effect' = effect \/ MayHaveRun(r)
    BY <1>10 DEF PostEnds, NotConnected, Rejected, Succeeded, InDoubt
  <2>2. /\ req[r].phase = "sending" /\ req'[r].phase = "completing"
        /\ req'[r].key = req[r].key
    BY <1>1, <1>10, PostEndsFact DEF Shape, After, Asks
  <2> QED BY <1>9, <2>1, <2>2
<1>11. CASE Cancel(r)
  <2>1. /\ Ended(r)
        /\ IF req[r].phase = "sending" THEN MayHaveRun(r) ELSE effect' = effect
    BY <1>11 DEF Cancel
  <2>2. req'[r].phase = "done" /\ req'[r].key \in {req[r].key, NoKey}
    BY <1>1, <2>1, EndedFact DEF Shape, After, Asks
  <2>3. CASE req[r].phase = "sending"
    BY <1>9, <2>1, <2>2, <2>3
  <2>4. CASE req[r].phase # "sending"
    BY <1>3, <2>1, <2>2, <2>4
  <2> QED BY <2>3, <2>4
<1> QED BY <1>3, <1>5, <1>6, <1>8, <1>10, <1>11 DEF Step, PostEnds

\* proxy.rs:1136-1138, 1223-1224, 1288: under one key no second POST is
\* made while one is under way, or within the window of one that may have been
\* executed: the proxy implements IdempotentPosts, step by step.
THEOREM PostsOnce == Spec => PostedOnce
<1>1. Init => Once!Init
  BY DEF Init, Once!Init, Posting, Fresh
<1>2. IInv /\ [Next]_vars => [Once!Next]_(Once!vars)
  <2> SUFFICES ASSUME IInv, [Next]_vars PROVE [Once!Next]_(Once!vars)
    OBVIOUS
  <2>1. ASSUME \A k \in Keys : Posting'[k] = Posting[k] PROVE Posting' = Posting
    BY <2>1 DEF Posting
  <2>2. CASE UNCHANGED vars
    BY <2>2 DEF vars, Once!vars, Posting
  <2>3. CASE Tick
    BY <2>3 DEF Tick, Once!Next, Once!Tick, Posting
  <2>4. ASSUME NEW r \in Requests, Step(r) PROVE [Once!Next]_(Once!vars)
    <3>0. now' = now
      BY <2>4, NowStays
    <3>1. CASE effect' = effect /\ \A k \in Keys : Posting'[k] = Posting[k]
      BY <2>1, <3>0, <3>1 DEF Once!vars
    <3>2. ASSUME NEW k \in Keys, PostStep(k, r), \A j \in Keys \ {k} : Posting'[j] = Posting[j]
          PROVE  Once!Next
      <4>1. ASSUME NEW S, Posting'[k] = S PROVE Posting' = [Posting EXCEPT ![k] = S]
        BY <3>2, <4>1 DEF Posting
      <4>2. CASE Posting[k] = {} /\ Rested(k) /\ Posting'[k] = {r} /\ effect' = effect
        <5>1. Once!Start(k, r)
          BY <3>0, <4>1, <4>2 DEF Once!Start, Rested
        <5> QED BY <5>1 DEF Once!Next
      <4>3. CASE Posting[k] = {r} /\ Posting'[k] = {} /\ effect' = effect
        <5>1. Once!Refused(k)
          BY <3>0, <4>1, <4>3 DEF Once!Refused
        <5> QED BY <5>1 DEF Once!Next
      <4>4. CASE /\ Posting[k] = {r} /\ Posting'[k] = {}
                 /\ effect' = [effect EXCEPT ![k] = now]
        <5>1. Once!Executed(k)
          BY <3>0, <4>1, <4>4 DEF Once!Executed
        <5> QED BY <5>1 DEF Once!Next
      <4> QED BY <3>2, <4>2, <4>3, <4>4 DEF PostStep
    <3> QED BY <2>4, <3>1, <3>2, PostKinds
  <2> QED BY <2>2, <2>3, <2>4 DEF Next
<1> QED BY <1>1, <1>2, Invariance, PTL DEF Spec, PostedOnce, Once!Spec
=============================================================================
