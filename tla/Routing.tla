------------------------------- MODULE Routing -------------------------------
(***************************************************************************)
(* The way of one request from its bearer token to the card it is sent to: *)
(* the authentication middleware and the four inference endpoints          *)
(* (idoris-router/src/lib.rs), the ceiling of a virtual key (auth.rs), the *)
(* content scan (inspect.rs), the routing policy (routing_policy.rs), the  *)
(* candidates and their cooling mask (dispatch.rs, proxy.rs) and the       *)
(* decision pipeline (idoris-policy/src/pipeline/mod.rs).                  *)
(*                                                                         *)
(* Requests share nothing on this way but the key store, whose keys may be *)
(* revoked or expire at each await, and the breakers, flights and runtimes *)
(* a selection reads in one step; so one request is followed, and what it  *)
(* reads there is any value.  What becomes of the card's call is the       *)
(* matter of Calls, Flights, Streams, Breaker and Supervisor.              *)
(***************************************************************************)
EXTENDS Integers, Sequences

CONSTANTS
  Sites,     \* how the router may be deployed: mode, switches, cards, policy
  CardOf,    \* the component card of each provider id, a number
  PolicyOf,  \* the routing policies, by name
  Requests,  \* the requests a client may make
  Secrets,   \* bearer tokens
  NoBearer,  \* a request without Authorization header
  Scopes,    \* the scope each bearer token would have if it is a key
  Tenants,
  NoTenant,
  Personal,  \* PERSONAL_TENANT_ID
  Roles,     \* ROLES
  NoRole,
  Unknown    \* the price of a card with malformed cost data

ASSUME RoutingAssumption ==
  /\ NoBearer \notin Secrets
  /\ NoTenant \notin Tenants /\ Personal \in Tenants
  /\ NoRole \notin Roles
  /\ Unknown \notin Nat
  /\ \A s \in Secrets : Scopes[s].roles \subseteq Roles
  /\ \A r \in Requests : r.privacy \in {"local_only", "any"}
  /\ \A s \in Sites : s.cards \subseteq DOMAIN CardOf
  /\ \A c \in DOMAIN CardOf : CardOf[c].price \in Nat \cup {Unknown}

VARIABLES
  site,    \* the deployment, fixed at startup
  req,     \* the request
  active,  \* its token is a key, neither revoked nor expired
  dead,    \* its token was no active key when it came (history)
  phase,
  task,    \* the profile the scan and the intent detection leave
  outcome  \* the card chosen, and what the choice has seen (history)

vars == <<site, req, active, dead, phase, task, outcome>>

-----------------------------------------------------------------------------
(* Cards.                                                                  *)

\* What card_validation, registry and the subscription boundary let through.
ValidCard(c) ==
  /\ c.tier = "local" => c.locality # "remote"
  /\ "none" \in c.egress => c.egress = {"none"}
  /\ c.privacy = "local_only" => c.egress \subseteq {"none", "loopback"}
  /\ c.form = "spawn_cli" =>
       c.tier = "remote" /\ c.privacy = "any" /\ c.free /\ ~c.resident
  /\ c.free => c.price = 0

Relay(c) == CardOf[c].form = "spawn_cli"

\* is_resident_http_service: forwarded, not run by a supervisor.
Resident(c) == CardOf[c].form = "http_service" /\ CardOf[c].resident

ServedLocality(c) == IF Relay(c) THEN "remote" ELSE CardOf[c].locality

LocalCapable(c) ==
  /\ ServedLocality(c) = "loopback"
  /\ CardOf[c].privacy = "local_only"
  /\ CardOf[c].egress \subseteq {"none", "loopback"}

\* A relay without a role mapping is eligible for every role.
BindsRole(c, role) == role = NoRole \/ Relay(c) \/ role \in CardOf[c].roles

-----------------------------------------------------------------------------
(* The routing policy and the candidates of the request.                   *)

\* The condition of a rule is the set of tasks it matches.
Matching(rule) == <<task.privacy, task.intent>> \in rule.when

MatchedAction ==
  LET rules == PolicyOf[site.policy].rules
      hits == {i \in DOMAIN rules : Matching(rules[i])}
  IN IF hits = {} THEN PolicyOf[site.policy].default
     ELSE rules[CHOOSE i \in hits : \A j \in hits : i <= j]

Tiers == IF task.privacy = "local_only" THEN MatchedAction.tiers \ {"remote"}
         ELSE MatchedAction.tiers

FailClosed == task.privacy = "local_only" \/ MatchedAction.failClosed

InPolicy == {c \in site.cards : CardOf[c].tier \in Tiers}

\* The protocol endpoints forward; they run nothing here.
Forwarded == {c \in InPolicy : Resident(c)}

\* The stages of the pipeline that leave cards out.  The candidates are bound
\* to the role before it runs, so its fallback to other roles finds none.
Bound(cards) == {c \in cards : BindsRole(c, req.role)}
Private(cards) == IF task.privacy = "local_only" THEN {c \in cards : LocalCapable(c)} ELSE cards
Able(cards, needs) == {c \in cards : needs \subseteq CardOf[c].caps}
Priced(cards) == {c \in cards : CardOf[c].price \in Nat}
Price(c) == CardOf[c].price

\* Only chat keeps a session on its runtime.
Sticky == req.session /\ req.endpoint = "chat"

\* The pipeline's choice among the candidates that are not blocked: the
\* cheapest; a session prefers a runtime that is ready, then its own hash.
Cheapest(C) == {c \in C : \A d \in C : Price(c) <= Price(d)}
Tied(C, ready) ==
  CASE ~Sticky -> {c \in C : \A d \in C : c <= d}
    [] Sticky /\ C \cap ready = {} -> C
    [] OTHER -> C \cap ready

Pick(C, ready) == Tied(Cheapest(C), ready)

\* A cooling card is masked although it owns the request id.
MutMasked(cooling, owners) == cooling

\* The mask of cooling cards: one that owns the request id stays selectable,
\* and when nothing else fits a forwarded card is let through to its breaker.
Masked(cooling, owners) == IF req.id THEN cooling \ owners ELSE cooling

LastResort(C, masked) == C \ {c \in masked : ~Resident(c)}

\* No second pass.
MutAdmitted(C, masked) == C \ masked

Admitted(C, masked) == IF C \subseteq masked THEN LastResort(C, masked) ELSE C \ masked

\* PrivacyTightenedByContent is given as a reason.
Reason == IF task.tightened /\ ~task.killed THEN "tightened" ELSE "none"

\* Chat refuses before the pipeline when the policy leaves no card.
Rejection(cards) ==
  IF \/ cards = {} /\ FailClosed /\ req.endpoint = "chat"
     \/ Private(Bound(cards)) = {} /\ task.privacy = "local_only"
  THEN "local_only_unavailable" ELSE "no_candidate"

-----------------------------------------------------------------------------
(* The ceiling of a key.                                                   *)

Active == req.secret \in Secrets /\ active
FullAuthority(scope) == scope.roles = Roles

\* A request without role needs no authority.
MutEnforceScope(scope) ==
  /\ req.privacy \in scope.privacy
  /\ req.role = NoRole \/ req.role \in scope.roles

EnforceScope(scope) ==
  /\ req.privacy \in scope.privacy
  /\ req.fallback \/ req.role = NoRole => FullAuthority(scope)
  /\ req.role = NoRole \/ req.role \in scope.roles

\* The key's tenant is a ceiling: the request's own in tenant mode, none or
\* the personal one otherwise.
EnforceTenant(scope) ==
  IF site.mode = "tenant" THEN req.tenant \in Tenants /\ scope.tenant = req.tenant
  ELSE \/ scope.tenant = NoTenant
       \/ scope.tenant = Personal /\ req.tenant \in {NoTenant, Personal}

Keyless == site.devNoKey /\ req.secret = NoBearer

-----------------------------------------------------------------------------
NoTask == [privacy |-> "local_only", intent |-> "none", tightened |-> FALSE,
           killed |-> FALSE, failed |-> FALSE]
NoChoice == [cooling |-> {}, owners |-> {}, chosen |-> {}, why |-> "none"]

Init ==
  /\ site \in Sites
  /\ active \in BOOLEAN
  /\ req \in {r \in Requests : r.near \/ site.remoteBind}
  /\ dead = ~active
  /\ phase = "arrived"
  /\ task = NoTask
  /\ outcome = NoChoice

Refuse(why) ==
  /\ phase' = "refused"
  /\ outcome' = [outcome EXCEPT !.why = why]

\* remote_bind_auth_middleware.
Authenticate ==
  /\ phase = "arrived"
  /\ IF \/ Keyless /\ ~site.remoteBind /\ site.mode = "personal"
        \/ Active /\ EnforceTenant(Scopes[req.secret])
     THEN phase' = "authenticated" /\ UNCHANGED outcome
     ELSE Refuse("unauthorized")
  /\ UNCHANGED <<site, req, active, dead, task>>

\* The handler's own check.  Chat authenticates the token a second time; the
\* other endpoints use the identity the middleware found.
ChatAdmits ==
  IF Keyless THEN req.privacy = "local_only"
  ELSE Active /\ EnforceScope(Scopes[req.secret])

ProtocolAdmits ==
  IF Keyless THEN req.privacy = "local_only" ELSE EnforceScope(Scopes[req.secret])

Admit ==
  /\ phase = "authenticated"
  /\ IF IF req.endpoint = "chat" THEN ChatAdmits ELSE ProtocolAdmits
     THEN phase' = "admitted" /\ UNCHANGED outcome
     ELSE Refuse("forbidden")
  /\ UNCHANGED <<site, req, active, dead, task>>

\* The scan of the body can only tighten what the request declares.  It finds
\* something, cannot read all of the body, or fails.
FindsNothing == req.content = "clean"

\* The kill switch is not shown to the scan.
MutClean == FindsNothing

Clean == FindsNothing /\ ~site.kill

Inspect ==
  /\ phase = "admitted"
  /\ \E failed \in BOOLEAN :
       LET local == failed \/ ~Clean
           tightened == local /\ req.privacy = "any"
       IN task' = [task EXCEPT
            !.privacy = IF local THEN "local_only" ELSE req.privacy,
            !.tightened = tightened,
            !.killed = tightened /\ site.kill /\ ~failed,
            !.failed = failed]
  /\ phase' = "inspected"
  /\ UNCHANGED <<site, req, active, dead, outcome>>

\* A declared intent stands; else the detector may find one (chat only).
Profile ==
  /\ phase = "inspected"
  /\ \E i \in {req.intent} \cup (IF req.endpoint = "chat" /\ ~req.declaresIntent
                                 THEN site.intents ELSE {}) :
       task' = [task EXCEPT !.intent = i]
  /\ phase' = "profiled"
  /\ UNCHANGED <<site, req, active, dead, outcome>>

\* Select in one step: the breakers that cool, the cards with an answer or a
\* flight of this request id, and the runtimes that are ready are read here.
\* A flight or an answer is found only for a card that is forwarded.
Select(cards, needs) ==
  /\ phase = "profiled"
  /\ LET priced == Priced(Able(Private(Bound(cards)), needs))
     IN \E cooling \in SUBSET {c \in cards : site.breakers},
           owners \in SUBSET {c \in cards : req.id /\ Resident(c)},
           ready \in SUBSET {c \in cards : Sticky /\ ~Resident(c)} :
          LET C == Admitted(priced, Masked(cooling, owners))
          IN IF C = {}
             THEN /\ phase' = "refused"
                  /\ outcome' = [NoChoice EXCEPT !.cooling = cooling, !.owners = owners,
                                                 !.why = Rejection(cards)]
             ELSE \E c \in Pick(C, ready) :
                    /\ phase' = "decided"
                    /\ outcome' = [cooling |-> cooling, owners |-> owners,
                                   chosen |-> {c}, why |-> Reason]
  /\ UNCHANGED <<site, req, active, dead, task>>

\* The handlers.  The protocol endpoints overwrite the capabilities the caller
\* asks for.
Chat == req.endpoint = "chat" /\ Select(InPolicy, req.needs)
Messages == req.endpoint = "messages" /\ Select(Forwarded, {"chat"})
Embeddings == req.endpoint = "embeddings" /\ Select(Forwarded, {"embedding"})
Rerank == req.endpoint = "rerank" /\ Select(Forwarded, {"rerank"})

\* The checks after the choice: a keyless chat only runs on a free loopback
\* card, the relay takes no private request and none from another host, and
\* the protocol endpoints have no settlement for a card that costs.
BarredKeyless(c) ==
  req.endpoint = "chat" /\ Keyless /\ ~(ServedLocality(c) = "loopback" /\ CardOf[c].free)
BarredRelay(c) == Relay(c) /\ ~(task.privacy = "any" /\ req.near)
BarredPaid(c) == req.endpoint # "chat" /\ ~CardOf[c].free

Send ==
  /\ phase = "decided"
  /\ \A c \in outcome.chosen :
       IF BarredKeyless(c) \/ BarredRelay(c) \/ BarredPaid(c)
       THEN Refuse("forbidden")
       ELSE phase' = "sent" /\ UNCHANGED outcome
  /\ UNCHANGED <<site, req, active, dead, task>>

\* A failed append to the event log, an invalid field, a refusing ledger, a
\* client that goes away.
GiveUp ==
  /\ phase \in {"admitted", "inspected", "profiled", "decided"}
  /\ Refuse("error")
  /\ UNCHANGED <<site, req, active, dead, task>>

\* The key is revoked, or its time is over.
Revoke ==
  /\ active' = FALSE
  /\ UNCHANGED <<site, req, dead, phase, task, outcome>>

Next ==
  \/ Authenticate \/ Admit \/ Inspect \/ Profile
  \/ Chat \/ Messages \/ Embeddings \/ Rerank \/ Send \/ GiveUp \/ Revoke

Spec == Init /\ [][Next]_vars

-----------------------------------------------------------------------------
Sent == phase = "sent"

TypeOK ==
  /\ active \in BOOLEAN /\ dead \in BOOLEAN
  /\ phase \in {"arrived", "authenticated", "admitted", "inspected", "profiled",
                "decided", "sent", "refused"}
  /\ task.privacy \in {"local_only", "any"}
  /\ \A flag \in {"tightened", "killed", "failed"} : task[flag] \in BOOLEAN
  /\ outcome.chosen \in SUBSET site.cards
  /\ outcome.cooling \in SUBSET site.cards /\ outcome.owners \in SUBSET site.cards
  /\ phase \in {"decided", "sent"} => outcome.chosen # {}

\* A body leaves the host, or reaches a card that may let it leave, only when
\* the client declared it may, a key that allows it was shown, the scan found
\* nothing in it and the kill switch is off.
StaysLocal ==
  Sent => \A c \in outcome.chosen :
    \/ LocalCapable(c)
    \/ /\ req.privacy = "any" /\ req.content = "clean" /\ ~site.kill
       /\ req.secret \in Secrets /\ "any" \in Scopes[req.secret].privacy

\* A key that is not for every role only reaches cards that are bound to a
\* role of its scope, whatever the request says of fallbacks.
KeyStaysInRole ==
  Sent /\ req.secret \in Secrets /\ ~FullAuthority(Scopes[req.secret]) =>
    \A c \in outcome.chosen : \E role \in Scopes[req.secret].roles : BindsRole(c, role)

\* Without a bearer token only a free card of this host is reached, from it.
KeylessIsFreeAndLocal ==
  Sent /\ req.secret = NoBearer =>
    /\ ~site.remoteBind
    /\ \A c \in outcome.chosen : LocalCapable(c) /\ CardOf[c].free

\* A token that was no active key when the request came reaches no card, and
\* in tenant mode a key only acts for its own tenant.
DeadKeysReachNothing ==
  Sent /\ req.secret \in Secrets =>
    ~dead /\ (site.mode = "tenant" => Scopes[req.secret].tenant = req.tenant)

\* The cards the request could be sent to, were no breaker open.
Asked == CASE req.endpoint = "chat" -> req.needs
           [] req.endpoint = "messages" -> {"chat"}
           [] req.endpoint = "embeddings" -> {"embedding"}
           [] OTHER -> {"rerank"}
Fitting == {c \in site.cards :
  /\ CardOf[c].tier \in Tiers /\ (req.endpoint # "chat" => Resident(c))
  /\ BindsRole(c, req.role)
  /\ task.privacy = "local_only" => LocalCapable(c)
  /\ Asked \subseteq CardOf[c].caps /\ Price(c) # Unknown}

Cools(c) == c \in outcome.cooling /\ ~(req.id /\ c \in outcome.owners)

\* A card whose breaker cools is only tried when no other fits, and never
\* when it would be run here or relayed.
CoolingIsLastResort ==
  phase \in {"decided", "sent"} =>
    \A c \in outcome.chosen :
      Cools(c) => Resident(c) /\ \A d \in Fitting : Cools(d)

\* A retry leaves the card that has its answer, or is still computing it, for
\* a cheaper one or one of the same price that is preferred: never because
\* that card cools.
RetryKeepsItsCard ==
  phase \in {"decided", "sent"} /\ req.id =>
    \A o \in outcome.owners \cap Fitting : \A c \in outcome.chosen :
      Price(c) < Price(o) \/ (Price(c) = Price(o) /\ ~Cools(c))

\* A session never pays for its runtime: no card that fits and does not cool
\* is cheaper than the one chosen, and a price that is not known is no price.
NeverDearer ==
  phase \in {"decided", "sent"} =>
    LET fitting == Fitting IN
      /\ outcome.chosen \subseteq fitting
      /\ \A c \in outcome.chosen, d \in fitting : ~Cools(d) => Price(c) <= Price(d)

\* A request is told that nothing fits only when nothing does that could be
\* tried; and that only local cards would do only when that is so.
RefusedForCause ==
  phase = "refused" =>
    /\ outcome.why \in {"no_candidate", "local_only_unavailable"} =>
         \A c \in Fitting : Cools(c) /\ ~Resident(c)
    /\ outcome.why = "local_only_unavailable" =>
         FailClosed /\ \A c \in Fitting : ~LocalCapable(c)

\* The reason a response gives for staying local: the content, or a scan that
\* failed, and never the kill switch or the client's own declaration.
ReasonIsTrue ==
  Sent =>
    /\ outcome.why = "tightened" =>
         req.privacy = "any" /\ task.privacy = "local_only" /\ (site.kill => task.failed)
    /\ req.privacy = "any" /\ req.content # "clean" /\ ~site.kill =>
         outcome.why = "tightened"
-----------------------------------------------------------------------------
(* What the run checks together.                                           *)

\* The ceiling of a key, or of having none, holds at every endpoint, though
\* the middleware and the handlers each apply a part of it and the key may be
\* revoked in between.
KeysConfined == KeyStaysInRole /\ KeylessIsFreeAndLocal /\ DeadKeysReachNothing

\* Of the cards that fit, the choice is one a retry, a breaker and a price
\* together allow.
RightCard == TypeOK /\ CoolingIsLastResort /\ RetryKeepsItsCard /\ NeverDearer

\* What a client is told is so: why it is refused, why it stays local.
AnswersTrue == RefusedForCause /\ ReasonIsTrue
=============================================================================
