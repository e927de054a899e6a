---------------------------- MODULE RouterProofs -----------------------------
(***************************************************************************)
(* Theorems about three components of the router crate, each with its own  *)
(* specification and inductive invariant: the path of a request (Routing), *)
(* the streamed call (Streams) and the bootstrap of its database           *)
(* (Storage).  The three share no state and no name.                       *)
(***************************************************************************)
EXTENDS Routing, Streams, Storage, SumLemmas

(***************************************************************************)
(* Routing, for every deployment, catalogue, policy, key and request.  The *)
(* inductive invariant says, phase by phase, what has been established     *)
(* about the request: who it is from, what it may ask for, what the scan   *)
(* left of that, how the card was chosen and what the last checks let      *)
(* through.                                                                *)
(***************************************************************************)

Profiled == {"inspected", "profiled", "decided", "sent"}
Admitted_ == {"admitted"} \cup Profiled
Known == {"authenticated"} \cup Admitted_

Fixed ==
  /\ site \in Sites /\ req \in Requests
  /\ req.near \/ site.remoteBind
  /\ active \in BOOLEAN /\ dead \in BOOLEAN
  /\ active => ~dead
  /\ phase \in Known \cup {"arrived", "refused"}

Shape ==
  /\ task = [privacy |-> task.privacy, intent |-> task.intent,
             tightened |-> task.tightened, killed |-> task.killed, failed |-> task.failed]
  /\ task.privacy \in {"local_only", "any"}
  /\ task.tightened \in BOOLEAN /\ task.killed \in BOOLEAN /\ task.failed \in BOOLEAN
  /\ outcome = [cooling |-> outcome.cooling, owners |-> outcome.owners,
                chosen |-> outcome.chosen, why |-> outcome.why]
  /\ outcome.chosen \subseteq site.cards
  /\ outcome.cooling \subseteq site.cards /\ outcome.owners \subseteq site.cards

\* The middleware let the request in.
Authenticated ==
  \/ Keyless /\ ~site.remoteBind
  \/ /\ req.secret \in Secrets /\ ~dead
     /\ EnforceTenant(Scopes[req.secret])

\* The handler let it ask for what it asks for.
Allowed ==
  IF Keyless THEN req.privacy = "local_only" ELSE EnforceScope(Scopes[req.secret])

\* The scan has only tightened it, and remembers why.
Scanned ==
  /\ task.privacy = "any" => req.privacy = "any" /\ Clean
  /\ task.tightened => req.privacy = "any" /\ task.privacy = "local_only"
  /\ task.tightened /\ ~task.killed /\ site.kill => task.failed
  /\ req.privacy = "any" /\ ~Clean => task.tightened
  /\ task.killed => site.kill

\* The card is one that fits, and no preference beat its price or its breaker.
Choice ==
  /\ outcome.chosen # {} /\ outcome.chosen \subseteq Fitting
  /\ \A c \in outcome.chosen : Cools(c) => Resident(c) /\ \A d \in Fitting : Cools(d)
  /\ \A c \in outcome.chosen, d \in Fitting : ~Cools(d) => Price(c) <= Price(d)
  /\ outcome.why = Reason

\* The last checks found nothing against it.
Cleared ==
  \A c \in outcome.chosen : ~(BarredKeyless(c) \/ BarredRelay(c) \/ BarredPaid(c))

IInv ==
  /\ Fixed /\ Shape
  /\ phase \in Known => Authenticated
  /\ phase \in Admitted_ => Allowed
  /\ phase \in Profiled => Scanned
  /\ phase \in {"decided", "sent"} => Choice
  /\ phase = "sent" => Cleared
  /\ RefusedForCause

-----------------------------------------------------------------------------
(* The selection *)

\* The stages of the pipeline leave exactly the cards that fit.
LEMMA StagesLeaveFitting ==
  ASSUME Fixed,
         NEW cards, NEW needs,
         \/ /\ req.endpoint = "chat" /\ cards = InPolicy /\ needs = req.needs
         \/ /\ req.endpoint # "chat" /\ cards = Forwarded /\ needs = Asked
  PROVE  Priced(Able(Private(Bound(cards)), needs)) = Fitting
<1>1. \A c \in site.cards : CardOf[c].price \in Nat <=> Price(c) # Unknown
  BY RoutingAssumption DEF Price, Fixed
<1>2. CASE req.endpoint = "chat"
  <2>1. cards = InPolicy /\ needs = Asked
    BY <1>2 DEF Asked
  <2> QED
    BY <1>1, <1>2, <2>1 DEF Priced, Able, Private, Bound, InPolicy, Fitting
<1>3. CASE req.endpoint # "chat"
  BY <1>1, <1>3 DEF Priced, Able, Private, Bound, Forwarded, InPolicy, Fitting
<1> QED
  BY <1>2, <1>3

\* A pick is one of the cheapest.
LEMMA PickIsCheapest ==
  ASSUME NEW C, NEW ready, NEW c \in Pick(C, ready)
  PROVE  c \in C /\ \A d \in C : Price(c) <= Price(d)
  BY DEF Pick, Tied, Cheapest

\* A selection establishes Choice, or refuses for cause.
LEMMA Selected ==
  ASSUME IInv, NEW cards, NEW needs,
         \/ /\ req.endpoint = "chat" /\ cards = InPolicy /\ needs = req.needs
         \/ /\ req.endpoint # "chat" /\ cards = Forwarded /\ needs = Asked,
         Select(cards, needs)
  PROVE  /\ phase = "profiled"
         /\ UNCHANGED <<site, req, active, dead, task>>
         /\ Shape'
         /\ \/ phase' = "decided" /\ Choice'
            \/ phase' = "refused" /\ RefusedForCause'
<1> DEFINE priced == Priced(Able(Private(Bound(cards)), needs))
<1>1. priced = Fitting
  BY StagesLeaveFitting DEF IInv
<1>2. phase = "profiled" /\ UNCHANGED <<site, req, active, dead, task>>
  BY DEF Select
<1>3. Fitting' = Fitting
  BY <1>2 DEF Fitting, Tiers, MatchedAction, Matching, Asked, BindsRole, Relay, Resident,
              LocalCapable, ServedLocality, Price
<1>4. cards \subseteq site.cards
  BY DEF InPolicy, Forwarded
<1>5. PICK cooling \in SUBSET cards, owners \in SUBSET cards, ready \in SUBSET cards :
        LET C == Admitted(priced, Masked(cooling, owners))
        IN IF C = {}
           THEN /\ phase' = "refused"
                /\ outcome' = [NoChoice EXCEPT !.cooling = cooling, !.owners = owners,
                                               !.why = Rejection(cards)]
           ELSE \E c \in Pick(C, ready) :
                  /\ phase' = "decided"
                  /\ outcome' = [cooling |-> cooling, owners |-> owners,
                                 chosen |-> {c}, why |-> Reason]
  BY DEF Select
<1> DEFINE masked == Masked(cooling, owners)
           C == Admitted(priced, masked)
<1>6. CASE C = {}
  <2>1. /\ phase' = "refused"
        /\ outcome' = [cooling |-> cooling, owners |-> owners, chosen |-> {},
                       why |-> Rejection(cards)]
    BY <1>5, <1>6 DEF NoChoice
  <2>2. \A c \in Fitting : c \in masked /\ ~Resident(c)
    BY <1>1, <1>6 DEF Admitted, LastResort
  <2>3. \A c : Cools(c)' <=> c \in masked
    BY <2>1, <1>2 DEF Cools, Masked
  <2>4. \A c : Resident(c)' <=> Resident(c)
    BY DEF Resident
  <2>5. Rejection(cards) = "local_only_unavailable" =>
          FailClosed /\ \A c \in Fitting : ~LocalCapable(c)
    <3>1. SUFFICES ASSUME Rejection(cards) = "local_only_unavailable"
                   PROVE  FailClosed /\ Fitting = {}
      OBVIOUS
    <3>2. CASE cards = {} /\ FailClosed
      BY <3>2, <1>1 DEF Priced, Able, Private, Bound
    <3>3. CASE Private(Bound(cards)) = {} /\ task.privacy = "local_only"
      BY <3>3, <1>1 DEF Priced, Able, FailClosed
    <3> QED
      BY <3>1, <3>2, <3>3 DEF Rejection
  <2>6. FailClosed' <=> FailClosed
    BY <1>2 DEF FailClosed, MatchedAction, Matching
  <2>7. \A c : LocalCapable(c)' <=> LocalCapable(c)
    BY DEF LocalCapable, ServedLocality, Relay
  <2>8. RefusedForCause'
    BY <2>1, <2>2, <2>3, <2>4, <2>5, <2>6, <2>7, <1>3 DEF RefusedForCause
  <2>9. Shape'
    BY <2>1, <1>2, <1>4 DEF Shape, IInv
  <2> QED
    BY <1>2, <2>1, <2>8, <2>9
<1>7. CASE C # {}
  <2>1. PICK c \in Pick(C, ready) :
          /\ phase' = "decided"
          /\ outcome' = [cooling |-> cooling, owners |-> owners, chosen |-> {c}, why |-> Reason]
    BY <1>5, <1>7
  <2>2. c \in C /\ \A d \in C : Price(c) <= Price(d)
    BY PickIsCheapest
  <2>3. \A d : Cools(d)' <=> d \in masked
    BY <2>1, <1>2 DEF Cools, Masked
  <2>4. C \subseteq Fitting
    BY <1>1 DEF Admitted, LastResort
  <2>5. c \in masked => Resident(c) /\ \A d \in Fitting : d \in masked
    BY <2>2, <1>1 DEF Admitted, LastResort
  <2>6. \A d \in Fitting : d \notin masked => d \in C
    BY <1>1 DEF Admitted
  <2>7. Reason' = Reason
    BY <1>2 DEF Reason
  <2>8. Choice'
    BY <2>1, <2>2, <2>3, <2>4, <2>5, <2>6, <2>7, <1>3 DEF Choice, Resident, Price
  <2>9. Shape'
    BY <2>1, <2>2, <2>4, <1>2, <1>4 DEF Shape, IInv, Fitting
  <2>10. phase' # "refused"
    BY <2>1
  <2> QED
    BY <1>2, <2>1, <2>8, <2>9
<1> QED
  BY <1>6, <1>7

-----------------------------------------------------------------------------
(* The invariant *)

\* A refusal that is not the pipeline's says nothing about the cards.
LEMMA OtherRefusals ==
  ASSUME IInv, NEW why \in {"unauthorized", "forbidden", "error"}, Refuse(why),
         UNCHANGED <<site, req, active, dead, task>>
  PROVE  IInv'
<1>1. /\ phase' = "refused"
      /\ outcome' = [cooling |-> outcome.cooling, owners |-> outcome.owners,
                     chosen |-> outcome.chosen, why |-> why]
  BY DEF Refuse, IInv, Shape
<1>2. Fixed'
  BY <1>1 DEF IInv, Fixed
<1>3. Shape'
  BY <1>1 DEF IInv, Shape
<1>4. RefusedForCause'
  BY <1>1 DEF RefusedForCause
<1> QED
  BY <1>1, <1>2, <1>3, <1>4 DEF IInv, Known, Admitted_, Profiled

\* What is known of who asks and for what rests on the site and the request.
LEMMA RequestKept ==
  ASSUME UNCHANGED <<site, req, dead>>
  PROVE  Authenticated' = Authenticated /\ Allowed' = Allowed
  BY DEF Authenticated, Allowed, Keyless, EnforceTenant, EnforceScope, FullAuthority

\* What is known of the choice rests on the task and the outcome too.
LEMMA ChoiceKept ==
  ASSUME UNCHANGED <<site, req, dead, task, outcome>>
  PROVE  /\ Scanned' = Scanned /\ Choice' = Choice /\ Cleared' = Cleared
         /\ Fitting' = Fitting
<1>1. Fitting' = Fitting
  BY DEF Fitting, Tiers, MatchedAction, Matching, Asked, BindsRole, Relay, Resident,
         LocalCapable, ServedLocality, Price
<1>2. Scanned' = Scanned
  BY DEF Scanned, Clean, FindsNothing
<1>3. Choice' = Choice
  BY <1>1 DEF Choice, Cools, Resident, Price, Reason
<1>4. Cleared' = Cleared
  BY DEF Cleared, BarredKeyless, BarredRelay, BarredPaid, Keyless, ServedLocality, Relay
<1> QED
  BY <1>1, <1>2, <1>3, <1>4

\* A request that has just come is known to be nothing but one of Requests.
LEMMA Initially == Init => IInv
<1> SUFFICES ASSUME Init
             PROVE  IInv
  OBVIOUS
<1>1. Fixed
  BY DEF Init, Fixed
<1>2. Shape
  BY DEF Init, Shape, NoTask, NoChoice
<1>3. RefusedForCause
  BY DEF Init, RefusedForCause
<1> QED
  BY <1>1, <1>2, <1>3 DEF Init, IInv, Known, Admitted_, Profiled

\* Every step establishes what the next phase relies on and keeps the rest.
LEMMA Stepwise == IInv /\ [Next]_vars => IInv'
<1> SUFFICES ASSUME IInv, [Next]_vars
             PROVE  IInv'
  OBVIOUS
<1> USE DEF Known, Admitted_, Profiled
<1>1. CASE Authenticate
  <2>1. CASE Refuse("unauthorized")
    BY <1>1, <2>1, OtherRefusals DEF Authenticate
  <2>2. CASE ~Refuse("unauthorized")
    <3>1. /\ phase' = "authenticated" /\ UNCHANGED <<site, req, active, dead, task, outcome>>
          /\ Authenticated
      BY <1>1, <2>2 DEF Authenticate, Authenticated, Active, IInv, Fixed
    <3>2. Fixed' /\ Shape' /\ RefusedForCause'
      BY <3>1 DEF IInv, Fixed, Shape, RefusedForCause
    <3> QED
      BY <3>1, <3>2, RequestKept DEF IInv
  <2> QED
    BY <2>1, <2>2
<1>2. CASE Admit
  <2>1. CASE Refuse("forbidden")
    BY <1>2, <2>1, OtherRefusals DEF Admit
  <2>2. CASE ~Refuse("forbidden")
    <3>1. /\ phase = "authenticated" /\ phase' = "admitted"
          /\ UNCHANGED <<site, req, active, dead, task, outcome>>
          /\ Allowed
      BY <1>2, <2>2 DEF Admit, Allowed, ChatAdmits, ProtocolAdmits
    <3>2. Fixed' /\ Shape' /\ RefusedForCause'
      BY <3>1 DEF IInv, Fixed, Shape, RefusedForCause
    <3> QED
      BY <3>1, <3>2, RequestKept DEF IInv
  <2> QED
    BY <2>1, <2>2
<1>3. CASE Inspect
  <2>1. PICK failed \in BOOLEAN :
          LET local == failed \/ ~Clean
              tightened == local /\ req.privacy = "any"
          IN task' = [task EXCEPT
               !.privacy = IF local THEN "local_only" ELSE req.privacy,
               !.tightened = tightened,
               !.killed = tightened /\ site.kill /\ ~failed,
               !.failed = failed]
    BY <1>3 DEF Inspect
  <2>2. phase = "admitted" /\ phase' = "inspected" /\ UNCHANGED <<site, req, active, dead, outcome>>
    BY <1>3 DEF Inspect
  <2> DEFINE local == failed \/ ~Clean
             tightened == local /\ req.privacy = "any"
  <2>3. task' = [privacy |-> IF local THEN "local_only" ELSE req.privacy,
                 intent |-> task.intent, tightened |-> tightened,
                 killed |-> tightened /\ site.kill /\ ~failed, failed |-> failed]
    BY <2>1 DEF IInv, Shape
  <2>4. req.privacy \in {"local_only", "any"} /\ Clean \in BOOLEAN
    BY RoutingAssumption DEF IInv, Fixed, Clean, FindsNothing
  <2>5. Clean' = Clean
    BY <2>2 DEF Clean, FindsNothing
  <2>6. Scanned'
    BY <2>2, <2>3, <2>4, <2>5 DEF Scanned
  <2>7. Shape'
    BY <2>2, <2>3, <2>4 DEF IInv, Shape
  <2>8. Fixed' /\ RefusedForCause'
    BY <2>2 DEF IInv, Fixed, RefusedForCause
  <2> QED
    BY <2>2, <2>6, <2>7, <2>8, RequestKept DEF IInv
<1>4. CASE Profile
  <2>1. PICK i : task' = [task EXCEPT !.intent = i]
    BY <1>4 DEF Profile
  <2>2. phase = "inspected" /\ phase' = "profiled" /\ UNCHANGED <<site, req, active, dead, outcome>>
    BY <1>4 DEF Profile
  <2>3. task' = [privacy |-> task.privacy, intent |-> i, tightened |-> task.tightened,
                 killed |-> task.killed, failed |-> task.failed]
    BY <2>1 DEF IInv, Shape
  <2>4. Shape'
    BY <2>2, <2>3 DEF IInv, Shape
  <2>5. Scanned'
    BY <2>2, <2>3 DEF IInv, Scanned, Clean, FindsNothing
  <2>6. Fixed' /\ RefusedForCause'
    BY <2>2 DEF IInv, Fixed, RefusedForCause
  <2> QED
    BY <2>2, <2>4, <2>5, <2>6, RequestKept DEF IInv
<1>5. CASE Chat \/ Messages \/ Embeddings \/ Rerank
  <2>1. PICK cards, needs :
          /\ \/ /\ req.endpoint = "chat" /\ cards = InPolicy /\ needs = req.needs
             \/ /\ req.endpoint # "chat" /\ cards = Forwarded /\ needs = Asked
          /\ Select(cards, needs)
    BY <1>5 DEF Chat, Messages, Embeddings, Rerank, Asked
  <2>2. /\ phase = "profiled"
        /\ UNCHANGED <<site, req, active, dead, task>>
        /\ Shape'
        /\ \/ phase' = "decided" /\ Choice'
           \/ phase' = "refused" /\ RefusedForCause'
    BY <2>1, Selected
  <2>3. Fixed'
    BY <2>2 DEF IInv, Fixed
  <2>4. Scanned'
    BY <2>2 DEF IInv, Scanned, Clean, FindsNothing
  <2>5. RefusedForCause'
    BY <2>2 DEF RefusedForCause
  <2> QED
    BY <2>2, <2>3, <2>4, <2>5, RequestKept DEF IInv
<1>6. CASE Send
  <2>1. /\ phase = "decided" /\ UNCHANGED <<site, req, active, dead, task>>
        /\ outcome.chosen # {}
    BY <1>6 DEF Send, IInv, Choice
  <2>2. CASE Refuse("forbidden")
    BY <2>1, <2>2, OtherRefusals
  <2>3. CASE ~Refuse("forbidden")
    <3>1. phase' = "sent" /\ UNCHANGED outcome /\ Cleared
      BY <1>6, <2>1, <2>3 DEF Send, Cleared
    <3>2. Fixed' /\ Shape' /\ RefusedForCause'
      BY <2>1, <3>1 DEF IInv, Fixed, Shape, RefusedForCause
    <3> QED
      BY <2>1, <3>1, <3>2, RequestKept, ChoiceKept DEF IInv
  <2> QED
    BY <2>2, <2>3
<1>7. CASE GiveUp
  BY <1>7, OtherRefusals DEF GiveUp
<1>8. CASE Revoke
  <2>1. active' = FALSE /\ UNCHANGED <<site, req, dead, phase, task, outcome>>
    BY <1>8 DEF Revoke
  <2>2. Fixed' /\ Shape'
    BY <2>1 DEF IInv, Fixed, Shape
  <2>3. RefusedForCause'
    BY <2>1, ChoiceKept DEF IInv, RefusedForCause, Cools, Resident, FailClosed, LocalCapable,
          ServedLocality, Relay, MatchedAction, Matching
  <2> QED
    BY <2>1, <2>2, <2>3, RequestKept, ChoiceKept DEF IInv
<1>9. CASE UNCHANGED vars
  <2>1. UNCHANGED <<site, req, active, dead, phase, task, outcome>>
    BY <1>9 DEF vars
  <2>2. Fixed' /\ Shape'
    BY <2>1 DEF IInv, Fixed, Shape
  <2>3. RefusedForCause'
    BY <2>1, ChoiceKept DEF IInv, RefusedForCause, Cools, Resident, FailClosed, LocalCapable,
          ServedLocality, Relay, MatchedAction, Matching
  <2> QED
    BY <2>1, <2>2, <2>3, RequestKept, ChoiceKept DEF IInv
<1> QED
  BY <1>1, <1>2, <1>3, <1>4, <1>5, <1>6, <1>7, <1>8, <1>9 DEF Next

LEMMA Inductive == Spec => []IInv
  BY Initially, Stepwise, PTL DEF Spec

-----------------------------------------------------------------------------
(* What a reader should know *)

\* The records keep their shape: the cards a selection saw and the one it
\* chose are cards of the deployment, and a decision always has one.
THEOREM TypeOKHolds == Spec => []TypeOK
<1>1. IInv => TypeOK
  <2> SUFFICES ASSUME IInv
               PROVE  TypeOK
    OBVIOUS
  <2>1. \A flag \in {"tightened", "killed", "failed"} : task[flag] \in BOOLEAN
    BY DEF IInv, Shape
  <2> QED
    BY <2>1 DEF IInv, Fixed, Shape, Choice, TypeOK, Known, Admitted_, Profiled
<1> QED
  BY <1>1, Inductive, PTL

\* What the chain of checks established, for a request that was sent.
LEMMA SentMeans ==
  ASSUME IInv, Sent
  PROVE  Fixed /\ Shape /\ Authenticated /\ Allowed /\ Scanned /\ Choice /\ Cleared
  BY DEF IInv, Sent, Known, Admitted_, Profiled

\* A key excludes the keyless way, and without one only that way is open.
LEMMA KeyOrKeyless ==
  /\ req.secret \in Secrets => ~Keyless
  /\ req.secret = NoBearer => req.secret \notin Secrets
  BY RoutingAssumption DEF Keyless

\* Privacy, end to end: a card that is not local only gets a body the client
\* declared free to leave, under a key that allows it, that the scan found
\* clean, while the kill switch is off.
THEOREM StaysLocalHolds == Spec => []StaysLocal
<1>1. IInv => StaysLocal
  <2> SUFFICES ASSUME IInv, Sent, NEW c \in outcome.chosen, ~LocalCapable(c)
               PROVE  /\ req.privacy = "any" /\ req.content = "clean" /\ ~site.kill
                      /\ req.secret \in Secrets /\ "any" \in Scopes[req.secret].privacy
    BY DEF StaysLocal
  <2>1. task.privacy = "any"
    BY SentMeans DEF Choice, Fitting, Shape
  <2>2. req.privacy = "any" /\ req.content = "clean" /\ ~site.kill
    BY <2>1, SentMeans DEF Scanned, Clean, FindsNothing
  <2>3. ~Keyless
    BY <2>2, SentMeans DEF Allowed
  <2>4. req.secret \in Secrets
    BY <2>3, SentMeans DEF Authenticated
  <2>5. "any" \in Scopes[req.secret].privacy
    BY <2>2, <2>3, SentMeans DEF Allowed, EnforceScope
  <2> QED
    BY <2>2, <2>4, <2>5
<1> QED
  BY <1>1, Inductive, PTL

\* A key that is not for every role reaches only cards bound to its roles.
THEOREM KeyStaysInRoleHolds == Spec => []KeyStaysInRole
<1>1. IInv => KeyStaysInRole
  <2> SUFFICES ASSUME IInv, Sent, req.secret \in Secrets,
                      ~FullAuthority(Scopes[req.secret]),
                      NEW c \in outcome.chosen
               PROVE  \E role \in Scopes[req.secret].roles : BindsRole(c, role)
    BY DEF KeyStaysInRole
  <2>1. EnforceScope(Scopes[req.secret])
    BY SentMeans, KeyOrKeyless DEF Allowed
  <2>2. req.role # NoRole /\ req.role \in Scopes[req.secret].roles
    BY <2>1 DEF EnforceScope
  <2>3. BindsRole(c, req.role)
    BY SentMeans DEF Choice, Fitting
  <2> QED
    BY <2>2, <2>3
<1> QED
  BY <1>1, Inductive, PTL

\* Without a bearer token only a free card of this host is reached, and only
\* while the router is not bound to the network.
THEOREM KeylessHolds == Spec => []KeylessIsFreeAndLocal
<1>1. IInv => KeylessIsFreeAndLocal
  <2> SUFFICES ASSUME IInv, Sent, req.secret = NoBearer
               PROVE  /\ ~site.remoteBind
                      /\ \A c \in outcome.chosen : LocalCapable(c) /\ CardOf[c].free
    BY DEF KeylessIsFreeAndLocal
  <2>1. Keyless /\ ~site.remoteBind
    BY SentMeans, KeyOrKeyless DEF Authenticated
  <2>2. task.privacy = "local_only"
    BY <2>1, SentMeans DEF Allowed, Scanned, Shape
  <2>3. \A c \in outcome.chosen : LocalCapable(c)
    BY <2>2, SentMeans DEF Choice, Fitting
  <2>4. \A c \in outcome.chosen : CardOf[c].free
    BY <2>1, SentMeans DEF Cleared, BarredKeyless, BarredPaid
  <2> QED
    BY <2>1, <2>3, <2>4
<1> QED
  BY <1>1, Inductive, PTL

\* A token that was no active key when the request came reaches no card, and
\* in tenant mode a key only acts for its own tenant.
THEOREM DeadKeysHold == Spec => []DeadKeysReachNothing
<1>1. IInv => DeadKeysReachNothing
  BY SentMeans, KeyOrKeyless DEF DeadKeysReachNothing, Authenticated, EnforceTenant
<1> QED
  BY <1>1, Inductive, PTL

\* A decision's card was chosen by the pipeline.
LEMMA DecidedMeans ==
  ASSUME IInv, phase \in {"decided", "sent"}
  PROVE  Choice /\ \A c \in Fitting : Price(c) \in Nat
<1>1. Choice
  BY DEF IInv
<1>2. \A c \in Fitting : Price(c) \in Nat
  BY RoutingAssumption DEF IInv, Fixed, Fitting, Price
<1> QED
  BY <1>1, <1>2

\* A cooling breaker is only tried when every card that fits cools, and only
\* on a card that is forwarded.
THEOREM CoolingIsLastResortHolds == Spec => []CoolingIsLastResort
<1>1. IInv => CoolingIsLastResort
  BY DecidedMeans DEF CoolingIsLastResort, Choice
<1> QED
  BY <1>1, Inductive, PTL

\* A retry is never turned away from the card that owns its request id
\* because that card cools: only a price or a preference among equals does it.
THEOREM RetryKeepsItsCardHolds == Spec => []RetryKeepsItsCard
<1>1. IInv => RetryKeepsItsCard
  <2> SUFFICES ASSUME IInv, phase \in {"decided", "sent"}, req.id,
                      NEW o \in outcome.owners \cap Fitting, NEW c \in outcome.chosen
               PROVE  Price(c) < Price(o) \/ (Price(c) = Price(o) /\ ~Cools(c))
    BY DEF RetryKeepsItsCard
  <2>1. ~Cools(o)
    BY DEF Cools
  <2>2. Price(c) <= Price(o) /\ ~Cools(c)
    BY <2>1, DecidedMeans DEF Choice
  <2>3. Price(c) \in Nat /\ Price(o) \in Nat
    BY DecidedMeans DEF Choice
  <2> QED
    BY <2>2, <2>3
<1> QED
  BY <1>1, Inductive, PTL

\* No session, hash or readiness of a runtime is paid for, and a card whose
\* price is not known is never chosen.
THEOREM NeverDearerHolds == Spec => []NeverDearer
<1>1. IInv => NeverDearer
  BY DecidedMeans DEF NeverDearer, Choice
<1> QED
  BY <1>1, Inductive, PTL

\* A client is told that nothing fits only when nothing that fits could be
\* tried, and that only local cards would do only when there is none.
THEOREM RefusedForCauseHolds == Spec => []RefusedForCause
<1>1. IInv => RefusedForCause
  BY DEF IInv
<1> QED
  BY <1>1, Inductive, PTL

\* The reason a response gives for staying local is the content's, or a
\* failed scan's, and is given whenever the content is the cause.
THEOREM ReasonIsTrueHolds == Spec => []ReasonIsTrue
<1>1. IInv => ReasonIsTrue
  <2> SUFFICES ASSUME IInv, Sent
               PROVE  /\ outcome.why = "tightened" =>
                           req.privacy = "any" /\ task.privacy = "local_only"
                           /\ (site.kill => task.failed)
                      /\ req.privacy = "any" /\ req.content # "clean" /\ ~site.kill =>
                           outcome.why = "tightened"
    BY DEF ReasonIsTrue
  <2>1. outcome.why = Reason /\ Scanned
    BY SentMeans DEF Choice
  <2>2. ASSUME outcome.why = "tightened"
        PROVE  req.privacy = "any" /\ task.privacy = "local_only" /\ (site.kill => task.failed)
    BY <2>1, <2>2 DEF Reason, Scanned
  <2>3. ASSUME req.privacy = "any", req.content # "clean", ~site.kill
        PROVE  outcome.why = "tightened"
    BY <2>1, <2>3 DEF Reason, Scanned, Clean, FindsNothing
  <2> QED
    BY <2>2, <2>3
<1> QED
  BY <1>1, Inductive, PTL

-----------------------------------------------------------------------------
(* What the run checks, put together.                                      *)

\* The ceiling of a key, or of having none, holds at every endpoint.
THEOREM KeysConfinedHolds == Spec => []KeysConfined
BY KeyStaysInRoleHolds, KeylessHolds, DeadKeysHold, PTL DEF KeysConfined

\* The choice is one that a retry, a breaker and a price together allow.
THEOREM RightCardHolds == Spec => []RightCard
BY TypeOKHolds, CoolingIsLastResortHolds, RetryKeepsItsCardHolds, NeverDearerHolds, PTL
   DEF RightCard

\* What a client is told of a refusal or of its privacy is so.
THEOREM AnswersTrueHolds == Spec => []AnswersTrue
BY RefusedForCauseHolds, ReasonIsTrueHolds, PTL DEF AnswersTrue

-----------------------------------------------------------------------------
(***************************************************************************)
(* Streams, for every upstream and every length of stream.  The invariant  *)
(* follows the chunks: what is written, what the connection writes, what   *)
(* the channel and the producer hold, put together, is what was sent, and  *)
(* the marker of the guard is where an end of the text would be that the   *)
(* connection has got (StreamInv).                                         *)
(***************************************************************************)
Ends(s) == {i \in DOMAIN s : IsEnd(s, i)}
Break(c) == c \in {"cr", "lf"}
Blank_(s, i) == Line(s, i) = <<>>

\* where the lines of s may start, up to position i
Openings(s, i) == {j + 1 : j \in {j \in 1 .. i - 1 : Break(s[j])}} \cup {1}

\* An appended sequence, element by element.
LEMMA Appended ==
  ASSUME NEW S, NEW s \in Seq(S), NEW c \in S
  PROVE  /\ Append(s, c) \in Seq(S) /\ Len(Append(s, c)) = Len(s) + 1
         /\ DOMAIN Append(s, c) = 1 .. Len(s) + 1 /\ DOMAIN s = 1 .. Len(s) /\ Len(s) \in Nat
         /\ \A i \in 1 .. Len(s) : Append(s, c)[i] = s[i]
         /\ Append(s, c)[Len(s) + 1] = c
  OBVIOUS

\* Two sequences that agree up to b have the same pieces up to b.
LEMMA SubSame ==
  ASSUME NEW S, NEW s \in Seq(S), NEW t \in Seq(S), NEW a \in Nat \ {0}, NEW b \in Int,
         b <= Len(s), b <= Len(t),
         \A i \in 1 .. b : s[i] = t[i]
  PROVE  SubSeq(s, a, b) = SubSeq(t, a, b)
  OBVIOUS

\* A piece that reaches the end grows with the sequence.
LEMMA SubAppend ==
  ASSUME NEW S, NEW s \in Seq(S), NEW c \in S, NEW a \in 1 .. Len(s) + 1
  PROVE  SubSeq(Append(s, c), a, Len(s) + 1) = Append(SubSeq(s, a, Len(s)), c)
  OBVIOUS

\* A piece of a sequence has its elements.
LEMMA SubType ==
  ASSUME NEW S, NEW s \in Seq(S), NEW a \in Nat \ {0}, NEW b \in Nat, b <= Len(s)
  PROVE  SubSeq(s, a, b) \in Seq(S)
  OBVIOUS

\* Nothing lies behind the end.
LEMMA SubEmpty ==
  ASSUME NEW S, NEW s \in Seq(S)
  PROVE  SubSeq(s, Len(s) + 1, Len(s)) = <<>>
  OBVIOUS

\* A line starts at the last place where one may.
LEMMA StartsDef ==
  ASSUME NEW s, NEW i
  PROVE Starts(s, i) = CHOOSE j \in Openings(s, i) : \A h \in Openings(s, i) : h <= j
  BY DEF Starts, Openings, Break

\* What a position of s is does not depend on what follows it.
LEMMA Local ==
  ASSUME NEW s \in Seq(Chunks), NEW c \in Chunks
  PROVE  /\ \A i \in 1 .. Len(s) + 1 : Openings(Append(s, c), i) = Openings(s, i)
         /\ \A i \in 1 .. Len(s) + 1 : Starts(Append(s, c), i) = Starts(s, i)
         /\ \A i \in 1 .. Len(s) : IsEnd(Append(s, c), i) <=> IsEnd(s, i)
         /\ \A i \in Ends(s) : i \in 1 .. Len(s)
         /\ Ends(Append(s, c)) =
              IF Break(c) /\ ~(c = "lf" /\ Len(s) > 0 /\ s[Len(s)] = "cr")
              THEN Ends(s) \cup {Len(s) + 1} ELSE Ends(s)
<1> DEFINE t == Append(s, c)
<1>1. /\ t \in Seq(Chunks) /\ Len(t) = Len(s) + 1 /\ Len(s) \in Nat
      /\ DOMAIN t = 1 .. Len(s) + 1 /\ DOMAIN s = 1 .. Len(s)
      /\ \A i \in 1 .. Len(s) : t[i] = s[i]
      /\ t[Len(s) + 1] = c
  BY Appended
<1> HIDE DEF t
<1>2. ASSUME NEW i \in 1 .. Len(s) + 1 PROVE Openings(t, i) = Openings(s, i)
  <2>1. \A j \in 1 .. i - 1 : t[j] = s[j]
    BY <1>1
  <2>2. {j \in 1 .. i - 1 : Break(t[j])} = {j \in 1 .. i - 1 : Break(s[j])}
    BY <2>1
  <2> QED BY <2>2 DEF Openings
<1>3. ASSUME NEW i \in 1 .. Len(s) + 1 PROVE Starts(t, i) = Starts(s, i)
  BY <1>2, StartsDef, Zenon
<1>4. ASSUME NEW i \in 1 .. Len(s) PROVE IsEnd(t, i) <=> IsEnd(s, i)
  BY <1>1 DEF IsEnd
<1>5. IsEnd(t, Len(s) + 1) <=> Break(c) /\ ~(c = "lf" /\ Len(s) > 0 /\ s[Len(s)] = "cr")
  BY <1>1 DEF IsEnd, Break
<1>6. \A i \in Ends(s) : i \in 1 .. Len(s)
  BY <1>1 DEF Ends
<1>7. Ends(t) = IF Break(c) /\ ~(c = "lf" /\ Len(s) > 0 /\ s[Len(s)] = "cr")
                THEN Ends(s) \cup {Len(s) + 1} ELSE Ends(s)
  <2>1. ASSUME NEW i PROVE i \in Ends(t) <=> i \in Ends(s)
                 \/ (i = Len(s) + 1 /\ IsEnd(t, Len(s) + 1))
    BY <1>1, <1>4 DEF Ends
  <2> QED BY <2>1, <1>5
<1> QED BY <1>2, <1>3, <1>4, <1>6, <1>7 DEF t


\* A line starts where the one before it ended.
LEMMA LineOpens ==
  ASSUME NEW s \in Seq(Chunks), NEW i \in 1 .. Len(s) + 1
  PROVE  /\ Starts(s, i) \in Openings(s, i) /\ Starts(s, i) \in 1 .. i
         /\ \A h \in Openings(s, i) : h <= Starts(s, i)
         /\ \A k \in Openings(s, i) : (\A h \in Openings(s, i) : h <= k) => k = Starts(s, i)
<1> DEFINE O == Openings(s, i)
           D == {i - x : x \in O}
<1>1. 1 \in O /\ O \subseteq 1 .. i /\ i \in Nat
  BY DEF Openings
<1>2. Starts(s, i) = CHOOSE j \in O : \A h \in O : h <= j
  BY StartsDef
<1> HIDE DEF O
<1>3. D \in SUBSET Nat /\ D # {}
  BY <1>1
<1>4. PICK n \in D : \A k \in D : n <= k
  <2> HIDE DEF D
  <2> QED BY <1>3, NatMin
<1>5. PICK j \in O : n = i - j
  OBVIOUS
<1>6. \A h \in O : h <= j
  <2> TAKE h \in O
  <2>1. i - h \in D
    OBVIOUS
  <2>2. i - j <= i - h
    BY <1>4, <1>5, <2>1
  <2> QED BY <2>2, <1>1
<1>7. Starts(s, i) \in O /\ \A h \in O : h <= Starts(s, i)
  BY <1>2, <1>5, <1>6
<1>8. ASSUME NEW k \in O, \A h \in O : h <= k PROVE k = Starts(s, i)
  <2>1. k \in Int /\ Starts(s, i) \in Int
    <3> HIDE DEF D
    <3>1. k \in 1 .. i /\ Starts(s, i) \in 1 .. i
      BY <1>1, <1>7, Zenon
    <3> QED BY <3>1
  <2>2. k <= Starts(s, i) /\ Starts(s, i) <= k
    BY <1>7, <1>8
  <2> QED BY <2>1, <2>2
<1> QED BY <1>1, <1>7, <1>8 DEF O

\* Of the unfinished line.
Opening(s) == Starts(s, Len(s) + 1)

\* A line end opens a new line, and nothing else does.
LEMMA OpeningStep ==
  ASSUME NEW s \in Seq(Chunks), NEW c \in Chunks
  PROVE  Opening(Append(s, c)) = IF Break(c) THEN Len(s) + 2 ELSE Opening(s)
<1> DEFINE t == Append(s, c)
           k == IF Break(c) THEN Len(s) + 2 ELSE Opening(s)
<1>1. /\ t \in Seq(Chunks) /\ Len(t) = Len(s) + 1 /\ Len(s) \in Nat
      /\ \A i \in 1 .. Len(s) : t[i] = s[i]
      /\ t[Len(s) + 1] = c
  BY Appended
<1> HIDE DEF t
<1>2. Openings(t, Len(t) + 1) = Openings(s, Len(s) + 1) \cup (IF Break(c) THEN {Len(s) + 2} ELSE {})
  <2>1. ASSUME NEW x
        PROVE  x \in Openings(t, Len(t) + 1) <=>
                 x \in Openings(s, Len(s) + 1) \/ (Break(c) /\ x = Len(s) + 2)
    <3>1. x \in Openings(t, Len(t) + 1) <=> x = 1 \/ \E j \in 1 .. Len(s) + 1 : Break(t[j])
            /\ x = j + 1
      BY <1>1 DEF Openings
    <3>2. x \in Openings(s, Len(s) + 1) <=> x = 1 \/ \E j \in 1 .. Len(s) : Break(s[j]) /\ x = j + 1
      BY <1>1 DEF Openings
    <3>3. (\E j \in 1 .. Len(s) + 1 : Break(t[j]) /\ x = j + 1)
            <=> (\E j \in 1 .. Len(s) : Break(s[j]) /\ x = j + 1) \/ (Break(c) /\ x = Len(s) + 2)
      <4>1. \A j : j \in 1 .. Len(s) + 1 <=> j \in 1 .. Len(s) \/ j = Len(s) + 1
        BY <1>1
      <4>2. Len(s) + 1 + 1 = Len(s) + 2
        BY <1>1
      <4> QED BY <4>1, <4>2, <1>1, Zenon
    <3> QED BY <3>1, <3>2, <3>3
  <2> QED BY <2>1
<1>3. /\ Opening(s) \in Openings(s, Len(s) + 1) /\ Opening(s) \in 1 .. Len(s) + 1
      /\ \A h \in Openings(s, Len(s) + 1) : h <= Opening(s)
  BY <1>1, LineOpens DEF Opening
<1>4. k \in Openings(t, Len(t) + 1)
  BY <1>2, <1>3
<1>5. \A h \in Openings(t, Len(t) + 1) : h <= k
  <2>1. \A h \in Openings(s, Len(s) + 1) : h \in Int
    BY <1>1 DEF Openings
  <2>2. CASE Break(c)
    BY <1>1, <1>2, <1>3, <2>1, <2>2
  <2>3. CASE ~Break(c)
    BY <1>1, <1>2, <1>3, <2>1, <2>3
  <2> QED BY <2>2, <2>3
<1>6. Len(t) + 1 \in 1 .. Len(t) + 1
  BY <1>1
<1> QED BY <1>1, <1>4, <1>5, <1>6, LineOpens DEF t, Opening

Raw(s, i) == SubSeq(s, Starts(s, i), i - 1)
NoMark(l, first) == IF first /\ l # <<>> /\ l[1] = "bom" THEN Tail(l) ELSE l

\* A line is its text without the mark that may begin the stream.
LEMMA LineIs ==
  ASSUME NEW s, NEW i
  PROVE  Line(s, i) = NoMark(Raw(s, i), Starts(s, i) = 1)
  BY DEF Line, NoMark, Raw

\* A line does not depend on what follows it.
LEMMA LineLocal ==
  ASSUME NEW s \in Seq(Chunks), NEW c \in Chunks
  PROVE  \A i \in 1 .. Len(s) + 1 : Line(Append(s, c), i) = Line(s, i)
<1> TAKE i \in 1 .. Len(s) + 1
<1>1. Starts(Append(s, c), i) = Starts(s, i)
  BY Local
<1>2. Starts(s, i) \in Nat \ {0}
  BY LineOpens
<1>3. Raw(Append(s, c), i) = Raw(s, i)
  BY <1>1, <1>2, Appended, SubSame DEF Raw
<1> QED BY <1>1, <1>3, LineIs

\* The text of the line that has begun.
Pending(s) == SubSeq(s, Opening(s), Len(s))

\* The text of a line, up to where it ends.
LEMMA RawIs ==
  ASSUME NEW s, NEW i, NEW n, i - 1 = n
  PROVE  Raw(s, i) = SubSeq(s, Starts(s, i), n)
  BY DEF Raw

\* The unfinished line grows with every chunk that does not end it.
LEMMA PendingStep ==
  ASSUME NEW s \in Seq(Chunks), NEW c \in Chunks
  PROVE  /\ Pending(s) \in Seq(Chunks)
         /\ Pending(Append(s, c)) = IF Break(c) THEN <<>> ELSE Append(Pending(s), c)
         /\ Line(Append(s, c), Len(s) + 1) = NoMark(Pending(s), Opening(s) = 1)
<1>1. Len(s) \in Nat /\ Len(Append(s, c)) = Len(s) + 1 /\ Append(s, c) \in Seq(Chunks)
  BY Appended
<1>2. Opening(s) \in 1 .. Len(s) + 1
  BY <1>1, LineOpens DEF Opening
<1>3. Pending(s) \in Seq(Chunks)
  BY <1>1, <1>2, SubType DEF Pending
<1>4. ASSUME Break(c) PROVE Pending(Append(s, c)) = <<>>
  <2>1. Opening(Append(s, c)) = Len(Append(s, c)) + 1
    BY <1>1, <1>4, OpeningStep
  <2> QED BY <2>1, <1>1, <1>4, SubEmpty DEF Pending
<1>5. ASSUME ~Break(c) PROVE Pending(Append(s, c)) = Append(Pending(s), c)
  <2>1. Opening(Append(s, c)) = Opening(s)
    BY <1>5, OpeningStep
  <2>2. SubSeq(Append(s, c), Opening(s), Len(s) + 1) = Append(SubSeq(s, Opening(s), Len(s)), c)
    BY <1>2, SubAppend
  <2> QED BY <1>1, <1>5, <2>1, <2>2 DEF Pending
<1>6. Line(Append(s, c), Len(s) + 1) = Line(s, Len(s) + 1)
  BY <1>1, LineLocal
<1>7. Raw(s, Len(s) + 1) = Pending(s)
  <2>1. Len(s) + 1 - 1 = Len(s)
    BY <1>1
  <2>2. Raw(s, Len(s) + 1) = SubSeq(s, Starts(s, Len(s) + 1), Len(s))
    BY <2>1, RawIs
  <2> QED BY <2>2 DEF Pending, Opening
<1> QED BY <1>3, <1>4, <1>5, <1>6, <1>7, LineIs DEF Opening

-----------------------------------------------------------------------------
(* The end of the stream *)

Field(l) == l # <<>> /\ l[1] \in {"done", "field"}
FieldsSince(s, from) == {i \in Ends(s) : from < i /\ Field(Line(s, i))}
FieldsTo(s, from, to) == {i \in Ends(s) : /\ from < i /\ i < to
                                         /\ Line(s, i) # <<>>
                                         /\ Line(s, i)[1] \in {"done", "field"}}

\* What the fields F of an event amount to.
Final(mo, s, F) ==
  IF mo = "data" THEN \A i \in F : Line(s, i) = <<"done">> /\ F = {i}
  ELSE \E i \in F : Line(s, i) = <<"done">> /\ \A j \in F : j <= i

EventAt(mo, s, last, from) ==
  /\ from < last /\ Line(s, last) = <<>>
  /\ from # 0 => Line(s, from) = <<>>
  /\ \A i \in Ends(s) : from < i /\ i < last => Line(s, i) # <<>>
  /\ FieldsTo(s, from, last) # {}
  /\ Final(mo, s, FieldsTo(s, from, last))

EndFound(mo, s) == \E last \in Ends(s) : \E from \in {0} \cup Ends(s) : EventAt(mo, s, last, from)

\* Terminated, with the mode as a parameter.
LEMMA TerminatedIs == ASSUME NEW s PROVE Terminated(s) <=> EndFound(mode, s)
BY DEF Terminated, EndFound, EventAt, Final, FieldsTo, Ends

\* The event that has begun starts after from.
Since(s, from) ==
  /\ from \in {0} \cup Ends(s)
  /\ from # 0 => Line(s, from) = <<>>
  /\ \A i \in Ends(s) : from < i => Line(s, i) # <<>>

Amounts(mo, value, s, F) ==
  /\ value = "none" <=> F = {}
  /\ value = "done" <=> F # {} /\ Final(mo, s, F)

Tracks(mo, m, s) ==
  /\ m.done <=> EndFound(mo, s)
  /\ ~m.done =>
       /\ m.afterCr <=> Len(s) > 0 /\ s[Len(s)] = "cr"
       /\ m.first <=> Opening(s) = 1
       /\ m.line = Pending(s)
       /\ \E from : Since(s, from) /\ Amounts(mo, m.value, s, FieldsSince(s, from))

Markers == [line : Seq(Chunks), value : {"none", "done", "other"}, afterCr : BOOLEAN,
            done : BOOLEAN, first : BOOLEAN]

\* Whether fields amount to an end does not depend on what follows them.
LEMMA FinalLocal ==
  ASSUME NEW mo, NEW s \in Seq(Chunks), NEW c \in Chunks, NEW F \in SUBSET Ends(s)
  PROVE  Final(mo, Append(s, c), F) <=> Final(mo, s, F)
<1> DEFINE t == Append(s, c)
<1>1. \A i \in F : Line(t, i) = Line(s, i)
  <2>1. \A i \in F : i \in 1 .. Len(s) + 1
    BY Local, Appended
  <2> QED BY <2>1, LineLocal
<1> HIDE DEF t
<1>2. Final(mo, t, F) <=> Final(mo, s, F)
  BY <1>1 DEF Final
<1> QED BY <1>2 DEF t

\* An event that is complete stays so, and none comes about behind it.
LEMMA EventLocal ==
  ASSUME NEW mo, NEW s \in Seq(Chunks), NEW c \in Chunks,
         NEW last \in Ends(s), NEW from \in {0} \cup Ends(s)
  PROVE  EventAt(mo, Append(s, c), last, from) <=> EventAt(mo, s, last, from)
<1> DEFINE t == Append(s, c)
<1>1. /\ Len(s) \in Nat /\ \A i \in Ends(s) : i \in 1 .. Len(s) /\ Line(t, i) = Line(s, i)
  BY Local, Appended, LineLocal
<1>2. \A i : i \in Ends(t) /\ i < last <=> i \in Ends(s) /\ i < last
  <2>1. Ends(t) = Ends(s) \/ Ends(t) = Ends(s) \cup {Len(s) + 1}
    BY Local
  <2>2. ~(Len(s) + 1 < last)
    BY <1>1
  <2> HIDE DEF t
  <2> QED BY <2>1, <2>2
<1> HIDE DEF t
<1>3. FieldsTo(t, from, last) = FieldsTo(s, from, last)
  <2>1. ASSUME NEW i PROVE i \in FieldsTo(t, from, last) <=> i \in FieldsTo(s, from, last)
    <3>1. i \in FieldsTo(t, from, last) <=> /\ i \in Ends(t) /\ i < last /\ from < i
                                           /\ Line(t, i) # <<>>
                                                /\ Line(t, i)[1] \in {"done", "field"}
      BY Zenon DEF FieldsTo
    <3>2. i \in FieldsTo(s, from, last) <=> /\ i \in Ends(s) /\ i < last /\ from < i
                                           /\ Line(s, i) # <<>>
                                                /\ Line(s, i)[1] \in {"done", "field"}
      BY Zenon DEF FieldsTo
    <3> QED BY <3>1, <3>2, <1>1, <1>2, Zenon
  <2> QED BY <2>1
<1>4. FieldsTo(s, from, last) \in SUBSET Ends(s)
  BY DEF FieldsTo
<1>5. Final(mo, t, FieldsTo(s, from, last)) <=> Final(mo, s, FieldsTo(s, from, last))
  BY <1>4, FinalLocal DEF t
<1>6. Line(t, last) = Line(s, last) /\ (from # 0 => Line(t, from) = Line(s, from))
  BY <1>1
<1>7. (\A i \in Ends(t) : from < i /\ i < last => Line(t, i) # <<>>)
        <=> (\A i \in Ends(s) : from < i /\ i < last => Line(s, i) # <<>>)
  BY <1>1, <1>2, Zenon
<1>8. EventAt(mo, t, last, from) <=> EventAt(mo, s, last, from)
  BY <1>3, <1>5, <1>6, <1>7, Zenon DEF EventAt
<1> QED BY <1>8 DEF t

\* A chunk that ends no line completes no event.
LEMMA NoEnd ==
  ASSUME NEW mo, NEW s \in Seq(Chunks), NEW c \in Chunks, Ends(Append(s, c)) = Ends(s)
  PROVE  /\ EndFound(mo, Append(s, c)) <=> EndFound(mo, s)
         /\ \A from : Since(s, from) => /\ Since(Append(s, c), from)
                                        /\ FieldsSince(Append(s, c), from) = FieldsSince(s, from)
         /\ \A from, value : Amounts(mo, value, s, FieldsSince(s, from))
                               => Amounts(mo, value, Append(s, c), FieldsSince(s, from))
<1> DEFINE t == Append(s, c)
<1>1. \A i \in Ends(s) : Line(t, i) = Line(s, i)
  BY Local, Appended, LineLocal
<1>2. EndFound(mo, t) <=> EndFound(mo, s)
  BY EventLocal DEF EndFound
<1>3. ASSUME NEW from, Since(s, from)
      PROVE  Since(t, from) /\ FieldsSince(t, from) = FieldsSince(s, from)
  <2> HIDE DEF t
  <2>1. Ends(t) = Ends(s)
    BY DEF t
  <2>2. Since(t, from)
    BY <1>1, <1>3, <2>1 DEF Since
  <2>3. FieldsSince(t, from) = FieldsSince(s, from)
    BY <1>1, <2>1 DEF FieldsSince
  <2> QED BY <2>2, <2>3
<1>4. ASSUME NEW from, NEW value, Amounts(mo, value, s, FieldsSince(s, from))
      PROVE  Amounts(mo, value, t, FieldsSince(s, from))
  <2>1. FieldsSince(s, from) \in SUBSET Ends(s)
    BY DEF FieldsSince
  <2> QED BY <2>1, <1>4, FinalLocal DEF Amounts
<1> QED BY <1>2, <1>3, <1>4 DEF t

\* A line end that follows s.
NewEnd(s, c) == Break(c) /\ ~(c = "lf" /\ Len(s) > 0 /\ s[Len(s)] = "cr")

\* What a line end adds, and what it leaves alone.
LEMMA EndStep ==
  ASSUME NEW s \in Seq(Chunks), NEW c \in Chunks, NewEnd(s, c)
  PROVE  LET t == Append(s, c)
             n == Len(s) + 1
         IN  /\ Ends(t) = Ends(s) \cup {n} /\ n \notin Ends(s) /\ n \in Nat /\ n > 0
             /\ \A i \in Ends(s) : i \in Nat /\ 0 < i /\ i < n /\ Line(t, i) = Line(s, i)
             /\ Line(t, n) = NoMark(Pending(s), Opening(s) = 1)
  BY Local, Appended, LineLocal, PendingStep DEF NewEnd

\* A line that is not empty is one more of the event's.
LEMMA LineStep ==
  ASSUME NEW mo, NEW s \in Seq(Chunks), NEW c \in Chunks, NewEnd(s, c), ~EndFound(mo, s),
         Line(Append(s, c), Len(s) + 1) # <<>>
  PROVE  LET t == Append(s, c)
             n == Len(s) + 1
         IN  /\ ~EndFound(mo, t)
             /\ \A from : Since(s, from) =>
                  /\ Since(t, from)
                  /\ FieldsSince(t, from) = FieldsSince(s,
                       from) \cup (IF Field(Line(t, n)) THEN {n} ELSE {})
<1> DEFINE t == Append(s, c)
           n == Len(s) + 1
<1>1. /\ Ends(t) = Ends(s) \cup {n} /\ n \notin Ends(s) /\ n \in Nat /\ n > 0
      /\ \A i \in Ends(s) : i \in Nat /\ 0 < i /\ i < n /\ Line(t, i) = Line(s, i)
      /\ Line(t, n) # <<>>
  BY EndStep
<1>2. ASSUME EndFound(mo, t) PROVE FALSE
  <2>1. PICK last \in Ends(t), from \in {0} \cup Ends(t) : EventAt(mo, t, last, from)
    BY <1>2 DEF EndFound
  <2>2. last # n /\ from < last /\ (from # 0 => Line(t, from) = <<>>)
    BY <2>1, <1>1 DEF EventAt
  <2>3. last \in Ends(s) /\ from \in {0} \cup Ends(s)
    BY <2>1, <2>2, <1>1
  <2>4. EventAt(mo, s, last, from)
    BY <2>1, <2>3, EventLocal
  <2> QED BY <2>3, <2>4 DEF EndFound
<1>3. ASSUME NEW from, Since(s, from)
      PROVE  /\ Since(t, from)
             /\ FieldsSince(t, from) = FieldsSince(s,
                  from) \cup (IF Field(Line(t, n)) THEN {n} ELSE {})
  <2> HIDE DEF t, n
  <2>1. from \in {0} \cup Ends(s) /\ from < n
    BY <1>1, <1>3 DEF Since
  <2>2. Since(t, from)
    BY <1>1, <1>3 DEF Since
  <2>3. ASSUME NEW i
        PROVE  i \in FieldsSince(t, from) <=> i \in FieldsSince(s, from)
                 \/ (Field(Line(t, n)) /\ i = n)
    BY <1>1, <2>1 DEF FieldsSince
  <2> QED BY <2>2, <2>3
<1> QED BY <1>2, <1>3 DEF t, n

\* An empty line ends the event, and the stream if the event is a last one.
LEMMA EmptyStep ==
  ASSUME NEW mo, NEW s \in Seq(Chunks), NEW c \in Chunks, NewEnd(s, c), ~EndFound(mo, s),
         Line(Append(s, c), Len(s) + 1) = <<>>,
         NEW from, Since(s, from)
  PROVE  LET t == Append(s, c)
             n == Len(s) + 1
         IN  /\ EndFound(mo, t) <=> FieldsSince(s, from) # {} /\ Final(mo, s, FieldsSince(s, from))
             /\ Since(t, n) /\ FieldsSince(t, n) = {}
<1> DEFINE t == Append(s, c)
           n == Len(s) + 1
<1>1. /\ Ends(t) = Ends(s) \cup {n} /\ n \notin Ends(s) /\ n \in Nat /\ n > 0
      /\ \A i \in Ends(s) : i \in Nat /\ 0 < i /\ i < n /\ Line(t, i) = Line(s, i)
      /\ Line(t, n) = <<>>
  BY EndStep
<1>2. FieldsSince(s, from) \in SUBSET Ends(s)
  BY DEF FieldsSince
<1>3. Final(mo, t, FieldsSince(s, from)) <=> Final(mo, s, FieldsSince(s, from))
  BY <1>2, FinalLocal
<1>4. ~\E last \in Ends(s), from2 \in {0} \cup Ends(s) : EventAt(mo, t, last, from2)
  BY EventLocal DEF EndFound
<1> HIDE DEF t, n
<1>5. from \in {0} \cup Ends(s) /\ from \in Nat /\ from < n
  BY <1>1 DEF Since
<1>6. FieldsTo(t, from, n) = FieldsSince(s, from)
  <2>1. ASSUME NEW i PROVE i \in FieldsTo(t, from, n) <=> i \in FieldsSince(s, from)
    BY <1>1, <1>5 DEF FieldsTo, FieldsSince, Field
  <2> QED BY <2>1
<1>7. EventAt(mo, t, n, from) <=> FieldsSince(s, from) # {} /\ Final(mo, s, FieldsSince(s, from))
  <2>1. from # 0 => Line(t, from) = <<>>
    BY <1>1, <1>5 DEF Since
  <2>2. \A i \in Ends(t) : from < i /\ i < n => Line(t, i) # <<>>
    BY <1>1 DEF Since
  <2> QED BY <2>1, <2>2, <1>1, <1>3, <1>5, <1>6 DEF EventAt
<1>8. ASSUME NEW last \in Ends(t), NEW from2 \in {0} \cup Ends(t), EventAt(mo, t, last, from2)
      PROVE  last = n /\ from2 = from
  <2>0. from2 < last /\ from2 \in Nat /\ last \in Nat
    BY <1>1, <1>8 DEF EventAt
  <2>1. from2 \in {0} \cup Ends(s)
    BY <1>1, <2>0
  <2>2. last = n
    BY <1>1, <1>4, <1>8, <2>1
  <2>3. CASE from2 < from
    <3>1. from \in Ends(s) /\ from # 0
      BY <1>1, <1>5, <2>0, <2>3
    <3>2. Line(t, from) = <<>>
      BY <3>1, <1>1 DEF Since
    <3>3. Line(t, from) # <<>>
      BY <3>1, <1>1, <1>5, <1>8, <2>2, <2>3 DEF EventAt
    <3> QED BY <3>2, <3>3
  <2>4. CASE from < from2
    <3>1. from2 \in Ends(s) /\ from2 # 0
      BY <1>1, <1>5, <2>0, <2>1, <2>4
    <3>2. Line(s, from2) = <<>>
      BY <3>1, <1>1, <1>8 DEF EventAt
    <3>3. Line(s, from2) # <<>>
      BY <3>1, <2>4 DEF Since
    <3> QED BY <3>2, <3>3
  <2> QED BY <1>5, <2>0, <2>2, <2>3, <2>4
<1>9. EndFound(mo, t) <=> FieldsSince(s, from) # {} /\ Final(mo, s, FieldsSince(s, from))
  <2>1. n \in Ends(t) /\ from \in {0} \cup Ends(t)
    BY <1>1, <1>5
  <2> QED BY <1>7, <1>8, <2>1, Zenon DEF EndFound
<1>10. Since(t, n)
  BY <1>1 DEF Since
<1>11. FieldsSince(t, n) = {}
  BY <1>1 DEF FieldsSince
<1> QED BY <1>9, <1>10, <1>11 DEF t, n

\* The parser stays a parser.
LEMMA FedType ==
  ASSUME NEW m \in Markers, NEW c \in Chunks
  PROVE  Fed(m, c) \in Markers
<1> DEFINE n == [m EXCEPT !.afterCr = (c = "cr")]
<1>1. n \in Markers /\ [m EXCEPT !.afterCr = FALSE] \in Markers
  BY DEF Markers
<1>2. Append(n.line, c) \in Seq(Chunks)
  BY <1>1 DEF Markers
<1>3. [n EXCEPT !.line = Append(@, c)] \in Markers
  BY <1>1, <1>2 DEF Markers
<1>4. LineEnded(n) \in Markers
  <2> HIDE DEF n
  <2>1. <<>> \in Seq(Chunks)
    OBVIOUS
  <2>2. \A l : Value(n.value, l) \in {"none", "done", "other"}
    BY DEF Value
  <2> QED BY <1>1, <2>1, <2>2 DEF LineEnded, Markers
<1> QED BY <1>1, <1>3, <1>4 DEF Fed

\* A marker with the done flag stays, and the end that it saw too.
LEMMA DoneTracks ==
  ASSUME NEW mo, NEW s \in Seq(Chunks), NEW c \in Chunks, EndFound(mo, s)
  PROVE  EndFound(mo, Append(s, c))
<1>1. PICK last \in Ends(s), from \in {0} \cup Ends(s) : EventAt(mo, s, last, from)
  BY DEF EndFound
<1>2. EventAt(mo, Append(s, c), last, from)
  BY <1>1, EventLocal
<1>3. Ends(s) \subseteq Ends(Append(s, c))
  BY Local
<1> QED BY <1>2, <1>3 DEF EndFound

\* A chunk inside a line, or the second half of a line end.
LEMMA InnerTracks ==
  ASSUME NEW s \in Seq(Chunks), NEW c \in Chunks, NEW m \in Markers,
         Tracks(mode, m, s), ~m.done, ~NewEnd(s, c)
  PROVE  Tracks(mode, Fed(m, c), Append(s, c))
<1> DEFINE t == Append(s, c)
           f == Fed(m, c)
<1>1. /\ t \in Seq(Chunks) /\ Len(t) = Len(s) + 1 /\ Len(s) \in Nat
      /\ t[Len(t)] = c
  BY Appended
<1>2. Ends(t) = Ends(s)
  BY Local DEF NewEnd
<1>3. /\ EndFound(mode, t) <=> EndFound(mode, s)
      /\ \A from : Since(s, from) => Since(t, from) /\ FieldsSince(t, from) = FieldsSince(s, from)
      /\ \A from, value : Amounts(mode, value, s, FieldsSince(s, from))
                            => Amounts(mode, value, t, FieldsSince(s, from))
  BY <1>2, NoEnd
<1>4. /\ m.afterCr <=> Len(s) > 0 /\ s[Len(s)] = "cr"
      /\ m.first <=> Opening(s) = 1
      /\ m.line = Pending(s)
      /\ ~EndFound(mode, s)
  BY DEF Tracks
<1>5. Opening(t) = (IF Break(c) THEN Len(s) + 2 ELSE Opening(s))
      /\ Pending(t) = (IF Break(c) THEN <<>> ELSE Append(Pending(s), c))
  BY OpeningStep, PendingStep
<1>6. /\ f.done = m.done /\ f.value = m.value
      /\ f.afterCr <=> c = "cr"
      /\ f.first <=> Opening(t) = 1
      /\ f.line = Pending(t)
  <2>1. CASE Break(c)
    <3>1. c = "lf" /\ m.afterCr /\ Len(s) > 0 /\ s[Len(s)] = "cr"
      BY <1>4, <2>1 DEF NewEnd, Break
    <3>2. f = [m EXCEPT !.afterCr = FALSE]
      BY <3>1 DEF Fed
    <3>3. Opening(s) = Len(s) + 1
      <4>1. Len(s) + 1 \in Openings(s, Len(s) + 1)
        BY <3>1, <1>1 DEF Openings, Break
      <4>2. Len(s) + 1 \in 1 .. Len(s) + 1
        BY <1>1
      <4>3. Opening(s) \in 1 .. Len(s) + 1 /\ Len(s) + 1 <= Opening(s)
        BY <4>1, <4>2, LineOpens DEF Opening
      <4> QED BY <4>3, <1>1
    <3>4. Pending(s) = <<>>
      BY <3>3, SubEmpty DEF Pending
    <3> HIDE DEF f, t
    <3> QED BY <1>1, <1>4, <1>5, <2>1, <3>1, <3>2, <3>3, <3>4 DEF Markers
  <2>2. CASE ~Break(c)
    <3>1. f = [[m EXCEPT !.afterCr = (c = "cr")] EXCEPT !.line = Append(@, c)]
      BY <2>2 DEF Fed, Break
    <3> HIDE DEF f, t
    <3> QED BY <1>4, <1>5, <2>2, <3>1 DEF Markers, Break
  <2> QED BY <2>1, <2>2
<1>7. PICK from : Since(s, from) /\ Amounts(mode, m.value, s, FieldsSince(s, from))
  BY DEF Tracks
<1>8. Since(t, from) /\ Amounts(mode, f.value, t, FieldsSince(t, from))
  BY <1>3, <1>6, <1>7
<1> HIDE DEF f, t
<1>9. Tracks(mode, f, t)
  BY <1>1, <1>3, <1>4, <1>6, <1>8 DEF Tracks
<1> QED BY <1>9 DEF f, t

\* What one more field makes of an event.
LEMMA ValueAmounts ==
  ASSUME NEW s, NEW F \in SUBSET Nat, NEW n \in Nat, \A i \in F : i < n,
         mode \in {"data", "event"}, NEW value \in {"none", "done", "other"},
         Amounts(mode, value, s, F)
  PROVE  Amounts(mode, Value(value, Line(s, n)), s, F \cup {n})
<1>1. n \notin F
  OBVIOUS
<1>2. CASE mode = "data"
  <2>1. Final(mode, s, F \cup {n}) <=> F = {} /\ Line(s, n) = <<"done">>
    BY <1>1, <1>2 DEF Final
  <2> QED BY <1>2, <2>1 DEF Amounts, Value
<1>3. CASE mode = "event"
  <2>1. Final(mode, s, F \cup {n}) <=> Line(s, n) = <<"done">>
    <3>1. ASSUME NEW i \in F \cup {n}, \A j \in F \cup {n} : j <= i PROVE i = n
      BY <3>1
    <3>2. \A j \in F \cup {n} : j <= n
      OBVIOUS
    <3> QED BY <1>3, <3>1, <3>2 DEF Final
  <2> QED BY <1>3, <2>1 DEF Amounts, Value
<1> QED BY <1>2, <1>3

\* The end of a line.
LEMMA EndTracks ==
  ASSUME NEW s \in Seq(Chunks), NEW c \in Chunks, NEW m \in Markers, mode \in {"data", "event"},
         Tracks(mode, m, s), ~m.done, NewEnd(s, c)
  PROVE  Tracks(mode, Fed(m, c), Append(s, c))
<1> DEFINE t == Append(s, c)
           n == Len(s) + 1
           f == Fed(m, c)
           l == NoMark(m.line, m.first)
<1>1. /\ t \in Seq(Chunks) /\ Len(t) = n /\ n \in Nat /\ n > 0
      /\ t[Len(t)] = c
  BY Appended
<1>2. /\ m.afterCr <=> Len(s) > 0 /\ s[Len(s)] = "cr"
      /\ m.first <=> Opening(s) = 1
      /\ m.line = Pending(s)
      /\ ~EndFound(mode, s)
  BY DEF Tracks
<1>3. Opening(t) # 1 /\ Pending(t) = <<>>
  <2>1. Opening(t) = Len(s) + 2 /\ Pending(t) = <<>>
    BY OpeningStep, PendingStep DEF NewEnd
  <2> HIDE DEF t
  <2> QED BY <2>1, <1>1
<1>4. Line(t, n) = l
  <2>1. Line(t, n) = NoMark(Pending(s), Opening(s) = 1)
    BY EndStep
  <2> QED BY <1>2, <2>1 DEF Markers, NoMark
<1>5. /\ Ends(t) = Ends(s) \cup {n}
      /\ \A i \in Ends(s) : i \in Nat /\ 0 < i /\ i < n /\ Line(t, i) = Line(s, i)
  BY EndStep
<1>6. f = LineEnded([m EXCEPT !.afterCr = (c = "cr")])
  BY <1>2 DEF Fed, NewEnd, Break
<1>7. /\ f.afterCr <=> c = "cr"
      /\ f.first = FALSE
      /\ f.line = <<>>
      /\ f.done <=> l = <<>> /\ m.value = "done"
      /\ f.value = IF l = <<>> THEN "none"
                   ELSE IF l[1] \in {"done", "field"} THEN Value(m.value, l) ELSE m.value
  <2> DEFINE k == [m EXCEPT !.afterCr = (c = "cr")]
  <2>1. /\ k.line = m.line /\ k.first = m.first /\ k.value = m.value /\ k.done = FALSE
        /\ k.afterCr = (c = "cr") /\ k \in Markers
    BY DEF Markers
  <2> HIDE DEF k
  <2>2. f = LineEnded(k)
    BY <1>6 DEF k
  <2>3. LineEnded(k) = LET after == [k EXCEPT !.line = <<>>, !.first = FALSE]
                       IN  IF l = <<>> THEN [after EXCEPT !.done = (m.value = "done"),
                             !.value = "none"]
                           ELSE IF l[1] \in {"done", "field"}
                           THEN [after EXCEPT !.value = Value(m.value, l)] ELSE after
    BY <2>1 DEF LineEnded, NoMark
  <2> HIDE DEF f, l
  <2>4. CASE l = <<>>
    BY <2>1, <2>2, <2>3, <2>4 DEF Markers
  <2>5. CASE l # <<>> /\ l[1] \in {"done", "field"}
    BY <2>1, <2>2, <2>3, <2>5 DEF Markers
  <2>6. CASE l # <<>> /\ l[1] \notin {"done", "field"}
    BY <2>1, <2>2, <2>3, <2>6 DEF Markers
  <2> QED BY <2>4, <2>5, <2>6
<1>8. PICK from : Since(s, from) /\ Amounts(mode, m.value, s, FieldsSince(s, from))
  BY DEF Tracks
<1>9. FieldsSince(s, from) \in SUBSET Ends(s)
  BY DEF FieldsSince
<1> HIDE DEF f, l
<1>10. CASE l = <<>>
  <2>1. /\ EndFound(mode, t) <=> FieldsSince(s, from) # {} /\ Final(mode, s, FieldsSince(s, from))
        /\ Since(t, n) /\ FieldsSince(t, n) = {}
    BY <1>2, <1>4, <1>8, <1>10, EmptyStep
  <2> HIDE DEF t, n
  <2>2. f.done <=> EndFound(mode, t)
    BY <1>7, <1>8, <1>10, <2>1 DEF Amounts
  <2>3. Amounts(mode, f.value, t, FieldsSince(t, n))
    BY <1>7, <1>10, <2>1 DEF Amounts
  <2>4. Tracks(mode, f, t)
    BY <1>1, <1>3, <1>7, <2>1, <2>2, <2>3 DEF Tracks
  <2> QED BY <2>4 DEF f, t
<1>11. CASE l # <<>>
  <2>1. /\ ~EndFound(mode, t)
        /\ Since(t, from)
        /\ FieldsSince(t, from) = FieldsSince(s, from) \cup (IF Field(l) THEN {n} ELSE {})
    BY <1>2, <1>4, <1>8, <1>11, LineStep
  <2>2. Amounts(mode, m.value, t, FieldsSince(s, from))
    BY <1>8, <1>9, FinalLocal DEF Amounts
  <2> HIDE DEF t, n
  <2>3. Amounts(mode, f.value, t, FieldsSince(t, from))
    <3>1. CASE Field(l)
      <4>1. FieldsSince(s, from) \in SUBSET Nat /\ \A i \in FieldsSince(s, from) : i < n
        BY <1>5, <1>9
      <4>2. m.value \in {"none", "done", "other"}
        BY DEF Markers
      <4>3. Amounts(mode, Value(m.value, Line(t, n)), t, FieldsSince(s, from) \cup {n})
        BY <1>1, <2>2, <4>1, <4>2, ValueAmounts
      <4> QED BY <1>4, <1>7, <2>1, <3>1, <4>3 DEF Field
    <3>2. CASE ~Field(l)
      BY <1>7, <1>11, <2>1, <2>2, <3>2 DEF Field
    <3> QED BY <3>1, <3>2
  <2>4. Tracks(mode, f, t)
    BY <1>1, <1>3, <1>7, <1>11, <2>1, <2>3 DEF Tracks
  <2> QED BY <2>4 DEF f, t
<1> QED BY <1>10, <1>11

\* The guard's parser keeps up with the stream.
LEMMA FedTracks ==
  ASSUME NEW s \in Seq(Chunks), NEW c \in Chunks, NEW m \in Markers, mode \in {"data", "event"},
         Tracks(mode, m, s)
  PROVE  Tracks(mode, Fed(m, c), Append(s, c))
<1>1. CASE m.done
  BY <1>1, DoneTracks DEF Tracks, Fed
<1>2. CASE ~m.done /\ NewEnd(s, c)
  BY <1>2, EndTracks
<1>3. CASE ~m.done /\ ~NewEnd(s, c)
  BY <1>3, InnerTracks
<1> QED BY <1>1, <1>2, <1>3

-----------------------------------------------------------------------------
(* The invariant *)

Before == {"new", "observing", "sending", "refusing", "refused"}

\* How far the log and its thread are.
Logged ==
  /\ call = "new" => writer = "idle" /\ events = <<>>
  /\ call = "observing" =>
       \/ writer \in {"dispatched", "failed"} /\ events = <<>>
       \/ writer = "ok" /\ events = <<"dispatched">>
  /\ call \in {"sending", "streaming", "closing"} => writer = "idle" /\ events = <<"dispatched">>
  /\ call \in {"refusing", "failing"} =>
       \/ writer \in {"failure", "failed"} /\ events = <<"dispatched">>
       \/ writer = "ok" /\ events = <<"dispatched", "failure">>
  /\ call = "succeeding" =>
       \/ writer \in {"success", "failed"} /\ events = <<"dispatched">>
       \/ writer = "ok" /\ events = <<"dispatched", "success">>
  /\ call = "ended" => writer = "idle" /\ events = <<"dispatched", "success">>
  /\ call = "failed" =>
       writer = "idle" /\ events \in {<<"dispatched">>, <<"dispatched", "failure">>}
  /\ call = "refused" =>
       writer = "idle" /\ events \in {<<>>, <<"dispatched">>, <<"dispatched", "failure">>}
  /\ call = "dropped" =>
       /\ writer = "dispatched" => events = <<>>
       /\ writer \in {"success", "failure"} => events = <<"dispatched">>
       /\ events \in {<<>>, <<"dispatched">>, <<"dispatched", "success">>,
                      <<"dispatched", "failure">>}

\* How the producer, the channel and the body stand to each other.
Hand ==
  /\ call \in Before => producer = "none"
  /\ producer = "none" => call \in Before \cup {"dropped"}
  /\ producer = "none" => sent = <<>> /\ written = <<>> /\ writing = <<>> /\ queue = <<>>
  /\ terminal = "pending" <=> producer # "done"
  /\ producer # "reserving" => chunk = <<>>
  /\ producer = "draining" => eof
  /\ call \in Before \cup {"streaming"} => ~drained
  /\ call \in {"closing", "succeeding", "failing", "ended", "failed"} =>
       /\ drained /\ writing = <<>> /\ queue = <<>> /\ producer \in {"draining", "done"}
       /\ producer = "draining" => call = "closing"
  /\ terminal = "dropped" => call \notin {"streaming", "closing"}
  /\ call = "dropped" => writing = <<>> /\ queue = <<>>
  /\ terminal = "ok" => drained /\ eof

Afoot == written \o writing \o queue \o chunk

\* Nothing is lost on the way while the body lives.
Kept ==
  /\ IsPrefix(written, sent)
  /\ BodyAlive => IsPrefix(Afoot, sent)
  /\ BodyAlive /\ producer # "done" => Afoot = sent
  /\ terminal = "ok" /\ BodyAlive => written = sent

Tracked == call # "dropped" => Tracks(mode, marker, written \o writing)

\* What is logged, or about to be, of the end of a call is so for good.
Truthful ==
  /\ writer = "success" \/ events = <<"dispatched", "success">> \/ call \in {"succeeding", "ended"} =>
       /\ producer = "done" /\ writing = <<>>
       /\ eof /\ written = sent /\ EndFound(mode, sent)
  /\ writer = "failure" \/ events = <<"dispatched", "failure">> =>
       /\ producer \in {"none", "done"} /\ call \notin {"new", "observing", "sending"}
       /\ ~(terminal = "ok" /\ EndFound(mode, sent))

StreamInv == StreamTypeOK /\ Logged /\ Hand /\ Kept /\ Tracked /\ Truthful

\* Two elements, one after the other.
LEMMA Pair ==
  ASSUME NEW a, NEW b
  PROVE  Append(<<a>>, b) = <<a, b>>
<1>1. <<a>> \in Seq({a, b}) /\ <<a, b>> \in Seq({a, b})
  OBVIOUS
<1>2. Len(<<a>>) = 1 /\ <<a>>[1] = a /\ Len(<<a, b>>) = 2 /\ <<a, b>>[1] = a /\ <<a, b>>[2] = b
  OBVIOUS
<1>3. /\ Append(<<a>>, b) \in Seq({a, b}) /\ Len(Append(<<a>>, b)) = 2
      /\ Append(<<a>>, b)[1] = a /\ Append(<<a>>, b)[2] = b
  BY <1>1, <1>2, Appended
<1>4. \A x, y \in Seq({a, b}) : Len(x) = 2 /\ Len(y) = 2 /\ x[1] = y[1] /\ x[2] = y[2] => x = y
  OBVIOUS
<1> QED BY <1>1, <1>2, <1>3, <1>4, Zenon

\* The logs a call can have are different from each other.
LEMMA Tuples ==
  /\ <<>> \in Seq({"dispatched", "success", "failure"})
  /\ <<"dispatched">> \in Seq({"dispatched", "success", "failure"})
  /\ <<"dispatched", "success">> \in Seq({"dispatched", "success", "failure"})
  /\ <<"dispatched", "failure">> \in Seq({"dispatched", "success", "failure"})
  /\ Append(<<>>, "dispatched") = <<"dispatched">>
  /\ Append(<<"dispatched">>, "failure") = <<"dispatched", "failure">>
  /\ Append(<<"dispatched">>, "success") = <<"dispatched", "success">>
  /\ <<>> # <<"dispatched">> /\ <<>> # <<"dispatched", "failure">>
       /\ <<>> # <<"dispatched", "success">>
  /\ <<"dispatched">> # <<"dispatched", "failure">> /\ <<"dispatched">> # <<"dispatched",
       "success">>
  /\ <<"dispatched", "failure">> # <<"dispatched", "success">>
<1>1. /\ Append(<<>>, "dispatched") = <<"dispatched">>
      /\ Append(<<"dispatched">>, "failure") = <<"dispatched", "failure">>
      /\ Append(<<"dispatched">>, "success") = <<"dispatched", "success">>
  <2>1. Append(<<>>, "dispatched") = <<"dispatched">>
    OBVIOUS
  <2>2. Append(<<"dispatched">>, "failure") = <<"dispatched", "failure">>
    BY Pair
  <2>3. Append(<<"dispatched">>, "success") = <<"dispatched", "success">>
    BY Pair
  <2> QED BY <2>1, <2>2, <2>3
<1>2. /\ <<>> \in Seq({"dispatched", "success", "failure"})
      /\ <<"dispatched">> \in Seq({"dispatched", "success", "failure"})
      /\ <<"dispatched", "success">> \in Seq({"dispatched", "success", "failure"})
      /\ <<"dispatched", "failure">> \in Seq({"dispatched", "success", "failure"})
  OBVIOUS
<1>3. /\ Len(<<>>) = 0 /\ Len(<<"dispatched">>) = 1 /\ Len(<<"dispatched", "failure">>) = 2
      /\ Len(<<"dispatched", "success">>) = 2
  OBVIOUS
<1>4. <<"dispatched", "failure">>[2] = "failure" /\ <<"dispatched", "success">>[2] = "success"
  OBVIOUS
<1> QED BY <1>1, <1>2, <1>3, <1>4

\* A channel of one chunk that is not empty holds its head.
LEMMA Singles ==
  ASSUME NEW S, NEW q \in Seq(S), Len(q) <= 1, q # <<>>
  PROVE  Head(q) \in S /\ q = <<Head(q)>>
<1>1. Len(q) \in Nat /\ Len(q) # 0
  OBVIOUS
<1>2. Len(q) = 1
  BY <1>1
<1>3. Head(q) = q[1] /\ q[1] \in S
  BY <1>2
<1> QED BY <1>2, <1>3

\* Joining with nothing, and with one chunk.
LEMMA Joins ==
  /\ \A s \in Seq(Chunks) : s \o <<>> = s /\ <<>> \o s = s
  /\ \A s \in Seq(Chunks), u \in Seq(Chunks) : s \o u \in Seq(Chunks)
  /\ \A s \in Seq(Chunks), c \in Chunks : s \o <<c>> = Append(s, c)
  OBVIOUS

\* A prefix, element by element.
LEMMA PrefixIs ==
  ASSUME NEW s \in Seq(Chunks), NEW u \in Seq(Chunks)
  PROVE  IsPrefix(s, u) <=> Len(s) <= Len(u) /\ \A i \in 1 .. Len(s) : s[i] = u[i]
  BY DEF IsPrefix

\* The whole and nothing are prefixes.
LEMMA PrefixSelf ==
  ASSUME NEW s \in Seq(Chunks)
  PROVE  IsPrefix(s, s) /\ IsPrefix(<<>>, s)
<1>1. Len(s) <= Len(s) /\ \A i \in 1 .. Len(s) : s[i] = s[i]
  OBVIOUS
<1>2. <<>> \in Seq(Chunks) /\ Len(<<>>) = 0 /\ Len(s) >= 0
  OBVIOUS
<1>3. IsPrefix(<<>>, s)
  <2>1. ASSUME NEW e \in Seq(Chunks), Len(e) = 0 PROVE IsPrefix(e, s)
    <3>1. Len(e) <= Len(s) /\ \A i \in 1 .. Len(e) : e[i] = s[i]
      BY <1>2, <2>1
    <3> QED BY <3>1, PrefixIs
  <2> QED BY <1>2, <2>1
<1> QED BY <1>1, <1>3, PrefixIs

\* A prefix stays one when the stream grows.
LEMMA PrefixAppend ==
  ASSUME NEW s \in Seq(Chunks), NEW u \in Seq(Chunks), NEW c \in Chunks, IsPrefix(s, u)
  PROVE  IsPrefix(s, Append(u, c))
<1>1. Append(u, c) \in Seq(Chunks) /\ Len(Append(u, c)) = Len(u) + 1 /\ Len(u) \in Nat
        /\ Len(s) \in Nat
      /\ \A i \in 1 .. Len(u) : Append(u, c)[i] = u[i]
  BY Appended
<1>2. Len(s) <= Len(u) /\ \A i \in 1 .. Len(s) : s[i] = u[i]
  BY PrefixIs
<1>3. Len(s) <= Len(Append(u, c)) /\ \A i \in 1 .. Len(s) : s[i] = Append(u, c)[i]
  BY <1>1, <1>2
<1> QED BY <1>1, <1>3, PrefixIs

\* What a prefix begins with is a prefix.
LEMMA PrefixShort ==
  ASSUME NEW s \in Seq(Chunks), NEW u \in Seq(Chunks), NEW v \in Seq(Chunks), IsPrefix(s \o u, v)
  PROVE  IsPrefix(s, v)
<1>1. /\ s \o u \in Seq(Chunks) /\ Len(s \o u) = Len(s) + Len(u) /\ Len(s) \in Nat /\ Len(u) \in Nat
      /\ \A i \in 1 .. Len(s) : (s \o u)[i] = s[i]
  OBVIOUS
<1>2. Len(s \o u) <= Len(v) /\ \A i \in 1 .. Len(s \o u) : (s \o u)[i] = v[i]
  BY <1>1, PrefixIs
<1>3. Len(s) <= Len(v)
  BY <1>1, <1>2
<1>4. \A i \in 1 .. Len(s) : s[i] = v[i]
  BY <1>1, <1>2
<1> QED BY <1>3, <1>4, PrefixIs

\* A call begins with nothing sent, held or written.
LEMMA StreamInitHolds == StreamInit => StreamInv
<1> SUFFICES ASSUME StreamInit PROVE StreamInv
  OBVIOUS
<1>1. Blank \in Markers /\ <<>> \in Seq(Chunks) /\ Len(<<>>) = 0
  BY DEF Blank, Markers
<1>2. StreamTypeOK
  <2>1. \A x \in {chunk, queue, writing} : x \in Seq(Chunks) /\ Len(x) <= 1
    BY <1>1, 0 <= 1 DEF StreamInit
  <2>2. marker \in Markers
    BY <1>1 DEF StreamInit
  <2> QED BY <1>1, <2>1, <2>2, Tuples DEF StreamInit, StreamTypeOK, Markers
<1>3. Logged
  BY DEF StreamInit, Logged
<1>4. Hand
  BY DEF StreamInit, Hand, Before
<1>5. Kept
  <2>1. Afoot = <<>>
    BY <1>1, Joins DEF StreamInit, Afoot
  <2> QED BY <1>1, <2>1, PrefixSelf DEF StreamInit, Kept, BodyAlive
<1>6. Tracked
  <2>1. written \o writing = <<>> /\ marker = Blank
    BY <1>1, Joins DEF StreamInit
  <2>2. Ends(<<>>) = {}
    BY DEF Ends
  <2>3. Opening(<<>>) = 1
    <3>1. 1 \in 1 .. Len(<<>>) + 1
      BY <1>1
    <3>2. Starts(<<>>, 1) \in 1 .. 1
      BY <1>1, <3>1, LineOpens
    <3>3. Len(<<>>) + 1 = 1
      BY <1>1
    <3> QED BY <3>2, <3>3 DEF Opening
  <2>4. Pending(<<>>) = <<>>
    BY <2>3 DEF Pending
  <2>5. ~EndFound(mode, <<>>)
    BY <2>2 DEF EndFound
  <2>6. Since(<<>>, 0) /\ FieldsSince(<<>>, 0) = {}
    BY <2>2 DEF Since, FieldsSince
  <2>7. Amounts(mode, "none", <<>>, {})
    BY DEF Amounts
  <2>8. Tracks(mode, Blank, <<>>)
    <3>1. \E from : Since(<<>>, from) /\ Amounts(mode, "none", <<>>, FieldsSince(<<>>, from))
      BY <2>6, <2>7, Zenon
    <3>2. /\ Blank.line = <<>> /\ Blank.value = "none" /\ Blank.first /\ ~Blank.afterCr
          /\ ~Blank.done
      BY DEF Blank
    <3>3. ~(Len(<<>>) > 0)
      BY <1>1
    <3> QED BY <2>3, <2>4, <2>5, <3>1, <3>2, <3>3, Zenon DEF Tracks
  <2> QED BY <2>1, <2>8 DEF Tracked
<1>7. Truthful
  BY Tuples DEF StreamInit, Truthful
<1> QED BY <1>2, <1>3, <1>4, <1>5, <1>6, <1>7 DEF StreamInv

\* What every step of a part of the system leaves alone or does.
LEMMA LoggedKept == StreamTypeOK /\ Hand /\ Logged /\ [StreamNext]_streamVars => Logged'
<1> SUFFICES ASSUME StreamTypeOK, Hand, Logged, [StreamNext]_streamVars PROVE Logged'
  OBVIOUS
<1> USE DEF Logged
<1>1. CASE Open
  BY <1>1, Tuples DEF Open, Proceeds
<1>2. CASE Observe
  BY <1>2, Tuples DEF Observe, Proceeds, Heard
<1>3. CASE NoStream
  BY <1>3, Tuples DEF NoStream, Proceeds
<1>4. CASE Stream
  BY <1>4 DEF Stream
<1>5. CASE Producer
  <2>1. UNCHANGED <<call, events, writer>>
    BY <1>5 DEF Producer, Read, ReadEof, ReadFailed, Push, PushTimeout, Drain, Abandoned, Stops,
       RestOfCall
  <2> QED BY <2>1
<1>6. CASE Receive
  BY <1>6 DEF Receive
<1>7. CASE EndOfChannel
  BY <1>7 DEF EndOfChannel
<1>8. CASE Finish
  BY <1>8, Tuples DEF Finish, Proceeds
<1>9. CASE Flush
  BY <1>9 DEF Flush
<1>10. CASE Disconnect
  BY <1>10, Tuples DEF Disconnect
<1>11. CASE UNCHANGED streamVars
  BY <1>11 DEF streamVars
<1>12. CASE NoStreamTold
  BY <1>12, Tuples DEF NoStreamTold, Heard, Proceeds
<1>13. CASE FinishTold
  BY <1>13, Tuples DEF FinishTold, Heard, Proceeds
<1>14. CASE EventAppended
  BY <1>14, Tuples DEF EventAppended
<1> QED BY <1>1, <1>2, <1>3, <1>4, <1>5, <1>6, <1>7, <1>8, <1>9, <1>10, <1>11, <1>12, <1>13,
             <1>14 DEF StreamNext,
             Body, Connection

\* What the producer, the body and the connection may hold fits where they stand.
LEMMA HandKept == StreamTypeOK /\ Hand /\ [StreamNext]_streamVars => Hand'
<1> SUFFICES ASSUME StreamTypeOK, Hand, [StreamNext]_streamVars PROVE Hand'
  OBVIOUS
<1> USE DEF Hand, Before, wire, RestOfCall
<1>0. <<>> = <<>> /\ chunk \in Seq(Chunks)
  BY DEF StreamTypeOK
<1>1. CASE Open
  BY <1>1 DEF Open, Proceeds
<1>2. CASE Observe
  BY <1>2 DEF Observe, Proceeds, Heard
<1>3. CASE NoStream
  BY <1>3 DEF NoStream, Proceeds
<1>4. CASE Stream
  BY <1>4 DEF Stream
<1>5. ASSUME NEW c \in Chunks, Read(c) PROVE Hand'
  BY <1>5 DEF Read
<1>6. CASE ReadEof
  BY <1>6 DEF ReadEof
<1>7. CASE ReadFailed
  BY <1>7 DEF ReadFailed, Stops
<1>8. CASE Push
  BY <1>8 DEF Push, BodyAlive
<1>9. CASE PushTimeout
  BY <1>9 DEF PushTimeout, Stops
<1>10. CASE Drain
  BY <1>10 DEF Drain, Stops
<1>11. CASE Abandoned
  BY <1>11 DEF Abandoned, Stops, BodyAlive
<1>12. CASE Receive
  BY <1>12 DEF Receive
<1>13. CASE EndOfChannel
  BY <1>13 DEF EndOfChannel
<1>14. CASE Finish
  BY <1>14 DEF Finish, Proceeds
<1>15. CASE Flush
  BY <1>15 DEF Flush
<1>16. CASE Disconnect
  BY <1>16 DEF Disconnect
<1>17. CASE UNCHANGED streamVars
  BY <1>17 DEF streamVars
<1>18. CASE NoStreamTold
  BY <1>18 DEF NoStreamTold, Heard, Proceeds
<1>19. CASE FinishTold
  BY <1>19 DEF FinishTold, Heard, Proceeds
<1>20. CASE EventAppended
  BY <1>20 DEF EventAppended
<1> QED BY <1>1, <1>2, <1>3, <1>4, <1>5, <1>6, <1>7, <1>8, <1>9, <1>10, <1>11, <1>12, <1>13,
             <1>14, <1>15, <1>16, <1>17, <1>18, <1>19, <1>20 DEF StreamNext, Producer, Body,
             Connection

\* TypeOK, with one conjunct for each variable.
Typed ==
  /\ call \in {"new", "observing", "sending", "refusing", "streaming", "closing",
               "succeeding", "failing", "ended", "failed", "refused", "dropped"}
  /\ mode \in Modes
  /\ events \in Seq({"dispatched", "success", "failure"})
  /\ sent \in Seq(Chunks) /\ eof \in BOOLEAN
  /\ producer \in {"none", "reading", "reserving", "draining", "done"}
  /\ writer \in {"idle", "dispatched", "success", "failure", "ok", "failed"}
  /\ terminal \in {"pending", "ok", "error", "dropped"} /\ drained \in BOOLEAN
  /\ chunk \in Seq(Chunks) /\ Len(chunk) <= 1
  /\ queue \in Seq(Chunks) /\ Len(queue) <= 1
  /\ writing \in Seq(Chunks) /\ Len(writing) <= 1
  /\ written \in Seq(Chunks) /\ marker \in Markers

\* TypeOK says that of each variable.
LEMMA TypeParts == (StreamTypeOK <=> Typed) /\ (StreamTypeOK' <=> Typed')
<1>1. (\A x \in {chunk, queue, writing} : x \in Seq(Chunks) /\ Len(x) <= 1)
        <=> /\ chunk \in Seq(Chunks) /\ Len(chunk) <= 1
            /\ queue \in Seq(Chunks) /\ Len(queue) <= 1
            /\ writing \in Seq(Chunks) /\ Len(writing) <= 1
  BY Zenon
<1>2. (\A x \in {chunk', queue', writing'} : x \in Seq(Chunks) /\ Len(x) <= 1)
        <=> /\ chunk' \in Seq(Chunks) /\ Len(chunk') <= 1
            /\ queue' \in Seq(Chunks) /\ Len(queue') <= 1
            /\ writing' \in Seq(Chunks) /\ Len(writing') <= 1
  BY Zenon
<1>3. StreamTypeOK <=> Typed
  BY <1>1 DEF StreamTypeOK, Typed, Markers
<1>4. StreamTypeOK' <=> Typed'
  BY <1>2 DEF StreamTypeOK, Typed, Markers
<1> QED BY <1>3, <1>4

\* Nothing and one chunk fit in a channel of one.
LEMMA Short ==
  /\ <<>> \in Seq(Chunks) /\ Len(<<>>) <= 1
  /\ \A c \in Chunks : <<c>> \in Seq(Chunks) /\ Len(<<c>>) <= 1
  OBVIOUS

\* Every step keeps the types; the log never has more than two entries.
LEMMA TypeKept == StreamTypeOK /\ Hand /\ Logged' /\ Logged /\ [StreamNext]_streamVars
                    => StreamTypeOK'
<1> SUFFICES ASSUME StreamTypeOK, Hand, Logged, Logged', [StreamNext]_streamVars PROVE StreamTypeOK'
  OBVIOUS
<1>0. events' \in Seq({"dispatched", "success", "failure"}) \/ events' = events
  <2>1. CASE call' \in {"new", "observing", "sending", "refusing", "streaming", "closing",
                        "succeeding", "failing", "ended", "failed", "refused", "dropped"}
    BY <2>1, Tuples DEF Logged
  <2>2. CASE call' = call
    BY <2>2, <2>1, TypeParts DEF Typed
  <2> QED BY <2>1, <2>2 DEF StreamNext, streamVars, Open, Proceeds, Heard, Producer, Read, ReadEof,
               ReadFailed, Push,
            PushTimeout, Drain, Abandoned, Stops, RestOfCall, Body, Observe, NoStream, NoStreamTold, Stream,
            Receive, EndOfChannel, Finish, FinishTold, EventAppended, Connection, Flush, Disconnect
<1> USE TypeParts, Short DEF Typed, wire, RestOfCall
<1>1. CASE Open
  BY <1>0, <1>1 DEF Open, Proceeds
<1>2. CASE Observe
  BY <1>0, <1>2 DEF Observe, Proceeds, Heard
<1>3. CASE NoStream
  BY <1>0, <1>3 DEF NoStream, Proceeds
<1>4. CASE Stream
  BY <1>4 DEF Stream
<1>5. ASSUME NEW c \in Chunks, Read(c) PROVE StreamTypeOK'
  <2>1. Append(sent, c) \in Seq(Chunks)
    OBVIOUS
  <2> QED BY <1>5, <2>1 DEF Read
<1>6. CASE ReadEof
  BY <1>6 DEF ReadEof
<1>7. CASE ReadFailed
  BY <1>7 DEF ReadFailed, Stops
<1>8. CASE Push
  BY <1>8 DEF Push
<1>9. CASE PushTimeout
  BY <1>9 DEF PushTimeout, Stops
<1>10. CASE Drain
  BY <1>10 DEF Drain, Stops
<1>11. CASE Abandoned
  BY <1>11 DEF Abandoned, Stops
<1>12. CASE Receive
  <2>1. Fed(marker, Head(queue)) \in Markers
    BY <1>12, FedType, Singles DEF Receive
  <2> QED BY <1>12, <2>1 DEF Receive
<1>13. CASE EndOfChannel
  BY <1>13 DEF EndOfChannel
<1>14. CASE Finish
  BY <1>0, <1>14 DEF Finish, Proceeds
<1>15. CASE Flush
  BY <1>15, Joins DEF Flush
<1>16. CASE Disconnect
  BY <1>16 DEF Disconnect
<1>17. CASE UNCHANGED streamVars
  BY <1>17 DEF streamVars
<1>18. CASE NoStreamTold
  BY <1>18, <1>0 DEF NoStreamTold, Heard, Proceeds
<1>19. CASE FinishTold
  BY <1>19, <1>0 DEF FinishTold, Heard, Proceeds
<1>20. CASE EventAppended
  BY <1>20, <1>0 DEF EventAppended
<1> QED BY <1>1, <1>2, <1>3, <1>4, <1>5, <1>6, <1>7, <1>8, <1>9, <1>10, <1>11, <1>12, <1>13,
             <1>14, <1>15, <1>16, <1>17, <1>18, <1>19, <1>20 DEF StreamNext, Producer, Body,
             Connection

\* Nothing is lost between the upstream and the client.
LEMMA KeptKept == StreamTypeOK /\ Hand /\ Kept /\ Tracked /\ [StreamNext]_streamVars => Kept'
<1> SUFFICES ASSUME StreamTypeOK, Hand, Kept, Tracked, [StreamNext]_streamVars PROVE Kept'
  OBVIOUS
<1>0. /\ written \in Seq(Chunks) /\ writing \in Seq(Chunks) /\ queue \in Seq(Chunks)
      /\ chunk \in Seq(Chunks) /\ sent \in Seq(Chunks) /\ mode' = mode
  BY TypeParts DEF Typed, StreamNext, streamVars, wire, Open, Proceeds, Heard, Producer, Read, ReadEof,
     ReadFailed, Push,
            PushTimeout, Drain, Abandoned, Stops, RestOfCall, Body, Observe, NoStream, NoStreamTold, Stream,
            Receive, EndOfChannel, Finish, FinishTold, EventAppended, Connection, Flush, Disconnect
<1>s. \A how : Stops(how) /\ (how = "ok" /\ BodyAlive => written = sent) => Kept'
  <2> SUFFICES ASSUME NEW how, Stops(how), how = "ok" /\ BodyAlive => written = sent PROVE Kept'
    OBVIOUS
  <2>1. UNCHANGED <<call, mode, written, writing, queue, sent, eof>> /\ chunk' = <<>>
        /\ producer' = "done" /\ terminal' = how
    BY DEF Stops, RestOfCall
  <2>2. Afoot' = written \o writing \o queue
    BY <1>0, <2>1, Joins DEF Afoot
  <2>3. IsPrefix(Afoot, sent) => IsPrefix(written \o writing \o queue, sent)
    <3>1. written \o writing \o queue \in Seq(Chunks)
      BY <1>0, Joins
    <3> QED BY <1>0, <3>1, PrefixShort DEF Afoot
  <2> QED BY <2>1, <2>2, <2>3 DEF Kept, BodyAlive
<1> USE DEF Kept, BodyAlive, wire, RestOfCall
<1>r. ASSUME UNCHANGED <<written, writing, queue, chunk, sent, eof, producer, terminal, mode>>,
             call' \in {"streaming", "closing"} => call \in {"streaming", "closing"}
      PROVE  Kept'
  BY <1>r DEF Afoot
<1>1. CASE Open
  BY <1>1, <1>r DEF Open, Proceeds
<1>2. CASE Observe
  BY <1>2, <1>r DEF Observe, Proceeds, Heard
<1>3. CASE NoStream
  BY <1>3, <1>r DEF NoStream, Proceeds
<1>4. CASE Stream
  <2>1. /\ UNCHANGED <<written, writing, queue, chunk, sent, eof, terminal, mode>>
        /\ sent = <<>> /\ written = <<>> /\ writing = <<>> /\ queue = <<>> /\ chunk = <<>>
        /\ call' = "streaming" /\ producer' = "reading" /\ terminal # "ok"
    BY <1>4 DEF Stream, Hand, Before
  <2>2. Afoot' = <<>>
    BY <2>1, Short, Joins DEF Afoot
  <2> QED BY <1>0, <2>1, <2>2, PrefixSelf
<1>5. ASSUME NEW c \in Chunks, Read(c) PROVE Kept'
  <2>1. /\ UNCHANGED <<call, written, writing, queue, eof, terminal, mode>> /\ chunk = <<>>
        /\ sent' = Append(sent, c) /\ chunk' = <<c>> /\ producer = "reading"
             /\ producer' = "reserving"
        /\ terminal # "ok"
    BY <1>5 DEF Read, Hand
  <2>2. Afoot' = Append(Afoot, c)
    <3>1. written \o writing \o queue \in Seq(Chunks)
      BY <1>0, Joins
    <3> QED BY <2>1, <3>1, Joins DEF Afoot
  <2>3. IsPrefix(written, Append(sent, c))
    BY <1>0, PrefixAppend
  <2>4. Append(sent, c) \in Seq(Chunks)
    BY <1>0
  <2>5. BodyAlive => Afoot = sent
    BY <2>1
  <2>6. IsPrefix(Append(sent, c), Append(sent, c))
    BY <2>4, PrefixSelf
  <2> QED BY <2>1, <2>2, <2>3, <2>5, <2>6
<1>6. CASE ReadEof
  BY <1>6 DEF ReadEof, Hand, Afoot
<1>7. CASE ReadFailed
  BY <1>7, <1>s DEF ReadFailed
<1>8. CASE Push
  <2>1. /\ UNCHANGED <<call, written, writing, sent, eof, terminal, mode>> /\ queue = <<>>
        /\ queue' = chunk /\ chunk' = <<>> /\ producer' = "reading" /\ producer = "reserving"
    BY <1>8 DEF Push
  <2>2. Afoot' = Afoot
    <3>1. written \o writing \in Seq(Chunks) /\ (written \o writing) \o chunk \in Seq(Chunks)
      BY <1>0, Joins
    <3> QED BY <1>0, <2>1, <3>1, Joins DEF Afoot
  <2> QED BY <2>1, <2>2 DEF Hand
<1>9. CASE PushTimeout
  BY <1>9, <1>s DEF PushTimeout
<1>10. CASE Drain
  <2>1. drained /\ BodyAlive => written = sent
    <3>1. SUFFICES ASSUME drained, BodyAlive PROVE written = sent
      OBVIOUS
    <3>2. producer = "draining" /\ chunk = <<>> /\ queue = <<>> /\ writing = <<>>
      BY <3>1, <1>10 DEF Drain, Hand
    <3>3. Afoot = written
      BY <1>0, <3>2, Joins DEF Afoot
    <3> QED BY <3>1, <3>2, <3>3
  <2> QED BY <1>10, <1>s, <2>1 DEF Drain
<1>11. CASE Abandoned
  BY <1>11, <1>s DEF Abandoned
<1>12. CASE Receive
  <2>1. /\ UNCHANGED <<call, written, chunk, sent, eof, terminal, producer, mode>> /\ writing = <<>>
        /\ writing' = queue /\ queue' = <<>>
    BY <1>12 DEF Receive
  <2>2. Afoot' = Afoot
    <3>1. written \o queue \in Seq(Chunks)
      BY <1>0, Joins
    <3> QED BY <1>0, <2>1, <3>1, Joins DEF Afoot
  <2> QED BY <2>1, <2>2
<1>13. CASE EndOfChannel
  BY <1>13, <1>r DEF EndOfChannel
<1>14. CASE Finish
  BY <1>14, <1>r DEF Finish, Proceeds
<1>15. CASE Flush
  <2>1. /\ UNCHANGED <<call, queue, chunk, sent, eof, terminal, producer, mode>>
        /\ writing # <<>> /\ written' = written \o writing /\ writing' = <<>>
    BY <1>15 DEF Flush
  <2>2. BodyAlive
    <3>1. producer # "none" /\ call \notin {"succeeding", "failing", "ended", "failed", "dropped"}
      BY <2>1 DEF Hand
    <3> QED BY <3>1, TypeParts DEF Typed, Hand, Before
  <2>3. written \o writing \in Seq(Chunks) /\ (written \o writing) \o queue \in Seq(Chunks)
    BY <1>0, Joins
  <2>4. Afoot' = Afoot
    BY <1>0, <2>1, <2>3, Joins DEF Afoot
  <2>5. IsPrefix(written \o writing, sent)
    BY <1>0, <2>2, <2>3, PrefixShort DEF Afoot
  <2>6. terminal # "ok"
    <3>1. ASSUME terminal = "ok" PROVE FALSE
      BY <2>1, <2>2, <3>1 DEF Hand, Before
    <3> QED BY <3>1
  <2> QED BY <2>1, <2>2, <2>4, <2>5, <2>6
<1>16. CASE Disconnect
  BY <1>16 DEF Disconnect
<1>17. CASE UNCHANGED streamVars
  BY <1>17, <1>r DEF streamVars
<1>18. CASE NoStreamTold
  BY <1>18, <1>r DEF NoStreamTold, Heard, Proceeds
<1>19. CASE FinishTold
  BY <1>19, <1>r DEF FinishTold, Heard, Proceeds
<1>20. CASE EventAppended
  BY <1>20, <1>r DEF EventAppended
<1> QED BY <1>1, <1>2, <1>3, <1>4, <1>5, <1>6, <1>7, <1>8, <1>9, <1>10, <1>11, <1>12, <1>13,
             <1>14, <1>15, <1>16, <1>17, <1>18, <1>19, <1>20 DEF StreamNext, Producer, Body,
             Connection

\* The guard's parser has seen what the connection has got.
LEMMA TrackedKept == StreamTypeOK /\ Tracked /\ [StreamNext]_streamVars => Tracked'
<1> SUFFICES ASSUME StreamTypeOK, Tracked, [StreamNext]_streamVars PROVE Tracked'
  OBVIOUS
<1> DEFINE J == written \o writing
<1>0. /\ written \in Seq(Chunks) /\ writing \in Seq(Chunks) /\ queue \in Seq(Chunks)
           /\ Len(queue) <= 1
      /\ marker \in Markers /\ mode \in {"data", "event"} /\ J \in Seq(Chunks)
  BY TypeParts, StreamsAssumption, Joins DEF Typed
<1>r. ASSUME UNCHANGED <<J, marker, mode>>, call' # "dropped" => call # "dropped" PROVE Tracked'
  BY <1>r DEF Tracked
<1>1. CASE UNCHANGED <<written, writing, marker, mode>> /\ (call' # "dropped" => call # "dropped")
  BY <1>1, <1>r
<1>2. CASE Receive
  <2>1. /\ UNCHANGED <<call, written, mode>> /\ writing = <<>> /\ writing' = queue /\ queue # <<>>
        /\ marker' = Fed(marker, Head(queue)) /\ call # "dropped"
    BY <1>2 DEF Receive
  <2>2. Head(queue) \in Chunks /\ queue = <<Head(queue)>>
    BY <1>0, <2>1, Singles
  <2>3. J = written /\ J' = Append(written, Head(queue))
    BY <1>0, <2>1, <2>2, Joins
  <2>4. Tracks(mode, marker, written)
    BY <2>1, <2>3 DEF Tracked
  <2>5. Tracks(mode, Fed(marker, Head(queue)), Append(written, Head(queue)))
    BY <1>0, <2>2, <2>4, FedTracks
  <2> QED BY <2>1, <2>3, <2>5 DEF Tracked
<1>3. CASE Flush
  <2>1. UNCHANGED <<call, marker, mode>> /\ written' = J /\ writing' = <<>>
    BY <1>3 DEF Flush
  <2>2. J' = J
    BY <1>0, <2>1, Joins
  <2> QED BY <1>r, <2>1, <2>2
<1>4. CASE Disconnect
  BY <1>4 DEF Disconnect, Tracked
<1> QED BY <1>1, <1>2, <1>3, <1>4 DEF StreamNext, streamVars, wire, Open, Proceeds, Heard, Producer, Read,
             ReadEof, ReadFailed, Push,
            PushTimeout, Drain, Abandoned, Stops, RestOfCall, Body, Observe, NoStream, NoStreamTold, Stream,
            EndOfChannel, Finish, FinishTold, EventAppended, Connection

\* What is logged of the end stays true: it is logged once the producer is
\* done, or never ran, and nothing is on its way any more.
LEMMA TruthfulKept ==
  StreamTypeOK /\ Logged /\ Hand /\ Kept /\ Tracked /\ Truthful /\ [StreamNext]_streamVars
    => Truthful'
<1> SUFFICES ASSUME StreamTypeOK, Logged, Hand, Kept, Tracked, Truthful, [StreamNext]_streamVars
             PROVE  Truthful'
  OBVIOUS
<1>0. mode' = mode /\ written \in Seq(Chunks) /\ writing \in Seq(Chunks) /\ <<>> \in Seq(Chunks)
  BY TypeParts DEF Typed, StreamNext, streamVars, wire, Open, Proceeds, Heard, Producer, Read,
     ReadEof, ReadFailed, Push, PushTimeout, Drain, Abandoned, Stops, RestOfCall, Body, Observe,
     NoStream, NoStreamTold, Stream, Receive, EndOfChannel, Finish, FinishTold, EventAppended,
     Connection, Flush, Disconnect
<1> USE DEF Truthful, wire, RestOfCall
\* while the log says nothing of the end, and nothing is about to
<1>q. ASSUME writer' \notin {"success", "failure"}, call' \notin {"succeeding", "ended"},
             events' \in {<<>>, <<"dispatched">>}
      PROVE  Truthful'
  BY <1>q, Tuples
<1>1. CASE Open
  BY <1>1, <1>q DEF Open, Proceeds, Logged
<1>2. CASE Observe
  BY <1>2, <1>q, Tuples DEF Observe, Heard, Proceeds, Logged
<1>3. CASE NoStream
  BY <1>3, Tuples DEF NoStream, Proceeds, Logged, Hand, Before
<1>4. CASE Stream
  BY <1>4, <1>q DEF Stream, Logged
<1>5. CASE Producer
  <2>1. producer \notin {"none", "done"} /\ UNCHANGED <<call, events, writer>>
    BY <1>5 DEF Producer, Read, ReadEof, ReadFailed, Push, PushTimeout, Drain, Abandoned, Stops
  <2> QED BY <2>1
<1>6. CASE Receive
  BY <1>6, <1>q DEF Receive, Logged
<1>7. CASE EndOfChannel
  BY <1>7, <1>q DEF EndOfChannel, Logged
<1>8. CASE Finish
  <2>1. /\ call = "closing" /\ events' = <<"dispatched">> /\ producer = "done" /\ writing = <<>>
        /\ UNCHANGED <<eof, written, sent, writing, producer, terminal>>
        /\ terminal # "dropped" /\ (terminal = "ok" => eof /\ written = sent)
    BY <1>8 DEF Finish, Proceeds, Logged, Hand, Kept, BodyAlive
  <2>2. marker.done <=> EndFound(mode, written)
    <3>1. written \o writing = written
      BY <1>0, <2>1, Joins
    <3> QED BY <2>1, <3>1 DEF Tracked, Tracks
  <2>3. CASE EndsWell
    BY <1>0, <1>8, <2>1, <2>2, <2>3, Tuples DEF Finish, Proceeds, EndsWell
  <2>4. CASE ~EndsWell
    BY <1>0, <1>8, <2>1, <2>2, <2>4, Tuples DEF Finish, Proceeds, EndsWell
  <2> QED BY <2>3, <2>4
<1>9. CASE Flush
  BY <1>0, <1>9 DEF Flush
<1>10. CASE Disconnect
  BY <1>0, <1>10 DEF Disconnect
<1>11. CASE UNCHANGED streamVars
  BY <1>11 DEF streamVars
<1>12. CASE NoStreamTold
  BY <1>0, <1>12 DEF NoStreamTold, Heard, Proceeds
<1>13. CASE FinishTold
  BY <1>0, <1>13 DEF FinishTold, Heard, Proceeds
<1>14. CASE EventAppended
  BY <1>0, <1>14, Tuples, TypeParts DEF EventAppended, Logged, Typed
<1> QED BY <1>1, <1>2, <1>3, <1>4, <1>5, <1>6, <1>7, <1>8, <1>9, <1>10, <1>11, <1>12, <1>13,
             <1>14 DEF StreamNext, Body, Connection

\* The parts keep each other.
LEMMA StreamInductive == StreamSpec => []StreamInv
<1>1. StreamInv /\ [StreamNext]_streamVars => StreamInv'
  BY TypeKept, LoggedKept, HandKept, KeptKept, TrackedKept, TruthfulKept DEF StreamInv
<1> QED BY StreamInitHolds, <1>1, PTL DEF StreamSpec

\* What the parts say of the end of a call.
LEMMA StreamImplied == StreamInv => CleanEndsTrue /\ EventsMatch
<1> SUFFICES ASSUME StreamInv PROVE CleanEndsTrue /\ EventsMatch
  OBVIOUS
<1> USE DEF StreamInv
<1>1. MarkerExact
  BY TerminatedIs DEF Tracked, Tracks, MarkerExact
<1>2. NoSilentTruncation
  <2>1. call = "ended" => Terminated(sent)
    BY TerminatedIs DEF Truthful
  <2> QED BY <2>1 DEF Kept, Truthful, NoSilentTruncation, Afoot
<1>3. EventsMatch
  <2>1. events \in {<<>>, <<"dispatched">>, <<"dispatched", "success">>, <<"dispatched", "failure">>}
    BY TypeParts, Tuples DEF Typed, Logged
  <2>2. Terminated(sent) <=> EndFound(mode, sent)
    BY TerminatedIs
  <2>3. ASSUME events = <<"dispatched", "success">>
        PROVE  /\ call \in {"succeeding", "ended", "dropped"}
               /\ eof /\ written = sent /\ Terminated(sent)
    BY <2>2, <2>3, TypeParts, Tuples DEF Typed, Logged, Truthful
  <2>4. ASSUME events = <<"dispatched", "failure">>
        PROVE  /\ call \in {"refusing", "refused", "failing", "failed", "dropped"}
               /\ ~(terminal = "ok" /\ Terminated(sent))
    BY <2>2, <2>4, TypeParts, Tuples DEF Typed, Logged, Truthful
  <2>5. call = "ended" => events = <<"dispatched", "success">>
    BY DEF Logged
  <2> QED BY <2>1, <2>3, <2>4, <2>5 DEF EventsMatch
<1> QED BY <1>1, <1>2, <1>3 DEF CleanEndsTrue

\* sse.rs, proxy.rs: the guard says done exactly when what the connection has
\* got is a whole last event, and a client that sees a clean end has all that
\* was sent; while the body lives no chunk is lost or overtaken.
THEOREM CleanEndsHolds == StreamSpec => []CleanEndsTrue
BY StreamInductive, StreamImplied, PTL

\* lib.rs: a client that sees a clean end is logged as a success, a completed
\* event follows its dispatched one, once, and is true of the stream, whatever
\* append fails and whenever the client leaves.
THEOREM EventsMatchHolds == StreamSpec => []EventsMatch
BY StreamInductive, StreamImplied, PTL

-----------------------------------------------------------------------------
(***************************************************************************)
(* Storage, for every number of processes, tenants and records.  The       *)
(* invariant says who holds the lock, what the manifest has been applied   *)
(* of, and that what is behind the migration's cursor has its event        *)
(* (StorageInv).                                                           *)
(***************************************************************************)
Entry == [tenant : DbTenants, limit : Nat]
States == Booting \cup {"off", "serving", "exiting"}
Work == [pc : States, manifest : Manifests \cup {<<>>}, at : Nat, todo : SUBSET DbTenants,
         after : Nat, batch : SUBSET Ids, seen : SUBSET Ids]
Write == [by : Procs \cup {Nobody}, step : {"none", "event", "record", "done"}]

StorageShape ==
  /\ dir \in BOOLEAN /\ outside \in BOOLEAN
  /\ lock \in Procs \cup {Nobody}
  /\ starts \in 0 .. MaxStarts
  /\ config \in [DbTenants -> Int]
  /\ records \in SUBSET Ids /\ lost \in SUBSET Ids
  /\ logged \in [Ids -> Nat]
  /\ proc \in [Procs -> Work]
  /\ audit \in [Ids \ Legacy -> Write]

Threads ==
  \A id \in DOMAIN audit :
    /\ audit[id].step \in {"event", "record"} <=> audit[id].by # Nobody
    /\ audit[id].by # Nobody => Alive(audit[id].by)

Working(p) == At(p, Booting \ {"locking"})
Locks ==
  \A p \in Procs :
    /\ At(p, {"serving"}) => lock = p
    /\ Working(p) /\ ~outside => lock = p

Applied(m, n) == \A i \in 1 .. n : i \in DOMAIN m => config[m[i].tenant] = m[i].limit
Configs ==
  \A p \in Procs :
    /\ At(p, {"configuring"}) => proc[p].at # 0 /\ (~outside
         => Applied(proc[p].manifest, proc[p].at - 1))
    /\ At(p, {"retaining"}) /\ ~outside => Applied(proc[p].manifest, Len(proc[p].manifest))
    /\ At(p, {"listing", "reading", "checking", "appending", "relocking", "serving"}) /\ ~outside
         => config = Reconciled(proc[p].manifest)

Audits ==
  \A id \in DOMAIN audit :
    /\ audit[id].step \in {"none", "event"} => logged[id] = 0
    /\ audit[id].step # "done" => id \notin records
    /\ audit[id].step = "record" => logged[id] > 0 \/ id \in lost

\* What of tenant t is behind the process: up to its cursor, and before its page.
Behind(w, id) ==
  \/ TenantOf[id] \notin w.todo
  \/ w.todo # {} /\ TenantOf[id] = Min(w.todo) /\ id <= w.after
Paged(w, id) ==
  w.pc \in {"checking", "appending"} /\ TenantOf[id] = Min(w.todo)
    => logged[id] > 0 \/ id \in w.batch \/ (\A b \in w.batch : b < id)
Pages ==
  \A p \in Procs :
    LET w == proc[p] IN
    /\ At(p, {"off", "locking", "opening", "configuring", "retaining", "listing"}) => w.after = 0
    /\ At(p, {"reading", "checking", "appending", "relocking"}) =>
         /\ w.seen \subseteq records
         /\ \A id \in w.seen \cap Compatible : (Behind(w, id) => logged[id] > 0) /\ Paged(w, id)
    /\ At(p, {"checking", "appending"}) => w.batch # {} /\ w.batch \subseteq records /\ w.todo # {}
    /\ At(p, {"appending"}) /\ ~outside => logged[Min(w.batch)] = 0

StorageInv == StorageShape /\ Threads /\ Locks /\ Configs /\ Audits /\ Pages /\ AuditOnce
                /\ HistoryMigrated /\ EventFirst

-----------------------------------------------------------------------------
\* What the proofs need of the constants.
LEMMA Bounds ==
  /\ MaxStarts \in Nat /\ BatchSize \in Nat \ {0} /\ Nobody \notin Procs /\ Legacy \subseteq Ids
  /\ Ids \subseteq Nat \ {0} /\ DbTenants \subseteq Nat
  /\ IsFiniteSet(Ids) /\ IsFiniteSet(DbTenants) /\ TenantOf \in [Ids -> DbTenants]
  BY StorageAssumption

\* The least element of a set of numbers.
LEMMA Least ==
  ASSUME NEW S \in SUBSET Nat, S # {}
  PROVE  Min(S) \in S /\ \A x \in S : Min(S) <= x
<1>1. \E n \in S : \A k \in S : n <= k
  BY NatMin
<1> QED BY <1>1 DEF Min

\* A process that does not run is one.
LEMMA IdleIs == Idle \in Work
  BY StorageAssumption DEF Idle, Work, States, Booting

\* A limit nobody has set is a number.
LEMMA UnsetIs == Unset \in Int
  BY DEF Unset

\* Nothing runs at first, and no audit has been written.
LEMMA StorageInitHolds == StorageInit => StorageInv
<1> SUFFICES ASSUME StorageInit PROVE StorageInv
  OBVIOUS
<1>1. StorageShape
  <2>1. proc \in [Procs -> Work]
    BY IdleIs DEF StorageInit
  <2>2. audit \in [Ids \ Legacy -> Write]
    BY DEF StorageInit, Write
  <2>3. config \in [DbTenants -> Int] /\ logged \in [Ids -> Nat]
    BY UnsetIs DEF StorageInit
  <2>4. dir \in BOOLEAN /\ outside \in BOOLEAN /\ lock \in Procs \cup {Nobody}
    BY DEF StorageInit
  <2>5. starts \in 0 .. MaxStarts /\ records \in SUBSET Ids /\ lost \in SUBSET Ids
    <3>1. starts \in 0 .. MaxStarts
      BY Bounds DEF StorageInit
    <3> QED BY <3>1, Bounds DEF StorageInit
  <2> QED BY <2>1, <2>2, <2>3, <2>4, <2>5 DEF StorageShape
<1>2. Threads
  BY StorageAssumption DEF StorageInit, Threads
<1>3. Locks
  BY DEF StorageInit, Locks, At, Working, Idle, Booting
<1>4. Configs /\ Pages /\ HistoryMigrated
  BY DEF StorageInit, Configs, Pages, HistoryMigrated, At, Idle
<1>5. Audits /\ AuditOnce /\ EventFirst
  BY StorageAssumption DEF StorageInit, Audits, AuditOnce, EventFirst
<1> QED BY <1>1, <1>2, <1>3, <1>4, <1>5 DEF StorageInv

-----------------------------------------------------------------------------
\* Past takes the first id off the page.
LEMMA PastType ==
  ASSUME NEW w \in Work, w.batch # {}
  PROVE  /\ Past(w) \in Work /\ Past(w).manifest = w.manifest /\ Past(w).todo = w.todo
         /\ Past(w).seen = w.seen /\ Past(w).batch = w.batch \ {Min(w.batch)}
         /\ Past(w).pc = (IF Past(w).batch = {} THEN "reading" ELSE "checking")
         /\ Past(w).after = (IF Past(w).batch = {} THEN Min(w.batch) ELSE w.after)
         /\ Min(w.batch) \in w.batch /\ \A x \in w.batch : Min(w.batch) <= x
<1>1. w.batch \in SUBSET Nat /\ w.batch \in SUBSET Ids
  BY StorageAssumption DEF Work
<1>2. Min(w.batch) \in w.batch /\ Min(w.batch) \in Nat /\ \A x \in w.batch : Min(w.batch) <= x
  BY <1>1, Least
<1> QED BY <1>1, <1>2 DEF Past, Work, States, Booting

\* A step of one process leaves the others as they are.
Moves(p) ==
  /\ proc' \in [Procs -> Work]
  /\ \A q \in Procs : q # p => proc'[q] = proc[q]

\* A process that becomes w, alone.
LEMMA Moved ==
  ASSUME StorageShape, NEW p \in Procs, NEW w \in Work, proc' = [proc EXCEPT ![p] = w]
  PROVE  Moves(p) /\ proc'[p] = w
BY DEF StorageShape, Moves

\* Several fields of one process at once.
LEMMA StartFields ==
  ASSUME NEW f \in [Procs -> Work], NEW p \in Procs
  PROVE  /\ \A v : [f EXCEPT ![p].pc = v] = [f EXCEPT ![p] = [f[p] EXCEPT !.pc = v]]
         /\ \A v : [f EXCEPT ![p].at = v] = [f EXCEPT ![p] = [f[p] EXCEPT !.at = v]]
         /\ f[p] \in Work
  OBVIOUS

\* Goto moves one process.
LEMMA GoesTo ==
  ASSUME StorageShape, NEW p \in Procs, NEW pc \in States, Goto(p, pc)
  PROVE  Moves(p) /\ proc'[p] = [proc[p] EXCEPT !.pc = pc]
<1>1. proc \in [Procs -> Work] /\ proc[p] \in Work
  BY DEF StorageShape
<1>2. [proc[p] EXCEPT !.pc = pc] \in Work
  BY <1>1 DEF Work
<1>3. proc' = [proc EXCEPT ![p] = [proc[p] EXCEPT !.pc = pc]]
  BY <1>1, StartFields DEF Goto
<1> QED BY <1>2, <1>3, Moved

\* A process that ends moves alone.
LEMMA GoesIdle ==
  ASSUME StorageShape, NEW p \in Procs, proc' = [proc EXCEPT ![p] = Idle]
  PROVE  Moves(p) /\ proc'[p] = Idle
BY Moved, IdleIs

\* Opening takes a manifest and starts at its first entry.
LEMMA DatabaseOpens ==
  ASSUME StorageShape, NEW p \in Procs, OpenDatabase(p)
  PROVE  \E m \in Manifests : Moves(p) /\ proc'[p] = [proc[p] EXCEPT !.pc = "configuring",
           !.manifest = m, !.at = 1]
<1>1. proc \in [Procs -> Work] /\ proc[p] \in Work
  BY DEF StorageShape
<1>2. PICK m \in Manifests : proc' = [proc EXCEPT ![p].pc = "configuring", ![p].manifest = m,
             ![p].at = 1]
  BY DEF OpenDatabase
<1> DEFINE w == [proc[p] EXCEPT !.pc = "configuring", !.manifest = m, !.at = 1]
<1>3. w \in Work
  BY <1>1 DEF Work, States, Booting
<1>4. proc' = [proc EXCEPT ![p] = w]
  BY <1>1, <1>2
<1>5. Moves(p) /\ proc'[p] = w
  <2> HIDE DEF w
  <2> QED BY <1>3, <1>4, Moved
<1> QED BY <1>5

\* Configuring goes on to the next entry.
LEMMA Configures ==
  ASSUME StorageShape, NEW p \in Procs, Configure(p)
  PROVE  Moves(p) /\ proc'[p] = [proc[p] EXCEPT !.at = proc[p].at + 1]
<1>1. proc \in [Procs -> Work] /\ proc[p] \in Work
  BY DEF StorageShape
<1> DEFINE w == [proc[p] EXCEPT !.at = proc[p].at + 1]
<1>3. w \in Work
  BY <1>1 DEF Work
<1>4. proc' = [proc EXCEPT ![p] = w]
  BY <1>1, StartFields DEF Configure
<1>5. Moves(p) /\ proc'[p] = w
  <2> HIDE DEF w
  <2> QED BY <1>3, <1>4, Moved
<1> QED BY <1>5

\* Listing takes down whose records there are.
LEMMA Lists ==
  ASSUME StorageShape, NEW p \in Procs, List(p)
  PROVE  /\ Moves(p)
         /\ proc'[p] = [proc[p] EXCEPT !.pc = "reading", !.at = 0, !.seen = records,
                                       !.todo = {TenantOf[id] : id \in records}]
<1>1. proc \in [Procs -> Work] /\ proc[p] \in Work
  BY DEF StorageShape
<1> DEFINE tenants == {TenantOf[id] : id \in records}
<1>2. tenants \in SUBSET DbTenants /\ records \in SUBSET Ids
  BY StorageAssumption DEF StorageShape
<1> DEFINE w == [proc[p] EXCEPT !.pc = "reading", !.at = 0, !.seen = records, !.todo = tenants]
<1>3. w \in Work
  <2> HIDE DEF tenants
  <2> QED BY <1>1, <1>2 DEF Work, States, Booting
<1>4. proc' = [proc EXCEPT ![p] = w]
  <2>1. proc' = [proc EXCEPT ![p].pc = "reading", ![p].at = 0, ![p].seen = records,
          ![p].todo = tenants]
    BY DEF List
  <2> HIDE DEF tenants
  <2> QED BY <1>1, <2>1
<1>5. Moves(p) /\ proc'[p] = w
  <2> HIDE DEF w
  <2> QED BY <1>3, <1>4, Moved
<1> QED BY <1>5

\* Reading takes a page, or is done with a tenant.
LEMMA Reads ==
  ASSUME StorageShape, NEW p \in Procs, ReadPage(p)
  PROVE  /\ Moves(p) /\ Min(proc[p].todo) \in proc[p].todo
         /\ LET page == Page(Min(proc[p].todo), proc[p].after)
            IN \/ page = {} /\ proc'[p] = [proc[p] EXCEPT !.todo = @ \ {Min(proc[p].todo)},
                    !.after = 0]
               \/ page # {} /\ proc'[p] = [proc[p] EXCEPT !.pc = "checking", !.batch = page]
<1>1. proc \in [Procs -> Work] /\ proc[p] \in Work
  BY DEF StorageShape
<1>0. Min(proc[p].todo) \in proc[p].todo
  <2>1. proc[p].todo # {} /\ proc[p].todo \in SUBSET Nat
    BY <1>1, StorageAssumption DEF ReadPage, Work
  <2> QED BY <2>1, Least
<1> DEFINE t == Min(proc[p].todo)
           page == Page(t, proc[p].after)
           u == [proc[p] EXCEPT !.todo = proc[p].todo \ {t}, !.after = 0]
           w == [proc[p] EXCEPT !.pc = "checking", !.batch = page]
<1>2. page \in SUBSET Ids
  BY DEF Page, StorageShape
<1>3. proc' = IF page = {} THEN [proc EXCEPT ![p].todo = @ \ {t}, ![p].after = 0]
                           ELSE [proc EXCEPT ![p].pc = "checking", ![p].batch = page]
  BY DEF ReadPage
<1> HIDE DEF page, t
<1>4. CASE page = {}
  <2>1. u \in Work
    BY <1>1 DEF Work
  <2>2. proc' = [proc EXCEPT ![p] = u]
    BY <1>1, <1>3, <1>4
  <2>3. Moves(p) /\ proc'[p] = u
    <3> HIDE DEF u
    <3> QED BY <2>1, <2>2, Moved
  <2> QED BY <1>0, <1>4, <2>3 DEF page, t
<1>5. CASE page # {}
  <2>1. w \in Work
    BY <1>1, <1>2 DEF Work, States, Booting
  <2>2. proc' = [proc EXCEPT ![p] = w]
    BY <1>1, <1>3, <1>5
  <2>3. Moves(p) /\ proc'[p] = w
    <3> HIDE DEF w
    <3> QED BY <2>1, <2>2, Moved
  <2> QED BY <1>0, <1>5, <2>3 DEF page, t
<1> QED BY <1>4, <1>5

\* A record of the page is passed over, or its event is due.
LEMMA Checks ==
  ASSUME StorageShape, NEW p \in Procs, Check(p), proc[p].batch # {}
  PROVE  /\ Moves(p)
         /\ proc'[p] = IF Skippable(Min(proc[p].batch)) THEN Past(proc[p])
                       ELSE [proc[p] EXCEPT !.pc = "appending"]
<1>1. proc \in [Procs -> Work] /\ proc[p] \in Work
  BY DEF StorageShape
<1> DEFINE w == IF Skippable(Min(proc[p].batch)) THEN Past(proc[p])
                ELSE [proc[p] EXCEPT !.pc = "appending"]
<1>2. w \in Work
  <2>1. [proc[p] EXCEPT !.pc = "appending"] \in Work
    BY <1>1 DEF Work, States, Booting
  <2> QED BY <1>1, <2>1, PastType
<1>3. proc' = [proc EXCEPT ![p] = w]
  BY DEF Check
<1>4. Moves(p) /\ proc'[p] = w
  <2> HIDE DEF w
  <2> QED BY <1>2, <1>3, Moved
<1> QED BY <1>4

\* The event appended, the record is behind.
LEMMA Appends ==
  ASSUME StorageShape, NEW p \in Procs, AppendEvent(p), proc[p].batch # {}
  PROVE  Moves(p) /\ proc'[p] = Past(proc[p])
<1>1. proc \in [Procs -> Work] /\ proc[p] \in Work
  BY DEF StorageShape
<1> QED BY <1>1, PastType, Moved DEF AppendEvent

-----------------------------------------------------------------------------
Acts(p) == Boot(p) \/ Start(p) \/ RefuseStart(p) \/ Crash(p) \/ Stop(p)
Writes(p, id) == FinishRequest(p, id) \/ WriteEvent(p, id) \/ WriteRecord(p, id)

\* A step is a step of a process, of an audit, or of the directory.
LEMMA NextIs ==
  [StorageNext]_storageVars <=> \/ \E p \in Procs : Acts(p)
                                \/ \E p \in Procs, id \in DOMAIN audit : Writes(p, id)
                                \/ MakeDirectory \/ UNCHANGED storageVars
  BY DEF StorageNext, Acts, Writes

\* A step of a process moves no other.
LEMMA ActsMove ==
  ASSUME StorageShape, Pages, NEW p \in Procs, Acts(p)
  PROVE  Moves(p)
<1>1. At(p, {"checking", "appending"}) => proc[p].batch # {}
  BY DEF Pages
<1>2. "locking" \in States /\ "retaining" \in States /\ "listing" \in States
        /\ "relocking" \in States
      /\ "opening" \in States /\ "serving" \in States /\ "exiting" \in States
  BY DEF States, Booting
<1>3. CASE Start(p)
  BY <1>2, <1>3, GoesTo DEF Start
<1>4. CASE Gone(p)
  BY <1>4, GoesIdle DEF Gone
<1>5. CASE Stop(p)
  BY <1>2, <1>5, GoesTo DEF Stop
<1>6. CASE TryLock(p)
  BY <1>2, <1>6, GoesTo, GoesIdle DEF TryLock
<1>7. CASE OpenDatabase(p)
  BY <1>7, DatabaseOpens
<1>8. CASE Configure(p)
  BY <1>8, Configures
<1>9. CASE Configured(p)
  BY <1>2, <1>9, GoesTo DEF Configured
<1>10. CASE Retain(p)
  BY <1>2, <1>10, GoesTo DEF Retain
<1>11. CASE List(p)
  BY <1>11, Lists
<1>12. CASE ReadPage(p)
  BY <1>12, Reads
<1>13. CASE Check(p)
  BY <1>1, <1>13, Checks DEF Check, At
<1>14. CASE AppendEvent(p)
  BY <1>1, <1>14, Appends DEF AppendEvent, At
<1>15. CASE Migrated(p)
  BY <1>2, <1>15, GoesTo DEF Migrated
<1>16. CASE Relock(p)
  BY <1>2, <1>16, GoesTo, GoesIdle DEF Relock
<1> QED BY <1>3, <1>4, <1>5, <1>6, <1>7, <1>8, <1>9, <1>10, <1>11, <1>12, <1>13, <1>14, <1>15, <1>16
        DEF Acts, Boot, RefuseStart, Crash

\* What a step leaves of the process that takes it.
Holds(p) == proc'[p].manifest = proc[p].manifest /\ proc'[p].at = proc[p].at
Pages_(p) == /\ proc'[p].todo = proc[p].todo /\ proc'[p].after = proc[p].after
             /\ proc'[p].batch = proc[p].batch /\ proc'[p].seen = proc[p].seen
To(p, pc) == proc'[p].pc = pc /\ Holds(p) /\ Pages_(p)

\* Goto changes where a process is, and nothing else of it.
LEMMA ToIs ==
  ASSUME StorageShape, NEW p \in Procs, NEW pc, Goto(p, pc)
  PROVE  To(p, pc)
<1>1. proc \in [Procs -> Work] /\ proc[p] \in Work
  BY DEF StorageShape
<1>2. proc'[p] = [proc[p] EXCEPT !.pc = pc]
  BY <1>1 DEF Goto
<1> QED BY <1>1, <1>2 DEF To, Holds, Pages_, Work

\* A process that ends forgets its cursor.
LEMMA IdleEnds ==
  ASSUME StorageShape, NEW p \in Procs, proc' = [proc EXCEPT ![p] = Idle]
  PROVE  proc'[p] = Idle /\ proc'[p].pc = "off" /\ proc'[p].after = 0
  BY DEF StorageShape, Idle

\* What each step leaves of the process that takes it.
LEMMA Table ==
  ASSUME StorageShape, Pages, NEW p \in Procs
  PROVE  /\ Start(p) => To(p, "locking")
         /\ Gone(p) => proc'[p] = Idle /\ proc'[p].pc = "off" /\ proc'[p].after = 0
         /\ Stop(p) => To(p, "exiting")
         /\ TryLock(p) =>
              \/ dir /\ lock = Nobody /\ lock' = p /\ To(p, "opening") /\ UNCHANGED outside
              \/ /\ UNCHANGED <<lock, outside>>
                 /\ proc'[p] = Idle /\ proc'[p].pc = "off" /\ proc'[p].after = 0
              \/ outside' = TRUE /\ To(p, "opening") /\ UNCHANGED lock
         /\ OpenDatabase(p) => Pages_(p) /\ proc'[p].pc = "configuring" /\ proc'[p].at = 1
         /\ Configure(p) => Pages_(p) /\ proc'[p].pc = "configuring"
              /\ proc'[p].manifest = proc[p].manifest
                            /\ proc'[p].at = proc[p].at + 1
         /\ Configured(p) => To(p, "retaining")
         /\ Retain(p) => To(p, "listing")
         /\ List(p) => /\ proc'[p].pc = "reading" /\ proc'[p].manifest = proc[p].manifest
                       /\ proc'[p].after = proc[p].after /\ proc'[p].seen = records
                       /\ proc'[p].todo = {TenantOf[id] : id \in records}
         /\ Migrated(p) => To(p, "relocking")
         /\ Relock(p) =>
              \/ lock \in {p, Nobody} /\ lock' = p /\ To(p, "serving")
              \/ UNCHANGED lock /\ proc'[p] = Idle /\ proc'[p].pc = "off" /\ proc'[p].after = 0
<1>1. Start(p) => To(p, "locking")
  BY ToIs DEF Start
<1>2. Gone(p) => proc'[p] = Idle /\ proc'[p].pc = "off" /\ proc'[p].after = 0
  BY IdleEnds DEF Gone
<1>3. Stop(p) => To(p, "exiting")
  BY ToIs DEF Stop
<1>4. TryLock(p) =>
              \/ dir /\ lock = Nobody /\ lock' = p /\ To(p, "opening") /\ UNCHANGED outside
              \/ /\ UNCHANGED <<lock, outside>>
                 /\ proc'[p] = Idle /\ proc'[p].pc = "off" /\ proc'[p].after = 0
              \/ outside' = TRUE /\ To(p, "opening") /\ UNCHANGED lock
  BY ToIs, IdleEnds DEF TryLock
<1>5. OpenDatabase(p) => Pages_(p) /\ proc'[p].pc = "configuring" /\ proc'[p].at = 1
  <2> SUFFICES ASSUME OpenDatabase(p) PROVE Pages_(p) /\ proc'[p].pc = "configuring"
                        /\ proc'[p].at = 1
    OBVIOUS
  <2>1. PICK m \in Manifests : proc'[p] = [proc[p] EXCEPT !.pc = "configuring", !.manifest = m,
               !.at = 1]
    BY DatabaseOpens
  <2> QED BY <2>1 DEF Pages_, StorageShape, Work
<1>6. Configure(p) => Pages_(p) /\ proc'[p].pc = "configuring"
        /\ proc'[p].manifest = proc[p].manifest
                            /\ proc'[p].at = proc[p].at + 1
  <2> SUFFICES ASSUME Configure(p)
               PROVE  Pages_(p) /\ proc'[p].pc = "configuring"
                        /\ proc'[p].manifest = proc[p].manifest
                            /\ proc'[p].at = proc[p].at + 1
    OBVIOUS
  <2>1. proc'[p] = [proc[p] EXCEPT !.at = proc[p].at + 1] /\ proc[p].pc = "configuring"
    BY Configures DEF Configure, At
  <2> QED BY <2>1 DEF Pages_, StorageShape, Work
<1>7. (Configured(p) => To(p, "retaining")) /\ (Retain(p) => To(p, "listing"))
      /\ (Migrated(p) => To(p, "relocking"))
  BY ToIs DEF Configured, Retain, Migrated
<1>8. List(p) => /\ proc'[p].pc = "reading" /\ proc'[p].manifest = proc[p].manifest
                       /\ proc'[p].after = proc[p].after /\ proc'[p].seen = records
                       /\ proc'[p].todo = {TenantOf[id] : id \in records}
  <2> SUFFICES ASSUME List(p)
               PROVE  /\ proc'[p].pc = "reading" /\ proc'[p].manifest = proc[p].manifest
                       /\ proc'[p].after = proc[p].after /\ proc'[p].seen = records
                       /\ proc'[p].todo = {TenantOf[id] : id \in records}
    OBVIOUS
  <2> DEFINE tenants == {TenantOf[id] : id \in records}
  <2>1. proc'[p] = [proc[p] EXCEPT !.pc = "reading", !.at = 0, !.seen = records, !.todo = tenants]
    BY Lists
  <2> HIDE DEF tenants
  <2>2. /\ proc'[p].pc = "reading" /\ proc'[p].manifest = proc[p].manifest
                       /\ proc'[p].after = proc[p].after /\ proc'[p].seen = records
                       /\ proc'[p].todo = tenants
    BY <2>1 DEF StorageShape, Work
  <2> QED BY <2>2 DEF tenants
<1>9. Relock(p) =>
              \/ lock \in {p, Nobody} /\ lock' = p /\ To(p, "serving")
              \/ UNCHANGED lock /\ proc'[p] = Idle /\ proc'[p].pc = "off" /\ proc'[p].after = 0
  BY ToIs, IdleEnds DEF Relock
<1> QED BY <1>1, <1>2, <1>3, <1>4, <1>5, <1>6, <1>7, <1>8, <1>9

\* A process between two pages, or within one, keeps its manifest and what it found.
LEMMA PagingTable ==
  ASSUME StorageShape, Pages, NEW p \in Procs, ReadPage(p) \/ Check(p) \/ AppendEvent(p)
  PROVE  /\ proc'[p].pc \in {"reading", "checking", "appending"}
         /\ proc'[p].manifest = proc[p].manifest /\ proc'[p].seen = proc[p].seen
<1>1. At(p, {"checking", "appending"}) => proc[p].batch # {}
  BY DEF Pages
<1>2. proc[p] \in Work
  BY DEF StorageShape
<1>3. ASSUME ReadPage(p)
      PROVE  /\ proc'[p].pc \in {"reading", "checking", "appending"}
             /\ proc'[p].manifest = proc[p].manifest /\ proc'[p].seen = proc[p].seen
  <2>1. proc[p].pc = "reading"
    BY <1>3 DEF ReadPage, At
  <2> DEFINE t == Min(proc[p].todo)
             page == Page(t, proc[p].after)
  <2>2. \/ proc'[p] = [proc[p] EXCEPT !.todo = proc[p].todo \ {t}, !.after = 0]
        \/ proc'[p] = [proc[p] EXCEPT !.pc = "checking", !.batch = page]
    BY <1>3, Reads
  <2> HIDE DEF t, page
  <2> QED BY <1>2, <2>1, <2>2 DEF Work
<1>4. ASSUME Check(p)
      PROVE  /\ proc'[p].pc \in {"reading", "checking", "appending"}
             /\ proc'[p].manifest = proc[p].manifest /\ proc'[p].seen = proc[p].seen
  <2>1. proc[p].batch # {}
    BY <1>1, <1>4 DEF Check, At
  <2>2. proc'[p] \in {Past(proc[p]), [proc[p] EXCEPT !.pc = "appending"]}
    BY <1>4, <2>1, Checks
  <2>3. /\ Past(proc[p]).pc \in {"reading", "checking"}
        /\ Past(proc[p]).manifest = proc[p].manifest /\ Past(proc[p]).seen = proc[p].seen
    BY <1>2, <2>1, PastType
  <2> QED BY <1>2, <2>2, <2>3 DEF Work
<1>5. ASSUME AppendEvent(p)
      PROVE  /\ proc'[p].pc \in {"reading", "checking", "appending"}
             /\ proc'[p].manifest = proc[p].manifest /\ proc'[p].seen = proc[p].seen
  <2>1. proc[p].batch # {}
    BY <1>1, <1>5 DEF AppendEvent, At
  <2> QED BY <1>2, <1>5, <2>1, Appends, PastType
<1> QED BY <1>3, <1>4, <1>5

\* The audits of a process that ends are done with, its lock is free.
LEMMA KilledType ==
  ASSUME StorageShape, NEW p \in Procs
  PROVE  Killed(p) \in [Ids \ Legacy -> Write] /\ Unlocked(p) \in Procs \cup {Nobody}
<1>1. \A id \in Ids \ Legacy : audit[id] \in Write /\ DOMAIN audit = Ids \ Legacy
  BY DEF StorageShape
<1>2. [by |-> Nobody, step |-> "done"] \in Write
  BY DEF Write
<1> QED BY <1>1, <1>2 DEF Killed, Unlocked, StorageShape

\* A manifest is a sequence of tenants and limits.
LEMMA ManifestType ==
  ASSUME StorageShape, NEW p \in Procs
  PROVE  /\ proc[p].manifest \in Seq(Entry) /\ proc[p].at \in Nat
         /\ Len(proc[p].manifest) \in Nat
         /\ \A i \in 1 .. Len(proc[p].manifest) : proc[p].manifest[i] \in Entry
         /\ proc[p].at <= Len(proc[p].manifest) /\ proc[p].at # 0
              => proc[p].manifest[proc[p].at] \in Entry
<1>1. Manifests \subseteq Seq(Entry)
  BY StorageAssumption DEF Entry
<1>2. <<>> \in Seq(Entry)
  OBVIOUS
<1>3. proc[p].manifest \in Manifests \cup {<<>>} /\ proc[p].at \in Nat
  BY DEF StorageShape, Work
<1>4. proc[p].manifest \in Seq(Entry)
  BY <1>1, <1>2, <1>3
<1> QED BY <1>3, <1>4

\* Every step keeps the types.
LEMMA ShapeKept ==
  ASSUME StorageShape, Configs, Pages, [StorageNext]_storageVars
  PROVE  StorageShape'
<1>1. CASE UNCHANGED storageVars
  BY <1>1 DEF StorageShape, storageVars, database
<1>2. CASE MakeDirectory
  BY <1>2 DEF StorageShape, MakeDirectory, database
<1>3. ASSUME NEW p \in Procs, NEW id \in DOMAIN audit, Writes(p, id)
      PROVE  StorageShape'
  <2>1. id \in Ids /\ id \in Ids \ Legacy /\ audit \in [Ids \ Legacy -> Write]
    BY <1>3 DEF StorageShape
  <2>2. audit' \in [Ids \ Legacy -> Write]
    <3>1. PICK q \in Procs \cup {Nobody}, step \in {"none", "event", "record",
                 "done"} : Audited(id, q, step)
      BY <1>3 DEF Writes, FinishRequest, WriteEvent, WriteRecord
    <3> QED BY <2>1, <3>1 DEF Audited, Write
  <2>3. UNCHANGED <<dir, lock, config, proc, starts, outside>>
    BY <1>3 DEF Writes, FinishRequest, WriteEvent, WriteRecord, database
  <2>4. /\ records' \in {records, records \cup {id}} /\ lost' \in {lost, lost \cup {id}}
        /\ logged' = logged \/ logged' = [logged EXCEPT ![id] = @ + 1]
    BY <1>3 DEF Writes, FinishRequest, WriteEvent, WriteRecord, database
  <2>5. logged \in [Ids -> Nat] /\ records \in SUBSET Ids /\ lost \in SUBSET Ids
    BY DEF StorageShape
  <2>6. logged' \in [Ids -> Nat]
    BY <2>1, <2>4, <2>5
  <2>7. records' \in SUBSET Ids /\ lost' \in SUBSET Ids
    BY <2>1, <2>4, <2>5
  <2> QED BY <2>2, <2>3, <2>6, <2>7 DEF StorageShape
<1>4. ASSUME NEW p \in Procs, Acts(p)
      PROVE  StorageShape'
  <2>1. proc' \in [Procs -> Work]
    BY <1>4, ActsMove DEF Moves
  <2>2. dir' = dir /\ lost' = lost /\ records' = records /\ outside' \in {outside, TRUE}
    BY <1>4
       DEF Acts, Start, RefuseStart, Crash, Gone, Stop, Boot, TryLock, OpenDatabase, Configure,
          Configured, Retain, List,
           ReadPage, Check, AppendEvent, Migrated, Relock, Resting, database
  <2>6. lock' \in {lock, p, Unlocked(p)}
    BY <1>4
       DEF Acts, Start, RefuseStart, Crash, Gone, Stop, Boot, TryLock, OpenDatabase, Configure,
          Configured, Retain, List,
           ReadPage, Check, AppendEvent, Migrated, Relock, Resting, database
  <2>7. starts' = starts \/ (starts' = starts + 1 /\ starts < MaxStarts)
    BY <1>4
       DEF Acts, Start, RefuseStart, Crash, Gone, Stop, Boot, TryLock, OpenDatabase, Configure,
          Configured, Retain, List,
           ReadPage, Check, AppendEvent, Migrated, Relock, Resting, database
  <2>3. audit' \in [Ids \ Legacy -> Write]
    BY <1>4, KilledType
       DEF Acts, Start, RefuseStart, Crash, Gone, Stop, Boot, TryLock, OpenDatabase, Configure,
          Configured, Retain, List,
           ReadPage, Check, AppendEvent, Migrated, Relock, Resting, database, StorageShape
  <2>4. logged' \in [Ids -> Nat]
    <3>1. CASE AppendEvent(p)
      <4> DEFINE id == Min(proc[p].batch)
      <4>1. logged' = [logged EXCEPT ![id] = @ + 1] /\ logged \in [Ids -> Nat]
        BY <3>1 DEF AppendEvent, StorageShape
      <4>2. id \in Ids
        <5>1. proc[p] \in Work /\ proc[p].batch # {}
          BY <3>1 DEF AppendEvent, StorageShape, Pages, At
        <5> QED BY <5>1, PastType DEF Work
      <4> HIDE DEF id
      <4> QED BY <4>1, <4>2
    <3>2. CASE ~AppendEvent(p)
      <4>1. logged' = logged
        BY <1>4, <3>2
           DEF Acts, Start, RefuseStart, Crash, Gone, Stop, Boot, TryLock, OpenDatabase,
              Configure, Configured, Retain, List,
               ReadPage, Check, Migrated, Relock, Resting, database
      <4> QED BY <4>1 DEF StorageShape
    <3> QED BY <3>1, <3>2
  <2>5. config' \in [DbTenants -> Int]
    <3>1. CASE Configure(p)
      <4> DEFINE e == proc[p].manifest[proc[p].at]
      <4>1. e \in Entry
        BY <3>1, ManifestType DEF Configure, Configs
      <4>2. config' = [config EXCEPT ![e.tenant] = e.limit]
        BY <3>1 DEF Configure
      <4>3. e.tenant \in DbTenants /\ e.limit \in Int
        BY <4>1 DEF Entry
      <4> HIDE DEF e
      <4> QED BY <4>2, <4>3 DEF StorageShape
    <3>2. CASE Retain(p)
      BY <3>2 DEF Retain, StorageShape, Unset
    <3>3. CASE ~Configure(p) /\ ~Retain(p)
      BY <1>4, <3>3
         DEF Acts, Start, RefuseStart, Crash, Gone, Stop, Boot, TryLock, OpenDatabase,
            Configured, List,
             ReadPage, Check, AppendEvent, Migrated, Relock, Resting, database, StorageShape
    <3> QED BY <3>1, <3>2, <3>3
  <2>8. lock' \in Procs \cup {Nobody} /\ outside' \in BOOLEAN /\ starts' \in 0 .. MaxStarts
    <3>1. starts \in 0 .. MaxStarts /\ MaxStarts \in Nat
      BY Bounds DEF StorageShape
    <3>2. starts' \in 0 .. MaxStarts
      BY <2>7, <3>1
    <3>3. lock' \in Procs \cup {Nobody}
      BY <2>6, KilledType DEF StorageShape
    <3> QED BY <2>2, <3>2, <3>3 DEF StorageShape
  <2> QED BY <2>1, <2>2, <2>3, <2>4, <2>5, <2>8 DEF StorageShape
<1> QED BY <1>1, <1>2, <1>3, <1>4, NextIs

\* An audit that is under way belongs to a process that runs.
LEMMA ThreadsKept ==
  ASSUME StorageShape, Pages, Threads, [StorageNext]_storageVars
  PROVE  Threads'
<1>0. DOMAIN audit = Ids \ Legacy /\ Nobody \notin Procs /\ audit \in [Ids \ Legacy -> Write]
  BY Bounds DEF StorageShape
<1>1. CASE UNCHANGED storageVars
  BY <1>1 DEF Threads, storageVars, database, Alive, At
<1>2. CASE MakeDirectory
  BY <1>2 DEF Threads, MakeDirectory, database, Alive, At
<1>3. ASSUME NEW p \in Procs, NEW id \in DOMAIN audit, Writes(p, id)
      PROVE  Threads'
  <2>1. UNCHANGED proc
    BY <1>3 DEF Writes, FinishRequest, WriteEvent, WriteRecord, database
  <2>2. \/ Audited(id, p, "event") \/ Audited(id, p, "record") \/ Audited(id, Nobody, "done")
    BY <1>3 DEF Writes, FinishRequest, WriteEvent, WriteRecord
  <2>3. Alive(p)
    BY <1>3 DEF Writes, FinishRequest, WriteEvent, WriteRecord, Alive, At
  <2>4. DOMAIN audit' = DOMAIN audit /\ \A x \in DOMAIN audit : x # id => audit'[x] = audit[x]
    BY <2>2, <1>0 DEF Audited
  <2>5. audit'[id] \in {[by |-> p, step |-> "event"], [by |-> p, step |-> "record"],
          [by |-> Nobody, step |-> "done"]}
    BY <2>2, <1>0 DEF Audited
  <2> QED BY <1>0, <2>1, <2>3, <2>4, <2>5 DEF Threads, Alive, At
<1>4. ASSUME NEW p \in Procs, Acts(p)
      PROVE  Threads'
  <2>1. \A q \in Procs : q # p => proc'[q] = proc[q]
    BY <1>4, ActsMove DEF Moves
  <2>2. \A id \in DOMAIN audit : audit[id].by \in Procs \cup {Nobody}
    BY <1>0 DEF Write
  <2>3. CASE Gone(p)
    <3>1. audit' = Killed(p)
      BY <2>3 DEF Gone
    <3> QED BY <1>0, <2>1, <2>2, <3>1 DEF Threads, Alive, At, Killed
  <2>4. CASE Stop(p)
    <3>1. proc'[p].pc = "exiting" /\ audit' = audit
      BY <2>4, Table DEF Stop, To
    <3> QED BY <2>1, <2>2, <3>1 DEF Threads, Alive, At
  <2>5. CASE ~Gone(p) /\ ~Stop(p)
    <3>1. audit' = audit /\ ~Alive(p)
      BY <1>4, <2>5
         DEF Acts, Start, RefuseStart, Crash, Boot, TryLock, OpenDatabase, Configure, Configured,
            Retain, List,
             ReadPage, Check, AppendEvent, Migrated, Relock, Resting, Alive, At
    <3> QED BY <2>1, <2>2, <3>1 DEF Threads, Alive, At
  <2> QED BY <2>3, <2>4, <2>5
<1> QED BY <1>1, <1>2, <1>3, <1>4, NextIs

\* A process that works on the database, or serves, holds the lock.
LEMMA LocksKept ==
  ASSUME StorageShape, Pages, Locks, [StorageNext]_storageVars
  PROVE  Locks'
<1>1. CASE UNCHANGED storageVars
  BY <1>1 DEF Locks, storageVars, Working, At
<1>2. CASE MakeDirectory
  BY <1>2 DEF Locks, MakeDirectory, Working, At
<1>3. ASSUME NEW p \in Procs, NEW id \in DOMAIN audit, Writes(p, id)
      PROVE  Locks'
  BY <1>3 DEF Writes, FinishRequest, WriteEvent, WriteRecord, Locks, Working, At
<1>4. ASSUME NEW p \in Procs, Acts(p)
      PROVE  Locks'
  <2>0. Nobody \notin Procs
    BY Bounds
  <2>1. \A q \in Procs : q # p => proc'[q] = proc[q]
    BY <1>4, ActsMove DEF Moves
  <2>2. CASE Gone(p)
    <3>1. proc'[p].pc = "off" /\ lock' = Unlocked(p) /\ outside' = outside
      BY <2>2, Table DEF Gone
    <3> QED BY <2>0, <2>1, <3>1 DEF Locks, Working, At, Unlocked, Booting
  <2>3. CASE Stop(p)
    <3>1. proc'[p].pc = "exiting" /\ lock' = Unlocked(p) /\ outside' = outside
      BY <2>3, Table DEF Stop, To
    <3> QED BY <2>0, <2>1, <3>1 DEF Locks, Working, At, Unlocked, Booting
  <2>4. CASE Start(p)
    <3>1. proc'[p].pc = "locking" /\ lock' = lock /\ outside' = outside
      BY <2>4, Table DEF Start, To
    <3> QED BY <2>1, <3>1 DEF Locks, Working, At, Booting
  <2>5. CASE TryLock(p)
    <3>1. \/ lock = Nobody /\ lock' = p /\ proc'[p].pc = "opening" /\ outside' = outside
          \/ proc'[p].pc = "off" /\ lock' = lock /\ outside' = outside
          \/ outside' /\ lock' = lock /\ proc'[p].pc = "opening"
      BY <2>5, Table DEF To
    <3> QED BY <2>0, <2>1, <3>1 DEF Locks, Working, At, Booting
  <2>6. CASE Relock(p)
    <3>1. \/ lock \in {p, Nobody} /\ lock' = p /\ proc'[p].pc = "serving" /\ outside' = outside
          \/ proc'[p].pc = "off" /\ lock' = lock /\ outside' = outside
      BY <2>6, Table DEF Relock, To
    <3> QED BY <2>0, <2>1, <3>1 DEF Locks, Working, At, Booting
  <2>7. CASE ~Gone(p) /\ ~Stop(p) /\ ~Start(p) /\ ~TryLock(p) /\ ~Relock(p)
    <3>1. lock' = lock /\ outside' = outside /\ Working(p)
      BY <1>4, <2>7
         DEF Acts, RefuseStart, Crash, Boot, OpenDatabase, Configure, Configured, Retain, List,
            Resting,
             ReadPage, Check, AppendEvent, Migrated, Working, At, Booting
    <3>2. proc'[p].pc # "serving"
      <4>1. CASE ReadPage(p) \/ Check(p) \/ AppendEvent(p)
        BY <4>1, PagingTable
      <4>2. CASE ~(ReadPage(p) \/ Check(p) \/ AppendEvent(p))
        BY <1>4, <2>7, <4>2, Table DEF Acts, Boot, RefuseStart, Crash, To
      <4> QED BY <4>1, <4>2
    <3> QED BY <2>1, <3>1, <3>2 DEF Locks, At, Working
  <2> QED BY <2>2, <2>3, <2>4, <2>5, <2>6, <2>7
<1> QED BY <1>1, <1>2, <1>3, <1>4, NextIs

\* Who works, or serves, holds the lock: two that do are one.
LEMMA Alone ==
  ASSUME Locks, ~outside, NEW p \in Procs, NEW q \in Procs,
         Working(p) \/ At(p, {"serving"}), Working(q) \/ At(q, {"serving"})
  PROVE  p = q
BY DEF Locks

\* Only a start that works writes the configuration.
LEMMA ConfigIs ==
  ASSUME NEW p \in Procs, Acts(p)
  PROVE  /\ outside => outside'
         /\ records' = records /\ lost' = lost
         /\ Configure(p) \/ Retain(p) \/ config' = config
         /\ AppendEvent(p) \/ logged' = logged
<1>1. outside => outside'
  BY DEF Acts, Start, RefuseStart, Crash, Gone, Stop, Boot, TryLock, OpenDatabase, Configure,
     Configured, Retain, List,
         ReadPage, Check, AppendEvent, Migrated, Relock, Resting, database
<1>2. records' = records /\ lost' = lost
  BY DEF Acts, Start, RefuseStart, Crash, Gone, Stop, Boot, TryLock, OpenDatabase, Configure,
     Configured, Retain, List,
         ReadPage, Check, AppendEvent, Migrated, Relock, Resting, database
<1>3. Configure(p) \/ Retain(p) \/ config' = config
  BY DEF Acts, Start, RefuseStart, Crash, Gone, Stop, Boot, TryLock, OpenDatabase, Configured, List,
         ReadPage, Check, AppendEvent, Migrated, Relock, Resting, database
<1>4. AppendEvent(p) \/ logged' = logged
  BY DEF Acts, Start, RefuseStart, Crash, Gone, Stop, Boot, TryLock, OpenDatabase, Configure,
     Configured, Retain, List,
         ReadPage, Check, Migrated, Relock, Resting, database
<1> QED BY <1>1, <1>2, <1>3, <1>4

ConfigOf(p) ==
    /\ At(p, {"configuring"}) => proc[p].at # 0 /\ (~outside
         => Applied(proc[p].manifest, proc[p].at - 1))
    /\ At(p, {"retaining"}) /\ ~outside => Applied(proc[p].manifest, Len(proc[p].manifest))
    /\ At(p, {"listing", "reading", "checking", "appending", "relocking", "serving"}) /\ ~outside
         => config = Reconciled(proc[p].manifest)

\* Configs, process by process.
LEMMA ConfigsAre == Configs <=> \A p \in Procs : ConfigOf(p)
  BY DEF Configs, ConfigOf

\* The entry a start applies names none of the tenants it has configured.
LEMMA AppliesOne ==
  ASSUME StorageShape, NEW p \in Procs, Configure(p), proc[p].at # 0,
         Applied(proc[p].manifest, proc[p].at - 1)
  PROVE  \A i \in 1 .. proc[p].at : i \in DOMAIN proc[p].manifest =>
           config'[proc[p].manifest[i].tenant] = proc[p].manifest[i].limit
<1> DEFINE m == proc[p].manifest
           n == proc[p].at
<1>1. m \in Seq(Entry) /\ n \in Nat /\ n # 0 /\ n <= Len(m) /\ Len(m) \in Nat
  BY ManifestType DEF Configure
<1>2. \A i \in 1 .. Len(m) : m[i].tenant \in DbTenants
  <2>1. \A i \in 1 .. Len(m) : m[i] \in Entry
    BY <1>1
  <2> QED BY <2>1 DEF Entry
<1>3. config' = [config EXCEPT ![m[n].tenant] = m[n].limit] /\ config \in [DbTenants -> Int]
  BY DEF Configure, StorageShape
<1>4. m[n].tenant \notin Named(SubSeq(m, 1, n - 1))
  BY DEF Configure
<1>5. ASSUME NEW i \in 1 .. n - 1 PROVE m[i].tenant # m[n].tenant
  <2>1. SubSeq(m, 1, n - 1)[i] = m[i] /\ i \in DOMAIN SubSeq(m, 1, n - 1)
    BY <1>1
  <2> QED BY <1>4, <2>1 DEF Named
<1>6. \A i \in 1 .. n - 1 : config[m[i].tenant] = m[i].limit
  BY <1>1 DEF Applied
<1>7. \A i \in 1 .. n : config'[m[i].tenant] = m[i].limit
  <2> SUFFICES ASSUME NEW i \in 1 .. n PROVE config'[m[i].tenant] = m[i].limit
    OBVIOUS
  <2>1. m[n].tenant \in DbTenants /\ m[i].tenant \in DbTenants
    BY <1>1, <1>2
  <2>2. i = n \/ i \in 1 .. n - 1
    BY <1>1
  <2> HIDE DEF m, n
  <2> QED BY <1>3, <1>5, <1>6, <2>1, <2>2
<1>8. \A i \in 1 .. n : i \in DOMAIN m => config'[m[i].tenant] = m[i].limit
  BY <1>7
<1> QED BY <1>8

\* Once what the manifest does not name is unset, the limits are the manifest's.
LEMMA RetainsAll ==
  ASSUME StorageShape, NEW p \in Procs, Retain(p), Applied(proc[p].manifest, Len(proc[p].manifest))
  PROVE  config' = Reconciled(proc[p].manifest)
<1> DEFINE m == proc[p].manifest
           Has(t) == \E i \in DOMAIN m : m[i].tenant = t
           Of(t) == CHOOSE i \in DOMAIN m : m[i].tenant = t
<1>1. m \in Seq(Entry) /\ DOMAIN m = 1 .. Len(m)
  <2>1. m \in Seq(Entry)
    BY ManifestType
  <2> HIDE DEF m
  <2> QED BY <2>1
<1>2. config' = [t \in DbTenants |-> IF t \in Named(m) THEN config[t] ELSE Unset]
  BY DEF Retain
<1>3. \A i \in DOMAIN m : config[m[i].tenant] = m[i].limit
  BY <1>1 DEF Applied
<1>4. ASSUME NEW t \in DbTenants
      PROVE  (IF t \in Named(m) THEN config[t] ELSE Unset)
               = (IF Has(t) THEN m[Of(t)].limit ELSE Unset)
  <2>1. t \in Named(m) <=> Has(t)
    BY DEF Named
  <2>2. CASE Has(t)
    <3>1. Of(t) \in DOMAIN m /\ m[Of(t)].tenant = t
      BY <2>2
    <3>2. config[t] = m[Of(t)].limit
      <4> HIDE DEF Of, m
      <4> QED BY <1>3, <3>1
    <3> QED BY <2>1, <2>2, <3>2
  <2>3. CASE ~Has(t)
    BY <2>1, <2>3
  <2> QED BY <2>2, <2>3
<1>5. Reconciled(m) = [t \in DbTenants |-> IF Has(t) THEN m[Of(t)].limit ELSE Unset]
  BY DEF Reconciled
<1>6. config' = Reconciled(m)
  <2> HIDE DEF Has, Of, m
  <2> QED BY <1>2, <1>4, <1>5
<1> QED BY <1>6

\* Nobody else writes the limits while a process configures or serves.
LEMMA ConfigsKept ==
  ASSUME StorageShape, Pages, Locks, Configs, [StorageNext]_storageVars
  PROVE  Configs'
<1>1. CASE UNCHANGED storageVars
  BY <1>1 DEF Configs, storageVars, database, At, Applied
<1>2. CASE MakeDirectory
  BY <1>2 DEF Configs, MakeDirectory, database, At, Applied
<1>3. ASSUME NEW p \in Procs, NEW id \in DOMAIN audit, Writes(p, id)
      PROVE  Configs'
  <2>1. UNCHANGED <<proc, config, outside>>
    BY <1>3 DEF Writes, FinishRequest, WriteEvent, WriteRecord, database
  <2> QED BY <2>1 DEF Configs, At, Applied
<1>4. ASSUME NEW p \in Procs, Acts(p)
      PROVE  Configs'
  <2>1. ASSUME NEW q \in Procs, q # p
        PROVE  ConfigOf(q)'
    <3>1. proc'[q] = proc[q]
      BY <1>4, <2>1, ActsMove DEF Moves
    <3>2. CASE config' = config
      BY <3>1, <3>2, <1>4, ConfigIs DEF Configs, ConfigOf, At, Applied
    <3>3. CASE Configure(p) \/ Retain(p)
      <4>1. Working(p)
        BY <3>3 DEF Configure, Retain, Working, At, Booting
      <4>2. ~outside => ~Working(q) /\ ~At(q, {"serving"})
        BY <2>1, <4>1, Alone
      <4>3. At(q, {"configuring"}) => proc[q].at # 0
        BY DEF Configs
      <4>4. outside \/ ~At(q, {"configuring", "retaining", "listing", "reading", "checking",
              "appending", "relocking", "serving"})
        BY <4>2 DEF Working, At, Booting
      <4>5. outside => outside'
        BY <1>4, ConfigIs
      <4> QED BY <3>1, <4>3, <4>4, <4>5 DEF ConfigOf, At
    <3> QED BY <1>4, <3>2, <3>3, ConfigIs
  <2>2. ConfigOf(p)'
    <3>1. ConfigOf(p) /\ (outside => outside')
      BY <1>4, ConfigIs, ConfigsAre
    <3>2. proc[p].at \in Nat
      BY ManifestType
    <3>3. CASE Configure(p)
      <4>1. proc'[p].pc = "configuring" /\ proc'[p].manifest = proc[p].manifest
            /\ proc'[p].at = proc[p].at + 1
        BY <3>3, Table
      <4>2. At(p, {"configuring"})
        BY <3>3 DEF Configure
      <4>3. ~outside' => \A i \in 1 .. proc[p].at : i \in DOMAIN proc[p].manifest =>
               config'[proc[p].manifest[i].tenant] = proc[p].manifest[i].limit
        BY <3>1, <3>3, <4>2, AppliesOne DEF ConfigOf
      <4>4. proc'[p].at # 0 /\ proc'[p].at - 1 = proc[p].at
        BY <3>2, <4>1
      <4> QED BY <4>1, <4>3, <4>4 DEF ConfigOf, At, Applied
    <3>4. CASE Configured(p)
      <4>1. proc'[p].pc = "retaining" /\ proc'[p].manifest = proc[p].manifest
        BY <3>4, Table DEF To, Holds
      <4>2. At(p, {"configuring"}) /\ proc[p].at > Len(proc[p].manifest) /\ config' = config
        BY <3>4 DEF Configured, database
      <4>3. Len(proc[p].manifest) \in Nat
        BY ManifestType
      <4>4. ~outside' => \A i \in 1 .. Len(proc[p].manifest) : i \in DOMAIN proc[p].manifest =>
               config[proc[p].manifest[i].tenant] = proc[p].manifest[i].limit
        <5>1. \A i \in 1 .. Len(proc[p].manifest) : i \in 1 .. proc[p].at - 1
          BY <3>2, <4>2, <4>3
        <5> QED BY <3>1, <4>2, <5>1 DEF ConfigOf, Applied
      <4> QED BY <4>1, <4>2, <4>4 DEF ConfigOf, At, Applied
    <3>5. CASE Retain(p)
      <4>1. proc'[p].pc = "listing" /\ proc'[p].manifest = proc[p].manifest
        BY <3>5, Table DEF To, Holds
      <4>2. ~outside' => config' = Reconciled(proc[p].manifest)
        BY <3>1, <3>5, RetainsAll DEF ConfigOf, Retain
      <4> QED BY <4>1, <4>2 DEF ConfigOf, At
    <3>6. CASE OpenDatabase(p)
      <4>1. proc'[p].pc = "configuring" /\ proc'[p].at = 1
        BY <3>6, Table
      <4> QED BY <4>1 DEF ConfigOf, At, Applied
    <3>7. CASE Start(p) \/ Gone(p) \/ TryLock(p) \/ Stop(p)
      <4>1. proc'[p].pc \in {"locking", "off", "opening", "exiting"}
        BY <3>7, Table DEF To
      <4> QED BY <4>1 DEF ConfigOf, At
    <3>8. CASE List(p) \/ ReadPage(p) \/ Check(p) \/ AppendEvent(p) \/ Migrated(p) \/ Relock(p)
      <4>1. config' = config /\ outside' = outside
        BY <3>8 DEF List, ReadPage, Check, AppendEvent, Migrated, Relock, database
      <4>2. At(p, {"listing", "reading", "checking", "appending", "relocking", "serving"})
        BY <3>8 DEF List, ReadPage, Check, AppendEvent, Migrated, Relock, At
      <4>3. \/ proc'[p].pc = "off"
            \/ /\ proc'[p].manifest = proc[p].manifest
               /\ proc'[p].pc \notin {"configuring", "retaining"}
        <5>1. CASE ReadPage(p) \/ Check(p) \/ AppendEvent(p)
          BY <5>1, PagingTable
        <5>2. CASE List(p) \/ Migrated(p) \/ Relock(p)
          BY <5>2, Table DEF To, Holds
        <5> QED BY <3>8, <5>1, <5>2
      <4> QED BY <3>1, <4>1, <4>2, <4>3 DEF ConfigOf, At
    <3> QED BY <1>4, <3>3, <3>4, <3>5, <3>6, <3>7, <3>8 DEF Acts, Boot, RefuseStart, Crash
  <2>3. \A q \in Procs : ConfigOf(q)'
    BY <2>1, <2>2
  <2> QED BY <2>3 DEF Configs, ConfigOf
<1> QED BY <1>1, <1>2, <1>3, <1>4, NextIs

\* The one event the migration appends is that of the first record of its page.
LEMMA AppendsOne ==
  ASSUME StorageShape, Pages, NEW p \in Procs, AppendEvent(p)
  PROVE  /\ Min(proc[p].batch) \in records /\ Min(proc[p].batch) \in proc[p].batch
         /\ Min(proc[p].batch) \in Ids
         /\ logged'[Min(proc[p].batch)] = logged[Min(proc[p].batch)] + 1
         /\ \A id \in Ids : id # Min(proc[p].batch) => logged'[id] = logged[id]
         /\ ~outside => logged[Min(proc[p].batch)] = 0
<1> DEFINE id == Min(proc[p].batch)
<1>1. proc[p] \in Work /\ records \in SUBSET Ids /\ logged \in [Ids -> Nat]
  BY DEF StorageShape
<1>2. At(p, {"appending"}) /\ At(p, {"checking", "appending"})
  BY DEF AppendEvent, At
<1>3. proc[p].batch # {} /\ proc[p].batch \subseteq records /\ (~outside => logged[id] = 0)
  BY <1>2 DEF Pages
<1>4. id \in proc[p].batch
  BY <1>1, <1>3, PastType
<1>5. logged' = [logged EXCEPT ![id] = @ + 1]
  BY DEF AppendEvent
<1> HIDE DEF id
<1>6. id \in Ids /\ id \in records
  BY <1>1, <1>3, <1>4
<1>7. logged'[id] = logged[id] + 1 /\ \A x \in Ids : x # id => logged'[x] = logged[x]
  BY <1>1, <1>5, <1>6
<1> QED BY <1>3, <1>4, <1>6, <1>7 DEF id

\* What a request's audit writes.
LEMMA WritesOne ==
  ASSUME StorageShape, Audits, NEW p \in Procs, NEW id \in DOMAIN audit, Writes(p, id)
  PROVE  /\ id \in Ids /\ UNCHANGED <<proc, outside, lock>>
         /\ \A x \in Ids : x # id => logged'[x] = logged[x]
         /\ logged'[id] # logged[id] => id \notin records /\ logged[id] = 0 /\ logged'[id] = 1
         /\ logged'[id] >= logged[id]
         /\ records \subseteq records' /\ lost \subseteq lost'
         /\ \A x \in Ids : x \in records' => x \in records \/ (x = id /\ logged[id] > 0)
              \/ (x = id /\ id \in lost)
<1>1. id \in Ids /\ logged \in [Ids -> Nat] /\ records \in SUBSET Ids
  BY DEF StorageShape
<1>2. CASE FinishRequest(p, id)
  BY <1>1, <1>2 DEF FinishRequest, database
<1>3. CASE WriteEvent(p, id)
  <2>1. id \notin records /\ logged[id] = 0
    <3>1. audit[id].step = "event"
      BY <1>3 DEF WriteEvent
    <3> QED BY <3>1 DEF Audits
  <2>2. logged' = [logged EXCEPT ![id] = @ + 1] \/ logged' = logged
    BY <1>3 DEF WriteEvent
  <2>3. UNCHANGED <<proc, outside, lock, records>> /\ lost \subseteq lost'
    BY <1>3 DEF WriteEvent
  <2> QED BY <1>1, <2>1, <2>2, <2>3
<1>4. CASE WriteRecord(p, id)
  <2>1. logged[id] > 0 \/ id \in lost
    <3>1. audit[id].step = "record"
      BY <1>4 DEF WriteRecord
    <3> QED BY <3>1 DEF Audits
  <2>2. UNCHANGED <<proc, outside, lock, logged, lost>> /\ records' \in {records, records \cup {id}}
    BY <1>4 DEF WriteRecord
  <2> QED BY <1>1, <2>1, <2>2
<1> QED BY <1>2, <1>3, <1>4 DEF Writes

\* The history only grows.
LEMMA Grows ==
  ASSUME StorageShape, Pages, Audits, [StorageNext]_storageVars
  PROVE  /\ \A id \in Ids : logged'[id] >= logged[id]
         /\ records \subseteq records' /\ lost \subseteq lost' /\ (outside => outside')
<1>0. \A id \in Ids : logged[id] \in Nat
  BY DEF StorageShape
<1>1. CASE UNCHANGED storageVars \/ MakeDirectory
  BY <1>0, <1>1 DEF storageVars, database, MakeDirectory
<1>2. ASSUME NEW p \in Procs, NEW id \in DOMAIN audit, Writes(p, id)
      PROVE  /\ \A x \in Ids : logged'[x] >= logged[x]
             /\ records \subseteq records' /\ lost \subseteq lost' /\ (outside => outside')
  BY <1>0, <1>2, WritesOne
<1>3. ASSUME NEW p \in Procs, Acts(p)
      PROVE  /\ \A x \in Ids : logged'[x] >= logged[x]
             /\ records \subseteq records' /\ lost \subseteq lost' /\ (outside => outside')
  <2>1. CASE AppendEvent(p)
    <3> DEFINE one == Min(proc[p].batch)
    <3>1. records' = records /\ lost' = lost /\ (outside => outside')
      BY <1>3, ConfigIs
    <3>2. one \in Ids /\ logged'[one] = logged[one] + 1 /\ \A x \in Ids : x # one
            => logged'[x] = logged[x]
      BY <2>1, AppendsOne
    <3> HIDE DEF one
    <3> QED BY <1>0, <3>1, <3>2
  <2>2. CASE ~AppendEvent(p)
    BY <1>0, <1>3, <2>2, ConfigIs
  <2> QED BY <2>1, <2>2
<1> QED BY <1>1, <1>2, <1>3, NextIs

\* An audit has its event before its record, or the log has refused it.
LEMMA AuditsKept ==
  ASSUME StorageShape, Pages, Audits, [StorageNext]_storageVars
  PROVE  Audits'
<1>0. DOMAIN audit = Ids \ Legacy /\ audit \in [Ids \ Legacy -> Write]
  BY DEF StorageShape
<1>1. CASE UNCHANGED storageVars \/ MakeDirectory
  BY <1>1 DEF storageVars, database, MakeDirectory, Audits
<1>2. ASSUME NEW p \in Procs, NEW id \in DOMAIN audit, Writes(p, id)
      PROVE  Audits'
  <2>1. CASE FinishRequest(p, id)
    BY <1>0, <2>1 DEF FinishRequest, Audited, database, Audits
  <2>2. CASE WriteEvent(p, id)
    <3>1. audit' = [audit EXCEPT ![id] = [by |-> p, step |-> "record"]] /\ records' = records
      BY <2>2 DEF WriteEvent, Audited
    <3>2. audit[id].step = "event"
      BY <2>2 DEF WriteEvent
    <3>3. logged \in [Ids -> Nat] /\ id \in Ids
      BY <1>0 DEF StorageShape
    <3>4. logged'[id] > 0 \/ id \in lost'
      BY <2>2, <3>3 DEF WriteEvent
    <3>5. id \notin records'
      BY <3>1, <3>2 DEF Audits
    <3>6. \A x \in Ids : x # id => logged'[x] = logged[x]
      BY <1>2, WritesOne
    <3>7. lost \subseteq lost'
      BY <1>2, WritesOne
    <3> QED BY <1>0, <3>1, <3>4, <3>5, <3>6, <3>7 DEF Audits
  <2>3. CASE WriteRecord(p, id)
    <3>1. /\ audit' = [audit EXCEPT ![id] = [by |-> Nobody, step |-> "done"]]
          /\ records' \in {records, records \cup {id}} /\ UNCHANGED <<logged, lost>>
      BY <2>3 DEF WriteRecord, Audited
    <3> QED BY <1>0, <3>1 DEF Audits
  <2> QED BY <1>2, <2>1, <2>2, <2>3 DEF Writes
<1>3. ASSUME NEW p \in Procs, Acts(p)
      PROVE  Audits'
  <2>1. records' = records /\ lost' = lost
    BY <1>3, ConfigIs
  <2>2. \A id \in DOMAIN audit : id \notin records => logged'[id] = logged[id]
    <3>1. CASE AppendEvent(p)
      BY <1>0, <3>1, AppendsOne
    <3> QED BY <1>3, <3>1, ConfigIs
  <2>3. CASE Gone(p)
    <3>1. audit' = Killed(p) /\ logged' = logged
      BY <2>3 DEF Gone, database
    <3>2. DOMAIN audit' = DOMAIN audit /\ \A id \in DOMAIN audit : audit'[id].step = "done"
            \/ audit'[id] = audit[id]
      BY <3>1 DEF Killed
    <3> QED BY <2>1, <3>1, <3>2 DEF Audits
  <2>4. CASE ~Gone(p)
    <3>1. audit' = audit
      BY <1>3, <2>4
         DEF Acts, Start, RefuseStart, Crash, Stop, Boot, TryLock, OpenDatabase, Configure,
            Configured, Retain, List,
             ReadPage, Check, AppendEvent, Migrated, Relock, Resting
    <3>2. \A id \in DOMAIN audit : audit[id].step # "done" => logged'[id] = logged[id]
      BY <2>2 DEF Audits
    <3> QED BY <2>1, <3>1, <3>2 DEF Audits
  <2> QED BY <2>3, <2>4
<1> QED BY <1>1, <1>2, <1>3, NextIs

\* No step gives a request a second event, while the lock is where it should be.
LEMMA OnceKept ==
  ASSUME StorageShape, Pages, Audits, AuditOnce, [StorageNext]_storageVars
  PROVE  AuditOnce'
<1>0. \A id \in Ids : logged[id] \in Nat
  BY DEF StorageShape
<1>1. CASE UNCHANGED storageVars \/ MakeDirectory
  BY <1>1 DEF storageVars, database, MakeDirectory, AuditOnce
<1>2. ASSUME NEW p \in Procs, NEW id \in DOMAIN audit, Writes(p, id)
      PROVE  AuditOnce'
  BY <1>2, WritesOne DEF AuditOnce
<1>3. ASSUME NEW p \in Procs, Acts(p)
      PROVE  AuditOnce'
  <2>1. CASE AppendEvent(p)
    <3>1. outside => outside'
      BY <1>3, ConfigIs
    <3> DEFINE one == Min(proc[p].batch)
    <3>2. /\ one \in Ids /\ logged'[one] = logged[one] + 1 /\ \A x \in Ids : x # one
               => logged'[x] = logged[x]
          /\ ~outside => logged[one] = 0
      BY <2>1, AppendsOne
    <3> HIDE DEF one
    <3> QED BY <1>0, <3>1, <3>2 DEF AuditOnce
  <2>2. CASE ~AppendEvent(p)
    BY <1>3, <2>2, ConfigIs DEF AuditOnce
  <2> QED BY <2>1, <2>2
<1> QED BY <1>1, <1>2, <1>3, NextIs

\* No step writes a record without its event.
LEMMA FirstKept ==
  ASSUME StorageShape, Pages, Audits, EventFirst, [StorageNext]_storageVars
  PROVE  EventFirst'
<1>0. \A id \in Ids : logged[id] \in Nat /\ logged'[id] >= logged[id]
  BY Grows DEF StorageShape
<1>1. CASE UNCHANGED storageVars \/ MakeDirectory
  BY <1>1 DEF storageVars, database, MakeDirectory, EventFirst
<1>2. ASSUME NEW p \in Procs, NEW id \in DOMAIN audit, Writes(p, id)
      PROVE  EventFirst'
  <2>1. records' \in SUBSET Ids
    <3>1. StorageShape /\ id \in Ids
      BY DEF StorageShape
    <3> QED BY <1>2, <3>1 DEF Writes, FinishRequest, WriteEvent, WriteRecord, database, StorageShape
  <2>2. \A x \in Ids : logged'[x] \in Nat
    BY <1>2, <1>0, WritesOne
  <2> QED BY <1>0, <1>2, <2>1, <2>2, WritesOne DEF EventFirst
<1>3. ASSUME NEW p \in Procs, Acts(p)
      PROVE  EventFirst'
  <2>1. records' = records /\ lost' = lost /\ records \in SUBSET Ids
    BY <1>3, ConfigIs DEF StorageShape
  <2>2. \A x \in Ids : logged'[x] = 0 => logged[x] = 0
    BY <1>0
  <2> QED BY <2>1, <2>2 DEF EventFirst
<1> QED BY <1>1, <1>2, <1>3, NextIs

-----------------------------------------------------------------------------
\* A page: nothing of the tenant behind the cursor is passed over.
LEMMA PageIs ==
  ASSUME StorageShape, NEW t \in DbTenants, NEW after \in Nat
  PROVE  /\ Page(t, after) \in SUBSET records
         /\ Page(t, after) = {} => \A id \in records : TenantOf[id] = t => id <= after
         /\ \A id \in records : TenantOf[id] = t /\ id > after =>
              id \in Page(t, after) \/ \A b \in Page(t, after) : b < id
<1> DEFINE later == {id \in records : TenantOf[id] = t /\ id > after}
           Below(id) == {x \in later : x < id}
<1>1. records \in SUBSET Ids /\ Ids \subseteq Nat /\ IsFiniteSet(Ids) /\ BatchSize \in Nat \ {0}
  BY Bounds DEF StorageShape
<1>2. Page(t, after) = {id \in later : Cardinality(Below(id)) < BatchSize}
  BY DEF Page
<1>3. \A id \in later : IsFiniteSet(Below(id)) /\ Cardinality(Below(id)) \in Nat
  <2> SUFFICES ASSUME NEW id \in later
               PROVE IsFiniteSet(Below(id)) /\ Cardinality(Below(id)) \in Nat
    OBVIOUS
  <2>1. Below(id) \in SUBSET Ids
    BY <1>1
  <2> HIDE DEF Below, later
  <2> QED BY <1>1, <2>1, FS_Subset, FS_CardinalityType
<1>4. later # {} => Page(t, after) # {}
  <2> SUFFICES ASSUME later # {} PROVE Page(t, after) # {}
    OBVIOUS
  <2>1. later \in SUBSET Nat
    BY <1>1
  <2>2. Min(later) \in later /\ \A x \in later : Min(later) <= x
    <3> HIDE DEF later
    <3> QED BY <2>1, Least
  <2>3. Below(Min(later)) = {}
    <3>1. \A x \in later : ~(x < Min(later))
      <4>1. \A x \in later : x \in Nat
        BY <1>1
      <4>2. Min(later) \in Nat
        BY <2>2, <4>1
      <4> DEFINE m == Min(later)
      <4>3. \A x \in later : m <= x
        BY <2>2
      <4> HIDE DEF later, m
      <4>4. m \in Nat
        BY <4>2 DEF m
      <4>5. \A x \in later : ~(x < m)
        BY <4>1, <4>3, <4>4
      <4> QED BY <4>5 DEF m
    <3> HIDE DEF later
    <3> QED BY <3>1
  <2>4. Cardinality(Below(Min(later))) = 0
    BY <2>3, FS_EmptySet
  <2> HIDE DEF Below, later
  <2> QED BY <1>1, <1>2, <2>2, <2>4
<1>5. ASSUME NEW id \in later, id \notin Page(t, after), NEW b \in Page(t, after)
      PROVE  b < id
  <2>1. b \in later /\ Cardinality(Below(b)) < BatchSize /\ ~(Cardinality(Below(id)) < BatchSize)
    <3> HIDE DEF Below, later
    <3> QED BY <1>2, <1>5
  <2>2. SUFFICES ASSUME id <= b PROVE FALSE
    <3>1. id \in Nat /\ b \in Nat
      BY <1>1, <2>1
    <3> QED BY <3>1
  <2>3. Below(id) \subseteq Below(b)
    <3>1. id \in Nat /\ b \in Nat /\ \A x \in later : x \in Nat
      BY <1>1, <2>1
    <3>2. \A x \in later : x < id => x < b
      <4> HIDE DEF later
      <4> QED BY <2>2, <3>1
    <3> HIDE DEF later
    <3> QED BY <3>2
  <2>4. Cardinality(Below(id)) <= Cardinality(Below(b))
    <3>1. IsFiniteSet(Below(b))
      BY <1>3, <2>1
    <3> HIDE DEF Below, later
    <3> QED BY <2>3, <3>1, FS_Subset
  <2>5. Cardinality(Below(id)) \in Nat /\ Cardinality(Below(b)) \in Nat
    BY <1>3, <2>1
  <2> HIDE DEF Below, later
  <2> QED BY <1>1, <2>1, <2>4, <2>5
<1>6. Page(t, after) \in SUBSET records
  BY <1>2
<1>7. ASSUME Page(t, after) = {}, NEW id \in records, TenantOf[id] = t
      PROVE  id <= after
  <2>1. later = {}
    BY <1>4, <1>7
  <2>2. id \notin later
    BY <2>1, Zenon
  <2> QED BY <1>1, <1>7, <2>2
<1>8. ASSUME NEW id \in records, TenantOf[id] = t, id > after
      PROVE  id \in Page(t, after) \/ \A b \in Page(t, after) : b < id
  BY <1>5, <1>8
<1> QED BY <1>6, <1>7, <1>8

PageOf(p) ==
    LET w == proc[p] IN
    /\ At(p, {"off", "locking", "opening", "configuring", "retaining", "listing"}) => w.after = 0
    /\ At(p, {"reading", "checking", "appending", "relocking"}) =>
         /\ w.seen \subseteq records
         /\ \A id \in w.seen \cap Compatible : (Behind(w, id) => logged[id] > 0) /\ Paged(w, id)
    /\ At(p, {"checking", "appending"}) => w.batch # {} /\ w.batch \subseteq records /\ w.todo # {}
    /\ At(p, {"appending"}) /\ ~outside => logged[Min(w.batch)] = 0

\* Pages, process by process.
LEMMA PagesAre == Pages <=> \A p \in Procs : PageOf(p)
  BY DEF Pages, PageOf

\* What another actor does leaves a process's place in the old store as it was.
LEMMA PageStays ==
  ASSUME StorageShape, StorageShape', NEW p \in Procs, PageOf(p), proc'[p] = proc[p],
         \A id \in Ids : logged'[id] >= logged[id],
         records \subseteq records', outside => outside',
         At(p, {"appending"}) /\ ~outside
           => logged'[Min(proc[p].batch)] = logged[Min(proc[p].batch)]
  PROVE  PageOf(p)'
<1>1. proc[p] \in Work /\ records \in SUBSET Ids /\ \A id \in Ids : logged[id] \in Nat
  BY DEF StorageShape
<1> DEFINE w == proc[p]
<1>2. At(p, {"off", "locking", "opening", "configuring", "retaining", "listing"})' => w.after = 0
  BY DEF PageOf, At
<1>3. At(p, {"reading", "checking", "appending", "relocking"})' =>
        /\ w.seen \subseteq records'
        /\ \A id \in w.seen \cap Compatible : (Behind(w, id) => logged'[id] > 0) /\ Paged(w, id)'
  <2> SUFFICES ASSUME At(p, {"reading", "checking", "appending", "relocking"})'
               PROVE  /\ w.seen \subseteq records'
                      /\ \A id \in w.seen \cap Compatible : (Behind(w, id) => logged'[id] > 0)
                           /\ Paged(w, id)'
    OBVIOUS
  <2>1. At(p, {"reading", "checking", "appending", "relocking"})
    BY DEF At
  <2>2. /\ w.seen \subseteq records
        /\ \A id \in w.seen \cap Compatible : (Behind(w, id) => logged[id] > 0) /\ Paged(w, id)
    BY <2>1 DEF PageOf
  <2>3. \A id \in Ids : logged[id] > 0 => logged'[id] > 0
    <3> SUFFICES ASSUME NEW id \in Ids, logged[id] > 0 PROVE logged'[id] > 0
      OBVIOUS
    <3>1. logged[id] \in Nat /\ logged'[id] \in Nat /\ logged'[id] >= logged[id]
      BY <1>1 DEF StorageShape
    <3> QED BY <3>1
  <2>4. ASSUME NEW id \in w.seen \cap Compatible
        PROVE  (Behind(w, id) => logged'[id] > 0) /\ Paged(w, id)'
    <3>1. id \in Ids
      BY <1>1 DEF Work
    <3>2. (Behind(w, id) => logged[id] > 0) /\ Paged(w, id)
      BY <2>2
    <3> QED BY <2>3, <3>1, <3>2 DEF Paged
  <2> QED BY <2>2, <2>4
<1>4. At(p, {"checking", "appending"})' => w.batch # {} /\ w.batch \subseteq records' /\ w.todo # {}
  BY DEF PageOf, At
<1>5. At(p, {"appending"})' /\ ~outside' => logged'[Min(w.batch)] = 0
  BY DEF PageOf, At
<1> QED BY <1>2, <1>3, <1>4, <1>5 DEF PageOf

\* A record that has been dealt with: before its page, or before it in the page.
LEMMA Passes ==
  ASSUME NEW w \in Work, w.batch # {}, w.pc \in {"checking", "appending"},
         NEW E, NEW F, E \subseteq F, Min(w.batch) \in Compatible => Min(w.batch) \in F,
         NEW id \in Ids \cap Compatible, Behind(w, id) => id \in E,
         TenantOf[id] = Min(w.todo) => id \in E \/ id \in w.batch \/ (\A b \in w.batch : b < id)
  PROVE  /\ Behind(Past(w), id) => id \in F
         /\ Past(w).pc \in {"checking", "appending"} /\ TenantOf[id] = Min(Past(w).todo)
              => id \in F \/ id \in Past(w).batch \/ (\A b \in Past(w).batch : b < id)
<1> DEFINE m == Min(w.batch)
           v == Past(w)
<1>1. /\ v.todo = w.todo /\ v.batch = w.batch \ {m}
      /\ v.pc = (IF v.batch = {} THEN "reading" ELSE "checking")
      /\ v.after = (IF v.batch = {} THEN m ELSE w.after)
      /\ m \in w.batch /\ \A x \in w.batch : m <= x
  BY PastType
<1>2. id \in Nat /\ m \in Nat
  BY <1>1, Bounds DEF Work
<1> HIDE DEF m, v
<1>3. m \in Compatible => m \in F
  BY DEF m
<1>4. ASSUME TenantOf[id] = Min(w.todo), id <= m PROVE id \in F
  <2>1. id \in E \/ id \in w.batch \/ m < id
    BY <1>1, <1>4
  <2>2. id \in E \/ id = m
    BY <1>1, <1>2, <1>4, <2>1
  <2> QED BY <1>3, <2>2
<1>5. Behind(v, id) => id \in F
  <2>1. CASE v.batch = {}
    BY <1>1, <1>4, <2>1 DEF Behind
  <2>2. CASE v.batch # {}
    BY <1>1, <2>2 DEF Behind
  <2> QED BY <2>1, <2>2
<1>6. ASSUME TenantOf[id] = Min(v.todo)
      PROVE  id \in F \/ id \in v.batch \/ (\A b \in v.batch : b < id)
  <2>1. id \in E \/ id \in w.batch \/ (\A b \in w.batch : b < id)
    BY <1>1, <1>6
  <2>2. id \in w.batch => id \in v.batch \/ id = m
    BY <1>1
  <2> QED BY <1>1, <1>3, <2>1, <2>2
<1> QED BY <1>5, <1>6 DEF v

\* The same of the state: one record of the page is passed.
LEMMA PassesOne ==
  ASSUME StorageShape, StorageShape', NEW p \in Procs, PageOf(p), At(p, {"checking", "appending"}),
         proc'[p] = Past(proc[p]), records' = records,
         \A id \in Ids : logged'[id] >= logged[id],
         Min(proc[p].batch) \in Compatible => logged'[Min(proc[p].batch)] > 0
  PROVE  PageOf(p)'
<1> DEFINE w == proc[p]
           E == {id \in Ids : logged[id] > 0}
           F == {id \in Ids : logged'[id] > 0}
<1>1. w \in Work /\ w.batch # {} /\ w.batch \subseteq records /\ w.todo # {}
        /\ w.seen \subseteq records
      /\ records \in SUBSET Ids
  BY DEF StorageShape, PageOf, At
<1>2. /\ Past(w).todo = w.todo /\ Past(w).seen = w.seen /\ Past(w).batch = w.batch \ {Min(w.batch)}
      /\ Past(w).pc = (IF Past(w).batch = {} THEN "reading" ELSE "checking")
      /\ Min(w.batch) \in w.batch
  BY <1>1, PastType
<1>3. E \subseteq F
  <2>1. \A id \in Ids : logged[id] \in Nat /\ logged'[id] \in Nat /\ logged'[id] >= logged[id]
    BY DEF StorageShape
  <2>2. \A id \in Ids : logged[id] > 0 => logged'[id] > 0
    BY <2>1
  <2> QED BY <2>2
<1>4. Min(w.batch) \in Compatible => Min(w.batch) \in F
  BY <1>1, <1>2
<1>5. w.pc \in {"checking", "appending"} /\ At(p, {"reading", "checking", "appending", "relocking"})
  BY DEF At
<1>6. ASSUME NEW id \in w.seen \cap Compatible
      PROVE  (Behind(Past(w), id) => logged'[id] > 0) /\ Paged(proc[p], id)'
  <2>1. id \in Ids \cap Compatible
    BY <1>1
  <2>2. Behind(w, id) => id \in E
    BY <1>5, <2>1 DEF PageOf
  <2>3. TenantOf[id] = Min(w.todo) => id \in E \/ id \in w.batch \/ (\A b \in w.batch : b < id)
    BY <1>5, <2>1 DEF PageOf, Paged
  <2>4. /\ Behind(Past(w), id) => id \in F
        /\ Past(w).pc \in {"checking", "appending"} /\ TenantOf[id] = Min(Past(w).todo)
              => id \in F \/ id \in Past(w).batch \/ (\A b \in Past(w).batch : b < id)
    <3> HIDE DEF w, E, F
    <3> QED BY <1>1, <1>3, <1>4, <1>5, <2>1, <2>2, <2>3, Passes
  <2>5. id \in F => logged'[id] > 0
    OBVIOUS
  <2> HIDE DEF F
  <2> QED BY <2>4, <2>5 DEF Paged
<1>7. proc'[p].pc \in {"reading", "checking"}
  BY <1>2
<1> QED BY <1>1, <1>2, <1>6, <1>7 DEF PageOf, At

\* A page that is read begins behind the cursor.
LEMMA TurnsPage ==
  ASSUME StorageShape, StorageShape', NEW p \in Procs, PageOf(p), ReadPage(p)
  PROVE  PageOf(p)'
<1> DEFINE w == proc[p]
           t == Min(w.todo)
           page == Page(t, w.after)
<1>1. w \in Work /\ w.seen \subseteq records /\ records \in SUBSET Ids /\ w.pc = "reading"
      /\ records' = records /\ logged' = logged
      /\ \A id \in w.seen \cap Compatible : Behind(w, id) => logged[id] > 0
  BY DEF StorageShape, PageOf, At, ReadPage, database
<1>2. /\ t \in w.todo
      /\ \/ page = {} /\ proc'[p] = [w EXCEPT !.todo = @ \ {t}, !.after = 0]
         \/ page # {} /\ proc'[p] = [w EXCEPT !.pc = "checking", !.batch = page]
  BY Reads
<1>3. /\ page \in SUBSET records
      /\ page = {} => \A id \in records : TenantOf[id] = t => id <= w.after
      /\ \A id \in records : TenantOf[id] = t /\ id > w.after =>
              id \in page \/ \A b \in page : b < id
  <2>1. t \in DbTenants /\ w.after \in Nat
    BY <1>1, <1>2 DEF Work
  <2> HIDE DEF t, w
  <2> QED BY <2>1, PageIs
<1>4. w.after \in Nat /\ \A id \in Ids : id \in Nat \ {0}
  BY <1>1, Bounds DEF Work
<1> HIDE DEF page
<1>5. CASE page = {}
  <2>1. /\ proc'[p].pc = "reading" /\ proc'[p].todo = w.todo \ {t} /\ proc'[p].after = 0
        /\ proc'[p].seen = w.seen
    BY <1>1, <1>2, <1>5 DEF Work
  <2>2. \A id \in w.seen \cap Compatible : Behind(proc'[p], id) => logged[id] > 0
    <3> SUFFICES ASSUME NEW id \in w.seen \cap Compatible, Behind(proc'[p], id) PROVE logged[id] > 0
      OBVIOUS
    <3>1. id \in Nat \ {0} /\ id \in records
      BY <1>1, <1>4
    <3>2. TenantOf[id] \notin w.todo \/ TenantOf[id] = t
      BY <2>1, <3>1 DEF Behind
    <3>3. Behind(w, id)
      BY <1>2, <1>3, <1>5, <3>1, <3>2 DEF Behind
    <3> QED BY <1>1, <3>3
  <2> QED BY <1>1, <2>1, <2>2 DEF PageOf, At, Paged
<1>6. CASE page # {}
  <2>1. /\ proc'[p].pc = "checking" /\ proc'[p].todo = w.todo /\ proc'[p].after = w.after
        /\ proc'[p].seen = w.seen /\ proc'[p].batch = page
    BY <1>1, <1>2, <1>6 DEF Work
  <2>2. ASSUME NEW id \in w.seen \cap Compatible
        PROVE  (Behind(proc'[p], id) => logged[id] > 0)
               /\ (TenantOf[id] = t => logged[id] > 0 \/ id \in page \/ (\A b \in page : b < id))
    <3>1. id \in Nat \ {0} /\ id \in records
      BY <1>1, <1>4
    <3>2. Behind(proc'[p], id) => Behind(w, id)
      BY <2>1 DEF Behind
    <3>3. TenantOf[id] = t /\ ~(id > w.after) => Behind(w, id)
      BY <1>2, <1>4, <3>1 DEF Behind
    <3> QED BY <1>1, <1>3, <3>1, <3>2, <3>3
  <2> QED BY <1>1, <1>2, <1>3, <1>6, <2>1, <2>2 DEF PageOf, At, Paged
<1> QED BY <1>5, <1>6

\* What is behind the cursor of a process has been migrated.
LEMMA PagesKept ==
  ASSUME StorageShape, Locks, Pages, Audits, [StorageNext]_storageVars, StorageShape'
  PROVE  Pages'
<1>0. /\ \A id \in Ids : logged'[id] >= logged[id]
      /\ records \subseteq records' /\ (outside => outside')
  BY Grows
<1>p. \A p \in Procs : PageOf(p)
  BY PagesAre
<1>1. CASE UNCHANGED storageVars \/ MakeDirectory
  <2>1. proc' = proc /\ logged' = logged /\ records' = records /\ outside' = outside
    BY <1>1 DEF storageVars, database, MakeDirectory
  <2>2. ASSUME NEW p \in Procs PROVE PageOf(p)'
    BY <1>0, <1>p, <2>1, PageStays
  <2> QED BY <2>2 DEF Pages, PageOf
<1>2. ASSUME NEW p \in Procs, NEW id \in DOMAIN audit, Writes(p, id)
      PROVE  Pages'
  <2>1. ASSUME NEW q \in Procs PROVE PageOf(q)'
    <3>1. proc' = proc
      BY <1>2, WritesOne
    <3>2. At(q, {"appending"}) => Min(proc[q].batch) \in records
      <4> SUFFICES ASSUME At(q, {"appending"}) PROVE Min(proc[q].batch) \in records
        OBVIOUS
      <4>1. proc[q].batch # {} /\ proc[q].batch \subseteq records /\ proc[q] \in Work
        BY <1>p DEF PageOf, At, StorageShape
      <4> QED BY <4>1, PastType
    <3>3. At(q, {"appending"}) => logged'[Min(proc[q].batch)] = logged[Min(proc[q].batch)]
      <4> DEFINE x == Min(proc[q].batch)
      <4> SUFFICES ASSUME At(q, {"appending"}) PROVE logged'[x] = logged[x]
        OBVIOUS
      <4>1. x \in records /\ x \in Ids
        BY <3>2 DEF StorageShape
      <4> HIDE DEF x
      <4> QED BY <1>2, <4>1, WritesOne
    <3> QED BY <1>0, <1>p, <3>1, <3>3, PageStays
  <2> QED BY <2>1 DEF Pages, PageOf
<1>3. ASSUME NEW p \in Procs, Acts(p)
      PROVE  Pages'
  <2>0. records' = records
    BY <1>3, ConfigIs
  <2>1. ASSUME NEW q \in Procs, q # p
        PROVE  PageOf(q)'
    <3>1. proc'[q] = proc[q]
      BY <1>3, <2>1, ActsMove DEF Moves
    <3>2. CASE AppendEvent(p)
      <4>1. Working(p)
        BY <3>2 DEF AppendEvent, Working, At, Booting
      <4>2. ~outside => ~Working(q)
        BY <2>1, <4>1, Alone
      <4>3. ~(At(q, {"appending"}) /\ ~outside)
        BY <4>2 DEF Working, At, Booting
      <4> QED BY <1>0, <1>p, <3>1, <4>3, PageStays
    <3>3. CASE ~AppendEvent(p)
      <4>1. logged' = logged
        BY <1>3, <3>3, ConfigIs
      <4> QED BY <1>0, <1>p, <3>1, <4>1, PageStays
    <3> QED BY <3>2, <3>3
  <2>2. PageOf(p)'
    <3>0. PageOf(p) /\ proc[p] \in Work /\ \A id \in Ids : logged[id] \in Nat
      BY <1>p DEF StorageShape
    <3>1. CASE Start(p) \/ TryLock(p) \/ Configured(p) \/ Retain(p)
      <4>1. At(p, {"off", "locking", "opening", "configuring", "retaining", "listing"})
        BY <3>1 DEF Start, TryLock, Configured, Retain, At
      <4>2. proc'[p].after = 0 /\ proc'[p].pc \in {"off", "locking", "opening", "retaining",
              "listing"}
        BY <3>0, <3>1, <4>1, Table DEF To, Pages_, PageOf
      <4> QED BY <4>2 DEF PageOf, At
    <3>2. CASE OpenDatabase(p) \/ Configure(p)
      <4>1. At(p, {"off", "locking", "opening", "configuring", "retaining", "listing"})
        BY <3>2 DEF OpenDatabase, Configure, At
      <4>2. proc'[p].after = 0 /\ proc'[p].pc = "configuring"
        BY <3>0, <3>2, <4>1, Table DEF To, Pages_, PageOf
      <4> QED BY <4>2 DEF PageOf, At
    <3>3. CASE Gone(p) \/ Stop(p) \/ Relock(p)
      <4>1. \/ proc'[p].pc \in {"exiting", "serving"}
            \/ proc'[p].pc = "off" /\ proc'[p].after = 0
        BY <3>3, Table DEF To
      <4> QED BY <4>1 DEF PageOf, At
    <3>4. CASE List(p)
      <4>1. /\ proc'[p].pc = "reading" /\ proc'[p].after = proc[p].after
            /\ proc'[p].seen = records /\ proc'[p].todo = {TenantOf[id] : id \in records}
        BY <3>4, Table
      <4>2. proc[p].after = 0
        BY <3>0, <3>4 DEF PageOf, List, At
      <4>3. ASSUME NEW id \in records PROVE ~Behind(proc'[p], id)
        <5>1. id \in Nat \ {0}
          BY Bounds DEF StorageShape
        <5> QED BY <4>1, <4>2, <5>1 DEF Behind
      <4> QED BY <2>0, <4>1, <4>3 DEF PageOf, At, Paged
    <3>5. CASE ReadPage(p)
      BY <3>0, <3>5, TurnsPage
    <3>6. CASE Check(p)
      <4> DEFINE id == Min(proc[p].batch)
      <4>1. proc[p].batch # {} /\ At(p, {"checking", "appending"}) /\ At(p, {"checking"})
              /\ logged' = logged
        BY <3>0, <3>6 DEF PageOf, At, Check, database
      <4>2. proc'[p] = IF Skippable(id) THEN Past(proc[p]) ELSE [proc[p] EXCEPT !.pc = "appending"]
        BY <3>6, <4>1, Checks
      <4>3. id \in Ids
        BY <3>0, <4>1, PastType DEF Work
      <4>4. CASE Skippable(id)
        <5>1. id \in Compatible => logged'[id] > 0
          BY <4>1, <4>4 DEF Skippable
        <5>2. proc'[p] = Past(proc[p])
          BY <4>2, <4>4
        <5> QED BY <1>0, <2>0, <3>0, <4>1, <5>1, <5>2, PassesOne
      <4>5. CASE ~Skippable(id)
        <5> HIDE DEF id
        <5>1. logged[id] = 0
          BY <3>0, <4>3, <4>5 DEF Skippable
        <5>2. proc'[p] = [proc[p] EXCEPT !.pc = "appending"]
          BY <4>2, <4>5
        <5>3. /\ proc'[p].pc = "appending" /\ proc'[p].todo = proc[p].todo
                   /\ proc'[p].after = proc[p].after
              /\ proc'[p].seen = proc[p].seen /\ proc'[p].batch = proc[p].batch
          BY <3>0, <5>2 DEF Work
        <5>4. logged'[Min(proc'[p].batch)] = 0
          BY <4>1, <5>1, <5>3 DEF id
        <5>5. /\ proc[p].seen \subseteq records
              /\ \A x \in proc[p].seen \cap Compatible : (Behind(proc[p], x) => logged[x] > 0)
                   /\ Paged(proc[p], x)
              /\ proc[p].batch # {} /\ proc[p].batch \subseteq records /\ proc[p].todo # {}
          BY <3>0, <4>1 DEF PageOf, At
        <5>6. ASSUME NEW x \in proc[p].seen \cap Compatible
              PROVE  (Behind(proc[p], x) => logged[x] > 0)' /\ Paged(proc[p], x)'
          <6>1. (Behind(proc[p], x) => logged[x] > 0) /\ Paged(proc[p], x)
            BY <5>5
          <6>2. proc[p].pc = "checking"
            BY <4>1 DEF At
          <6>3. Behind(proc'[p], x) <=> Behind(proc[p], x)
            BY <5>3 DEF Behind
          <6> QED BY <4>1, <5>3, <6>1, <6>2, <6>3 DEF Paged, Behind
        <5> QED BY <2>0, <5>3, <5>4, <5>5, <5>6 DEF PageOf, At
      <4> QED BY <4>4, <4>5
    <3>7. CASE AppendEvent(p)
      <4>1. proc[p].batch # {} /\ At(p, {"checking", "appending"})
        BY <3>0, <3>7 DEF PageOf, At, AppendEvent
      <4>2. proc'[p] = Past(proc[p])
        BY <3>7, <4>1, Appends
      <4>3. logged'[Min(proc[p].batch)] > 0
        <5> DEFINE one == Min(proc[p].batch)
        <5>1. one \in Ids /\ logged'[one] = logged[one] + 1
          BY <3>7, AppendsOne
        <5> HIDE DEF one
        <5>2. logged'[one] > 0
          BY <3>0, <5>1
        <5> QED BY <5>2 DEF one
      <4> QED BY <1>0, <2>0, <3>0, <4>1, <4>2, <4>3, PassesOne
    <3>8. CASE Migrated(p)
      <4>1. To(p, "relocking") /\ logged' = logged /\ At(p, {"reading"})
        BY <3>8, Table DEF Migrated, database
      <4>2. /\ proc[p].seen \subseteq records
            /\ \A x \in proc[p].seen \cap Compatible : Behind(proc[p], x) => logged[x] > 0
        BY <3>0, <4>1 DEF PageOf, At
      <4>3. ASSUME NEW x \in proc[p].seen \cap Compatible
            PROVE  Behind(proc'[p], x) => logged'[x] > 0
        BY <4>1, <4>2 DEF Behind, To, Pages_
      <4> QED BY <2>0, <4>1, <4>2, <4>3 DEF PageOf, At, Paged, To, Pages_
    <3> QED BY <1>3, <3>1, <3>2, <3>3, <3>4, <3>5, <3>6, <3>7, <3>8 DEF Acts, Boot, RefuseStart,
                 Crash
  <2>3. \A q \in Procs : PageOf(q)'
    BY <2>1, <2>2
  <2> QED BY <2>3 DEF Pages, PageOf
<1> QED BY <1>1, <1>2, <1>3, NextIs

\* When every tenant is behind, all that was listed has been migrated.
LEMMA HistoryKept ==
  ASSUME StorageShape, Pages, Audits, HistoryMigrated, [StorageNext]_storageVars, StorageShape'
  PROVE  HistoryMigrated'
<1>0. \A id \in Ids : logged[id] > 0 => logged'[id] > 0
  <2>1. \A id \in Ids : logged'[id] >= logged[id] /\ logged'[id] \in Nat /\ logged[id] \in Nat
    BY Grows DEF StorageShape
  <2> QED BY <2>1
<1>s. \A p \in Procs : proc[p].seen \subseteq Ids
  BY DEF StorageShape, Work
<1> DEFINE Told(p) == At(p, {"relocking", "serving"})
                        => \A id \in proc[p].seen \cap Compatible : logged[id] > 0
<1>4. ASSUME NEW p \in Procs, proc'[p] = proc[p] PROVE Told(p)'
  BY <1>0, <1>s, <1>4 DEF HistoryMigrated, At
<1>1. CASE UNCHANGED storageVars \/ MakeDirectory
  <2>1. proc' = proc
    BY <1>1 DEF storageVars, database, MakeDirectory
  <2> QED BY <2>1, <1>4 DEF HistoryMigrated
<1>2. ASSUME NEW p \in Procs, NEW id \in DOMAIN audit, Writes(p, id)
      PROVE  HistoryMigrated'
  <2>1. proc' = proc
    BY <1>2, WritesOne
  <2> QED BY <2>1, <1>4 DEF HistoryMigrated
<1>3. ASSUME NEW p \in Procs, Acts(p)
      PROVE  HistoryMigrated'
  <2>1. \A q \in Procs : q # p => proc'[q] = proc[q]
    BY <1>3, ActsMove DEF Moves
  <2>2. Told(p)'
    <3>1. CASE Relock(p)
      <4>1. proc'[p].pc = "off" \/ To(p, "serving")
        BY <3>1, Table
      <4>2. Told(p) /\ At(p, {"relocking", "serving"})
        BY <3>1 DEF HistoryMigrated, Relock, At
      <4> QED BY <1>0, <1>s, <4>1, <4>2 DEF At, To, Pages_
    <3>2. CASE Migrated(p)
      <4>1. To(p, "relocking") /\ proc[p].todo = {} /\ At(p, {"reading"})
        BY <3>2, Table DEF Migrated
      <4>2. \A id \in proc[p].seen \cap Compatible : Behind(proc[p], id) => logged[id] > 0
        BY <4>1 DEF Pages, At
      <4>3. \A id \in proc[p].seen \cap Compatible : logged[id] > 0
        BY <4>1, <4>2 DEF Behind
      <4> QED BY <1>0, <1>s, <4>1, <4>3 DEF At, To, Pages_
    <3>3. CASE ~Relock(p) /\ ~Migrated(p)
      <4>1. proc'[p].pc \notin {"relocking", "serving"}
        <5>1. CASE ReadPage(p) \/ Check(p) \/ AppendEvent(p)
          BY <5>1, PagingTable
        <5>2. CASE ~(ReadPage(p) \/ Check(p) \/ AppendEvent(p))
          BY <1>3, <3>3, <5>2, Table DEF Acts, Boot, RefuseStart, Crash, To
        <5> QED BY <5>1, <5>2
      <4> QED BY <4>1 DEF At
    <3> QED BY <3>1, <3>2, <3>3
  <2>3. \A q \in Procs : Told(q)'
    BY <1>4, <2>1, <2>2
  <2> QED BY <2>3 DEF HistoryMigrated
<1> QED BY <1>1, <1>2, <1>3, NextIs

\* The parts keep each other.
LEMMA StorageInductive == StorageInv /\ [StorageNext]_storageVars => StorageInv'
<1> SUFFICES ASSUME StorageInv, [StorageNext]_storageVars PROVE StorageInv'
  OBVIOUS
<1> USE DEF StorageInv
<1>1. StorageShape'
  BY ShapeKept
<1>2. Threads'
  BY ThreadsKept
<1>3. Locks'
  BY LocksKept
<1>4. Configs'
  BY ConfigsKept
<1>5. Audits' /\ AuditOnce' /\ EventFirst'
  BY AuditsKept, OnceKept, FirstKept
<1>6. Pages' /\ HistoryMigrated'
  BY <1>1, PagesKept, HistoryKept
<1> QED BY <1>1, <1>2, <1>3, <1>4, <1>5, <1>6

\* At most one element is one.
LEMMA OneAtMost ==
  ASSUME NEW S, NEW x, S \subseteq {x}
  PROVE  Cardinality(S) <= 1
<1>1. Cardinality({}) = 0 /\ Cardinality({x}) = 1
  BY FS_EmptySet, FS_Singleton
<1>2. S = {} \/ S = {x}
  OBVIOUS
<1> QED BY <1>1, <1>2

\* What the parts say of a process that serves.
LEMMA StorageImplied == StorageInv => OneServer /\ AuditsComplete
<1> SUFFICES ASSUME StorageInv PROVE OneServer /\ AuditsComplete
  OBVIOUS
<1> USE DEF StorageInv
<1>1. StorageTypeOK
  <2>1. \A p \in Procs :
       /\ proc[p].pc \in Booting \cup {"off", "serving", "exiting"}
       /\ proc[p].manifest \in Manifests \cup {<<>>}
       /\ At(p, {"checking", "appending"}) => proc[p].batch # {}
    BY DEF StorageShape, Work, States, Pages
  <2>2. \A id \in DOMAIN audit :
       /\ audit[id].step \in {"none", "event", "record", "done"}
       /\ audit[id].step \in {"event", "record"} <=> audit[id].by # Nobody
       /\ audit[id].by # Nobody => Alive(audit[id].by)
    BY DEF StorageShape, Threads, Write
  <2>3. (\A t \in DbTenants : config[t] \in Int) /\ (\A id \in Ids : logged[id] \in Nat)
    BY DEF StorageShape
  <2> QED BY <2>1, <2>2, <2>3 DEF StorageShape, StorageTypeOK
<1>2. OneServes
  <2>1. {p \in Procs : At(p, {"serving"})} \subseteq {lock}
    BY DEF Locks
  <2> QED BY <2>1, OneAtMost DEF OneServes
<1>3. TenantsTrusted
  BY DEF Configs, TenantsTrusted, At
<1> QED BY <1>1, <1>2, <1>3 DEF OneServer, AuditsComplete

\* idoris.rs, storage.rs: at most one process serves, and while nobody took the directory away
\* the limits it serves by are those of the manifest it read.
THEOREM OneServerHolds == StorageSpec => []OneServer
<1>1. StorageInv /\ [StorageNext]_storageVars => StorageInv'
  BY StorageInductive
<1> QED BY <1>1, StorageInitHolds, StorageImplied, PTL DEF StorageSpec

\* idoris.rs, storage.rs: of a request there is one audit event; a start that is
\* through has migrated every record it found; and an audit that the old store
\* has and the log has not was refused by the log.
THEOREM AuditsCompleteHolds == StorageSpec => []AuditsComplete
<1>1. StorageInv /\ [StorageNext]_storageVars => StorageInv'
  BY StorageInductive
<1> QED BY <1>1, StorageInitHolds, StorageImplied, PTL DEF StorageSpec
=============================================================================
