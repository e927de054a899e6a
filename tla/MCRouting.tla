------------------------------ MODULE MCRouting ------------------------------
(* Deployments, cards and requests for Routing: a local card of each kind,  *)
(* forwarded cards that tie or cost, a relay and a card without a price.    *)
EXTENDS Routing, TLC

CONSTANTS s1, s2, s3, t1, fast, auto, unknown

Base == [form |-> "http_service", resident |-> TRUE, tier |-> "local",
         locality |-> "loopback", privacy |-> "local_only", egress |-> {"loopback"},
         price |-> 0, free |-> TRUE, roles |-> {}, caps |-> {"chat"}]

LocalRun   == [Base EXCEPT !.resident = FALSE, !.roles = {fast}, !.caps = {"chat", "embedding"}]
LocalHttp  == [Base EXCEPT !.roles = {fast}]
LocalHttp2 == [Base EXCEPT !.caps = {"chat", "embedding", "rerank"}]
LocalPaid  == [Base EXCEPT !.price = 1, !.free = FALSE, !.roles = {fast}]
LocalLax   == [Base EXCEPT !.privacy = "any", !.egress = {"loopback", "internet"}]
Remote     == [Base EXCEPT !.tier = "remote", !.locality = "remote", !.privacy = "any",
                           !.egress = {"internet"}, !.roles = {fast}, !.price = 2, !.free = FALSE]
RemoteFree == [Remote EXCEPT !.price = 0, !.free = TRUE]
NoPrice    == [Remote EXCEPT !.price = unknown]
TheRelay   == [RemoteFree EXCEPT !.form = "spawn_cli", !.resident = FALSE,
                                 !.locality = "loopback", !.egress = {"loopback"}, !.roles = {}]

MCCardOf == <<LocalRun, LocalHttp, LocalHttp2, LocalPaid, LocalLax, Remote, RemoteFree,
              NoPrice, TheRelay>>

ASSUME \A c \in DOMAIN MCCardOf : ValidCard(MCCardOf[c])

MCCatalogues == {{1, 2, 3, 6}, {1, 3, 9}, {2, 3, 7}, {4, 6, 8}, {4, 5, 9}, {1, 4, 7}, {8}, {2, 3},
                 {1, 2, 4}, {5, 7, 9}, {6, 9}, {2, 6, 8, 9}}

All == [tiers |-> {"local", "remote"}, failClosed |-> FALSE]
Near == [tiers |-> {"local"}, failClosed |-> TRUE]
Rule(when, action) == [when |-> when, tiers |-> action.tiers, failClosed |-> action.failClosed]
MCPolicyOf == <<
  [rules |-> <<>>, default |-> All],
  [rules |-> <<Rule({<<"any", "code">>}, All), Rule({<<"any", "chat">>, <<"local_only", "chat">>}, Near)>>,
   default |-> All]>>

MCDeployments == {
  [mode |-> "personal", remoteBind |-> FALSE, devNoKey |-> TRUE, kill |-> FALSE],
  [mode |-> "personal", remoteBind |-> TRUE, devNoKey |-> FALSE, kill |-> FALSE],
  [mode |-> "personal", remoteBind |-> FALSE, devNoKey |-> FALSE, kill |-> TRUE],
  [mode |-> "tenant", remoteBind |-> FALSE, devNoKey |-> TRUE, kill |-> FALSE]}

MCSites == {[mode |-> d.mode, remoteBind |-> d.remoteBind, devNoKey |-> d.devNoKey,
             kill |-> d.kill, breakers |-> TRUE, cards |-> C, policy |-> p,
             intents |-> {"chat", "code"}] :
             d \in MCDeployments, C \in MCCatalogues, p \in DOMAIN MCPolicyOf}

MCScopes == (s1 :> [tenant |-> NoTenant, privacy |-> {"local_only", "any"}, roles |-> Roles]) @@
            (s2 :> [tenant |-> Personal, privacy |-> {"local_only"}, roles |-> {fast}]) @@
            (s3 :> [tenant |-> t1, privacy |-> {"local_only", "any"}, roles |-> {fast}])

Plain == [endpoint |-> "chat", secret |-> s1, tenant |-> NoTenant, privacy |-> "any",
          needs |-> {"chat"}, role |-> NoRole, fallback |-> FALSE, session |-> FALSE,
          id |-> FALSE, intent |-> "chat", declaresIntent |-> TRUE, content |-> "clean",
          near |-> TRUE]

\* What the client shows, what it asks for and what it sends.
Callers == {<<s1, NoTenant>>, <<s2, NoTenant>>, <<s3, t1>>, <<s3, Personal>>, <<NoBearer, NoTenant>>}
Asks == {<<"chat", NoRole, FALSE>>, <<"chat", fast, FALSE>>, <<"chat", fast, TRUE>>,
         <<"messages", NoRole, FALSE>>, <<"messages", fast, FALSE>>, <<"embeddings", NoRole, FALSE>>,
         <<"rerank", NoRole, FALSE>>}
MCRequests ==
  {[Plain EXCEPT !.secret = caller[1], !.tenant = caller[2], !.endpoint = ask[1],
                 !.role = ask[2], !.fallback = ask[3], !.privacy = privacy,
                 !.content = content, !.session = way[1], !.id = way[2],
                 !.declaresIntent = way[3], !.near = way[4]] :
     caller \in Callers, ask \in Asks, privacy \in {"local_only", "any"},
     content \in {"clean", "sensitive"},
     way \in {<<FALSE, FALSE, TRUE, TRUE>>, <<TRUE, TRUE, TRUE, TRUE>>,
              <<FALSE, TRUE, FALSE, TRUE>>, <<FALSE, FALSE, FALSE, FALSE>>}}
=============================================================================
