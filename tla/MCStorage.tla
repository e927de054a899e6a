----------------------------- MODULE MCStorage -----------------------------
(***************************************************************************)
(* Two processes and two tenants.  Tenant 1 has three old records, one of  *)
(* them not acceptable to the event log, tenant 2 has one; pages hold two. *)
(* One request of tenant 1 comes later; its id lies between the old ones.  *)
(***************************************************************************)
EXTENDS Storage

Entry(t, l) == [tenant |-> t, limit |-> l]

MCTenantOf == [id \in Ids |-> IF id = 2 THEN 2 ELSE 1]

\* A manifest that names both, one that drops tenant 2, one with an entry too
\* many, and one without the required tenant.
MCManifests == {<<Entry(1, 1), Entry(2, 1)>>, <<Entry(1, 2)>>,
                <<Entry(1, 2), Entry(1, 3)>>, <<Entry(2, 2)>>}
=============================================================================
