------------------------------- MODULE Storage -------------------------------
(***************************************************************************)
(* Processes that serve from one database: the instance lock, the          *)
(* start-up that reconciles the trusted tenants and copies the old audit   *)
(* records into the event log (idoris-router/src/storage.rs, and run in    *)
(* src/bin/idoris.rs), and the audit of a request, which writes both the   *)
(* event log and the old record store (lib.rs).                            *)
(*                                                                         *)
(* No transaction spans two of these writes.  A start may fail or be       *)
(* killed between any two of them; the tenants' file may hold something    *)
(* else whenever it is read; and a process that stops gives up the lock    *)
(* before the threads that write its audits are done or killed.  The lock  *)
(* is the kernel's: no crash leaves it held.                               *)
(***************************************************************************)
EXTENDS Integers, FiniteSets, Sequences, FiniteSetsExt

CONSTANTS
  Procs,
  Nobody,
  DbTenants,  \* numbers, in the order of the database
  Ids,        \* record ids, numbers in the order of the database
  TenantOf,   \* whose record an id is
  Compatible, \* ids whose old record the event log accepts
  Legacy,     \* ids with an old record before the first start
  Required,   \* tenants a manifest must name: the personal one, or none
  Manifests,  \* contents the tenants' file may have when it is read
  BatchSize,
  MaxStarts   \* bound: starts of all processes

ASSUME StorageAssumption ==
  /\ Nobody \notin Procs
  /\ DbTenants \subseteq Nat /\ Ids \subseteq Nat \ {0}
  /\ IsFiniteSet(DbTenants) /\ IsFiniteSet(Ids)
  /\ TenantOf \in [Ids -> DbTenants]
  /\ Compatible \subseteq Ids /\ Legacy \subseteq Ids
  /\ Required \subseteq DbTenants
  /\ Manifests \subseteq Seq([tenant : DbTenants, limit : Nat])
  /\ BatchSize \in Nat \ {0} /\ MaxStarts \in Nat

VARIABLES
  dir,     \* whether the directory of the database can be used
  lock,    \* who holds the lock of the database
  config,  \* the ledger's limit of each tenant
  records, \* ids in the old record store
  logged,  \* how many audit events the log has for an id
  proc,    \* what each process is doing
  audit,   \* the write of a request's audit: by whom, and how far
  starts,
  outside, \* whether a start has put the lock off (history)
  lost     \* ids whose audit event was refused by the log (history)

database == <<config, records, logged>>
storageVars == <<dir, lock, database, proc, audit, starts, outside, lost>>

Unset == -1 \* a tenant the ledger does not know

Idle == [pc |-> "off", manifest |-> <<>>, at |-> 0, todo |-> {}, after |-> 0,
         batch |-> {}, seen |-> {}]

Booting == {"locking", "opening", "configuring", "retaining", "listing",
            "reading", "checking", "appending", "relocking"}
At(p, pcs) == proc[p].pc \in pcs
Alive(p) == At(p, {"serving", "exiting"})

Named(manifest) == {manifest[i].tenant : i \in DOMAIN manifest}
Reconciled(manifest) ==
  [t \in DbTenants |-> IF \E i \in DOMAIN manifest : manifest[i].tenant = t
                     THEN manifest[CHOOSE i \in DOMAIN manifest : manifest[i].tenant = t].limit
                     ELSE Unset]

\* A legacy id already has its record; an id of Ids \ Legacy is a request's.
StorageInit ==
  /\ dir \in BOOLEAN
  /\ lock = Nobody
  /\ config = [t \in DbTenants |-> Unset]
  /\ records = Legacy
  /\ logged = [id \in Ids |-> 0]
  /\ proc = [p \in Procs |-> Idle]
  /\ audit = [id \in Ids \ Legacy |-> [by |-> Nobody, step |-> "none"]]
  /\ starts = 0
  /\ outside = FALSE
  /\ lost = {}

(***************************************************************************)
(* The end of a process, and of its threads                                *)
(***************************************************************************)
Unlocked(p) == IF lock = p THEN Nobody ELSE lock
Killed(p) == [id \in DOMAIN audit |-> IF audit[id].by = p
                                      THEN [by |-> Nobody, step |-> "done"]
                                      ELSE audit[id]]

Gone(p) ==
  /\ proc' = [proc EXCEPT ![p] = Idle]
  /\ lock' = Unlocked(p)
  /\ audit' = Killed(p)
  /\ UNCHANGED <<dir, database, starts, outside, lost>>

\* A start that meets an error - of the file system, the database or the
\* manifest - ends; so does a process that is killed.
RefuseStart(p) == At(p, Booting) /\ Gone(p)
Crash(p) == At(p, {"serving", "exiting"}) /\ Gone(p)

(***************************************************************************)
(* The start                                                               *)
(***************************************************************************)
Goto(p, pc) == proc' = [proc EXCEPT ![p].pc = pc]
Resting == UNCHANGED <<dir, starts, audit, lost>>

Start(p) ==
  /\ At(p, {"off"}) /\ starts < MaxStarts
  /\ starts' = starts + 1
  /\ Goto(p, "locking")
  /\ UNCHANGED <<dir, lock, database, audit, outside, lost>>

\* Without its directory the lock is put off, not refused.
TryLock(p) ==
  /\ At(p, {"locking"})
  /\ \/ dir /\ lock = Nobody /\ lock' = p /\ Goto(p, "opening") /\ UNCHANGED outside
     \/ dir /\ lock # Nobody /\ proc' = [proc EXCEPT ![p] = Idle] /\ UNCHANGED <<lock, outside>>
     \/ ~dir /\ outside' = TRUE /\ Goto(p, "opening") /\ UNCHANGED lock
  /\ UNCHANGED database /\ Resting

\* The file is read once, with whatever the operator has left in it.
OpenDatabase(p) ==
  /\ At(p, {"opening"}) /\ dir
  /\ \E m \in Manifests :
       proc' = [proc EXCEPT ![p].pc = "configuring", ![p].manifest = m, ![p].at = 1]
  /\ UNCHANGED <<lock, database, outside>> /\ Resting

\* Each entry is committed by itself: an error in a later one undoes nothing.
Configure(p) ==
  LET m == proc[p].manifest
      i == proc[p].at
  IN /\ At(p, {"configuring"}) /\ i <= Len(m)
     /\ m[i].tenant \notin Named(SubSeq(m, 1, i - 1))
     /\ config' = [config EXCEPT ![m[i].tenant] = m[i].limit]
     /\ proc' = [proc EXCEPT ![p].at = i + 1]
     /\ UNCHANGED <<lock, records, logged, outside>> /\ Resting

Configured(p) ==
  /\ At(p, {"configuring"}) /\ proc[p].at > Len(proc[p].manifest)
  /\ Required \subseteq Named(proc[p].manifest)
  /\ Goto(p, "retaining")
  /\ UNCHANGED <<lock, database, outside>> /\ Resting

\* Tenants that are no longer named stay configured.
MutRetain(p) ==
  /\ At(p, {"retaining"})
  /\ Goto(p, "listing")
  /\ UNCHANGED <<lock, database, outside>> /\ Resting

Retain(p) ==
  /\ At(p, {"retaining"})
  /\ config' = [t \in DbTenants |-> IF t \in Named(proc[p].manifest) THEN config[t] ELSE Unset]
  /\ Goto(p, "listing")
  /\ UNCHANGED <<lock, records, logged, outside>> /\ Resting

\* The migration covers the tenants that have records, trusted or not.
List(p) ==
  /\ At(p, {"listing"})
  /\ proc' = [proc EXCEPT ![p].pc = "reading", ![p].at = 0, ![p].seen = records,
                          ![p].todo = {TenantOf[id] : id \in records}]
  /\ UNCHANGED <<lock, database, outside>> /\ Resting

\* The first records of t behind the cursor, in the order of their ids.
Page(t, after) ==
  LET later == {id \in records : TenantOf[id] = t /\ id > after}
  IN {id \in later : Cardinality({x \in later : x < id}) < BatchSize}

ReadPage(p) ==
  /\ At(p, {"reading"}) /\ proc[p].todo # {}
  /\ LET t == Min(proc[p].todo)
         page == Page(t, proc[p].after)
     IN proc' = IF page = {}
                THEN [proc EXCEPT ![p].todo = @ \ {t}, ![p].after = 0]
                ELSE [proc EXCEPT ![p].pc = "checking", ![p].batch = page]
  /\ UNCHANGED <<lock, database, outside>> /\ Resting

\* The cursor stays where it is when no record of the page was appended.
MutPast(w) ==
  LET rest == w.batch \ {Min(w.batch)}
  IN [w EXCEPT !.batch = rest,
               !.pc = IF rest = {} THEN "reading" ELSE "checking"]

\* The first record left of the page is dealt with; after the last one the
\* next page starts behind it.
Past(w) ==
  LET id == Min(w.batch)
      rest == w.batch \ {id}
  IN [w EXCEPT !.batch = rest,
               !.pc = IF rest = {} THEN "reading" ELSE "checking",
               !.after = IF rest = {} THEN id ELSE @]

\* The migration does not look for the event before it appends one.
MutSkippable(id) == id \notin Compatible

Skippable(id) == id \notin Compatible \/ logged[id] > 0

Check(p) ==
  /\ At(p, {"checking"})
  /\ proc' = [proc EXCEPT ![p] = IF Skippable(Min(@.batch)) THEN Past(@)
                                 ELSE [@ EXCEPT !.pc = "appending"]]
  /\ UNCHANGED <<lock, database, outside>> /\ Resting

AppendEvent(p) ==
  /\ At(p, {"appending"})
  /\ logged' = [logged EXCEPT ![Min(proc[p].batch)] = @ + 1]
  /\ proc' = [proc EXCEPT ![p] = Past(@)]
  /\ UNCHANGED <<lock, config, records, outside>> /\ Resting

Migrated(p) ==
  /\ At(p, {"reading"}) /\ proc[p].todo = {}
  /\ Goto(p, "relocking")
  /\ UNCHANGED <<lock, database, outside>> /\ Resting

\* Nobody serves without the lock: what was put off is retried here.
Relock(p) ==
  /\ At(p, {"relocking"})
  /\ \/ lock \in {p, Nobody} /\ lock' = p /\ Goto(p, "serving")
     \/ lock \notin {p, Nobody} /\ UNCHANGED lock /\ proc' = [proc EXCEPT ![p] = Idle]
  /\ UNCHANGED <<database, outside>> /\ Resting

\* An opening without a directory, a second entry for a tenant and a manifest
\* without the personal one are errors.
Faulty(p) ==
  LET m == proc[p].manifest
      i == proc[p].at
  IN \/ At(p, {"opening"}) /\ ~dir
     \/ /\ At(p, {"configuring"})
        /\ \/ i <= Len(m) /\ m[i].tenant \in Named(SubSeq(m, 1, i - 1))
           \/ i > Len(m) /\ ~(Required \subseteq Named(m))

Boot(p) ==
  \/ TryLock(p) \/ OpenDatabase(p) \/ Configure(p) \/ Configured(p) \/ Retain(p) \/ List(p)
  \/ ReadPage(p) \/ Check(p) \/ AppendEvent(p) \/ Migrated(p) \/ Relock(p)
  \/ Faulty(p) /\ RefuseStart(p)

(***************************************************************************)
(* Requests and their audits                                               *)
(***************************************************************************)
\* The audit of a finished request is handed to a thread: the event first,
\* then the old record.
Audited(id, p, step) == audit' = [audit EXCEPT ![id] = [by |-> p, step |-> step]]

FinishRequest(p, id) ==
  /\ At(p, {"serving"}) /\ audit[id].step = "none"
  /\ Audited(id, p, "event")
  /\ UNCHANGED <<dir, lock, database, proc, starts, outside, lost>>

WriteEvent(p, id) ==
  /\ Alive(p) /\ audit[id] = [by |-> p, step |-> "event"]
  /\ \/ logged' = [logged EXCEPT ![id] = @ + 1] /\ UNCHANGED lost
     \/ lost' = lost \cup {id} /\ UNCHANGED logged
  /\ Audited(id, p, "record")
  /\ UNCHANGED <<dir, lock, config, records, proc, starts, outside>>

WriteRecord(p, id) ==
  /\ Alive(p) /\ audit[id] = [by |-> p, step |-> "record"]
  /\ records' \in {records, records \cup {id}}
  /\ Audited(id, Nobody, "done")
  /\ UNCHANGED <<dir, lock, config, logged, proc, starts, outside, lost>>

(***************************************************************************)
(* The stop, and the operator                                              *)
(***************************************************************************)
\* run returns, drained or out of time, and its lock is dropped; the threads
\* have until Exit.
Stop(p) ==
  /\ At(p, {"serving"})
  /\ Goto(p, "exiting")
  /\ lock' = Unlocked(p)
  /\ UNCHANGED <<dir, database, audit, starts, outside, lost>>

MakeDirectory ==
  /\ ~dir /\ dir' = TRUE
  /\ UNCHANGED <<lock, database, proc, audit, starts, outside, lost>>

StorageNext ==
  \/ \E p \in Procs : Start(p) \/ Boot(p) \/ RefuseStart(p) \/ Crash(p) \/ Stop(p)
  \/ \E p \in Procs, id \in DOMAIN audit :
       FinishRequest(p, id) \/ WriteEvent(p, id) \/ WriteRecord(p, id)
  \/ MakeDirectory

\* A start that is not killed goes on: nothing in it waits for anybody.
StorageSpec ==
  /\ StorageInit /\ [][StorageNext]_storageVars
  /\ \A p \in Procs : WF_storageVars(Boot(p))

-----------------------------------------------------------------------------
\* The shape of the state.
StorageTypeOK ==
  /\ dir \in BOOLEAN /\ outside \in BOOLEAN
  /\ lock \in Procs \cup {Nobody}
  /\ \A t \in DbTenants : config[t] \in Int
  /\ records \subseteq Ids /\ lost \subseteq Ids
  /\ \A id \in Ids : logged[id] \in Nat
  /\ \A p \in Procs :
       /\ proc[p].pc \in Booting \cup {"off", "serving", "exiting"}
       /\ proc[p].manifest \in Manifests \cup {<<>>}
       /\ At(p, {"checking", "appending"}) => proc[p].batch # {}
  /\ \A id \in DOMAIN audit :
       /\ audit[id].step \in {"none", "event", "record", "done"}
       /\ audit[id].step \in {"event", "record"} <=> audit[id].by # Nobody
       /\ audit[id].by # Nobody => Alive(audit[id].by)
  /\ starts \in 0 .. MaxStarts

\* Two processes never serve from one database, however the start of one met
\* the lock, and whatever was killed before (acquire_instance_lock and run:
\* "Never run without the lock").
OneServes == Cardinality({p \in Procs : At(p, {"serving"})}) <= 1

\* What a serving process admits tenants by is the manifest it read, whole:
\* nothing is left of an earlier manifest, of a start that failed half-way
\* through another one, or of one that found the database taken.  The one
\* exception is a start whose lock was put off.
TenantsTrusted ==
  \A p \in Procs : At(p, {"serving"}) /\ ~outside => config = Reconciled(proc[p].manifest)

\* Of a request there is one audit event, though the migration looks for it
\* and appends in two steps, starts are killed between them, and the threads
\* of a process that stopped still write while its successor migrates.
AuditOnce == \A id \in Ids : logged[id] > 1 => outside

\* Once a start has migrated, every record it found that the log accepts has
\* its event: no page skips one, and no killed start leaves one behind.
HistoryMigrated ==
  \A p \in Procs : At(p, {"relocking", "serving"}) =>
    \A id \in proc[p].seen \cap Compatible : logged[id] > 0

\* An audit that reached the old store alone was refused by the log: of a
\* request cut off half-way the event is what survives, so queries, which
\* read only the log, miss nothing that the old store shows.
EventFirst == \A id \in records \ Legacy : logged[id] = 0 => id \in lost

\* A start ends - serving, or refused - and its paging does too, though rows
\* the log does not accept stay in the old store for ever and the threads of
\* another process may still add some.
StartSettles == \A p \in Procs : At(p, Booting) ~> ~At(p, Booting)
\* One process serves, by the tenants of the manifest it read and no others.
OneServer == StorageTypeOK /\ OneServes /\ TenantsTrusted

\* The event log has every audit, once: the old ones when a start is through,
\* and of a request no less than the old store.
AuditsComplete == AuditOnce /\ HistoryMigrated /\ EventFirst
=============================================================================
