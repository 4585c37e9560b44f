--------------------------- MODULE WarehouseAccess ---------------------------
(***************************************************************************)
(* One managed warehouse, kept in step with ClickHouse by any number of    *)
(* API replicas.  Postgres holds the row (provisioner, sync_status) and    *)
(* the access the admins asked for; ClickHouse holds the access in force;  *)
(* each replica holds a pooled session of a user, with the roles that      *)
(* ClickHouse gave it at login, and a worker that reconciles.              *)
(*                                                                         *)
(* The access of the one user is the set of roles the user is a member of, *)
(* or Absent.  The worker of a replica is CoalescedSync, implemented by    *)
(* SyncService: it owes a run, or not; that a second run may be owed adds  *)
(* nothing to a run that a Tick asks for.  Left out: master-key rotation   *)
(* and the password statements (the key never changes), the kill switch    *)
(* (management is on), and a run that outlives its lock connection.        *)
(***************************************************************************)
EXTENDS Naturals, FiniteSets

CONSTANTS
  Replicas,     \* API processes
  Serving,      \* those whose queries and pools are looked at
  Roles,        \* the warehouse roles the user may be a member of
  MaxAttempts,  \* SyncConfig.MaxAttempts
  MaxChanges,   \* bound: admin changes and foreign drift
  MaxFaults,    \* bound: failures, crashes and lost messages
  Deleter,      \* the delete handler as the owner of the lock
  Absent,       \* the user has no ClickHouse identity
  None

ASSUME AttemptsAssumption == MaxAttempts \in Nat \ {0}
ASSUME BoundsAssumption == MaxChanges \in Nat /\ MaxFaults \in Nat
ASSUME ServingAssumption == Serving \subseteq Replicas
ASSUME NamesAssumption ==
  {Deleter, None} \cap Replicas = {} /\ Deleter # None /\ \A R \in SUBSET Roles : Absent # R

VARIABLES
  row,          \* the warehouses row exists
  provisioner,  \* provisioner_connector_id IS NOT NULL
  linked,       \* that connector is live and belongs to the warehouse
  status,       \* sync_status
  fp,           \* applied_master_fp IS NOT NULL
  desired,      \* the access that members, groups and grants ask for
  actual,       \* the access in force in ClickHouse
  foreign,      \* there are wildcards or unexpected grants in ClickHouse
  lock,         \* the holder of the advisory lock
  owed,         \* replicas whose worker owes a run that has not started
  run,          \* the run of each replica
  del,          \* the delete handler in progress
  gated,        \* replicas with a query past the sync_status gate
  session,      \* the resident pooled session of each replica
  inbox,        \* replicas with an undelivered invalidation
  missed,       \* history: a change, or a repair, that no run was left for
  changes, faults

house  == <<actual, foreign>>
pools  == <<gated, session, inbox>>
bounds == <<changes, faults>>
vars   == <<row, provisioner, linked, status, fp, desired, house, lock, owed, run,
            del, pools, missed, bounds>>

Access == {Absent} \cup SUBSET Roles
Statement == {"create", "drop"} \X {Absent} \cup {"grant", "revoke"} \X Roles

NoRun     == [at |-> "idle", attempt |-> 0, prov |-> FALSE, want |-> Absent, todo |-> {}]
NoDelete  == [at |-> "none", by |-> None, revoked |-> FALSE]
NoSession == [open |-> FALSE, roles |-> {}, late |-> FALSE, deaf |-> FALSE]

Init ==
  /\ row = TRUE /\ provisioner = TRUE /\ linked = TRUE
  /\ status = "pending" /\ fp = FALSE
  /\ desired \in SUBSET Roles
  /\ actual = Absent /\ foreign = FALSE
  /\ lock = None
  /\ owed = Replicas                   \* the startup enqueue
  /\ run = [r \in Replicas |-> NoRun]
  /\ del = NoDelete
  /\ gated = {} /\ inbox = {}
  /\ session = [r \in Serving |-> NoSession]
  /\ missed = FALSE /\ changes = 0 /\ faults = 0

Change == changes < MaxChanges /\ changes' = changes + 1
Fault  == faults < MaxFaults /\ faults' = faults + 1
-----------------------------------------------------------------------------
(* Admin changes: a transaction, then an enqueue on the serving replica.    *)

(* Mutant for ReadyIsCurrent: the handler asks for no run. *)
ChangeAccessUntriggered(r, d) ==
  /\ row /\ d # desired /\ Change
  /\ desired' = d
  /\ UNCHANGED <<row, provisioner, linked, status, fp, house, lock, owed, run, del, pools,
                 missed, faults>>

(* A membership or grant change.  The trigger's lookup is best-effort: when *)
(* it fails, no run is owed for the change.                                 *)
ChangeAccess(r, d) ==
  /\ row /\ d # desired /\ Change
  /\ desired' = d
  /\ \/ owed' = owed \cup {r} /\ UNCHANGED <<missed, faults>>
     \/ Fault /\ missed' = TRUE /\ UNCHANGED owed
  /\ UNCHANGED <<row, provisioner, linked, status, fp, house, lock, run, del, pools>>

SetProvisioner(r) ==
  /\ row /\ ~provisioner /\ Change
  /\ provisioner' = TRUE /\ linked' = TRUE /\ status' = "pending"
  /\ owed' = owed \cup {r}
  /\ UNCHANGED <<row, fp, desired, house, lock, run, del, pools, missed, faults>>

(* An update that clears the provisioner enqueues nothing. *)
ClearProvisioner ==
  /\ row /\ provisioner /\ Change
  /\ provisioner' = FALSE /\ status' = "pending"
  /\ UNCHANGED <<row, linked, fp, desired, house, lock, owed, run, del, pools, missed, faults>>

(* The provisioner connector is deleted or moved to another warehouse: this *)
(* one loses it, and a run is asked for at once.                            *)
LoseProvisioner(r) ==
  /\ row /\ provisioner /\ Change
  /\ provisioner' = FALSE /\ linked' = FALSE /\ status' = "pending"
  /\ owed' = owed \cup {r}
  /\ UNCHANGED <<row, fp, desired, house, lock, run, del, pools, missed, faults>>

(* A wildcard or a foreign grant appears in ClickHouse, or goes away. *)
Drift ==
  /\ Change
  /\ foreign' = ~foreign
  /\ UNCHANGED <<row, provisioner, linked, status, fp, desired, actual, lock, owed, run,
                 del, pools, missed, faults>>
-----------------------------------------------------------------------------
(* Invalidation: the own pool first, then a broadcast that reaches every    *)
(* subscriber, the own one too, or only some when Redis or a subscriber is  *)
(* down.  deaf is history: the session was open and heard of nothing.       *)

(* Mutant for NoStaleSession: the broadcast is left out. *)
InvalidatedHere(r) ==
  /\ session' = [q \in Serving |-> IF q = r THEN NoSession ELSE session[q]]
  /\ UNCHANGED <<inbox, faults>>

Invalidated(r) ==
  \E heard \in SUBSET Serving :
    /\ IF heard = Serving THEN UNCHANGED faults ELSE Fault
    /\ inbox' = inbox \cup heard
    /\ session' = [q \in Serving |->
         IF q = r THEN NoSession
         ELSE [session[q] EXCEPT !.deaf = @ \/ (session[q].open /\ q \notin heard \cup inbox)]]

Deliver(r) ==
  /\ r \in inbox
  /\ inbox' = inbox \ {r}
  /\ session' = [session EXCEPT ![r] = NoSession]
  /\ UNCHANGED <<row, provisioner, linked, status, fp, desired, house, lock, owed, run,
                 del, gated, missed, bounds>>
-----------------------------------------------------------------------------
(* reconcileWarehouse on the worker of one replica. *)

At(r, here) == run[r].at = here
Step(r, to) == run' = [run EXCEPT ![r].at = to]

(* Mutant for TypeOK: one attempt too many. *)
GivesUpLate(r) == run[r].attempt > MaxAttempts

(* A run that fails is tried again until the attempts are used up. *)
GivesUp(r) == run[r].attempt = MaxAttempts
Done(r)    == run' = [run EXCEPT ![r] = NoRun]
Failed(r)  ==
  /\ run' = [run EXCEPT ![r] = IF GivesUp(r) THEN NoRun
                               ELSE [NoRun EXCEPT !.at = "retry", !.attempt = run[r].attempt]]
  /\ missed' = (missed \/ GivesUp(r))

(* The deferred unlock. *)
Released(r) == lock' = IF lock = r THEN None ELSE lock

(* failWarehouseSync: the status is written if the row is there. *)
Fail(r) ==
  /\ status' = IF row THEN "error" ELSE status
  /\ Released(r)
  /\ Failed(r)

(* A run or a retry starts and loads the warehouse header, before the lock. *)
Starting(r) ==
  \/ At(r, "idle") /\ r \in owed /\ owed' = owed \ {r}
  \/ At(r, "retry") /\ UNCHANGED owed

LoadHeader(r) ==
  /\ Starting(r) /\ row
  /\ run' = [run EXCEPT ![r].at = "header", ![r].attempt = @ + 1, ![r].prov = provisioner]
  /\ UNCHANGED <<row, provisioner, linked, status, fp, desired, house, lock, del, pools,
                 missed, bounds>>

(* The row is gone, or the header or the lock cannot be read: an error, but *)
(* no status is written.                                                    *)
HeaderFails(r) ==
  /\ Starting(r)
  /\ IF row THEN Fault ELSE UNCHANGED faults
  /\ LET last == run[r].attempt + 1 = MaxAttempts IN
       /\ run' = [run EXCEPT ![r] = IF last THEN NoRun ELSE
                    [NoRun EXCEPT !.at = "retry", !.attempt = run[r].attempt + 1]]
       /\ missed' = (missed \/ last)
  /\ UNCHANGED <<row, provisioner, linked, status, fp, desired, house, lock, del, pools, changes>>

(* Mutant for GateClosedWhileApplying: the lock is not exclusive. *)
TakeLockShared(r) ==
  /\ At(r, "header")
  /\ lock' = r
  /\ Step(r, "locked")
  /\ UNCHANGED <<row, provisioner, linked, status, fp, desired, house, owed, del, pools,
                 missed, bounds>>

TakeLock(r) ==
  /\ At(r, "header") /\ lock = None
  /\ lock' = r
  /\ Step(r, "locked")
  /\ UNCHANGED <<row, provisioner, linked, status, fp, desired, house, owed, del, pools,
                 missed, bounds>>

(* Another session holds the lock: the run is skipped, and counts as done.  *)
SkipLocked(r) ==
  /\ At(r, "header") /\ lock # None
  /\ Done(r)
  /\ missed' = TRUE
  /\ UNCHANGED <<row, provisioner, linked, status, fp, desired, house, lock, owed, del,
                 pools, bounds>>

(* loadProvisionerConfig: the header's provisioner, validated again.        *)
LoadProvisioner(r) ==
  /\ At(r, "locked") /\ run[r].prov /\ linked
  /\ Step(r, "config")
  /\ UNCHANGED <<row, provisioner, linked, status, fp, desired, house, lock, owed, del,
                 pools, missed, bounds>>

ProvisionerMissing(r) ==
  /\ At(r, "locked") /\ ~(run[r].prov /\ linked)
  /\ Fail(r)
  /\ UNCHANGED <<row, provisioner, linked, fp, desired, house, owed, del, pools, bounds>>

SetSyncing(r) ==
  /\ At(r, "config") /\ row
  /\ status' = "syncing"
  /\ Step(r, "syncing")
  /\ UNCHANGED <<row, provisioner, linked, fp, desired, house, lock, owed, del, pools,
                 missed, bounds>>

(* loadWarehouseDesiredState: whatever was asked for until now is seen.     *)
ReadDesired(r) ==
  /\ At(r, "syncing")
  /\ run' = [run EXCEPT ![r].at = "observe", ![r].want = desired]
  /\ missed' = FALSE
  /\ UNCHANGED <<row, provisioner, linked, status, fp, desired, house, lock, owed, del,
                 pools, bounds>>

(* chaccess.Statements: what separates the observed access from the wanted. *)
Statements(d, a) ==
  LET held == IF a = Absent THEN {} ELSE a IN
  IF d = Absent
  THEN IF a = Absent THEN {} ELSE {<<"drop", Absent>>}
  ELSE (IF a = Absent THEN {<<"create", Absent>>} ELSE {})
         \cup {"grant"} \X (d \ held) \cup {"revoke"} \X (held \ d)

ReadActual(r) ==
  /\ At(r, "observe") /\ ~foreign
  /\ LET plan == Statements(run[r].want, actual) IN
       run' = [run EXCEPT ![r].todo = plan,
                          ![r].at = IF plan = {} THEN "applied" ELSE "planned"]
  /\ UNCHANGED <<row, provisioner, linked, status, fp, desired, house, lock, owed, del,
                 pools, missed, bounds>>

(* Foreign grants: the sessions of the identities seen are dropped, and the *)
(* run fails closed.                                                        *)
FailClosed(r) ==
  /\ At(r, "observe") /\ foreign
  /\ IF actual = Absent THEN UNCHANGED <<inbox, session, faults>> ELSE Invalidated(r)
  /\ Fail(r)
  /\ UNCHANGED <<row, provisioner, linked, fp, desired, house, owed, del, gated, changes>>

(* A plan that changes anything drops the sessions before it is executed.   *)
InvalidateFirst(r) ==
  /\ At(r, "planned")
  /\ Invalidated(r)
  /\ Step(r, "apply")
  /\ UNCHANGED <<row, provisioner, linked, status, fp, desired, house, lock, owed, del,
                 gated, missed, changes>>

Effect(s, a) ==
  CASE s[1] = "create" -> {}
    [] s[1] = "drop"   -> Absent
    [] s[1] = "grant"  -> a \cup {s[2]}
    [] s[1] = "revoke" -> a \ {s[2]}

(* One statement, users before their roles. *)
ExecStatement(r) ==
  /\ At(r, "apply")
  /\ \E s \in run[r].todo :
       /\ <<"create", Absent>> \in run[r].todo => s = <<"create", Absent>>
       /\ s[1] \in {"grant", "revoke"} => actual # Absent
       /\ actual' = Effect(s, actual)
       /\ run' = [run EXCEPT ![r].todo = @ \ {s},
                             ![r].at = IF run[r].todo = {s} THEN "applied" ELSE "apply"]
  /\ UNCHANGED <<row, provisioner, linked, status, fp, desired, foreign, lock, owed, del,
                 pools, missed, bounds>>

SetReady(r) ==
  /\ At(r, "applied") /\ row
  /\ status' = "ready" /\ fp' = TRUE
  /\ Released(r)
  /\ Done(r)
  /\ UNCHANGED <<row, provisioner, linked, desired, house, owed, del, pools, missed, bounds>>

(* A status write fails, or finds no row. *)
StatusWriteFails(r) ==
  /\ run[r].at \in {"config", "applied"}
  /\ IF row THEN Fault ELSE UNCHANGED faults
  /\ Released(r) /\ Failed(r)
  /\ UNCHANGED <<row, provisioner, linked, status, fp, desired, house, owed, del, pools,
                 changes>>

(* A connection, a query or a statement fails, and perhaps the status write *)
(* that would have recorded it.                                             *)
RunFails(r) ==
  /\ run[r].at \in {"locked", "syncing", "observe", "apply"} /\ row /\ Fault
  /\ status' \in {status, "error"}
  /\ Released(r) /\ Failed(r)
  /\ UNCHANGED <<row, provisioner, linked, fp, desired, house, owed, del, pools, changes>>

(* Mutant for AccessConverges: the loop asks only for the healthy ones. *)
TickReady(r) ==
  /\ row /\ provisioner /\ status = "ready" /\ r \notin owed
  /\ owed' = owed \cup {r}
  /\ UNCHANGED <<row, provisioner, linked, status, fp, desired, house, lock, run, del,
                 pools, missed, bounds>>

(* enqueueAllWarehouses: only a warehouse with a provisioner.               *)
Tick(r) ==
  /\ row /\ provisioner /\ r \notin owed
  /\ owed' = owed \cup {r}
  /\ UNCHANGED <<row, provisioner, linked, status, fp, desired, house, lock, run, del,
                 pools, missed, bounds>>
-----------------------------------------------------------------------------
(* handleDeleteWarehouse: under the same lock, revoke everything, then      *)
(* delete the row.                                                          *)

DelStep(to) == del' = [del EXCEPT !.at = to]

(* Mutant for NoOrphanOnceProvisioned: no refusal without a provisioner. *)
DeleteBeginUnrefused(r) ==
  /\ del.at = "none" /\ row /\ lock = None /\ Change
  /\ lock' = Deleter
  /\ del' = [at |-> IF provisioner THEN "drop" ELSE "row", by |-> r, revoked |-> FALSE]
  /\ UNCHANGED <<row, provisioner, linked, status, fp, desired, house, owed, run, pools,
                 missed, faults>>

(* Without a provisioner the handler refuses if identities were ever        *)
(* provisioned, going by applied_master_fp.                                 *)
DeleteBegin(r) ==
  /\ del.at = "none" /\ row /\ lock = None /\ Change
  /\ provisioner \/ ~fp
  /\ lock' = Deleter
  /\ del' = [at |-> IF provisioner THEN "drop" ELSE "row", by |-> r, revoked |-> FALSE]
  /\ UNCHANGED <<row, provisioner, linked, status, fp, desired, house, owed, run, pools,
                 missed, faults>>

DeleteDrop ==
  /\ del.at = "drop" /\ linked
  /\ actual' = Absent
  /\ del' = [del EXCEPT !.at = IF actual = Absent THEN "row" ELSE "invalidate",
                        !.revoked = actual # Absent]
  /\ UNCHANGED <<row, provisioner, linked, status, fp, desired, foreign, lock, owed, run,
                 pools, missed, bounds>>

DeleteInvalidate ==
  /\ del.at = "invalidate"
  /\ Invalidated(del.by)
  /\ DelStep("row")
  /\ UNCHANGED <<row, provisioner, linked, status, fp, desired, house, lock, owed, run,
                 gated, missed, changes>>

DeleteRow ==
  /\ del.at = "row"
  /\ row' = FALSE /\ provisioner' = FALSE /\ linked' = FALSE
  /\ lock' = None
  /\ del' = NoDelete
  /\ UNCHANGED <<status, fp, desired, house, owed, run, pools, missed, bounds>>

(* The sessions that are open now will hear of no invalidation. *)
Unheard(q) == [q EXCEPT !.deaf = @ \/ q.open]

(* The revocation cannot start, or fails after some statements: the users   *)
(* go before their roles, so the access may be gone with no pool told.      *)
DropFails ==
  /\ del.at = "drop"
  /\ IF linked THEN Fault ELSE UNCHANGED faults
  /\ \/ UNCHANGED <<actual, session>>
     \/ linked /\ actual' = Absent
        /\ session' = [q \in Serving |-> Unheard(session[q])]
  /\ lock' = None
  /\ DelStep("restore")
  /\ UNCHANGED <<row, provisioner, linked, status, fp, desired, foreign, owed, run, gated,
                 inbox, missed, changes>>

(* A connector was linked since the count: what was revoked is restored.    *)
DeleteRefused ==
  /\ del.at = "row"
  /\ lock' = None
  /\ IF del.revoked THEN DelStep("restore") ELSE del' = NoDelete
  /\ UNCHANGED <<row, provisioner, linked, status, fp, desired, house, owed, run, pools,
                 missed, bounds>>

(* The transaction fails: nothing is restored. *)
DeleteRowFails ==
  /\ del.at = "row" /\ Fault
  /\ lock' = None
  /\ missed' = (missed \/ del.revoked)
  /\ del' = NoDelete
  /\ UNCHANGED <<row, provisioner, linked, status, fp, desired, house, owed, run, pools,
                 changes>>

(* setWarehouseSyncPending and the enqueue, or neither.                     *)
DeleteRestore ==
  /\ del.at = "restore"
  /\ \/ status' = "pending" /\ owed' = owed \cup {del.by} /\ UNCHANGED <<missed, faults>>
     \/ Fault /\ missed' = TRUE /\ UNCHANGED <<status, owed>>
  /\ del' = NoDelete
  /\ UNCHANGED <<row, provisioner, linked, fp, desired, house, lock, run, pools, changes>>

Delete ==
  \/ DeleteDrop \/ DropFails \/ DeleteInvalidate
  \/ DeleteRow \/ DeleteRefused \/ DeleteRowFails \/ DeleteRestore
-----------------------------------------------------------------------------
(* A process dies and is started again: the connection that holds its lock  *)
(* closes, what its worker owed and its pool are gone, and the startup      *)
(* enqueue runs.                                                            *)
Restart(r) ==
  /\ Fault
  /\ lock' = IF lock = r \/ (lock = Deleter /\ del.by = r) THEN None ELSE lock
  /\ del' = IF del.by = r THEN NoDelete ELSE del
  /\ owed' = IF row /\ provisioner THEN owed \cup {r} ELSE owed \ {r}
  /\ Done(r)
  /\ missed' = (missed \/ r \in owed \/ ~At(r, "idle") \/ del.by = r)
  /\ session' = [q \in Serving |->
       IF q = r THEN NoSession
       ELSE IF del.at = "invalidate" /\ del.by = r THEN Unheard(session[q])
       ELSE session[q]]
  /\ inbox' = inbox \ {r} /\ gated' = gated \ {r}
  /\ UNCHANGED <<row, provisioner, linked, status, fp, desired, house, changes>>
-----------------------------------------------------------------------------
(* A query: resolveExecutionTarget's gate, and later the pooled connection. *)

PassGate(r) ==
  /\ row /\ status = "ready" /\ r \notin gated
  /\ gated' = gated \cup {r}
  /\ UNCHANGED <<row, provisioner, linked, status, fp, desired, house, lock, owed, run,
                 del, session, inbox, missed, bounds>>

(* The resident session, or a login with the roles in force (or refused).   *)
(* late is history: the gate would not be passed now.                       *)
UseSession(r) ==
  /\ r \in gated
  /\ gated' = gated \ {r}
  /\ session' = IF session[r].open \/ actual = Absent THEN session ELSE
       [session EXCEPT ![r] = [open |-> TRUE, roles |-> actual,
                               late |-> ~(row /\ status = "ready"), deaf |-> FALSE]]
  /\ UNCHANGED <<row, provisioner, linked, status, fp, desired, house, lock, owed, run,
                 del, inbox, missed, bounds>>

(* Idle sweep or eviction. *)
CloseIdle(r) ==
  /\ session[r].open
  /\ session' = [session EXCEPT ![r] = NoSession]
  /\ UNCHANGED <<row, provisioner, linked, status, fp, desired, house, lock, owed, run,
                 del, gated, inbox, missed, bounds>>
-----------------------------------------------------------------------------
RunStep(r) ==
  \/ LoadHeader(r) \/ HeaderFails(r) \/ TakeLock(r) \/ SkipLocked(r)
  \/ LoadProvisioner(r) \/ ProvisionerMissing(r) \/ SetSyncing(r) \/ ReadDesired(r)
  \/ ReadActual(r) \/ FailClosed(r) \/ InvalidateFirst(r) \/ ExecStatement(r)
  \/ SetReady(r) \/ StatusWriteFails(r) \/ RunFails(r)

Admin(r) ==
  \/ \E d \in Access : ChangeAccess(r, d)
  \/ SetProvisioner(r) \/ LoseProvisioner(r) \/ DeleteBegin(r)

Quiet ==
  /\ lock = None /\ owed = {} /\ inbox = {} /\ del = NoDelete
  /\ \A r \in Replicas : run[r] = NoRun

(* Nothing to do until somebody asks. *)
Idle == Quiet /\ UNCHANGED vars

Next ==
  \/ \E r \in Replicas :
       Admin(r) \/ RunStep(r) \/ Tick(r) \/ Restart(r)
  \/ \E r \in Serving :
       Deliver(r) \/ PassGate(r) \/ UseSession(r) \/ CloseIdle(r)
  \/ ClearProvisioner \/ Drift \/ Delete \/ Idle

Spec == Init /\ [][Next]_vars

(* A worker goes on with the runs it owes (SyncService!FairSpec), the       *)
(* periodic loop ticks, messages in flight arrive and a delete goes on.     *)
(* Nobody has to change, to query or to fail.                               *)
Fairness ==
  /\ \A r \in Replicas : WF_vars(RunStep(r)) /\ WF_vars(Tick(r))
  /\ \A r \in Serving : WF_vars(Deliver(r))
  /\ WF_vars(Delete)

FairSpec == Spec /\ Fairness
-----------------------------------------------------------------------------
TypeOK ==
  /\ row \in BOOLEAN /\ provisioner \in BOOLEAN /\ linked \in BOOLEAN
  /\ status \in {"pending", "syncing", "ready", "error"} /\ fp \in BOOLEAN
  /\ desired \in Access /\ actual \in Access /\ foreign \in BOOLEAN
  /\ lock \in Replicas \cup {Deleter, None}
  /\ owed \subseteq Replicas /\ gated \subseteq Serving /\ inbox \subseteq Serving
  /\ run \in [Replicas ->
       [at : {"idle", "retry", "header", "locked", "config", "syncing", "observe",
              "planned", "apply", "applied"},
        attempt : 0..MaxAttempts, prov : BOOLEAN, want : Access, todo : SUBSET Statement]]
  /\ del \in [at : {"none", "drop", "invalidate", "row", "restore"},
              by : Replicas \cup {None}, revoked : BOOLEAN]
  /\ session \in [Serving -> [open : BOOLEAN, roles : SUBSET Roles,
                               late : BOOLEAN, deaf : BOOLEAN]]
  /\ missed \in BOOLEAN /\ changes \in 0..MaxChanges /\ faults \in 0..MaxFaults

Held == IF actual = Absent THEN {} ELSE actual

(* Nobody passes the sync_status gate while a run is about to change, or is *)
(* changing, the access in ClickHouse, whatever admins, deletes, crashes    *)
(* and the runs of other replicas write to the status meanwhile.            *)
GateClosedWhileApplying ==
  \A r \in Replicas :
    run[r].at \in {"syncing", "observe", "planned", "apply", "applied"} => status # "ready"

(* When nothing is in progress, a warehouse that says ready enforces what   *)
(* was last asked for, unless the run for it was lost (a failed lookup, a   *)
(* skipped run, exhausted attempts, a crash): what the periodic loop is for.*)
ReadyIsCurrent ==
  row /\ status = "ready" /\ Quiet /\ ~missed => actual = desired

(* When nothing is in progress, no resident session carries a role that its *)
(* user no longer has, unless the session was opened behind a closed gate   *)
(* or no invalidation reached it.                                           *)
NoStaleSession ==
  Quiet => \A r \in Serving :
    session[r].open => session[r].late \/ session[r].deaf \/ session[r].roles \subseteq Held

(* A delete that goes through leaves no identity behind in ClickHouse if    *)
(* any run of the warehouse ever succeeded.                                 *)
NoOrphanOnceProvisioned == ~row /\ fp => actual = Absent

(* A warehouse that lost its provisioner connector is not ready once things *)
(* are quiet: it fails closed until an operator picks a replacement.        *)
LostProvisionerFailsClosed == row /\ ~linked /\ Quiet => status # "ready"

(* A warehouse that keeps its provisioner, free of foreign grants, comes to *)
(* enforce what was asked for, and says ready again and again, whatever     *)
(* changes, crashes, failures and lost triggers came before.                *)
AccessConverges ==
  <>[](row /\ provisioner /\ linked /\ ~foreign)
    => <>[](actual = desired) /\ []<>(status = "ready")
=============================================================================
