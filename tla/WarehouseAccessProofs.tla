------------------------- MODULE WarehouseAccessProofs -------------------------
(***************************************************************************)
(* The safety invariants of WarehouseAccess, for any replicas, roles and   *)
(* attempts.  The inductive invariant says who holds the lock when, what a *)
(* run still has to do once it has read and planned, who still owes the    *)
(* warehouse a run, and which sessions have been told.                     *)
(***************************************************************************)
EXTENDS WarehouseAccess, TLAPS

Holding  == {"locked", "config", "syncing", "observe", "planned", "apply", "applied"}
Applying == {"syncing", "observe", "planned", "apply", "applied"}
Informed == {"observe", "planned", "apply", "applied"}

(* No attempt is counted before the first, and a retry has one left. *)
AttemptInv ==
  \A r \in Replicas : /\ At(r, "idle") => run[r].attempt = 0
                      /\ At(r, "retry") => run[r].attempt < MaxAttempts

(* The advisory lock is held by whoever works under it. *)
LockInv ==
  /\ \A r \in Replicas : run[r].at \in Holding => lock = r
  /\ del.at \in {"drop", "invalidate", "row"} => lock = Deleter
  /\ del.at # "none" => del.by \in Replicas

(* Nobody gets past the provisioner check of a deleted warehouse. *)
RowInv ==
  ~row => ~linked /\ \A r \in Replicas : run[r].at \notin Holding \ {"locked"}

(* A delete past its revocation finds no identity, if any was ever made.    *)
OrphanInv == ((~row \/ del.at \in {"invalidate", "row"}) /\ fp) => actual = Absent

(* The statements left are those that still separate what is from what is   *)
(* wanted.                                                                  *)
PlanInv ==
  \A r \in Replicas :
    /\ run[r].at \in {"planned", "apply"} => run[r].todo = Statements(run[r].want, actual)
    /\ At(r, "applied") => actual = run[r].want

(* A run is owed, or has started and not yet read what is asked for.        *)
Awaited == missed \/ owed # {} \/ \E r \in Replicas : run[r].at \in {"retry", "header"}

(* A delete that revoked access and may yet leave the row.                  *)
Revoking ==
  (del.at \in {"invalidate", "row"} /\ del.revoked) \/ del.at = "restore"

(* What a run has read is current, or another run will read what is.        *)
WantInv ==
  \A r \in Replicas : run[r].at \in Informed => run[r].want = desired \/ Awaited

ReadyInv ==
  /\ (row /\ status = "ready") =>
       \/ actual = desired \/ Awaited \/ Revoking
       \/ \E r \in Replicas : run[r].at \in {"locked", "config"}
  /\ del.at = "invalidate" => del.revoked

(* The sessions that an invalidation has to reach. *)
Trusted(q) == session[q].open /\ ~session[q].late /\ ~session[q].deaf

SessionInv ==
  \A q \in Serving : Trusted(q) =>
    /\ q \in inbox \/ del.at = "invalidate" \/ session[q].roles \subseteq Held
    /\ (\E r \in Replicas : At(r, "apply")) => q \in inbox

IInv ==
  /\ TypeOK /\ AttemptInv /\ LockInv
  /\ GateClosedWhileApplying /\ RowInv /\ OrphanInv
  /\ PlanInv /\ WantInv /\ ReadyInv /\ SessionInv
-----------------------------------------------------------------------------
(* What separates two accesses, and what a statement does about it.         *)
LEMMA StatementsTyped ==
  ASSUME NEW d \in Access, NEW a \in Access
  PROVE  Statements(d, a) \subseteq Statement
<1> USE NamesAssumption DEF Statements, Statement, Access
<1>1. CASE d = Absent
  BY <1>1
<1>2. CASE d # Absent /\ a = Absent
  BY <1>2
<1>3. CASE d # Absent /\ a # Absent
  BY <1>3
<1> QED
  BY <1>1, <1>2, <1>3

(* A plan is empty exactly when there is nothing to change (ddl.go).        *)
LEMMA NothingLeft ==
  ASSUME NEW d \in Access, NEW a \in Access
  PROVE  Statements(d, a) = {} <=> a = d
<1> USE NamesAssumption DEF Statements, Access
<1>1. CASE d = Absent
  BY <1>1
<1>2. CASE d # Absent /\ a = Absent
  BY <1>2
<1>3. CASE d # Absent /\ a # Absent
  <2>1. Statements(d, a) = {"grant"} \X (d \ a) \cup {"revoke"} \X (a \ d)
    BY <1>3
  <2>2. /\ \A x \in d \ a : <<"grant", x>> \in Statements(d, a)
        /\ \A x \in a \ d : <<"revoke", x>> \in Statements(d, a)
    BY <2>1
  <2>3. Statements(d, a) = {} => d \ a = {} /\ a \ d = {}
    BY <2>2
  <2>4. a = d => Statements(d, a) = {}
    BY <2>1
  <2> QED
    BY <2>3, <2>4
<1> QED
  BY <1>1, <1>2, <1>3

(* A statement that can be executed now. *)
Executable(s, d, a) ==
  /\ s \in Statements(d, a)
  /\ <<"create", Absent>> \in Statements(d, a) => s = <<"create", Absent>>
  /\ s[1] \in {"grant", "revoke"} => a # Absent

(* Executing one statement takes just that statement off the plan.          *)
LEMMA OneStatement ==
  ASSUME NEW d \in Access, NEW a \in Access, NEW s, Executable(s, d, a)
  PROVE  /\ Effect(s, a) \in Access
         /\ Statements(d, Effect(s, a)) = Statements(d, a) \ {s}
<1> USE NamesAssumption DEF Statements, Access, Executable, Effect
<1>1. CASE d = Absent
  BY <1>1
<1>2. CASE d # Absent /\ a = Absent
  <2>1. s = <<"create", Absent>>
    BY <1>2
  <2>2. Effect(s, a) = {}
    BY <2>1
  <2> QED
    BY <1>2, <2>1, <2>2
<1>3. CASE d # Absent /\ a # Absent
  <2>1. /\ d \in SUBSET Roles /\ a \in SUBSET Roles
        /\ Statements(d, a) = {"grant"} \X (d \ a) \cup {"revoke"} \X (a \ d)
    BY <1>3
  <2>2. CASE \E x \in d \ a : s = <<"grant", x>>
    <3> PICK x \in d \ a : s = <<"grant", x>>
      BY <2>2
    <3>1. Effect(s, a) = a \cup {x}
      OBVIOUS
    <3>2. /\ a \cup {x} # Absent /\ a \cup {x} \in SUBSET Roles
          /\ d \ (a \cup {x}) = (d \ a) \ {x} /\ (a \cup {x}) \ d = a \ d
      BY <2>1
    <3>3. Statements(d, a \cup {x}) = {"grant"} \X ((d \ a) \ {x}) \cup {"revoke"} \X (a \ d)
      BY <1>3, <3>2
    <3> QED
      BY <2>1, <3>1, <3>2, <3>3
  <2>3. CASE \E x \in a \ d : s = <<"revoke", x>>
    <3> PICK x \in a \ d : s = <<"revoke", x>>
      BY <2>3
    <3>1. Effect(s, a) = a \ {x}
      OBVIOUS
    <3>2. /\ a \ {x} # Absent /\ a \ {x} \in SUBSET Roles
          /\ d \ (a \ {x}) = d \ a /\ (a \ {x}) \ d = (a \ d) \ {x}
      BY <2>1
    <3>3. Statements(d, a \ {x}) = {"grant"} \X (d \ a) \cup {"revoke"} \X ((a \ d) \ {x})
      BY <1>3, <3>2
    <3> QED
      BY <2>1, <3>1, <3>2, <3>3
  <2> QED
    BY <2>1, <2>2, <2>3
<1> QED
  BY <1>1, <1>2, <1>3
-----------------------------------------------------------------------------
(* Types. *)

Places == {"idle", "retry", "header", "locked", "config", "syncing", "observe",
           "planned", "apply", "applied"}

RunType == [at : Places, attempt : 0..MaxAttempts, prov : BOOLEAN, want : Access,
            todo : SUBSET Statement]

Tries(x) == /\ x.at = "idle" => x.attempt = 0
            /\ x.at = "retry" => x.attempt < MaxAttempts

(* run, if the run of r alone has become x. *)
Becomes(r, x) == x \in RunType /\ Tries(x) /\ run' = [run EXCEPT ![r] = x]

(* An idle replica is typed.                                                *)
LEMMA NoRunTyped == NoRun \in RunType /\ Tries(NoRun)
<1>1. 0 \in 0..MaxAttempts
  BY AttemptsAssumption
<1> QED
  BY <1>1 DEF NoRun, RunType, Tries, Places, Access

(* A run that moves on keeps its type.                                      *)
LEMMA MovesOn ==
  ASSUME NEW x \in RunType, NEW to \in Places \ {"idle", "retry"}
  PROVE  [x EXCEPT !.at = to] \in RunType /\ Tries([x EXCEPT !.at = to])
BY DEF RunType, Tries, Places

(* So does one that is tried again, short of the last attempt.              *)
LEMMA TriesAgain ==
  ASSUME NEW n \in 0..MaxAttempts, n # MaxAttempts
  PROVE  LET x == [NoRun EXCEPT !.at = "retry", !.attempt = n]
         IN x \in RunType /\ Tries(x)
<1>1. n < MaxAttempts
  BY AttemptsAssumption
<1> QED
  BY <1>1 DEF NoRun, RunType, Tries, Places, Access

(* A run that fails is over or is tried again. *)
LEMMA FailedBecomes ==
  ASSUME NEW r \in Replicas, run[r] \in RunType, Failed(r)
  PROVE  \E x \in {NoRun, [NoRun EXCEPT !.at = "retry", !.attempt = run[r].attempt]} : Becomes(r, x)
<1>1. run[r].attempt \in 0..MaxAttempts
  BY DEF RunType
<1>2. CASE GivesUp(r)
  BY <1>2, NoRunTyped DEF Failed, Becomes
<1>3. CASE ~GivesUp(r)
  BY <1>1, <1>3, TriesAgain DEF Failed, GivesUp, Becomes
<1> QED
  BY <1>2, <1>3

(* Every step of a run changes the run of its replica alone, and in its type.*)
LEMMA RunBecomes ==
  ASSUME TypeOK, AttemptInv, NEW r \in Replicas, RunStep(r)
  PROVE  \E x : Becomes(r, x)
<1>1. run[r] \in RunType /\ Tries(run[r])
  BY DEF TypeOK, AttemptInv, RunType, Places, Tries, At
<1>2. ASSUME NEW to \in Places \ {"idle", "retry"}, Step(r, to)
      PROVE  \E x : Becomes(r, x)
  <2>1. run' = [run EXCEPT ![r] = [run[r] EXCEPT !.at = to]]
    BY <1>2 DEF Step
  <2> QED
    BY <1>1, <2>1, MovesOn DEF Becomes
<1>3. CASE Done(r)
  BY <1>3, NoRunTyped DEF Done, Becomes
<1>4. CASE Failed(r)
  BY <1>1, <1>4, FailedBecomes
<1>5. CASE LoadHeader(r)
  <2> DEFINE x == [run[r] EXCEPT !.at = "header", !.attempt = @ + 1, !.prov = provisioner]
  <2>1. run[r].attempt \in 0..(MaxAttempts - 1) /\ provisioner \in BOOLEAN
    BY <1>1, <1>5, AttemptsAssumption DEF LoadHeader, Starting, At, TypeOK, RunType, Tries
  <2>2. run[r].attempt + 1 \in 0..MaxAttempts
    BY <2>1, AttemptsAssumption
  <2>3. x \in RunType /\ Tries(x)
    BY <1>1, <2>1, <2>2 DEF RunType, Tries, Places
  <2>4. run' = [run EXCEPT ![r] = x]
    BY <1>5 DEF LoadHeader
  <2> QED
    BY <2>3, <2>4 DEF Becomes
<1>6. CASE HeaderFails(r)
  <2>1. run[r].attempt \in 0..(MaxAttempts - 1)
    BY <1>1, <1>6, AttemptsAssumption DEF HeaderFails, Starting, At, RunType, Tries
  <2>2. CASE run[r].attempt + 1 = MaxAttempts
    BY <1>6, <2>2, NoRunTyped DEF HeaderFails, Becomes
  <2>3. CASE run[r].attempt + 1 # MaxAttempts
    <3>1. run[r].attempt + 1 \in 0..MaxAttempts
      BY <2>1, AttemptsAssumption
    <3>2. run' = [run EXCEPT ![r] = [NoRun EXCEPT !.at = "retry", !.attempt = run[r].attempt + 1]]
      BY <1>6, <2>3 DEF HeaderFails
    <3> QED
      BY <2>3, <3>1, <3>2, TriesAgain DEF Becomes
  <2> QED
    BY <2>2, <2>3
<1>7. CASE ReadDesired(r)
  <2> DEFINE x == [run[r] EXCEPT !.at = "observe", !.want = desired]
  <2>1. x \in RunType /\ Tries(x)
    BY <1>1 DEF RunType, Tries, Places, TypeOK
  <2>2. run' = [run EXCEPT ![r] = x]
    BY <1>7 DEF ReadDesired
  <2> QED
    BY <2>1, <2>2 DEF Becomes
<1>8. CASE ReadActual(r)
  <2> DEFINE plan == Statements(run[r].want, actual)
             to   == IF plan = {} THEN "applied" ELSE "planned"
             x    == [run[r] EXCEPT !.todo = plan, !.at = to]
  <2>1. plan \in SUBSET Statement
    BY <1>1, StatementsTyped DEF RunType, TypeOK
  <2>2. run' = [run EXCEPT ![r] = x]
    BY <1>8 DEF ReadActual
  <2>3. to \in {"applied", "planned"}
    OBVIOUS
  <2> HIDE DEF plan, to
  <2>4. x \in RunType /\ Tries(x)
    BY <1>1, <2>1, <2>3 DEF RunType, Tries, Places
  <2> QED
    BY <2>2, <2>4 DEF Becomes
<1>9. CASE ExecStatement(r)
  <2> PICK s \in run[r].todo :
        run' = [run EXCEPT ![r].todo = @ \ {s},
                           ![r].at = IF run[r].todo = {s} THEN "applied" ELSE "apply"]
    BY <1>9 DEF ExecStatement
  <2> DEFINE to == IF run[r].todo = {s} THEN "applied" ELSE "apply"
             x  == [run[r] EXCEPT !.todo = @ \ {s}, !.at = to]
  <2>1. run' = [run EXCEPT ![r] = x]
    OBVIOUS
  <2>2. to \in {"applied", "apply"}
    OBVIOUS
  <2> HIDE DEF to
  <2>3. x \in RunType /\ Tries(x)
    BY <1>1, <2>2 DEF RunType, Tries, Places
  <2> QED
    BY <2>1, <2>3 DEF Becomes
<1>10. TakeLock(r) \/ LoadProvisioner(r) \/ SetSyncing(r) \/ InvalidateFirst(r)
         => \E to \in {"locked", "config", "syncing", "apply"} : Step(r, to)
  BY DEF TakeLock, LoadProvisioner, SetSyncing, InvalidateFirst
<1>11. SkipLocked(r) \/ SetReady(r) => Done(r)
  BY DEF SkipLocked, SetReady
<1>12. ProvisionerMissing(r) \/ FailClosed(r) \/ StatusWriteFails(r) \/ RunFails(r) => Failed(r)
  BY DEF ProvisionerMissing, FailClosed, StatusWriteFails, RunFails, Fail
<1> QED
  BY <1>2, <1>3, <1>4, <1>5, <1>6, <1>7, <1>8, <1>9, <1>10, <1>11, <1>12 DEF RunStep, Places

(* Each step keeps the runs typed and their attempts bounded.               *)
LEMMA RunTypeStep ==
  ASSUME TypeOK, AttemptInv, [Next]_vars
  PROVE  run' \in [Replicas -> RunType] /\ AttemptInv'
<1>1. run \in [Replicas -> RunType]
  BY DEF TypeOK, RunType, Places
<1>2. ASSUME NEW r \in Replicas, \E x : Becomes(r, x)
      PROVE  run' \in [Replicas -> RunType] /\ AttemptInv'
  BY <1>1, <1>2 DEF Becomes, AttemptInv, Tries, At
<1>3. ASSUME NEW r \in Replicas, Restart(r)
      PROVE  \E x : Becomes(r, x)
  BY <1>3, NoRunTyped DEF Restart, Done, Becomes
<1>4. CASE UNCHANGED run
  BY <1>1, <1>4 DEF AttemptInv, At
<1>5. ASSUME NEW r \in Replicas, RunStep(r)
      PROVE  \E x : Becomes(r, x)
  BY <1>5, RunBecomes
<1>6. UNCHANGED run \/ \E r \in Replicas : RunStep(r) \/ Restart(r)
  BY DEF Next, Admin, ChangeAccess, SetProvisioner, LoseProvisioner, DeleteBegin, Tick,
         Deliver, PassGate, UseSession, CloseIdle, ClearProvisioner, Drift, Delete,
         DeleteDrop, DropFails, DeleteInvalidate, DeleteRow, DeleteRefused,
         DeleteRowFails, DeleteRestore, Idle, vars
<1> QED
  BY <1>2, <1>3, <1>4, <1>5, <1>6

SessionType == [open : BOOLEAN, roles : SUBSET Roles, late : BOOLEAN, deaf : BOOLEAN]

(* Each step keeps the sessions typed.                                      *)
LEMMA SessionTypeStep ==
  ASSUME TypeOK, [Next]_vars
  PROVE  session' \in [Serving -> SessionType]
<1> USE DEF SessionType
<1>1. session \in [Serving -> SessionType] /\ actual \in Access
  BY DEF TypeOK
<1>2. NoSession \in SessionType
  BY DEF NoSession
<1>3. ASSUME NEW r, Invalidated(r)
      PROVE  session' \in [Serving -> SessionType]
  <2>1. \A q \in Serving, b \in BOOLEAN : [session[q] EXCEPT !.deaf = b] \in SessionType
    BY <1>1
  <2> QED
    BY <1>2, <1>3, <2>1, <1>1 DEF Invalidated
<1>4. \A q \in Serving : Unheard(session[q]) \in SessionType
  BY <1>1 DEF Unheard
<1>5. ASSUME NEW r \in Serving, UseSession(r)
      PROVE  session' \in [Serving -> SessionType]
  <2> DEFINE new == [open |-> TRUE, roles |-> actual,
                     late |-> ~(row /\ status = "ready"), deaf |-> FALSE]
  <2>1. actual # Absent => new \in SessionType
    BY <1>1 DEF Access
  <2>2. session' = session \/ (actual # Absent /\ session' = [session EXCEPT ![r] = new])
    BY <1>5 DEF UseSession
  <2> HIDE DEF new, SessionType
  <2> QED
    BY <1>1, <2>1, <2>2
<1>6. ASSUME NEW r \in Serving, Deliver(r) \/ CloseIdle(r)
      PROVE  session' \in [Serving -> SessionType]
  BY <1>1, <1>2, <1>6 DEF Deliver, CloseIdle
<1>7. ASSUME NEW r \in Replicas, Restart(r)
      PROVE  session' \in [Serving -> SessionType]
  BY <1>1, <1>2, <1>4, <1>7 DEF Restart
<1>8. CASE DropFails
  BY <1>1, <1>4, <1>8 DEF DropFails
<1>9. \/ UNCHANGED session \/ DropFails
      \/ \E r : Invalidated(r)
      \/ \E r \in Serving : Deliver(r) \/ CloseIdle(r) \/ UseSession(r)
      \/ \E r \in Replicas : Restart(r)
  <2>1. ASSUME NEW r \in Replicas, Admin(r) \/ Tick(r)
        PROVE  UNCHANGED session
    BY <2>1 DEF Admin, ChangeAccess, SetProvisioner, LoseProvisioner, DeleteBegin, Tick, pools
  <2>2. ASSUME NEW r \in Replicas, RunStep(r)
        PROVE  UNCHANGED session \/ \E q : Invalidated(q)
    <3>1. CASE FailClosed(r) \/ InvalidateFirst(r)
      BY <3>1 DEF FailClosed, InvalidateFirst, pools
    <3>2. CASE LoadHeader(r) \/ HeaderFails(r) \/ TakeLock(r) \/ SkipLocked(r)
               \/ LoadProvisioner(r) \/ ProvisionerMissing(r) \/ SetSyncing(r)
      BY <3>2 DEF LoadHeader, HeaderFails, TakeLock, SkipLocked, LoadProvisioner,
                  ProvisionerMissing, SetSyncing, pools
    <3>3. CASE ReadDesired(r) \/ ReadActual(r) \/ ExecStatement(r) \/ SetReady(r)
               \/ StatusWriteFails(r) \/ RunFails(r)
      BY <3>3 DEF ReadDesired, ReadActual, ExecStatement, SetReady, StatusWriteFails,
                  RunFails, pools
    <3> QED
      BY <2>2, <3>1, <3>2, <3>3 DEF RunStep
  <2>3. ASSUME Delete
        PROVE  UNCHANGED session \/ DropFails \/ \E q : Invalidated(q)
    BY <2>3 DEF Delete, DeleteDrop, DeleteInvalidate, DeleteRow, DeleteRefused,
                DeleteRowFails, DeleteRestore, pools
  <2>4. ASSUME NEW r \in Serving, PassGate(r)
        PROVE  UNCHANGED session
    BY <2>4 DEF PassGate
  <2>5. ASSUME ClearProvisioner \/ Drift \/ Idle \/ UNCHANGED vars
        PROVE  UNCHANGED session
    BY <2>5 DEF ClearProvisioner, Drift, Idle, vars, pools
  <2> QED
    BY <2>1, <2>2, <2>3, <2>4, <2>5 DEF Next
<1> HIDE DEF SessionType
<1> QED
  BY <1>1, <1>3, <1>5, <1>6, <1>7, <1>8, <1>9

DeleteType == [at : {"none", "drop", "invalidate", "row", "restore"},
               by : Replicas \cup {None}, revoked : BOOLEAN]

Scalars ==
  /\ row \in BOOLEAN /\ provisioner \in BOOLEAN /\ linked \in BOOLEAN
  /\ status \in {"pending", "syncing", "ready", "error"} /\ fp \in BOOLEAN
  /\ desired \in Access /\ actual \in Access /\ foreign \in BOOLEAN
  /\ lock \in Replicas \cup {Deleter, None}
  /\ owed \subseteq Replicas /\ gated \subseteq Serving /\ inbox \subseteq Serving
  /\ del \in DeleteType
  /\ missed \in BOOLEAN /\ changes \in 0..MaxChanges /\ faults \in 0..MaxFaults

(* Each step keeps the other variables typed.                               *)
LEMMA ScalarTypeStep ==
  ASSUME TypeOK, LockInv, PlanInv, [Next]_vars
  PROVE  Scalars'
<1> Scalars /\ Absent \in Access
  BY DEF TypeOK, Scalars, DeleteType, Access
<1> Change => /\ changes' \in 0..MaxChanges
  BY BoundsAssumption DEF Change, Scalars
<1> Fault => faults' \in 0..MaxFaults
  BY BoundsAssumption DEF Fault, Scalars
<1> USE ServingAssumption
<1>1. ASSUME NEW r \in Replicas, NEW d \in Access, ChangeAccess(r, d) PROVE Scalars'
  BY <1>1 DEF ChangeAccess, Scalars, vars, house, pools, bounds
<1>2. ASSUME NEW r \in Replicas, SetProvisioner(r) PROVE Scalars'
  BY <1>2 DEF SetProvisioner, Scalars, vars, house, pools, bounds
<1>3. ASSUME NEW r \in Replicas, LoseProvisioner(r) PROVE Scalars'
  BY <1>3 DEF LoseProvisioner, Scalars, vars, house, pools, bounds
<1>4. ASSUME NEW r \in Replicas, DeleteBegin(r) PROVE Scalars'
  BY <1>4 DEF DeleteBegin, Scalars, vars, house, pools, bounds, DeleteType
<1>5. ASSUME NEW r \in Replicas, LoadHeader(r) PROVE Scalars'
  BY <1>5 DEF LoadHeader, Starting, At, Scalars, vars, house, pools, bounds
<1>6. ASSUME NEW r \in Replicas, HeaderFails(r) PROVE Scalars'
  BY <1>6 DEF HeaderFails, Starting, At, NoRun, Scalars, vars, house, pools, bounds
<1>7. ASSUME NEW r \in Replicas, TakeLock(r) PROVE Scalars'
  BY <1>7 DEF TakeLock, At, Step, Scalars, vars, house, pools, bounds
<1>8. ASSUME NEW r \in Replicas, SkipLocked(r) PROVE Scalars'
  BY <1>8 DEF SkipLocked, At, Done, NoRun, Scalars, vars, house, pools, bounds
<1>9. ASSUME NEW r \in Replicas, LoadProvisioner(r) PROVE Scalars'
  BY <1>9 DEF LoadProvisioner, At, Step, Scalars, vars, house, pools, bounds
<1>10. ASSUME NEW r \in Replicas, ProvisionerMissing(r) PROVE Scalars'
  BY <1>10
  DEF ProvisionerMissing, At, Fail, Released, Failed, GivesUp, NoRun, Scalars, vars, house,
      pools, bounds
<1>11. ASSUME NEW r \in Replicas, SetSyncing(r) PROVE Scalars'
  BY <1>11 DEF SetSyncing, At, Step, Scalars, vars, house, pools, bounds
<1>12. ASSUME NEW r \in Replicas, ReadDesired(r) PROVE Scalars'
  BY <1>12 DEF ReadDesired, At, Scalars, vars, house, pools, bounds
<1>13. ASSUME NEW r \in Replicas, ReadActual(r) PROVE Scalars'
  BY <1>13 DEF ReadActual, At, Scalars, vars, house, pools, bounds
<1>14. ASSUME NEW r \in Replicas, FailClosed(r) PROVE Scalars'
  BY <1>14
  DEF FailClosed, At, Fail, Released, Failed, GivesUp, NoRun, Scalars, vars, house, pools,
      bounds, Invalidated
<1>15. ASSUME NEW r \in Replicas, InvalidateFirst(r) PROVE Scalars'
  BY <1>15 DEF InvalidateFirst, At, Step, Scalars, vars, house, pools, bounds, Invalidated
<1>16. ASSUME NEW r \in Replicas, ExecStatement(r) PROVE Scalars'
  <2> PICK s \in run[r].todo :
        /\ <<"create", Absent>> \in run[r].todo => s = <<"create", Absent>>
        /\ s[1] \in {"grant", "revoke"} => actual # Absent
        /\ actual' = Effect(s, actual)
    BY <1>16 DEF ExecStatement
  <2>1. run[r].want \in Access /\ actual \in Access /\ run[r].todo = Statements(run[r].want, actual)
    BY <1>16 DEF ExecStatement, At, TypeOK, PlanInv
  <2>2. actual' \in Access
    BY <2>1, OneStatement DEF Executable
  <2> QED
    BY <1>16, <2>2 DEF ExecStatement, Scalars, pools, bounds
<1>17. ASSUME NEW r \in Replicas, SetReady(r) PROVE Scalars'
  BY <1>17 DEF SetReady, At, Released, Done, NoRun, Scalars, vars, house, pools, bounds
<1>18. ASSUME NEW r \in Replicas, StatusWriteFails(r) PROVE Scalars'
  BY <1>18
  DEF StatusWriteFails, Released, Failed, GivesUp, NoRun, Scalars, vars, house, pools,
      bounds
<1>19. ASSUME NEW r \in Replicas, RunFails(r) PROVE Scalars'
  BY <1>19
  DEF RunFails, Released, Failed, GivesUp, NoRun, Scalars, vars, house, pools, bounds
<1>20. ASSUME NEW r \in Replicas, Tick(r) PROVE Scalars'
  BY <1>20 DEF Tick, Scalars, vars, house, pools, bounds
<1>21. ASSUME NEW r \in Replicas, Restart(r) PROVE Scalars'
  BY <1>21
  DEF Restart, Done, NoRun, NoDelete, At, Scalars, vars, house, pools, bounds, DeleteType
<1>22. ASSUME NEW r \in Serving, Deliver(r) PROVE Scalars'
  BY <1>22 DEF Deliver, Scalars, vars, house, pools, bounds
<1>23. ASSUME NEW r \in Serving, PassGate(r) PROVE Scalars'
  BY <1>23 DEF PassGate, Scalars, vars, house, pools, bounds
<1>24. ASSUME NEW r \in Serving, UseSession(r) PROVE Scalars'
  BY <1>24 DEF UseSession, Scalars, vars, house, pools, bounds
<1>25. ASSUME NEW r \in Serving, CloseIdle(r) PROVE Scalars'
  BY <1>25 DEF CloseIdle, Scalars, vars, house, pools, bounds
<1>26. ASSUME ClearProvisioner PROVE Scalars'
  BY <1>26 DEF ClearProvisioner, Scalars, vars, house, pools, bounds
<1>27. ASSUME Drift PROVE Scalars'
  BY <1>27 DEF Drift, Scalars, vars, house, pools, bounds
<1>28. ASSUME DeleteDrop PROVE Scalars'
  <2>1. del' \in DeleteType
    BY <1>28 DEF DeleteDrop, Scalars, DeleteType
  <2>2. actual' \in Access
    BY <1>28 DEF DeleteDrop, Access
  <2> QED
    BY <1>28, <2>1, <2>2 DEF DeleteDrop, Scalars, pools, bounds
<1>29. ASSUME DropFails PROVE Scalars'
  BY <1>29 DEF DropFails, DelStep, Scalars, vars, house, pools, bounds, DeleteType
<1>30. ASSUME DeleteInvalidate PROVE Scalars'
  BY <1>30
  DEF DeleteInvalidate, DelStep, Scalars, vars, house, pools, bounds, Invalidated,
      DeleteType
<1>31. ASSUME DeleteRow PROVE Scalars'
  BY <1>31 DEF DeleteRow, NoDelete, Scalars, vars, house, pools, bounds, DeleteType
<1>32. ASSUME DeleteRefused PROVE Scalars'
  <2>1. [del EXCEPT !.at = "restore"] \in DeleteType /\ NoDelete \in DeleteType
    BY DEF NoDelete, DeleteType, Scalars
  <2>2. del' \in {[del EXCEPT !.at = "restore"], NoDelete}
    BY <1>32 DEF DeleteRefused, DelStep
  <2> QED
    BY <1>32, <2>1, <2>2 DEF DeleteRefused, Scalars, house, pools, bounds
<1>33. ASSUME DeleteRowFails PROVE Scalars'
  BY <1>33 DEF DeleteRowFails, NoDelete, Scalars, vars, house, pools, bounds, DeleteType
<1>34. ASSUME DeleteRestore PROVE Scalars'
  <2>1. del' \in DeleteType /\ del.by \in Replicas
    BY <1>34 DEF DeleteRestore, NoDelete, DeleteType, LockInv
  <2>2. owed' \subseteq Replicas /\ missed' \in BOOLEAN
        /\ faults' \in 0..MaxFaults /\ status' \in {status, "pending"}
    BY <1>34, <2>1 DEF DeleteRestore, Scalars
  <2> QED
    BY <1>34, <2>1, <2>2 DEF DeleteRestore, Scalars, house, pools, bounds
<1>35. CASE UNCHANGED vars
  BY <1>35 DEF Scalars, vars, house, pools, bounds
<1> QED
  BY <1>1, <1>2, <1>3, <1>4, <1>5, <1>6, <1>7, <1>8, <1>9, <1>10, <1>11, <1>12, <1>13,
      <1>14, <1>15, <1>16, <1>17, <1>18, <1>19, <1>20, <1>21, <1>22, <1>23, <1>24, <1>25,
      <1>26, <1>27, <1>28, <1>29, <1>30, <1>31, <1>32, <1>33, <1>34, <1>35
  DEF Next, Admin, RunStep, Delete, Idle

(* The types are kept.                                                      *)
LEMMA TypeStep ==
  ASSUME TypeOK, AttemptInv, LockInv, PlanInv, [Next]_vars
  PROVE  TypeOK' /\ AttemptInv'
BY RunTypeStep, SessionTypeStep, ScalarTypeStep
DEF TypeOK, RunType, Places, SessionType, Scalars, DeleteType
-----------------------------------------------------------------------------
(* What the steps of a run do to it. *)

(* The run of r, and no other, goes from one of these places to one of those. *)
Goes(r, from, to) ==
  /\ run[r].at \in from /\ run'[r].at \in to
  /\ \A q \in Replicas : q # r => run'[q] = run[q]

KeepsPlan(r) == run'[r].want = run[r].want /\ run'[r].todo = run[r].todo

(* A step of a run changes only where that run is.                          *)
LEMMA StepGoes ==
  ASSUME TypeOK, NEW r \in Replicas, NEW to, Step(r, to)
  PROVE  Goes(r, {run[r].at}, {to}) /\ KeepsPlan(r)
BY DEF TypeOK, Step, Goes, KeepsPlan

(* A run that is over leaves its replica idle.                              *)
LEMMA DoneGoes ==
  ASSUME TypeOK, NEW r \in Replicas, Done(r)
  PROVE  Goes(r, {run[r].at}, {"idle"})
BY DEF TypeOK, Done, Goes, NoRun

(* A run that fails is tried again, or its loss is noted.                   *)
LEMMA FailedGoes ==
  ASSUME TypeOK, NEW r \in Replicas, Failed(r)
  PROVE  Goes(r, {run[r].at}, {"idle", "retry"}) /\ (run'[r].at = "retry" \/ missed')
<1>1. NoRun.at = "idle" /\ [NoRun EXCEPT !.at = "retry", !.attempt = run[r].attempt].at = "retry"
  BY DEF NoRun
<1> QED
  BY <1>1 DEF TypeOK, Failed, Goes

(* Where each step of a run starts and ends.                                *)
LEMMA Moves ==
  ASSUME TypeOK, NEW r \in Replicas
  PROVE  /\ LoadHeader(r) => Goes(r, {"idle", "retry"}, {"header"})
         /\ HeaderFails(r) => /\ Goes(r, {"idle", "retry"}, {"idle", "retry"})
                              /\ run'[r].at = "retry" \/ missed'
         /\ TakeLock(r) => Goes(r, {"header"}, {"locked"})
         /\ SkipLocked(r) => Goes(r, {"header"}, {"idle"})
         /\ LoadProvisioner(r) => Goes(r, {"locked"}, {"config"})
         /\ SetSyncing(r) => Goes(r, {"config"}, {"syncing"})
         /\ ReadDesired(r) => Goes(r, {"syncing"}, {"observe"}) /\ run'[r].want = desired
         /\ ReadActual(r) =>
              /\ Goes(r, {"observe"}, {"planned", "applied"})
              /\ run'[r].want = run[r].want /\ run'[r].todo = Statements(run[r].want, actual)
              /\ run'[r].at = "applied" <=> run'[r].todo = {}
         /\ InvalidateFirst(r) => Goes(r, {"planned"}, {"apply"}) /\ KeepsPlan(r)
         /\ SetReady(r) => Goes(r, {"applied"}, {"idle"})
<1>1. LoadHeader(r) => Goes(r, {"idle", "retry"}, {"header"})
  BY DEF LoadHeader, Starting, At, Goes, TypeOK
<1>2. HeaderFails(r) => /\ Goes(r, {"idle", "retry"}, {"idle", "retry"})
                        /\ run'[r].at = "retry" \/ missed'
  <2>1. /\ NoRun.at = "idle"
        /\ [NoRun EXCEPT !.at = "retry", !.attempt = run[r].attempt + 1].at = "retry"
    BY DEF NoRun
  <2> QED
    BY <2>1 DEF HeaderFails, Starting, At, Goes, TypeOK
<1>3. ReadDesired(r) => Goes(r, {"syncing"}, {"observe"}) /\ run'[r].want = desired
  BY DEF ReadDesired, At, Goes, TypeOK
<1>4. ReadActual(r) =>
        /\ Goes(r, {"observe"}, {"planned", "applied"})
        /\ run'[r].want = run[r].want /\ run'[r].todo = Statements(run[r].want, actual)
        /\ run'[r].at = "applied" <=> run'[r].todo = {}
  BY DEF ReadActual, At, Goes, TypeOK
<1> QED
  BY <1>1, <1>2, <1>3, <1>4, StepGoes, DoneGoes
  DEF Goes, At, TakeLock, SkipLocked, LoadProvisioner, SetSyncing, InvalidateFirst, SetReady

(* And each of its failures.                                                *)
LEMMA Failures ==
  ASSUME TypeOK, NEW r \in Replicas
  PROVE  /\ ProvisionerMissing(r) => Goes(r, {"locked"}, {"idle", "retry"})
         /\ FailClosed(r) => Goes(r, {"observe"}, {"idle", "retry"})
         /\ StatusWriteFails(r) => Goes(r, {"config", "applied"}, {"idle", "retry"})
         /\ RunFails(r) => Goes(r, {"locked", "syncing", "observe", "apply"}, {"idle", "retry"})
         /\ ProvisionerMissing(r) \/ FailClosed(r) \/ StatusWriteFails(r) \/ RunFails(r)
              => Released(r) /\ (run'[r].at = "retry" \/ missed')
BY FailedGoes
DEF Goes, At, ProvisionerMissing, FailClosed, StatusWriteFails, RunFails, Fail

(* A restart drops the run of its replica.                                  *)
LEMMA RestartGoes ==
  ASSUME TypeOK, NEW r \in Replicas, Restart(r)
  PROVE  Goes(r, {run[r].at}, {"idle"})
BY DoneGoes DEF Restart

(* A statement leaves what still separates the two accesses. *)
LEMMA ExecGoes ==
  ASSUME TypeOK, PlanInv, NEW r \in Replicas, ExecStatement(r)
  PROVE  /\ Goes(r, {"apply"}, {"apply", "applied"})
         /\ run'[r].want = run[r].want
         /\ actual' \in Access
         /\ run'[r].todo = Statements(run[r].want, actual')
         /\ run'[r].at = "applied" <=> run'[r].todo = {}
<1> PICK s \in run[r].todo :
      /\ <<"create", Absent>> \in run[r].todo => s = <<"create", Absent>>
      /\ s[1] \in {"grant", "revoke"} => actual # Absent
      /\ actual' = Effect(s, actual)
      /\ run' = [run EXCEPT ![r].todo = @ \ {s},
                            ![r].at = IF run[r].todo = {s} THEN "applied" ELSE "apply"]
  BY DEF ExecStatement
<1>1. run[r].want \in Access /\ actual \in Access /\ run[r].todo = Statements(run[r].want, actual)
  BY DEF ExecStatement, At, TypeOK, PlanInv
<1>2. actual' \in Access /\ Statements(run[r].want, actual') = run[r].todo \ {s}
  BY <1>1, OneStatement DEF Executable
<1>3. Goes(r, {"apply"}, {"apply", "applied"})
  BY DEF ExecStatement, Goes, At, TypeOK
<1>4. run'[r].want = run[r].want /\ run'[r].todo = run[r].todo \ {s}
  BY DEF TypeOK
<1>5. run'[r].at = "applied" <=> run[r].todo = {s}
  BY DEF TypeOK
<1>6. run[r].todo = {s} <=> run[r].todo \ {s} = {}
  OBVIOUS
<1> QED
  BY <1>2, <1>3, <1>4, <1>5, <1>6

(* Who neither runs, nor deletes, nor restarts. *)
Outside ==
  \/ \E r \in Replicas :
       \/ \E d \in Access : ChangeAccess(r, d)
       \/ SetProvisioner(r) \/ LoseProvisioner(r) \/ Tick(r)
  \/ \E r \in Serving :
       Deliver(r) \/ PassGate(r) \/ UseSession(r) \/ CloseIdle(r)
  \/ ClearProvisioner \/ Drift \/ UNCHANGED vars

(* A step is of a run, a restart, a delete or something outside them.       *)
LEMMA WhoSteps ==
  ASSUME [Next]_vars
  PROVE  \/ Outside \/ Delete
         \/ \E r \in Replicas : RunStep(r) \/ Restart(r) \/ DeleteBegin(r)
BY DEF Next, Outside, Admin, Idle

(* What happens outside runs and deletes moves none of them.                *)
LEMMA OutsideKeeps ==
  ASSUME Outside
  PROVE  /\ UNCHANGED <<run, lock, del, actual, fp, row>>
         /\ status' \in {status, "pending"}
         /\ ~row => linked' = linked
         /\ missed => missed'
         /\ owed \subseteq owed'
BY DEF Outside, ChangeAccess, SetProvisioner, LoseProvisioner, Tick, Deliver, PassGate,
       UseSession, CloseIdle, ClearProvisioner, Drift, vars, house, pools, bounds
-----------------------------------------------------------------------------
(* The lock, the gate and the row. *)

(* Whoever takes the lock finds it free, and whoever leaves frees it. *)
LEMMA LockStep ==
  ASSUME TypeOK, LockInv, PlanInv, [Next]_vars
  PROVE  LockInv'
<1>1. CASE Outside
  BY <1>1, OutsideKeeps DEF LockInv
<1>2. ASSUME NEW r \in Replicas, LoadHeader(r) \/ HeaderFails(r) \/ SkipLocked(r)
      PROVE  LockInv'
  BY <1>2, Moves DEF Goes, LockInv, Holding, LoadHeader, HeaderFails, SkipLocked
<1>3. ASSUME NEW r \in Replicas, TakeLock(r)
      PROVE  LockInv'
  BY <1>3, Moves, NamesAssumption DEF Goes, LockInv, Holding, TakeLock
<1>4. ASSUME NEW r \in Replicas, LoadProvisioner(r) \/ SetSyncing(r) \/ ReadDesired(r) \/
            ReadActual(r) \/ InvalidateFirst(r)
      PROVE  LockInv'
  BY <1>4, Moves
  DEF Goes, LockInv, Holding, LoadProvisioner, SetSyncing, ReadDesired, ReadActual,
      InvalidateFirst
<1>5. ASSUME NEW r \in Replicas, ExecStatement(r)
      PROVE  LockInv'
  BY <1>5, ExecGoes DEF Goes, LockInv, Holding, ExecStatement
<1>6. ASSUME NEW r \in Replicas, SetReady(r)
      PROVE  LockInv'
  BY <1>6, Moves, NamesAssumption DEF Goes, LockInv, Holding, SetReady, Released
<1>7. ASSUME NEW r \in Replicas, ProvisionerMissing(r) \/ FailClosed(r) \/
            StatusWriteFails(r) \/ RunFails(r)
      PROVE  LockInv'
  BY <1>7, Failures, NamesAssumption
  DEF Goes, LockInv, Holding, Released, ProvisionerMissing, FailClosed, StatusWriteFails,
      RunFails
<1>8. ASSUME NEW r \in Replicas, Restart(r)
      PROVE  LockInv'
  BY <1>8, RestartGoes, NamesAssumption DEF Goes, LockInv, Holding, Restart, NoDelete
<1>9. ASSUME NEW r \in Replicas, DeleteBegin(r)
      PROVE  LockInv'
  BY <1>9, NamesAssumption DEF LockInv, Holding, DeleteBegin, TypeOK
<1>10. CASE DeleteDrop \/ DeleteInvalidate
  BY <1>10 DEF LockInv, DeleteDrop, DeleteInvalidate, DelStep, TypeOK
<1>11. CASE DropFails \/ DeleteRow \/ DeleteRefused \/ DeleteRowFails
  BY <1>11, NamesAssumption
  DEF LockInv, Holding, DropFails, DeleteRow, DeleteRefused, DeleteRowFails, DelStep,
      NoDelete, TypeOK
<1>12. CASE DeleteRestore
  BY <1>12 DEF LockInv, DeleteRestore, NoDelete
<1> QED
  BY <1>1, <1>2, <1>3, <1>4, <1>5, <1>6, <1>7, <1>8, <1>9, <1>10, <1>11, <1>12, WhoSteps
  DEF RunStep, Delete

(* Only the holder of the lock writes ready, when it stops applying. *)
LEMMA GateStep ==
  ASSUME TypeOK, LockInv, PlanInv, GateClosedWhileApplying, [Next]_vars
  PROVE  GateClosedWhileApplying'
<1>1. CASE Outside
  BY <1>1, OutsideKeeps DEF GateClosedWhileApplying
<1>2. ASSUME NEW r \in Replicas, LoadHeader(r) \/ HeaderFails(r) \/ TakeLock(r) \/
            SkipLocked(r) \/ LoadProvisioner(r)
      PROVE  GateClosedWhileApplying'
  BY <1>2, Moves
  DEF Goes, LockInv, Holding, GateClosedWhileApplying, LoadHeader, HeaderFails, TakeLock,
      SkipLocked, LoadProvisioner
<1>3. ASSUME NEW r \in Replicas, SetSyncing(r)
      PROVE  GateClosedWhileApplying'
  BY <1>3, Moves DEF Goes, LockInv, Holding, GateClosedWhileApplying, SetSyncing
<1>4. ASSUME NEW r \in Replicas, ReadDesired(r) \/ ReadActual(r) \/ InvalidateFirst(r)
      PROVE  GateClosedWhileApplying'
  BY <1>4, Moves
  DEF Goes, LockInv, Holding, GateClosedWhileApplying, ReadDesired, ReadActual,
      InvalidateFirst
<1>5. ASSUME NEW r \in Replicas, ExecStatement(r)
      PROVE  GateClosedWhileApplying'
  BY <1>5, ExecGoes DEF Goes, LockInv, Holding, GateClosedWhileApplying, ExecStatement
<1>6. ASSUME NEW r \in Replicas, SetReady(r)
      PROVE  GateClosedWhileApplying'
  BY <1>6, Moves DEF Goes, LockInv, Holding, GateClosedWhileApplying, SetReady
<1>7. ASSUME NEW r \in Replicas, ProvisionerMissing(r) \/ FailClosed(r) \/
            StatusWriteFails(r) \/ RunFails(r)
      PROVE  GateClosedWhileApplying'
  BY <1>7, Failures
  DEF Goes, LockInv, Holding, GateClosedWhileApplying, ProvisionerMissing, FailClosed,
      StatusWriteFails, RunFails, Fail
<1>8. ASSUME NEW r \in Replicas, Restart(r)
      PROVE  GateClosedWhileApplying'
  BY <1>8, RestartGoes DEF Goes, LockInv, Holding, GateClosedWhileApplying, Restart
<1>9. ASSUME NEW r \in Replicas, DeleteBegin(r)
      PROVE  GateClosedWhileApplying'
  BY <1>9 DEF GateClosedWhileApplying, DeleteBegin
<1>10. CASE DeleteDrop \/ DropFails \/ DeleteInvalidate \/ DeleteRow
  BY <1>10 DEF GateClosedWhileApplying, DeleteDrop, DropFails, DeleteInvalidate, DeleteRow
<1>11. CASE DeleteRefused \/ DeleteRowFails \/ DeleteRestore
  BY <1>11 DEF GateClosedWhileApplying, DeleteRefused, DeleteRowFails, DeleteRestore
<1> QED
  BY <1>1, <1>2, <1>3, <1>4, <1>5, <1>6, <1>7, <1>8, <1>9, <1>10, <1>11, WhoSteps
  DEF RunStep, Delete

(* The row is deleted under the lock, and its provisioner with it. *)
LEMMA RowStep ==
  ASSUME TypeOK, LockInv, PlanInv, RowInv, [Next]_vars
  PROVE  RowInv'
<1>1. CASE Outside
  BY <1>1, OutsideKeeps DEF RowInv
<1>2. ASSUME NEW r \in Replicas, LoadHeader(r) \/ HeaderFails(r) \/ TakeLock(r) \/
            SkipLocked(r)
      PROVE  RowInv'
  BY <1>2, Moves
  DEF Goes, LockInv, Holding, RowInv, At, LoadHeader, HeaderFails, TakeLock, SkipLocked
<1>3. ASSUME NEW r \in Replicas, LoadProvisioner(r) \/ SetSyncing(r) \/ ReadDesired(r) \/
            ReadActual(r)
      PROVE  RowInv'
  BY <1>3, Moves
  DEF Goes, LockInv, Holding, RowInv, At, LoadProvisioner, SetSyncing, ReadDesired,
      ReadActual
<1>4. ASSUME NEW r \in Replicas, InvalidateFirst(r) \/ SetReady(r)
      PROVE  RowInv'
  BY <1>4, Moves DEF Goes, LockInv, Holding, RowInv, At, InvalidateFirst, SetReady
<1>5. ASSUME NEW r \in Replicas, ExecStatement(r)
      PROVE  RowInv'
  BY <1>5, ExecGoes DEF Goes, LockInv, Holding, RowInv, At, ExecStatement
<1>6. ASSUME NEW r \in Replicas, ProvisionerMissing(r) \/ FailClosed(r) \/
            StatusWriteFails(r) \/ RunFails(r)
      PROVE  RowInv'
  BY <1>6, Failures
  DEF Goes, LockInv, Holding, RowInv, At, ProvisionerMissing, FailClosed, StatusWriteFails,
      RunFails
<1>7. ASSUME NEW r \in Replicas, Restart(r)
      PROVE  RowInv'
  BY <1>7, RestartGoes DEF Goes, LockInv, Holding, RowInv, At, Restart
<1>8. ASSUME NEW r \in Replicas, DeleteBegin(r)
      PROVE  RowInv'
  BY <1>8 DEF RowInv, DeleteBegin
<1>9. CASE DeleteRow
  BY <1>9, NamesAssumption DEF RowInv, LockInv, Holding, DeleteRow
<1>10. CASE DeleteDrop \/ DropFails \/ DeleteInvalidate
  BY <1>10 DEF RowInv, DeleteDrop, DropFails, DeleteInvalidate
<1>11. CASE DeleteRefused \/ DeleteRowFails \/ DeleteRestore
  BY <1>11 DEF RowInv, DeleteRefused, DeleteRowFails, DeleteRestore
<1> QED
  BY <1>1, <1>2, <1>3, <1>4, <1>5, <1>6, <1>7, <1>8, <1>9, <1>10, <1>11, WhoSteps
  DEF RunStep, Delete

(* Nothing is granted once a delete has revoked everything. *)
LEMMA OrphanStep ==
  ASSUME TypeOK, LockInv, PlanInv, RowInv, OrphanInv, [Next]_vars
  PROVE  OrphanInv'
<1>1. CASE Outside
  BY <1>1, OutsideKeeps DEF OrphanInv
<1>2. ASSUME NEW r \in Replicas, LoadHeader(r) \/ HeaderFails(r) \/ TakeLock(r) \/
            SkipLocked(r) \/ LoadProvisioner(r) \/ SetSyncing(r) \/ ReadDesired(r) \/
            ReadActual(r) \/ InvalidateFirst(r)
      PROVE  OrphanInv'
  BY <1>2
  DEF OrphanInv, house, LoadHeader, HeaderFails, TakeLock, SkipLocked, LoadProvisioner,
      SetSyncing, ReadDesired, ReadActual, InvalidateFirst
<1>3. ASSUME NEW r \in Replicas, ExecStatement(r)
      PROVE  OrphanInv'
  BY <1>3, NamesAssumption DEF OrphanInv, LockInv, RowInv, Holding, ExecStatement, At
<1>4. ASSUME NEW r \in Replicas, SetReady(r)
      PROVE  OrphanInv'
  BY <1>4, NamesAssumption DEF OrphanInv, LockInv, RowInv, Holding, SetReady, At, house
<1>5. ASSUME NEW r \in Replicas, ProvisionerMissing(r) \/ FailClosed(r) \/
            StatusWriteFails(r) \/ RunFails(r)
      PROVE  OrphanInv'
  BY <1>5 DEF OrphanInv, house, ProvisionerMissing, FailClosed, StatusWriteFails, RunFails
<1>6. ASSUME NEW r \in Replicas, Restart(r)
      PROVE  OrphanInv'
  BY <1>6 DEF OrphanInv, Restart, NoDelete, house
<1>7. ASSUME NEW r \in Replicas, DeleteBegin(r)
      PROVE  OrphanInv'
  BY <1>7 DEF OrphanInv, DeleteBegin, TypeOK, house
<1>8. CASE DeleteDrop \/ DropFails
  BY <1>8 DEF OrphanInv, DeleteDrop, DropFails, DelStep, TypeOK
<1>9. CASE DeleteInvalidate \/ DeleteRow
  BY <1>9 DEF OrphanInv, DeleteInvalidate, DeleteRow, DelStep, TypeOK, house
<1>10. CASE DeleteRefused \/ DeleteRowFails \/ DeleteRestore
  <2>1. del'.at \in {"restore", "none"} /\ UNCHANGED <<row, fp, actual>>
    BY <1>10 DEF DeleteRefused, DeleteRowFails, DeleteRestore, DelStep, NoDelete, TypeOK, house
  <2> QED
    BY <2>1 DEF OrphanInv
<1> QED
  BY <1>1, <1>2, <1>3, <1>4, <1>5, <1>6, <1>7, <1>8, <1>9, <1>10, WhoSteps
  DEF RunStep, Delete

(* Under the lock only the run itself changes what its plan is about. *)
LEMMA PlanStep ==
  ASSUME TypeOK, LockInv, PlanInv, [Next]_vars
  PROVE  PlanInv'
<1>1. CASE Outside
  BY <1>1, OutsideKeeps DEF PlanInv, At
<1>2. ASSUME NEW r \in Replicas, LoadHeader(r) \/ HeaderFails(r) \/ TakeLock(r) \/
            SkipLocked(r)
      PROVE  PlanInv'
  BY <1>2, Moves
  DEF PlanInv, Goes, LockInv, Holding, At, house, LoadHeader, HeaderFails, TakeLock,
      SkipLocked
<1>3. ASSUME NEW r \in Replicas, LoadProvisioner(r) \/ SetSyncing(r) \/ ReadDesired(r)
      PROVE  PlanInv'
  BY <1>3, Moves
  DEF PlanInv, Goes, LockInv, Holding, At, house, LoadProvisioner, SetSyncing, ReadDesired
<1>4. ASSUME NEW r \in Replicas, ReadActual(r)
      PROVE  PlanInv'
  <2>1. /\ Goes(r, {"observe"}, {"planned", "applied"})
        /\ run'[r].want = run[r].want /\ run'[r].todo = Statements(run[r].want, actual)
        /\ run'[r].at = "applied" <=> run'[r].todo = {}
    BY <1>4, Moves
  <2>2. run[r].want \in Access /\ actual \in Access /\ actual' = actual
    BY <1>4 DEF ReadActual, house, TypeOK
  <2>3. run'[r].at = "applied" => actual' = run'[r].want
    BY <2>1, <2>2, NothingLeft
  <2> QED
    BY <2>1, <2>2, <2>3 DEF PlanInv, Goes, At
<1>5. ASSUME NEW r \in Replicas, InvalidateFirst(r)
      PROVE  PlanInv'
  BY <1>5, Moves DEF PlanInv, Goes, LockInv, Holding, At, house, KeepsPlan, InvalidateFirst
<1>6. ASSUME NEW r \in Replicas, SetReady(r)
      PROVE  PlanInv'
  BY <1>6, Moves DEF PlanInv, Goes, LockInv, Holding, At, house, SetReady
<1>7. ASSUME NEW r \in Replicas, ExecStatement(r)
      PROVE  PlanInv'
  <2>1. /\ Goes(r, {"apply"}, {"apply", "applied"})
        /\ run'[r].want = run[r].want /\ actual' \in Access
        /\ run'[r].todo = Statements(run[r].want, actual')
        /\ run'[r].at = "applied" <=> run'[r].todo = {}
    BY <1>7, ExecGoes
  <2>2. run'[r].at = "applied" => actual' = run'[r].want
    BY <2>1, NothingLeft DEF TypeOK
  <2>3. \A q \in Replicas : q # r => run[q].at \notin Holding
    BY <2>1 DEF LockInv, Goes, Holding
  <2> QED
    BY <2>1, <2>2, <2>3 DEF PlanInv, Goes, At, Holding
<1>8. ASSUME NEW r \in Replicas, ProvisionerMissing(r) \/ FailClosed(r) \/
            StatusWriteFails(r) \/ RunFails(r)
      PROVE  PlanInv'
  BY <1>8, Failures
  DEF PlanInv, Goes, LockInv, Holding, At, house, ProvisionerMissing, FailClosed,
      StatusWriteFails, RunFails
<1>9. ASSUME NEW r \in Replicas, Restart(r)
      PROVE  PlanInv'
  BY <1>9, RestartGoes DEF PlanInv, Goes, LockInv, Holding, At, house, Restart
<1>10. ASSUME NEW r \in Replicas, DeleteBegin(r)
      PROVE  PlanInv'
  BY <1>10 DEF PlanInv, At, DeleteBegin, house
<1>11. CASE DeleteDrop \/ DropFails
  BY <1>11, NamesAssumption DEF PlanInv, LockInv, Holding, At, DeleteDrop, DropFails
<1>12. CASE DeleteInvalidate \/ DeleteRow \/ DeleteRefused \/ DeleteRowFails \/
            DeleteRestore
  BY <1>12
  DEF PlanInv, At, DeleteInvalidate, DeleteRow, DeleteRefused, DeleteRowFails,
      DeleteRestore, house
<1> QED
  BY <1>1, <1>2, <1>3, <1>4, <1>5, <1>6, <1>7, <1>8, <1>9, <1>10, <1>11, <1>12, WhoSteps
  DEF RunStep, Delete
-----------------------------------------------------------------------------
(* What is asked for. *)

(* A run that is owed is not forgotten: it goes on, or its loss is noted.   *)
LEMMA RunKeepsAwaited ==
  ASSUME TypeOK, PlanInv, NEW r \in Replicas, RunStep(r), Awaited
  PROVE  Awaited' \/ TakeLock(r) \/ ReadDesired(r)
<1>1. ASSUME Goes(r, Places, Places), run[r].at \notin {"idle", "retry", "header"},
             UNCHANGED owed, missed => missed'
      PROVE  Awaited'
  BY <1>1 DEF Awaited, Goes
<1>2. CASE LoadHeader(r)
  BY <1>2, Moves DEF Goes, Awaited
<1>3. CASE HeaderFails(r)
  <2>1. /\ \A q \in Replicas : q # r => run'[q] = run[q]
        /\ run'[r].at = "retry" \/ missed'
    BY <1>3, Moves DEF Goes
  <2> QED
    BY <2>1 DEF Awaited
<1>4. CASE SkipLocked(r)
  BY <1>4 DEF SkipLocked, Awaited
<1>5. CASE LoadProvisioner(r) \/ SetSyncing(r) \/ ReadActual(r)
  BY <1>1, <1>5, Moves DEF Goes, Places, LoadProvisioner, SetSyncing, ReadActual
<1>6. CASE InvalidateFirst(r) \/ SetReady(r)
  BY <1>1, <1>6, Moves DEF Goes, Places, InvalidateFirst, SetReady
<1>7. CASE ExecStatement(r)
  BY <1>1, <1>7, ExecGoes DEF Goes, Places, ExecStatement
<1>8. CASE ProvisionerMissing(r) \/ FailClosed(r) \/ StatusWriteFails(r) \/ RunFails(r)
  BY <1>1, <1>8, Failures
  DEF Goes, Places, ProvisionerMissing, FailClosed, StatusWriteFails, RunFails, Fail, Failed
<1> QED
  BY <1>2, <1>3, <1>4, <1>5, <1>6, <1>7, <1>8 DEF RunStep

(* Only runs and restarts answer what was owed.                             *)
LEMMA OthersKeepAwaited ==
  ASSUME TypeOK, Awaited, Outside \/ Delete \/ \E r \in Replicas : DeleteBegin(r)
  PROVE  Awaited'
<1>1. UNCHANGED run /\ (missed => missed') /\ owed \subseteq owed'
  <2>1. CASE Outside
    BY <2>1, OutsideKeeps
  <2>2. ASSUME NEW r \in Replicas, DeleteBegin(r)
        PROVE  UNCHANGED <<run, missed, owed>>
    BY <2>2 DEF DeleteBegin
  <2>3. CASE DeleteDrop \/ DropFails \/ DeleteInvalidate \/ DeleteRow \/ DeleteRefused
    BY <2>3 DEF DeleteDrop, DropFails, DeleteInvalidate, DeleteRow, DeleteRefused
  <2>4. CASE DeleteRowFails
    BY <2>4 DEF DeleteRowFails
  <2>5. CASE DeleteRestore
    BY <2>5 DEF DeleteRestore
  <2> QED
    BY <2>1, <2>2, <2>3, <2>4, <2>5 DEF Delete
<1> QED
  BY <1>1 DEF Awaited

(* A restart notes what it drops.                                           *)
LEMMA RestartKeepsAwaited ==
  ASSUME TypeOK, Awaited, NEW r \in Replicas, Restart(r)
  PROVE  Awaited'
<1>1. \A q \in Replicas : q # r => run'[q] = run[q]
  BY RestartGoes DEF Goes
<1>2. missed' = (missed \/ r \in owed \/ ~At(r, "idle") \/ del.by = r)
  BY DEF Restart
<1>3. owed \ {r} \subseteq owed'
  BY DEF Restart
<1> QED
  BY <1>1, <1>2, <1>3 DEF Awaited, At

(* Runs and deletes do not change what is asked for.                        *)
LEMMA RunKeepsDesired ==
  ASSUME NEW r \in Replicas, RunStep(r) \/ Restart(r) \/ DeleteBegin(r) \/ Delete
  PROVE  UNCHANGED desired
BY DEF RunStep, LoadHeader, HeaderFails, TakeLock, SkipLocked, LoadProvisioner,
       ProvisionerMissing, SetSyncing, ReadDesired, ReadActual, FailClosed,
       InvalidateFirst, ExecStatement, SetReady, StatusWriteFails, RunFails, Restart,
       DeleteBegin, Delete, DeleteDrop, DropFails, DeleteInvalidate, DeleteRow,
       DeleteRefused, DeleteRowFails, DeleteRestore

(* A change is followed by a run that is owed, or its loss is noted.        *)
LEMMA ChangesAwaited ==
  ASSUME Outside
  PROVE  desired' = desired \/ Awaited'
BY DEF Outside, ChangeAccess, SetProvisioner, LoseProvisioner, Tick, Deliver, PassGate,
       UseSession, CloseIdle, ClearProvisioner, Drift, vars, Awaited

(* A run reads what is current; who changes it later owes a run.            *)
LEMMA WantStep ==
  ASSUME TypeOK, LockInv, PlanInv, WantInv, [Next]_vars
  PROVE  WantInv'
<1>1. CASE Outside
  BY <1>1, OutsideKeeps, OthersKeepAwaited, ChangesAwaited DEF WantInv
<1>2. CASE Delete \/ \E r \in Replicas : DeleteBegin(r)
  <2>1. UNCHANGED <<run, desired>>
    BY <1>2
    DEF DeleteBegin, Delete, DeleteDrop, DropFails, DeleteInvalidate, DeleteRow,
        DeleteRefused, DeleteRowFails, DeleteRestore
  <2> QED
    BY <1>2, <2>1, OthersKeepAwaited DEF WantInv
<1>3. ASSUME NEW r \in Replicas, Restart(r)
      PROVE  WantInv'
  BY <1>3, RestartGoes, RestartKeepsAwaited, RunKeepsDesired DEF WantInv, Goes, Informed
<1>4. ASSUME NEW r \in Replicas, RunStep(r)
      PROVE  WantInv'
  <2>1. UNCHANGED desired
    BY <1>4, RunKeepsDesired
  <2>2. CASE TakeLock(r)
    <3>1. \A q \in Replicas : run[q].at \notin Informed
      BY <2>2, NamesAssumption DEF TakeLock, LockInv, Holding, Informed
    <3> QED
      BY <2>2, <3>1, Moves DEF WantInv, Goes, Informed
  <2>3. CASE ReadDesired(r)
    <3>1. \A q \in Replicas : q # r => run[q].at \notin Informed
      BY <2>3 DEF ReadDesired, At, LockInv, Holding, Informed
    <3> QED
      BY <2>1, <2>3, <3>1, Moves DEF WantInv, Goes
  <2>4. CASE ~TakeLock(r) /\ ~ReadDesired(r)
    <3>1. Awaited => Awaited'
      BY <1>4, <2>4, RunKeepsAwaited
    <3>2. /\ \A q \in Replicas : q # r => run'[q] = run[q]
          /\ \/ run'[r].at \notin Informed
             \/ run[r].at \in Informed /\ run'[r].want = run[r].want
      BY <1>4, <2>4, Moves, Failures, ExecGoes DEF RunStep, Goes, Informed, KeepsPlan
    <3> QED
      BY <2>1, <3>1, <3>2 DEF WantInv
  <2> QED
    BY <2>2, <2>3, <2>4
<1> QED
  BY <1>1, <1>2, <1>3, <1>4, WhoSteps


(* What ready says is kept true by whoever is on the way. *)
LEMMA ReadyStep ==
  ASSUME TypeOK, LockInv, PlanInv, GateClosedWhileApplying, WantInv, ReadyInv, [Next]_vars
  PROVE  ReadyInv'
<1>1. CASE Outside
  <2>1. /\ UNCHANGED <<run, del, actual, row>> /\ status' \in {status, "pending"}
        /\ desired' = desired \/ Awaited'
        /\ Awaited => Awaited'
    BY <1>1, OutsideKeeps, ChangesAwaited, OthersKeepAwaited
  <2> QED
    BY <2>1 DEF ReadyInv, Revoking
<1>2. ASSUME NEW r \in Replicas, LoadHeader(r) \/ HeaderFails(r) \/ SkipLocked(r)
      PROVE  ReadyInv'
  <2>1. Goes(r, {"idle", "retry", "header"}, {"idle", "retry", "header"})
    BY <1>2, Moves DEF Goes
  <2>2. Awaited => Awaited'
    BY <1>2, RunKeepsAwaited, Moves DEF RunStep, Goes
  <2>3. UNCHANGED <<row, status, desired, actual, del>>
    BY <1>2 DEF LoadHeader, HeaderFails, SkipLocked, house
  <2> QED
    BY <2>1, <2>2, <2>3 DEF ReadyInv, Revoking, Goes
<1>3. ASSUME NEW r \in Replicas, TakeLock(r) \/ LoadProvisioner(r)
      PROVE  ReadyInv'
  <2>1. run'[r].at \in {"locked", "config"}
    BY <1>3, Moves DEF Goes
  <2>2. UNCHANGED del
    BY <1>3 DEF TakeLock, LoadProvisioner
  <2> QED
    BY <2>1, <2>2 DEF ReadyInv
<1>4. ASSUME NEW r \in Replicas, SetSyncing(r)
      PROVE  ReadyInv'
  BY <1>4 DEF SetSyncing, ReadyInv
<1>5. ASSUME NEW r \in Replicas, ReadDesired(r) \/ ReadActual(r) \/ InvalidateFirst(r) \/
            ExecStatement(r)
      PROVE  ReadyInv'
  <2>1. status # "ready"
    BY <1>5
    DEF ReadDesired, ReadActual, InvalidateFirst, ExecStatement, At, GateClosedWhileApplying
  <2>2. UNCHANGED <<status, del>>
    BY <1>5 DEF ReadDesired, ReadActual, InvalidateFirst, ExecStatement
  <2> QED
    BY <2>1, <2>2 DEF ReadyInv
<1>6. ASSUME NEW r \in Replicas, SetReady(r)
      PROVE  ReadyInv'
  <2>1. actual = run[r].want /\ (run[r].want = desired \/ Awaited)
    BY <1>6 DEF SetReady, At, PlanInv, WantInv, Informed
  <2>2. Awaited => Awaited'
    BY <1>6, RunKeepsAwaited, Moves DEF RunStep, Goes, SetReady, TakeLock, ReadDesired, At
  <2>3. UNCHANGED <<actual, desired, del>>
    BY <1>6 DEF SetReady, house
  <2> QED
    BY <2>1, <2>2, <2>3 DEF ReadyInv
<1>7. ASSUME NEW r \in Replicas, ProvisionerMissing(r) \/ FailClosed(r) \/
            StatusWriteFails(r) \/ RunFails(r)
      PROVE  ReadyInv'
  <2>1. Awaited'
    BY <1>7, Failures DEF Awaited
  <2>2. UNCHANGED del
    BY <1>7 DEF ProvisionerMissing, FailClosed, StatusWriteFails, RunFails
  <2> QED
    BY <2>1, <2>2 DEF ReadyInv
<1>8. ASSUME NEW r \in Replicas, Restart(r)
      PROVE  ReadyInv'
  <2>1. \A q \in Replicas : q # r => run'[q] = run[q]
    BY <1>8, RestartGoes DEF Goes
  <2>2. Awaited => Awaited'
    BY <1>8, RestartKeepsAwaited
  <2>3. run[r].at # "idle" \/ del.by = r => Awaited'
    BY <1>8 DEF Restart, Awaited, At
  <2>4. /\ UNCHANGED <<row, status, actual, desired>>
        /\ del.by # r => UNCHANGED del
        /\ del.by = r => del'.at = "none"
    BY <1>8 DEF Restart, house, NoDelete
  <2> QED
    BY <2>1, <2>2, <2>3, <2>4 DEF ReadyInv, Revoking
<1>9. ASSUME NEW r \in Replicas, DeleteBegin(r)
      PROVE  ReadyInv'
  <2>1. ~Revoking /\ UNCHANGED <<run, row, status, actual, desired>> /\ del'.at \in {"drop", "row"}
    BY <1>9 DEF DeleteBegin, Revoking, house
  <2>2. Awaited => Awaited'
    BY <1>9, OthersKeepAwaited
  <2> QED
    BY <2>1, <2>2 DEF ReadyInv
<1>10. CASE DeleteDrop
  <2>1. /\ actual' = actual \/ (del'.at = "invalidate" /\ del'.revoked)
        /\ del'.at = "invalidate" => del'.revoked
        /\ ~Revoking /\ UNCHANGED <<run, row, status, desired>>
    BY <1>10 DEF DeleteDrop, Revoking, TypeOK
  <2>2. Awaited => Awaited'
    BY <1>10, OthersKeepAwaited DEF Delete
  <2> QED
    BY <2>1, <2>2 DEF ReadyInv, Revoking
<1>11. CASE DropFails
  <2>1. del'.at = "restore"
    BY <1>11 DEF DropFails, DelStep, TypeOK
  <2> QED
    BY <2>1 DEF ReadyInv, Revoking
<1>12. CASE DeleteInvalidate
  <2>1. del'.at = "row" /\ del'.revoked
    BY <1>12 DEF DeleteInvalidate, DelStep, TypeOK, ReadyInv
  <2> QED
    BY <2>1 DEF ReadyInv, Revoking
<1>13. CASE DeleteRow
  BY <1>13 DEF ReadyInv, DeleteRow, NoDelete
<1>14. CASE DeleteRefused \/ DeleteRowFails \/ DeleteRestore
  <2>1. /\ UNCHANGED <<run, row, actual, desired>> /\ status' \in {status, "pending"}
        /\ del'.at \in {"none", "restore"}
    BY <1>14 DEF DeleteRefused, DeleteRowFails, DeleteRestore, DelStep, NoDelete, house, TypeOK
  <2>2. Revoking => Awaited' \/ del'.at = "restore" \/ status' = "pending"
    BY <1>14
    DEF DeleteRefused, DeleteRowFails, DeleteRestore, DelStep, TypeOK, Revoking, Awaited
  <2>3. Awaited => Awaited'
    BY <1>14, OthersKeepAwaited DEF Delete
  <2> QED
    BY <2>1, <2>2, <2>3 DEF ReadyInv, Revoking
<1> QED
  BY <1>1, <1>2, <1>3, <1>4, <1>5, <1>6, <1>7, <1>8, <1>9, <1>10, <1>11, <1>12, <1>13,
      <1>14, WhoSteps
  DEF RunStep, Delete
-----------------------------------------------------------------------------
(* The sessions. *)

(* Who is trusted afterwards was so before, with the same roles.            *)
NoNewTrust == \A q \in Serving : Trusted(q)' => Trusted(q) /\ session'[q].roles = session[q].roles

(* An invalidation leaves no trusted session that it is not on its way to.  *)
LEMMA InvalidatedTells ==
  ASSUME TypeOK, NEW r, Invalidated(r)
  PROVE  /\ NoNewTrust /\ inbox \subseteq inbox'
         /\ \A q \in Serving : Trusted(q)' => q \in inbox'
<1> SUFFICES ASSUME NEW q \in Serving, Trusted(q)'
             PROVE  /\ Trusted(q) /\ session'[q].roles = session[q].roles
                    /\ inbox \subseteq inbox' /\ q \in inbox'
  BY DEF Invalidated, NoNewTrust
<1> PICK heard \in SUBSET Serving :
      /\ inbox' = inbox \cup heard
      /\ session' = [p \in Serving |->
           IF p = r THEN NoSession
           ELSE [session[p] EXCEPT !.deaf = @ \/ (session[p].open /\ p \notin heard \cup inbox)]]
  BY DEF Invalidated
<1>1. CASE q = r
  <2>1. ~session'[q].open
    BY <1>1 DEF NoSession
  <2> QED
    BY <2>1 DEF Trusted
<1>2. CASE q # r
  <2> DEFINE old == session[q]
             b   == old.deaf \/ (old.open /\ q \notin heard \cup inbox)
  <2>1. session'[q] = [old EXCEPT !.deaf = b]
    BY <1>2
  <2>2. old \in SessionType
    BY DEF TypeOK, SessionType
  <2>3. /\ session'[q].open = old.open /\ session'[q].late = old.late
        /\ session'[q].roles = old.roles /\ session'[q].deaf = b
    BY <2>1, <2>2 DEF SessionType
  <2>4. old.open /\ ~old.late /\ ~b
    BY <2>3 DEF Trusted
  <2> QED
    BY <2>3, <2>4 DEF Trusted
<1> QED
  BY <1>1, <1>2

(* Sessions that are told of nothing are trusted no more. *)
LEMMA UnheardNotTrusted ==
  ASSUME TypeOK, NEW q \in Serving
  PROVE  /\ Unheard(session[q]).open = session[q].open
         /\ session[q].open => Unheard(session[q]).deaf
BY DEF TypeOK, Unheard

(* What happens outside runs and deletes opens no trusted stale session.    *)
LEMMA OutsideSessions ==
  ASSUME TypeOK, LockInv, GateClosedWhileApplying, SessionInv, Outside
  PROVE  SessionInv'
<1>1. UNCHANGED <<run, del, actual>>
  BY OutsideKeeps
<1>2. CASE UNCHANGED <<session, inbox>>
  BY <1>1, <1>2 DEF SessionInv, Trusted, Held, At
<1>3. ASSUME NEW r \in Serving, Deliver(r)
      PROVE  SessionInv'
  <2>1. /\ \A q \in Serving : q # r => session'[q] = session[q]
        /\ ~session'[r].open /\ inbox' = inbox \ {r}
    BY <1>3 DEF Deliver, NoSession, TypeOK
  <2> QED
    BY <1>1, <2>1 DEF SessionInv, Trusted, Held, At
<1>4. ASSUME NEW r \in Serving, CloseIdle(r)
      PROVE  SessionInv'
  <2>1. /\ \A q \in Serving : q # r => session'[q] = session[q]
        /\ ~session'[r].open /\ inbox' = inbox
    BY <1>4 DEF CloseIdle, NoSession, TypeOK
  <2> QED
    BY <1>1, <2>1 DEF SessionInv, Trusted, Held, At
<1>5. ASSUME NEW r \in Serving, UseSession(r)
      PROVE  SessionInv'
  <2>1. inbox' = inbox /\ \A q \in Serving : q # r => session'[q] = session[q]
    BY <1>5 DEF UseSession, TypeOK
  <2>2. CASE session' = session
    BY <1>1, <1>2, <2>1, <2>2
  <2>3. CASE session' # session
    <3>1. actual # Absent /\ session'[r].roles = actual
      BY <1>5, <2>3 DEF UseSession, TypeOK
    <3>2. session'[r].late = ~(row /\ status = "ready")
      BY <1>5, <2>3 DEF UseSession, TypeOK
    <3>3. Trusted(r)' => \A p \in Replicas : ~At(p, "apply")
      BY <3>2 DEF Trusted, GateClosedWhileApplying, At
    <3> QED
      BY <1>1, <2>1, <3>1, <3>3 DEF SessionInv, Trusted, Held, At
  <2> QED
    BY <2>2, <2>3
<1>6. \/ UNCHANGED <<session, inbox>>
      \/ \E r \in Serving : Deliver(r) \/ CloseIdle(r) \/ UseSession(r)
  BY DEF Outside, ChangeAccess, SetProvisioner, LoseProvisioner, Tick, PassGate,
         ClearProvisioner, Drift, vars, pools
<1> QED
  BY <1>2, <1>3, <1>4, <1>5, <1>6


(* Access is taken away behind an invalidation, or in front of one. *)
LEMMA SessionStep ==
  ASSUME TypeOK, LockInv, PlanInv, GateClosedWhileApplying, SessionInv, [Next]_vars
  PROVE  SessionInv'
<1>1. CASE Outside
  BY <1>1, OutsideSessions
<1>2. ASSUME NEW r \in Replicas, LoadHeader(r) \/ HeaderFails(r) \/ TakeLock(r) \/
            SkipLocked(r) \/ LoadProvisioner(r) \/ SetSyncing(r) \/ ReadDesired(r) \/
            ReadActual(r) \/ SetReady(r)
      PROVE  SessionInv'
  <2>1. Goes(r, Places, Places \ {"apply"})
    BY <1>2, Moves DEF Goes, Places
  <2>2. UNCHANGED <<session, inbox, del, actual>>
    BY <1>2
    DEF LoadHeader, HeaderFails, TakeLock, SkipLocked, LoadProvisioner, SetSyncing,
        ReadDesired, ReadActual, SetReady, pools, house
  <2> QED
    BY <2>1, <2>2 DEF SessionInv, Trusted, Held, At, Goes
<1>3. ASSUME NEW r \in Replicas, StatusWriteFails(r) \/ RunFails(r) \/ ProvisionerMissing(r)
      PROVE  SessionInv'
  <2>1. Goes(r, Places, Places \ {"apply"})
    BY <1>3, Failures DEF Goes, Places
  <2>2. UNCHANGED <<session, inbox, del, actual>>
    BY <1>3 DEF StatusWriteFails, RunFails, ProvisionerMissing, pools, house
  <2> QED
    BY <2>1, <2>2 DEF SessionInv, Trusted, Held, At, Goes
<1>4. ASSUME NEW r \in Replicas, FailClosed(r)
      PROVE  SessionInv'
  <2>1. Goes(r, Places, Places \ {"apply"}) /\ UNCHANGED <<del, actual>>
    BY <1>4, Failures DEF FailClosed, Goes, Places, house
  <2>2. CASE UNCHANGED <<session, inbox>>
    BY <2>1, <2>2 DEF SessionInv, Trusted, Held, At, Goes
  <2>3. CASE Invalidated(r)
    BY <2>1, <2>3, InvalidatedTells DEF SessionInv
  <2> QED
    BY <1>4, <2>2, <2>3 DEF FailClosed
<1>5. ASSUME NEW r \in Replicas, InvalidateFirst(r)
      PROVE  SessionInv'
  BY <1>5, InvalidatedTells DEF InvalidateFirst, SessionInv
<1>6. ASSUME NEW r \in Replicas, ExecStatement(r)
      PROVE  SessionInv'
  <2>1. Goes(r, {"apply"}, {"apply", "applied"}) /\ UNCHANGED <<session, inbox, del>>
    BY <1>6, ExecGoes DEF ExecStatement, pools
  <2>2. \A q \in Serving : Trusted(q) => q \in inbox
    BY <2>1 DEF SessionInv, Goes, At
  <2> QED
    BY <2>1, <2>2 DEF SessionInv, Trusted
<1>7. ASSUME NEW r \in Replicas, Restart(r)
      PROVE  SessionInv'
  <2>1. Goes(r, Places, {"idle"}) /\ actual' = actual /\ inbox' = inbox \ {r}
    BY <1>7, RestartGoes DEF Restart, Goes, Places, house, TypeOK
  <2>2. ASSUME NEW q \in Serving, Trusted(q)'
        PROVE  /\ q # r /\ session'[q] = session[q]
               /\ del.at = "invalidate" => del' = del
    <3>1. session'[q] = IF q = r THEN NoSession
                        ELSE IF del.at = "invalidate" /\ del.by = r THEN Unheard(session[q])
                        ELSE session[q]
      BY <1>7 DEF Restart
    <3>2. del.by # r => del' = del
      BY <1>7 DEF Restart
    <3> QED
      BY <2>2, <3>1, <3>2, UnheardNotTrusted DEF Trusted, NoSession
  <2> QED
    BY <2>1, <2>2 DEF SessionInv, Trusted, Held, At, Goes
<1>8. ASSUME NEW r \in Replicas, DeleteBegin(r)
      PROVE  SessionInv'
  BY <1>8 DEF DeleteBegin, SessionInv, Trusted, Held, At, pools, house
<1>9. CASE DeleteDrop
  <2>1. UNCHANGED <<run, session, inbox>>
    BY <1>9 DEF DeleteDrop, pools
  <2>2. del.at # "invalidate" /\ (actual' = actual \/ del'.at = "invalidate")
    BY <1>9 DEF DeleteDrop, TypeOK
  <2> QED
    BY <2>1, <2>2 DEF SessionInv, Trusted, Held, At
<1>10. CASE DropFails
  <2>1. UNCHANGED <<run, inbox>> /\ del.at # "invalidate"
    BY <1>10 DEF DropFails
  <2>2. CASE UNCHANGED <<actual, session>>
    BY <2>1, <2>2 DEF SessionInv, Trusted, Held, At
  <2>3. CASE session' = [q \in Serving |-> Unheard(session[q])]
    BY <2>3, UnheardNotTrusted DEF SessionInv, Trusted
  <2> QED
    BY <1>10, <2>2, <2>3 DEF DropFails
<1>11. CASE DeleteInvalidate
  BY <1>11, InvalidatedTells DEF DeleteInvalidate, SessionInv
<1>12. CASE DeleteRow \/ DeleteRefused \/ DeleteRowFails \/ DeleteRestore
  <2>1. UNCHANGED <<run, session, inbox, actual>> /\ del.at # "invalidate"
    BY <1>12 DEF DeleteRow, DeleteRefused, DeleteRowFails, DeleteRestore, pools, house
  <2> QED
    BY <2>1 DEF SessionInv, Trusted, Held, At
<1> QED
  BY <1>1, <1>2, <1>3, <1>4, <1>5, <1>6, <1>7, <1>8, <1>9, <1>10, <1>11, <1>12, WhoSteps
  DEF RunStep, Delete
-----------------------------------------------------------------------------
(* The invariant holds at the start,                                        *)
LEMMA InitInv ==
  ASSUME Init
  PROVE  IInv
<1>1. \A r \in Replicas : run[r] = NoRun
  BY DEF Init
<1>2. \A q \in Serving : session[q] = NoSession
  BY DEF Init
<1>3. TypeOK
  <2>1. run \in [Replicas -> RunType] /\ session \in [Serving -> SessionType]
    BY NoRunTyped DEF Init, NoSession, SessionType
  <2>2. del \in DeleteType
    BY DEF Init, NoDelete, DeleteType
  <2>3. 0 \in 0..MaxChanges /\ 0 \in 0..MaxFaults
    BY BoundsAssumption
  <2>4. desired \in Access /\ actual \in Access
    BY DEF Init, Access
  <2> QED
    BY <2>1, <2>2, <2>3, <2>4
    DEF Init, TypeOK, RunType, Places, SessionType, DeleteType
<1>4. AttemptInv /\ LockInv /\ RowInv /\ OrphanInv /\ PlanInv
  BY <1>1
  DEF Init, AttemptInv, LockInv, RowInv, OrphanInv, PlanInv, NoRun, NoDelete, At, Holding
<1>5. GateClosedWhileApplying /\ WantInv /\ ReadyInv
  BY <1>1 DEF Init, GateClosedWhileApplying, WantInv, ReadyInv, NoRun, NoDelete, Informed
<1>6. SessionInv
  BY <1>2 DEF SessionInv, Trusted, NoSession
<1> QED
  BY <1>3, <1>4, <1>5, <1>6 DEF IInv

(* every step preserves it,                                                 *)
LEMMA NextInv ==
  ASSUME IInv, [Next]_vars
  PROVE  IInv'
BY TypeStep, LockStep, GateStep, RowStep, OrphanStep, PlanStep, WantStep, ReadyStep, SessionStep
DEF IInv

(* and so it always holds.                                                  *)
LEMMA Invariant == Spec => []IInv
<1>1. Init => IInv
  BY InitInv
<1>2. IInv /\ [Next]_vars => IInv'
  BY NextInv
<1> QED
  BY <1>1, <1>2, PTL DEF Spec

(* Every reachable state is of the declared types; among them that no run   *)
(* is attempted more than MaxAttempts times (sync.go, run).                 *)
THEOREM TypeCorrect == Spec => []TypeOK
<1>1. IInv => TypeOK
  BY DEF IInv
<1> QED
  BY <1>1, Invariant, PTL

(* However many replicas reconcile, change, delete, crash and fail, nobody  *)
(* passes the sync_status gate between the moment a run says it is syncing  *)
(* and the moment it says ready or fails: the advisory lock of              *)
(* reconcileWarehouse has one holder, and only its holder writes ready.     *)
THEOREM GateClosed == Spec => []GateClosedWhileApplying
<1>1. IInv => GateClosedWhileApplying
  BY DEF IInv
<1> QED
  BY <1>1, Invariant, PTL

(* A warehouse at rest that says ready enforces what was last asked for,    *)
(* unless the run for it was lost: between a change and the status that     *)
(* follows it there is always a run that is owed, or that has started and   *)
(* not yet read (warehouse_sync_triggers.go, reconcileWarehouse).           *)
THEOREM ReadyMeansCurrent == Spec => []ReadyIsCurrent
<1>1. IInv => ReadyIsCurrent
  <2> SUFFICES ASSUME IInv, row, status = "ready", Quiet, ~missed
               PROVE  actual = desired
    BY DEF ReadyIsCurrent
  <2>1. owed = {} /\ del.at = "none" /\ \A r \in Replicas : run[r].at = "idle"
    BY DEF Quiet, NoDelete, NoRun
  <2>2. ~Awaited /\ ~Revoking
    BY <2>1 DEF Awaited, Revoking
  <2> QED
    BY <2>1, <2>2 DEF IInv, ReadyInv
<1> QED
  BY <1>1, Invariant, PTL

(* At rest no pooled session has a role that its user lost, unless it was   *)
(* opened behind a closed gate or no invalidation reached it: the sessions  *)
(* are told before the statements of a run and after those of a delete.     *)
THEOREM SessionsFresh == Spec => []NoStaleSession
<1>1. IInv => NoStaleSession
  BY DEF IInv, SessionInv, Trusted, NoStaleSession, Quiet, NoDelete
<1> QED
  BY <1>1, Invariant, PTL

(* A delete that removes the row of a warehouse any run ever brought in     *)
(* step leaves no identity behind (handleDeleteWarehouse): it found a       *)
(* provisioner and revoked, and no run has executed a statement since.      *)
THEOREM DeleteLeavesNoIdentity == Spec => []NoOrphanOnceProvisioned
<1>1. IInv => NoOrphanOnceProvisioned
  BY DEF IInv, OrphanInv, NoOrphanOnceProvisioned
<1> QED
  BY <1>1, Invariant, PTL
=============================================================================
