----------------------------- MODULE SyncService -----------------------------
(***************************************************************************)
(* The in-process warehouse access sync worker, chaccess.SyncService.      *)
(*                                                                         *)
(* enqueue coalesces requests per warehouse under s.mu; the first request  *)
(* for a warehouse starts a goroutine that debounces, takes one of         *)
(* MaxConcurrent slots, reconciles with retries and loops while a rerun    *)
(* was asked for.  A goroutine's kick channel belongs to it alone, so the  *)
(* goroutine's own name stands for the channel.                            *)
(*                                                                         *)
(* What the configured Reconcile does is the subject of WarehouseAccess;   *)
(* here a call starts, and later returns nil or an error (a panic is       *)
(* recovered into an error).                                               *)
(***************************************************************************)
EXTENDS Naturals, FiniteSets

CONSTANTS
  Warehouses,     \* the warehouses that are asked for
  Workers,        \* goroutine slots: bounds how many goroutines exist at once
  MaxAttempts,    \* SyncConfig.MaxAttempts
  MaxConcurrent,  \* SyncConfig.MaxConcurrent
  None            \* no kick channel registered; no warehouse

ASSUME WorkersAssumption == IsFiniteSet(Workers) /\ None \notin Workers \cup Warehouses
ASSUME LimitsAssumption ==
  /\ MaxAttempts \in Nat \ {0}      \* NewSyncService replaces values <= 0
  /\ MaxConcurrent \in Nat \ {0}

VARIABLES
  queued,     \* s.queued
  active,     \* s.active
  rerun,      \* s.rerun
  kicks,      \* s.kicks: warehouse -> the worker that reads the channel
  closed,     \* s.closed
  cancelled,  \* s.ctx is done
  sem,        \* tokens in s.sem
  wg,         \* the counter of s.wg
  pc,         \* where each goroutine stands
  job,        \* the warehouseID argument of each goroutine
  attempt,    \* the loop variable of run
  buffered,   \* the workers whose kick channel holds a value
  closing,    \* where the caller of Close stands
  unseen,     \* history: an accepted request no attempt has started after
  urgent      \* history: the same for EnqueueNow

maps  == <<queued, active, rerun>>
svc   == <<closed, cancelled, closing>>
hist  == <<unseen, urgent>>
vars  == <<maps, kicks, svc, sem, wg, pc, job, attempt, buffered, hist>>

(* idle: no goroutine.  debounce: in the select of worker.  woken: past it, *)
(* s.mu not yet taken.  slot: waiting to send on s.sem.  reconcile: inside  *)
(* Reconcile.  backoff: between attempts.  release: run returned.  settle:  *)
(* slot given back, s.mu not yet taken.  cleanup and done: the two defers.  *)
PCs == {"idle", "debounce", "woken", "slot", "reconcile", "backoff",
        "release", "settle", "cleanup", "done"}

HoldsSlot == {"reconcile", "backoff", "release"}
InRun == {"slot", "settle"} \cup HoldsSlot

Goto(g, to) == pc' = [pc EXCEPT ![g] = to]

Init ==
  /\ queued = {} /\ active = {} /\ rerun = {}
  /\ kicks = [w \in Warehouses |-> None]
  /\ closed = FALSE /\ cancelled = FALSE /\ closing = "open"
  /\ sem = 0 /\ wg = 0
  /\ pc = [g \in Workers |-> "idle"]
  /\ job = [g \in Workers |-> None]
  /\ attempt = [g \in Workers |-> 0]
  /\ buffered = {}
  /\ unseen = {} /\ urgent = {}
-----------------------------------------------------------------------------
(* enqueue, one critical section of s.mu. *)

(* Mutant: the closed check is missing. *)
AcceptedAfterClose(w, now) ==
  /\ unseen' = unseen \cup {w}
  /\ urgent' = IF now THEN urgent \cup {w} ELSE urgent

Accepted(w, now) ==
  /\ ~closed
  /\ unseen' = unseen \cup {w}
  /\ urgent' = IF now THEN urgent \cup {w} ELSE urgent

(* The non-blocking send to the registered channel of capacity one. *)
Kicked(w, now) ==
  IF now /\ kicks[w] # None THEN buffered \cup {kicks[w]} ELSE buffered

(* Mutant: a request during a run returns without the rerun flag. *)
EnqueueActiveNoRerun(w, now) ==
  /\ w \in active
  /\ Accepted(w, now)
  /\ buffered' = Kicked(w, now)
  /\ UNCHANGED <<maps, kicks, svc, sem, wg, pc, job, attempt>>

EnqueueActive(w, now) ==
  /\ w \in active
  /\ Accepted(w, now)
  /\ buffered' = Kicked(w, now)
  /\ rerun' = rerun \cup {w}
  /\ UNCHANGED <<queued, active, kicks, svc, sem, wg, pc, job, attempt>>

EnqueueQueued(w, now) ==
  /\ w \notin active /\ w \in queued
  /\ Accepted(w, now)
  /\ buffered' = Kicked(w, now)
  /\ UNCHANGED <<maps, kicks, svc, sem, wg, pc, job, attempt>>

(* A new goroutine with a new, empty kick channel. *)
EnqueueStart(w, now, g) ==
  /\ w \notin active /\ w \notin queued
  /\ Accepted(w, now)
  /\ pc[g] = "idle"
  /\ queued' = queued \cup {w}
  /\ kicks' = [kicks EXCEPT ![w] = g]
  /\ buffered' = IF now THEN Kicked(w, now) \cup {g} ELSE buffered \ {g}
  /\ wg' = wg + 1
  /\ Goto(g, "debounce")
  /\ job' = [job EXCEPT ![g] = w]
  /\ UNCHANGED <<active, rerun, svc, sem, attempt>>

Enqueue(w) == 
  \/ EnqueueActive(w, FALSE) 
  \/ EnqueueQueued(w, FALSE) 
  \/ \E g \in Workers : EnqueueStart(w, FALSE, g)

EnqueueNow(w) == 
  \/ EnqueueActive(w, TRUE) 
  \/ EnqueueQueued(w, TRUE) 
  \/ \E g \in Workers : EnqueueStart(w, TRUE, g)
-----------------------------------------------------------------------------
(* worker *)

(* The select: the debounce timer, which leaves the channel as it is, or a  *)
(* buffered kick, which is received.                                        *)
WakeByTimer(g) ==
  /\ pc[g] = "debounce"
  /\ Goto(g, "woken")
  /\ UNCHANGED <<maps, kicks, svc, sem, wg, job, attempt, buffered, hist>>

WakeByKick(g) ==
  /\ pc[g] = "debounce" /\ g \in buffered
  /\ buffered' = buffered \ {g}
  /\ Goto(g, "woken")
  /\ UNCHANGED <<maps, kicks, svc, sem, wg, job, attempt, hist>>

(* Mutants: the run does not enter active; the entry stays in queued. *)
ActivateUnmarked(g) ==
  /\ pc[g] = "woken"
  /\ queued' = queued \ {job[g]}
  /\ Goto(g, "slot")
  /\ UNCHANGED <<active, rerun, kicks, svc, sem, wg, job, attempt, buffered, hist>>

ActivateStillQueued(g) ==
  /\ pc[g] = "woken"
  /\ active' = active \cup {job[g]}
  /\ Goto(g, "slot")
  /\ UNCHANGED <<queued, rerun, kicks, svc, sem, wg, job, attempt, buffered, hist>>

Activate(g) ==
  /\ pc[g] = "woken"
  /\ queued' = queued \ {job[g]}
  /\ active' = active \cup {job[g]}
  /\ Goto(g, "slot")
  /\ UNCHANGED <<rerun, kicks, svc, sem, wg, job, attempt, buffered, hist>>

(* A call of Reconcile starts; everything requested before is now seen. *)
StartAttempt(g, n) ==
  /\ attempt' = [attempt EXCEPT ![g] = n]
  /\ Goto(g, "reconcile")
  /\ unseen' = unseen \ {job[g]}
  /\ urgent' = urgent \ {job[g]}

(* Mutant: no slot is waited for. *)
AcquireUnbounded(g) ==
  /\ pc[g] = "slot"
  /\ sem' = IF sem < MaxConcurrent THEN sem + 1 ELSE sem
  /\ StartAttempt(g, 1)
  /\ UNCHANGED <<maps, kicks, svc, wg, job, buffered>>

AcquireSlot(g) ==
  /\ pc[g] = "slot" /\ sem < MaxConcurrent
  /\ sem' = sem + 1
  /\ StartAttempt(g, 1)
  /\ UNCHANGED <<maps, kicks, svc, wg, job, buffered>>

ReconcileOk(g) ==
  /\ pc[g] = "reconcile"
  /\ Goto(g, "release")
  /\ UNCHANGED <<maps, kicks, svc, sem, wg, job, attempt, buffered, hist>>

(* Mutant: one attempt too many. *)
ReconcileFailLate(g) ==
  /\ pc[g] = "reconcile"
  /\ Goto(g, IF attempt[g] > MaxAttempts THEN "release" ELSE "backoff")
  /\ UNCHANGED <<maps, kicks, svc, sem, wg, job, attempt, buffered, hist>>

(* An error: the last attempt gives up, the others back off. *)
ReconcileFail(g) ==
  /\ pc[g] = "reconcile"
  /\ Goto(g, IF attempt[g] = MaxAttempts THEN "release" ELSE "backoff")
  /\ UNCHANGED <<maps, kicks, svc, sem, wg, job, attempt, buffered, hist>>

(* Mutant: the attempts are not counted. *)
RetryUncounted(g) ==
  /\ pc[g] = "backoff"
  /\ StartAttempt(g, attempt[g])
  /\ UNCHANGED <<maps, kicks, svc, sem, wg, job, buffered>>

Retry(g) ==
  /\ pc[g] = "backoff"
  /\ StartAttempt(g, attempt[g] + 1)
  /\ UNCHANGED <<maps, kicks, svc, sem, wg, job, buffered>>

BackoffCancelled(g) ==
  /\ pc[g] = "backoff" /\ cancelled
  /\ Goto(g, "release")
  /\ UNCHANGED <<maps, kicks, svc, sem, wg, job, attempt, buffered, hist>>

ReleaseSlot(g) ==
  /\ pc[g] = "release"
  /\ sem' = sem - 1
  /\ attempt' = [attempt EXCEPT ![g] = 0]
  /\ Goto(g, "settle")
  /\ UNCHANGED <<maps, kicks, svc, wg, job, buffered, hist>>

(* Mutant: the follow-up leaves its rerun flag set. *)
SettleAgainFlagKept(g) ==
  /\ pc[g] = "settle" /\ job[g] \in rerun
  /\ Goto(g, "debounce")
  /\ UNCHANGED <<maps, kicks, svc, sem, wg, job, attempt, buffered, hist>>

(* Mutant: the rerun flag is read before the lock, when the run returned. *)
SettleDoneUnchecked(g) ==
  /\ pc[g] = "settle"
  /\ active' = active \ {job[g]}
  /\ Goto(g, "cleanup")
  /\ UNCHANGED <<queued, rerun, kicks, svc, sem, wg, job, attempt, buffered, hist>>

(* The last critical section of the loop: follow up or leave active. *)
SettleAgain(g) ==
  /\ pc[g] = "settle" /\ job[g] \in rerun
  /\ rerun' = rerun \ {job[g]}
  /\ Goto(g, "debounce")
  /\ UNCHANGED <<queued, active, kicks, svc, sem, wg, job, attempt, buffered, hist>>

SettleDone(g) ==
  /\ pc[g] = "settle" /\ job[g] \notin rerun
  /\ active' = active \ {job[g]}
  /\ Goto(g, "cleanup")
  /\ UNCHANGED <<queued, rerun, kicks, svc, sem, wg, job, attempt, buffered, hist>>

(* Mutant: whatever channel is registered is deleted. *)
CleanupAny(g) ==
  /\ pc[g] = "cleanup"
  /\ kicks' = [kicks EXCEPT ![job[g]] = None]
  /\ Goto(g, "done")
  /\ UNCHANGED <<maps, svc, sem, wg, job, attempt, buffered, hist>>

(* The deferred delete of the worker's own channel, and of no other. *)
Cleanup(g) ==
  /\ pc[g] = "cleanup"
  /\ kicks' = IF kicks[job[g]] = g THEN [kicks EXCEPT ![job[g]] = None] ELSE kicks
  /\ Goto(g, "done")
  /\ UNCHANGED <<maps, svc, sem, wg, job, attempt, buffered, hist>>

WorkerDone(g) ==
  /\ pc[g] = "done"
  /\ wg' = wg - 1
  /\ Goto(g, "idle")
  /\ job' = [job EXCEPT ![g] = None]
  /\ buffered' = buffered \ {g}
  /\ UNCHANGED <<maps, kicks, svc, sem, attempt, hist>>
-----------------------------------------------------------------------------
(* Close *)

CloseReject ==
  /\ closing = "open"
  /\ closed' = TRUE
  /\ closing' = "rejecting"
  /\ UNCHANGED <<maps, kicks, cancelled, sem, wg, pc, job, attempt, buffered, hist>>

CloseCancel ==
  /\ closing = "rejecting"
  /\ cancelled' = TRUE
  /\ closing' = "waiting"
  /\ UNCHANGED <<maps, kicks, closed, sem, wg, pc, job, attempt, buffered, hist>>

CloseReturn ==
  /\ closing = "waiting" /\ wg = 0
  /\ closing' = "returned"
  /\ UNCHANGED <<maps, kicks, closed, cancelled, sem, wg, pc, job, attempt, buffered, hist>>
-----------------------------------------------------------------------------
WorkerStep(g) ==
  \/ WakeByTimer(g) \/ WakeByKick(g) \/ Activate(g) \/ AcquireSlot(g)
  \/ ReconcileOk(g) \/ ReconcileFail(g) \/ Retry(g) \/ BackoffCancelled(g)
  \/ ReleaseSlot(g) \/ SettleAgain(g) \/ SettleDone(g)
  \/ Cleanup(g) \/ WorkerDone(g)

Close == CloseReject \/ CloseCancel \/ CloseReturn

(* The process may stop here: every other state must have a step. *)
Terminated == closing = "returned" /\ UNCHANGED vars

Next ==
  \/ \E w \in Warehouses : Enqueue(w) \/ EnqueueNow(w)
  \/ \E g \in Workers : WorkerStep(g)
  \/ Close
  \/ Terminated

Spec == Init /\ [][Next]_vars

(* A goroutine keeps running (its timers fire and Reconcile returns: its    *)
(* context is cancelled by Close and its database calls are bounded by it), *)
(* and senders blocked on s.sem are served in order, so a slot that keeps   *)
(* becoming free reaches every waiter.  Nobody has to enqueue or to close,  *)
(* but a Close that has begun goes on.                                      *)
Fairness ==
  /\ \A g \in Workers : WF_vars(WorkerStep(g)) /\ SF_vars(AcquireSlot(g))
  /\ WF_vars(CloseCancel) /\ WF_vars(CloseReturn)

FairSpec == Spec /\ Fairness
-----------------------------------------------------------------------------
TypeOK ==
  /\ queued \subseteq Warehouses /\ active \subseteq Warehouses
  /\ rerun \subseteq Warehouses
  /\ kicks \in [Warehouses -> Workers \cup {None}]
  /\ closed \in BOOLEAN /\ cancelled \in BOOLEAN
  /\ closing \in {"open", "rejecting", "waiting", "returned"}
  /\ sem \in 0..MaxConcurrent /\ wg \in Nat
  /\ pc \in [Workers -> PCs]
  /\ job \in [Workers -> Warehouses \cup {None}]
  /\ attempt \in [Workers -> 0..MaxAttempts]
  /\ buffered \subseteq Workers
  /\ unseen \subseteq Warehouses /\ urgent \subseteq Warehouses

(* SyncService "runs a single reconciliation per warehouse at a time"       *)
(* (sync.go:37): from the moment a run enters active to its settlement, the *)
(* wait for a slot included, no second goroutine is in a run of the same    *)
(* warehouse, also while that of an earlier drain is still in its defers.   *)
SingleFlight ==
  \A g, h \in Workers :
    (pc[g] \in InRun /\ pc[h] \in InRun /\ job[g] = job[h]) => g = h

(* At most MaxConcurrent reconciles are in flight across all warehouses     *)
(* (sync.go:144), retries and back-offs included.                           *)
ConcurrencyCap ==
  Cardinality({g \in Workers : pc[g] \in HoldsSlot}) <= MaxConcurrent

BeforeRun == {"debounce", "woken", "slot"}

(* "so the change is not lost" (sync.go:94): a warehouse with a request     *)
(* that no attempt has started after still has a goroutine that will start  *)
(* one, either on its way to a run or bound to see the rerun flag.          *)
NoLostRequest ==
  \A w \in unseen : \E g \in Workers :
    /\ job[g] = w
    /\ \/ pc[g] \in BeforeRun
       \/ w \in rerun /\ pc[g] \in HoldsSlot \cup {"settle"}

(* EnqueueNow "skips the debounce delay" (sync.go:100): no goroutine sleeps *)
(* on its debounce timer while an EnqueueNow for its warehouse is unserved, *)
(* whichever of the two channels of successive goroutines was registered.   *)
PromptWake ==
  \A g \in Workers : (pc[g] = "debounce" /\ job[g] \in urgent) => g \in buffered

(* Nothing is left in the maps for a warehouse that has no goroutine: an    *)
(* entry of queued or active that outlived its goroutine would swallow      *)
(* every later request for the warehouse.                                   *)
NoStrayEntry ==
  \A w \in Warehouses :
    \/ \E g \in Workers : job[g] = w /\ pc[g] # "done"
    \/ w \notin queued \cup active \cup rerun /\ kicks[w] = None

(* Close "waits for queued and active work to finish" and work accepted     *)
(* before it "still gets its first attempt" (sync.go:234): once Close has   *)
(* returned there is no goroutine and no unserved request.                  *)
CloseDrains ==
  closing = "returned" => unseen = {} /\ \A g \in Workers : pc[g] = "idle"

(* Every accepted request is followed by the start of an attempt, closed or *)
(* not.                                                                     *)
RequestServed == \A w \in Warehouses : w \in unseen ~> w \notin unseen

(* A Close that has begun returns.                                          *)
CloseReturns == closing = "rejecting" ~> closing = "returned"
-----------------------------------------------------------------------------
(* The refinement mapping to the promise.  A run is owed by a goroutine on  *)
(* its way to one, and another by a rerun flag.                             *)
Waiting(w) == \E g \in Workers : job[g] = w /\ pc[g] \in BeforeRun
Running(w) == \E g \in Workers : job[g] = w /\ pc[g] \in HoldsSlot

Owed(w) == (IF Waiting(w) THEN 1 ELSE 0) + (IF w \in rerun THEN 1 ELSE 0)

Coalesced == INSTANCE CoalescedSync WITH
  demand    <- [w \in Warehouses |-> Owed(w)],
  running   <- {w \in Warehouses : Running(w)},
  accepting <- ~closed,
  drained   <- closing = "returned"

(* The worker implements what it promises, step by step: no request         *)
(* coalesces into a run that has started, no run is started that was not    *)
(* asked for, no two runs of a warehouse overlap.                           *)
ImplementsCoalescedSync == Coalesced!Spec

(* Under the fairness of goroutines and channels, every run that is owed    *)
(* starts and every run that started ends.                                  *)
ImplementsFairness == Coalesced!Fairness
=============================================================================
