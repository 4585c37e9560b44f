-------------------------- MODULE SyncServiceProofs --------------------------
(***************************************************************************)
(* SyncService is correct for any set of warehouses and goroutines, any    *)
(* number of attempts and of slots.  The inductive invariant says which    *)
(* goroutine a map entry stands for: the drainer of a warehouse is the one *)
(* goroutine between its start and its last critical section, it is the    *)
(* reason the warehouse is queued or active, and its channel is the one    *)
(* that is registered.  The second half shows that the worker implements   *)
(* the promise of CoalescedSync.                                           *)
(***************************************************************************)
EXTENDS SyncService, FiniteSetTheorems, TLAPS

Draining == BeforeRun \cup HoldsSlot \cup {"settle"}

(* A goroutine slot is free exactly when it has no warehouse. *)
JobInv == \A g \in Workers : pc[g] = "idle" <=> job[g] = None

(* The attempts of a run are counted from one, and only a run with attempts *)
(* left backs off.                                                          *)
AttemptInv == \A g \in Workers :
  pc[g] = "backoff" => attempt[g] < MaxAttempts

OneDrainer == \A g, h \in Workers :
  (pc[g] \in Draining /\ pc[h] \in Draining /\ job[g] = job[h]) => g = h

(* queued and active are about a drainer, and every drainer is in one. *)
EntryInv ==
  /\ \A w \in queued \cup active : \E g \in Workers : pc[g] \in Draining /\ job[g] = w
  /\ \A g \in Workers : pc[g] \in Draining => job[g] \in queued \cup active
  /\ \A g \in Workers : pc[g] \in Draining \ {"debounce", "woken"} => job[g] \in active \ queued
  /\ rerun \subseteq active

(* The registered channel is the drainer's, or that of a goroutine that has *)
(* yet to run its deferred delete.                                          *)
KickInv ==
  /\ \A g \in Workers : pc[g] \in Draining => kicks[job[g]] = g
  /\ \A w \in Warehouses : kicks[w] # None =>
       /\ job[kicks[w]] = w
       /\ pc[kicks[w]] \in Draining \cup {"cleanup"}

Holders == {g \in Workers : pc[g] \in HoldsSlot}
Alive == {g \in Workers : pc[g] # "idle"}

CountInv ==
  /\ sem = Cardinality(Holders)
  /\ wg = Cardinality(Alive)

(* PromptWake, and what keeps it: the kick is buffered from the request on, *)
(* unless a wake-up is already past the select, and an unserved EnqueueNow  *)
(* is an unserved request.                                                  *)
UrgentInv ==
  /\ urgent \subseteq unseen
  /\ \A g \in Workers :
       (pc[g] \in Draining \ {"woken", "slot"} /\ job[g] \in urgent) => g \in buffered

ClosedInv ==
  /\ closing # "open" => closed
  /\ closing = "returned" => wg = 0

IInv ==
  /\ TypeOK /\ JobInv /\ AttemptInv /\ OneDrainer /\ EntryInv
  /\ KickInv /\ CountInv /\ UrgentInv /\ NoLostRequest /\ ClosedInv
-----------------------------------------------------------------------------
(* What the two counters count is finite, so a holder keeps them above zero. *)
LEMMA Counting ==
  ASSUME IInv
  PROVE  /\ IsFiniteSet(Holders) /\ IsFiniteSet(Alive)
         /\ \A g \in Holders : sem > 0
         /\ \A g \in Alive : wg > 0
<1>1. Holders \subseteq Workers /\ Alive \subseteq Workers
  BY DEF Holders, Alive
<1>2. IsFiniteSet(Holders) /\ IsFiniteSet(Alive)
  BY <1>1, FS_Subset, WorkersAssumption
<1>3. /\ Cardinality(Holders) \in Nat /\ (Cardinality(Holders) = 0 <=> Holders = {})
      /\ Cardinality(Alive) \in Nat /\ (Cardinality(Alive) = 0 <=> Alive = {})
  BY <1>2, FS_CardinalityType, FS_EmptySet
<1>. QED
  BY <1>2, <1>3 DEF IInv, CountInv

(* A token in the channel for each holder, one unit of the wait group for   *)
(* each goroutine.                                                          *)
LEMMA CountStep == IInv /\ [Next]_vars => CountInv'
<1>. SUFFICES ASSUME IInv, [Next]_vars
              PROVE  CountInv'
  OBVIOUS
<1>. USE Counting DEF IInv, TypeOK, JobInv, CountInv, Goto, StartAttempt, maps, svc, hist, HoldsSlot
<1>1. ASSUME NEW g \in Workers, NEW S, S = Holders \/ S = Alive
      PROVE  /\ g \notin S => Cardinality(S \cup {g}) = Cardinality(S) + 1
             /\ g \in S => Cardinality(S \ {g}) = Cardinality(S) - 1
  <2>1. IsFiniteSet(S)
    BY <1>1, Counting
  <2>. QED
    BY <2>1, FS_AddElement, FS_RemoveElement
<1>2. ASSUME NEW w \in Warehouses, NEW now \in BOOLEAN, NEW g \in Workers, EnqueueStart(w, now, g)
      PROVE  CountInv'
  <2>1. Holders' = Holders /\ Alive' = Alive \cup {g} /\ g \notin Alive
    BY <1>2 DEF EnqueueStart, Holders, Alive
  <2>. QED
    BY <1>1, <1>2, <2>1 DEF EnqueueStart
<1>3. ASSUME NEW g \in Workers, AcquireSlot(g)
      PROVE  CountInv'
  <2>1. Alive' = Alive /\ Holders' = Holders \cup {g} /\ g \notin Holders
    BY <1>3 DEF AcquireSlot, Holders, Alive
  <2>. QED
    BY <1>1, <1>3, <2>1 DEF AcquireSlot
<1>4. ASSUME NEW g \in Workers, ReleaseSlot(g)
      PROVE  CountInv'
  <2>1. Alive' = Alive /\ Holders' = Holders \ {g} /\ g \in Holders
    BY <1>4 DEF ReleaseSlot, Holders, Alive
  <2>. QED
    BY <1>1, <1>4, <2>1 DEF ReleaseSlot
<1>5. ASSUME NEW g \in Workers, WorkerDone(g)
      PROVE  CountInv'
  <2>1. Holders' = Holders /\ Alive' = Alive \ {g} /\ g \in Alive
    BY <1>5 DEF WorkerDone, Holders, Alive
  <2>. QED
    BY <1>1, <1>5, <2>1 DEF WorkerDone
<1>6. ASSUME NEW g \in Workers,
             \/ WakeByTimer(g) \/ WakeByKick(g) \/ Activate(g)
             \/ ReconcileOk(g) \/ ReconcileFail(g) \/ Retry(g) \/ BackoffCancelled(g)
             \/ SettleAgain(g) \/ SettleDone(g) \/ Cleanup(g)
      PROVE  CountInv'
  <2>1. Holders' = Holders /\ Alive' = Alive
    BY <1>6 DEF Holders, Alive, WakeByTimer, WakeByKick, Activate, ReconcileOk,
       ReconcileFail, Retry, BackoffCancelled, SettleAgain, SettleDone, Cleanup
  <2>2. sem' = sem /\ wg' = wg
    BY <1>6 DEF WakeByTimer, WakeByKick, Activate, ReconcileOk, ReconcileFail,
       Retry, BackoffCancelled, SettleAgain, SettleDone, Cleanup
  <2>. QED
    BY <2>1, <2>2
<1>7. ASSUME NEW w \in Warehouses, NEW now \in BOOLEAN,
             EnqueueActive(w, now) \/ EnqueueQueued(w, now)
      PROVE  CountInv'
  BY <1>7 DEF EnqueueActive, EnqueueQueued, Holders, Alive
<1>8. CASE Close \/ Terminated \/ UNCHANGED vars
  BY <1>8 DEF Close, CloseReject, CloseCancel, CloseReturn, Terminated, vars, Holders, Alive
<1>. QED
  BY <1>2, <1>3, <1>4, <1>5, <1>6, <1>7, <1>8 DEF Next, Enqueue, EnqueueNow, WorkerStep

(* Types, and the counters that keep them. *)
LEMMA TypeStep == IInv /\ [Next]_vars => (TypeOK /\ JobInv /\ AttemptInv)'
<1>. SUFFICES ASSUME IInv, [Next]_vars
              PROVE  (TypeOK /\ JobInv /\ AttemptInv)'
  OBVIOUS
<1>. USE WorkersAssumption, LimitsAssumption DEF IInv, TypeOK, JobInv, AttemptInv, Goto,
          StartAttempt, Accepted, Kicked, maps, svc, hist, PCs, HoldsSlot
<1>1. ASSUME NEW w \in Warehouses, NEW now \in BOOLEAN, EnqueueActive(w, now)
      PROVE  (TypeOK /\ JobInv /\ AttemptInv)'
  BY <1>1 DEF EnqueueActive
<1>2. ASSUME NEW w \in Warehouses, NEW now \in BOOLEAN, EnqueueQueued(w, now)
      PROVE  (TypeOK /\ JobInv /\ AttemptInv)'
  BY <1>2 DEF EnqueueQueued
<1>3. ASSUME NEW w \in Warehouses, NEW now \in BOOLEAN, NEW g \in Workers, EnqueueStart(w, now, g)
      PROVE  (TypeOK /\ JobInv /\ AttemptInv)'
  BY <1>3 DEF EnqueueStart
<1>4. ASSUME NEW g \in Workers, WakeByTimer(g)
      PROVE  (TypeOK /\ JobInv /\ AttemptInv)'
  BY <1>4 DEF WakeByTimer
<1>5. ASSUME NEW g \in Workers, WakeByKick(g)
      PROVE  (TypeOK /\ JobInv /\ AttemptInv)'
  BY <1>5 DEF WakeByKick
<1>6. ASSUME NEW g \in Workers, Activate(g)
      PROVE  (TypeOK /\ JobInv /\ AttemptInv)'
  BY <1>6 DEF Activate
<1>7. ASSUME NEW g \in Workers, AcquireSlot(g)
      PROVE  (TypeOK /\ JobInv /\ AttemptInv)'
  BY <1>7 DEF AcquireSlot
<1>8. ASSUME NEW g \in Workers, ReconcileOk(g)
      PROVE  (TypeOK /\ JobInv /\ AttemptInv)'
  BY <1>8 DEF ReconcileOk
<1>9. ASSUME NEW g \in Workers, ReconcileFail(g)
      PROVE  (TypeOK /\ JobInv /\ AttemptInv)'
  BY <1>9 DEF ReconcileFail
<1>10. ASSUME NEW g \in Workers, Retry(g)
      PROVE  (TypeOK /\ JobInv /\ AttemptInv)'
  BY <1>10 DEF Retry
<1>11. ASSUME NEW g \in Workers, BackoffCancelled(g)
      PROVE  (TypeOK /\ JobInv /\ AttemptInv)'
  BY <1>11 DEF BackoffCancelled
<1>12. ASSUME NEW g \in Workers, ReleaseSlot(g)
      PROVE  (TypeOK /\ JobInv /\ AttemptInv)'
  BY <1>12, Counting DEF ReleaseSlot, Holders
<1>13. ASSUME NEW g \in Workers, SettleAgain(g)
      PROVE  (TypeOK /\ JobInv /\ AttemptInv)'
  BY <1>13 DEF SettleAgain
<1>14. ASSUME NEW g \in Workers, SettleDone(g)
      PROVE  (TypeOK /\ JobInv /\ AttemptInv)'
  BY <1>14 DEF SettleDone
<1>15. ASSUME NEW g \in Workers, Cleanup(g)
      PROVE  (TypeOK /\ JobInv /\ AttemptInv)'
  BY <1>15 DEF Cleanup
<1>16. ASSUME NEW g \in Workers, WorkerDone(g)
      PROVE  (TypeOK /\ JobInv /\ AttemptInv)'
  BY <1>16, Counting DEF WorkerDone, Alive
<1>17. CASE CloseReject
  BY <1>17 DEF CloseReject
<1>18. CASE CloseCancel
  BY <1>18 DEF CloseCancel
<1>19. CASE CloseReturn
  BY <1>19 DEF CloseReturn
<1>20. CASE UNCHANGED vars
  BY <1>20 DEF vars, maps, svc, hist
<1>. QED
  BY <1>1, <1>2, <1>3, <1>4, <1>5, <1>6, <1>7, <1>8, <1>9, <1>10, <1>11, <1>12, <1>13, <1>14,
       <1>15, <1>16, <1>17, <1>18, <1>19, <1>20, Zenon DEF Next, Enqueue, EnqueueNow,
       WorkerStep, Close, Terminated

(* One drainer for each warehouse, and the entries that stand for it. *)
LEMMA DrainerStep == IInv /\ [Next]_vars => (OneDrainer /\ EntryInv)'
<1>. SUFFICES ASSUME IInv, [Next]_vars
              PROVE  (OneDrainer /\ EntryInv)'
  OBVIOUS
<1>. USE WorkersAssumption, LimitsAssumption DEF IInv, TypeOK, JobInv, OneDrainer, EntryInv,
          Goto, StartAttempt, Accepted, Kicked, maps, svc, hist, PCs, HoldsSlot, Draining,
          BeforeRun
<1>1. ASSUME NEW w \in Warehouses, NEW now \in BOOLEAN, EnqueueActive(w, now)
      PROVE  (OneDrainer /\ EntryInv)'
  BY <1>1 DEF EnqueueActive
<1>2. ASSUME NEW w \in Warehouses, NEW now \in BOOLEAN, EnqueueQueued(w, now)
      PROVE  (OneDrainer /\ EntryInv)'
  BY <1>2 DEF EnqueueQueued
<1>3. ASSUME NEW w \in Warehouses, NEW now \in BOOLEAN, NEW g \in Workers, EnqueueStart(w, now, g)
      PROVE  (OneDrainer /\ EntryInv)'
  BY <1>3 DEF EnqueueStart
<1>4. ASSUME NEW g \in Workers, WakeByTimer(g)
      PROVE  (OneDrainer /\ EntryInv)'
  BY <1>4 DEF WakeByTimer
<1>5. ASSUME NEW g \in Workers, WakeByKick(g)
      PROVE  (OneDrainer /\ EntryInv)'
  BY <1>5 DEF WakeByKick
<1>6. ASSUME NEW g \in Workers, Activate(g)
      PROVE  (OneDrainer /\ EntryInv)'
  BY <1>6 DEF Activate
<1>7. ASSUME NEW g \in Workers, AcquireSlot(g)
      PROVE  (OneDrainer /\ EntryInv)'
  BY <1>7 DEF AcquireSlot
<1>8. ASSUME NEW g \in Workers, ReconcileOk(g)
      PROVE  (OneDrainer /\ EntryInv)'
  BY <1>8 DEF ReconcileOk
<1>9. ASSUME NEW g \in Workers, ReconcileFail(g)
      PROVE  (OneDrainer /\ EntryInv)'
  BY <1>9 DEF ReconcileFail
<1>10. ASSUME NEW g \in Workers, Retry(g)
      PROVE  (OneDrainer /\ EntryInv)'
  BY <1>10 DEF Retry
<1>11. ASSUME NEW g \in Workers, BackoffCancelled(g)
      PROVE  (OneDrainer /\ EntryInv)'
  BY <1>11 DEF BackoffCancelled
<1>12. ASSUME NEW g \in Workers, ReleaseSlot(g)
      PROVE  (OneDrainer /\ EntryInv)'
  BY <1>12 DEF ReleaseSlot
<1>13. ASSUME NEW g \in Workers, SettleAgain(g)
      PROVE  (OneDrainer /\ EntryInv)'
  BY <1>13 DEF SettleAgain
<1>14. ASSUME NEW g \in Workers, SettleDone(g)
      PROVE  (OneDrainer /\ EntryInv)'
  BY <1>14 DEF SettleDone
<1>15. ASSUME NEW g \in Workers, Cleanup(g)
      PROVE  (OneDrainer /\ EntryInv)'
  BY <1>15 DEF Cleanup
<1>16. ASSUME NEW g \in Workers, WorkerDone(g)
      PROVE  (OneDrainer /\ EntryInv)'
  BY <1>16 DEF WorkerDone
<1>17. CASE CloseReject
  BY <1>17 DEF CloseReject
<1>18. CASE CloseCancel
  BY <1>18 DEF CloseCancel
<1>19. CASE CloseReturn
  BY <1>19 DEF CloseReturn
<1>20. CASE UNCHANGED vars
  BY <1>20 DEF vars, maps, svc, hist
<1>. QED
  BY <1>1, <1>2, <1>3, <1>4, <1>5, <1>6, <1>7, <1>8, <1>9, <1>10, <1>11, <1>12, <1>13, <1>14,
       <1>15, <1>16, <1>17, <1>18, <1>19, <1>20, Zenon DEF Next, Enqueue, EnqueueNow,
       WorkerStep, Close, Terminated

(* The registered channel. *)
LEMMA KickStep == IInv /\ [Next]_vars => KickInv'
<1>. SUFFICES ASSUME IInv, [Next]_vars
              PROVE  KickInv'
  OBVIOUS
<1>. USE WorkersAssumption, LimitsAssumption DEF IInv, TypeOK, JobInv, OneDrainer, EntryInv,
          KickInv, Goto, StartAttempt, Accepted, Kicked, maps, svc, hist, PCs, HoldsSlot,
          Draining, BeforeRun
<1>1. ASSUME NEW w \in Warehouses, NEW now \in BOOLEAN, EnqueueActive(w, now)
      PROVE  KickInv'
  BY <1>1 DEF EnqueueActive
<1>2. ASSUME NEW w \in Warehouses, NEW now \in BOOLEAN, EnqueueQueued(w, now)
      PROVE  KickInv'
  BY <1>2 DEF EnqueueQueued
<1>3. ASSUME NEW w \in Warehouses, NEW now \in BOOLEAN, NEW g \in Workers, EnqueueStart(w, now, g)
      PROVE  KickInv'
  BY <1>3 DEF EnqueueStart
<1>4. ASSUME NEW g \in Workers, WakeByTimer(g)
      PROVE  KickInv'
  BY <1>4 DEF WakeByTimer
<1>5. ASSUME NEW g \in Workers, WakeByKick(g)
      PROVE  KickInv'
  BY <1>5 DEF WakeByKick
<1>6. ASSUME NEW g \in Workers, Activate(g)
      PROVE  KickInv'
  BY <1>6 DEF Activate
<1>7. ASSUME NEW g \in Workers, AcquireSlot(g)
      PROVE  KickInv'
  BY <1>7 DEF AcquireSlot
<1>8. ASSUME NEW g \in Workers, ReconcileOk(g)
      PROVE  KickInv'
  BY <1>8 DEF ReconcileOk
<1>9. ASSUME NEW g \in Workers, ReconcileFail(g)
      PROVE  KickInv'
  BY <1>9 DEF ReconcileFail
<1>10. ASSUME NEW g \in Workers, Retry(g)
      PROVE  KickInv'
  BY <1>10 DEF Retry
<1>11. ASSUME NEW g \in Workers, BackoffCancelled(g)
      PROVE  KickInv'
  BY <1>11 DEF BackoffCancelled
<1>12. ASSUME NEW g \in Workers, ReleaseSlot(g)
      PROVE  KickInv'
  BY <1>12 DEF ReleaseSlot
<1>13. ASSUME NEW g \in Workers, SettleAgain(g)
      PROVE  KickInv'
  BY <1>13 DEF SettleAgain
<1>14. ASSUME NEW g \in Workers, SettleDone(g)
      PROVE  KickInv'
  BY <1>14 DEF SettleDone
<1>15. ASSUME NEW g \in Workers, Cleanup(g)
      PROVE  KickInv'
  BY <1>15 DEF Cleanup
<1>16. ASSUME NEW g \in Workers, WorkerDone(g)
      PROVE  KickInv'
  BY <1>16 DEF WorkerDone
<1>17. CASE CloseReject
  BY <1>17 DEF CloseReject
<1>18. CASE CloseCancel
  BY <1>18 DEF CloseCancel
<1>19. CASE CloseReturn
  BY <1>19 DEF CloseReturn
<1>20. CASE UNCHANGED vars
  BY <1>20 DEF vars, maps, svc, hist
<1>. QED
  BY <1>1, <1>2, <1>3, <1>4, <1>5, <1>6, <1>7, <1>8, <1>9, <1>10, <1>11, <1>12, <1>13, <1>14,
       <1>15, <1>16, <1>17, <1>18, <1>19, <1>20, Zenon DEF Next, Enqueue, EnqueueNow,
       WorkerStep, Close, Terminated

(* Kicks are buffered until they are no longer needed. *)
LEMMA UrgentStep == IInv /\ [Next]_vars => UrgentInv'
<1>. SUFFICES ASSUME IInv, [Next]_vars
              PROVE  UrgentInv'
  OBVIOUS
<1>. USE WorkersAssumption, LimitsAssumption DEF IInv, TypeOK, JobInv, OneDrainer, EntryInv,
          KickInv, UrgentInv, NoLostRequest, Goto, StartAttempt, Accepted, Kicked, maps, svc,
          hist, PCs, HoldsSlot, Draining, BeforeRun
<1>1. ASSUME NEW w \in Warehouses, NEW now \in BOOLEAN, EnqueueActive(w, now)
      PROVE  UrgentInv'
  BY <1>1 DEF EnqueueActive
<1>2. ASSUME NEW w \in Warehouses, NEW now \in BOOLEAN, EnqueueQueued(w, now)
      PROVE  UrgentInv'
  BY <1>2 DEF EnqueueQueued
<1>3. ASSUME NEW w \in Warehouses, NEW now \in BOOLEAN, NEW g \in Workers, EnqueueStart(w, now, g)
      PROVE  UrgentInv'
  BY <1>3 DEF EnqueueStart
<1>4. ASSUME NEW g \in Workers, WakeByTimer(g)
      PROVE  UrgentInv'
  BY <1>4 DEF WakeByTimer
<1>5. ASSUME NEW g \in Workers, WakeByKick(g)
      PROVE  UrgentInv'
  BY <1>5 DEF WakeByKick
<1>6. ASSUME NEW g \in Workers, Activate(g)
      PROVE  UrgentInv'
  BY <1>6 DEF Activate
<1>7. ASSUME NEW g \in Workers, AcquireSlot(g)
      PROVE  UrgentInv'
  BY <1>7 DEF AcquireSlot
<1>8. ASSUME NEW g \in Workers, ReconcileOk(g)
      PROVE  UrgentInv'
  BY <1>8 DEF ReconcileOk
<1>9. ASSUME NEW g \in Workers, ReconcileFail(g)
      PROVE  UrgentInv'
  BY <1>9 DEF ReconcileFail
<1>10. ASSUME NEW g \in Workers, Retry(g)
      PROVE  UrgentInv'
  BY <1>10 DEF Retry
<1>11. ASSUME NEW g \in Workers, BackoffCancelled(g)
      PROVE  UrgentInv'
  BY <1>11 DEF BackoffCancelled
<1>12. ASSUME NEW g \in Workers, ReleaseSlot(g)
      PROVE  UrgentInv'
  BY <1>12 DEF ReleaseSlot
<1>13. ASSUME NEW g \in Workers, SettleAgain(g)
      PROVE  UrgentInv'
  BY <1>13 DEF SettleAgain
<1>14. ASSUME NEW g \in Workers, SettleDone(g)
      PROVE  UrgentInv'
  BY <1>14 DEF SettleDone
<1>15. ASSUME NEW g \in Workers, Cleanup(g)
      PROVE  UrgentInv'
  BY <1>15 DEF Cleanup
<1>16. ASSUME NEW g \in Workers, WorkerDone(g)
      PROVE  UrgentInv'
  BY <1>16 DEF WorkerDone
<1>17. CASE CloseReject
  BY <1>17 DEF CloseReject
<1>18. CASE CloseCancel
  BY <1>18 DEF CloseCancel
<1>19. CASE CloseReturn
  BY <1>19 DEF CloseReturn
<1>20. CASE UNCHANGED vars
  BY <1>20 DEF vars, maps, svc, hist
<1>. QED
  BY <1>1, <1>2, <1>3, <1>4, <1>5, <1>6, <1>7, <1>8, <1>9, <1>10, <1>11, <1>12, <1>13, <1>14,
       <1>15, <1>16, <1>17, <1>18, <1>19, <1>20, Zenon DEF Next, Enqueue, EnqueueNow,
       WorkerStep, Close, Terminated

(* No accepted request is without a goroutine that will serve it. *)
LEMMA LostStep == IInv /\ [Next]_vars => NoLostRequest'
<1>. SUFFICES ASSUME IInv, [Next]_vars
              PROVE  NoLostRequest'
  OBVIOUS
<1>. USE WorkersAssumption, LimitsAssumption DEF IInv, TypeOK, JobInv, OneDrainer, EntryInv,
          NoLostRequest, Goto, StartAttempt, Accepted, Kicked, maps, svc, hist, PCs, HoldsSlot,
          Draining, BeforeRun
<1>1. ASSUME NEW w \in Warehouses, NEW now \in BOOLEAN, EnqueueActive(w, now)
      PROVE  NoLostRequest'
  BY <1>1 DEF EnqueueActive
<1>2. ASSUME NEW w \in Warehouses, NEW now \in BOOLEAN, EnqueueQueued(w, now)
      PROVE  NoLostRequest'
  BY <1>2 DEF EnqueueQueued
<1>3. ASSUME NEW w \in Warehouses, NEW now \in BOOLEAN, NEW g \in Workers, EnqueueStart(w, now, g)
      PROVE  NoLostRequest'
  BY <1>3 DEF EnqueueStart
<1>4. ASSUME NEW g \in Workers, WakeByTimer(g)
      PROVE  NoLostRequest'
  BY <1>4 DEF WakeByTimer
<1>5. ASSUME NEW g \in Workers, WakeByKick(g)
      PROVE  NoLostRequest'
  BY <1>5 DEF WakeByKick
<1>6. ASSUME NEW g \in Workers, Activate(g)
      PROVE  NoLostRequest'
  BY <1>6 DEF Activate
<1>7. ASSUME NEW g \in Workers, AcquireSlot(g)
      PROVE  NoLostRequest'
  BY <1>7 DEF AcquireSlot
<1>8. ASSUME NEW g \in Workers, ReconcileOk(g)
      PROVE  NoLostRequest'
  BY <1>8 DEF ReconcileOk
<1>9. ASSUME NEW g \in Workers, ReconcileFail(g)
      PROVE  NoLostRequest'
  BY <1>9 DEF ReconcileFail
<1>10. ASSUME NEW g \in Workers, Retry(g)
      PROVE  NoLostRequest'
  BY <1>10 DEF Retry
<1>11. ASSUME NEW g \in Workers, BackoffCancelled(g)
      PROVE  NoLostRequest'
  BY <1>11 DEF BackoffCancelled
<1>12. ASSUME NEW g \in Workers, ReleaseSlot(g)
      PROVE  NoLostRequest'
  BY <1>12 DEF ReleaseSlot
<1>13. ASSUME NEW g \in Workers, SettleAgain(g)
      PROVE  NoLostRequest'
  BY <1>13 DEF SettleAgain
<1>14. ASSUME NEW g \in Workers, SettleDone(g)
      PROVE  NoLostRequest'
  BY <1>14 DEF SettleDone
<1>15. ASSUME NEW g \in Workers, Cleanup(g)
      PROVE  NoLostRequest'
  BY <1>15 DEF Cleanup
<1>16. ASSUME NEW g \in Workers, WorkerDone(g)
      PROVE  NoLostRequest'
  BY <1>16 DEF WorkerDone
<1>17. CASE CloseReject
  BY <1>17 DEF CloseReject
<1>18. CASE CloseCancel
  BY <1>18 DEF CloseCancel
<1>19. CASE CloseReturn
  BY <1>19 DEF CloseReturn
<1>20. CASE UNCHANGED vars
  BY <1>20 DEF vars, maps, svc, hist
<1>. HIDE DEF IInv, TypeOK, JobInv, OneDrainer, EntryInv, NoLostRequest, Accepted, Kicked
<1>. QED
  BY <1>1, <1>2, <1>3, <1>4, <1>5, <1>6, <1>7, <1>8, <1>9, <1>10, <1>11, <1>12, <1>13, <1>14,
       <1>15, <1>16, <1>17, <1>18, <1>19, <1>20, Zenon DEF Next, Enqueue, EnqueueNow,
       WorkerStep, Close, Terminated

(* Close. *)
LEMMA ClosedStep == IInv /\ [Next]_vars => ClosedInv'
<1>. SUFFICES ASSUME IInv, [Next]_vars
              PROVE  ClosedInv'
  OBVIOUS
<1>. USE WorkersAssumption, LimitsAssumption DEF IInv, TypeOK, ClosedInv, Goto, StartAttempt,
          Accepted, Kicked, maps, svc, hist
<1>1. ASSUME NEW w \in Warehouses, NEW now \in BOOLEAN, EnqueueActive(w, now)
      PROVE  ClosedInv'
  BY <1>1 DEF EnqueueActive
<1>2. ASSUME NEW w \in Warehouses, NEW now \in BOOLEAN, EnqueueQueued(w, now)
      PROVE  ClosedInv'
  BY <1>2 DEF EnqueueQueued
<1>3. ASSUME NEW w \in Warehouses, NEW now \in BOOLEAN, NEW g \in Workers, EnqueueStart(w, now, g)
      PROVE  ClosedInv'
  BY <1>3 DEF EnqueueStart
<1>4. ASSUME NEW g \in Workers, WakeByTimer(g)
      PROVE  ClosedInv'
  BY <1>4 DEF WakeByTimer
<1>5. ASSUME NEW g \in Workers, WakeByKick(g)
      PROVE  ClosedInv'
  BY <1>5 DEF WakeByKick
<1>6. ASSUME NEW g \in Workers, Activate(g)
      PROVE  ClosedInv'
  BY <1>6 DEF Activate
<1>7. ASSUME NEW g \in Workers, AcquireSlot(g)
      PROVE  ClosedInv'
  BY <1>7 DEF AcquireSlot
<1>8. ASSUME NEW g \in Workers, ReconcileOk(g)
      PROVE  ClosedInv'
  BY <1>8 DEF ReconcileOk
<1>9. ASSUME NEW g \in Workers, ReconcileFail(g)
      PROVE  ClosedInv'
  BY <1>9 DEF ReconcileFail
<1>10. ASSUME NEW g \in Workers, Retry(g)
      PROVE  ClosedInv'
  BY <1>10 DEF Retry
<1>11. ASSUME NEW g \in Workers, BackoffCancelled(g)
      PROVE  ClosedInv'
  BY <1>11 DEF BackoffCancelled
<1>12. ASSUME NEW g \in Workers, ReleaseSlot(g)
      PROVE  ClosedInv'
  BY <1>12 DEF ReleaseSlot
<1>13. ASSUME NEW g \in Workers, SettleAgain(g)
      PROVE  ClosedInv'
  BY <1>13 DEF SettleAgain
<1>14. ASSUME NEW g \in Workers, SettleDone(g)
      PROVE  ClosedInv'
  BY <1>14 DEF SettleDone
<1>15. ASSUME NEW g \in Workers, Cleanup(g)
      PROVE  ClosedInv'
  BY <1>15 DEF Cleanup
<1>16. ASSUME NEW g \in Workers, WorkerDone(g)
      PROVE  ClosedInv'
  BY <1>16, Counting DEF WorkerDone, Alive
<1>17. CASE CloseReject
  BY <1>17 DEF CloseReject
<1>18. CASE CloseCancel
  BY <1>18 DEF CloseCancel
<1>19. CASE CloseReturn
  BY <1>19 DEF CloseReturn
<1>20. CASE UNCHANGED vars
  BY <1>20 DEF vars, maps, svc, hist
<1>. QED
  BY <1>1, <1>2, <1>3, <1>4, <1>5, <1>6, <1>7, <1>8, <1>9, <1>10, <1>11, <1>12, <1>13, <1>14,
       <1>15, <1>16, <1>17, <1>18, <1>19, <1>20, Zenon DEF Next, Enqueue, EnqueueNow,
       WorkerStep, Close, Terminated
-----------------------------------------------------------------------------
(* IInv is an inductive invariant of the specification. *)
LEMMA Inductive == Spec => []IInv
<1>1. Init => IInv
  <2>. SUFFICES ASSUME Init
                PROVE  IInv
    OBVIOUS
  <2>1. Holders = {} /\ Alive = {}
    BY DEF Init, Holders, Alive, HoldsSlot
  <2>2. CountInv
    BY <2>1, FS_EmptySet DEF Init, CountInv
  <2>3. TypeOK
    <3>1. /\ sem \in 0..MaxConcurrent /\ wg \in Nat
          /\ attempt \in [Workers -> 0..MaxAttempts]
      BY LimitsAssumption DEF Init
    <3>2. /\ pc \in [Workers -> PCs]
          /\ job \in [Workers -> Warehouses \cup {None}]
          /\ kicks \in [Warehouses -> Workers \cup {None}]
      BY DEF Init, PCs
    <3>. QED
      BY <3>1, <3>2 DEF Init, TypeOK
  <2>5. JobInv /\ AttemptInv
    BY LimitsAssumption DEF Init, JobInv, AttemptInv
  <2>4. OneDrainer /\ EntryInv /\ KickInv /\ UrgentInv /\ NoLostRequest /\ ClosedInv
    BY DEF Init, OneDrainer, EntryInv, KickInv, UrgentInv, NoLostRequest, ClosedInv,
       Draining, BeforeRun, HoldsSlot
  <2>. QED
    BY <2>2, <2>3, <2>4, <2>5 DEF IInv
<1>2. IInv /\ [Next]_vars => IInv'
  BY TypeStep, DrainerStep, KickStep, CountStep, UrgentStep, LostStep, ClosedStep DEF IInv
<1>. QED
  BY <1>1, <1>2, PTL DEF Spec

(* Every variable keeps its type: the counters of attempts, slots and       *)
(* goroutines stay in their ranges.                                         *)
THEOREM TypeCorrect == Spec => []TypeOK
<1>1. IInv => TypeOK
  BY DEF IInv
<1>. QED
  BY <1>1, Inductive, PTL

(* No two goroutines reconcile the same warehouse at a time.                *)
THEOREM SingleFlightHolds == Spec => []SingleFlight
<1>1. IInv => SingleFlight
  BY DEF IInv, OneDrainer, SingleFlight, Draining, InRun, BeforeRun, HoldsSlot
<1>. QED
  BY <1>1, Inductive, PTL

(* No more than MaxConcurrent goroutines reconcile at a time.               *)
THEOREM ConcurrencyCapHolds == Spec => []ConcurrencyCap
<1>1. IInv => ConcurrencyCap
  BY LimitsAssumption DEF IInv, TypeOK, CountInv, Holders, ConcurrencyCap
<1>. QED
  BY <1>1, Inductive, PTL

(* An accepted request keeps a goroutine that will start an attempt for it. *)
THEOREM NoLostRequestHolds == Spec => []NoLostRequest
<1>1. IInv => NoLostRequest
  BY DEF IInv
<1>. QED
  BY <1>1, Inductive, PTL

(* No goroutine sleeps on its timer over an EnqueueNow.                     *)
THEOREM PromptWakeHolds == Spec => []PromptWake
<1>1. IInv => PromptWake
  BY DEF IInv, UrgentInv, PromptWake, Draining, BeforeRun
<1>. QED
  BY <1>1, Inductive, PTL

(* The maps have no entry for a warehouse without a goroutine.              *)
THEOREM NoStrayEntryHolds == Spec => []NoStrayEntry
<1>1. IInv => NoStrayEntry
  <2>. SUFFICES ASSUME IInv, NEW w \in Warehouses,
                       \A g \in Workers : job[g] = w => pc[g] = "done"
                PROVE  w \notin queued \cup active \cup rerun /\ kicks[w] = None
    BY DEF NoStrayEntry
  <2>1. w \notin queued \cup active \cup rerun
    BY DEF IInv, EntryInv, Draining, BeforeRun, HoldsSlot
  <2>2. kicks[w] = None
    BY DEF IInv, TypeOK, KickInv, Draining, BeforeRun, HoldsSlot
  <2>. QED
    BY <2>1, <2>2
<1>. QED
  BY <1>1, Inductive, PTL

(* When Close has returned, no goroutine is left and no request unserved.   *)
THEOREM CloseDrainsHolds == Spec => []CloseDrains
<1>1. IInv => CloseDrains
  <2>. SUFFICES ASSUME IInv, closing = "returned"
                PROVE  unseen = {} /\ \A g \in Workers : pc[g] = "idle"
    BY DEF CloseDrains
  <2>1. \A g \in Workers : pc[g] = "idle"
    BY Counting DEF IInv, ClosedInv, Alive
  <2>2. unseen = {}
    BY <2>1 DEF IInv, TypeOK, NoLostRequest, BeforeRun, HoldsSlot
  <2>. QED
    BY <2>1, <2>2
<1>. QED
  BY <1>1, Inductive, PTL

-----------------------------------------------------------------------------
(* The worker implements the promise of CoalescedSync: every step is a step *)
(* of the promise under the refinement mapping, or leaves it unchanged.     *)
demandMap == [w \in Warehouses |-> Owed(w)]
runningMap == {w \in Warehouses : Running(w)}

(* The warehouses being reconciled are no more than the slots taken.        *)
LEMMA RunningCapped ==
  ASSUME IInv
  PROVE  Cardinality(runningMap) <= sem
<1>1. runningMap = {job[g] : g \in Holders}
  BY WorkersAssumption DEF IInv, TypeOK, JobInv, Holders, HoldsSlot, runningMap, Running
<1>2. [g \in Holders |-> job[g]] \in Surjection(Holders, {job[g] : g \in Holders})
  BY DEF Surjection
<1>3. Cardinality({job[g] : g \in Holders}) <= Cardinality(Holders)
  BY <1>2, Counting, FS_Surjection
<1>. QED
  BY <1>1, <1>3 DEF IInv, CountInv

(* A step that moves no goroutine in front of a run, to one or away from    *)
(* one, nor a rerun flag, is invisible.                                     *)
LEMMA Invisible ==
  ASSUME \A w \in Warehouses : (Waiting(w)' <=> Waiting(w)) /\ (Running(w)' <=> Running(w)),
         rerun' = rerun
  PROVE  demandMap' = demandMap /\ runningMap' = runningMap
BY DEF demandMap, runningMap, Owed

(* What is owed changes for one warehouse only.                             *)
LEMMA DemandChange ==
  ASSUME NEW w \in Warehouses, \A v \in Warehouses \ {w} : Owed(v)' = Owed(v)
  PROVE  demandMap' = [demandMap EXCEPT ![w] = Owed(w)']
BY DEF demandMap

(* A request adds at most one owed run and leaves at least one owed.        *)
LEMMA RequestStep ==
  ASSUME IInv, NEW w \in Warehouses, NEW now \in BOOLEAN,
         \/ EnqueueActive(w, now)
         \/ EnqueueQueued(w, now)
         \/ \E g \in Workers : EnqueueStart(w, now, g)
  PROVE  [Coalesced!Next]_(Coalesced!avars)
<1>. USE DEF IInv, TypeOK, JobInv, EntryInv, Draining, BeforeRun, HoldsSlot
<1>1. ASSUME EnqueueActive(w, now)
      PROVE  /\ \A v \in Warehouses : (Waiting(v)' <=> Waiting(v)) /\ (Running(v)' <=> Running(v))
             /\ rerun' = rerun \cup {w} /\ ~closed /\ UNCHANGED <<closed, closing>>
  BY <1>1 DEF EnqueueActive, Accepted, Waiting, Running, svc, maps
<1>2. ASSUME EnqueueQueued(w, now)
      PROVE  /\ \A v \in Warehouses : (Waiting(v)' <=> Waiting(v)) /\ (Running(v)' <=> Running(v))
             /\ rerun' = rerun /\ UNCHANGED <<closed, closing>>
  BY <1>2 DEF EnqueueQueued, Waiting, Running, svc, maps
<1>3. ASSUME NEW g \in Workers, EnqueueStart(w, now, g)
      PROVE  /\ \A v \in Warehouses \ {w} : Waiting(v)' <=> Waiting(v)
             /\ \A v \in Warehouses : Running(v)' <=> Running(v)
             /\ Waiting(w)' /\ ~Waiting(w) /\ w \notin rerun
             /\ rerun' = rerun /\ ~closed /\ UNCHANGED <<closed, closing>>
  <2>1. pc[g] = "idle" /\ pc' = [pc EXCEPT ![g] = "debounce"] /\ job' = [job EXCEPT ![g] = w]
    BY <1>3 DEF EnqueueStart, Goto
  <2>2. job[g] = None
    BY <2>1
  <2>3. \A v \in Warehouses \ {w} : Waiting(v)' <=> Waiting(v)
    BY <2>1, <2>2, WorkersAssumption DEF Waiting
  <2>4. \A v \in Warehouses : Running(v)' <=> Running(v)
    BY <2>1, <2>2, WorkersAssumption DEF Running
  <2>5. Waiting(w)' /\ ~Waiting(w)
    BY <1>3, <2>1 DEF Waiting, EnqueueStart
  <2>. QED
    BY <1>3, <2>3, <2>4, <2>5 DEF EnqueueStart, Accepted, svc
<1>. HIDE DEF IInv, TypeOK, JobInv, EntryInv, Draining, BeforeRun, HoldsSlot
<1>4. CASE EnqueueActive(w, now)
  <2>1. runningMap' = runningMap
    BY <1>1, <1>4 DEF runningMap
  <2>2. \A v \in Warehouses \ {w} : Owed(v)' = Owed(v)
    BY <1>1, <1>4 DEF Owed
  <2>3. Owed(w)' \in {Owed(w), Owed(w) + 1} /\ Owed(w)' \in 1..2
    BY <1>1, <1>4 DEF Owed
  <2>4. demandMap[w] = Owed(w) /\ demandMap' = [demandMap EXCEPT ![w] = Owed(w)']
    BY <2>2, DemandChange DEF demandMap
  <2>5. \E d \in 1..2 : /\ d \in {demandMap[w], demandMap[w] + 1}
                        /\ demandMap' = [demandMap EXCEPT ![w] = d]
    BY <2>3, <2>4
  <2>6. UNCHANGED <<runningMap, ~closed, closing = "returned">>
    BY <1>1, <1>4, <2>1
  <2>. QED
    BY <1>1, <1>4, <2>5, <2>6, Zenon
    DEF Coalesced!Next, Coalesced!Request, demandMap, runningMap
<1>5. CASE EnqueueQueued(w, now)
  <2>1. UNCHANGED <<demandMap, runningMap, ~closed, closing = "returned">>
    BY <1>2, <1>5, Invisible
  <2>. QED
    BY <2>1, Zenon DEF Coalesced!avars, demandMap, runningMap
<1>6. ASSUME NEW g \in Workers, EnqueueStart(w, now, g)
      PROVE  [Coalesced!Next]_(Coalesced!avars)
  <2>1. runningMap' = runningMap
    BY <1>3, <1>6 DEF runningMap
  <2>2. (\A v \in Warehouses \ {w} : Owed(v)' = Owed(v)) /\ Owed(w) = 0 /\ Owed(w)' = 1
    BY <1>3, <1>6 DEF Owed
  <2>3. demandMap[w] = 0 /\ demandMap' = [demandMap EXCEPT ![w] = 1]
    BY <2>2, DemandChange DEF demandMap
  <2>5. \E d \in 1..2 : /\ d \in {demandMap[w], demandMap[w] + 1}
                        /\ demandMap' = [demandMap EXCEPT ![w] = d]
    BY <2>3
  <2>4. UNCHANGED <<runningMap, ~closed, closing = "returned">>
    BY <1>3, <1>6, <2>1
  <2>. QED
    BY <1>3, <1>6, <2>4, <2>5, Zenon
    DEF Coalesced!Next, Coalesced!Request, demandMap, runningMap
<1>. QED
  BY <1>4, <1>5, <1>6

(* Taking a slot is the start of an owed run of a warehouse that is not     *)
(* being reconciled.                                                        *)
LEMMA StartStep ==
  ASSUME IInv, NEW g \in Workers, AcquireSlot(g)
  PROVE  Coalesced!Next
<1>. DEFINE w == job[g]
<1>1. w \in Warehouses /\ pc[g] = "slot" /\ pc' = [pc EXCEPT ![g] = "reconcile"]
      /\ job' = job /\ rerun' = rerun /\ closed' = closed /\ closing' = closing
  BY WorkersAssumption DEF IInv, TypeOK, JobInv, AcquireSlot, StartAttempt, Goto, maps, svc
<1>2. \A h \in Workers : (job[h] = w /\ pc[h] \in Draining) => h = g
  BY <1>1 DEF IInv, OneDrainer, Draining, BeforeRun
<1>3. Waiting(w) /\ ~Waiting(w)' /\ ~Running(w) /\ Running(w)'
  BY <1>1, <1>2 DEF IInv, TypeOK, Waiting, Running, Draining, BeforeRun, HoldsSlot
<1>4. \A v \in Warehouses \ {w} : (Waiting(v)' <=> Waiting(v)) /\ (Running(v)' <=> Running(v))
  BY <1>1 DEF IInv, TypeOK, Waiting, Running, BeforeRun, HoldsSlot
<1>5. (\A v \in Warehouses \ {w} : Owed(v)' = Owed(v)) /\ Owed(w) > 0 /\ Owed(w)' = Owed(w) - 1
  BY <1>1, <1>3, <1>4 DEF Owed
<1>6. demandMap[w] > 0 /\ demandMap' = [demandMap EXCEPT ![w] = @ - 1]
  BY <1>1, <1>5, DemandChange DEF demandMap
<1>7. w \notin runningMap /\ runningMap' = runningMap \cup {w}
  BY <1>1, <1>3, <1>4 DEF runningMap
<1>8. Cardinality(runningMap) < MaxConcurrent
  <2>1. Cardinality(runningMap) \in Nat
    <3>1. [h \in Holders |-> job[h]] \in Surjection(Holders, {job[h] : h \in Holders})
      BY DEF Surjection
    <3>2. runningMap = {job[h] : h \in Holders}
      BY WorkersAssumption DEF IInv, TypeOK, JobInv, Holders, HoldsSlot, runningMap, Running
    <3>. QED
      BY <3>1, <3>2, Counting, FS_Surjection, FS_CardinalityType
  <2>. QED
    BY <2>1, RunningCapped, LimitsAssumption DEF IInv, TypeOK, AcquireSlot
<1>9. UNCHANGED <<~closed, closing = "returned">>
  BY <1>1
<1>10. Coalesced!Cardinality(runningMap) < MaxConcurrent
  BY <1>8 DEF Cardinality, Coalesced!Cardinality
<1>11. Coalesced!Start(w)
  BY <1>6, <1>7, <1>10, <1>9, Zenon DEF Coalesced!Start, demandMap, runningMap
<1>. QED
  BY <1>1, <1>11 DEF Coalesced!Next

(* Giving the slot back ends the run.                                       *)
LEMMA FinishStep ==
  ASSUME IInv, NEW g \in Workers, ReleaseSlot(g)
  PROVE  Coalesced!Next
<1>. DEFINE w == job[g]
<1>1. w \in Warehouses /\ pc[g] = "release" /\ pc' = [pc EXCEPT ![g] = "settle"]
      /\ job' = job /\ rerun' = rerun /\ closed' = closed /\ closing' = closing
  BY WorkersAssumption DEF IInv, TypeOK, JobInv, ReleaseSlot, Goto, maps, svc
<1>2. \A h \in Workers : (job[h] = w /\ pc[h] \in Draining) => h = g
  BY <1>1 DEF IInv, OneDrainer, Draining, HoldsSlot
<1>3. \A v \in Warehouses : Waiting(v)' <=> Waiting(v)
  BY <1>1 DEF IInv, TypeOK, Waiting, BeforeRun
<1>4. Running(w) /\ ~Running(w)'
  BY <1>1, <1>2 DEF IInv, TypeOK, Running, Draining, BeforeRun, HoldsSlot
<1>5. \A v \in Warehouses \ {w} : Running(v)' <=> Running(v)
  BY <1>1 DEF IInv, TypeOK, Running, HoldsSlot
<1>6. demandMap' = demandMap
  BY <1>1, <1>3 DEF demandMap, Owed
<1>7. w \in runningMap /\ runningMap' = runningMap \ {w}
  BY <1>1, <1>4, <1>5 DEF runningMap
<1>8. UNCHANGED <<~closed, closing = "returned">>
  BY <1>1
<1>9. Coalesced!Finish(w)
  BY <1>6, <1>7, <1>8, Zenon DEF Coalesced!Finish, demandMap, runningMap
<1>. QED
  BY <1>1, <1>9 DEF Coalesced!Next

(* The follow-up turns a rerun flag into a goroutine on its way to a run.   *)
LEMMA FollowUpStep ==
  ASSUME IInv, NEW g \in Workers, SettleAgain(g)
  PROVE  UNCHANGED Coalesced!avars
<1>. DEFINE w == job[g]
<1>1. w \in Warehouses /\ w \in rerun /\ pc[g] = "settle" /\ pc' = [pc EXCEPT ![g] = "debounce"]
      /\ job' = job /\ rerun' = rerun \ {w} /\ closed' = closed /\ closing' = closing
  BY WorkersAssumption DEF IInv, TypeOK, JobInv, SettleAgain, Goto, svc
<1>2. \A h \in Workers : (job[h] = w /\ pc[h] \in Draining) => h = g
  BY <1>1 DEF IInv, OneDrainer, Draining
<1>3. ~Waiting(w) /\ Waiting(w)'
  BY <1>1, <1>2 DEF IInv, TypeOK, Waiting, Draining, BeforeRun
<1>4. \A v \in Warehouses \ {w} : Waiting(v)' <=> Waiting(v)
  BY <1>1 DEF IInv, TypeOK, Waiting, BeforeRun
<1>5. \A v \in Warehouses : Running(v)' <=> Running(v)
  BY <1>1 DEF IInv, TypeOK, Running, HoldsSlot
<1>6. \A v \in Warehouses : Owed(v)' = Owed(v)
  BY <1>1, <1>3, <1>4 DEF Owed
<1>7. UNCHANGED <<demandMap, runningMap, ~closed, closing = "returned">>
  BY <1>1, <1>5, <1>6 DEF demandMap, runningMap
<1>. QED
  BY <1>7, Zenon DEF Coalesced!avars, demandMap, runningMap

(* The other steps of a goroutine change nothing that was promised.         *)
LEMMA QuietStep ==
  ASSUME IInv, NEW g \in Workers,
         \/ WakeByTimer(g) \/ WakeByKick(g) \/ Activate(g)
         \/ ReconcileOk(g) \/ ReconcileFail(g) \/ Retry(g) \/ BackoffCancelled(g)
         \/ SettleDone(g) \/ Cleanup(g) \/ WorkerDone(g)
  PROVE  UNCHANGED Coalesced!avars
<1>1. /\ \/ pc[g] \in BeforeRun /\ pc'[g] \in BeforeRun
         \/ pc[g] \in HoldsSlot /\ pc'[g] \in HoldsSlot
         \/ pc[g] \notin BeforeRun \cup HoldsSlot /\ pc'[g] \notin BeforeRun \cup HoldsSlot
      /\ \A h \in Workers \ {g} : pc'[h] = pc[h] /\ job'[h] = job[h]
      /\ job'[g] = job[g] \/ pc[g] = "done"
  BY DEF IInv, TypeOK, PCs, BeforeRun, HoldsSlot, Goto, StartAttempt, WakeByTimer,
     WakeByKick, Activate, ReconcileOk, ReconcileFail, Retry, BackoffCancelled,
     SettleDone, Cleanup, WorkerDone
<1>2. rerun' = rerun /\ closed' = closed /\ closing' = closing
  BY DEF maps, svc, WakeByTimer, WakeByKick, Activate, ReconcileOk, ReconcileFail,
     Retry, BackoffCancelled, SettleDone, Cleanup, WorkerDone
<1>3. \A v \in Warehouses : (Waiting(v)' <=> Waiting(v)) /\ (Running(v)' <=> Running(v))
  BY <1>1 DEF Waiting, Running, BeforeRun, HoldsSlot
<1>4. UNCHANGED <<demandMap, runningMap, ~closed, closing = "returned">>
  BY <1>2, <1>3, Invisible
<1>. QED
  BY <1>4, Zenon DEF Coalesced!avars, demandMap, runningMap

(* Close stops the requests and is drained when it returns.                 *)
LEMMA CloseStep ==
  ASSUME IInv, Close
  PROVE  [Coalesced!Next]_(Coalesced!avars)
<1>1. pc' = pc /\ job' = job /\ rerun' = rerun
  BY DEF Close, CloseReject, CloseCancel, CloseReturn, maps
<1>2. demandMap' = demandMap /\ runningMap' = runningMap
  BY <1>1 DEF demandMap, runningMap, Owed, Waiting, Running
<1>3. CASE CloseReject
  <2>1. CASE closed
    <3>1. UNCHANGED <<demandMap, runningMap, ~closed, closing = "returned">>
      BY <1>2, <1>3, <2>1 DEF CloseReject
    <3>. QED
      BY <3>1, Zenon DEF Coalesced!avars, demandMap, runningMap
  <2>2. CASE ~closed
    <3>1. /\ ~closed /\ (~closed)' = FALSE
          /\ UNCHANGED <<demandMap, runningMap, closing = "returned">>
      BY <1>2, <1>3, <2>2 DEF CloseReject
    <3>. QED
      BY <3>1, Zenon DEF Coalesced!Next, Coalesced!Stop, demandMap, runningMap
  <2>. QED
    BY <2>1, <2>2
<1>4. CASE CloseCancel
  <2>1. UNCHANGED <<demandMap, runningMap, ~closed, closing = "returned">>
    BY <1>2, <1>4 DEF CloseCancel
  <2>. QED
    BY <2>1, Zenon DEF Coalesced!avars, demandMap, runningMap
<1>5. CASE CloseReturn
  <2>1. \A g \in Workers : pc[g] = "idle"
    BY <1>5, Counting DEF CloseReturn, Alive, IInv
  <2>2. rerun = {}
    BY <2>1 DEF IInv, TypeOK, EntryInv, Draining, BeforeRun, HoldsSlot
  <2>3. runningMap = {} /\ \A w \in Warehouses : demandMap[w] = 0
    BY <2>1, <2>2 DEF runningMap, demandMap, Owed, Waiting, Running, BeforeRun, HoldsSlot
  <2>4. /\ ~(~closed) /\ ~(closing = "returned") /\ (closing = "returned")' = TRUE
        /\ UNCHANGED <<demandMap, runningMap, ~closed>>
    BY <1>2, <1>5 DEF CloseReturn, IInv, ClosedInv
  <2>. QED
    BY <2>3, <2>4, Zenon DEF Coalesced!Next, Coalesced!Drain, demandMap, runningMap
<1>. QED
  BY <1>3, <1>4, <1>5 DEF Close

(* The worker implements the promise: requests coalesce only into runs that *)
(* have not started, runs of a warehouse do not overlap, no more run at a   *)
(* time than the limit, none is started unasked, and a close drains.        *)
THEOREM Refinement == Spec => ImplementsCoalescedSync
<1>1. Init => Coalesced!Init
  <2>. SUFFICES ASSUME Init
                PROVE  Coalesced!Init
    OBVIOUS
  <2>1. \A w \in Warehouses : ~Waiting(w) /\ ~Running(w) /\ Owed(w) = 0
    BY DEF Init, Waiting, Running, Owed, BeforeRun, HoldsSlot
  <2>2. demandMap = [w \in Warehouses |-> 0] /\ runningMap = {}
    BY <2>1 DEF demandMap, runningMap
  <2>3. ~closed = TRUE /\ (closing = "returned") = FALSE
    BY DEF Init
  <2>. QED
    BY <2>2, <2>3, Zenon DEF Coalesced!Init, demandMap, runningMap
<1>2. IInv /\ [Next]_vars => [Coalesced!Next]_(Coalesced!avars)
  <2>. SUFFICES ASSUME IInv, [Next]_vars
                PROVE  [Coalesced!Next]_(Coalesced!avars)
    OBVIOUS
  <2>1. ASSUME NEW w \in Warehouses, Enqueue(w) \/ EnqueueNow(w)
        PROVE  [Coalesced!Next]_(Coalesced!avars)
    BY <2>1, RequestStep DEF Enqueue, EnqueueNow
  <2>2. ASSUME NEW g \in Workers, WorkerStep(g)
        PROVE  [Coalesced!Next]_(Coalesced!avars)
    BY <2>2, StartStep, FinishStep, FollowUpStep, QuietStep, Zenon DEF WorkerStep
  <2>3. CASE UNCHANGED vars
    <3>1. /\ \A w \in Warehouses : (Waiting(w)' <=> Waiting(w)) /\ (Running(w)' <=> Running(w))
          /\ rerun' = rerun /\ closed' = closed /\ closing' = closing
      BY <2>3 DEF vars, maps, svc, Waiting, Running
    <3>2. UNCHANGED <<demandMap, runningMap, ~closed, closing = "returned">>
      BY <3>1, Invisible
    <3>. QED
      BY <3>2, Zenon DEF Coalesced!avars, demandMap, runningMap
  <2>. QED
    BY <2>1, <2>2, <2>3, CloseStep, Zenon DEF Next, Terminated
<1>. QED
  BY <1>1, <1>2, Inductive, PTL DEF Spec, Coalesced!Spec, ImplementsCoalescedSync
=============================================================================
