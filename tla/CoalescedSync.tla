---------------------------- MODULE CoalescedSync ----------------------------
(***************************************************************************)
(* What chaccess.SyncService promises its callers, whatever its            *)
(* goroutines, flags and channels do: requests for a warehouse coalesce,   *)
(* but never into a run that has already started; runs of one warehouse    *)
(* never overlap; a run is never started that nobody asked for; and after  *)
(* a close, nothing is left undone when it has drained.                    *)
(***************************************************************************)
EXTENDS Naturals, FiniteSets

CONSTANTS Warehouses, MaxConcurrent

VARIABLES
  demand,     \* runs still owed to the requests made so far
  running,    \* the warehouses being reconciled
  accepting,  \* requests are taken
  drained     \* the close is complete

avars == <<demand, running, accepting, drained>>

Init ==
  /\ demand = [w \in Warehouses |-> 0]
  /\ running = {}
  /\ accepting = TRUE
  /\ drained = FALSE

(* A request is owed a run that has not started yet: the one already owed   *)
(* will do.                                                                 *)
Request(w) ==
  /\ accepting
  /\ \E d \in 1..2 :
       /\ d \in {demand[w], demand[w] + 1}
       /\ demand' = [demand EXCEPT ![w] = d]
  /\ UNCHANGED <<running, accepting, drained>>

Start(w) ==
  /\ demand[w] > 0 /\ w \notin running
  /\ Cardinality(running) < MaxConcurrent
  /\ demand' = [demand EXCEPT ![w] = @ - 1]
  /\ running' = running \cup {w}
  /\ UNCHANGED <<accepting, drained>>

Finish(w) ==
  /\ w \in running
  /\ running' = running \ {w}
  /\ UNCHANGED <<demand, accepting, drained>>

Stop ==
  /\ accepting
  /\ accepting' = FALSE
  /\ UNCHANGED <<demand, running, drained>>

Drain ==
  /\ ~accepting /\ ~drained
  /\ running = {} /\ \A w \in Warehouses : demand[w] = 0
  /\ drained' = TRUE
  /\ UNCHANGED <<demand, running, accepting>>

Next ==
  \/ \E w \in Warehouses : Request(w) \/ Start(w) \/ Finish(w)
  \/ Stop
  \/ Drain

Spec == Init /\ [][Next]_avars

Fairness ==
  /\ \A w \in Warehouses : SF_avars(Start(w)) /\ WF_avars(Finish(w))

FairSpec == Spec /\ Fairness
=============================================================================
