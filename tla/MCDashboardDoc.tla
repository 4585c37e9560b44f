----------------------------- MODULE MCDashboardDoc -----------------------------
(***************************************************************************)
(* DashboardDoc for TLC.  Two requests race while no client is connected;  *)
(* with one, a single request runs beside the relay's own calls.  Edits,   *)
(* publishes and damage share a budget that failed calls count against.    *)
(* Only what users and the environment begin is held back, nothing owed.   *)
(***************************************************************************)
EXTENDS DashboardDoc, FiniteSets, TLC

CONSTANT Budget     \* bound: edits, publishes and damage, less the failed calls

Working(a) == ~At(a, {"idle"})

NoClients == \A r \in Relays : relay[r] = NoCopy /\ ~Working(Get(r))

Calm == NoClients \/ Cardinality({q \in Requests : Working(q)}) <= 1

Publishing == versions # <<>> \/ \E q \in Requests : call[q].job = Publish

Spent == Cardinality(made) + damages + faults + (IF Publishing THEN 1 ELSE 0)

Starts(a) == ~Working(a) /\ Working(a)'

Bounded ==
  /\ (\E a \in Requests \cup {Get(r) : r \in Relays} : Starts(a)) => Calm'
  /\ (made' # made \/ damages' # damages \/ \E q \in Requests : Starts(q)) => Spent' <= Budget

\* Everything allowed has been done.
Rest == (\A a \in Actors : ~Working(a)) /\ UNCHANGED vars

MCNext == (Next /\ Bounded) \/ Rest

MCSpec ==
  /\ Init /\ [][MCNext]_vars
  /\ \A r \in Relays : /\ WF_vars(GetStep(r)) /\ WF_vars(PutStep(r)) /\ WF_vars(Unload(r))
                       /\ \A role \in Roles : WF_vars(Revalidate(r, role))
=============================================================================
