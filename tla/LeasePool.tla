------------------------------ MODULE LeasePool ------------------------------
(***************************************************************************)
(* What a pool of connections promises the queries that lease from it.     *)
(* There is at most one current connection for a key.  A query is given    *)
(* the current connection if it was made with the configuration asked for, *)
(* or a new one that becomes current.  A connection is open exactly as     *)
(* long as it is current or leased: it is not closed under a query, and    *)
(* when it is neither it is closed at once.  Apart from that the pool may  *)
(* stop offering an unleased connection whenever it takes or gives back a  *)
(* lease, and any connection when it is told to.                           *)
(***************************************************************************)
CONSTANTS Keys, Clients, Conns, Configs, None

VARIABLES
  current,  \* the connection offered for each key, or None
  held,     \* the connection leased to each client, or None
  open,     \* the connections that are open
  made      \* the configuration each was made with

vars == <<current, held, open, made>>

Needed(cur, lease) ==
  ({cur[k] : k \in Keys} \cup {lease[q] : q \in Clients}) \ {None}

Unleased(cur, lease) == {k \in Keys : \A q \in Clients : lease[q] # cur[k]}

Without(cur, K) == [k \in Keys |-> IF k \in K THEN None ELSE cur[k]]

Init ==
  /\ current = [k \in Keys |-> None]
  /\ held = [q \in Clients |-> None]
  /\ open = {}
  /\ made \in [Conns -> Configs]

AcquireCurrent(q, k, f) ==
  /\ held[q] = None /\ current[k] # None /\ made[current[k]] = f
  /\ held' = [held EXCEPT ![q] = current[k]]
  /\ UNCHANGED <<current, open, made>>

AcquireNew(q, k, f, c) ==
  /\ held[q] = None /\ c \notin open
  /\ held' = [held EXCEPT ![q] = c]
  /\ made' = [made EXCEPT ![c] = f]
  /\ \E gone \in SUBSET (Unleased(current, held) \ {k}) :
       current' = Without([current EXCEPT ![k] = c], gone)
  /\ open' = Needed(current', held')

Release(q) ==
  /\ held[q] # None
  /\ held' = [held EXCEPT ![q] = None]
  /\ \E gone \in SUBSET Unleased(current, held') : current' = Without(current, gone)
  /\ open' = Needed(current', held')
  /\ UNCHANGED made

Drop(K) ==
  /\ current' = Without(current, K)
  /\ open' = Needed(current', held)
  /\ UNCHANGED <<held, made>>

Next ==
  \/ \E q \in Clients, k \in Keys, f \in Configs :
       AcquireCurrent(q, k, f) \/ \E c \in Conns : AcquireNew(q, k, f, c)
  \/ \E q \in Clients : Release(q)
  \/ \E K \in SUBSET Keys : Drop(K)

Spec == Init /\ [][Next]_vars
=============================================================================
