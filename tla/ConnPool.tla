------------------------------- MODULE ConnPool -------------------------------
(***************************************************************************)
(* executor.ConnPool: the resident ClickHouse connections of one process,  *)
(* one for each (endpoint, user), leased to queries and counted.  Every    *)
(* method holds the mutex from start to end, so each is one action.        *)
(*                                                                         *)
(* pool.entries gives the entry of a key, pool.keys the keys from least to *)
(* most recently used, and pool.conn what the code keeps in the poolEntry  *)
(* of a connection.  Time is one bit of a connection: whether IdleTTL has  *)
(* passed since lastUsed.  The releaser of an acquisition works once: a    *)
(* lease is given back once.                                               *)
(***************************************************************************)
EXTENDS Naturals, FiniteSets, SequencesExt

CONSTANTS
  Endpoints, Users,
  Fingerprints,  \* credentialFingerprint of a connector config
  Conns,         \* connections; one that is closed may stand for a new one
  Clients,       \* queries, each with one lease at a time
  MaxPools,      \* PoolConfig.MaxPools; 0 is unlimited
  None

ASSUME MaxPoolsAssumption == MaxPools \in Nat
ASSUME ClientsAssumption == IsFiniteSet(Clients)
ASSUME NoneAssumption == None \notin Conns /\ Fingerprints # {}

VARIABLES
  pool,   \* ConnPool
  lease   \* the connection a client got and has not given back

vars == <<pool, lease>>

Keys == Endpoints \X Users

Init ==
  /\ lease = [q \in Clients |-> None]
  /\ \E f \in Fingerprints :
       pool = [entries |-> [k \in Keys |-> None],
               keys |-> <<>>,
               conn |-> [c \in Conns |-> [open |-> FALSE, fp |-> f, refs |-> 0, dead |-> FALSE,
                                          aged |-> FALSE]]]

Resident(p) == {k \in Keys : p.entries[k] # None}
Listed(p)   == {k \in Keys : \E i \in 1..Len(p.keys) : p.keys[i] = k}
Idle(p, k)  == p.entries[k] # None /\ p.conn[p.entries[k]].refs = 0

Keep(K, kept, k) == IF k \in K THEN kept ELSE Append(kept, k)
Without(s, K) == FoldLeft(LAMBDA kept, k : Keep(K, kept, k), <<>>, s)

(* Mutant for ImplementsLeasePool: an entry in use is closed as well. *)
DetachClosing(p, K) ==
  LET gone == {p.entries[k] : k \in K} \ {None} IN
  [entries |-> [k \in Keys |-> IF k \in K THEN None ELSE p.entries[k]],
   keys |-> Without(p.keys, K),
   conn |-> [c \in Conns |->
     IF c \in gone THEN [p.conn[c] EXCEPT !.open = FALSE, !.dead = TRUE] ELSE p.conn[c]]]

(* detachLocked for each key of K: an entry in use is marked dead, for its  *)
(* last release to close; any other is closed.                              *)
Detach(p, K) ==
  LET gone == {p.entries[k] : k \in K} \ {None} IN
  [entries |-> [k \in Keys |-> IF k \in K THEN None ELSE p.entries[k]],
   keys |-> Without(p.keys, K),
   conn |-> [c \in Conns |->
     IF c \notin gone THEN p.conn[c]
     ELSE IF p.conn[c].refs = 0 THEN [p.conn[c] EXCEPT !.open = FALSE]
     ELSE [p.conn[c] EXCEPT !.dead = TRUE]]]

(* evictLocked: as many idle entries as there are too many, the least       *)
(* recently used first, or as many as there are.                            *)
Excess(p) ==
  LET idle == {i \in 1..Len(p.keys) : Idle(p, p.keys[i])}
      over == Cardinality(Resident(p)) - MaxPools
  IN {k \in Keys : \E i \in idle :
        p.keys[i] = k /\ Cardinality({h \in idle : h <= i}) <= over}

Evict(p) == IF MaxPools = 0 THEN p ELSE Detach(p, Excess(p))

(* Mutant for ListMatchesEntries: touch appends, and removes nothing. *)
GetResidentTwiceListed(q, k, f) ==
  LET c == pool.entries[k] IN
  /\ lease[q] = None /\ c # None /\ pool.conn[c].fp = f
  /\ pool' = [entries |-> pool.entries,
              keys |-> Append(pool.keys, k),
              conn |-> [pool.conn EXCEPT ![c].refs = @ + 1, ![c].aged = FALSE]]
  /\ lease' = [lease EXCEPT ![q] = c]

(* Mutant for RefsCountLeases: the lease is not counted. *)
GetResidentUncounted(q, k, f) ==
  LET c == pool.entries[k] IN
  /\ lease[q] = None /\ c # None /\ pool.conn[c].fp = f
  /\ pool' = [entries |-> pool.entries,
              keys |-> Append(Without(pool.keys, {k}), k),
              conn |-> [pool.conn EXCEPT ![c].aged = FALSE]]
  /\ lease' = [lease EXCEPT ![q] = c]

(* Get finds a live entry for the same configuration. *)
GetResident(q, k, f) ==
  LET c == pool.entries[k] IN
  /\ lease[q] = None /\ c # None /\ pool.conn[c].fp = f
  /\ pool' = [entries |-> pool.entries,
              keys |-> Append(Without(pool.keys, {k}), k),
              conn |-> [pool.conn EXCEPT ![c].refs = @ + 1, ![c].aged = FALSE]]
  /\ lease' = [lease EXCEPT ![q] = c]

(* There is none, or it is for another configuration and detached first.    *)
Misses(k, f) == pool.entries[k] # None => pool.conn[pool.entries[k]].fp # f

GetNew(q, k, f, c) ==
  LET p == Detach(pool, {k}) IN
  /\ lease[q] = None /\ Misses(k, f) /\ ~pool.conn[c].open
  /\ pool' = Evict([entries |-> [p.entries EXCEPT ![k] = c],
                    keys |-> Append(p.keys, k),
                    conn |-> [p.conn EXCEPT ![c] =
                               [open |-> TRUE, fp |-> f, refs |-> 1, dead |-> FALSE, aged |-> FALSE]]])
  /\ lease' = [lease EXCEPT ![q] = c]

(* Open fails: the stale entry is gone all the same. *)
GetFails(k, f) ==
  /\ Misses(k, f)
  /\ pool' = Detach(pool, {k})
  /\ UNCHANGED lease

(* The last release closes a dead entry, or makes room. *)
Returned(c) == [pool EXCEPT !.conn[c].refs = @ - 1]

(* Mutant for OverageOnlyWhileLeased: a release makes no room. *)
ReleaseNoEvict(q) ==
  LET c == lease[q]
      p == Returned(c)
  IN
  /\ c # None
  /\ pool' = IF p.conn[c].refs = 0 /\ p.conn[c].dead THEN [p EXCEPT !.conn[c].open = FALSE] ELSE p
  /\ lease' = [lease EXCEPT ![q] = None]

(* Mutant for TypeOK: the releaser works more than once. *)
ReleaseAgain(q) ==
  /\ lease[q] # None
  /\ pool' = Returned(lease[q])
  /\ UNCHANGED lease

Release(q) ==
  LET c == lease[q]
      p == Returned(c)
  IN
  /\ c # None
  /\ pool' = IF p.conn[c].refs > 0 THEN p
             ELSE IF p.conn[c].dead THEN [p EXCEPT !.conn[c].open = FALSE]
             ELSE Evict(p)
  /\ lease' = [lease EXCEPT ![q] = None]

InvalidateUsers(U) ==
  /\ pool' = Detach(pool, {k \in Listed(pool) : k[2] \in U})
  /\ UNCHANGED lease

Invalidate(k) == pool' = Detach(pool, {k}) /\ UNCHANGED lease

CloseAll == pool' = Detach(pool, Listed(pool)) /\ UNCHANGED lease

CloseIdle ==
  /\ pool' = Detach(pool, {k \in Listed(pool) : Idle(pool, k) /\ pool.conn[pool.entries[k]].aged})
  /\ UNCHANGED lease

(* IdleTTL passes. *)
Age(c) ==
  /\ pool.conn[c].open
  /\ pool' = [pool EXCEPT !.conn[c].aged = TRUE]
  /\ UNCHANGED lease

Next ==
  \/ \E q \in Clients, k \in Keys, f \in Fingerprints :
       GetResident(q, k, f) \/ \E c \in Conns : GetNew(q, k, f, c)
  \/ \E k \in Keys, f \in Fingerprints : GetFails(k, f)
  \/ \E q \in Clients : Release(q)
  \/ \E U \in SUBSET Users : InvalidateUsers(U)
  \/ \E k \in Keys : Invalidate(k)
  \/ CloseAll \/ CloseIdle
  \/ \E c \in Conns : Age(c)

Spec == Init /\ [][Next]_vars
-----------------------------------------------------------------------------
TypeOK ==
  /\ pool.entries \in [Keys -> Conns \cup {None}]
  /\ pool.keys \in Seq(Keys)
  /\ pool.conn \in [Conns -> [open : BOOLEAN, fp : Fingerprints, refs : Nat, dead : BOOLEAN,
                              aged : BOOLEAN]]
  /\ lease \in [Clients -> Conns \cup {None}]

(* The LRU list and the map never drift apart: InvalidateUsers, CloseIdle,  *)
(* CloseAll and the eviction walk the list, so a resident key that is not   *)
(* on it would never be invalidated, and one on it twice would be closed    *)
(* out of turn.                                                             *)
ListMatchesEntries ==
  Listed(pool) = Resident(pool) /\ Len(pool.keys) = Cardinality(Resident(pool))

(* The reference count of a connection is the number of queries that lease  *)
(* it, also after it was detached: the last release, and no other, finds it *)
(* zero.                                                                    *)
RefsCountLeases ==
  \A c \in Conns : pool.conn[c].open =>
    pool.conn[c].refs = Cardinality({q \in Clients : lease[q] = c})

(* The pool exceeds MaxPools only as long as every resident connection is   *)
(* leased: what an eviction could not do, the releases catch up with.       *)
OverageOnlyWhileLeased ==
  MaxPools > 0 /\ Cardinality(Resident(pool)) > MaxPools =>
    \A k \in Resident(pool) : ~Idle(pool, k)

(* The pool is a LeasePool: nothing is closed under a query, everything is  *)
(* closed once it is neither resident nor leased, a query gets the          *)
(* configuration it asked for, and nothing detached is handed out again.    *)
Open == {c \in Conns : pool.conn[c].open}

Abstract == INSTANCE LeasePool WITH
  Configs <- Fingerprints, current <- pool.entries, held <- lease,
  open <- Open, made <- [c \in Conns |-> pool.conn[c].fp]

ImplementsLeasePool == Abstract!Spec
=============================================================================
