--------------------------- MODULE ConnPoolProofs ---------------------------
(***************************************************************************)
(* ConnPool counts its leases right, keeps its list and its map together,  *)
(* evicts what MaxPools asks for and implements LeasePool, for any         *)
(* endpoints, users, configurations, connections, finite set of clients    *)
(* and MaxPools.  The inductive invariant Sound says of a pool and the     *)
(* leases in force how entries, counts and marks hang together; ListInv    *)
(* adds the list of keys.  The proofs are about the pool as a value: what  *)
(* Detach and Evict do to a sound pool, whatever method called them.       *)
(***************************************************************************)
EXTENDS ConnPool, TLAPS, FiniteSetTheorems

Entry == [open : BOOLEAN, fp : Fingerprints, refs : Nat, dead : BOOLEAN,
          aged : BOOLEAN]

Typed(p, L) ==
  /\ p.entries \in [Keys -> Conns \cup {None}]
  /\ p.conn \in [Conns -> Entry]
  /\ L \in [Clients -> Conns \cup {None}]

Holders(L, c) == {q \in Clients : L[q] = c}

(* One entry for a connection. *)
Injective(p) ==
  \A k, l \in Keys : p.entries[k] = p.entries[l] /\ p.entries[k] # None => k = l

(* Open is resident or leased. *)
Reachable(p, L, c) ==
  (\E k \in Keys : p.entries[k] = c) \/ (\E q \in Clients : L[q] = c)

OpenIffReachable(p, L) == \A c \in Conns : p.conn[c].open <=> Reachable(p, L, c)

(* Dead is open and no longer resident. *)
DeadIffDetached(p) ==
  \A c \in Conns : p.conn[c].open => (p.conn[c].dead <=> \A k \in Keys : p.entries[k] # c)

Counted(p, L) ==
  \A c \in Conns : p.conn[c].open => p.conn[c].refs = Cardinality(Holders(L, c))

Sound(p, L) ==
  /\ Typed(p, L)
  /\ Injective(p) /\ OpenIffReachable(p, L) /\ DeadIffDetached(p) /\ Counted(p, L)

IInv == Sound(pool, lease)

(* The entries once the keys of K are no longer offered. *)
Offered(p, K) == [k \in Keys |-> IF k \in K THEN None ELSE p.entries[k]]

OpenOf(p) == {c \in Conns : p.conn[c].open}
FpOf(p)   == [c \in Conns |-> p.conn[c].fp]
-----------------------------------------------------------------------------
(* Leases are few enough to count, and one more or less is one more or less.*)
LEMMA HoldersFinite ==
  ASSUME NEW L, NEW c
  PROVE  IsFiniteSet(Holders(L, c)) /\ Cardinality(Holders(L, c)) \in Nat
<1>1. Holders(L, c) \in SUBSET Clients
  BY DEF Holders
<1> QED
  BY <1>1, ClientsAssumption, FS_Subset, FS_CardinalityType

(* No holders, no leases.                                                   *)
LEMMA NobodyHolds ==
  ASSUME NEW L, NEW c
  PROVE  Cardinality(Holders(L, c)) = 0 <=> \A q \in Clients : L[q] # c
<1>1. Cardinality(Holders(L, c)) = 0 <=> Holders(L, c) = {}
  BY HoldersFinite, FS_EmptySet
<1> QED
  BY <1>1 DEF Holders

(* A lease taken is one holder more.                                        *)
LEMMA OneMoreHolder ==
  ASSUME NEW L \in [Clients -> Conns \cup {None}], NEW q \in Clients, L[q] = None,
         NEW c \in Conns, NEW d \in Conns
  PROVE  Cardinality(Holders([L EXCEPT ![q] = c], d))
           = IF d = c THEN Cardinality(Holders(L, d)) + 1 ELSE Cardinality(Holders(L, d))
<1>1. CASE d = c
  <2>1. Holders([L EXCEPT ![q] = c], d) = Holders(L, d) \cup {q}
    BY <1>1 DEF Holders
  <2>2. q \notin Holders(L, d)
    BY NoneAssumption DEF Holders
  <2> QED
    BY <1>1, <2>1, <2>2, HoldersFinite, FS_AddElement
<1>2. CASE d # c
  <2>1. Holders([L EXCEPT ![q] = c], d) = Holders(L, d)
    BY <1>2, NoneAssumption DEF Holders
  <2> QED
    BY <1>2, <2>1
<1> QED
  BY <1>1, <1>2

(* A lease given back is one holder less.                                   *)
LEMMA OneLessHolder ==
  ASSUME NEW L \in [Clients -> Conns \cup {None}], NEW q \in Clients, L[q] # None,
         NEW d \in Conns
  PROVE  /\ Cardinality(Holders([L EXCEPT ![q] = None], d))
             = IF d = L[q] THEN Cardinality(Holders(L, d)) - 1 ELSE Cardinality(Holders(L, d))
         /\ d = L[q] => Cardinality(Holders(L, d)) > 0
<1>1. CASE d = L[q]
  <2>1. Holders([L EXCEPT ![q] = None], d) = Holders(L, d) \ {q}
    BY <1>1, NoneAssumption DEF Holders
  <2>2. q \in Holders(L, d)
    BY <1>1 DEF Holders
  <2>3. Cardinality(Holders(L, d)) # 0
    BY <1>1, NobodyHolds
  <2>4. Cardinality(Holders(L, d) \ {q}) = Cardinality(Holders(L, d)) - 1
    BY <2>2, HoldersFinite, FS_RemoveElement
  <2>5. Cardinality(Holders(L, d)) > 0
    BY <2>3, HoldersFinite
  <2> QED
    BY <1>1, <2>1, <2>4, <2>5
<1>2. CASE d # L[q]
  <2>1. Holders([L EXCEPT ![q] = None], d) = Holders(L, d)
    BY <1>2, NoneAssumption DEF Holders
  <2> QED
    BY <1>2, <2>1
<1> QED
  BY <1>1, <1>2
-----------------------------------------------------------------------------
(* Detaching any keys keeps a pool sound for the same leases, offers the    *)
(* remaining entries, and changes no fingerprint and no count.              *)
LEMMA DetachSound ==
  ASSUME NEW p, NEW L, NEW K \in SUBSET Keys, Sound(p, L)
  PROVE  /\ Sound(Detach(p, K), L)
         /\ Detach(p, K).entries = Offered(p, K)
         /\ FpOf(Detach(p, K)) = FpOf(p)
<1> DEFINE d == Detach(p, K)
           gone == {p.entries[k] : k \in K} \ {None}
<1>1. d.entries = [k \in Keys |-> IF k \in K THEN None ELSE p.entries[k]]
  BY DEF Detach
<1>2. d.conn = [c \in Conns |->
         IF c \notin gone THEN p.conn[c]
         ELSE IF p.conn[c].refs = 0 THEN [p.conn[c] EXCEPT !.open = FALSE]
         ELSE [p.conn[c] EXCEPT !.dead = TRUE]]
  BY DEF Detach
<1> HIDE DEF d
<1>3. p.entries \in [Keys -> Conns \cup {None}] /\ p.conn \in [Conns -> Entry]
  BY DEF Sound, Typed
<1>4. \A c \in Conns : c \in gone <=> \E k \in K : p.entries[k] = c
  BY NoneAssumption
<1> HIDE DEF gone
<1>5. \A c \in Conns : /\ d.conn[c] \in Entry
                       /\ d.conn[c].fp = p.conn[c].fp /\ d.conn[c].refs = p.conn[c].refs
                       /\ c \notin gone => d.conn[c] = p.conn[c]
                       /\ c \in gone => /\ d.conn[c].open <=> p.conn[c].open /\ p.conn[c].refs # 0
                                        /\ p.conn[c].refs # 0 => d.conn[c].dead
  <2> SUFFICES ASSUME NEW c \in Conns
               PROVE  /\ d.conn[c] \in Entry
                      /\ d.conn[c].fp = p.conn[c].fp /\ d.conn[c].refs = p.conn[c].refs
                      /\ c \notin gone => d.conn[c] = p.conn[c]
                      /\ c \in gone => /\ d.conn[c].open <=> p.conn[c].open /\ p.conn[c].refs # 0
                                       /\ p.conn[c].refs # 0 => d.conn[c].dead
    OBVIOUS
  <2>1. p.conn[c] \in Entry
    BY <1>3
  <2>2. CASE c \notin gone
    BY <1>2, <2>1, <2>2
  <2>3. CASE c \in gone /\ p.conn[c].refs = 0
    <3>1. d.conn[c] = [p.conn[c] EXCEPT !.open = FALSE]
      BY <1>2, <2>3
    <3> QED
      BY <2>1, <2>3, <3>1 DEF Entry
  <2>4. CASE c \in gone /\ p.conn[c].refs # 0
    <3>1. d.conn[c] = [p.conn[c] EXCEPT !.dead = TRUE]
      BY <1>2, <2>4
    <3> QED
      BY <2>1, <2>4, <3>1 DEF Entry
  <2> QED
    BY <2>2, <2>3, <2>4
<1>7. Typed(d, L)
  <2>1. d.entries \in [Keys -> Conns \cup {None}]
    BY <1>1, <1>3
  <2>2. d.conn \in [Conns -> Entry]
    BY <1>2, <1>5
  <2> QED
    BY <2>1, <2>2 DEF Sound, Typed
<1>8. Injective(d)
  BY <1>1 DEF Sound, Injective
<1>9. ASSUME NEW c \in Conns
      PROVE  (\E k \in Keys : d.entries[k] = c)
               <=> c \notin gone /\ \E k \in Keys : p.entries[k] = c
  <2>1. ASSUME NEW k \in Keys, d.entries[k] = c  PROVE c \notin gone /\ p.entries[k] = c
    <3>1. k \notin K /\ p.entries[k] = c
      BY <1>1, <2>1, NoneAssumption
    <3>2. \A l \in K : p.entries[l] # c
      BY <3>1, NoneAssumption DEF Sound, Injective
    <3> QED
      BY <3>1, <3>2, <1>4
  <2>2. ASSUME NEW k \in Keys, p.entries[k] = c, c \notin gone  PROVE d.entries[k] = c
    BY <1>1, <1>4, <2>2
  <2> QED
    BY <2>1, <2>2
<1>10. OpenIffReachable(d, L)
  <2> SUFFICES ASSUME NEW c \in Conns  PROVE d.conn[c].open <=> Reachable(d, L, c)
    BY DEF OpenIffReachable
  <2>1. p.conn[c].open <=> Reachable(p, L, c)
    BY DEF Sound, OpenIffReachable
  <2>2. CASE c \notin gone
    BY <2>1, <2>2, <1>5, <1>9 DEF Reachable
  <2>3. CASE c \in gone
    <3>1. p.conn[c].open
      BY <2>1, <2>3, <1>4 DEF Reachable
    <3>2. p.conn[c].refs # 0 <=> \E q \in Clients : L[q] = c
      BY <3>1, NobodyHolds DEF Sound, Counted
    <3> QED
      BY <2>3, <3>1, <3>2, <1>5, <1>9 DEF Reachable
  <2> QED
    BY <2>2, <2>3
<1>11. DeadIffDetached(d)
  <2> SUFFICES ASSUME NEW c \in Conns, d.conn[c].open
               PROVE  d.conn[c].dead <=> \A k \in Keys : d.entries[k] # c
    BY DEF DeadIffDetached
  <2>1. CASE c \notin gone
    BY <2>1, <1>5, <1>9 DEF Sound, DeadIffDetached
  <2>2. CASE c \in gone
    BY <2>2, <1>5, <1>9
  <2> QED
    BY <2>1, <2>2
<1>12. Counted(d, L)
  BY <1>5 DEF Sound, Counted
<1>13. FpOf(d) = FpOf(p)
  BY <1>5 DEF FpOf
<1> QED
  BY <1>1, <1>7, <1>8, <1>10, <1>11, <1>12, <1>13 DEF Sound, Offered, d

(* An idle resident connection is leased to nobody. *)
LEMMA IdleUnleased ==
  ASSUME NEW p, NEW L, Sound(p, L), NEW k \in Keys, Idle(p, k)
  PROVE  \A q \in Clients : L[q] # p.entries[k]
<1>1. p.entries[k] \in Conns
  BY DEF Idle, Sound, Typed
<1>2. p.conn[p.entries[k]].open
  BY <1>1 DEF Sound, OpenIffReachable, Reachable
<1> QED
  BY <1>1, <1>2, NobodyHolds DEF Idle, Sound, Counted

(* Eviction detaches some idle keys. *)
LEMMA EvictSound ==
  ASSUME NEW p, NEW L, Sound(p, L)
  PROVE  /\ Sound(Evict(p), L)
         /\ FpOf(Evict(p)) = FpOf(p)
         /\ \E gone \in SUBSET {k \in Keys : Idle(p, k)} :
              Evict(p).entries = Offered(p, gone)
<1>1. CASE MaxPools = 0
  <2>1. Evict(p) = p
    BY <1>1 DEF Evict
  <2>2. p.entries = Offered(p, {})
    BY DEF Sound, Typed, Offered
  <2>3. {} \in SUBSET {k \in Keys : Idle(p, k)}
    OBVIOUS
  <2> QED
    BY <2>1, <2>2, <2>3
<1>2. CASE MaxPools # 0
  <2>1. Evict(p) = Detach(p, Excess(p))
    BY <1>2 DEF Evict
  <2>2. Excess(p) \in SUBSET {k \in Keys : Idle(p, k)}
    BY DEF Excess
  <2>3. Excess(p) \in SUBSET Keys
    BY <2>2
  <2>4. /\ Sound(Detach(p, Excess(p)), L)
        /\ FpOf(Detach(p, Excess(p))) = FpOf(p)
        /\ Detach(p, Excess(p)).entries = Offered(p, Excess(p))
    BY <2>3, DetachSound
  <2> QED
    BY <2>1, <2>2, <2>4
<1> QED
  BY <1>1, <1>2

Inserted(p, n, k, c, f) ==
  /\ p.entries[k] = None /\ ~p.conn[c].open
  /\ n.entries = [p.entries EXCEPT ![k] = c]
  /\ n.conn = [p.conn EXCEPT ![c] = [open |-> TRUE, fp |-> f, refs |-> 1, dead |-> FALSE,
                                     aged |-> FALSE]]

(* A new connection for a key without an entry, leased at once.             *)
LEMMA InsertSound ==
  ASSUME NEW p, NEW L, Sound(p, L), NEW k \in Keys, NEW c \in Conns, NEW f \in Fingerprints,
         NEW q \in Clients, L[q] = None, NEW n, Inserted(p, n, k, c, f)
  PROVE  /\ Sound(n, [L EXCEPT ![q] = c])
         /\ FpOf(n) = [FpOf(p) EXCEPT ![c] = f]
<1> USE DEF Inserted
<1> DEFINE M == [L EXCEPT ![q] = c]
           fresh == [open |-> TRUE, fp |-> f, refs |-> 1, dead |-> FALSE,
                     aged |-> FALSE]
<1>1. p.entries \in [Keys -> Conns \cup {None}] /\ p.conn \in [Conns -> Entry]
      /\ L \in [Clients -> Conns \cup {None}]
  BY DEF Sound, Typed
<1>2. fresh \in Entry
  BY DEF Entry
<1>3. n.conn[c] = fresh /\ \A d \in Conns : d # c => n.conn[d] = p.conn[d]
  BY <1>1
<1>4. n.entries[k] = c /\ \A l \in Keys : l # k => n.entries[l] = p.entries[l]
  BY <1>1
<1>5. M[q] = c /\ \A r \in Clients : r # q => M[r] = L[r]
  BY <1>1
<1>6. /\ \A l \in Keys : p.entries[l] # c
      /\ \A r \in Clients : L[r] # c
  BY DEF Sound, OpenIffReachable, Reachable
<1>7. Typed(n, M)
  BY <1>1, <1>2 DEF Typed
<1> HIDE DEF M
<1>8. Injective(n)
  BY <1>4, <1>6, NoneAssumption DEF Sound, Injective
<1>9. OpenIffReachable(n, M)
  <2> SUFFICES ASSUME NEW d \in Conns  PROVE n.conn[d].open <=> Reachable(n, M, d)
    BY DEF OpenIffReachable
  <2>1. CASE d = c
    BY <2>1, <1>3, <1>4 DEF Reachable
  <2>2. CASE d # c
    <3>1. n.conn[d].open <=> Reachable(p, L, d)
      BY <2>2, <1>3 DEF Sound, OpenIffReachable
    <3>2. (\E l \in Keys : p.entries[l] = d) <=> (\E l \in Keys : n.entries[l] = d)
      BY <2>2, <1>4, NoneAssumption
    <3>3. (\E r \in Clients : L[r] = d) <=> (\E r \in Clients : M[r] = d)
      BY <2>2, <1>5, NoneAssumption
    <3> QED
      BY <3>1, <3>2, <3>3 DEF Reachable
  <2> QED
    BY <2>1, <2>2
<1>10. DeadIffDetached(n)
  <2> SUFFICES ASSUME NEW d \in Conns, n.conn[d].open
               PROVE  n.conn[d].dead <=> \A l \in Keys : n.entries[l] # d
    BY DEF DeadIffDetached
  <2>1. CASE d = c
    BY <2>1, <1>3, <1>4
  <2>2. CASE d # c
    <3>1. p.conn[d].dead <=> \A l \in Keys : p.entries[l] # d
      BY <2>2, <1>3 DEF Sound, DeadIffDetached
    <3>2. (\A l \in Keys : p.entries[l] # d) <=> (\A l \in Keys : n.entries[l] # d)
      BY <2>2, <1>4, NoneAssumption
    <3> QED
      BY <2>2, <3>1, <3>2, <1>3
  <2> QED
    BY <2>1, <2>2
<1>11. Counted(n, M)
  <2> SUFFICES ASSUME NEW d \in Conns, n.conn[d].open
               PROVE  n.conn[d].refs = Cardinality(Holders(M, d))
    BY DEF Counted
  <2>1. Cardinality(Holders(M, d))
          = IF d = c THEN Cardinality(Holders(L, d)) + 1 ELSE Cardinality(Holders(L, d))
    <3>1. Cardinality(Holders([L EXCEPT ![q] = c], d))
            = IF d = c THEN Cardinality(Holders(L, d)) + 1 ELSE Cardinality(Holders(L, d))
      BY ONLY <1>1, L[q] = None, c \in Conns, d \in Conns, q \in Clients, OneMoreHolder, ZenonT(30)
    <3> QED
      BY <3>1 DEF M
  <2>2. Cardinality(Holders(L, c)) = 0
    BY <1>6, NobodyHolds
  <2> QED
    BY <2>1, <2>2, <1>3 DEF Sound, Counted
<1>12. FpOf(n) = [FpOf(p) EXCEPT ![c] = f]
  <2>1. \A d \in Conns : n.conn[d].fp = IF d = c THEN f ELSE p.conn[d].fp
    BY <1>3
  <2>2. FpOf(n) = [d \in Conns |-> IF d = c THEN f ELSE p.conn[d].fp]
    BY <2>1 DEF FpOf
  <2>3. [FpOf(p) EXCEPT ![c] = f] = [d \in Conns |-> IF d = c THEN f ELSE p.conn[d].fp]
    BY DEF FpOf
  <2> QED
    BY <2>2, <2>3
<1> QED
  BY <1>7, <1>8, <1>9, <1>10, <1>11, <1>12 DEF Sound, M

(* What the methods do to the entry of a connection. *)
LEMMA EntryTaken ==
  ASSUME NEW o \in Entry, NEW n, n = [o EXCEPT !.refs = @ + 1, !.aged = FALSE]
  PROVE  /\ n \in Entry /\ n.fp = o.fp /\ (n.dead <=> o.dead) /\ (n.open <=> o.open)
         /\ n.refs = o.refs + 1
<1> DEFINE m == o.refs + 1
<1>1. m \in Nat
  BY DEF Entry
<1>2. n = [o EXCEPT !.refs = m, !.aged = FALSE]
  OBVIOUS
<1> HIDE DEF m
<1>3. /\ n \in Entry /\ n.fp = o.fp /\ (n.dead <=> o.dead) /\ (n.open <=> o.open)
      /\ n.refs = m
  BY <1>1, <1>2 DEF Entry
<1> QED
  BY <1>3 DEF m

(* What a release does to an entry.                                         *)
LEMMA EntryReturned ==
  ASSUME NEW o \in Entry, o.refs > 0, NEW n, n = [o EXCEPT !.refs = @ - 1]
  PROVE  /\ n \in Entry /\ n.fp = o.fp /\ (n.dead <=> o.dead) /\ (n.open <=> o.open)
         /\ n.refs = o.refs - 1
<1> DEFINE m == o.refs - 1
<1>1. m \in Nat
  BY DEF Entry
<1>2. n = [o EXCEPT !.refs = m]
  OBVIOUS
<1> HIDE DEF m
<1>3. /\ n \in Entry /\ n.fp = o.fp /\ (n.dead <=> o.dead) /\ (n.open <=> o.open)
      /\ n.refs = m
  BY <1>1, <1>2 DEF Entry
<1> QED
  BY <1>3 DEF m

(* What time does to an entry.                                              *)
LEMMA EntryAged ==
  ASSUME NEW o \in Entry, NEW n, n = [o EXCEPT !.aged = TRUE]
  PROVE  /\ n \in Entry /\ n.fp = o.fp /\ (n.dead <=> o.dead) /\ (n.open <=> o.open)
         /\ n.refs = o.refs
BY DEF Entry

Taken(p, n, c) ==
  /\ n.entries = p.entries /\ n.conn \in [Conns -> Entry]
  /\ \A d \in Conns :
       /\ n.conn[d].fp = p.conn[d].fp /\ (n.conn[d].dead <=> p.conn[d].dead)
       /\ n.conn[d].refs = IF d = c THEN p.conn[d].refs + 1 ELSE p.conn[d].refs
       /\ n.conn[d].open <=> p.conn[d].open

(* One more lease of a resident connection. *)
LEMMA LeaseAgainSound ==
  ASSUME NEW p, NEW L, Sound(p, L), NEW k \in Keys, NEW c \in Conns, p.entries[k] = c,
         NEW q \in Clients, L[q] = None, NEW n, Taken(p, n, c)
  PROVE  /\ Sound(n, [L EXCEPT ![q] = c])
         /\ OpenOf(n) = OpenOf(p) /\ FpOf(n) = FpOf(p)
<1> USE DEF Taken
<1> DEFINE M == [L EXCEPT ![q] = c]
<1>1. L \in [Clients -> Conns \cup {None}]
  BY DEF Sound, Typed
<1>2. \A d \in Conns : Cardinality(Holders(M, d))
        = IF d = c THEN Cardinality(Holders(L, d)) + 1 ELSE Cardinality(Holders(L, d))
  BY ONLY <1>1, L[q] = None, c \in Conns, q \in Clients, OneMoreHolder
<1>3. M[q] = c /\ \A r \in Clients : r # q => M[r] = L[r]
  BY <1>1
<1>4. Typed(n, M)
  BY <1>1 DEF Sound, Typed
<1> HIDE DEF M
<1>5. Injective(n)
  BY DEF Sound, Injective
<1>6. OpenIffReachable(n, M)
  <2> SUFFICES ASSUME NEW d \in Conns  PROVE n.conn[d].open <=> Reachable(n, M, d)
    BY DEF OpenIffReachable
  <2>1. n.conn[d].open <=> Reachable(p, L, d)
    BY DEF Sound, OpenIffReachable
  <2>2. CASE d = c
    BY <2>1, <2>2 DEF Reachable
  <2>3. CASE d # c
    BY <2>1, <2>3, <1>3, NoneAssumption DEF Reachable
  <2> QED
    BY <2>2, <2>3
<1>7. DeadIffDetached(n)
  BY DEF Sound, DeadIffDetached
<1>8. Counted(n, M)
  <2> SUFFICES ASSUME NEW d \in Conns, n.conn[d].open
               PROVE  n.conn[d].refs = Cardinality(Holders(M, d))
    BY DEF Counted
  <2>1. p.conn[d].refs = Cardinality(Holders(L, d))
    BY DEF Sound, Counted
  <2> QED
    BY <2>1, <1>2
<1>9. OpenOf(n) = OpenOf(p)
  BY DEF OpenOf
<1>10. FpOf(n) = FpOf(p)
  BY DEF FpOf
<1> QED
  BY <1>4, <1>5, <1>6, <1>7, <1>8, <1>9, <1>10 DEF Sound, M

Given(p, m, c) ==
  /\ m.entries = p.entries /\ m.conn \in [Conns -> Entry]
  /\ \A d \in Conns :
       /\ m.conn[d].fp = p.conn[d].fp /\ (m.conn[d].dead <=> p.conn[d].dead)
       /\ m.conn[d].refs = IF d = c THEN p.conn[d].refs - 1 ELSE p.conn[d].refs
       /\ m.conn[d].open <=>
            p.conn[d].open /\ ~(d = c /\ p.conn[c].refs = 1 /\ p.conn[c].dead)

(* One lease less; the last one of a dead connection closes it.             *)
LEMMA ReturnSound ==
  ASSUME NEW p, NEW L, Sound(p, L), NEW q \in Clients, NEW c \in Conns, L[q] = c,
         NEW m, Given(p, m, c)
  PROVE  /\ Sound(m, [L EXCEPT ![q] = None])
         /\ FpOf(m) = FpOf(p)
<1> USE DEF Given
<1> DEFINE M == [L EXCEPT ![q] = None]
           last == p.conn[c].refs = 1 /\ p.conn[c].dead
<1>1. L \in [Clients -> Conns \cup {None}]
  BY DEF Sound, Typed
<1>2. L[q] # None
  BY NoneAssumption
<1>3. p.conn[c].open
  BY DEF Sound, OpenIffReachable, Reachable
<1>4. \A d \in Conns : Cardinality(Holders(M, d))
        = IF d = c THEN Cardinality(Holders(L, d)) - 1 ELSE Cardinality(Holders(L, d))
  <2> SUFFICES ASSUME NEW d \in Conns
               PROVE  Cardinality(Holders([L EXCEPT ![q] = None], d))
                        = IF d = L[q] THEN Cardinality(Holders(L, d)) - 1
                          ELSE Cardinality(Holders(L, d))
    OBVIOUS
  <2> QED
    BY ONLY <1>1, <1>2, q \in Clients, d \in Conns, OneLessHolder
<1>5. M[q] = None /\ \A r \in Clients : r # q => M[r] = L[r]
  BY <1>1
<1>6. Typed(m, M)
  BY <1>1 DEF Sound, Typed
<1> HIDE DEF M
<1>7. last <=> (\A r \in Clients : M[r] # c) /\ (\A k \in Keys : p.entries[k] # c)
  <2>1. p.conn[c].refs = Cardinality(Holders(L, c))
    BY <1>3 DEF Sound, Counted
  <2>2. p.conn[c].refs = 1 <=> Cardinality(Holders(M, c)) = 0
    BY <2>1, <1>4, HoldersFinite
  <2>3. p.conn[c].refs = 1 <=> \A r \in Clients : M[r] # c
    BY <2>2, NobodyHolds
  <2>4. p.conn[c].dead <=> \A k \in Keys : p.entries[k] # c
    BY <1>3 DEF Sound, DeadIffDetached
  <2> QED
    BY <2>3, <2>4
<1>8. \A d \in Conns : m.conn[d].open <=> p.conn[d].open /\ ~(d = c /\ last)
  OBVIOUS
<1> HIDE DEF last
<1>9. Injective(m)
  BY DEF Sound, Injective
<1>10. OpenIffReachable(m, M)
  <2> SUFFICES ASSUME NEW d \in Conns  PROVE m.conn[d].open <=> Reachable(m, M, d)
    BY DEF OpenIffReachable
  <2>1. CASE d = c
    BY <2>1, <1>3, <1>7, <1>8 DEF Reachable
  <2>2. CASE d # c
    <3>1. m.conn[d].open <=> Reachable(p, L, d)
      BY <2>2, <1>8 DEF Sound, OpenIffReachable
    <3>2. (\E r \in Clients : L[r] = d) <=> (\E r \in Clients : M[r] = d)
      BY <2>2, <1>5, NoneAssumption
    <3> QED
      BY <3>1, <3>2 DEF Reachable
  <2> QED
    BY <2>1, <2>2
<1>11. DeadIffDetached(m)
  BY <1>8 DEF Sound, DeadIffDetached
<1>12. Counted(m, M)
  <2> SUFFICES ASSUME NEW d \in Conns, m.conn[d].open
               PROVE  m.conn[d].refs = Cardinality(Holders(M, d))
    BY DEF Counted
  <2>1. p.conn[d].refs = Cardinality(Holders(L, d))
    BY <1>8 DEF Sound, Counted
  <2> QED
    BY <2>1, <1>4
<1>13. FpOf(m) = FpOf(p)
  BY DEF FpOf
<1> QED
  BY <1>6, <1>9, <1>10, <1>11, <1>12, <1>13 DEF Sound, M
-----------------------------------------------------------------------------
(* What each method does, in the terms of the invariant and of LeasePool.   *)

(* A sound pool has open what LeasePool needs open.                         *)
LEMMA OpenIsNeeded ==
  ASSUME NEW p, NEW L, Sound(p, L)
  PROVE  OpenOf(p) = Abstract!Needed(p.entries, L)
BY NoneAssumption DEF OpenOf, Sound, Typed, OpenIffReachable, Reachable, Abstract!Needed

(* The methods that only detach keys. *)
LEMMA DropStep ==
  ASSUME IInv, NEW K \in SUBSET Keys, pool' = Detach(pool, K), UNCHANGED lease
  PROVE  IInv' /\ Abstract!Drop(K)
<1>1. /\ Sound(pool', lease)
      /\ pool'.entries = Offered(pool, K)
      /\ FpOf(pool') = FpOf(pool)
  BY DetachSound DEF IInv
<1>2. OpenOf(pool') = Abstract!Needed(pool'.entries, lease)
  BY <1>1, OpenIsNeeded
<1> QED
  BY <1>1, <1>2 DEF IInv, Abstract!Drop, Abstract!Without, Offered, Open, OpenOf, FpOf

(* A hit.                                                                   *)
LEMMA GetResidentStep ==
  ASSUME IInv, NEW q \in Clients, NEW k \in Keys, NEW f \in Fingerprints, GetResident(q, k, f)
  PROVE  IInv' /\ Abstract!AcquireCurrent(q, k, f)
<1> DEFINE c == pool.entries[k]
<1>1. pool.entries \in [Keys -> Conns \cup {None}] /\ pool.conn \in [Conns -> Entry]
  BY DEF IInv, Sound, Typed
<1>2. c \in Conns /\ lease[q] = None /\ pool.conn[c].fp = f
      /\ lease' = [lease EXCEPT ![q] = c] /\ pool'.entries = pool.entries
  BY <1>1 DEF GetResident
<1>3. pool'.conn = [pool.conn EXCEPT ![c].refs = @ + 1, ![c].aged = FALSE]
  BY DEF GetResident
<1>4. ASSUME NEW d \in Conns
      PROVE  /\ pool'.conn[d] \in Entry
             /\ pool'.conn[d].fp = pool.conn[d].fp /\ (pool'.conn[d].dead <=> pool.conn[d].dead)
             /\ pool'.conn[d].refs = IF d = c THEN pool.conn[d].refs + 1 ELSE pool.conn[d].refs
             /\ pool'.conn[d].open <=> pool.conn[d].open
  <2>1. pool.conn[d] \in Entry
    BY <1>1
  <2>2. CASE d = c
    <3>1. pool'.conn[d] = [pool.conn[d] EXCEPT !.refs = @ + 1, !.aged = FALSE]
      BY <1>1, <1>2, <1>3, <2>2
    <3> HIDE DEF c
    <3> QED
      BY <2>1, <2>2, <3>1, EntryTaken
  <2>3. CASE d # c
    <3>1. pool'.conn[d] = pool.conn[d]
      BY <1>1, <1>2, <1>3, <2>3
    <3> HIDE DEF c
    <3> QED
      BY <2>1, <2>3, <3>1
  <2> QED
    BY <2>2, <2>3
<1>5. pool'.conn \in [Conns -> Entry]
  BY <1>1, <1>3, <1>4
<1>6. pool.entries[k] = c /\ Sound(pool, lease)
  BY DEF IInv
<1> HIDE DEF c
<1>7. Taken(pool, pool', c)
  BY <1>2, <1>4, <1>5 DEF Taken
<1>8. /\ Sound(pool', [lease EXCEPT ![q] = c])
      /\ OpenOf(pool') = OpenOf(pool) /\ FpOf(pool') = FpOf(pool)
  BY ONLY <1>2, <1>6, <1>7, k \in Keys, q \in Clients, LeaseAgainSound
<1> QED
  BY <1>1, <1>2, <1>6, <1>8, NoneAssumption
  DEF IInv, Abstract!AcquireCurrent, Open, OpenOf, FpOf

(* A miss.                                                                  *)
LEMMA GetNewStep ==
  ASSUME IInv, NEW q \in Clients, NEW k \in Keys, NEW f \in Fingerprints, NEW c \in Conns,
         GetNew(q, k, f, c)
  PROVE  IInv' /\ Abstract!AcquireNew(q, k, f, c)
<1> DEFINE d == Detach(pool, {k})
           n == [entries |-> [d.entries EXCEPT ![k] = c],
                 keys |-> Append(d.keys, k),
                 conn |-> [d.conn EXCEPT ![c] =
                            [open |-> TRUE, fp |-> f, refs |-> 1, dead |-> FALSE, aged |-> FALSE]]]
<1>1. lease[q] = None /\ ~pool.conn[c].open /\ pool' = Evict(n)
      /\ lease' = [lease EXCEPT ![q] = c]
  BY DEF GetNew
<1>2. /\ Sound(d, lease) /\ d.entries = Offered(pool, {k}) /\ FpOf(d) = FpOf(pool)
  BY DetachSound DEF IInv
<1>3. /\ n.entries = [d.entries EXCEPT ![k] = c]
      /\ n.conn = [d.conn EXCEPT ![c] = [open |-> TRUE, fp |-> f, refs |-> 1, dead |-> FALSE,
                                         aged |-> FALSE]]
  OBVIOUS
<1> HIDE DEF d, n
<1>4. d.entries[k] = None /\ pool.entries \in [Keys -> Conns \cup {None}]
  BY <1>2 DEF IInv, Sound, Typed, Offered
<1>5. ~d.conn[c].open
  <2>1. ~Reachable(pool, lease, c)
    BY <1>1 DEF IInv, Sound, OpenIffReachable
  <2>2. ~Reachable(d, lease, c)
    BY <2>1, <1>2, NoneAssumption DEF Reachable, Offered
  <2> QED
    BY <2>2, <1>2 DEF Sound, OpenIffReachable
<1>6. Sound(n, lease') /\ FpOf(n) = [FpOf(pool) EXCEPT ![c] = f]
  <2>1. Sound(n, [lease EXCEPT ![q] = c]) /\ FpOf(n) = [FpOf(d) EXCEPT ![c] = f]
    <3>1. Inserted(d, n, k, c, f)
      BY <1>3, <1>4, <1>5 DEF Inserted
    <3>2. \A p, L : Sound(p, L) /\ L[q] = None =>
            \A m : Inserted(p, m, k, c, f) =>
              Sound(m, [L EXCEPT ![q] = c]) /\ FpOf(m) = [FpOf(p) EXCEPT ![c] = f]
      BY InsertSound
    <3>3. Sound(d, lease) /\ lease[q] = None
      BY <1>1, <1>2
    <3> QED
      BY ONLY <3>1, <3>2, <3>3
  <2> QED
    BY <2>1, <1>1, <1>2
<1>7. PICK gone \in SUBSET {l \in Keys : Idle(n, l)} :
        /\ Sound(pool', lease') /\ FpOf(pool') = FpOf(n)
        /\ pool'.entries = Offered(n, gone)
  BY <1>1, <1>6, EvictSound
<1>8. n.entries = [pool.entries EXCEPT ![k] = c]
  BY <1>2, <1>3, <1>4 DEF Offered
<1>9. gone \in SUBSET (Abstract!Unleased(pool.entries, lease) \ {k})
  <2> SUFFICES ASSUME NEW l \in gone
               PROVE  l \in Keys /\ l # k /\ \A r \in Clients : lease[r] # pool.entries[l]
    BY DEF Abstract!Unleased
  <2>1. l \in Keys /\ Idle(n, l)
    BY <1>7
  <2>2. \A r \in Clients : lease'[r] # n.entries[l]
    BY <2>1, <1>6, IdleUnleased
  <2>3. lease'[q] = c /\ \A r \in Clients : r # q => lease'[r] = lease[r]
    BY <1>1 DEF IInv, Sound, Typed
  <2>4. l # k
    BY <2>2, <2>3, <1>4, <1>8
  <2>5. n.entries[l] = pool.entries[l] /\ pool.entries[l] # None
    BY <2>1, <2>4, <1>4, <1>8 DEF Idle
  <2> QED
    BY <2>1, <2>2, <2>3, <2>4, <2>5, <1>1
<1>10. OpenOf(pool') = Abstract!Needed(pool'.entries, lease')
  BY <1>7, OpenIsNeeded
<1>11. pool'.entries = Abstract!Without([pool.entries EXCEPT ![k] = c], gone)
  BY <1>7, <1>8 DEF Abstract!Without, Offered
<1> QED
  BY <1>1, <1>6, <1>7, <1>9, <1>10, <1>11
  DEF IInv, Abstract!AcquireNew, Open, OpenOf, FpOf

(* A release.                                                               *)
LEMMA ReleaseStep ==
  ASSUME IInv, NEW q \in Clients, Release(q)
  PROVE  IInv' /\ Abstract!Release(q)
<1> DEFINE c == lease[q]
           r == Returned(c)
<1>1. pool.entries \in [Keys -> Conns \cup {None}] /\ pool.conn \in [Conns -> Entry]
      /\ lease \in [Clients -> Conns \cup {None}]
  BY DEF IInv, Sound, Typed
<1>2. c \in Conns /\ c # None /\ lease' = [lease EXCEPT ![q] = None]
  BY <1>1 DEF Release
<1>3. pool.conn[c].refs > 0
  <2>1. pool.conn[c].open
    BY <1>2 DEF IInv, Sound, OpenIffReachable, Reachable
  <2>2. pool.conn[c].refs = Cardinality(Holders(lease, c))
    BY <1>2, <2>1 DEF IInv, Sound, Counted
  <2> QED
    BY ONLY <1>1, <1>2, <2>2, q \in Clients, OneLessHolder DEF c
<1>4. r.entries = pool.entries /\ r.conn = [pool.conn EXCEPT ![c].refs = @ - 1]
  BY DEF Returned
<1>5. pool' = IF r.conn[c].refs > 0 THEN r
              ELSE IF r.conn[c].dead THEN [r EXCEPT !.conn[c].open = FALSE]
              ELSE Evict(r)
  BY DEF Release
<1>6. ASSUME NEW d \in Conns
      PROVE  /\ r.conn[d] \in Entry
             /\ r.conn[d].fp = pool.conn[d].fp /\ (r.conn[d].dead <=> pool.conn[d].dead)
             /\ r.conn[d].refs = IF d = c THEN pool.conn[d].refs - 1 ELSE pool.conn[d].refs
             /\ r.conn[d].open <=> pool.conn[d].open
  <2>1. pool.conn[d] \in Entry
    BY <1>1
  <2> HIDE DEF c, r
  <2>2. CASE d = c
    <3>1. r.conn[d] = [pool.conn[d] EXCEPT !.refs = @ - 1]
      BY <1>1, <1>2, <1>4, <2>2
    <3> QED
      BY <2>1, <2>2, <3>1, <1>3, EntryReturned
  <2>3. CASE d # c
    <3>1. r.conn[d] = pool.conn[d]
      BY <1>1, <1>2, <1>4, <2>3
    <3> QED
      BY <2>1, <2>3, <3>1
  <2> QED
    BY <2>2, <2>3
<1>7. r.conn \in [Conns -> Entry]
  BY <1>1, <1>4, <1>6
<1>8. lease[q] = c /\ Sound(pool, lease)
  BY DEF IInv
<1>9. [r EXCEPT !.conn[c].open = FALSE].entries = r.entries
      /\ [r EXCEPT !.conn[c].open = FALSE].conn = [r.conn EXCEPT ![c].open = FALSE]
  BY DEF Returned
<1> HIDE DEF c, r
<1>10. \E gone \in SUBSET Abstract!Unleased(pool.entries, lease') :
         /\ Sound(pool', lease') /\ FpOf(pool') = FpOf(pool)
         /\ pool'.entries = Offered(pool, gone)
  <2>1. pool.entries = Offered(pool, {})
    BY <1>1 DEF Offered
  <2>2. CASE r.conn[c].refs > 0
    <3>0. pool.conn[c].refs # 1
      BY <2>2, <1>2, <1>6
    <3>1. Given(pool, r, c)
      BY <3>0, <1>4, <1>6, <1>7 DEF Given
    <3>2. Sound(r, [lease EXCEPT ![q] = None]) /\ FpOf(r) = FpOf(pool)
      BY ONLY <3>1, <1>2, <1>8, q \in Clients, ReturnSound
    <3> QED
      BY <2>1, <2>2, <3>2, <1>2, <1>4, <1>5
  <2>3. CASE ~(r.conn[c].refs > 0) /\ r.conn[c].dead
    <3>1. pool'.entries = pool.entries /\ pool'.conn = [r.conn EXCEPT ![c].open = FALSE]
      BY <2>3, <1>4, <1>5, <1>9
    <3>2. \A d \in Conns : pool'.conn[d] = IF d = c THEN [r.conn[d] EXCEPT !.open = FALSE] ELSE r.conn[d]
      BY <3>1, <1>7
    <3>3. ASSUME NEW d \in Conns
          PROVE  /\ pool'.conn[d] \in Entry
                 /\ pool'.conn[d].fp = r.conn[d].fp /\ (pool'.conn[d].dead <=> r.conn[d].dead)
                 /\ pool'.conn[d].refs = r.conn[d].refs
                 /\ pool'.conn[d].open <=> r.conn[d].open /\ d # c
      BY <3>2, <1>6 DEF Entry
    <3>4. pool'.conn \in [Conns -> Entry]
      BY <3>1, <3>3, <1>7
    <3>5. pool.conn[c].refs = 1 /\ pool.conn[c].dead
      <4>1. pool.conn[c].refs \in Nat
        BY <1>1, <1>2 DEF Entry
      <4> QED
        BY <4>1, <2>3, <1>2, <1>3, <1>6
    <3>6. Sound(pool', [lease EXCEPT ![q] = None]) /\ FpOf(pool') = FpOf(pool)
      <4>1. Given(pool, pool', c)
        BY <3>1, <3>3, <3>4, <3>5, <1>6 DEF Given
      <4> QED
        BY ONLY <4>1, <1>2, <1>8, q \in Clients, ReturnSound
    <3> QED
      BY <2>1, <3>1, <3>6, <1>2
  <2>4. CASE ~(r.conn[c].refs > 0) /\ ~r.conn[c].dead
    <3>0. ~pool.conn[c].dead
      BY <2>4, <1>2, <1>6
    <3>1. Sound(r, lease') /\ FpOf(r) = FpOf(pool)
      <4>1. Given(pool, r, c)
        BY <3>0, <1>4, <1>6, <1>7 DEF Given
      <4>2. Sound(r, [lease EXCEPT ![q] = None]) /\ FpOf(r) = FpOf(pool)
        BY ONLY <4>1, <1>2, <1>8, q \in Clients, ReturnSound
      <4> QED
        BY <4>2, <1>2
    <3>2. pool' = Evict(r)
      BY <2>4, <1>5
    <3>3. PICK gone \in SUBSET {k \in Keys : Idle(r, k)} :
            /\ Sound(pool', lease') /\ FpOf(pool') = FpOf(r)
            /\ pool'.entries = Offered(r, gone)
      BY <3>1, <3>2, EvictSound
    <3>4. gone \in SUBSET Abstract!Unleased(pool.entries, lease')
      BY <3>1, <3>3, <1>4, IdleUnleased DEF Abstract!Unleased
    <3>5. Offered(r, gone) = Offered(pool, gone)
      BY <1>4 DEF Offered
    <3> QED
      BY <3>1, <3>3, <3>4, <3>5
  <2> QED
    BY <2>2, <2>3, <2>4
<1>11. OpenOf(pool') = Abstract!Needed(pool'.entries, lease')
  BY <1>10, OpenIsNeeded
<1> QED
  BY <1>2, <1>8, <1>10, <1>11
  DEF IInv, Abstract!Release, Abstract!Without, Offered, Open, OpenOf, FpOf

(* The passing of IdleTTL.                                                  *)
LEMMA AgeStep ==
  ASSUME IInv, NEW c \in Conns, Age(c)
  PROVE  IInv' /\ UNCHANGED Abstract!vars
<1>1. pool.entries \in [Keys -> Conns \cup {None}] /\ pool.conn \in [Conns -> Entry]
  BY DEF IInv, Sound, Typed
<1>2. /\ pool'.entries = pool.entries /\ UNCHANGED lease
      /\ pool'.conn = [pool.conn EXCEPT ![c].aged = TRUE]
  BY DEF Age
<1>3. ASSUME NEW d \in Conns
      PROVE  /\ pool'.conn[d] \in Entry
             /\ pool'.conn[d].fp = pool.conn[d].fp /\ (pool'.conn[d].dead <=> pool.conn[d].dead)
             /\ pool'.conn[d].open <=> pool.conn[d].open
             /\ pool'.conn[d].refs = pool.conn[d].refs
  <2>1. pool.conn[d] \in Entry
    BY <1>1
  <2>2. CASE d = c
    <3>1. pool'.conn[d] = [pool.conn[d] EXCEPT !.aged = TRUE]
      BY <1>1, <1>2, <2>2
    <3> QED
      BY <2>1, <3>1, EntryAged
  <2>3. CASE d # c
    BY <1>1, <1>2, <2>1, <2>3
  <2> QED
    BY <2>2, <2>3
<1>4. pool'.conn \in [Conns -> Entry]
  BY <1>1, <1>2, <1>3
<1>5. Sound(pool', lease)
  <2> SUFFICES ASSUME NEW d \in Conns
               PROVE  /\ pool'.conn[d].open <=> Reachable(pool', lease, d)
                      /\ pool'.conn[d].open =>
                           /\ pool'.conn[d].dead <=> \A k \in Keys : pool'.entries[k] # d
                           /\ pool'.conn[d].refs = Cardinality(Holders(lease, d))
    <3>1. Typed(pool', lease) /\ Injective(pool')
      BY <1>2, <1>4 DEF IInv, Sound, Typed, Injective
    <3> QED
      BY <3>1 DEF Sound, OpenIffReachable, DeadIffDetached, Counted
  <2>1. /\ pool.conn[d].open <=> Reachable(pool, lease, d)
        /\ pool.conn[d].open =>
             /\ pool.conn[d].dead <=> \A k \in Keys : pool.entries[k] # d
             /\ pool.conn[d].refs = Cardinality(Holders(lease, d))
    BY DEF IInv, Sound, OpenIffReachable, DeadIffDetached, Counted
  <2>2. Reachable(pool', lease, d) <=> Reachable(pool, lease, d)
    BY <1>2 DEF Reachable
  <2> QED
    BY <1>2, <1>3, <2>1, <2>2
<1>6. IInv'
  BY <1>2, <1>5 DEF IInv
<1>7. Open' = Open
  BY <1>3 DEF Open
<1>8. [d \in Conns |-> pool.conn[d].fp]' = [d \in Conns |-> pool.conn[d].fp]
  BY <1>3
<1> QED
  BY <1>2, <1>6, <1>7, <1>8 DEF Abstract!vars
-----------------------------------------------------------------------------
(* The empty pool.                                                          *)
LEMMA InitSound ==
  ASSUME Init
  PROVE  IInv /\ Abstract!Init
<1> PICK f \in Fingerprints :
      pool = [entries |-> [k \in Keys |-> None],
              keys |-> <<>>,
              conn |-> [c \in Conns |-> [open |-> FALSE, fp |-> f, refs |-> 0, dead |-> FALSE,
                                         aged |-> FALSE]]]
  BY DEF Init
<1>1. /\ pool.entries = [k \in Keys |-> None]
      /\ pool.conn = [c \in Conns |-> [open |-> FALSE, fp |-> f, refs |-> 0, dead |-> FALSE,
                                        aged |-> FALSE]]
      /\ lease = [q \in Clients |-> None]
  BY DEF Init
<1>2. [open |-> FALSE, fp |-> f, refs |-> 0, dead |-> FALSE,
       aged |-> FALSE] \in Entry
  BY DEF Entry
<1>3. Typed(pool, lease)
  BY <1>1, <1>2 DEF Typed
<1>4. \A c \in Conns : ~pool.conn[c].open
  BY <1>1
<1>5. \A c \in Conns : ~Reachable(pool, lease, c)
  BY <1>1, NoneAssumption DEF Reachable
<1>6. Injective(pool)
  BY <1>1 DEF Injective
<1>7. IInv
  BY <1>3, <1>4, <1>5, <1>6
  DEF IInv, Sound, OpenIffReachable, DeadIffDetached, Counted
<1>8. Open = {}
  BY <1>4 DEF Open
<1>9. [c \in Conns |-> pool.conn[c].fp] \in [Conns -> Fingerprints]
  BY <1>1
<1> QED
  BY <1>1, <1>7, <1>8, <1>9 DEF Abstract!Init

(* Every step keeps the invariant, and is a step of LeasePool or none.      *)
LEMMA StepSound ==
  ASSUME IInv, [Next]_vars
  PROVE  IInv' /\ [Abstract!Next]_(Abstract!vars)
<1> USE DEF Abstract!Next
<1>1. ASSUME NEW q \in Clients, NEW k \in Keys, NEW f \in Fingerprints, GetResident(q, k, f)
      PROVE  IInv' /\ Abstract!Next
  BY <1>1, GetResidentStep
<1>2. ASSUME NEW q \in Clients, NEW k \in Keys, NEW f \in Fingerprints, NEW c \in Conns,
             GetNew(q, k, f, c)
      PROVE  IInv' /\ Abstract!Next
  BY <1>2, GetNewStep
<1>3. ASSUME NEW k \in Keys, NEW f \in Fingerprints, GetFails(k, f)
      PROVE  IInv' /\ Abstract!Next
  <2>1. {k} \in SUBSET Keys /\ pool' = Detach(pool, {k}) /\ UNCHANGED lease
    BY <1>3 DEF GetFails
  <2>2. IInv' /\ Abstract!Drop({k})
    BY <2>1, DropStep
  <2> QED
    BY <2>1, <2>2
<1>4. ASSUME NEW q \in Clients, Release(q)
      PROVE  IInv' /\ Abstract!Next
  BY <1>4, ReleaseStep
<1>5. ASSUME NEW U \in SUBSET Users, InvalidateUsers(U)
      PROVE  IInv' /\ Abstract!Next
  <2> DEFINE K == {k \in Listed(pool) : k[2] \in U}
  <2>1. K \in SUBSET Keys /\ pool' = Detach(pool, K) /\ UNCHANGED lease
    BY <1>5 DEF InvalidateUsers, Listed
  <2> HIDE DEF K
  <2>2. IInv' /\ Abstract!Drop(K)
    BY <2>1, DropStep
  <2> QED
    BY <2>1, <2>2
<1>6. ASSUME NEW k \in Keys, Invalidate(k)
      PROVE  IInv' /\ Abstract!Next
  <2>1. {k} \in SUBSET Keys /\ pool' = Detach(pool, {k}) /\ UNCHANGED lease
    BY <1>6 DEF Invalidate
  <2>2. IInv' /\ Abstract!Drop({k})
    BY <2>1, DropStep
  <2> QED
    BY <2>1, <2>2
<1>7. CASE CloseAll
  <2>1. Listed(pool) \in SUBSET Keys /\ pool' = Detach(pool, Listed(pool)) /\ UNCHANGED lease
    BY <1>7 DEF CloseAll, Listed
  <2>2. IInv' /\ Abstract!Drop(Listed(pool))
    BY <2>1, DropStep
  <2> QED
    BY <2>1, <2>2
<1>8. CASE CloseIdle
  <2> DEFINE K == {k \in Listed(pool) : Idle(pool, k) /\ pool.conn[pool.entries[k]].aged}
  <2>1. K \in SUBSET Keys /\ pool' = Detach(pool, K) /\ UNCHANGED lease
    BY <1>8 DEF CloseIdle, Listed
  <2> HIDE DEF K
  <2>2. IInv' /\ Abstract!Drop(K)
    BY <2>1, DropStep
  <2> QED
    BY <2>1, <2>2
<1>9. ASSUME NEW c \in Conns, Age(c)
      PROVE  IInv' /\ UNCHANGED Abstract!vars
  BY <1>9, AgeStep
<1>10. CASE UNCHANGED vars
  <2>1. UNCHANGED <<pool, lease>>
    BY <1>10 DEF vars
  <2>2. IInv'
    BY <2>1 DEF IInv
  <2>3. UNCHANGED Abstract!vars
    BY <2>1 DEF Abstract!vars, Open
  <2> QED
    BY <2>2, <2>3
<1> QED
  BY <1>1, <1>2, <1>3, <1>4, <1>5, <1>6, <1>7, <1>8, <1>9, <1>10 DEF Next

(* Sound always holds.                                                      *)
LEMMA InvariantHolds == Spec => []IInv
<1>1. Init => IInv
  BY InitSound
<1>2. IInv /\ [Next]_vars => IInv'
  BY StepSound
<1> QED
  BY <1>1, <1>2, PTL DEF Spec

(* RefsCountLeases holds in every reachable state: the count that decides,  *)
(* in the releaser of Get, which release closes a connection is the number  *)
(* of queries that lease it, whatever was detached, evicted or reopened.    *)
THEOREM RefsCountLeasesHolds == Spec => []RefsCountLeases
<1>1. IInv => RefsCountLeases
  BY DEF IInv, Sound, Counted, Holders, RefsCountLeases
<1> QED
  BY <1>1, InvariantHolds, PTL

(* ConnPool implements LeasePool: every method of the pool is a step that   *)
(* LeasePool allows, or changes nothing a query sees.                       *)
THEOREM Refinement == Spec => ImplementsLeasePool
<1>1. Init => Abstract!Init
  BY InitSound
<1>2. IInv /\ [Next]_vars => [Abstract!Next]_(Abstract!vars)
  BY StepSound
<1> QED
  BY <1>1, <1>2, InvariantHolds, PTL DEF Spec, ImplementsLeasePool, Abstract!Spec
-----------------------------------------------------------------------------
(* The list of keys: what Without leaves of it, and that it lists each      *)
(* resident key once.                                                       *)
F == INSTANCE FoldInduction WITH Op <- Keep

Lists(s, k) == \E i \in 1..Len(s) : s[i] = k
Once(s) == \A i, j \in 1..Len(s) : s[i] = s[j] => i = j

Orderly(p) ==
  /\ p.keys \in Seq(Keys) /\ Once(p.keys)
  /\ \A k \in Keys : p.entries[k] # None <=> Lists(p.keys, k)

(* Appending a key lists it, and once if it was not listed.                 *)
LEMMA AppendLists ==
  ASSUME NEW s \in Seq(Keys), NEW k \in Keys
  PROVE  /\ Append(s, k) \in Seq(Keys)
         /\ \A l : Lists(Append(s, k), l) <=> Lists(s, l) \/ l = k
         /\ Once(s) /\ ~Lists(s, k) => Once(Append(s, k))
<1> DEFINE t == Append(s, k)
<1>1. /\ t \in Seq(Keys) /\ Len(t) = Len(s) + 1 /\ t[Len(s) + 1] = k /\ Len(s) \in Nat
      /\ \A i \in 1..Len(s) : t[i] = s[i]
  OBVIOUS
<1> HIDE DEF t
<1>2. 1..Len(t) = 1..Len(s) \cup {Len(s) + 1}
  BY <1>1
<1>3. \A l : Lists(t, l) <=> Lists(s, l) \/ l = k
  BY <1>1, <1>2 DEF Lists
<1>4. Once(s) /\ ~Lists(s, k) => Once(t)
  BY <1>1, <1>2 DEF Lists, Once
<1> QED
  BY <1>1, <1>3, <1>4 DEF t

(* Without is a fold, and so open to induction.                             *)
LEMMA WithoutIsFold ==
  ASSUME NEW s, NEW K
  PROVE  Without(s, K) = F!Fold(K, <<>>, s)
BY SMT DEF Without, FoldLeft, F!Fold, F!FoldLeft, MapThenFoldSet, F!MapThenFoldSet,
           Max, F!Max, Keep

(* Without drops the keys of K, and keeps the others once if they were.     *)
LEMMA WithoutLists ==
  ASSUME NEW s \in Seq(Keys), NEW K
  PROVE  /\ Without(s, K) \in Seq(Keys)
         /\ \A k : Lists(Without(s, K), k) <=> Lists(s, k) /\ k \notin K
         /\ Once(s) => Once(Without(s, K))
<1> DEFINE P(r) == /\ Without(r, K) \in Seq(Keys)
                   /\ \A k : Lists(Without(r, K), k) <=> Lists(r, k) /\ k \notin K
                   /\ Once(r) => Once(Without(r, K))
           S == {r \in Seq(Keys) : P(r)}
<1>1. <<>> \in S
  <2>1. Without(<<>>, K) = <<>>
    BY WithoutIsFold, F!FoldEmpty
  <2>2. \A k : ~Lists(<<>>, k)
    BY DEF Lists
  <2>3. <<>> \in Seq(Keys) /\ Once(<<>>)
    BY DEF Once
  <2> QED
    BY <2>1, <2>2, <2>3
<1>2. ASSUME NEW r \in Seq(Keys), NEW x \in Keys, r \in S
      PROVE  Append(r, x) \in S
  <2>1. Without(Append(r, x), K) = Keep(K, Without(r, K), x)
    BY WithoutIsFold, F!FoldAppend
  <2>2. P(r) /\ Append(r, x) \in Seq(Keys)
    BY <1>2
  <2>3. \A l : Lists(Append(r, x), l) <=> Lists(r, l) \/ l = x
    BY AppendLists
  <2>4. Once(Append(r, x)) => Once(r) /\ ~Lists(r, x)
    <3>1. /\ Len(Append(r, x)) = Len(r) + 1 /\ Append(r, x)[Len(r) + 1] = x /\ Len(r) \in Nat
          /\ \A i \in 1..Len(r) : Append(r, x)[i] = r[i]
      OBVIOUS
    <3> QED
      BY <3>1 DEF Once, Lists
  <2>5. CASE x \in K
    <3>1. Without(Append(r, x), K) = Without(r, K)
      BY <2>1, <2>5 DEF Keep
    <3> QED
      BY <2>2, <2>3, <2>4, <2>5, <3>1
  <2>6. CASE x \notin K
    <3>1. Without(Append(r, x), K) = Append(Without(r, K), x)
      BY <2>1, <2>6 DEF Keep
    <3>2. /\ Append(Without(r, K), x) \in Seq(Keys)
          /\ \A l : Lists(Append(Without(r, K), x), l) <=> Lists(Without(r, K), l) \/ l = x
          /\ Once(Without(r, K)) /\ ~Lists(Without(r, K), x) => Once(Append(Without(r, K), x))
      BY <2>2, AppendLists
    <3> QED
      BY <2>2, <2>3, <2>4, <2>6, <3>1, <3>2
  <2> QED
    BY <2>5, <2>6
<1>3. Seq(Keys) \subseteq S
  <2> HIDE DEF S
  <2> QED
    BY <1>1, <1>2, F!SeqSetInduction
<1> QED
  BY <1>3

(* The keys detached are off the list and no longer resident.               *)
LEMMA DetachOrderly ==
  ASSUME NEW p, NEW K, Orderly(p)
  PROVE  Orderly(Detach(p, K))
<1>1. /\ Detach(p, K).keys = Without(p.keys, K)
      /\ \A k \in Keys : Detach(p, K).entries[k] = IF k \in K THEN None ELSE p.entries[k]
  BY DEF Detach
<1> QED
  BY <1>1, WithoutLists DEF Orderly

(* So are the keys evicted.                                                 *)
LEMMA EvictOrderly ==
  ASSUME NEW p, Orderly(p)
  PROVE  Orderly(Evict(p))
BY DetachOrderly DEF Evict

(* A list of distinct keys is as long as there are keys.                    *)
LEMMA ResidentCounted ==
  ASSUME NEW p, Orderly(p)
  PROVE  /\ IsFiniteSet(Resident(p)) /\ Listed(p) = Resident(p)
         /\ Len(p.keys) = Cardinality(Resident(p))
<1> DEFINE n == Len(p.keys)
           f == [i \in 1..n |-> p.keys[i]]
<1>1. n \in Nat /\ Resident(p) = {k \in Keys : Lists(p.keys, k)}
  BY DEF Orderly, Resident
<1>2. Listed(p) = Resident(p)
  BY <1>1 DEF Listed, Lists
<1>3. f \in Bijection(1..n, Resident(p))
  <2>1. \A i \in 1..n : p.keys[i] \in Keys
    BY DEF Orderly
  <2>2. f \in [1..n -> Resident(p)]
    BY <1>1, <2>1 DEF Lists
  <2>3. \A i, j \in 1..n : f[i] = f[j] => i = j
    BY DEF Orderly, Once
  <2>4. \A k \in Resident(p) : \E i \in 1..n : f[i] = k
    BY <1>1 DEF Lists
  <2> HIDE DEF f, n
  <2> QED
    BY <2>2, <2>3, <2>4 DEF Bijection, Injection, Surjection, IsInjective
<1> HIDE DEF f, n
<1>4. IsFiniteSet(1..n) /\ Cardinality(1..n) = n
  <2>1. n \in Nat /\ 1 \in Int /\ n \in Int
    BY <1>1
  <2> QED
    BY ONLY <2>1, FS_Interval
<1>5. ExistsBijection(1..n, Resident(p))
  BY <1>3 DEF ExistsBijection
<1> QED
  BY <1>2, <1>4, <1>5, FS_Bijection DEF n
-----------------------------------------------------------------------------
(* What eviction owes MaxPools.                                             *)

(* A finite set of positions has as many of rank m or less as it can.       *)
LEMMA LowRanks ==
  ASSUME NEW n \in Nat, NEW I \in SUBSET (1..n), NEW m \in Nat, m <= Cardinality(I)
  PROVE  m <= Cardinality({i \in I : Cardinality({h \in I : h <= i}) <= m})
<1> DEFINE R(i) == {h \in I : h <= i}
           Low == {i \in I : Cardinality(R(i)) <= m}
<1>1. IsFiniteSet(I) /\ Low \in SUBSET I /\ \A i : R(i) \in SUBSET I
  <2>1. IsFiniteSet(1..n)
    BY FS_Interval
  <2>2. IsFiniteSet(I)
    BY <2>1, FS_Subset
  <2> QED
    BY <2>2
<1>2. IsFiniteSet(Low) /\ Cardinality(Low) \in Nat /\ Cardinality(I) \in Nat
  BY <1>1, FS_Subset, FS_CardinalityType
<1> SUFFICES ASSUME Cardinality(Low) < m
             PROVE  FALSE
  BY <1>2
<1>3. I \ Low # {} /\ I \ Low \in SUBSET Nat
  <2> HIDE DEF Low
  <2>1. I \ Low = {} => Low = I
    BY <1>1
  <2>2. Low # I
    BY <1>2
  <2>3. I \ Low \in SUBSET Nat
    BY <1>1
  <2> QED
    BY <2>1, <2>2, <2>3
<1>4. PICK j \in I \ Low : \A y \in I \ Low : j <= y
  BY <1>3, F!LeastNumber
<1>5. R(j) \in SUBSET (Low \cup {j})
  <2> SUFFICES ASSUME NEW h \in I, h <= j, h # j
               PROVE  h \in Low
    OBVIOUS
  <2>1. ~(j <= h)
    BY <1>4
  <2> HIDE DEF Low
  <2> QED
    BY <1>4, <2>1
<1>6. IsFiniteSet(Low \cup {j}) /\ Cardinality(Low \cup {j}) <= Cardinality(Low) + 1
      /\ Cardinality(Low \cup {j}) \in Nat
  <2> HIDE DEF Low
  <2>1. Cardinality(Low \cup {j}) = IF j \in Low THEN Cardinality(Low) ELSE Cardinality(Low) + 1
    BY <1>2, FS_AddElement
  <2>2. IsFiniteSet(Low \cup {j})
    BY <1>2, FS_AddElement
  <2> QED
    BY <1>2, <2>1, <2>2
<1>7. Cardinality(R(j)) <= Cardinality(Low \cup {j}) /\ Cardinality(R(j)) \in Nat
  <2> HIDE DEF Low, R
  <2> QED
    BY <1>5, <1>6, FS_Subset, FS_CardinalityType
<1>8. Cardinality(R(j)) <= m
  <2> HIDE DEF Low, R
  <2> QED
    BY <1>2, <1>6, <1>7
<1> QED
  BY <1>4, <1>8

(* Detaching keys leaves the others as idle as they were.                   *)
LEMMA DetachIdle ==
  ASSUME NEW p, NEW L, NEW K, Typed(p, L)
  PROVE  /\ Resident(Detach(p, K)) = Resident(p) \ K
         /\ \A k \in Resident(p) \ K : Idle(Detach(p, K), k) <=> Idle(p, k)
<1> DEFINE d == Detach(p, K)
<1>1. \A k \in Keys : d.entries[k] = IF k \in K THEN None ELSE p.entries[k]
  BY DEF Detach
<1>2. ASSUME NEW c \in Conns
      PROVE  d.conn[c].refs = p.conn[c].refs
  <2>1. p.conn[c] \in Entry
    BY DEF Typed
  <2>2. d.conn[c] \in {p.conn[c], [p.conn[c] EXCEPT !.open = FALSE], [p.conn[c] EXCEPT !.dead = TRUE]}
    BY DEF Detach
  <2> HIDE DEF d
  <2> QED
    BY <2>1, <2>2 DEF Entry
<1> HIDE DEF d
<1>3. Resident(d) = Resident(p) \ K
  BY <1>1 DEF Resident
<1>4. ASSUME NEW k \in Resident(p) \ K
      PROVE  Idle(d, k) <=> Idle(p, k)
  <2>1. d.entries[k] = p.entries[k] /\ p.entries[k] \in Conns
    BY <1>1 DEF Resident, Typed
  <2> QED
    BY <1>2, <2>1 DEF Idle
<1> QED
  BY <1>3, <1>4 DEF d

Over(p) == MaxPools > 0 /\ Cardinality(Resident(p)) > MaxPools
Leased(p) == \A k \in Resident(p) : ~Idle(p, k)

(* If eviction leaves an idle key, it evicted as many as there were too     *)
(* many.                                                                    *)
LEMMA EvictSuffices ==
  ASSUME NEW p, NEW L, Typed(p, L), Orderly(p), Over(Evict(p))
  PROVE  Leased(Evict(p))
<1> SUFFICES ASSUME NEW k \in Resident(Evict(p)), Idle(Evict(p), k)
             PROVE  FALSE
  BY DEF Leased
<1> DEFINE n == Len(p.keys)
           idle == {i \in 1..n : Idle(p, p.keys[i])}
           over == Cardinality(Resident(p)) - MaxPools
           low == {i \in idle : Cardinality({h \in idle : h <= i}) <= over}
           E == Excess(p)
<1>1. MaxPools # 0 /\ Evict(p) = Detach(p, E)
  BY MaxPoolsAssumption DEF Over, Evict
<1>2. E = {l \in Keys : \E i \in idle : p.keys[i] = l /\ Cardinality({h \in idle : h <= i}) <= over}
  BY DEF Excess
<1>3. /\ Resident(Evict(p)) = Resident(p) \ E
      /\ k \in Resident(p) \ E /\ Idle(p, k)
  BY <1>1, DetachIdle
<1>4. n \in Nat /\ Once(p.keys) /\ idle \in SUBSET (1..n)
      /\ \A i \in 1..n : p.keys[i] \in Keys /\ Lists(p.keys, p.keys[i])
  BY DEF Orderly, Lists
<1>5. E \in SUBSET Resident(p) /\ \A i \in low : p.keys[i] \in E
  BY <1>2, <1>4 DEF Idle, Resident
<1>6. PICK i \in 1..n : p.keys[i] = k
  BY <1>3 DEF Orderly, Resident, Lists
<1>7. i \in idle /\ i \notin low
  <2>1. i \in idle
    BY <1>3, <1>6
  <2>2. k \in Keys
    BY <1>4, <1>6
  <2> QED
    BY <1>2, <1>3, <1>6, <2>1, <2>2
<1> DEFINE rank == Cardinality({h \in idle : h <= i})
<1>8. ~(rank <= over)
  BY <1>7
<1>9. \A i1, i2 \in low : p.keys[i1] = p.keys[i2] => i1 = i2
  BY <1>4 DEF Once
<1>10. IsFiniteSet(Resident(p))
  BY ResidentCounted
<1> DEFINE r == Cardinality(Resident(p))
<1>11. r \in Nat /\ IsFiniteSet(E) /\ Cardinality(E) \in Nat
  BY <1>5, <1>10, FS_Subset, FS_CardinalityType
<1>12. Cardinality(Resident(p) \ E) = r - Cardinality(E)
  <2> HIDE DEF E
  <2>1. Resident(p) \cap E = E
    BY <1>5
  <2> QED
    BY <1>10, <2>1, FS_Difference
<1>13. r - Cardinality(E) > MaxPools
  BY <1>3, <1>12 DEF Over
<1>14. over \in Nat
  <2> HIDE DEF E, r
  <2>1. over = r - MaxPools
    BY DEF r
  <2> QED
    BY <1>11, <1>13, <2>1, MaxPoolsAssumption
<1>15. rank \in Nat /\ Cardinality(idle) \in Nat /\ rank <= Cardinality(idle) /\ IsFiniteSet(idle)
  <2>1. {h \in idle : h <= i} \in SUBSET idle
    OBVIOUS
  <2>2. IsFiniteSet(1..n)
    <3> HIDE DEF n
    <3> QED
      BY <1>4, FS_Interval
  <2> HIDE DEF idle
  <2> QED
    BY <1>4, <2>1, <2>2, FS_Subset, FS_CardinalityType
<1>16. over <= Cardinality(low)
  <2> HIDE DEF over, idle, n, rank
  <2>1. over <= Cardinality(idle)
    BY <1>8, <1>14, <1>15
  <2> QED
    BY <1>4, <1>14, <2>1, LowRanks
<1>17. Cardinality(low) <= Cardinality(E)
  <2> DEFINE f == [j \in low |-> p.keys[j]]
  <2>1. f \in Injection(low, E)
    BY <1>5, <1>9 DEF Injection, IsInjective
  <2> HIDE DEF f, low, E
  <2> QED
    BY <1>11, <2>1, FS_Injection
<1>18. IsFiniteSet(low) /\ Cardinality(low) \in Nat
  <2>1. low \in SUBSET idle
    OBVIOUS
  <2> HIDE DEF low, idle
  <2> QED
    BY <1>15, <2>1, FS_Subset, FS_CardinalityType
<1> QED
  <2>1. over = r - MaxPools
    BY DEF r
  <2> HIDE DEF over, r, E, low
  <2> QED
    BY <1>11, <1>13, <1>14, <1>16, <1>17, <1>18, <2>1, MaxPoolsAssumption
-----------------------------------------------------------------------------
Catchable(p) == Over(p) => Leased(p)

ListInv == Orderly(pool) /\ Catchable(pool)

(* Nothing becomes idle: nothing becomes evictable.                         *)
LEMMA NoneIdler ==
  ASSUME NEW p, NEW n, n.entries = p.entries,
         \A k \in Resident(p) : Idle(n, k) => Idle(p, k),
         Catchable(p)
  PROVE  Catchable(n)
<1>1. Resident(n) = Resident(p)
  BY DEF Resident
<1> QED
  BY <1>1 DEF Catchable, Over, Leased

(* Detaching keys makes no entry idle and no pool larger.                   *)
LEMMA DropKeeps ==
  ASSUME IInv, ListInv, NEW K, pool' = Detach(pool, K)
  PROVE  ListInv'
<1>1. Orderly(pool')
  BY DetachOrderly DEF ListInv
<1>2. Catchable(pool')
  <2> SUFFICES ASSUME Over(pool')
               PROVE  Leased(pool')
    BY DEF Catchable
  <2>1. /\ Resident(pool') = Resident(pool) \ K
        /\ \A k \in Resident(pool) \ K : Idle(pool', k) <=> Idle(pool, k)
    BY DetachIdle DEF IInv, Sound
  <2>2. IsFiniteSet(Resident(pool))
    BY ResidentCounted DEF ListInv
  <2>3. /\ Cardinality(Resident(pool')) <= Cardinality(Resident(pool))
        /\ Cardinality(Resident(pool')) \in Nat /\ Cardinality(Resident(pool)) \in Nat
    <3>1. Resident(pool) \ K \in SUBSET Resident(pool)
      OBVIOUS
    <3> QED
      BY <2>1, <2>2, <3>1, FS_Subset, FS_CardinalityType
  <2>4. Over(pool)
    BY <2>3, MaxPoolsAssumption DEF Over
  <2>5. Leased(pool)
    BY <2>4 DEF ListInv, Catchable
  <2> QED
    BY <2>1, <2>5 DEF Leased
<1> QED
  BY <1>1, <1>2 DEF ListInv

(* Eviction brings about what it is for.                                    *)
LEMMA EvictKeeps ==
  ASSUME NEW p, NEW L, Typed(p, L), Orderly(p), pool' = Evict(p)
  PROVE  ListInv'
<1>1. Orderly(pool')
  BY EvictOrderly
<1>2. Catchable(pool')
  BY EvictSuffices DEF Catchable
<1> QED
  BY <1>1, <1>2 DEF ListInv

(* A hit moves its key to the end of the list and takes a lease.            *)
LEMMA GetResidentKeeps ==
  ASSUME IInv, ListInv, NEW q \in Clients, NEW k \in Keys, NEW f \in Fingerprints,
         GetResident(q, k, f)
  PROVE  ListInv'
<1> DEFINE c == pool.entries[k]
           s == Without(pool.keys, {k})
<1>1. c # None /\ c \in Conns /\ pool.conn \in [Conns -> Entry]
  BY DEF GetResident, IInv, Sound, Typed
<1>2. /\ pool'.entries = pool.entries /\ pool'.keys = Append(s, k)
      /\ pool'.conn = [pool.conn EXCEPT ![c].refs = @ + 1, ![c].aged = FALSE]
  BY DEF GetResident
<1>3. Orderly(pool')
  <2>1. /\ s \in Seq(Keys) /\ Once(s) /\ \A l : Lists(s, l) <=> Lists(pool.keys, l) /\ l # k
    BY WithoutLists DEF ListInv, Orderly
  <2> HIDE DEF s, c
  <2>2. /\ Append(s, k) \in Seq(Keys) /\ Once(Append(s, k))
        /\ \A l : Lists(Append(s, k), l) <=> Lists(s, l) \/ l = k
    BY <2>1, AppendLists
  <2>3. pool.entries[k] # None
    BY <1>1 DEF c
  <2> QED
    BY <1>2, <2>1, <2>2, <2>3 DEF ListInv, Orderly
<1>4. ASSUME NEW l \in Resident(pool), Idle(pool', l)
      PROVE  Idle(pool, l)
  <2>1. pool.entries[l] \in Conns /\ pool'.entries[l] = pool.entries[l]
    BY <1>2 DEF Resident, IInv, Sound, Typed
  <2>2. CASE pool.entries[l] = c
    <3> HIDE DEF c
    <3>1. pool'.conn[c] = [pool.conn[c] EXCEPT !.refs = @ + 1, !.aged = FALSE]
      BY <1>1, <1>2
    <3>2. pool.conn[c] \in Entry
      BY <1>1
    <3>3. pool'.conn[c].refs = pool.conn[c].refs + 1 /\ pool.conn[c].refs \in Nat
      BY <3>1, <3>2, EntryTaken DEF Entry
    <3>4. pool'.conn[c].refs # 0
      BY <3>3
    <3> QED
      BY <1>4, <2>1, <2>2, <3>4 DEF Idle
  <2>3. CASE pool.entries[l] # c
    <3> HIDE DEF c
    <3>1. pool'.conn[pool.entries[l]] = pool.conn[pool.entries[l]]
      BY <1>1, <1>2, <2>1, <2>3
    <3> QED
      BY <1>4, <2>1, <3>1 DEF Idle
  <2> QED
    BY <2>2, <2>3
<1>5. Catchable(pool')
  BY <1>2, <1>4, NoneIdler DEF ListInv
<1> QED
  BY <1>3, <1>5 DEF ListInv

(* A miss lists its key and evicts.                                         *)
LEMMA GetNewKeeps ==
  ASSUME IInv, ListInv, NEW q \in Clients, NEW k \in Keys, NEW f \in Fingerprints,
         NEW c \in Conns, GetNew(q, k, f, c)
  PROVE  ListInv'
<1> DEFINE d == Detach(pool, {k})
           fresh == [open |-> TRUE, fp |-> f, refs |-> 1, dead |-> FALSE, aged |-> FALSE]
           n == [entries |-> [d.entries EXCEPT ![k] = c],
                 keys |-> Append(d.keys, k),
                 conn |-> [d.conn EXCEPT ![c] = fresh]]
<1>1. pool' = Evict(n)
  BY DEF GetNew
<1>2. /\ n.entries = [d.entries EXCEPT ![k] = c] /\ n.keys = Append(d.keys, k)
      /\ n.conn = [d.conn EXCEPT ![c] = fresh]
  OBVIOUS
<1>3. Orderly(d) /\ Sound(d, lease) /\ d.entries = Offered(pool, {k})
  BY DetachOrderly, DetachSound DEF ListInv, IInv
<1>4. fresh \in Entry
  BY DEF Entry
<1> HIDE DEF n, d, fresh
<1>5. d.entries \in [Keys -> Conns \cup {None}] /\ d.conn \in [Conns -> Entry]
      /\ lease \in [Clients -> Conns \cup {None}] /\ d.entries[k] = None
  BY <1>3 DEF Sound, Typed, Offered
<1>6. Typed(n, lease)
  BY <1>2, <1>4, <1>5 DEF Typed
<1>7. Orderly(n)
  <2>1. d.keys \in Seq(Keys) /\ Once(d.keys) /\ ~Lists(d.keys, k)
    BY <1>3, <1>5 DEF Orderly
  <2>2. /\ Append(d.keys, k) \in Seq(Keys) /\ Once(Append(d.keys, k))
        /\ \A l : Lists(Append(d.keys, k), l) <=> Lists(d.keys, l) \/ l = k
    BY <2>1, AppendLists
  <2>3. c # None
    BY NoneAssumption
  <2>4. \A l \in Keys : n.entries[l] = IF l = k THEN c ELSE d.entries[l]
    BY <1>2, <1>5
  <2> QED
    BY <1>2, <1>3, <2>2, <2>3, <2>4 DEF Orderly
<1> QED
  BY <1>1, <1>6, <1>7, EvictKeeps

(* A release leaves its entry leased, closes a dead one, or evicts.         *)
LEMMA ReleaseKeeps ==
  ASSUME IInv, ListInv, NEW q \in Clients, Release(q)
  PROVE  ListInv'
<1> DEFINE c == lease[q]
           r == Returned(c)
<1>1. pool.entries \in [Keys -> Conns \cup {None}] /\ pool.conn \in [Conns -> Entry]
      /\ lease \in [Clients -> Conns \cup {None}]
  BY DEF IInv, Sound, Typed
<1>2. c \in Conns /\ c # None /\ lease' = [lease EXCEPT ![q] = None]
  BY <1>1 DEF Release
<1>3. r.entries = pool.entries /\ r.keys = pool.keys
      /\ r.conn = [pool.conn EXCEPT ![c].refs = @ - 1]
  BY DEF Returned
<1>4. pool' = IF r.conn[c].refs > 0 THEN r
              ELSE IF r.conn[c].dead THEN [r EXCEPT !.conn[c].open = FALSE]
              ELSE Evict(r)
  BY DEF Release
<1>5. pool.conn[c].open /\ pool.conn[c].refs > 0
  <2>1. pool.conn[c].open
    BY <1>2 DEF IInv, Sound, OpenIffReachable, Reachable
  <2>2. pool.conn[c].refs = Cardinality(Holders(lease, c))
    BY <1>2, <2>1 DEF IInv, Sound, Counted
  <2>3. pool.conn[c].refs > 0
    BY ONLY <1>1, <1>2, <2>2, q \in Clients, OneLessHolder DEF c
  <2> QED
    BY <2>1, <2>3
<1>6. /\ [r EXCEPT !.conn[c].open = FALSE].entries = r.entries
      /\ [r EXCEPT !.conn[c].open = FALSE].keys = r.keys
      /\ [r EXCEPT !.conn[c].open = FALSE].conn = [r.conn EXCEPT ![c].open = FALSE]
  BY DEF Returned
<1> HIDE DEF r, c
<1>7. r.conn[c] \in Entry /\ (r.conn[c].dead <=> pool.conn[c].dead)
  <2>1. pool.conn[c] \in Entry
    BY <1>1, <1>2
  <2>2. r.conn[c] = [pool.conn[c] EXCEPT !.refs = @ - 1]
    BY <1>1, <1>2, <1>3
  <2> QED
    BY <1>5, <2>1, <2>2, EntryReturned
<1>8. \A d \in Conns : d # c => r.conn[d] = pool.conn[d]
  BY <1>1, <1>3
<1>9. r.conn \in [Conns -> Entry]
  BY <1>1, <1>2, <1>3, <1>7, <1>8
<1>10. Typed(r, lease) /\ Orderly(r)
  BY <1>1, <1>3, <1>9 DEF Typed, ListInv, Orderly
<1>11. CASE r.conn[c].refs > 0
  <2>1. pool' = r
    BY <1>4, <1>11
  <2>2. ASSUME NEW l \in Resident(pool), Idle(r, l)
        PROVE  Idle(pool, l)
    <3>1. r.entries[l] = pool.entries[l] /\ pool.entries[l] \in Conns
      BY <1>1, <1>3 DEF Resident
    <3>2. pool.entries[l] # c
      BY <1>7, <1>11, <2>2, <3>1 DEF Idle, Entry
    <3> QED
      BY <1>8, <2>2, <3>1, <3>2 DEF Idle
  <2>3. Catchable(r)
    BY <1>3, <2>2, NoneIdler DEF ListInv
  <2> QED
    BY <1>10, <2>1, <2>3 DEF ListInv
<1>12. CASE ~(r.conn[c].refs > 0) /\ r.conn[c].dead
  <2>1. /\ pool'.entries = pool.entries /\ pool'.keys = pool.keys
        /\ pool'.conn = [r.conn EXCEPT ![c].open = FALSE]
    BY <1>3, <1>4, <1>6, <1>12
  <2>2. \A l \in Keys : pool.entries[l] # c
    BY <1>2, <1>5, <1>7, <1>12 DEF IInv, Sound, DeadIffDetached
  <2>3. ASSUME NEW l \in Resident(pool), Idle(pool', l)
        PROVE  Idle(pool, l)
    <3>1. pool'.entries[l] = pool.entries[l] /\ pool.entries[l] \in Conns /\ pool.entries[l] # c
      BY <1>1, <2>1, <2>2 DEF Resident
    <3>2. pool'.conn[pool.entries[l]] = pool.conn[pool.entries[l]]
      BY <1>8, <1>9, <2>1, <3>1
    <3> QED
      BY <2>3, <3>1, <3>2 DEF Idle
  <2>4. Catchable(pool')
    BY <2>1, <2>3, NoneIdler DEF ListInv
  <2>5. Orderly(pool')
    BY <2>1 DEF ListInv, Orderly
  <2> QED
    BY <2>4, <2>5 DEF ListInv
<1>13. CASE ~(r.conn[c].refs > 0) /\ ~r.conn[c].dead
  BY <1>4, <1>10, <1>13, EvictKeeps
<1> QED
  BY <1>11, <1>12, <1>13

(* Time alone makes no entry idle.                                          *)
LEMMA AgeKeeps ==
  ASSUME IInv, ListInv, NEW c \in Conns, Age(c)
  PROVE  ListInv'
<1>1. /\ pool'.entries = pool.entries /\ pool'.keys = pool.keys
      /\ pool'.conn = [pool.conn EXCEPT ![c].aged = TRUE]
  BY DEF Age
<1>2. ASSUME NEW d \in Conns
      PROVE  pool'.conn[d].refs = pool.conn[d].refs
  <2>1. pool.conn \in [Conns -> Entry] /\ pool.conn[d] \in Entry
    BY DEF IInv, Sound, Typed
  <2>2. pool'.conn[d] \in {pool.conn[d], [pool.conn[d] EXCEPT !.aged = TRUE]}
    BY <1>1, <2>1
  <2> QED
    BY <2>1, <2>2, EntryAged
<1>3. ASSUME NEW l \in Resident(pool), Idle(pool', l)
      PROVE  Idle(pool, l)
  <2>1. pool.entries[l] \in Conns /\ pool'.entries[l] = pool.entries[l]
    BY <1>1 DEF Resident, IInv, Sound, Typed
  <2> QED
    BY <1>2, <1>3, <2>1 DEF Idle
<1>4. Catchable(pool')
  BY <1>1, <1>3, NoneIdler DEF ListInv
<1> QED
  BY <1>1, <1>4 DEF ListInv, Orderly

(* The two invariants together.                                             *)
LEMMA ListInvariant == Spec => [](IInv /\ ListInv)
<1>1. Init => ListInv
  <2> SUFFICES ASSUME Init
               PROVE  ListInv
    OBVIOUS
  <2>1. pool.keys = <<>> /\ \A k \in Keys : pool.entries[k] = None
    BY DEF Init
  <2>2. <<>> \in Seq(Keys) /\ Once(<<>>) /\ \A k : ~Lists(<<>>, k)
    BY DEF Once, Lists
  <2>3. Resident(pool) = {}
    BY <2>1 DEF Resident
  <2> QED
    BY <2>1, <2>2, <2>3 DEF ListInv, Orderly, Catchable, Leased
<1>2. IInv /\ ListInv /\ [Next]_vars => ListInv'
  <2> SUFFICES ASSUME IInv, ListInv, [Next]_vars
               PROVE  ListInv'
    OBVIOUS
  <2>1. ASSUME NEW q \in Clients, NEW k \in Keys, NEW f \in Fingerprints,
               GetResident(q, k, f) \/ \E c \in Conns : GetNew(q, k, f, c)
        PROVE  ListInv'
    BY <2>1, GetResidentKeeps, GetNewKeeps
  <2>2. CASE \E K : pool' = Detach(pool, K)
    BY <2>2, DropKeeps
  <2>3. ASSUME NEW q \in Clients, Release(q)
        PROVE  ListInv'
    BY <2>3, ReleaseKeeps
  <2>4. ASSUME NEW c \in Conns, Age(c)
        PROVE  ListInv'
    BY <2>4, AgeKeeps
  <2>5. CASE UNCHANGED vars
    BY <2>5 DEF vars, ListInv
  <2>6. \A k \in Keys, f \in Fingerprints, U \in SUBSET Users :
          GetFails(k, f) \/ InvalidateUsers(U) \/ Invalidate(k) \/ CloseAll \/ CloseIdle
            => \E K : pool' = Detach(pool, K)
    BY DEF GetFails, InvalidateUsers, Invalidate, CloseAll, CloseIdle
  <2> QED
    BY <2>1, <2>2, <2>3, <2>4, <2>5, <2>6
    DEF Next, GetFails, InvalidateUsers, Invalidate, CloseAll, CloseIdle
<1> QED
  BY <1>1, <1>2, InvariantHolds, PTL DEF Spec

(* Whatever the sequence of calls, every field of the pool keeps its type;  *)
(* in particular no reference count goes below zero.                        *)
THEOREM TypeCorrect == Spec => []TypeOK
<1>1. IInv /\ ListInv => TypeOK
  BY DEF IInv, Sound, Typed, Entry, ListInv, Orderly, TypeOK
<1> QED
  BY <1>1, ListInvariant, PTL

(* The LRU list and the map agree after any sequence of calls: each         *)
(* resident key is on the list, once, and nothing else is.                  *)
THEOREM ListAndMapAgree == Spec => []ListMatchesEntries
<1>1. IInv /\ ListInv => ListMatchesEntries
  BY ResidentCounted DEF ListInv, ListMatchesEntries
<1> QED
  BY <1>1, ListInvariant, PTL

(* For any MaxPools, a pool beyond it has no idle connection left that      *)
(* evictLocked could have closed: every release that finds one makes room.  *)
THEOREM OverageLeased == Spec => []OverageOnlyWhileLeased
<1>1. IInv /\ ListInv => OverageOnlyWhileLeased
  BY DEF ListInv, Catchable, Over, Leased, OverageOnlyWhileLeased
<1> QED
  BY <1>1, ListInvariant, PTL
=============================================================================
