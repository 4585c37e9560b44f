--------------------------- MODULE DashboardDocProofs ---------------------------
(***************************************************************************)
(* Theorems of DashboardDoc for any number of relays, requests and edits.  *)
(* The argument: a transaction that is open holds the dashboard's row, so  *)
(* what it read is what is stored; every step therefore treats the stored  *)
(* state in one of a few ways (StoredStep), and in all of them a reader's  *)
(* content only grows until the row is gone.  The rest is about what       *)
(* relays and requests carry from one step to the next.                    *)
(***************************************************************************)
EXTENDS DashboardDoc, SequenceTheorems, TLAPS

------------------------------------------------------------------------------
(* Marks and actors are told apart, a step concerns one of them *)

\* No call is another's, and none is a mark.
LEMMA ActorsDiffer ==
  /\ None \notin Actors
  /\ Requests \subseteq Actors
  /\ \A r \in Relays : Get(r) \in Actors /\ Put(r) \in Actors
  /\ \A r \in Relays : Get(r) \notin Requests /\ Put(r) \notin Requests
  /\ \A r, s \in Relays : Get(r) # Put(s)
  /\ \A r, s \in Relays : (Get(r) = Get(s) \/ Put(r) = Put(s)) => r = s
<1>1. \A r, s \in Relays : Get(r) # Put(s) BY DEF Get, Put
<1>2. \A r, s \in Relays : (Get(r) = Get(s) \/ Put(r) = Put(s)) => r = s BY DEF Get, Put
<1> QED BY <1>1, <1>2, DistinctCalls, DistinctMarks DEF Actors

\* A document is none of the marks, and neither is a role.
LEMMA MarksDiffer ==
  /\ \A d \in Docs : Readable(d)
  /\ "editor" # None /\ "viewer" # None
  /\ ~Readable(None) /\ ~Readable(Damaged) /\ None # Damaged
BY DistinctMarks DEF Docs, Readable, Roles

\* An idle call and a relay without a copy have their types.
LEMMA IdleFits == Idle \in CallType /\ NoCopy \in RelayType
<1>1. {} \in Docs BY DEF Docs
<1> QED BY <1>1 DEF CallType, Idle, RelayType, NoCopy

\* What a reader is served and what a transaction loads are documents.
LEMMA ContentTyped ==
  ASSUME TypeOK
  PROVE  /\ Content \in Docs
         /\ \A a \in Actors : LoadedDoc(a) \in Docs
<1>1. stored \in {None, Damaged} \cup Docs /\ rows \in Docs BY DEF TypeOK
<1>2. \A a \in Actors : call[a].read \in {None, Damaged} \cup Docs BY DEF TypeOK, CallType
<1> QED BY <1>1, <1>2, MarksDiffer DEF Content, LoadedDoc, Healed, Readable

------------------------------------------------------------------------------
(* The invariant *)

\* Each kind of actor is only ever in the places of its own calls.
CallsFit ==
  /\ \A q \in Requests :
       At(q, {"idle", "load", "loading", "store", "storing",
              "number", "renumber", "insert", "reinsert"})
  /\ \A r \in Relays : /\ At(Get(r), {"idle", "load", "refresh", "loading", "refreshing"})
                       /\ At(Get(r), {"idle"}) \/ call[Get(r)].job \in Roles
                       /\ At(Put(r), {"idle", "check", "store", "storing"})

\* The rows never lose the title and the settings, and hold nothing else
\* before something is stored.
RowsRooted == row # "gone" => Base \in rows /\ (stored = None => rows = {Base})

\* What waits to be stored has the title and the settings.
CallsRooted ==
  \A a \in Actors : At(a, {"check", "store", "storing"}) => Base \in call[a].doc

\* So has every copy; a client, or a store, has a copy to work on, and a
\* relay loads a document only while it has none.
RelayRooted(r) ==
  /\ relay[r].copy # None => Base \in relay[r].copy
  /\ relay[r].conns # {} \/ ~At(Put(r), {"idle"}) => relay[r].copy # None
  /\ At(Get(r), {"load", "loading"}) => relay[r].copy = None

CopiesRooted == \A r \in Relays : RelayRooted(r)

\* Without a store to come, a copy is saved, refused for good or kept; while
\* a store is under way, what is not is in it.
RelaySaved(r) ==
  row # "gone" /\ relay[r].copy # None /\ relay[r].pend = None =>
    IF At(Put(r), {"idle"})
      THEN relay[r].kept \/ relay[r].copy \subseteq Content \cup waived
      ELSE relay[r].copy \subseteq Content \cup waived \cup call[Put(r)].doc

Saved == \A r \in Relays : RelaySaved(r)

\* A request's document has what was saved when the request began.
DraftFollows(q) ==
  /\ At(q, {"load", "loading"}) /\ row # "gone" => call[q].from \subseteq Content
  /\ At(q, {"number", "renumber", "insert", "reinsert"}) => call[q].from \subseteq call[q].doc

DraftsFollow == \A q \in Requests : DraftFollows(q)

\* The part of TypeOK about relays.
RelaysTyped ==
  /\ relay \in [Relays -> RelayType]
  /\ \A r \in Relays : relay[r].copy = None => relay[r].pend = None

IInv ==
  /\ TypeOK /\ CallsFit /\ OpenTransactionIsAlone /\ RowsMirrorDocument
  /\ RowsRooted /\ CallsRooted /\ CopiesRooted /\ Saved
  /\ DraftsFollow /\ VersionsFollowDraft

\* It holds to begin with.
LEMMA InitInv == Init => IInv
<1> SUFFICES ASSUME Init PROVE IInv OBVIOUS
<1> USE ActorsDiffer, MarksDiffer DEF Init
<1>0. {Base} \in Docs /\ {} \in Docs BY DEF Docs, Updates
<1>1. TypeOK
  <2>1. Idle \in CallType /\ NoCopy \in RelayType
        BY <1>0 DEF CallType, Idle, RelayType, NoCopy
  <2> QED BY <1>0, <2>1 DEF TypeOK, NoCopy
<1>2. CallsFit BY DEF CallsFit, At, Idle
<1>3. OpenTransactionIsAlone BY DEF OpenTransactionIsAlone, At, Held, Idle
<1>4. RowsMirrorDocument /\ RowsRooted BY DEF RowsMirrorDocument, RowsRooted
<1>5. CallsRooted /\ CopiesRooted
      BY DEF CallsRooted, CopiesRooted, RelayRooted, At, Idle, NoCopy
<1>6. Saved BY DEF Saved, RelaySaved, NoCopy
<1>7. DraftsFollow /\ VersionsFollowDraft
      BY DEF DraftsFollow, DraftFollows, VersionsFollowDraft, At, Idle
<1> QED BY <1>1, <1>2, <1>3, <1>4, <1>5, <1>6, <1>7 DEF IInv

------------------------------------------------------------------------------
(* Types *)

\* Every step leaves every call of its type.
LEMMA CallTypeStep ==
  ASSUME TypeOK, Next
  PROVE  call' \in [Actors -> CallType]
<1>1. ASSUME NEW a \in Actors, Locks(a)
     PROVE  call' \in [Actors -> CallType]
  <2>1. call[a] \in CallType /\ stored \in {None, Damaged} \cup Docs BY DEF TypeOK
  <2>2. HeldAs[call[a].pc] \in Held
    BY <1>1 DEF Locks, At, Waiting, HeldAs, Held
  <2>3. [call[a] EXCEPT !.pc = HeldAs[call[a].pc], !.read = stored] \in CallType
    BY <2>1, <2>2 DEF CallType, Held
  <2>4. call' = [call EXCEPT ![a] = [call[a] EXCEPT !.pc = HeldAs[call[a].pc], !.read = stored]]
    BY <1>1 DEF Locks, Goes
  <2> QED BY <2>3, <2>4 DEF TypeOK
<1>2. ASSUME NEW q \in Requests, NEW e \in Edits, BeginEdit(q, e)
     PROVE  call' \in [Actors -> CallType]
  <2>1. [Idle EXCEPT !.pc = "load", !.job = e] \in CallType BY IdleFits DEF CallType
  <2> QED BY <1>2, <2>1, ActorsDiffer DEF BeginEdit, Goes, TypeOK
<1>3. ASSUME NEW q \in Requests, BeginPublish(q)
     PROVE  call' \in [Actors -> CallType]
  <2>1. [Idle EXCEPT !.pc = "load", !.job = Publish, !.from = Content] \in CallType
    BY IdleFits, ContentTyped DEF CallType
  <2> QED BY <1>3, <2>1, ActorsDiffer DEF BeginPublish, Goes, TypeOK
<1>4. ASSUME NEW q \in Requests, RequestLoads(q)
     PROVE  call' \in [Actors -> CallType]
  <2>1. call[q] \in CallType BY ActorsDiffer DEF TypeOK
  <2>2. LoadedDoc(q) \cup ({call[q].job} \cap Edits) \in Docs
    BY ContentTyped, ActorsDiffer DEF Docs, Updates
  <2>3. ASSUME NEW pc \in {"number", "store"}, NEW d \in Docs
        PROVE  [call[q] EXCEPT !.pc = pc, !.doc = d, !.read = None] \in CallType
    BY <2>1 DEF CallType
  <2>4. (IF call[q].job = Publish THEN "number" ELSE "store") \in {"number", "store"} OBVIOUS
  <2> QED BY <1>4, <2>2, <2>3, <2>4, ActorsDiffer DEF RequestLoads, Goes, TypeOK
<1>5. ASSUME NEW q \in Requests, RequestNotFound(q)
     PROVE  call' \in [Actors -> CallType]
  BY <1>5, ActorsDiffer, IdleFits DEF RequestNotFound, Ends, Goes, TypeOK
<1>6. ASSUME NEW q \in Requests, RequestStores(q)
     PROVE  call' \in [Actors -> CallType]
  BY <1>6, ActorsDiffer, IdleFits DEF RequestStores, Ends, Goes, TypeOK
<1>7. ASSUME NEW q \in Requests, RequestStoresNothing(q)
     PROVE  call' \in [Actors -> CallType]
  BY <1>7, ActorsDiffer, IdleFits DEF RequestStoresNothing, Ends, Goes, TypeOK
<1>8. ASSUME NEW q \in Requests, Numbers(q)
     PROVE  call' \in [Actors -> CallType]
  <2>1. call[q] \in CallType /\ Len(versions) + 1 \in Nat
        BY ActorsDiffer, LenProperties DEF TypeOK
  <2>2. ASSUME NEW pc \in {"insert", "reinsert"}, NEW n \in Nat
        PROVE  [call[q] EXCEPT !.pc = pc, !.num = n] \in CallType
    BY <2>1 DEF CallType
  <2>3. call' = [call EXCEPT ![q] = [call[q] EXCEPT
          !.pc = IF call[q].pc = "number" THEN "insert" ELSE "reinsert", !.num = Len(versions) + 1]]
    BY <1>8 DEF Numbers, Goes
  <2>4. (IF call[q].pc = "number" THEN "insert" ELSE "reinsert") \in {"insert", "reinsert"} OBVIOUS
  <2> QED BY <2>1, <2>2, <2>3, <2>4, ActorsDiffer DEF TypeOK
<1>9. ASSUME NEW q \in Requests, Inserts(q)
     PROVE  call' \in [Actors -> CallType]
  <2>1. Ends(q) \/ Moves(q, "renumber")
    BY <1>9 DEF Inserts
  <2>2. CASE Ends(q)
    BY <2>2, ActorsDiffer, IdleFits DEF Ends, Goes, TypeOK
  <2>3. CASE Moves(q, "renumber")
    <3>1. call[q] \in CallType BY ActorsDiffer DEF TypeOK
    <3>2. [call[q] EXCEPT !.pc = "renumber"] \in CallType BY <3>1 DEF CallType
    <3> QED BY <2>3, <3>2, ActorsDiffer DEF Moves, Goes, TypeOK
  <2> QED BY <2>1, <2>2, <2>3
<1>10. ASSUME NEW q \in Requests, RequestFails(q)
     PROVE  call' \in [Actors -> CallType]
  BY <1>10, ActorsDiffer, IdleFits DEF RequestFails, Ends, Goes, TypeOK
<1>11. ASSUME NEW r \in Relays, Loads(r)
     PROVE  call' \in [Actors -> CallType]
  BY <1>11, ActorsDiffer, IdleFits DEF Loads, Ends, Goes, TypeOK
<1>12. ASSUME NEW r \in Relays, Refreshes(r)
     PROVE  call' \in [Actors -> CallType]
  <2>1. Ends(Get(r)) \/ LoadsInstead(r)
    BY <1>12 DEF Refreshes
  <2>2. CASE Ends(Get(r))
    BY <2>2, ActorsDiffer, IdleFits DEF Ends, Goes, TypeOK
  <2>3. CASE LoadsInstead(r)
    <3>1. call[Get(r)] \in CallType BY ActorsDiffer DEF TypeOK
    <3>2. [call[Get(r)] EXCEPT !.pc = "load", !.read = None] \in CallType
          BY <3>1 DEF CallType
    <3> QED BY <2>3, <3>2, ActorsDiffer DEF LoadsInstead, Goes, TypeOK
  <2> QED BY <2>1, <2>2, <2>3
<1>13. ASSUME NEW r \in Relays, LoadFails(r)
     PROVE  call' \in [Actors -> CallType]
  BY <1>13, ActorsDiffer, IdleFits DEF LoadFails, Ends, Goes, TypeOK
<1>14. ASSUME NEW r \in Relays, RefreshFails(r)
     PROVE  call' \in [Actors -> CallType]
  <2>1. Ends(Get(r)) \/ LoadsInstead(r)
    BY <1>14 DEF RefreshFails
  <2>2. CASE Ends(Get(r))
    BY <2>2, ActorsDiffer, IdleFits DEF Ends, Goes, TypeOK
  <2>3. CASE LoadsInstead(r)
    <3>1. call[Get(r)] \in CallType BY ActorsDiffer DEF TypeOK
    <3>2. [call[Get(r)] EXCEPT !.pc = "load", !.read = None] \in CallType
          BY <3>1 DEF CallType
    <3> QED BY <2>3, <3>2, ActorsDiffer DEF LoadsInstead, Goes, TypeOK
  <2> QED BY <2>1, <2>2, <2>3
<1>15. ASSUME NEW r \in Relays, SendStore(r)
     PROVE  call' \in [Actors -> CallType]
  <2>1. relay[r].copy \in Docs /\ relay[r].pend \in Roles
    BY <1>15 DEF SendStore, TypeOK, RelayType
  <2>2. [Idle EXCEPT !.pc = "check", !.job = relay[r].pend, !.doc = relay[r].copy] \in CallType
    BY <2>1, IdleFits DEF CallType
  <2> QED BY <1>15, <2>2, ActorsDiffer DEF SendStore, Goes, TypeOK
<1>16. ASSUME NEW r \in Relays, Checks(r)
     PROVE  call' \in [Actors -> CallType]
  <2>1. call[Put(r)] \in CallType BY ActorsDiffer DEF TypeOK
  <2>2. [call[Put(r)] EXCEPT !.pc = "store"] \in CallType
    BY <1>16, <2>1 DEF CallType
  <2> QED BY <1>16, <2>2, ActorsDiffer DEF Checks, Moves, Goes, TypeOK
<1>17. ASSUME NEW r \in Relays, StoreRefused(r)
     PROVE  call' \in [Actors -> CallType]
  BY <1>17, ActorsDiffer, IdleFits DEF StoreRefused, Abandons, Ends, Goes, TypeOK
<1>18. ASSUME NEW r \in Relays, StoresNothing(r)
     PROVE  call' \in [Actors -> CallType]
  BY <1>18, ActorsDiffer, IdleFits DEF StoresNothing, Abandons, Ends, Goes, TypeOK
<1>19. ASSUME NEW r \in Relays, StoreForbidden(r)
     PROVE  call' \in [Actors -> CallType]
  BY <1>19, ActorsDiffer, IdleFits DEF StoreForbidden, Abandons, Ends, Goes, TypeOK
<1>20. ASSUME NEW r \in Relays, Stores(r)
     PROVE  call' \in [Actors -> CallType]
  BY <1>20, ActorsDiffer, IdleFits DEF Stores, Ends, Goes, TypeOK
<1>21. ASSUME NEW r \in Relays, StoreFails(r)
     PROVE  call' \in [Actors -> CallType]
  BY <1>21, ActorsDiffer, IdleFits DEF StoreFails, Ends, Goes, TypeOK
<1>22. ASSUME NEW r \in Relays, NEW role \in Roles, Authenticate(r, role)
     PROVE  call' \in [Actors -> CallType]
  <2>1. ASSUME NEW pc \in {"load", "refresh"}
        PROVE  [Idle EXCEPT !.pc = pc, !.job = role] \in CallType
    BY IdleFits DEF CallType
  <2>2. (IF relay[r].copy = None THEN "load" ELSE "refresh") \in {"load", "refresh"} OBVIOUS
  <2> QED BY <1>22, <2>1, <2>2, ActorsDiffer DEF Authenticate, Goes, TypeOK
<1>23. CASE UNCHANGED <<call>>
  BY <1>23, ActorsDiffer DEF Goes, TypeOK, CallType
<1>24. CASE Trash \/ Restore \/ Purge \/ AgentDelete \/ Damage
  BY <1>24, <1>23 DEF Trash, Sent, Restore, Removed, Purge, AgentDelete, Damage, db,
    history
<1>25. ASSUME NEW r \in Relays, (\E role \in Roles : Disconnect(r, role)) \/
       (\E role \in Roles : Revalidate(r, role)) \/ (\E e \in Edits : LocalEdit(r, e)) \/
       (\E m \in inbox[r] : FanIn(r, m)) \/ (\E m \in inbox[r] : Invalidate(r, m)) \/
       Unload(r)
     PROVE  call' \in [Actors -> CallType]
  BY <1>25, <1>23 DEF Disconnect, Left, Settled, Revalidate, LocalEdit, FanIn, Taken,
    Invalidate, Unload, db, history
<1> QED BY <1>1, <1>2, <1>3, <1>4, <1>5, <1>6, <1>7, <1>8, <1>9, <1>10, <1>11, <1>12,
    <1>13, <1>14, <1>15, <1>16, <1>17, <1>18, <1>19, <1>20, <1>21, <1>22, <1>23, <1>24,
    <1>25, ActorsDiffer
  DEF Next, RequestStep, RowStep, GetStep, PutStep, ClientStep, MessageStep

\* A relay's record with nothing to store but a copy.
RelayFits(k) == k \in RelayType /\ (k.copy = None => k.pend = None)

\* A relay that is set to such a record keeps the relays typed.
LEMMA BecomesTyped ==
  ASSUME RelaysTyped, NEW r \in Relays, NEW k, RelayFits(k), Becomes(r, k)
  PROVE  RelaysTyped'
BY DEF RelaysTyped, RelayFits, Becomes

\* Every step leaves every relay of its type, with nothing to store but a copy.
LEMMA RelayTypeStep ==
  ASSUME TypeOK, CallsFit, CopiesRooted, RelaysTyped, Next
  PROVE  RelaysTyped'
<1>1. ASSUME NEW r \in Relays, Loads(r)
     PROVE  RelaysTyped'
  <2>0. LoadedDoc(Get(r)) \in Docs /\ call[Get(r)].job \in Roles
    BY <1>1, ContentTyped, ActorsDiffer DEF Loads, CallsFit, At
  <2>1. RelayFits(relay[r]) BY DEF RelaysTyped, RelayFits
  <2>2. RelayFits([relay[r] EXCEPT !.copy = LoadedDoc(Get(r)), !.conns = relay[r].conns \cup {call[Get(r)].job}])
    BY <1>1, <2>1, <2>0, MarksDiffer DEF RelayFits, RelayType
  <2> QED BY <1>1, <2>2, BecomesTyped DEF Loads
<1>2. ASSUME NEW r \in Relays, Refreshes(r)
     PROVE  RelaysTyped'
  <2>1. RelayFits(relay[r]) BY DEF RelaysTyped, RelayFits
  <2>2. LoadedDoc(Get(r)) \in Docs /\ call[Get(r)].job \in Roles
    BY <1>2, ContentTyped, ActorsDiffer DEF Refreshes, CallsFit, At
  <2>3. CASE relay[r].copy = None
    BY <1>2, <2>3 DEF Refreshes, LoadsInstead, RelaysTyped
  <2>4. CASE relay[r].copy # None
    <3>1. relay[r].copy \cup LoadedDoc(Get(r)) \in Docs
          BY <2>1, <2>2, <2>4 DEF RelayFits, RelayType, Docs
    <3>2. [relay[r] EXCEPT !.copy = relay[r].copy \cup LoadedDoc(Get(r)),
                           !.conns = relay[r].conns \cup {call[Get(r)].job}] \in RelayType
      BY <2>1, <2>2, <3>1 DEF RelayFits, RelayType
    <3>3. relay' = [relay EXCEPT ![r] = [relay[r] EXCEPT !.copy = relay[r].copy \cup LoadedDoc(Get(r)),
                                                         !.conns = relay[r].conns \cup {call[Get(r)].job}]]
      BY <1>2, <2>4 DEF Refreshes, Becomes
    <3> QED BY <3>1, <3>2, <3>3, MarksDiffer DEF RelaysTyped, RelayType, Readable
  <2> QED BY <2>3, <2>4
<1>3. ASSUME NEW r \in Relays, RefreshFails(r)
     PROVE  RelaysTyped'
  <2>1. relay[r] \in RelayType BY DEF RelaysTyped
  <2>2. call[Get(r)].job \in Roles BY <1>3 DEF RefreshFails, CallsFit, At
  <2>3. CASE relay[r].copy = None
    BY <1>3, <2>3 DEF RefreshFails, LoadsInstead, RelaysTyped
  <2>4. CASE relay[r].copy # None
    BY <1>3, <2>1, <2>2, <2>4 DEF RefreshFails, Becomes, RelaysTyped, RelayType
  <2> QED BY <2>3, <2>4
<1>4. ASSUME NEW r \in Relays, SendStore(r)
     PROVE  RelaysTyped'
  <2>1. RelayFits(relay[r]) BY DEF RelaysTyped, RelayFits
  <2>2. RelayFits([relay[r] EXCEPT !.pend = None])
    BY <1>4, <2>1 DEF RelayFits, RelayType
  <2> QED BY <1>4, <2>2, BecomesTyped DEF SendStore
<1>5. ASSUME NEW r \in Relays, StoreRefused(r)
     PROVE  RelaysTyped'
  <2>1. RelayFits(relay[r]) BY DEF RelaysTyped, RelayFits
  <2>2. RelayFits([relay[r] EXCEPT !.kept = FALSE])
    BY <1>5, <2>1 DEF RelayFits, RelayType
  <2> QED BY <1>5, <2>2, BecomesTyped DEF StoreRefused, Abandons
<1>6. ASSUME NEW r \in Relays, StoresNothing(r)
     PROVE  RelaysTyped'
  <2>1. RelayFits(relay[r]) BY DEF RelaysTyped, RelayFits
  <2>2. RelayFits([relay[r] EXCEPT !.kept = FALSE])
    BY <1>6, <2>1 DEF RelayFits, RelayType
  <2> QED BY <1>6, <2>2, BecomesTyped DEF StoresNothing, Abandons
<1>7. ASSUME NEW r \in Relays, StoreForbidden(r)
     PROVE  RelaysTyped'
  <2>1. RelayFits(relay[r]) BY DEF RelaysTyped, RelayFits
  <2>2. RelayFits([relay[r] EXCEPT !.kept = FALSE])
    BY <1>7, <2>1 DEF RelayFits, RelayType
  <2> QED BY <1>7, <2>2, BecomesTyped DEF StoreForbidden, Abandons
<1>8. ASSUME NEW r \in Relays, Stores(r)
     PROVE  RelaysTyped'
  <2>1. RelayFits(relay[r]) BY DEF RelaysTyped, RelayFits
  <2>2. \A b \in BOOLEAN : LET k == [relay[r] EXCEPT !.kept = b]
                          IN  RelayFits(k)
    BY <2>1 DEF RelayFits, RelayType
  <2> QED BY <1>8, <2>2, BecomesTyped DEF Stores
<1>9. ASSUME NEW r \in Relays, StoreFails(r)
     PROVE  RelaysTyped'
  <2>1. RelayFits(relay[r]) BY DEF RelaysTyped, RelayFits
  <2>2. RelayFits([relay[r] EXCEPT !.kept = TRUE])
    BY <1>9, <2>1 DEF RelayFits, RelayType
  <2> QED BY <1>9, <2>2, BecomesTyped DEF StoreFails
<1>10. ASSUME NEW r \in Relays, NEW role \in Roles, Authenticate(r, role)
     PROVE  RelaysTyped'
  <2>1. RelayFits(relay[r]) BY DEF RelaysTyped, RelayFits
  <2>2. RelayFits([relay[r] EXCEPT !.token = role])
    BY <1>10, <2>1 DEF RelayFits, RelayType
  <2> QED BY <1>10, <2>2, BecomesTyped DEF Authenticate
<1>11. ASSUME NEW r \in Relays, NEW role \in Roles, Disconnect(r, role)
     PROVE  RelaysTyped'
  <2>1. RelayFits(relay[r]) BY DEF RelaysTyped, RelayFits
  <2>2. RelayFits(Left(r, {role}))
    BY <1>11, <2>1 DEF RelayFits, RelayType, Left, Settled
  <2> QED BY <1>11, <2>2, BecomesTyped DEF Disconnect
<1>12. ASSUME NEW r \in Relays, NEW role \in Roles, Revalidate(r, role)
     PROVE  RelaysTyped'
  <2>1. RelayFits(relay[r]) BY DEF RelaysTyped, RelayFits
  <2>2. RelayFits(Left(r, {role}))
    BY <1>12, <2>1 DEF RelayFits, RelayType, Left, Settled
  <2> QED BY <1>12, <2>2, BecomesTyped DEF Revalidate
<1>13. ASSUME NEW r \in Relays, NEW e \in Edits, LocalEdit(r, e)
     PROVE  RelaysTyped'
  <2>1. relay[r] \in RelayType /\ relay[r].copy # None
        BY <1>13 DEF LocalEdit, RelaysTyped, CopiesRooted, RelayRooted
  <2>2. relay[r].copy \cup {e} \in Docs BY <2>1 DEF RelayType, Docs, Updates
  <2>3. [relay[r] EXCEPT !.copy = relay[r].copy \cup {e}, !.pend = "editor"] \in RelayType
    BY <2>1, <2>2 DEF RelayType, Roles
  <2>4. relay' = [relay EXCEPT ![r] = [relay[r] EXCEPT !.copy = relay[r].copy \cup {e}, !.pend = "editor"]]
    BY <1>13 DEF LocalEdit, Becomes
  <2> QED BY <2>1, <2>2, <2>3, <2>4, MarksDiffer DEF RelaysTyped, RelayType, Readable
<1>14. ASSUME NEW r \in Relays, NEW m \in inbox[r], FanIn(r, m)
     PROVE  RelaysTyped'
  <2>1. relay[r] \in RelayType /\ m.doc \in Docs
        BY <1>14 DEF FanIn, RelaysTyped, TypeOK, MessageType
  <2>2. CASE relay[r].copy = None \/ relay[r].token = None
    BY <1>14, <2>2 DEF FanIn, RelaysTyped
  <2>3. CASE relay[r].copy # None /\ relay[r].token # None
    <3>1. relay[r].copy \cup m.doc \in Docs BY <2>1, <2>3 DEF RelayType, Docs
    <3>2. [relay[r] EXCEPT !.copy = relay[r].copy \cup m.doc, !.pend = relay[r].token] \in RelayType
      BY <2>1, <3>1 DEF RelayType
    <3>3. relay' = [relay EXCEPT ![r] = [relay[r] EXCEPT !.copy = relay[r].copy \cup m.doc, !.pend = relay[r].token]]
      BY <1>14, <2>3 DEF FanIn, Becomes
    <3> QED BY <3>1, <3>2, <3>3, MarksDiffer DEF RelaysTyped, RelayType, Readable
  <2> QED BY <2>2, <2>3
<1>15. ASSUME NEW r \in Relays, NEW m \in inbox[r], Invalidate(r, m)
     PROVE  RelaysTyped'
  <2>1. RelayFits(relay[r]) BY DEF RelaysTyped, RelayFits
  <2>2. \/ Becomes(r, NoCopy)
        \/ Becomes(r, [relay[r] EXCEPT !.conns = {}, !.token = None])
    BY <1>15 DEF Invalidate
  <2>3. CASE Becomes(r, NoCopy)
    BY <2>3, BecomesTyped, IdleFits DEF RelayFits, NoCopy
  <2>4. CASE Becomes(r, [relay[r] EXCEPT !.conns = {}, !.token = None])
    BY <2>1, <2>4 DEF RelaysTyped, RelayFits, Becomes, RelayType
  <2> QED BY <2>2, <2>3, <2>4
<1>16. ASSUME NEW r \in Relays, Unload(r)
     PROVE  RelaysTyped'
  BY <1>16, BecomesTyped, IdleFits DEF Unload, RelayFits, NoCopy
<1>17. CASE UNCHANGED <<relay>>
  BY <1>17 DEF RelaysTyped
<1>18. ASSUME NEW q \in Requests, (\E e \in Edits : BeginEdit(q, e)) \/ BeginPublish(q) \/
       RequestLoads(q) \/ RequestNotFound(q) \/ RequestStores(q) \/
       RequestStoresNothing(q) \/ Numbers(q) \/ Inserts(q) \/ RequestFails(q)
     PROVE  RelaysTyped'
  BY <1>18, <1>17 DEF BeginEdit, BeginPublish, RequestLoads, LoadCommits, LoadedDoc,
    RequestNotFound, Ends, RequestStores, StoreCommits, Sent, RequestStoresNothing,
    Numbers, Inserts, Moves, RequestFails, Released, Fault, db, history
<1>19. CASE Trash \/ Restore \/ Purge \/ AgentDelete \/ Damage
  BY <1>19, <1>17 DEF Trash, Sent, Restore, Removed, Purge, AgentDelete, Damage, db,
    history
<1>20. ASSUME NEW r \in Relays, LoadFails(r) \/ Checks(r)
     PROVE  RelaysTyped'
  BY <1>20, <1>17 DEF LoadFails, GetFails, Released, Fault, Ends, Checks, Moves, db,
    history
<1>21. CASE (\E a \in Actors : Locks(a))
  BY <1>21, <1>17 DEF Locks, db, history
<1> QED BY <1>1, <1>2, <1>3, <1>4, <1>5, <1>6, <1>7, <1>8, <1>9, <1>10, <1>11, <1>12,
    <1>13, <1>14, <1>15, <1>16, <1>17, <1>18, <1>19, <1>20, <1>21, ActorsDiffer
  DEF Next, RequestStep, RowStep, GetStep, PutStep, ClientStep, MessageStep

Versions == [doc : Docs, from : Docs]

\* Every step leaves a sequence of versions.
LEMMA VersionsTyped ==
  ASSUME TypeOK, Next
  PROVE  versions' \in Seq(Versions)
<1>1. ASSUME NEW q \in Requests, Inserts(q)
     PROVE  versions' \in Seq(Versions)
  <2>1. [doc |-> call[q].doc, from |-> call[q].from] \in Versions /\ versions \in Seq(Versions)
    BY ActorsDiffer DEF TypeOK, CallType, Versions
  <2> QED BY <1>1, <2>1, AppendProperties DEF Inserts
<1>2. CASE Purge \/ AgentDelete
  <2>1. versions' = <<>> BY <1>2 DEF Purge, AgentDelete, Removed
  <2> QED BY <2>1, EmptySeq
<1>3. CASE UNCHANGED <<versions>>
  BY <1>3 DEF TypeOK, Versions
<1>4. ASSUME NEW q \in Requests, (\E e \in Edits : BeginEdit(q, e)) \/ BeginPublish(q) \/
      RequestLoads(q) \/ RequestNotFound(q) \/ RequestStores(q) \/
      RequestStoresNothing(q) \/ Numbers(q) \/ RequestFails(q)
     PROVE  versions' \in Seq(Versions)
  BY <1>4, <1>3 DEF BeginEdit, BeginPublish, RequestLoads, LoadCommits, LoadedDoc,
    RequestNotFound, Ends, RequestStores, StoreCommits, Sent, RequestStoresNothing,
    Numbers, RequestFails, Released, Fault, db, history
<1>5. CASE Trash \/ Restore \/ Damage
  BY <1>5, <1>3 DEF Trash, Sent, Restore, Damage, db, history
<1>6. ASSUME NEW r \in Relays, Loads(r) \/ Refreshes(r) \/ LoadFails(r) \/
      RefreshFails(r) \/ SendStore(r) \/ Checks(r) \/ StoreRefused(r) \/
      StoresNothing(r) \/ StoreForbidden(r) \/ Stores(r) \/ StoreFails(r) \/
      (\E role \in Roles : Authenticate(r, role)) \/
      (\E role \in Roles : Disconnect(r, role)) \/
      (\E role \in Roles : Revalidate(r, role)) \/ (\E e \in Edits : LocalEdit(r, e)) \/
      (\E m \in inbox[r] : FanIn(r, m)) \/ (\E m \in inbox[r] : Invalidate(r, m)) \/
      Unload(r)
     PROVE  versions' \in Seq(Versions)
  BY <1>6, <1>3 DEF Loads, LoadCommits, LoadedDoc, Ends, Refreshes, LoadsInstead,
    LoadFails, GetFails, Released, Fault, RefreshFails, SendStore, Checks, Moves,
    StoreRefused, Abandons, StoresNothing, StoreForbidden, Stores, StoreCommits,
    StoreFails, Authenticate, Disconnect, Left, Settled, Revalidate, LocalEdit, FanIn,
    Taken, Invalidate, Unload, db, history
<1>7. CASE (\E a \in Actors : Locks(a))
  BY <1>7, <1>3 DEF Locks, db, history
<1> QED BY <1>1, <1>2, <1>3, <1>4, <1>5, <1>6, <1>7, ActorsDiffer
  DEF Next, RequestStep, RowStep, GetStep, PutStep, ClientStep, MessageStep

\* Every step leaves messages in the inboxes.
LEMMA InboxTyped ==
  ASSUME TypeOK, Next
  PROVE  inbox' \in [Relays -> SUBSET MessageType]
<1>1. ASSUME NEW q \in Requests, RequestStores(q)
     PROVE  inbox' \in [Relays -> SUBSET MessageType]
  <2>1. Update(call[q].doc) \in MessageType
        BY ActorsDiffer DEF TypeOK, CallType, Update, MessageType
  <2> QED BY <1>1, <2>1 DEF RequestStores, StoreCommits, Ends, Sent, TypeOK
<1>2. ASSUME NEW q \in Requests, RequestStoresNothing(q)
     PROVE  inbox' \in [Relays -> SUBSET MessageType]
  <2>1. Update(call[q].doc) \in MessageType
        BY ActorsDiffer DEF TypeOK, CallType, Update, MessageType
  <2> QED BY <1>2, <2>1 DEF RequestStoresNothing, Ends, Sent, TypeOK
<1>3. CASE Trash
  <2>1. Invalidation \in MessageType BY DEF Invalidation, MessageType, Docs
  <2> QED BY <1>3, <2>1 DEF Trash, Sent, TypeOK
<1>4. CASE Purge \/ AgentDelete
  <2>1. Invalidation \in MessageType BY DEF Invalidation, MessageType, Docs
  <2> QED BY <1>4, <2>1 DEF Removed, Purge, AgentDelete, Sent, TypeOK
<1>5. ASSUME NEW r \in Relays, NEW m \in inbox[r], FanIn(r, m)
     PROVE  inbox' \in [Relays -> SUBSET MessageType]
  BY <1>5 DEF FanIn, Taken, TypeOK
<1>6. ASSUME NEW r \in Relays, NEW m \in inbox[r], Invalidate(r, m)
     PROVE  inbox' \in [Relays -> SUBSET MessageType]
  BY <1>6 DEF Invalidate, Taken, Settled, TypeOK
<1>7. CASE UNCHANGED <<inbox>>
  BY <1>7 DEF TypeOK
<1>8. ASSUME NEW q \in Requests, (\E e \in Edits : BeginEdit(q, e)) \/ BeginPublish(q) \/
      RequestLoads(q) \/ RequestNotFound(q) \/ Numbers(q) \/ Inserts(q) \/ RequestFails(q)
     PROVE  inbox' \in [Relays -> SUBSET MessageType]
  BY <1>8, <1>7 DEF BeginEdit, BeginPublish, RequestLoads, LoadCommits, LoadedDoc,
    RequestNotFound, Ends, Numbers, Inserts, Moves, RequestFails, Released, Fault, db,
    history
<1>9. CASE Restore \/ Damage
  BY <1>9, <1>7 DEF Restore, Damage, db, history
<1>10. ASSUME NEW r \in Relays, Loads(r) \/ Refreshes(r) \/ LoadFails(r) \/
       RefreshFails(r) \/ SendStore(r) \/ Checks(r) \/ StoreRefused(r) \/
       StoresNothing(r) \/ StoreForbidden(r) \/ Stores(r) \/ StoreFails(r) \/
       (\E role \in Roles : Authenticate(r, role)) \/
       (\E role \in Roles : Disconnect(r, role)) \/
       (\E role \in Roles : Revalidate(r, role)) \/ (\E e \in Edits : LocalEdit(r, e)) \/
       Unload(r)
     PROVE  inbox' \in [Relays -> SUBSET MessageType]
  BY <1>10, <1>7 DEF Loads, LoadCommits, LoadedDoc, Ends, Refreshes, LoadsInstead,
    LoadFails, GetFails, Released, Fault, RefreshFails, SendStore, Checks, Moves,
    StoreRefused, Abandons, StoresNothing, StoreForbidden, Stores, StoreCommits,
    StoreFails, Authenticate, Disconnect, Left, Settled, Revalidate, LocalEdit, Unload,
    db, history
<1>11. CASE (\E a \in Actors : Locks(a))
  BY <1>11, <1>7 DEF Locks, db, history
<1> QED BY <1>1, <1>2, <1>3, <1>4, <1>5, <1>6, <1>7, <1>8, <1>9, <1>10, <1>11,
    ActorsDiffer
  DEF Next, RequestStep, RowStep, GetStep, PutStep, ClientStep, MessageStep

\* Every step leaves sets of edits.
LEMMA HistoryTyped ==
  ASSUME TypeOK, Next
  PROVE  made' \in SUBSET Edits /\ waived' \in Docs
<1>1. ASSUME NEW q \in Requests, NEW e \in Edits, BeginEdit(q, e)
     PROVE  made' \in SUBSET Edits /\ waived' \in Docs
  BY <1>1 DEF BeginEdit, TypeOK, history
<1>2. ASSUME NEW r \in Relays, StoreRefused(r)
     PROVE  made' \in SUBSET Edits /\ waived' \in Docs
  <2>1. call[Put(r)].doc \in Docs BY ActorsDiffer DEF TypeOK, CallType
  <2> QED BY <1>2, <2>1 DEF StoreRefused, Abandons, Ends, TypeOK, history, Docs, Unsaved
<1>3. ASSUME NEW r \in Relays, StoresNothing(r)
     PROVE  made' \in SUBSET Edits /\ waived' \in Docs
  <2>1. call[Put(r)].doc \in Docs BY ActorsDiffer DEF TypeOK, CallType
  <2> QED BY <1>3, <2>1 DEF StoresNothing, Abandons, Ends, TypeOK, history, Docs, Unsaved
<1>4. ASSUME NEW r \in Relays, StoreForbidden(r)
     PROVE  made' \in SUBSET Edits /\ waived' \in Docs
  <2>1. call[Put(r)].doc \in Docs BY ActorsDiffer DEF TypeOK, CallType
  <2> QED BY <1>4, <2>1 DEF StoreForbidden, Abandons, Ends, TypeOK, history, Docs, Unsaved
<1>5. ASSUME NEW r \in Relays, NEW e \in Edits, LocalEdit(r, e)
     PROVE  made' \in SUBSET Edits /\ waived' \in Docs
  BY <1>5 DEF LocalEdit, TypeOK, history
<1>6. ASSUME NEW r \in Relays, NEW m \in inbox[r], Invalidate(r, m)
     PROVE  made' \in SUBSET Edits /\ waived' \in Docs
  <2>1. relay[r].copy # None => relay[r].copy \in Docs BY DEF TypeOK, RelayType
  <2> QED BY <1>6, <2>1 DEF Invalidate, Taken, Settled, TypeOK, history, Docs, Unsaved
<1>7. CASE UNCHANGED <<made, waived>>
  BY <1>7 DEF TypeOK, history
<1>8. ASSUME NEW q \in Requests, BeginPublish(q) \/ RequestLoads(q) \/
      RequestNotFound(q) \/ RequestStores(q) \/ RequestStoresNothing(q) \/ Numbers(q) \/
      Inserts(q) \/ RequestFails(q)
     PROVE  made' \in SUBSET Edits /\ waived' \in Docs
  BY <1>8, <1>7 DEF BeginPublish, RequestLoads, LoadCommits, LoadedDoc, RequestNotFound,
    Ends, RequestStores, StoreCommits, Sent, RequestStoresNothing, Numbers, Inserts,
    Moves, RequestFails, Released, Fault, db, history
<1>9. CASE Trash \/ Restore \/ Purge \/ AgentDelete \/ Damage
  BY <1>9, <1>7 DEF Trash, Sent, Restore, Removed, Purge, AgentDelete, Damage, db, history
<1>10. ASSUME NEW r \in Relays, Loads(r) \/ Refreshes(r) \/ LoadFails(r) \/
       RefreshFails(r) \/ SendStore(r) \/ Checks(r) \/ Stores(r) \/ StoreFails(r) \/
       (\E role \in Roles : Authenticate(r, role)) \/
       (\E role \in Roles : Disconnect(r, role)) \/
       (\E role \in Roles : Revalidate(r, role)) \/ (\E m \in inbox[r] : FanIn(r, m)) \/
       Unload(r)
     PROVE  made' \in SUBSET Edits /\ waived' \in Docs
  BY <1>10, <1>7 DEF Loads, LoadCommits, LoadedDoc, Ends, Refreshes, LoadsInstead,
    LoadFails, GetFails, Released, Fault, RefreshFails, SendStore, Checks, Moves,
    Stores, StoreCommits, StoreFails, Authenticate, Disconnect, Left, Settled,
    Revalidate, FanIn, Taken, Unload, db, history
<1>11. CASE (\E a \in Actors : Locks(a))
  BY <1>11, <1>7 DEF Locks, db, history
<1> QED BY <1>1, <1>2, <1>3, <1>4, <1>5, <1>6, <1>7, <1>8, <1>9, <1>10, <1>11,
    ActorsDiffer
  DEF Next, RequestStep, RowStep, GetStep, PutStep, ClientStep, MessageStep

\* Every step leaves counters, and a lock that somebody or nobody holds.
LEMMA CountersTyped ==
  ASSUME TypeOK, Next
  PROVE  faults' \in Nat /\ damages' \in Nat /\ lock' \in {None} \cup Actors
<1>1. ASSUME NEW a \in Actors, Locks(a)
     PROVE  faults' \in Nat /\ damages' \in Nat /\ lock' \in {None} \cup Actors
  BY <1>1 DEF Locks, TypeOK, history
<1>2. ASSUME NEW q \in Requests, RequestLoads(q)
     PROVE  faults' \in Nat /\ damages' \in Nat /\ lock' \in {None} \cup Actors
  BY <1>2 DEF RequestLoads, LoadCommits, LoadedDoc, TypeOK, history, db, StoreCommits,
    GetFails, Released
<1>3. ASSUME NEW q \in Requests, RequestStores(q)
     PROVE  faults' \in Nat /\ damages' \in Nat /\ lock' \in {None} \cup Actors
  BY <1>3 DEF RequestStores, StoreCommits, Ends, Sent, TypeOK, history, db, LoadCommits,
    GetFails, Released
<1>4. ASSUME NEW q \in Requests, RequestFails(q)
     PROVE  faults' \in Nat /\ damages' \in Nat /\ lock' \in {None} \cup Actors
  BY <1>4 DEF RequestFails, Ends, Released, Fault, TypeOK, history, db, LoadCommits,
    StoreCommits, GetFails
<1>5. CASE Damage
  BY <1>5 DEF Damage, TypeOK, history, db, LoadCommits, StoreCommits, GetFails, Released
<1>6. ASSUME NEW r \in Relays, Loads(r)
     PROVE  faults' \in Nat /\ damages' \in Nat /\ lock' \in {None} \cup Actors
  BY <1>6 DEF Loads, LoadCommits, LoadedDoc, Ends, TypeOK, history, db, StoreCommits,
    GetFails, Released
<1>7. ASSUME NEW r \in Relays, Refreshes(r)
     PROVE  faults' \in Nat /\ damages' \in Nat /\ lock' \in {None} \cup Actors
  BY <1>7 DEF Refreshes, LoadCommits, LoadedDoc, LoadsInstead, Ends, TypeOK, history,
    db, StoreCommits, GetFails, Released
<1>8. ASSUME NEW r \in Relays, LoadFails(r)
     PROVE  faults' \in Nat /\ damages' \in Nat /\ lock' \in {None} \cup Actors
  BY <1>8 DEF LoadFails, GetFails, Released, Fault, Ends, TypeOK, history, db,
    LoadCommits, StoreCommits
<1>9. ASSUME NEW r \in Relays, RefreshFails(r)
     PROVE  faults' \in Nat /\ damages' \in Nat /\ lock' \in {None} \cup Actors
  BY <1>9 DEF RefreshFails, GetFails, Released, Fault, LoadsInstead, Ends, TypeOK,
    history, db, LoadCommits, StoreCommits
<1>10. ASSUME NEW r \in Relays, StoreForbidden(r)
     PROVE  faults' \in Nat /\ damages' \in Nat /\ lock' \in {None} \cup Actors
  BY <1>10 DEF StoreForbidden, Abandons, Ends, TypeOK, history, db, LoadCommits,
    StoreCommits, GetFails, Released
<1>11. ASSUME NEW r \in Relays, Stores(r)
     PROVE  faults' \in Nat /\ damages' \in Nat /\ lock' \in {None} \cup Actors
  BY <1>11 DEF Stores, StoreCommits, Ends, Fault, TypeOK, history, db, LoadCommits,
    GetFails, Released
<1>12. ASSUME NEW r \in Relays, StoreFails(r)
     PROVE  faults' \in Nat /\ damages' \in Nat /\ lock' \in {None} \cup Actors
  BY <1>12 DEF StoreFails, Released, Fault, Ends, TypeOK, history, db, LoadCommits,
    StoreCommits, GetFails
<1>13. CASE UNCHANGED <<faults, damages, lock>>
  BY <1>13 DEF TypeOK, history, db, LoadCommits, StoreCommits, GetFails, Released
<1>14. ASSUME NEW q \in Requests, (\E e \in Edits : BeginEdit(q, e)) \/ BeginPublish(q) \/
       RequestNotFound(q) \/ RequestStoresNothing(q) \/ Numbers(q) \/ Inserts(q)
     PROVE  faults' \in Nat /\ damages' \in Nat /\ lock' \in {None} \cup Actors
  BY <1>14, <1>13 DEF BeginEdit, BeginPublish, RequestNotFound, Ends,
    RequestStoresNothing, Sent, Numbers, Inserts, Moves, db, history
<1>15. CASE Trash \/ Restore \/ Purge \/ AgentDelete
  BY <1>15, <1>13 DEF Trash, Sent, Restore, Removed, Purge, AgentDelete, db, history
<1>16. ASSUME NEW r \in Relays, SendStore(r) \/ Checks(r) \/ StoreRefused(r) \/
       StoresNothing(r) \/ (\E role \in Roles : Authenticate(r, role)) \/
       (\E role \in Roles : Disconnect(r, role)) \/
       (\E role \in Roles : Revalidate(r, role)) \/ (\E e \in Edits : LocalEdit(r, e)) \/
       (\E m \in inbox[r] : FanIn(r, m)) \/ (\E m \in inbox[r] : Invalidate(r, m)) \/
       Unload(r)
     PROVE  faults' \in Nat /\ damages' \in Nat /\ lock' \in {None} \cup Actors
  BY <1>16, <1>13 DEF SendStore, Checks, Moves, StoreRefused, Abandons, Ends,
    StoresNothing, Authenticate, Disconnect, Left, Settled, Revalidate, LocalEdit,
    FanIn, Taken, Invalidate, Unload, db, history
<1> QED BY <1>1, <1>2, <1>3, <1>4, <1>5, <1>6, <1>7, <1>8, <1>9, <1>10, <1>11, <1>12,
    <1>13, <1>14, <1>15, <1>16, ActorsDiffer
  DEF Next, RequestStep, RowStep, GetStep, PutStep, ClientStep, MessageStep

------------------------------------------------------------------------------
(* Calls and the row's lock *)

\* No step takes a call to a place of another kind of call.
LEMMA FitStep ==
  ASSUME TypeOK, CallsFit, Next
  PROVE  CallsFit'
<1>1. ASSUME NEW a \in Actors, Locks(a)
     PROVE  CallsFit'
  <2>1. CASE a \in Requests
    BY <1>1, <2>1, ActorsDiffer DEF Locks, CallsFit, Goes, At, TypeOK, CallType, Idle,
      HeldAs, Waiting
  <2>2. ASSUME NEW r \in Relays, a = Get(r) PROVE CallsFit'
    BY <1>1, <2>2, ActorsDiffer DEF Locks, CallsFit, Goes, At, TypeOK, CallType, Idle,
      HeldAs, Waiting
  <2>3. ASSUME NEW r \in Relays, a = Put(r) PROVE CallsFit'
    BY <1>1, <2>3, ActorsDiffer DEF Locks, CallsFit, Goes, At, TypeOK, CallType, Idle,
      HeldAs, Waiting
  <2> QED BY <2>1, <2>2, <2>3 DEF Actors
<1>2. ASSUME NEW q \in Requests, NEW e \in Edits, BeginEdit(q, e)
     PROVE  CallsFit'
  BY <1>2, ActorsDiffer DEF BeginEdit, CallsFit, Goes, At, TypeOK, CallType, Idle
<1>3. ASSUME NEW q \in Requests, BeginPublish(q)
     PROVE  CallsFit'
  BY <1>3, ActorsDiffer DEF BeginPublish, CallsFit, Goes, At, TypeOK, CallType, Idle
<1>4. ASSUME NEW q \in Requests, RequestLoads(q)
     PROVE  CallsFit'
  BY <1>4, ActorsDiffer DEF RequestLoads, LoadCommits, LoadedDoc, CallsFit, Goes, At,
    TypeOK, CallType, Idle
<1>5. ASSUME NEW q \in Requests, RequestNotFound(q)
     PROVE  CallsFit'
  BY <1>5, ActorsDiffer DEF RequestNotFound, Ends, CallsFit, Goes, At, TypeOK, CallType,
    Idle
<1>6. ASSUME NEW q \in Requests, RequestStores(q)
     PROVE  CallsFit'
  BY <1>6, ActorsDiffer DEF RequestStores, StoreCommits, Ends, Sent, CallsFit, Goes, At,
    TypeOK, CallType, Idle
<1>7. ASSUME NEW q \in Requests, RequestStoresNothing(q)
     PROVE  CallsFit'
  BY <1>7, ActorsDiffer DEF RequestStoresNothing, Ends, Sent, CallsFit, Goes, At,
    TypeOK, CallType, Idle
<1>8. ASSUME NEW q \in Requests, Numbers(q)
     PROVE  CallsFit'
  BY <1>8, ActorsDiffer DEF Numbers, CallsFit, Goes, At, TypeOK, CallType, Idle
<1>9. ASSUME NEW q \in Requests, Inserts(q)
     PROVE  CallsFit'
  <2>1. At(q, {"insert", "reinsert"}) /\ (Ends(q) \/ Moves(q, "renumber"))
    BY <1>9 DEF Inserts
  <2>2. CASE Ends(q)
    BY <2>1, <2>2, ActorsDiffer DEF Ends, CallsFit, Goes, At, TypeOK, CallType, Idle
  <2>3. CASE Moves(q, "renumber")
    BY <2>1, <2>3, ActorsDiffer DEF Moves, CallsFit, Goes, At, TypeOK, CallType, Idle
  <2> QED BY <2>1, <2>2, <2>3
<1>10. ASSUME NEW q \in Requests, RequestFails(q)
     PROVE  CallsFit'
  BY <1>10, ActorsDiffer DEF RequestFails, Ends, Released, Fault, CallsFit, Goes, At,
    TypeOK, CallType, Idle
<1>11. ASSUME NEW r \in Relays, Loads(r)
     PROVE  CallsFit'
  BY <1>11, ActorsDiffer DEF Loads, LoadCommits, LoadedDoc, Ends, CallsFit, Goes, At,
    TypeOK, CallType, Idle
<1>12. ASSUME NEW r \in Relays, Refreshes(r)
     PROVE  CallsFit'
  <2>1. At(Get(r), {"refreshing"}) /\ (Ends(Get(r)) \/ LoadsInstead(r))
    BY <1>12 DEF Refreshes
  <2>2. CASE Ends(Get(r))
    BY <2>1, <2>2, ActorsDiffer DEF Ends, CallsFit, Goes, At, TypeOK, CallType, Idle
  <2>3. CASE LoadsInstead(r)
    BY <2>1, <2>3, ActorsDiffer DEF LoadsInstead, CallsFit, Goes, At, TypeOK, CallType,
      Idle
  <2> QED BY <2>1, <2>2, <2>3
<1>13. ASSUME NEW r \in Relays, LoadFails(r)
     PROVE  CallsFit'
  BY <1>13, ActorsDiffer DEF LoadFails, GetFails, Released, Fault, Ends, CallsFit, Goes,
    At, TypeOK, CallType, Idle
<1>14. ASSUME NEW r \in Relays, RefreshFails(r)
     PROVE  CallsFit'
  <2>1. At(Get(r), {"refresh", "refreshing"}) /\ (Ends(Get(r)) \/ LoadsInstead(r))
    BY <1>14 DEF RefreshFails
  <2>2. CASE Ends(Get(r))
    BY <2>1, <2>2, ActorsDiffer DEF Ends, CallsFit, Goes, At, TypeOK, CallType, Idle
  <2>3. CASE LoadsInstead(r)
    BY <2>1, <2>3, ActorsDiffer DEF LoadsInstead, CallsFit, Goes, At, TypeOK, CallType,
      Idle
  <2> QED BY <2>1, <2>2, <2>3
<1>15. ASSUME NEW r \in Relays, SendStore(r)
     PROVE  CallsFit'
  BY <1>15, ActorsDiffer DEF SendStore, CallsFit, Goes, At, TypeOK, CallType, Idle
<1>16. ASSUME NEW r \in Relays, Checks(r)
     PROVE  CallsFit'
  BY <1>16, ActorsDiffer DEF Checks, Moves, CallsFit, Goes, At, TypeOK, CallType, Idle
<1>17. ASSUME NEW r \in Relays, StoreRefused(r)
     PROVE  CallsFit'
  BY <1>17, ActorsDiffer DEF StoreRefused, Abandons, Ends, CallsFit, Goes, At, TypeOK,
    CallType, Idle
<1>18. ASSUME NEW r \in Relays, StoresNothing(r)
     PROVE  CallsFit'
  BY <1>18, ActorsDiffer DEF StoresNothing, Abandons, Ends, CallsFit, Goes, At, TypeOK,
    CallType, Idle
<1>19. ASSUME NEW r \in Relays, StoreForbidden(r)
     PROVE  CallsFit'
  BY <1>19, ActorsDiffer DEF StoreForbidden, Abandons, Ends, CallsFit, Goes, At, TypeOK,
    CallType, Idle
<1>20. ASSUME NEW r \in Relays, Stores(r)
     PROVE  CallsFit'
  BY <1>20, ActorsDiffer DEF Stores, StoreCommits, Ends, Fault, CallsFit, Goes, At,
    TypeOK, CallType, Idle
<1>21. ASSUME NEW r \in Relays, StoreFails(r)
     PROVE  CallsFit'
  BY <1>21, ActorsDiffer DEF StoreFails, Released, Fault, Ends, CallsFit, Goes, At,
    TypeOK, CallType, Idle
<1>22. ASSUME NEW r \in Relays, NEW role \in Roles, Authenticate(r, role)
     PROVE  CallsFit'
  BY <1>22, ActorsDiffer DEF Authenticate, CallsFit, Goes, At, TypeOK, CallType, Idle
<1>23. CASE UNCHANGED <<call>>
  BY <1>23, ActorsDiffer DEF CallsFit, Goes, At, TypeOK, CallType, Idle
<1>24. CASE Trash \/ Restore \/ Purge \/ AgentDelete \/ Damage
  BY <1>24, <1>23 DEF Trash, Sent, Restore, Removed, Purge, AgentDelete, Damage, db,
    history
<1>25. ASSUME NEW r \in Relays, (\E role \in Roles : Disconnect(r, role)) \/
       (\E role \in Roles : Revalidate(r, role)) \/ (\E e \in Edits : LocalEdit(r, e)) \/
       (\E m \in inbox[r] : FanIn(r, m)) \/ (\E m \in inbox[r] : Invalidate(r, m)) \/
       Unload(r)
     PROVE  CallsFit'
  BY <1>25, <1>23 DEF Disconnect, Left, Settled, Revalidate, LocalEdit, FanIn, Taken,
    Invalidate, Unload, db, history
<1> QED BY <1>1, <1>2, <1>3, <1>4, <1>5, <1>6, <1>7, <1>8, <1>9, <1>10, <1>11, <1>12,
    <1>13, <1>14, <1>15, <1>16, <1>17, <1>18, <1>19, <1>20, <1>21, <1>22, <1>23, <1>24,
    <1>25, ActorsDiffer
  DEF Next, RequestStep, RowStep, GetStep, PutStep, ClientStep, MessageStep

\* A transaction that is open stays alone: who does not hold the lock neither
\* writes nor trashes nor deletes.
LEMMA AloneStep ==
  ASSUME TypeOK, CallsFit, OpenTransactionIsAlone, Next
  PROVE  OpenTransactionIsAlone'
<1>1. ASSUME NEW a \in Actors, Locks(a)
     PROVE  OpenTransactionIsAlone'
  <2>1. UNCHANGED <<row, stored>> /\ row = "live" /\ lock = None /\ lock' = a
    BY <1>1 DEF Locks
  <2>2. \A b \in Actors : b # a => call'[b] = call[b] /\ ~At(b, Held)
    BY <1>1, <2>1, ActorsDiffer DEF Locks, Goes, TypeOK, OpenTransactionIsAlone
  <2>3. call'[a].read = stored
    BY <1>1 DEF Locks, Goes, TypeOK, CallType
  <2> QED BY <2>1, <2>2, <2>3 DEF OpenTransactionIsAlone, At
<1>2. ASSUME NEW q \in Requests, NEW e \in Edits, BeginEdit(q, e)
     PROVE  OpenTransactionIsAlone'
  <2>1. call'[q].pc \notin Held /\ \A b \in Actors : b # q => call'[b] = call[b]
    BY <1>2, ActorsDiffer DEF BeginEdit, Goes, Idle, Held, TypeOK, CallType
  <2>2. UNCHANGED <<row, stored, lock>>
    BY <1>2 DEF BeginEdit, db
  <2> QED BY <2>1, <2>2, ActorsDiffer DEF OpenTransactionIsAlone, At
<1>3. ASSUME NEW q \in Requests, BeginPublish(q)
     PROVE  OpenTransactionIsAlone'
  <2>1. call'[q].pc \notin Held /\ \A b \in Actors : b # q => call'[b] = call[b]
    BY <1>3, ActorsDiffer DEF BeginPublish, Goes, Idle, Held, TypeOK, CallType
  <2>2. UNCHANGED <<row, stored, lock>>
    BY <1>3 DEF BeginPublish, db
  <2> QED BY <2>1, <2>2, ActorsDiffer DEF OpenTransactionIsAlone, At
<1>4. ASSUME NEW q \in Requests, RequestLoads(q)
     PROVE  OpenTransactionIsAlone'
  BY <1>4, ActorsDiffer DEF RequestLoads, LoadCommits, LoadedDoc,
    OpenTransactionIsAlone, Held, CallsFit, Goes, At, TypeOK, CallType, Idle
<1>5. ASSUME NEW q \in Requests, RequestNotFound(q)
     PROVE  OpenTransactionIsAlone'
  BY <1>5, ActorsDiffer DEF RequestNotFound, Ends, OpenTransactionIsAlone, Held,
    CallsFit, Goes, At, TypeOK, CallType, Idle
<1>6. ASSUME NEW q \in Requests, RequestStores(q)
     PROVE  OpenTransactionIsAlone'
  BY <1>6, ActorsDiffer DEF RequestStores, StoreCommits, Ends, Sent,
    OpenTransactionIsAlone, Held, CallsFit, Goes, At, TypeOK, CallType, Idle
<1>7. ASSUME NEW q \in Requests, RequestStoresNothing(q)
     PROVE  OpenTransactionIsAlone'
  BY <1>7, ActorsDiffer DEF RequestStoresNothing, Ends, Sent, OpenTransactionIsAlone,
    Held, CallsFit, Goes, At, TypeOK, CallType, Idle
<1>8. ASSUME NEW q \in Requests, Numbers(q)
     PROVE  OpenTransactionIsAlone'
  <2>1. call'[q].pc \notin Held /\ \A b \in Actors : b # q => call'[b] = call[b]
    BY <1>8, ActorsDiffer DEF Numbers, Goes, Idle, Held, TypeOK, CallType
  <2>2. UNCHANGED <<row, stored, lock>>
    BY <1>8 DEF Numbers, db
  <2> QED BY <2>1, <2>2, ActorsDiffer DEF OpenTransactionIsAlone, At
<1>9. ASSUME NEW q \in Requests, Inserts(q)
     PROVE  OpenTransactionIsAlone'
  <2>1. UNCHANGED <<row, stored, lock>> /\ (Ends(q) \/ Moves(q, "renumber"))
    BY <1>9 DEF Inserts
  <2>2. \A b \in Actors : b # q => call'[b] = call[b]
    BY <2>1, ActorsDiffer DEF Ends, Moves, Goes, TypeOK
  <2>3. call'[q].pc \notin Held
    BY <2>1, ActorsDiffer DEF Ends, Moves, Goes, Idle, Held, TypeOK, CallType
  <2> QED BY <2>1, <2>2, <2>3, ActorsDiffer DEF OpenTransactionIsAlone, At
<1>10. ASSUME NEW q \in Requests, RequestFails(q)
     PROVE  OpenTransactionIsAlone'
  BY <1>10, ActorsDiffer DEF RequestFails, Ends, Released, Fault,
    OpenTransactionIsAlone, Held, CallsFit, Goes, At, TypeOK, CallType, Idle
<1>11. CASE Trash
  BY <1>11, ActorsDiffer DEF Trash, Sent, OpenTransactionIsAlone, Held, CallsFit, Goes,
    At, TypeOK, CallType, Idle
<1>12. CASE Restore
  BY <1>12, ActorsDiffer DEF Restore, OpenTransactionIsAlone, Held, CallsFit, Goes, At,
    TypeOK, CallType, Idle
<1>13. CASE Purge \/ AgentDelete
  BY <1>13, ActorsDiffer DEF Removed, Purge, AgentDelete, Sent, OpenTransactionIsAlone,
    Held, CallsFit, Goes, At, TypeOK, CallType, Idle
<1>14. CASE Damage
  BY <1>14, ActorsDiffer DEF Damage, OpenTransactionIsAlone, Held, CallsFit, Goes, At,
    TypeOK, CallType, Idle
<1>15. ASSUME NEW r \in Relays, Loads(r)
     PROVE  OpenTransactionIsAlone'
  BY <1>15, ActorsDiffer DEF Loads, LoadCommits, LoadedDoc, Ends,
    OpenTransactionIsAlone, Held, CallsFit, Goes, At, TypeOK, CallType, Idle
<1>16. ASSUME NEW r \in Relays, Refreshes(r)
     PROVE  OpenTransactionIsAlone'
  <2>1. lock' = None /\ row' = row /\ At(Get(r), {"refreshing"}) /\ (Ends(Get(r)) \/ LoadsInstead(r))
    BY <1>16 DEF Refreshes, LoadCommits
  <2>2. CASE Ends(Get(r))
    BY <2>1, <2>2, ActorsDiffer DEF Ends, OpenTransactionIsAlone, Held, CallsFit, Goes,
      At, TypeOK, CallType, Idle
  <2>3. CASE LoadsInstead(r)
    BY <2>1, <2>3, ActorsDiffer DEF LoadsInstead, OpenTransactionIsAlone, Held,
      CallsFit, Goes, At, TypeOK, CallType, Idle
  <2> QED BY <2>1, <2>2, <2>3
<1>17. ASSUME NEW r \in Relays, LoadFails(r)
     PROVE  OpenTransactionIsAlone'
  BY <1>17, ActorsDiffer DEF LoadFails, GetFails, Released, Fault, Ends,
    OpenTransactionIsAlone, Held, CallsFit, Goes, At, TypeOK, CallType, Idle
<1>18. ASSUME NEW r \in Relays, RefreshFails(r)
     PROVE  OpenTransactionIsAlone'
  <2>1. /\ At(Get(r), {"refresh", "refreshing"}) /\ (Ends(Get(r)) \/ LoadsInstead(r))
        /\ lock' = Released(Get(r)) /\ UNCHANGED <<row, stored>>
    BY <1>18 DEF RefreshFails, GetFails
  <2>2. CASE Ends(Get(r))
    BY <2>1, <2>2, ActorsDiffer DEF Ends, Released, OpenTransactionIsAlone, Held,
      CallsFit, Goes, At, TypeOK, CallType, Idle
  <2>3. CASE LoadsInstead(r)
    BY <2>1, <2>3, ActorsDiffer DEF LoadsInstead, Released, OpenTransactionIsAlone,
      Held, CallsFit, Goes, At, TypeOK, CallType, Idle
  <2> QED BY <2>1, <2>2, <2>3
<1>19. ASSUME NEW r \in Relays, SendStore(r)
     PROVE  OpenTransactionIsAlone'
  <2>1. call'[Put(r)].pc \notin Held /\ \A b \in Actors : b # Put(r) => call'[b] = call[b]
    BY <1>19, ActorsDiffer DEF SendStore, Goes, Idle, Held, TypeOK, CallType
  <2>2. UNCHANGED <<row, stored, lock>>
    BY <1>19 DEF SendStore, db
  <2> QED BY <2>1, <2>2, ActorsDiffer DEF OpenTransactionIsAlone, At
<1>20. ASSUME NEW r \in Relays, Checks(r)
     PROVE  OpenTransactionIsAlone'
  <2>1. call'[Put(r)].pc \notin Held /\ \A b \in Actors : b # Put(r) => call'[b] = call[b]
    BY <1>20, ActorsDiffer DEF Checks, Moves, Goes, Idle, Held, TypeOK, CallType
  <2>2. UNCHANGED <<row, stored, lock>>
    BY <1>20 DEF Checks, db
  <2> QED BY <2>1, <2>2, ActorsDiffer DEF OpenTransactionIsAlone, At
<1>21. ASSUME NEW r \in Relays, StoreRefused(r)
     PROVE  OpenTransactionIsAlone'
  BY <1>21, ActorsDiffer DEF StoreRefused, Abandons, Ends, OpenTransactionIsAlone, Held,
    CallsFit, Goes, At, TypeOK, CallType, Idle
<1>22. ASSUME NEW r \in Relays, StoresNothing(r)
     PROVE  OpenTransactionIsAlone'
  BY <1>22, ActorsDiffer DEF StoresNothing, Abandons, Ends, OpenTransactionIsAlone,
    Held, CallsFit, Goes, At, TypeOK, CallType, Idle
<1>23. ASSUME NEW r \in Relays, StoreForbidden(r)
     PROVE  OpenTransactionIsAlone'
  BY <1>23, ActorsDiffer DEF StoreForbidden, Abandons, Ends, OpenTransactionIsAlone,
    Held, CallsFit, Goes, At, TypeOK, CallType, Idle
<1>24. ASSUME NEW r \in Relays, Stores(r)
     PROVE  OpenTransactionIsAlone'
  BY <1>24, ActorsDiffer DEF Stores, StoreCommits, Ends, Fault, OpenTransactionIsAlone,
    Held, CallsFit, Goes, At, TypeOK, CallType, Idle
<1>25. ASSUME NEW r \in Relays, StoreFails(r)
     PROVE  OpenTransactionIsAlone'
  BY <1>25, ActorsDiffer DEF StoreFails, Released, Fault, Ends, OpenTransactionIsAlone,
    Held, CallsFit, Goes, At, TypeOK, CallType, Idle
<1>26. ASSUME NEW r \in Relays, NEW role \in Roles, Authenticate(r, role)
     PROVE  OpenTransactionIsAlone'
  <2>1. call'[Get(r)].pc \notin Held /\ \A b \in Actors : b # Get(r) => call'[b] = call[b]
    BY <1>26, ActorsDiffer DEF Authenticate, Goes, Idle, Held, TypeOK, CallType
  <2>2. UNCHANGED <<row, stored, lock>>
    BY <1>26 DEF Authenticate, db
  <2> QED BY <2>1, <2>2, ActorsDiffer DEF OpenTransactionIsAlone, At
<1>27. CASE UNCHANGED <<row, stored, lock, call>>
  BY <1>27, ActorsDiffer DEF OpenTransactionIsAlone, Held, CallsFit, Goes, At, TypeOK,
    CallType, Idle
<1>28. ASSUME NEW r \in Relays, (\E role \in Roles : Disconnect(r, role)) \/
       (\E role \in Roles : Revalidate(r, role)) \/ (\E e \in Edits : LocalEdit(r, e)) \/
       (\E m \in inbox[r] : FanIn(r, m)) \/ (\E m \in inbox[r] : Invalidate(r, m)) \/
       Unload(r)
     PROVE  OpenTransactionIsAlone'
  BY <1>28, <1>27 DEF Disconnect, Left, Settled, Revalidate, LocalEdit, FanIn, Taken,
    Invalidate, Unload, db, history
<1> QED BY <1>1, <1>2, <1>3, <1>4, <1>5, <1>6, <1>7, <1>8, <1>9, <1>10, <1>11, <1>12,
    <1>13, <1>14, <1>15, <1>16, <1>17, <1>18, <1>19, <1>20, <1>21, <1>22, <1>23, <1>24,
    <1>25, <1>26, <1>27, <1>28, ActorsDiffer
  DEF Next, RequestStep, RowStep, GetStep, PutStep, ClientStep, MessageStep

------------------------------------------------------------------------------
(* What is stored, and what a reader is served *)

\* The part of TypeOK about them.
StateTyped ==
  row \in {"live", "trashed", "gone"} /\ stored \in {None, Damaged} \cup Docs /\ rows \in Docs

\* How a step may treat what is stored: not at all, or as one of these.
Quiet == UNCHANGED <<row, stored, rows>>
Heals == row = "live" /\ ~Readable(stored) /\ stored' = rows /\ UNCHANGED <<row, rows>>
Writes(d) ==
  /\ row = "live" /\ stored # Damaged /\ Base \in d
  /\ stored' = Merged(stored, d) /\ rows' = stored' /\ row' = row
Turns ==
  /\ row # "gone" /\ row' \in {"live", "trashed"} /\ (row = "live" => row' = "trashed")
  /\ UNCHANGED <<stored, rows>>
Vanishes == row # "gone" /\ row' = "gone" /\ stored' = None /\ rows' = {}
Rots == Readable(stored) /\ stored' = Damaged /\ UNCHANGED <<row, rows>>

StoredStep == Quiet \/ Heals \/ (\E d \in Docs : Writes(d)) \/ Turns \/ Vanishes \/ Rots

\* A load that commits changes nothing, or seeds or heals.
LEMMA LoadIsStep ==
  ASSUME OpenTransactionIsAlone, NEW a \in Actors, At(a, Held), LoadCommits(a)
  PROVE  Quiet \/ Heals
BY DEF OpenTransactionIsAlone, LoadCommits, Quiet, Heals

\* A store that commits writes a document with the title and the settings.
LEMMA StoreIsStep ==
  ASSUME TypeOK, OpenTransactionIsAlone, CallsRooted, NEW a \in Actors,
         At(a, {"storing"}),
         call[a].read # Damaged, StoreCommits(a)
  PROVE  \E d \in Docs : Writes(d)
<1>1. call[a].doc \in Docs BY DEF TypeOK, CallType
<1>2. Writes(call[a].doc)
  BY DEF OpenTransactionIsAlone, CallsRooted, StoreCommits, Writes, At, Held
<1> QED BY <1>1, <1>2

\* Every step treats what is stored in one of these ways.
LEMMA DbSteps ==
  ASSUME TypeOK, OpenTransactionIsAlone, CallsRooted, Next
  PROVE  StoredStep
<1>1. ASSUME NEW q \in Requests, RequestLoads(q)
     PROVE  StoredStep
  <2>1. At(q, Held) /\ LoadCommits(q) BY <1>1 DEF RequestLoads, At, Held
  <2> QED BY <2>1, LoadIsStep, ActorsDiffer DEF StoredStep
<1>2. ASSUME NEW q \in Requests, RequestStores(q)
     PROVE  StoredStep
  BY <1>2, StoreIsStep, ActorsDiffer DEF RequestStores, StoredStep
<1>3. CASE Trash
  BY <1>3 DEF Trash, StoredStep, Turns
<1>4. CASE Restore
  BY <1>4 DEF Restore, StoredStep, Turns
<1>5. CASE Purge \/ AgentDelete
  BY <1>5 DEF Purge, AgentDelete, Removed, StoredStep, Vanishes
<1>6. CASE Damage
  BY <1>6 DEF Damage, StoredStep, Rots
<1>7. ASSUME NEW r \in Relays, Loads(r)
     PROVE  StoredStep
  <2>1. At(Get(r), Held) /\ LoadCommits(Get(r)) BY <1>7 DEF Loads, At, Held
  <2> QED BY <2>1, LoadIsStep, ActorsDiffer DEF StoredStep
<1>8. ASSUME NEW r \in Relays, Refreshes(r)
     PROVE  StoredStep
  <2>1. At(Get(r), Held) /\ LoadCommits(Get(r)) BY <1>8 DEF Refreshes, At, Held
  <2> QED BY <2>1, LoadIsStep, ActorsDiffer DEF StoredStep
<1>9. ASSUME NEW r \in Relays, Stores(r)
     PROVE  StoredStep
  BY <1>9, StoreIsStep, ActorsDiffer DEF Stores, StoredStep
<1>10. CASE UNCHANGED <<row, stored, rows>>
  BY <1>10 DEF StoredStep, Quiet
<1>11. ASSUME NEW q \in Requests, (\E e \in Edits : BeginEdit(q, e)) \/ BeginPublish(q) \/
       RequestNotFound(q) \/ RequestStoresNothing(q) \/ Numbers(q) \/ Inserts(q) \/
       RequestFails(q)
     PROVE  StoredStep
  BY <1>11, <1>10 DEF BeginEdit, BeginPublish, RequestNotFound, Ends,
    RequestStoresNothing, Sent, Numbers, Inserts, Moves, RequestFails, Released, Fault,
    db, history
<1>12. ASSUME NEW r \in Relays, LoadFails(r) \/ RefreshFails(r) \/ SendStore(r) \/
       Checks(r) \/ StoreRefused(r) \/ StoresNothing(r) \/ StoreForbidden(r) \/
       StoreFails(r) \/ (\E role \in Roles : Authenticate(r, role)) \/
       (\E role \in Roles : Disconnect(r, role)) \/
       (\E role \in Roles : Revalidate(r, role)) \/ (\E e \in Edits : LocalEdit(r, e)) \/
       (\E m \in inbox[r] : FanIn(r, m)) \/ (\E m \in inbox[r] : Invalidate(r, m)) \/
       Unload(r)
     PROVE  StoredStep
  BY <1>12, <1>10 DEF LoadFails, GetFails, Released, Fault, Ends, RefreshFails,
    LoadsInstead, SendStore, Checks, Moves, StoreRefused, Abandons, StoresNothing,
    StoreForbidden, StoreFails, Authenticate, Disconnect, Left, Settled, Revalidate,
    LocalEdit, FanIn, Taken, Invalidate, Unload, db, history
<1>13. CASE (\E a \in Actors : Locks(a))
  BY <1>13, <1>10 DEF Locks, db, history
<1> QED BY <1>1, <1>2, <1>3, <1>4, <1>5, <1>6, <1>7, <1>8, <1>9, <1>10, <1>11, <1>12,
    <1>13, ActorsDiffer
  DEF Next, RequestStep, RowStep, GetStep, PutStep, ClientStep, MessageStep

\* Each of them leaves it of its type.
LEMMA StoredTyped ==
  ASSUME TypeOK, StoredStep
  PROVE  StateTyped'
<1>1. StateTyped BY DEF TypeOK, StateTyped
<1>2. CASE Quiet BY <1>1, <1>2 DEF StateTyped, Quiet
<1>3. CASE Heals BY <1>1, <1>3 DEF StateTyped, Heals
<1>4. ASSUME NEW d \in Docs, Writes(d) PROVE StateTyped'
  <2>1. Merged(stored, d) \in Docs BY <1>1, <1>4 DEF StateTyped, Writes, Merged, Docs
  <2> QED BY <1>1, <1>4, <2>1 DEF StateTyped, Writes
<1>5. CASE Turns BY <1>1, <1>5 DEF StateTyped, Turns
<1>6. CASE Vanishes BY <1>6 DEF StateTyped, Vanishes, Docs
<1>7. CASE Rots BY <1>1, <1>7 DEF StateTyped, Rots
<1> QED BY <1>2, <1>3, <1>4, <1>5, <1>6, <1>7 DEF StoredStep

\* The rows follow what is stored, and never lose the title and settings.
LEMMA RowsStep ==
  ASSUME TypeOK, RowsMirrorDocument, RowsRooted, StoredStep
  PROVE  RowsMirrorDocument' /\ RowsRooted'
<1>1. StateTyped BY DEF TypeOK, StateTyped
<1>2. CASE Quiet BY <1>2 DEF Quiet, RowsMirrorDocument, RowsRooted
<1>3. CASE Heals
      BY <1>1, <1>3, MarksDiffer DEF Heals, RowsMirrorDocument, RowsRooted, StateTyped,
      Readable
<1>4. ASSUME NEW d \in Docs, Writes(d) PROVE RowsMirrorDocument' /\ RowsRooted'
  <2>1. Merged(stored, d) \in Docs BY <1>1, <1>4 DEF StateTyped, Writes, Merged, Docs
  <2>2. Base \in Merged(stored, d) BY <1>4 DEF Writes, Merged
  <2> QED BY <1>4, <2>1, <2>2, MarksDiffer DEF Writes, RowsMirrorDocument, RowsRooted,
      Readable
<1>5. CASE Turns BY <1>5 DEF Turns, RowsMirrorDocument, RowsRooted
<1>6. CASE Vanishes BY <1>6, MarksDiffer DEF Vanishes, RowsMirrorDocument, RowsRooted
<1>7. CASE Rots BY <1>7, MarksDiffer DEF Rots, RowsMirrorDocument, RowsRooted, Readable
<1> QED BY <1>2, <1>3, <1>4, <1>5, <1>6, <1>7 DEF StoredStep

\* What a reader is served only grows until the row is gone, and once gone it
\* stays so.
LEMMA ContentGrows ==
  ASSUME TypeOK, RowsMirrorDocument, RowsRooted, StoredStep
  PROVE  /\ row' # "gone" => row # "gone" /\ Content \subseteq Content'
         /\ row = "gone" => row' = "gone"
<1>1. StateTyped BY DEF TypeOK, StateTyped
<1>2. CASE Quiet BY <1>2 DEF Quiet, Content, Healed
<1>3. CASE Heals BY <1>1, <1>3, MarksDiffer DEF Heals, StateTyped, Content, Healed
<1>4. ASSUME NEW d \in Docs, Writes(d)
      PROVE  row' = row /\ row = "live" /\ Content \subseteq Content'
  <2>1. Merged(stored, d) \in Docs BY <1>1, <1>4 DEF StateTyped, Writes, Merged, Docs
  <2>2. Content' = Merged(stored, d)
        BY <1>4, <2>1, MarksDiffer DEF Writes, Content, Healed
  <2>3. CASE stored = None
    BY <1>4, <2>2, <2>3, MarksDiffer DEF Writes, Content, Healed, Readable, Merged,
      RowsRooted
  <2>4. CASE stored # None
    BY <1>4, <2>2, <2>4 DEF Writes, Content, Healed, Readable, Merged
  <2> QED BY <1>4, <2>3, <2>4 DEF Writes
<1>5. CASE Turns BY <1>5 DEF Turns, Content, Healed
<1>6. CASE Vanishes BY <1>6 DEF Vanishes
<1>7. CASE Rots BY <1>7, MarksDiffer DEF Rots, Content, Healed, RowsMirrorDocument
<1> QED BY <1>2, <1>3, <1>4, <1>5, <1>6, <1>7 DEF StoredStep

\* Each of them is a step of the one document, or none.
LEMMA SharedStep ==
  ASSUME TypeOK, RowsMirrorDocument, RowsRooted, RowsRooted', TypeOK', StoredStep
  PROVE  [Shared!Next]_Shared!shared
<1>1. StateTyped /\ StateTyped' BY DEF TypeOK, StateTyped
<1>2. Content \in SUBSET Updates /\ Content' \in SUBSET Updates
  BY <1>1, MarksDiffer DEF StateTyped, Content, Healed, Readable, Docs
<1>3. CASE Quiet BY <1>3 DEF Quiet, Content, Healed, Shared!shared
<1>4. CASE Heals
  <2>1. Content \subseteq Content' /\ row = "live" /\ row' = row
        BY <1>4, ContentGrows DEF Heals
  <2> QED BY <1>2, <2>1 DEF Shared!Next, Shared!Write
<1>5. ASSUME NEW d \in Docs, Writes(d) PROVE Shared!Next
  <2>1. Content \subseteq Content' /\ row = "live" /\ row' = row
        BY <1>5, ContentGrows DEF Writes, StoredStep
  <2> QED BY <1>2, <2>1 DEF Shared!Next, Shared!Write
<1>6. CASE Turns
  <2>1. Content' = Content BY <1>6 DEF Turns, Content, Healed
  <2> QED BY <1>1, <1>6, <2>1 DEF Turns, StateTyped, Shared!Next, Shared!Trash,
      Shared!Restore, Shared!shared
<1>7. CASE Vanishes
  BY <1>7, MarksDiffer DEF Vanishes, Content, Healed, Shared!Next, Shared!End
<1>8. CASE Rots
  <2>1. Content' = Content
        BY <1>8, MarksDiffer DEF Rots, Content, Healed, RowsMirrorDocument
  <2> QED BY <1>8, <2>1 DEF Rots, Shared!shared
<1> QED BY <1>3, <1>4, <1>5, <1>6, <1>7, <1>8 DEF StoredStep

------------------------------------------------------------------------------
(* What relays and requests carry *)

\* What a transaction loads has the title and the settings, and everything a
\* reader is served.
LEMMA LoadedIsContent ==
  ASSUME TypeOK, OpenTransactionIsAlone, RowsMirrorDocument, RowsRooted,
         NEW a \in Actors, At(a, Held)
  PROVE  row = "live" /\ LoadedDoc(a) = Content /\ Base \in Content
<1>1. call[a].read = stored /\ row = "live" BY DEF OpenTransactionIsAlone
<1>2. Base \in rows BY <1>1 DEF RowsRooted
<1>3. Readable(stored) => rows = stored BY DEF RowsMirrorDocument
<1> QED BY <1>1, <1>2, <1>3 DEF LoadedDoc, Content, Healed

\* No step lets a store wait without the title and the settings.
LEMMA CallsRootedStep ==
  ASSUME TypeOK, CallsFit, OpenTransactionIsAlone, RowsMirrorDocument, RowsRooted,
         CopiesRooted, CallsRooted, Next
  PROVE  CallsRooted'
<1>1. ASSUME NEW a \in Actors, Locks(a)
     PROVE  CallsRooted'
  <2>1. /\ call'[a].doc = call[a].doc /\ call'[a].pc = HeldAs[call[a].pc]
        /\ \A b \in Actors : b # a => call'[b] = call[b]
    BY <1>1 DEF Locks, Goes, TypeOK, CallType
  <2>2. call'[a].pc = "storing" => call[a].pc = "store"
    BY <1>1, <2>1 DEF Locks, At, Waiting, HeldAs
  <2>3. call'[a].pc \in Held
    BY <1>1, <2>1 DEF Locks, At, Waiting, HeldAs, Held
  <2> QED BY <2>1, <2>2, <2>3 DEF CallsRooted, At, Held
<1>2. ASSUME NEW q \in Requests, NEW e \in Edits, BeginEdit(q, e)
     PROVE  CallsRooted'
  <2>1. \A b \in Actors : b # q => call'[b] = call[b]
    BY <1>2, ActorsDiffer DEF BeginEdit, Goes, TypeOK
  <2>2. call'[q].pc \in {"load", "refresh"}
    BY <1>2, ActorsDiffer DEF BeginEdit, Goes, TypeOK, Idle
  <2> QED BY <2>1, <2>2 DEF CallsRooted, At
<1>3. ASSUME NEW q \in Requests, BeginPublish(q)
     PROVE  CallsRooted'
  <2>1. \A b \in Actors : b # q => call'[b] = call[b]
    BY <1>3, ActorsDiffer DEF BeginPublish, Goes, TypeOK
  <2>2. call'[q].pc \in {"load", "refresh"}
    BY <1>3, ActorsDiffer DEF BeginPublish, Goes, TypeOK, Idle
  <2> QED BY <2>1, <2>2 DEF CallsRooted, At
<1>4. ASSUME NEW q \in Requests, RequestLoads(q)
     PROVE  CallsRooted'
  <2>1. Base \in LoadedDoc(q)
    BY <1>4, ActorsDiffer, LoadedIsContent DEF RequestLoads, At, Held
  <2>2. Base \in call'[q].doc
    BY <1>4, <2>1, ActorsDiffer DEF RequestLoads, Goes, TypeOK, CallType
  <2>3. \A b \in Actors : b # q => call'[b] = call[b]
    BY <1>4, ActorsDiffer DEF RequestLoads, Goes, TypeOK
  <2> QED BY <2>2, <2>3 DEF CallsRooted, At
<1>5. ASSUME NEW q \in Requests, RequestNotFound(q)
     PROVE  CallsRooted'
  BY <1>5, ActorsDiffer DEF RequestNotFound, Ends, CallsRooted, Goes, At, TypeOK,
    CallType, Idle
<1>6. ASSUME NEW q \in Requests, RequestStores(q)
     PROVE  CallsRooted'
  BY <1>6, ActorsDiffer DEF RequestStores, StoreCommits, Ends, Sent, CallsRooted, Goes,
    At, TypeOK, CallType, Idle
<1>7. ASSUME NEW q \in Requests, RequestStoresNothing(q)
     PROVE  CallsRooted'
  BY <1>7, ActorsDiffer DEF RequestStoresNothing, Ends, Sent, CallsRooted, Goes, At,
    TypeOK, CallType, Idle
<1>8. ASSUME NEW q \in Requests, Numbers(q)
     PROVE  CallsRooted'
  <2>1. \A b \in Actors : b # q => call'[b] = call[b]
    BY <1>8, ActorsDiffer DEF Numbers, Goes, TypeOK
  <2>2. call'[q].pc \in {"insert", "reinsert"}
    BY <1>8, ActorsDiffer DEF Numbers, Goes, TypeOK, CallType
  <2> QED BY <2>1, <2>2 DEF CallsRooted, At
<1>9. ASSUME NEW q \in Requests, Inserts(q)
     PROVE  CallsRooted'
  <2>1. At(q, {"insert", "reinsert"}) /\ (Ends(q) \/ Moves(q, "renumber"))
    BY <1>9 DEF Inserts
  <2>2. CASE Ends(q)
    BY <2>1, <2>2, ActorsDiffer DEF Ends, CallsRooted, Goes, At, TypeOK, CallType, Idle
  <2>3. CASE Moves(q, "renumber")
    BY <2>1, <2>3, ActorsDiffer DEF Moves, CallsRooted, Goes, At, TypeOK, CallType, Idle
  <2> QED BY <2>1, <2>2, <2>3
<1>10. ASSUME NEW q \in Requests, RequestFails(q)
     PROVE  CallsRooted'
  BY <1>10, ActorsDiffer DEF RequestFails, Ends, Released, Fault, CallsRooted, Goes, At,
    TypeOK, CallType, Idle
<1>11. ASSUME NEW r \in Relays, Loads(r)
     PROVE  CallsRooted'
  BY <1>11, ActorsDiffer DEF Loads, LoadCommits, LoadedDoc, Ends, CallsRooted, Goes, At,
    TypeOK, CallType, Idle
<1>12. ASSUME NEW r \in Relays, Refreshes(r)
     PROVE  CallsRooted'
  <2>1. At(Get(r), {"refreshing"}) /\ (Ends(Get(r)) \/ LoadsInstead(r))
    BY <1>12 DEF Refreshes
  <2>2. CASE Ends(Get(r))
    BY <2>1, <2>2, ActorsDiffer DEF Ends, CallsRooted, Goes, At, TypeOK, CallType, Idle
  <2>3. CASE LoadsInstead(r)
    BY <2>1, <2>3, ActorsDiffer DEF LoadsInstead, CallsRooted, Goes, At, TypeOK,
      CallType, Idle
  <2> QED BY <2>1, <2>2, <2>3
<1>13. ASSUME NEW r \in Relays, LoadFails(r)
     PROVE  CallsRooted'
  BY <1>13, ActorsDiffer DEF LoadFails, GetFails, Released, Fault, Ends, CallsRooted,
    Goes, At, TypeOK, CallType, Idle
<1>14. ASSUME NEW r \in Relays, RefreshFails(r)
     PROVE  CallsRooted'
  <2>1. At(Get(r), {"refresh", "refreshing"}) /\ (Ends(Get(r)) \/ LoadsInstead(r))
    BY <1>14 DEF RefreshFails
  <2>2. CASE Ends(Get(r))
    BY <2>1, <2>2, ActorsDiffer DEF Ends, CallsRooted, Goes, At, TypeOK, CallType, Idle
  <2>3. CASE LoadsInstead(r)
    BY <2>1, <2>3, ActorsDiffer DEF LoadsInstead, CallsRooted, Goes, At, TypeOK,
      CallType, Idle
  <2> QED BY <2>1, <2>2, <2>3
<1>15. ASSUME NEW r \in Relays, SendStore(r)
     PROVE  CallsRooted'
  <2>1. Base \in relay[r].copy
    BY <1>15 DEF SendStore, CopiesRooted, RelayRooted, TypeOK
  <2>2. Base \in call'[Put(r)].doc
    BY <1>15, <2>1, ActorsDiffer DEF SendStore, Goes, TypeOK, Idle
  <2>3. \A b \in Actors : b # Put(r) => call'[b] = call[b]
    BY <1>15, ActorsDiffer DEF SendStore, Goes, TypeOK
  <2> QED BY <2>2, <2>3 DEF CallsRooted, At
<1>16. ASSUME NEW r \in Relays, Checks(r)
     PROVE  CallsRooted'
  BY <1>16, ActorsDiffer DEF Checks, Moves, CallsRooted, Goes, At, TypeOK, CallType, Idle
<1>17. ASSUME NEW r \in Relays, StoreRefused(r)
     PROVE  CallsRooted'
  BY <1>17, ActorsDiffer DEF StoreRefused, Abandons, Ends, CallsRooted, Goes, At,
    TypeOK, CallType, Idle
<1>18. ASSUME NEW r \in Relays, StoresNothing(r)
     PROVE  CallsRooted'
  BY <1>18, ActorsDiffer DEF StoresNothing, Abandons, Ends, CallsRooted, Goes, At,
    TypeOK, CallType, Idle
<1>19. ASSUME NEW r \in Relays, StoreForbidden(r)
     PROVE  CallsRooted'
  BY <1>19, ActorsDiffer DEF StoreForbidden, Abandons, Ends, CallsRooted, Goes, At,
    TypeOK, CallType, Idle
<1>20. ASSUME NEW r \in Relays, Stores(r)
     PROVE  CallsRooted'
  BY <1>20, ActorsDiffer DEF Stores, StoreCommits, Ends, Fault, CallsRooted, Goes, At,
    TypeOK, CallType, Idle
<1>21. ASSUME NEW r \in Relays, StoreFails(r)
     PROVE  CallsRooted'
  BY <1>21, ActorsDiffer DEF StoreFails, Released, Fault, Ends, CallsRooted, Goes, At,
    TypeOK, CallType, Idle
<1>22. ASSUME NEW r \in Relays, NEW role \in Roles, Authenticate(r, role)
     PROVE  CallsRooted'
  <2>1. \A b \in Actors : b # Get(r) => call'[b] = call[b]
    BY <1>22, ActorsDiffer DEF Authenticate, Goes, TypeOK
  <2>2. call'[Get(r)].pc \in {"load", "refresh"}
    BY <1>22, ActorsDiffer DEF Authenticate, Goes, TypeOK, Idle
  <2> QED BY <2>1, <2>2 DEF CallsRooted, At
<1>23. CASE UNCHANGED <<call>>
  BY <1>23, ActorsDiffer DEF CallsRooted, Goes, At, TypeOK, CallType, Idle
<1>24. CASE Trash \/ Restore \/ Purge \/ AgentDelete \/ Damage
  BY <1>24, <1>23 DEF Trash, Sent, Restore, Removed, Purge, AgentDelete, Damage, db,
    history
<1>25. ASSUME NEW r \in Relays, (\E role \in Roles : Disconnect(r, role)) \/
       (\E role \in Roles : Revalidate(r, role)) \/ (\E e \in Edits : LocalEdit(r, e)) \/
       (\E m \in inbox[r] : FanIn(r, m)) \/ (\E m \in inbox[r] : Invalidate(r, m)) \/
       Unload(r)
     PROVE  CallsRooted'
  BY <1>25, <1>23 DEF Disconnect, Left, Settled, Revalidate, LocalEdit, FanIn, Taken,
    Invalidate, Unload, db, history
<1> QED BY <1>1, <1>2, <1>3, <1>4, <1>5, <1>6, <1>7, <1>8, <1>9, <1>10, <1>11, <1>12,
    <1>13, <1>14, <1>15, <1>16, <1>17, <1>18, <1>19, <1>20, <1>21, <1>22, <1>23, <1>24,
    <1>25, ActorsDiffer
  DEF Next, RequestStep, RowStep, GetStep, PutStep, ClientStep, MessageStep

\* A step concerns no relay but r.
OnlyAt(r) ==
  /\ \A s \in Relays : s # r => relay'[s] = relay[s]
  /\ \A s \in Relays : s # r => call'[Get(s)] = call[Get(s)] /\ call'[Put(s)] = call[Put(s)]

\* Then the other relays stay rooted.
LEMMA OthersRooted ==
  ASSUME TypeOK, CopiesRooted, NEW r \in Relays, OnlyAt(r), RelayRooted(r)'
  PROVE  CopiesRooted'
BY DEF CopiesRooted, OnlyAt, RelayRooted, At

\* No step leaves a client, or a store, without a copy, or a copy blank.
LEMMA CopiesStep ==
  ASSUME TypeOK, CallsFit, OpenTransactionIsAlone, RowsMirrorDocument, RowsRooted,
         CopiesRooted, Next
  PROVE  CopiesRooted'
<1>1. ASSUME NEW a \in Actors, Locks(a)
     PROVE  CopiesRooted'
  <2>1. /\ relay' = relay /\ call'[a].pc = HeldAs[call[a].pc]
        /\ \A b \in Actors : b # a => call'[b] = call[b]
    BY <1>1 DEF Locks, Goes, TypeOK, CallType
  <2>2. /\ call[a].pc # "idle"
        /\ call'[a].pc \in {"load", "loading"} => call[a].pc = "load"
    BY <1>1, <2>1 DEF Locks, At, Waiting, HeldAs
  <2> QED BY <2>1, <2>2, ActorsDiffer DEF CopiesRooted, RelayRooted, At
<1>2. ASSUME NEW q \in Requests, NEW e \in Edits, BeginEdit(q, e)
     PROVE  CopiesRooted'
  <2>1. \A s \in Relays : call'[Get(s)] = call[Get(s)] /\ call'[Put(s)] = call[Put(s)]
    BY <1>2, ActorsDiffer DEF BeginEdit, Goes, TypeOK
  <2>2. relay' = relay BY <1>2 DEF BeginEdit, db
  <2> QED BY <2>1, <2>2 DEF CopiesRooted, RelayRooted, At
<1>3. ASSUME NEW q \in Requests, BeginPublish(q)
     PROVE  CopiesRooted'
  <2>1. \A s \in Relays : call'[Get(s)] = call[Get(s)] /\ call'[Put(s)] = call[Put(s)]
    BY <1>3, ActorsDiffer DEF BeginPublish, Goes, TypeOK
  <2>2. relay' = relay BY <1>3 DEF BeginPublish, db
  <2> QED BY <2>1, <2>2 DEF CopiesRooted, RelayRooted, At
<1>4. ASSUME NEW q \in Requests, RequestLoads(q)
     PROVE  CopiesRooted'
  <2>1. \A s \in Relays : call'[Get(s)] = call[Get(s)] /\ call'[Put(s)] = call[Put(s)]
    BY <1>4, ActorsDiffer DEF RequestLoads, Goes, TypeOK
  <2>2. relay' = relay BY <1>4 DEF RequestLoads, db
  <2> QED BY <2>1, <2>2 DEF CopiesRooted, RelayRooted, At
<1>5. ASSUME NEW q \in Requests, RequestNotFound(q)
     PROVE  CopiesRooted'
  <2>1. \A s \in Relays : call'[Get(s)] = call[Get(s)] /\ call'[Put(s)] = call[Put(s)]
    BY <1>5, ActorsDiffer DEF RequestNotFound, Ends, Goes, TypeOK
  <2>2. relay' = relay BY <1>5 DEF RequestNotFound, db
  <2> QED BY <2>1, <2>2 DEF CopiesRooted, RelayRooted, At
<1>6. ASSUME NEW q \in Requests, RequestStores(q)
     PROVE  CopiesRooted'
  <2>1. \A s \in Relays : call'[Get(s)] = call[Get(s)] /\ call'[Put(s)] = call[Put(s)]
    BY <1>6, ActorsDiffer DEF RequestStores, Ends, Goes, TypeOK
  <2>2. relay' = relay BY <1>6 DEF RequestStores, db
  <2> QED BY <2>1, <2>2 DEF CopiesRooted, RelayRooted, At
<1>7. ASSUME NEW q \in Requests, RequestStoresNothing(q)
     PROVE  CopiesRooted'
  <2>1. \A s \in Relays : call'[Get(s)] = call[Get(s)] /\ call'[Put(s)] = call[Put(s)]
    BY <1>7, ActorsDiffer DEF RequestStoresNothing, Ends, Goes, TypeOK
  <2>2. relay' = relay BY <1>7 DEF RequestStoresNothing, db
  <2> QED BY <2>1, <2>2 DEF CopiesRooted, RelayRooted, At
<1>8. ASSUME NEW q \in Requests, Numbers(q)
     PROVE  CopiesRooted'
  <2>1. \A s \in Relays : call'[Get(s)] = call[Get(s)] /\ call'[Put(s)] = call[Put(s)]
    BY <1>8, ActorsDiffer DEF Numbers, Goes, TypeOK
  <2>2. relay' = relay BY <1>8 DEF Numbers, db
  <2> QED BY <2>1, <2>2 DEF CopiesRooted, RelayRooted, At
<1>9. ASSUME NEW q \in Requests, Inserts(q)
     PROVE  CopiesRooted'
  <2>1. relay' = relay /\ (Ends(q) \/ Moves(q, "renumber")) BY <1>9 DEF Inserts
  <2>2. \A s \in Relays : call'[Get(s)] = call[Get(s)] /\ call'[Put(s)] = call[Put(s)]
    BY <2>1, ActorsDiffer DEF Ends, Moves, Goes, TypeOK
  <2> QED BY <2>1, <2>2 DEF CopiesRooted, RelayRooted, At
<1>10. ASSUME NEW q \in Requests, RequestFails(q)
     PROVE  CopiesRooted'
  <2>1. \A s \in Relays : call'[Get(s)] = call[Get(s)] /\ call'[Put(s)] = call[Put(s)]
    BY <1>10, ActorsDiffer DEF RequestFails, Ends, Goes, TypeOK
  <2>2. relay' = relay BY <1>10 DEF RequestFails, db
  <2> QED BY <2>1, <2>2 DEF CopiesRooted, RelayRooted, At
<1>11. ASSUME NEW r \in Relays, Loads(r)
     PROVE  CopiesRooted'
  <2>0. LoadedDoc(Get(r)) \in Docs /\ Base \in LoadedDoc(Get(r))
    BY <1>11, ActorsDiffer, LoadedIsContent, ContentTyped DEF Loads, At, Held
  <2>1. OnlyAt(r)
    BY <1>11, ActorsDiffer DEF Loads, Ends, Goes, Becomes, OnlyAt, TypeOK, db
  <2>2. relay'[r].copy = LoadedDoc(Get(r))
    BY <1>11, <2>0, ActorsDiffer DEF Loads, Ends, Becomes, TypeOK, RelayType, NoCopy, db
  <2>3. call'[Get(r)].pc = "idle" /\ call'[Put(r)] = call[Put(r)]
    BY <1>11, ActorsDiffer DEF Loads, Ends, Goes, TypeOK, CallType, Idle, db
  <2>4. RelayRooted(r)'
    BY <1>11, <2>2, <2>3, <2>0, MarksDiffer DEF Loads, Ends, RelayRooted, CopiesRooted, At
  <2> QED BY <2>1, <2>4, OthersRooted DEF OnlyAt
<1>12. ASSUME NEW r \in Relays, Refreshes(r)
     PROVE  CopiesRooted'
  <2>0. LoadedDoc(Get(r)) \in Docs /\ Base \in LoadedDoc(Get(r))
    BY <1>12, ActorsDiffer, LoadedIsContent, ContentTyped DEF Refreshes, At, Held
  <2>1. CASE relay[r].copy = None
    <3>1. relay' = relay /\ LoadsInstead(r) BY <1>12, <2>1 DEF Refreshes, LoadsInstead
    <3>2. OnlyAt(r) BY <3>1, ActorsDiffer DEF LoadsInstead, Goes, OnlyAt, TypeOK
    <3>3. call'[Put(r)] = call[Put(r)]
          BY <3>1, ActorsDiffer DEF LoadsInstead, Goes, TypeOK
    <3>4. RelayRooted(r)' BY <2>1, <3>1, <3>3 DEF RelayRooted, CopiesRooted, At
    <3> QED BY <3>2, <3>4, OthersRooted DEF OnlyAt
  <2>2. CASE relay[r].copy # None
    <3>1. Ends(Get(r)) /\ Becomes(r, [relay[r] EXCEPT !.copy = relay[r].copy \cup LoadedDoc(Get(r)),
                             !.conns = relay[r].conns \cup {call[Get(r)].job}])
      BY <1>12, <2>2 DEF Refreshes
    <3>2. OnlyAt(r) BY <3>1, ActorsDiffer DEF Ends, Goes, Becomes, OnlyAt, TypeOK
    <3>3. call'[Put(r)] = call[Put(r)] /\ call'[Get(r)].pc = "idle"
      BY <3>1, ActorsDiffer DEF Ends, Goes, TypeOK, Idle
    <3>4. relay'[r].copy # None /\ Base \in relay'[r].copy
      BY <2>2, <3>1, <2>0, MarksDiffer DEF Becomes, TypeOK, RelayType, CopiesRooted,
        RelayRooted, Docs
    <3>5. RelayRooted(r)' BY <3>3, <3>4 DEF RelayRooted, At
    <3> QED BY <3>2, <3>5, OthersRooted DEF OnlyAt
  <2> QED BY <2>1, <2>2
<1>13. ASSUME NEW r \in Relays, LoadFails(r)
     PROVE  CopiesRooted'
  <2>1. OnlyAt(r)
    BY <1>13, ActorsDiffer DEF LoadFails, Ends, Goes, Becomes, OnlyAt, TypeOK, db
  <2>2. relay'[r] = relay[r]
    BY <1>13, ActorsDiffer DEF LoadFails, Ends, Becomes, TypeOK, RelayType, NoCopy, db
  <2>3. call'[Get(r)].pc = "idle" /\ call'[Put(r)] = call[Put(r)]
    BY <1>13, ActorsDiffer DEF LoadFails, Ends, Goes, TypeOK, CallType, Idle, db
  <2>4. RelayRooted(r)'
    BY <1>13, <2>2, <2>3, MarksDiffer DEF LoadFails, Ends, RelayRooted, CopiesRooted, At
  <2> QED BY <2>1, <2>4, OthersRooted DEF OnlyAt
<1>14. ASSUME NEW r \in Relays, RefreshFails(r)
     PROVE  CopiesRooted'
  <2>1. CASE relay[r].copy = None
    <3>1. relay' = relay /\ LoadsInstead(r) BY <1>14, <2>1 DEF RefreshFails, LoadsInstead
    <3>2. OnlyAt(r) BY <3>1, ActorsDiffer DEF LoadsInstead, Goes, OnlyAt, TypeOK
    <3>3. call'[Put(r)] = call[Put(r)]
          BY <3>1, ActorsDiffer DEF LoadsInstead, Goes, TypeOK
    <3>4. RelayRooted(r)' BY <2>1, <3>1, <3>3 DEF RelayRooted, CopiesRooted, At
    <3> QED BY <3>2, <3>4, OthersRooted DEF OnlyAt
  <2>2. CASE relay[r].copy # None
    <3>1. Ends(Get(r)) /\ Becomes(r, [relay[r] EXCEPT !.conns = relay[r].conns \cup {call[Get(r)].job}])
      BY <1>14, <2>2 DEF RefreshFails
    <3>2. OnlyAt(r) BY <3>1, ActorsDiffer DEF Ends, Goes, Becomes, OnlyAt, TypeOK
    <3>3. call'[Put(r)] = call[Put(r)] /\ call'[Get(r)].pc = "idle"
      BY <3>1, ActorsDiffer DEF Ends, Goes, TypeOK, Idle
    <3>4. relay'[r].copy # None /\ Base \in relay'[r].copy
      BY <2>2, <3>1, MarksDiffer DEF Becomes, TypeOK, RelayType, CopiesRooted,
        RelayRooted, Docs
    <3>5. RelayRooted(r)' BY <3>3, <3>4 DEF RelayRooted, At
    <3> QED BY <3>2, <3>5, OthersRooted DEF OnlyAt
  <2> QED BY <2>1, <2>2
<1>15. ASSUME NEW r \in Relays, SendStore(r)
     PROVE  CopiesRooted'
  <2>1. OnlyAt(r)
    BY <1>15, ActorsDiffer DEF SendStore, Goes, Becomes, OnlyAt, TypeOK, db
  <2>2. relay'[r].copy = relay[r].copy /\ relay'[r].conns = relay[r].conns /\ relay[r].copy # None
    BY <1>15, ActorsDiffer DEF SendStore, Becomes, TypeOK, RelayType, NoCopy, db
  <2>3. call'[Get(r)] = call[Get(r)]
    BY <1>15, ActorsDiffer DEF SendStore, Goes, TypeOK, CallType, Idle, db
  <2>4. RelayRooted(r)'
    BY <1>15, <2>2, <2>3, MarksDiffer DEF SendStore, RelayRooted, CopiesRooted, At
  <2> QED BY <2>1, <2>4, OthersRooted DEF OnlyAt
<1>16. ASSUME NEW r \in Relays, Checks(r)
     PROVE  CopiesRooted'
  <2>1. OnlyAt(r)
    BY <1>16, ActorsDiffer DEF Checks, Moves, Goes, Becomes, OnlyAt, TypeOK, db
  <2>2. relay'[r] = relay[r]
    BY <1>16, ActorsDiffer DEF Checks, Moves, Becomes, TypeOK, RelayType, NoCopy, db
  <2>3. call'[Get(r)] = call[Get(r)]
    BY <1>16, ActorsDiffer DEF Checks, Moves, Goes, TypeOK, CallType, Idle, db
  <2>4. RelayRooted(r)'
    BY <1>16, <2>2, <2>3, MarksDiffer DEF Checks, Moves, RelayRooted, CopiesRooted, At
  <2> QED BY <2>1, <2>4, OthersRooted DEF OnlyAt
<1>17. ASSUME NEW r \in Relays, StoreRefused(r)
     PROVE  CopiesRooted'
  <2>1. OnlyAt(r)
    BY <1>17, ActorsDiffer DEF StoreRefused, Abandons, Ends, Goes, Becomes, OnlyAt,
      TypeOK, db
  <2>2. relay'[r].copy = relay[r].copy /\ relay'[r].conns = relay[r].conns
    BY <1>17, ActorsDiffer DEF StoreRefused, Abandons, Ends, Becomes, TypeOK, RelayType,
      NoCopy, db
  <2>3. call'[Put(r)].pc = "idle" /\ call'[Get(r)] = call[Get(r)]
    BY <1>17, ActorsDiffer DEF StoreRefused, Abandons, Ends, Goes, TypeOK, CallType,
      Idle, db
  <2>4. RelayRooted(r)'
    BY <1>17, <2>2, <2>3, MarksDiffer DEF StoreRefused, Abandons, Ends, RelayRooted,
      CopiesRooted, At
  <2> QED BY <2>1, <2>4, OthersRooted DEF OnlyAt
<1>18. ASSUME NEW r \in Relays, StoresNothing(r)
     PROVE  CopiesRooted'
  <2>1. OnlyAt(r)
    BY <1>18, ActorsDiffer DEF StoresNothing, Abandons, Ends, Goes, Becomes, OnlyAt,
      TypeOK, db
  <2>2. relay'[r].copy = relay[r].copy /\ relay'[r].conns = relay[r].conns
    BY <1>18, ActorsDiffer DEF StoresNothing, Abandons, Ends, Becomes, TypeOK,
      RelayType, NoCopy, db
  <2>3. call'[Put(r)].pc = "idle" /\ call'[Get(r)] = call[Get(r)]
    BY <1>18, ActorsDiffer DEF StoresNothing, Abandons, Ends, Goes, TypeOK, CallType,
      Idle, db
  <2>4. RelayRooted(r)'
    BY <1>18, <2>2, <2>3, MarksDiffer DEF StoresNothing, Abandons, Ends, RelayRooted,
      CopiesRooted, At
  <2> QED BY <2>1, <2>4, OthersRooted DEF OnlyAt
<1>19. ASSUME NEW r \in Relays, StoreForbidden(r)
     PROVE  CopiesRooted'
  <2>1. OnlyAt(r)
    BY <1>19, ActorsDiffer DEF StoreForbidden, Abandons, Ends, Goes, Becomes, OnlyAt,
      TypeOK, db
  <2>2. relay'[r].copy = relay[r].copy /\ relay'[r].conns = relay[r].conns
    BY <1>19, ActorsDiffer DEF StoreForbidden, Abandons, Ends, Becomes, TypeOK,
      RelayType, NoCopy, db
  <2>3. call'[Put(r)].pc = "idle" /\ call'[Get(r)] = call[Get(r)]
    BY <1>19, ActorsDiffer DEF StoreForbidden, Abandons, Ends, Goes, TypeOK, CallType,
      Idle, db
  <2>4. RelayRooted(r)'
    BY <1>19, <2>2, <2>3, MarksDiffer DEF StoreForbidden, Abandons, Ends, RelayRooted,
      CopiesRooted, At
  <2> QED BY <2>1, <2>4, OthersRooted DEF OnlyAt
<1>20. ASSUME NEW r \in Relays, Stores(r)
     PROVE  CopiesRooted'
  <2>1. OnlyAt(r)
    BY <1>20, ActorsDiffer DEF Stores, Ends, Goes, Becomes, OnlyAt, TypeOK, db
  <2>2. relay'[r].copy = relay[r].copy /\ relay'[r].conns = relay[r].conns
    BY <1>20, ActorsDiffer DEF Stores, Ends, Becomes, TypeOK, RelayType, NoCopy, db
  <2>3. call'[Put(r)].pc = "idle" /\ call'[Get(r)] = call[Get(r)]
    BY <1>20, ActorsDiffer DEF Stores, Ends, Goes, TypeOK, CallType, Idle, db
  <2>4. RelayRooted(r)'
    BY <1>20, <2>2, <2>3, MarksDiffer DEF Stores, Ends, RelayRooted, CopiesRooted, At
  <2> QED BY <2>1, <2>4, OthersRooted DEF OnlyAt
<1>21. ASSUME NEW r \in Relays, StoreFails(r)
     PROVE  CopiesRooted'
  <2>1. OnlyAt(r)
    BY <1>21, ActorsDiffer DEF StoreFails, Ends, Goes, Becomes, OnlyAt, TypeOK, db
  <2>2. relay'[r].copy = relay[r].copy /\ relay'[r].conns = relay[r].conns
    BY <1>21, ActorsDiffer DEF StoreFails, Ends, Becomes, TypeOK, RelayType, NoCopy, db
  <2>3. call'[Put(r)].pc = "idle" /\ call'[Get(r)] = call[Get(r)]
    BY <1>21, ActorsDiffer DEF StoreFails, Ends, Goes, TypeOK, CallType, Idle, db
  <2>4. RelayRooted(r)'
    BY <1>21, <2>2, <2>3, MarksDiffer DEF StoreFails, Ends, RelayRooted, CopiesRooted, At
  <2> QED BY <2>1, <2>4, OthersRooted DEF OnlyAt
<1>22. ASSUME NEW r \in Relays, NEW role \in Roles, Authenticate(r, role)
     PROVE  CopiesRooted'
  <2>1. OnlyAt(r)
    BY <1>22, ActorsDiffer DEF Authenticate, Goes, Becomes, OnlyAt, TypeOK, db
  <2>2. relay'[r].copy = relay[r].copy /\ relay'[r].conns = relay[r].conns
    BY <1>22, ActorsDiffer DEF Authenticate, Becomes, TypeOK, RelayType, NoCopy, db
  <2>3. call'[Put(r)] = call[Put(r)] /\ call'[Get(r)].pc = IF relay[r].copy = None THEN "load" ELSE "refresh"
    BY <1>22, ActorsDiffer DEF Authenticate, Goes, TypeOK, CallType, Idle, db
  <2>4. RelayRooted(r)'
    BY <1>22, <2>2, <2>3, MarksDiffer DEF Authenticate, RelayRooted, CopiesRooted, At
  <2> QED BY <2>1, <2>4, OthersRooted DEF OnlyAt
<1>23. ASSUME NEW r \in Relays, NEW role \in Roles, Disconnect(r, role)
     PROVE  CopiesRooted'
  <2>1. OnlyAt(r)
    BY <1>23, ActorsDiffer DEF Disconnect, Left, Goes, Becomes, OnlyAt, TypeOK, db
  <2>2. relay'[r].copy = relay[r].copy /\ relay'[r].conns \subseteq relay[r].conns
    BY <1>23, ActorsDiffer DEF Disconnect, Left, Becomes, TypeOK, RelayType, NoCopy, db
  <2>3. UNCHANGED <<call[Get(r)], call[Put(r)]>>
    BY <1>23, ActorsDiffer DEF Disconnect, Left, Goes, TypeOK, CallType, Idle, db
  <2>4. RelayRooted(r)'
    BY <1>23, <2>2, <2>3, MarksDiffer DEF Disconnect, Left, RelayRooted, CopiesRooted, At
  <2> QED BY <2>1, <2>4, OthersRooted DEF OnlyAt
<1>24. ASSUME NEW r \in Relays, NEW role \in Roles, Revalidate(r, role)
     PROVE  CopiesRooted'
  <2>1. OnlyAt(r)
    BY <1>24, ActorsDiffer DEF Revalidate, Left, Goes, Becomes, OnlyAt, TypeOK, db
  <2>2. relay'[r].copy = relay[r].copy /\ relay'[r].conns \subseteq relay[r].conns
    BY <1>24, ActorsDiffer DEF Revalidate, Left, Becomes, TypeOK, RelayType, NoCopy, db
  <2>3. UNCHANGED <<call[Get(r)], call[Put(r)]>>
    BY <1>24, ActorsDiffer DEF Revalidate, Left, Goes, TypeOK, CallType, Idle, db
  <2>4. RelayRooted(r)'
    BY <1>24, <2>2, <2>3, MarksDiffer DEF Revalidate, Left, RelayRooted, CopiesRooted, At
  <2> QED BY <2>1, <2>4, OthersRooted DEF OnlyAt
<1>25. ASSUME NEW r \in Relays, NEW e \in Edits, LocalEdit(r, e)
     PROVE  CopiesRooted'
  <2>1. OnlyAt(r) BY <1>25, ActorsDiffer DEF LocalEdit, Becomes, OnlyAt, TypeOK
  <2>2. relay[r].copy \in Docs /\ Base \in relay[r].copy
    BY <1>25 DEF LocalEdit, CopiesRooted, RelayRooted, TypeOK, RelayType
  <2>3. relay'[r].copy = relay[r].copy \cup {e}
    BY <1>25 DEF LocalEdit, Becomes, TypeOK, RelayType
  <2>4. relay'[r].copy \in Docs BY <2>2, <2>3 DEF Docs, Updates
  <2>5. call' = call /\ relay[r].conns # {} BY <1>25 DEF LocalEdit
  <2>6. ~At(Get(r), {"load", "loading"}) BY <2>5 DEF CopiesRooted, RelayRooted
  <2>7. RelayRooted(r)'
        BY <2>2, <2>3, <2>4, <2>5, <2>6, MarksDiffer DEF RelayRooted, At, Readable
  <2> QED BY <2>1, <2>7, OthersRooted DEF OnlyAt
<1>26. ASSUME NEW r \in Relays, NEW m \in inbox[r], FanIn(r, m)
     PROVE  CopiesRooted'
  <2>1. OnlyAt(r) BY <1>26, ActorsDiffer DEF FanIn, Becomes, OnlyAt, TypeOK
  <2>2. CASE relay[r].copy = None \/ relay[r].token = None
    BY <1>26, <2>2 DEF FanIn, CopiesRooted, RelayRooted, At
  <2>3. CASE relay[r].copy # None /\ relay[r].token # None
    <3>1. relay[r].copy \in Docs /\ Base \in relay[r].copy /\ m.doc \in Docs
      BY <1>26, <2>3 DEF FanIn, CopiesRooted, RelayRooted, TypeOK, RelayType, MessageType
    <3>2. relay' = [relay EXCEPT ![r] = [relay[r] EXCEPT !.copy = relay[r].copy \cup m.doc, !.pend = relay[r].token]]
      BY <1>26, <2>3 DEF FanIn, Becomes
    <3>3. relay'[r].copy = relay[r].copy \cup m.doc
      BY <3>2 DEF TypeOK, RelayType
    <3>4. relay'[r].copy \in Docs BY <3>1, <3>3 DEF Docs
    <3>5. call' = call BY <1>26 DEF FanIn
    <3>6. ~At(Get(r), {"load", "loading"}) BY <2>3 DEF CopiesRooted, RelayRooted
    <3>7. RelayRooted(r)' BY <3>1, <3>3, <3>4, <3>5, <3>6, MarksDiffer DEF RelayRooted, At
    <3> QED BY <2>1, <3>7, OthersRooted DEF OnlyAt
  <2> QED BY <2>2, <2>3
<1>27. ASSUME NEW r \in Relays, NEW m \in inbox[r], Invalidate(r, m)
     PROVE  CopiesRooted'
  <2>1. OnlyAt(r) BY <1>27, ActorsDiffer DEF Invalidate, Becomes, OnlyAt, TypeOK
  <2>2. call' = call BY <1>27 DEF Invalidate
  <2>3. \/ relay'[r] = NoCopy /\ At(Put(r), {"idle"})
        \/ relay'[r].copy = relay[r].copy /\ relay'[r].conns = {}
    BY <1>27 DEF Invalidate, Becomes, TypeOK, RelayType, Settled
  <2>4. RelayRooted(r)' BY <2>2, <2>3 DEF RelayRooted, CopiesRooted, NoCopy, At
  <2> QED BY <2>1, <2>4, OthersRooted DEF OnlyAt
<1>28. ASSUME NEW r \in Relays, Unload(r)
     PROVE  CopiesRooted'
  <2>1. OnlyAt(r) BY <1>28, ActorsDiffer DEF Unload, Becomes, OnlyAt, TypeOK
  <2>2. call' = call /\ relay'[r] = NoCopy /\ At(Put(r), {"idle"})
    BY <1>28 DEF Unload, Becomes, TypeOK, Settled
  <2>3. RelayRooted(r)' BY <2>2 DEF RelayRooted, NoCopy, At
  <2> QED BY <2>1, <2>3, OthersRooted DEF OnlyAt
<1>29. CASE UNCHANGED <<call, relay>>
  BY <1>29 DEF CopiesRooted, RelayRooted, At
<1>30. CASE Trash \/ Restore \/ Purge \/ AgentDelete \/ Damage
  BY <1>30, <1>29 DEF Trash, Sent, Restore, Removed, Purge, AgentDelete, Damage, db,
    history
<1> QED BY <1>1, <1>2, <1>3, <1>4, <1>5, <1>6, <1>7, <1>8, <1>9, <1>10, <1>11, <1>12,
    <1>13, <1>14, <1>15, <1>16, <1>17, <1>18, <1>19, <1>20, <1>21, <1>22, <1>23, <1>24,
    <1>25, <1>26, <1>27, <1>28, <1>29, <1>30, ActorsDiffer
  DEF Next, RequestStep, RowStep, GetStep, PutStep, ClientStep, MessageStep

\* No step forgets an edit that was refused.
LEMMA WaivedGrows ==
  ASSUME TypeOK, Next
  PROVE  waived \subseteq waived'
<1>1. ASSUME NEW r \in Relays, StoreRefused(r)
     PROVE  waived \subseteq waived'
  BY <1>1 DEF StoreRefused, Abandons
<1>2. ASSUME NEW r \in Relays, StoresNothing(r)
     PROVE  waived \subseteq waived'
  BY <1>2 DEF StoresNothing, Abandons
<1>3. ASSUME NEW r \in Relays, StoreForbidden(r)
     PROVE  waived \subseteq waived'
  BY <1>3 DEF StoreForbidden, Abandons
<1>4. ASSUME NEW r \in Relays, NEW m \in inbox[r], Invalidate(r, m)
     PROVE  waived \subseteq waived'
  BY <1>4 DEF Invalidate, Taken, Settled, history
<1>5. CASE UNCHANGED <<waived>>
  BY <1>5 DEF history
<1>6. ASSUME NEW q \in Requests, (\E e \in Edits : BeginEdit(q, e)) \/ BeginPublish(q) \/
      RequestLoads(q) \/ RequestNotFound(q) \/ RequestStores(q) \/
      RequestStoresNothing(q) \/ Numbers(q) \/ Inserts(q) \/ RequestFails(q)
     PROVE  waived \subseteq waived'
  BY <1>6, <1>5 DEF BeginEdit, BeginPublish, RequestLoads, LoadCommits, LoadedDoc,
    RequestNotFound, Ends, RequestStores, StoreCommits, Sent, RequestStoresNothing,
    Numbers, Inserts, Moves, RequestFails, Released, Fault, db, history
<1>7. CASE Trash \/ Restore \/ Purge \/ AgentDelete \/ Damage
  BY <1>7, <1>5 DEF Trash, Sent, Restore, Removed, Purge, AgentDelete, Damage, db, history
<1>8. ASSUME NEW r \in Relays, Loads(r) \/ Refreshes(r) \/ LoadFails(r) \/
      RefreshFails(r) \/ SendStore(r) \/ Checks(r) \/ Stores(r) \/ StoreFails(r) \/
      (\E role \in Roles : Authenticate(r, role)) \/
      (\E role \in Roles : Disconnect(r, role)) \/
      (\E role \in Roles : Revalidate(r, role)) \/ (\E e \in Edits : LocalEdit(r, e)) \/
      (\E m \in inbox[r] : FanIn(r, m)) \/ Unload(r)
     PROVE  waived \subseteq waived'
  BY <1>8, <1>5 DEF Loads, LoadCommits, LoadedDoc, Ends, Refreshes, LoadsInstead,
    LoadFails, GetFails, Released, Fault, RefreshFails, SendStore, Checks, Moves,
    Stores, StoreCommits, StoreFails, Authenticate, Disconnect, Left, Settled,
    Revalidate, LocalEdit, FanIn, Taken, Unload, db, history
<1>9. CASE (\E a \in Actors : Locks(a))
  BY <1>9, <1>5 DEF Locks, db, history
<1> QED BY <1>1, <1>2, <1>3, <1>4, <1>5, <1>6, <1>7, <1>8, <1>9, ActorsDiffer
  DEF Next, RequestStep, RowStep, GetStep, PutStep, ClientStep, MessageStep

ContentKept == row' # "gone" => row # "gone" /\ Content \subseteq Content'

Grows == ContentKept /\ waived \subseteq waived'

\* A step that leaves a relay's copy and its store alone leaves it saved.
LEMMA StaysSaved ==
  ASSUME Grows, NEW r \in Relays, RelaySaved(r), relay'[r] = relay[r],
         call'[Put(r)] = call[Put(r)]
  PROVE  RelaySaved(r)'
BY DEF Grows, ContentKept, RelaySaved, At

\* A step that concerns one relay leaves the others saved.
LEMMA OthersSaved ==
  ASSUME Grows, Saved, NEW r \in Relays, OnlyAt(r), RelaySaved(r)'
  PROVE  Saved'
BY StaysSaved DEF Saved, OnlyAt

\* What a final answer refuses is counted as such.
LEMMA AbandonedIsSaved ==
  ASSUME TypeOK, Saved, Grows, NEW r \in Relays, ~At(Put(r), {"idle"}), Abandons(r)
  PROVE  Saved'
<1>1. OnlyAt(r) BY ActorsDiffer DEF Abandons, Ends, Goes, Becomes, OnlyAt, TypeOK
<1>2. relay'[r].copy = relay[r].copy /\ relay'[r].pend = relay[r].pend
  BY DEF Abandons, Becomes, TypeOK, RelayType
<1>3. call'[Put(r)].pc = "idle" BY ActorsDiffer DEF Abandons, Ends, Goes, Idle, TypeOK
<1>4. Content \cup waived \cup call[Put(r)].doc \subseteq Content' \cup waived'
  BY DEF Abandons, Unsaved, Content, Healed
<1>5. RelaySaved(r)'
      BY <1>2, <1>3, <1>4 DEF Saved, RelaySaved, Grows, ContentKept, At, Abandons
<1> QED BY <1>1, <1>5, OthersSaved

\* No step loses an edit that a store does not carry.
LEMMA SavedStep ==
  ASSUME TypeOK, CallsFit, OpenTransactionIsAlone, RowsMirrorDocument, RowsRooted,
         Saved, Grows, Next
  PROVE  Saved'
<1>1. ASSUME NEW a \in Actors, Locks(a)
     PROVE  Saved'
  <2>1. /\ relay' = relay /\ call'[a].doc = call[a].doc /\ call'[a].pc = HeldAs[call[a].pc]
        /\ \A b \in Actors : b # a => call'[b] = call[b]
    BY <1>1 DEF Locks, Goes, TypeOK, CallType
  <2>2. call[a].pc # "idle" /\ call'[a].pc # "idle"
    BY <1>1, <2>1 DEF Locks, At, Waiting, HeldAs
  <2> QED BY <2>1, <2>2, ActorsDiffer DEF Saved, RelaySaved, Grows, ContentKept, At
<1>2. ASSUME NEW q \in Requests, NEW e \in Edits, BeginEdit(q, e)
     PROVE  Saved'
  <2>1. \A s \in Relays : call'[Put(s)] = call[Put(s)]
    BY <1>2, ActorsDiffer DEF BeginEdit, Goes, TypeOK
  <2>2. relay' = relay BY <1>2 DEF BeginEdit, db
  <2> QED BY <2>1, <2>2, StaysSaved DEF Saved
<1>3. ASSUME NEW q \in Requests, BeginPublish(q)
     PROVE  Saved'
  <2>1. \A s \in Relays : call'[Put(s)] = call[Put(s)]
    BY <1>3, ActorsDiffer DEF BeginPublish, Goes, TypeOK
  <2>2. relay' = relay BY <1>3 DEF BeginPublish, db
  <2> QED BY <2>1, <2>2, StaysSaved DEF Saved
<1>4. ASSUME NEW q \in Requests, RequestLoads(q)
     PROVE  Saved'
  <2>1. \A s \in Relays : call'[Put(s)] = call[Put(s)]
    BY <1>4, ActorsDiffer DEF RequestLoads, Goes, TypeOK
  <2>2. relay' = relay BY <1>4 DEF RequestLoads, db
  <2> QED BY <2>1, <2>2, StaysSaved DEF Saved
<1>5. ASSUME NEW q \in Requests, RequestNotFound(q)
     PROVE  Saved'
  <2>1. \A s \in Relays : call'[Put(s)] = call[Put(s)]
    BY <1>5, ActorsDiffer DEF RequestNotFound, Ends, Goes, TypeOK
  <2>2. relay' = relay BY <1>5 DEF RequestNotFound, db
  <2> QED BY <2>1, <2>2, StaysSaved DEF Saved
<1>6. ASSUME NEW q \in Requests, RequestStores(q)
     PROVE  Saved'
  <2>1. \A s \in Relays : call'[Put(s)] = call[Put(s)]
    BY <1>6, ActorsDiffer DEF RequestStores, Ends, Goes, TypeOK
  <2>2. relay' = relay BY <1>6 DEF RequestStores, db
  <2> QED BY <2>1, <2>2, StaysSaved DEF Saved
<1>7. ASSUME NEW q \in Requests, RequestStoresNothing(q)
     PROVE  Saved'
  <2>1. \A s \in Relays : call'[Put(s)] = call[Put(s)]
    BY <1>7, ActorsDiffer DEF RequestStoresNothing, Ends, Goes, TypeOK
  <2>2. relay' = relay BY <1>7 DEF RequestStoresNothing, db
  <2> QED BY <2>1, <2>2, StaysSaved DEF Saved
<1>8. ASSUME NEW q \in Requests, Numbers(q)
     PROVE  Saved'
  <2>1. \A s \in Relays : call'[Put(s)] = call[Put(s)]
    BY <1>8, ActorsDiffer DEF Numbers, Goes, TypeOK
  <2>2. relay' = relay BY <1>8 DEF Numbers, db
  <2> QED BY <2>1, <2>2, StaysSaved DEF Saved
<1>9. ASSUME NEW q \in Requests, Inserts(q)
     PROVE  Saved'
  <2>1. relay' = relay /\ (Ends(q) \/ Moves(q, "renumber")) BY <1>9 DEF Inserts
  <2>2. \A s \in Relays : call'[Put(s)] = call[Put(s)]
    BY <2>1, ActorsDiffer DEF Ends, Moves, Goes, TypeOK
  <2> QED BY <2>1, <2>2, StaysSaved DEF Saved
<1>10. ASSUME NEW q \in Requests, RequestFails(q)
     PROVE  Saved'
  <2>1. \A s \in Relays : call'[Put(s)] = call[Put(s)]
    BY <1>10, ActorsDiffer DEF RequestFails, Ends, Goes, TypeOK
  <2>2. relay' = relay BY <1>10 DEF RequestFails, db
  <2> QED BY <2>1, <2>2, StaysSaved DEF Saved
<1>11. ASSUME NEW r \in Relays, Loads(r)
     PROVE  Saved'
  <2>1. OnlyAt(r) BY <1>11, ActorsDiffer DEF Loads, Ends, Goes, Becomes, OnlyAt, TypeOK
  <2>2. LoadedDoc(Get(r)) = Content /\ row = "live"
        BY <1>11, ActorsDiffer, LoadedIsContent DEF Loads, At, Held
  <2>3. relay'[r].copy = Content /\ call'[Put(r)] = call[Put(r)]
    BY <1>11, <2>2, ActorsDiffer DEF Loads, Ends, Goes, Becomes, TypeOK, RelayType
  <2>4. RelaySaved(r)' BY <2>2, <2>3 DEF RelaySaved, Grows, ContentKept, At
  <2> QED BY <2>1, <2>4, OthersSaved
<1>12. ASSUME NEW r \in Relays, Refreshes(r)
     PROVE  Saved'
  <2>1. CASE relay[r].copy = None
    <3>1. relay' = relay /\ LoadsInstead(r) BY <1>12, <2>1 DEF Refreshes, LoadsInstead
    <3>2. \A s \in Relays : call'[Put(s)] = call[Put(s)]
          BY <3>1, ActorsDiffer DEF LoadsInstead, Goes, TypeOK
    <3> QED BY <3>1, <3>2, StaysSaved DEF Saved
  <2>2. CASE relay[r].copy # None
    <3>1. Ends(Get(r)) /\ Becomes(r, [relay[r] EXCEPT !.copy = relay[r].copy \cup LoadedDoc(Get(r)),
                                                      !.conns = relay[r].conns \cup {call[Get(r)].job}])
      BY <1>12, <2>2 DEF Refreshes
    <3>2. OnlyAt(r) BY <3>1, ActorsDiffer DEF Ends, Goes, Becomes, OnlyAt, TypeOK
    <3>3. LoadedDoc(Get(r)) = Content
          BY <1>12, ActorsDiffer, LoadedIsContent DEF Refreshes, At, Held
    <3>4. call'[Put(r)] = call[Put(r)] BY <3>1, ActorsDiffer DEF Ends, Goes, TypeOK
    <3>5. /\ relay'[r].copy = relay[r].copy \cup Content
          /\ relay'[r].pend = relay[r].pend /\ relay'[r].kept = relay[r].kept
      BY <3>1, <3>3 DEF Becomes, TypeOK, RelayType
    <3>6. RelaySaved(r)' BY <2>2, <3>4, <3>5 DEF Saved, RelaySaved, Grows, ContentKept, At
    <3> QED BY <3>2, <3>6, OthersSaved
  <2> QED BY <2>1, <2>2
<1>13. ASSUME NEW r \in Relays, LoadFails(r)
     PROVE  Saved'
  <2>1. \A s \in Relays : call'[Put(s)] = call[Put(s)]
    BY <1>13, ActorsDiffer DEF LoadFails, Ends, Goes, TypeOK
  <2>2. relay' = relay BY <1>13 DEF LoadFails, db
  <2> QED BY <2>1, <2>2, StaysSaved DEF Saved
<1>14. ASSUME NEW r \in Relays, RefreshFails(r)
     PROVE  Saved'
  <2>1. Ends(Get(r)) \/ LoadsInstead(r) BY <1>14 DEF RefreshFails
  <2>2. \A s \in Relays : call'[Put(s)] = call[Put(s)]
    BY <2>1, ActorsDiffer DEF Ends, LoadsInstead, Goes, TypeOK
  <2>3. \/ relay' = relay
        \/ Becomes(r, [relay[r] EXCEPT !.conns = relay[r].conns \cup {call[Get(r)].job}])
    BY <1>14 DEF RefreshFails, LoadsInstead
  <2>4. \A s \in Relays : relay'[s].copy = relay[s].copy /\ relay'[s].pend = relay[s].pend /\ relay'[s].kept = relay[s].kept
    BY <2>3 DEF Becomes, TypeOK, RelayType
  <2> QED BY <2>2, <2>4 DEF Saved, RelaySaved, Grows, ContentKept, At
<1>15. ASSUME NEW r \in Relays, SendStore(r)
     PROVE  Saved'
  <2>1. OnlyAt(r) BY <1>15, ActorsDiffer DEF SendStore, Goes, Becomes, OnlyAt, TypeOK
  <2>2. relay'[r].copy = relay[r].copy BY <1>15 DEF SendStore, Becomes, TypeOK, RelayType
  <2>3. call'[Put(r)].doc = relay[r].copy /\ call'[Put(r)].pc = "check"
    BY <1>15, ActorsDiffer DEF SendStore, Goes, TypeOK, Idle
  <2>4. RelaySaved(r)' BY <2>2, <2>3 DEF RelaySaved, At
  <2> QED BY <2>1, <2>4, OthersSaved
<1>16. ASSUME NEW r \in Relays, Checks(r)
     PROVE  Saved'
  <2>1. relay' = relay /\ call[Put(r)].pc # "idle" /\ OnlyAt(r)
    BY <1>16, ActorsDiffer DEF Checks, At, Moves, Goes, OnlyAt, TypeOK
  <2>2. call'[Put(r)].doc = call[Put(r)].doc /\ call'[Put(r)].pc # "idle"
    BY <1>16, ActorsDiffer DEF Checks, Moves, Goes, TypeOK, CallType
  <2>3. RelaySaved(r)' BY <2>1, <2>2 DEF Saved, RelaySaved, Grows, ContentKept, At
  <2> QED BY <2>1, <2>3, OthersSaved
<1>17. ASSUME NEW r \in Relays, StoreRefused(r)
     PROVE  Saved'
  <2>1. At(Put(r), {"check"}) /\ Abandons(r) BY <1>17 DEF StoreRefused
  <2> QED BY <2>1, AbandonedIsSaved DEF At
<1>18. ASSUME NEW r \in Relays, StoresNothing(r)
     PROVE  Saved'
  <2>1. At(Put(r), {"store"}) /\ Abandons(r) BY <1>18 DEF StoresNothing
  <2> QED BY <2>1, AbandonedIsSaved DEF At
<1>19. ASSUME NEW r \in Relays, StoreForbidden(r)
     PROVE  Saved'
  <2>1. At(Put(r), {"storing"}) /\ Abandons(r) BY <1>19 DEF StoreForbidden
  <2> QED BY <2>1, AbandonedIsSaved DEF At
<1>20. ASSUME NEW r \in Relays, Stores(r)
     PROVE  Saved'
  <2>1. OnlyAt(r) BY <1>20, ActorsDiffer DEF Stores, Ends, Goes, Becomes, OnlyAt, TypeOK
  <2>2. relay'[r].copy = relay[r].copy /\ relay'[r].pend = relay[r].pend
    BY <1>20 DEF Stores, Becomes, TypeOK, RelayType
  <2>3. call'[Put(r)].pc = "idle" /\ call[Put(r)].pc # "idle"
    BY <1>20, ActorsDiffer DEF Stores, Ends, Goes, Idle, TypeOK, At
  <2>4. stored' = Merged(call[Put(r)].read, call[Put(r)].doc) /\ Merged(call[Put(r)].read, call[Put(r)].doc) \in Docs
    BY <1>20, ActorsDiffer DEF Stores, StoreCommits, Merged, TypeOK, CallType, Docs
  <2>5. call[Put(r)].doc \subseteq Content'
    BY <2>4, MarksDiffer DEF Content, Healed, Merged
  <2>6. RelaySaved(r)' BY <2>2, <2>3, <2>5 DEF Saved, RelaySaved, Grows, ContentKept, At
  <2> QED BY <2>1, <2>6, OthersSaved
<1>21. ASSUME NEW r \in Relays, StoreFails(r)
     PROVE  Saved'
  <2>1. OnlyAt(r)
        BY <1>21, ActorsDiffer DEF StoreFails, Ends, Goes, Becomes, OnlyAt, TypeOK
  <2>2. relay'[r].kept BY <1>21 DEF StoreFails, Becomes, TypeOK, RelayType
  <2>3. call'[Put(r)].pc = "idle"
        BY <1>21, ActorsDiffer DEF StoreFails, Ends, Goes, Idle, TypeOK
  <2>4. RelaySaved(r)' BY <2>2, <2>3 DEF RelaySaved, At
  <2> QED BY <2>1, <2>4, OthersSaved
<1>22. ASSUME NEW r \in Relays, NEW role \in Roles, Authenticate(r, role)
     PROVE  Saved'
  <2>1. \A s \in Relays : relay'[s].copy = relay[s].copy /\ relay'[s].pend = relay[s].pend /\ relay'[s].kept = relay[s].kept
    BY <1>22 DEF Authenticate, Becomes, TypeOK, RelayType
  <2>2. \A s \in Relays : call'[Put(s)] = call[Put(s)]
    BY <1>22, ActorsDiffer DEF Authenticate, Goes, TypeOK
  <2> QED BY <2>1, <2>2 DEF Saved, RelaySaved, Grows, ContentKept, At
<1>23. ASSUME NEW r \in Relays, NEW role \in Roles, Disconnect(r, role)
     PROVE  Saved'
  <2>1. \A s \in Relays : relay'[s].copy = relay[s].copy /\ relay'[s].pend = relay[s].pend /\ relay'[s].kept = relay[s].kept
    BY <1>23 DEF Disconnect, Left, Becomes, TypeOK, RelayType
  <2>2. \A s \in Relays : call'[Put(s)] = call[Put(s)]
    BY <1>23, ActorsDiffer DEF Disconnect, Left, Goes, TypeOK
  <2> QED BY <2>1, <2>2 DEF Saved, RelaySaved, Grows, ContentKept, At
<1>24. ASSUME NEW r \in Relays, NEW role \in Roles, Revalidate(r, role)
     PROVE  Saved'
  <2>1. \A s \in Relays : relay'[s].copy = relay[s].copy /\ relay'[s].pend = relay[s].pend /\ relay'[s].kept = relay[s].kept
    BY <1>24 DEF Revalidate, Left, Becomes, TypeOK, RelayType
  <2>2. \A s \in Relays : call'[Put(s)] = call[Put(s)]
    BY <1>24, ActorsDiffer DEF Revalidate, Left, Goes, TypeOK
  <2> QED BY <2>1, <2>2 DEF Saved, RelaySaved, Grows, ContentKept, At
<1>25. ASSUME NEW r \in Relays, NEW e \in Edits, LocalEdit(r, e)
     PROVE  Saved'
  <2>1. OnlyAt(r) BY <1>25 DEF LocalEdit, Becomes, OnlyAt, TypeOK
  <2>2. relay'[r].pend # None
        BY <1>25, MarksDiffer DEF LocalEdit, Becomes, TypeOK, RelayType
  <2>3. RelaySaved(r)' BY <2>2 DEF RelaySaved
  <2> QED BY <2>1, <2>3, OthersSaved
<1>26. ASSUME NEW r \in Relays, NEW m \in inbox[r], FanIn(r, m)
     PROVE  Saved'
  <2>1. OnlyAt(r) BY <1>26 DEF FanIn, Becomes, OnlyAt, TypeOK
  <2>2. CASE relay[r].copy = None \/ relay[r].token = None
    BY <1>26, <2>2, StaysSaved DEF FanIn, Saved
  <2>3. CASE relay[r].copy # None /\ relay[r].token # None
    <3>1. relay' = [relay EXCEPT ![r] = [relay[r] EXCEPT !.copy = relay[r].copy \cup m.doc, !.pend = relay[r].token]]
      BY <1>26, <2>3 DEF FanIn, Becomes
    <3>2. relay'[r].pend # None BY <2>3, <3>1 DEF TypeOK, RelayType
    <3>3. RelaySaved(r)' BY <3>2 DEF RelaySaved
    <3> QED BY <2>1, <3>3, OthersSaved
  <2> QED BY <2>2, <2>3
<1>27. ASSUME NEW r \in Relays, NEW m \in inbox[r], Invalidate(r, m)
     PROVE  Saved'
  <2>1. OnlyAt(r) /\ call' = call BY <1>27 DEF Invalidate, Becomes, OnlyAt, TypeOK
  <2>2. \/ relay'[r] = NoCopy
        \/ relay'[r].copy = relay[r].copy /\ relay'[r].pend = relay[r].pend /\ relay'[r].kept = relay[r].kept
    BY <1>27 DEF Invalidate, Becomes, TypeOK, RelayType
  <2>3. RelaySaved(r)' BY <2>1, <2>2 DEF Saved, RelaySaved, Grows, ContentKept, NoCopy, At
  <2> QED BY <2>1, <2>3, OthersSaved
<1>28. ASSUME NEW r \in Relays, Unload(r)
     PROVE  Saved'
  <2>1. OnlyAt(r) /\ relay'[r] = NoCopy BY <1>28 DEF Unload, Becomes, OnlyAt, TypeOK
  <2>2. RelaySaved(r)' BY <2>1 DEF RelaySaved, NoCopy
  <2> QED BY <2>1, <2>2, OthersSaved
<1>29. CASE UNCHANGED <<call, relay>>
  BY <1>29, StaysSaved DEF Saved
<1>30. CASE Trash \/ Restore \/ Purge \/ AgentDelete \/ Damage
  BY <1>30, <1>29 DEF Trash, Sent, Restore, Removed, Purge, AgentDelete, Damage, db,
    history
<1> QED BY <1>1, <1>2, <1>3, <1>4, <1>5, <1>6, <1>7, <1>8, <1>9, <1>10, <1>11, <1>12,
    <1>13, <1>14, <1>15, <1>16, <1>17, <1>18, <1>19, <1>20, <1>21, <1>22, <1>23, <1>24,
    <1>25, <1>26, <1>27, <1>28, <1>29, <1>30, ActorsDiffer
  DEF Next, RequestStep, RowStep, GetStep, PutStep, ClientStep, MessageStep

\* A step of one request leaves the drafts of the others alone.
LEMMA OthersFollow ==
  ASSUME ContentKept, DraftsFollow, NEW q \in Requests,
         \A p \in Requests : p # q => call'[p] = call[p], DraftFollows(q)'
  PROVE  DraftsFollow'
BY DEF ContentKept, DraftsFollow, DraftFollows, At

\* Nor does one that concerns no request.
LEMMA RequestsFollow ==
  ASSUME ContentKept, DraftsFollow, \A q \in Requests : call'[q] = call[q]
  PROVE  DraftsFollow'
BY DEF ContentKept, DraftsFollow, DraftFollows, At

\* No step leaves a request's document behind what it began with.
LEMMA DraftsStep ==
  ASSUME TypeOK, CallsFit, OpenTransactionIsAlone, RowsMirrorDocument, RowsRooted,
         DraftsFollow, ContentKept, Next
  PROVE  DraftsFollow'
<1>1. ASSUME NEW a \in Actors, Locks(a)
     PROVE  DraftsFollow'
  <2>1. /\ call'[a].from = call[a].from /\ call'[a].pc = HeldAs[call[a].pc]
        /\ \A b \in Actors : b # a => call'[b] = call[b]
    BY <1>1 DEF Locks, Goes, TypeOK, CallType
  <2>2. call'[a].pc \in Held /\ (call'[a].pc = "loading" => call[a].pc = "load")
    BY <1>1, <2>1 DEF Locks, At, Waiting, HeldAs, Held
  <2> QED BY <2>1, <2>2, ActorsDiffer DEF DraftsFollow, DraftFollows, ContentKept, At,
      Held
<1>2. ASSUME NEW q \in Requests, NEW e \in Edits, BeginEdit(q, e)
     PROVE  DraftsFollow'
  <2>1. \A p \in Requests : p # q => call'[p] = call[p]
    BY <1>2, ActorsDiffer DEF BeginEdit, Goes, TypeOK
  <2>2. call'[q].pc = "load" /\ call'[q].from = {}
    BY <1>2, ActorsDiffer DEF BeginEdit, Goes, TypeOK, CallType, Idle
  <2>3. DraftFollows(q)'
    BY <2>2 DEF DraftsFollow, DraftFollows, ContentKept, At
  <2> QED BY <2>1, <2>3, OthersFollow
<1>3. ASSUME NEW q \in Requests, BeginPublish(q)
     PROVE  DraftsFollow'
  <2>1. \A p \in Requests : p # q => call'[p] = call[p]
    BY <1>3, ActorsDiffer DEF BeginPublish, Goes, TypeOK
  <2>2. call'[q].pc = "load" /\ call'[q].from = Content
    BY <1>3, ActorsDiffer DEF BeginPublish, Goes, TypeOK, CallType, Idle
  <2>3. DraftFollows(q)'
    BY <2>2 DEF DraftsFollow, DraftFollows, ContentKept, At
  <2> QED BY <2>1, <2>3, OthersFollow
<1>4. ASSUME NEW q \in Requests, RequestLoads(q)
     PROVE  DraftsFollow'
  <2>1. \A p \in Requests : p # q => call'[p] = call[p]
    BY <1>4, ActorsDiffer DEF RequestLoads, Goes, TypeOK
  <2>2. /\ call'[q].pc \in {"number", "store"} /\ call'[q].from = call[q].from
        /\ LoadedDoc(q) \subseteq call'[q].doc
    BY <1>4, ActorsDiffer DEF RequestLoads, Goes, TypeOK, CallType
  <2>3. LoadedDoc(q) = Content /\ row = "live" /\ At(q, {"loading"})
    BY <1>4, ActorsDiffer, LoadedIsContent DEF RequestLoads, At, Held
  <2>4. DraftFollows(q)'
    BY <2>2, <2>3 DEF DraftsFollow, DraftFollows, At
  <2> QED BY <2>1, <2>4, OthersFollow
<1>5. ASSUME NEW q \in Requests, RequestNotFound(q)
     PROVE  DraftsFollow'
  <2>1. \A p \in Requests : p # q => call'[p] = call[p]
    BY <1>5, ActorsDiffer DEF RequestNotFound, Ends, Goes, TypeOK
  <2>2. call'[q].pc = "idle"
    BY <1>5, ActorsDiffer DEF RequestNotFound, Ends, Goes, TypeOK, CallType, Idle
  <2>3. DraftFollows(q)'
    BY <2>2 DEF DraftsFollow, DraftFollows, ContentKept, At
  <2> QED BY <2>1, <2>3, OthersFollow
<1>6. ASSUME NEW q \in Requests, RequestStores(q)
     PROVE  DraftsFollow'
  <2>1. \A p \in Requests : p # q => call'[p] = call[p]
    BY <1>6, ActorsDiffer DEF RequestStores, Ends, Goes, TypeOK
  <2>2. call'[q].pc = "idle"
    BY <1>6, ActorsDiffer DEF RequestStores, Ends, Goes, TypeOK, CallType, Idle
  <2>3. DraftFollows(q)'
    BY <2>2 DEF DraftsFollow, DraftFollows, ContentKept, At
  <2> QED BY <2>1, <2>3, OthersFollow
<1>7. ASSUME NEW q \in Requests, RequestStoresNothing(q)
     PROVE  DraftsFollow'
  <2>1. \A p \in Requests : p # q => call'[p] = call[p]
    BY <1>7, ActorsDiffer DEF RequestStoresNothing, Ends, Goes, TypeOK
  <2>2. call'[q].pc = "idle"
    BY <1>7, ActorsDiffer DEF RequestStoresNothing, Ends, Goes, TypeOK, CallType, Idle
  <2>3. DraftFollows(q)'
    BY <2>2 DEF DraftsFollow, DraftFollows, ContentKept, At
  <2> QED BY <2>1, <2>3, OthersFollow
<1>8. ASSUME NEW q \in Requests, Numbers(q)
     PROVE  DraftsFollow'
  <2>1. \A p \in Requests : p # q => call'[p] = call[p]
    BY <1>8, ActorsDiffer DEF Numbers, Goes, TypeOK
  <2>2. /\ call'[q].from = call[q].from /\ call'[q].doc = call[q].doc
        /\ call'[q].pc \in {"insert", "reinsert"} /\ At(q, {"number", "renumber"})
    BY <1>8, ActorsDiffer DEF Numbers, Goes, TypeOK, CallType
  <2>3. DraftFollows(q)'
    BY <2>2 DEF DraftsFollow, DraftFollows, At
  <2> QED BY <2>1, <2>3, OthersFollow
<1>9. ASSUME NEW q \in Requests, Inserts(q)
     PROVE  DraftsFollow'
  <2>1. At(q, {"insert", "reinsert"}) /\ (Ends(q) \/ Moves(q, "renumber"))
    BY <1>9 DEF Inserts
  <2>2. \A p \in Requests : p # q => call'[p] = call[p]
    BY <2>1, ActorsDiffer DEF Ends, Moves, Goes, TypeOK
  <2>3. \/ call'[q].pc = "idle"
        \/ call'[q].pc = "renumber" /\ call'[q].from = call[q].from /\ call'[q].doc = call[q].doc
    BY <2>1, ActorsDiffer DEF Ends, Moves, Goes, TypeOK, CallType, Idle
  <2>4. DraftFollows(q)'
    BY <2>1, <2>3 DEF DraftsFollow, DraftFollows, At
  <2> QED BY <2>2, <2>4, OthersFollow
<1>10. ASSUME NEW q \in Requests, RequestFails(q)
     PROVE  DraftsFollow'
  <2>1. \A p \in Requests : p # q => call'[p] = call[p]
    BY <1>10, ActorsDiffer DEF RequestFails, Ends, Goes, TypeOK
  <2>2. call'[q].pc = "idle"
    BY <1>10, ActorsDiffer DEF RequestFails, Ends, Goes, TypeOK, CallType, Idle
  <2>3. DraftFollows(q)'
    BY <2>2 DEF DraftsFollow, DraftFollows, ContentKept, At
  <2> QED BY <2>1, <2>3, OthersFollow
<1>11. ASSUME NEW r \in Relays, Loads(r)
     PROVE  DraftsFollow'
  <2>1. \A q \in Requests : call'[q] = call[q]
    BY <1>11, ActorsDiffer DEF Loads, Ends, Goes, TypeOK
  <2> QED BY <2>1, RequestsFollow
<1>12. ASSUME NEW r \in Relays, Refreshes(r)
     PROVE  DraftsFollow'
  <2>1. Ends(Get(r)) \/ LoadsInstead(r) BY <1>12 DEF Refreshes
  <2>2. \A q \in Requests : call'[q] = call[q]
    BY <2>1, ActorsDiffer DEF Ends, LoadsInstead, Goes, TypeOK
  <2> QED BY <2>2, RequestsFollow
<1>13. ASSUME NEW r \in Relays, LoadFails(r)
     PROVE  DraftsFollow'
  <2>1. \A q \in Requests : call'[q] = call[q]
    BY <1>13, ActorsDiffer DEF LoadFails, Ends, Goes, TypeOK
  <2> QED BY <2>1, RequestsFollow
<1>14. ASSUME NEW r \in Relays, RefreshFails(r)
     PROVE  DraftsFollow'
  <2>1. Ends(Get(r)) \/ LoadsInstead(r) BY <1>14 DEF RefreshFails
  <2>2. \A q \in Requests : call'[q] = call[q]
    BY <2>1, ActorsDiffer DEF Ends, LoadsInstead, Goes, TypeOK
  <2> QED BY <2>2, RequestsFollow
<1>15. ASSUME NEW r \in Relays, SendStore(r)
     PROVE  DraftsFollow'
  <2>1. \A q \in Requests : call'[q] = call[q]
    BY <1>15, ActorsDiffer DEF SendStore, Goes, TypeOK
  <2> QED BY <2>1, RequestsFollow
<1>16. ASSUME NEW r \in Relays, Checks(r)
     PROVE  DraftsFollow'
  <2>1. \A q \in Requests : call'[q] = call[q]
    BY <1>16, ActorsDiffer DEF Checks, Moves, Goes, TypeOK
  <2> QED BY <2>1, RequestsFollow
<1>17. ASSUME NEW r \in Relays, StoreRefused(r)
     PROVE  DraftsFollow'
  <2>1. \A q \in Requests : call'[q] = call[q]
    BY <1>17, ActorsDiffer DEF StoreRefused, Abandons, Ends, Goes, TypeOK
  <2> QED BY <2>1, RequestsFollow
<1>18. ASSUME NEW r \in Relays, StoresNothing(r)
     PROVE  DraftsFollow'
  <2>1. \A q \in Requests : call'[q] = call[q]
    BY <1>18, ActorsDiffer DEF StoresNothing, Abandons, Ends, Goes, TypeOK
  <2> QED BY <2>1, RequestsFollow
<1>19. ASSUME NEW r \in Relays, StoreForbidden(r)
     PROVE  DraftsFollow'
  <2>1. \A q \in Requests : call'[q] = call[q]
    BY <1>19, ActorsDiffer DEF StoreForbidden, Abandons, Ends, Goes, TypeOK
  <2> QED BY <2>1, RequestsFollow
<1>20. ASSUME NEW r \in Relays, Stores(r)
     PROVE  DraftsFollow'
  <2>1. \A q \in Requests : call'[q] = call[q]
    BY <1>20, ActorsDiffer DEF Stores, Ends, Goes, TypeOK
  <2> QED BY <2>1, RequestsFollow
<1>21. ASSUME NEW r \in Relays, StoreFails(r)
     PROVE  DraftsFollow'
  <2>1. \A q \in Requests : call'[q] = call[q]
    BY <1>21, ActorsDiffer DEF StoreFails, Ends, Goes, TypeOK
  <2> QED BY <2>1, RequestsFollow
<1>22. ASSUME NEW r \in Relays, NEW role \in Roles, Authenticate(r, role)
     PROVE  DraftsFollow'
  <2>1. \A q \in Requests : call'[q] = call[q]
    BY <1>22, ActorsDiffer DEF Authenticate, Goes, TypeOK
  <2> QED BY <2>1, RequestsFollow
<1>23. CASE UNCHANGED <<call>>
  BY <1>23, RequestsFollow
<1>24. CASE Trash \/ Restore \/ Purge \/ AgentDelete \/ Damage
  BY <1>24, <1>23 DEF Trash, Sent, Restore, Removed, Purge, AgentDelete, Damage, db,
    history
<1>25. ASSUME NEW r \in Relays, (\E role \in Roles : Disconnect(r, role)) \/
       (\E role \in Roles : Revalidate(r, role)) \/ (\E e \in Edits : LocalEdit(r, e)) \/
       (\E m \in inbox[r] : FanIn(r, m)) \/ (\E m \in inbox[r] : Invalidate(r, m)) \/
       Unload(r)
     PROVE  DraftsFollow'
  BY <1>25, <1>23 DEF Disconnect, Left, Settled, Revalidate, LocalEdit, FanIn, Taken,
    Invalidate, Unload, db, history
<1> QED BY <1>1, <1>2, <1>3, <1>4, <1>5, <1>6, <1>7, <1>8, <1>9, <1>10, <1>11, <1>12,
    <1>13, <1>14, <1>15, <1>16, <1>17, <1>18, <1>19, <1>20, <1>21, <1>22, <1>23, <1>24,
    <1>25, ActorsDiffer
  DEF Next, RequestStep, RowStep, GetStep, PutStep, ClientStep, MessageStep

\* No step appends a version that lacks what was saved before.
LEMMA VersionsStep ==
  ASSUME TypeOK, DraftsFollow, VersionsFollowDraft, Next
  PROVE  VersionsFollowDraft'
<1>1. ASSUME NEW q \in Requests, Inserts(q)
     PROVE  VersionsFollowDraft'
  <2>1. call[q].from \subseteq call[q].doc
        BY <1>1 DEF Inserts, DraftsFollow, DraftFollows, At
  <2>2. CASE UNCHANGED versions BY <2>2 DEF VersionsFollowDraft
  <2>3. CASE versions' = Append(versions, [doc |-> call[q].doc, from |-> call[q].from])
    <3>1. versions \in Seq([doc : Docs, from : Docs]) BY DEF TypeOK
    <3>2. ASSUME NEW i \in DOMAIN versions' PROVE versions'[i].from \subseteq versions'[i].doc
      <4>1. i \in 1 .. Len(versions) + 1 BY <2>3, <3>1, <3>2, AppendProperties
      <4>2. CASE i \in 1 .. Len(versions)
        BY <2>3, <3>1, <4>2 DEF VersionsFollowDraft
      <4>3. CASE i = Len(versions) + 1
        BY <2>1, <2>3, <3>1, <4>3
      <4> QED BY <3>1, <4>1, <4>2, <4>3
    <3> QED BY <3>2 DEF VersionsFollowDraft
  <2> QED BY <1>1, <2>2, <2>3 DEF Inserts
<1>2. CASE Purge \/ AgentDelete
  <2>1. versions' = <<>> BY <1>2 DEF Purge, AgentDelete, Removed
  <2> QED BY <2>1 DEF VersionsFollowDraft
<1>3. CASE UNCHANGED <<versions>>
  BY <1>3 DEF VersionsFollowDraft
<1>4. ASSUME NEW q \in Requests, (\E e \in Edits : BeginEdit(q, e)) \/ BeginPublish(q) \/
      RequestLoads(q) \/ RequestNotFound(q) \/ RequestStores(q) \/
      RequestStoresNothing(q) \/ Numbers(q) \/ RequestFails(q)
     PROVE  VersionsFollowDraft'
  BY <1>4, <1>3 DEF BeginEdit, BeginPublish, RequestLoads, LoadCommits, LoadedDoc,
    RequestNotFound, Ends, RequestStores, StoreCommits, Sent, RequestStoresNothing,
    Numbers, RequestFails, Released, Fault, db, history
<1>5. CASE Trash \/ Restore \/ Damage
  BY <1>5, <1>3 DEF Trash, Sent, Restore, Damage, db, history
<1>6. ASSUME NEW r \in Relays, Loads(r) \/ Refreshes(r) \/ LoadFails(r) \/
      RefreshFails(r) \/ SendStore(r) \/ Checks(r) \/ StoreRefused(r) \/
      StoresNothing(r) \/ StoreForbidden(r) \/ Stores(r) \/ StoreFails(r) \/
      (\E role \in Roles : Authenticate(r, role)) \/
      (\E role \in Roles : Disconnect(r, role)) \/
      (\E role \in Roles : Revalidate(r, role)) \/ (\E e \in Edits : LocalEdit(r, e)) \/
      (\E m \in inbox[r] : FanIn(r, m)) \/ (\E m \in inbox[r] : Invalidate(r, m)) \/
      Unload(r)
     PROVE  VersionsFollowDraft'
  BY <1>6, <1>3 DEF Loads, LoadCommits, LoadedDoc, Ends, Refreshes, LoadsInstead,
    LoadFails, GetFails, Released, Fault, RefreshFails, SendStore, Checks, Moves,
    StoreRefused, Abandons, StoresNothing, StoreForbidden, Stores, StoreCommits,
    StoreFails, Authenticate, Disconnect, Left, Settled, Revalidate, LocalEdit, FanIn,
    Taken, Invalidate, Unload, db, history
<1>7. CASE (\E a \in Actors : Locks(a))
  BY <1>7, <1>3 DEF Locks, db, history
<1> QED BY <1>1, <1>2, <1>3, <1>4, <1>5, <1>6, <1>7, ActorsDiffer
  DEF Next, RequestStep, RowStep, GetStep, PutStep, ClientStep, MessageStep

------------------------------------------------------------------------------
(* The theorems *)

\* The invariant is kept by every step: what the parts above need of each other
\* is only what held before the step.
LEMMA NextInv ==
  ASSUME IInv, Next
  PROVE  IInv' /\ StoredStep
<1> USE DEF IInv
<1>1. CallsFit' BY FitStep
<1>2. OpenTransactionIsAlone' BY AloneStep
<1>3. StoredStep BY DbSteps
<1>4. RowsMirrorDocument' /\ RowsRooted' BY <1>3, RowsStep
<1>5. ContentKept BY <1>3, ContentGrows DEF ContentKept
<1>6. Grows BY <1>5, WaivedGrows DEF Grows
<1>7. CallsRooted' BY CallsRootedStep
<1>8. CopiesRooted' BY CopiesStep
<1>9. Saved' BY <1>6, SavedStep
<1>10. DraftsFollow' BY <1>5, DraftsStep
<1>11. VersionsFollowDraft' BY VersionsStep
<1>12. TypeOK'
  <2>1. RelaysTyped BY DEF TypeOK, RelaysTyped
  <2>2. RelaysTyped' BY <2>1, RelayTypeStep
  <2>3. StateTyped' BY <1>3, StoredTyped
  <2> HIDE DEF IInv
  <2>4. TypeOK BY DEF IInv
  <2> QED BY <2>2, <2>3, <2>4, CallTypeStep, VersionsTyped, InboxTyped, HistoryTyped,
      CountersTyped
       DEF TypeOK, RelaysTyped, StateTyped, Versions
<1> QED BY <1>1, <1>2, <1>3, <1>4, <1>7, <1>8, <1>9, <1>10, <1>11, <1>12

\* A step that changes nothing keeps it too.
LEMMA StutterInv ==
  ASSUME IInv, UNCHANGED vars
  PROVE  IInv'
<1> USE DEF IInv, vars, db, history
<1>1. TypeOK' BY DEF TypeOK
<1>2. CallsFit' /\ OpenTransactionIsAlone' BY DEF CallsFit, OpenTransactionIsAlone, At
<1>3. RowsMirrorDocument' /\ RowsRooted' BY DEF RowsMirrorDocument, RowsRooted
<1>4. CallsRooted' /\ CopiesRooted' BY DEF CallsRooted, CopiesRooted, RelayRooted, At
<1>5. Saved' BY DEF Saved, RelaySaved, Content, Healed, At
<1>6. DraftsFollow' /\ VersionsFollowDraft'
  BY DEF DraftsFollow, DraftFollows, VersionsFollowDraft, Content, Healed, At
<1> QED BY <1>1, <1>2, <1>3, <1>4, <1>5, <1>6

\* The strengthening of all that follows.
THEOREM Invariant == Spec => []IInv
<1>1. IInv /\ [Next]_vars => IInv' BY NextInv, StutterInv
<1> QED BY InitInv, <1>1, PTL DEF Spec

\* Every variable has its type in every state, and onStoreDocument always
\* finds its document.
THEOREM TypeCorrect == Spec => []TypeOK
<1>1. IInv => TypeOK BY DEF IInv
<1> QED BY <1>1, Invariant, PTL

\* Between the SELECT ... FOR UPDATE and the commit of a load or a store nobody
\* else writes, trashes or deletes the dashboard (MergeAndStoreValidated,
\* loadOrSeedDashboardDoc).
THEOREM TransactionsAlone == Spec => []OpenTransactionIsAlone
<1>1. IInv => OpenTransactionIsAlone BY DEF IInv
<1> QED BY <1>1, Invariant, PTL

\* The materialised rows spell the stored document, whatever runs at once.
THEOREM RowsMirror == Spec => []RowsMirrorDocument
<1>1. IInv => RowsMirrorDocument BY DEF IInv
<1> QED BY <1>1, Invariant, PTL

\* No relay serves a client a blank dashboard (onLoadDocument, onAuthenticate).
THEOREM NoClientServedBlank == Spec => []NoBlankServed
<1>1. IInv => NoBlankServed BY DEF IInv, CopiesRooted, RelayRooted, NoBlankServed
<1> QED BY <1>1, Invariant, PTL

\* A copy that may be dropped, or rests, is saved or was refused for good
\* (onStoreDocument, afterUnloadDocument).
THEOREM RestingCopiesSaved == Spec => []SettledIsSaved
<1>1. IInv => SettledIsSaved
  BY DEF IInv, Saved, RelaySaved, SettledIsSaved, Settled, Unsaved
<1> QED BY <1>1, Invariant, PTL

\* A published version holds what was saved when its publish began
\* (publishDashboardVersion, PublishVersion).
THEOREM VersionsFollow == Spec => []VersionsFollowDraft
<1>1. IInv => VersionsFollowDraft BY DEF IInv
<1> QED BY <1>1, Invariant, PTL

\* To a reader, all the transactions of all the writers are one document that
\* only gains updates while live, rests in the trash and ends with its row.
THEOREM DocImplementsSharedDoc == Spec => ImplementsSharedDoc
<1>1. Init => Shared!Init
  <2> SUFFICES ASSUME Init PROVE Shared!Init OBVIOUS
  <2>1. Content = {Base} BY MarksDiffer DEF Init, Content, Healed
  <2> QED BY <2>1 DEF Init, Shared!Init, Updates
<1>2. IInv /\ IInv' /\ [Next]_vars => [Shared!Next]_Shared!shared
  <2> SUFFICES ASSUME IInv, IInv', [Next]_vars PROVE [Shared!Next]_Shared!shared OBVIOUS
  <2>1. CASE Next
    <3>1. StoredStep BY <2>1, NextInv
    <3> QED BY <3>1, SharedStep DEF IInv
  <2>2. CASE UNCHANGED vars
    BY <2>2 DEF vars, db, Content, Healed, Shared!shared
  <2> QED BY <2>1, <2>2
<1> QED BY <1>1, <1>2, Invariant, PTL DEF Spec, Shared!Spec, ImplementsSharedDoc
=============================================================================
