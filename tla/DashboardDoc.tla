------------------------------ MODULE DashboardDoc ------------------------------
(***************************************************************************)
(* One dashboard's document: the Yjs state the database keeps, the rows    *)
(* derived from it, the requests that write it and publish versions of it, *)
(* and the collaboration relays that hold copies of it for connected       *)
(* clients.  A document is the set of updates merged into it, which is all *)
(* a CRDT merge is about.  Every read-modify-write is a transaction that   *)
(* locks the dashboard's row, reads, and commits in a later step.          *)
(***************************************************************************)
EXTENDS Naturals, Sequences

CONSTANTS
  Relays,       \* relay replicas
  Requests,     \* REST calls and agent tools running at once
  Edits,        \* updates of users and agents
  Base,         \* the update the rows start with: title and settings
  Publish,      \* the job of a publish request
  None,         \* no state stored, no copy, no token, no lock
  Damaged,      \* a stored state that cannot be decoded
  MaxVersions,  \* bound: no publish begins with this many versions
  MaxFaults,    \* bound: failed calls
  MaxDamage     \* bound: stored states that go bad

Updates == Edits \cup {Base}

Docs == SUBSET Updates

Roles == {"editor", "viewer"}

\* A relay's calls to the API, one of each kind at a time.
Get(r) == <<"get", r>>
Put(r) == <<"put", r>>

Actors == Requests \cup {Get(r) : r \in Relays} \cup {Put(r) : r \in Relays}

ASSUME DistinctMarks ==
  /\ Base \notin Edits
  /\ Publish \notin Edits \cup Roles
  /\ None \notin Actors \cup Edits \cup Roles \cup {Publish, Damaged}
  /\ \A d \in Docs : d # None /\ d # Damaged

ASSUME DistinctCalls ==
  \A r \in Relays : Get(r) \notin Requests /\ Put(r) \notin Requests

ASSUME Bounds == MaxVersions \in Nat /\ MaxFaults \in Nat /\ MaxDamage \in Nat

VARIABLES
  row,       \* the dashboards row: "live", "trashed" or "gone"
  stored,    \* dashboard_yjs_documents.state: a document, None or Damaged
  rows,      \* title, settings and widget rows, as the document they spell
  lock,      \* whose transaction holds the row FOR UPDATE
  call,      \* each actor's call: where it is, its job, its document
  versions,  \* published versions, oldest first
  relay,     \* each relay's copy, connections, cached token and store state
  inbox,     \* fan-out messages to each relay; one may never arrive
  made,      \* edits made so far
  waived,    \* history: relay edits dropped by an answer that is final
  faults,    \* failed calls so far
  damages    \* stored states gone bad so far

db == <<row, stored, rows, lock, versions>>
history == <<waived, faults, damages>>
vars == <<db, call, relay, inbox, made, history>>

Idle == [pc |-> "idle", job |-> None, doc |-> {}, read |-> None, from |-> {}, num |-> 0]

NoCopy == [copy |-> None, conns |-> {}, token |-> None, pend |-> None, kept |-> FALSE]

Readable(state) == state \notin {None, Damaged}

\* What a load returns: a state that is missing or broken is rebuilt from
\* the rows.
Healed(state, derived) == IF Readable(state) THEN state ELSE derived

Content == Healed(stored, rows)

\* Mutant: a store overwrites what is stored.
MergedOverwrites(read, doc) == doc

\* CRDT merge of what a transaction read and what it was given.
Merged(read, doc) == (IF read = None THEN {} ELSE read) \cup doc

PublishedOnce == versions # <<>>

Init ==
  /\ row = "live" /\ stored = None /\ rows = {Base} /\ lock = None
  /\ versions = <<>>
  /\ call = [a \in Actors |-> Idle]
  /\ relay = [r \in Relays |-> NoCopy]
  /\ inbox = [r \in Relays |-> {}]
  /\ made = {} /\ waived = {} /\ faults = 0 /\ damages = 0

------------------------------------------------------------------------------
(* Steps that requests and relays share *)

Goes(a, next) == call' = [call EXCEPT ![a] = next]

Becomes(r, next) == relay' = [relay EXCEPT ![r] = next]

Moves(a, pc) == Goes(a, [call[a] EXCEPT !.pc = pc])

Ends(a) == Goes(a, Idle)

At(a, pcs) == call[a].pc \in pcs

HeldAs == [load |-> "loading", refresh |-> "refreshing", store |-> "storing"]

Waiting == DOMAIN HeldAs

Held == {"loading", "refreshing", "storing"}

Fault == faults < MaxFaults /\ faults' = faults + 1

\* What a failing call leaves of the lock: its transaction rolls back.
Released(a) == IF At(a, Held) THEN None ELSE lock

\* Edits in doc that the database does not have.
Unsaved(doc) == doc \ Content

\* The connecting user may read the draft: anyone before the first publish,
\* editors only afterwards.
MayRead(role) == role = "viewer" => ~PublishedOnce

Sent(m) == inbox' = [r \in Relays |-> inbox[r] \cup {m}]

Update(doc) == [kind |-> "update", doc |-> doc]
Invalidation == [kind |-> "invalidate", doc |-> {}]

\* Mutant: the row is read without FOR UPDATE.
LocksNobody(a) ==
  /\ At(a, Waiting)
  /\ row = "live"
  /\ At(a, {"load", "refresh"}) => MayRead(call[a].job)
  /\ Goes(a, [call[a] EXCEPT !.pc = HeldAs[@], !.read = stored])
  /\ UNCHANGED <<db, relay, inbox, made, history>>

\* A transaction begins: it locks the live row and reads the stored state.
Locks(a) ==
  /\ At(a, Waiting)
  /\ row = "live" /\ lock = None
  /\ At(a, {"load", "refresh"}) => MayRead(call[a].job)
  /\ lock' = a
  /\ Goes(a, [call[a] EXCEPT !.pc = HeldAs[@], !.read = stored])
  /\ UNCHANGED <<row, stored, rows, versions, relay, inbox, made, history>>

\* The load transaction commits: it seeds or heals, or changes nothing.
LoadCommits(a) ==
  /\ stored' = IF Readable(call[a].read) THEN stored ELSE rows
  /\ lock' = None
  /\ UNCHANGED <<row, rows, versions>>

LoadedDoc(a) == Healed(call[a].read, rows)

\* Mutant: the rows are derived from what came in, not from the merge.
StoreCommitsIncoming(a) ==
  /\ stored' = Merged(call[a].read, call[a].doc)
  /\ rows' = call[a].doc
  /\ lock' = None
  /\ UNCHANGED <<row, versions>>

\* The store transaction commits: state and derived rows in one.
StoreCommits(a) ==
  /\ stored' = Merged(call[a].read, call[a].doc)
  /\ rows' = stored'
  /\ lock' = None
  /\ UNCHANGED <<row, versions>>

------------------------------------------------------------------------------
(* REST handlers and agent tools *)

BeginEdit(q, e) ==
  /\ At(q, {"idle"}) /\ e \in Edits \ made
  /\ Goes(q, [Idle EXCEPT !.pc = "load", !.job = e])
  /\ made' = made \cup {e}
  /\ UNCHANGED <<db, relay, inbox, history>>

BeginPublish(q) ==
  /\ At(q, {"idle"}) /\ Len(versions) < MaxVersions
  /\ Goes(q, [Idle EXCEPT !.pc = "load", !.job = Publish, !.from = Content])
  /\ UNCHANGED <<db, relay, inbox, made, history>>

\* Mutant: a publish takes what a relay has in memory.
RequestLoadsCopy(q) ==
  /\ At(q, {"loading"})
  /\ LoadCommits(q)
  /\ LET held == {r \in Relays : relay[r].copy # None}
     IN  Goes(q, [call[q] EXCEPT
           !.pc = IF call[q].job = Publish THEN "number" ELSE "store",
           !.doc = IF call[q].job = Publish /\ held # {}
                     THEN relay[CHOOSE r \in held : TRUE].copy
                     ELSE LoadedDoc(q) \cup ({call[q].job} \cap Edits),
           !.read = None])
  /\ UNCHANGED <<relay, inbox, made, history>>

RequestLoads(q) ==
  /\ At(q, {"loading"})
  /\ LoadCommits(q)
  /\ Goes(q, [call[q] EXCEPT
       !.pc = IF call[q].job = Publish THEN "number" ELSE "store",
       !.doc = LoadedDoc(q) \cup ({call[q].job} \cap Edits),
       !.read = None])
  /\ UNCHANGED <<relay, inbox, made, history>>

RequestNotFound(q) ==
  /\ At(q, {"load"}) /\ row # "live"
  /\ Ends(q)
  /\ UNCHANGED <<db, relay, inbox, made, history>>

RequestStores(q) ==
  /\ At(q, {"storing"}) /\ call[q].read # Damaged
  /\ StoreCommits(q)
  /\ Ends(q)
  /\ Sent(Update(call[q].doc))
  /\ UNCHANGED <<relay, made, history>>

\* A store that finds the row trashed or gone succeeds without writing, and
\* its document is fanned out all the same.
RequestStoresNothing(q) ==
  /\ At(q, {"store"}) /\ row # "live"
  /\ Ends(q)
  /\ Sent(Update(call[q].doc))
  /\ UNCHANGED <<db, relay, made, history>>

\* INSERT ... SELECT MAX(version) + 1: the number is read, then claimed.
Numbers(q) ==
  /\ At(q, {"number", "renumber"})
  /\ Goes(q, [call[q] EXCEPT !.pc = IF @ = "number" THEN "insert" ELSE "reinsert",
                             !.num = Len(versions) + 1])
  /\ UNCHANGED <<db, relay, inbox, made, history>>

\* The insert waits for the row's lock (foreign key); the unique constraint
\* sends the loser of a race back once.
Inserts(q) ==
  /\ At(q, {"insert", "reinsert"}) /\ row # "gone" /\ lock = None
  /\ IF call[q].num = Len(versions) + 1
       THEN /\ versions' = Append(versions, [doc |-> call[q].doc, from |-> call[q].from])
            /\ Ends(q)
       ELSE /\ IF At(q, {"insert"}) THEN Moves(q, "renumber") ELSE Ends(q)
            /\ UNCHANGED versions
  /\ UNCHANGED <<row, stored, rows, lock, relay, inbox, made, history>>

\* Any statement of a request may fail; a damaged state fails every store,
\* a purged row every insert.
RequestFails(q) ==
  /\ ~At(q, {"idle"})
  /\ \/ Fault
     \/ /\ \/ At(q, {"storing"}) /\ call[q].read = Damaged
           \/ At(q, {"insert", "reinsert"}) /\ row = "gone"
        /\ UNCHANGED faults
  /\ lock' = Released(q)
  /\ Ends(q)
  /\ UNCHANGED <<row, stored, rows, versions, relay, inbox, made, waived, damages>>

RequestStep(q) ==
  \/ \E e \in Edits : BeginEdit(q, e)
  \/ BeginPublish(q) \/ RequestLoads(q) \/ RequestNotFound(q) \/ RequestStores(q)
  \/ RequestStoresNothing(q) \/ Numbers(q) \/ Inserts(q) \/ RequestFails(q)

------------------------------------------------------------------------------
(* The dashboard row *)

Trash ==
  /\ row \in {"live", "trashed"} /\ lock = None
  /\ row' = "trashed"
  /\ Sent(Invalidation)
  /\ UNCHANGED <<stored, rows, lock, versions, call, relay, made, history>>

Restore ==
  /\ row = "trashed"
  /\ row' = "live"
  /\ UNCHANGED <<stored, rows, lock, versions, call, relay, inbox, made, history>>

\* The document, the widgets and the versions go with the row.
Removed ==
  /\ lock = None
  /\ row' = "gone" /\ stored' = None /\ rows' = {} /\ versions' = <<>>
  /\ Sent(Invalidation)
  /\ UNCHANGED <<lock, call, relay, made, history>>

Purge == row = "trashed" /\ Removed

\* The agent's delete tool skips the trash.
AgentDelete == row \in {"live", "trashed"} /\ Removed

Damage ==
  /\ Readable(stored) /\ lock = None /\ damages < MaxDamage
  /\ stored' = Damaged /\ damages' = damages + 1
  /\ UNCHANGED <<row, rows, lock, versions, call, relay, inbox, made, waived, faults>>

RowStep == Trash \/ Restore \/ Purge \/ AgentDelete \/ Damage

------------------------------------------------------------------------------
(* The relay: clients come and go *)

\* No store is waiting or running.
Settled(r) == relay[r].pend = None /\ At(Put(r), {"idle"})

\* A relay without the clients in who: the last one to leave takes the cached
\* token along, unless a store may still need it.
Left(r, who) ==
  LET rest == relay[r].conns \ who
  IN  [relay[r] EXCEPT !.conns = rest,
                       !.token = IF rest = {} /\ Settled(r) THEN None ELSE @]

\* The API authorizes the client; a copy at hand is refreshed first, a
\* missing one is loaded.
Authenticate(r, role) ==
  /\ At(Get(r), {"idle"}) /\ role \notin relay[r].conns
  /\ row = "live" /\ MayRead(role)
  /\ Becomes(r, [relay[r] EXCEPT !.token = role])
  /\ Goes(Get(r), [Idle EXCEPT !.pc = IF relay[r].copy = None THEN "load" ELSE "refresh",
                                !.job = role])
  /\ UNCHANGED <<db, inbox, made, history>>

Loads(r) ==
  /\ At(Get(r), {"loading"})
  /\ LoadCommits(Get(r))
  /\ Becomes(r, [relay[r] EXCEPT !.copy = LoadedDoc(Get(r)),
                                 !.conns = @ \cup {call[Get(r)].job}])
  /\ Ends(Get(r))
  /\ UNCHANGED <<inbox, made, history>>

LoadsInstead(r) ==
  /\ Goes(Get(r), [call[Get(r)] EXCEPT !.pc = "load", !.read = None])
  /\ UNCHANGED relay

\* A refresh is merged into the copy; if the copy was unloaded meanwhile, the
\* document is loaded like any other.
Refreshes(r) ==
  /\ At(Get(r), {"refreshing"})
  /\ LoadCommits(Get(r))
  /\ IF relay[r].copy = None
       THEN LoadsInstead(r)
       ELSE /\ Becomes(r, [relay[r] EXCEPT !.copy = @ \cup LoadedDoc(Get(r)),
                                           !.conns = @ \cup {call[Get(r)].job}])
            /\ Ends(Get(r))
  /\ UNCHANGED <<inbox, made, history>>

\* The row is not there, the user may not read it, or the call fails.
GetFails(r) ==
  /\ \/ At(Get(r), Waiting) /\ (row # "live" \/ ~MayRead(call[Get(r)].job)) /\ UNCHANGED faults
     \/ ~At(Get(r), {"idle"}) /\ Fault
  /\ lock' = Released(Get(r))
  /\ UNCHANGED <<row, stored, rows, versions, inbox, made, waived, damages>>

\* Mutant: a failed load serves an empty document, as it does for a notebook.
LoadFailsServingEmpty(r) ==
  /\ At(Get(r), {"load", "loading"})
  /\ GetFails(r)
  /\ Ends(Get(r))
  /\ Becomes(r, [relay[r] EXCEPT !.copy = {}, !.conns = @ \cup {call[Get(r)].job}])

\* Without a document the client is turned away.
LoadFails(r) ==
  /\ At(Get(r), {"load", "loading"})
  /\ GetFails(r)
  /\ Ends(Get(r))
  /\ UNCHANGED relay

\* The client is served the copy as it is.
RefreshFails(r) ==
  /\ At(Get(r), {"refresh", "refreshing"})
  /\ GetFails(r)
  /\ IF relay[r].copy = None
       THEN LoadsInstead(r)
       ELSE /\ Becomes(r, [relay[r] EXCEPT !.conns = @ \cup {call[Get(r)].job}])
            /\ Ends(Get(r))

Disconnect(r, role) ==
  /\ role \in relay[r].conns
  /\ Becomes(r, Left(r, {role}))
  /\ UNCHANGED <<db, call, inbox, made, history>>

\* Mutant: a 404 is taken for a passing failure.
RevalidateKeepsMissing(r, role) ==
  /\ role \in relay[r].conns
  /\ row = "live" /\ ~MayRead(role)
  /\ Becomes(r, Left(r, {role}))
  /\ UNCHANGED <<db, call, inbox, made, history>>

\* Once a minute every connection is authorized again.
Revalidate(r, role) ==
  /\ role \in relay[r].conns
  /\ row # "live" \/ ~MayRead(role)
  /\ Becomes(r, Left(r, {role}))
  /\ UNCHANGED <<db, call, inbox, made, history>>

\* Mutant: a waiting store is forgotten with the copy.
UnloadUnsettled(r) ==
  /\ relay[r].copy # None /\ relay[r].conns = {}
  /\ At(Put(r), {"idle"}) /\ ~relay[r].kept
  /\ Becomes(r, [relay[r] EXCEPT !.copy = None])
  /\ UNCHANGED <<db, call, inbox, made, history>>

\* Hocuspocus drops a document nobody is connected to once it is stored; a
\* store that failed without a final answer keeps it.
Unload(r) ==
  /\ relay[r].copy # None /\ relay[r].conns = {}
  /\ Settled(r) /\ ~relay[r].kept
  /\ Becomes(r, NoCopy)
  /\ UNCHANGED <<db, call, inbox, made, history>>

------------------------------------------------------------------------------
(* The relay: edits and stores *)

LocalEdit(r, e) ==
  /\ "editor" \in relay[r].conns /\ e \in Edits \ made
  /\ Becomes(r, [relay[r] EXCEPT !.copy = @ \cup {e}, !.pend = "editor"])
  /\ made' = made \cup {e}
  /\ UNCHANGED <<db, call, inbox, history>>

\* The debounced store runs under the context of the newest change.
SendStore(r) ==
  /\ relay[r].pend # None /\ At(Put(r), {"idle"})
  /\ Goes(Put(r), [Idle EXCEPT !.pc = "check", !.job = relay[r].pend,
                                !.doc = relay[r].copy])
  /\ Becomes(r, [relay[r] EXCEPT !.pend = None])
  /\ UNCHANGED <<db, inbox, made, history>>

Checks(r) ==
  /\ At(Put(r), {"check"})
  /\ row = "live" /\ MayRead(call[Put(r)].job)
  /\ Moves(Put(r), "store")
  /\ UNCHANGED <<db, relay, inbox, made, history>>

\* The relay takes the answer for final, whatever the document holds: the
\* edits the database lacks are gone once the copy is.
Abandons(r) ==
  /\ waived' = waived \cup Unsaved(call[Put(r)].doc)
  /\ Becomes(r, [relay[r] EXCEPT !.kept = FALSE])
  /\ Ends(Put(r))
  /\ UNCHANGED <<row, stored, rows, versions, inbox, made, faults, damages>>

\* 404 and 403 ahead of the transaction.
StoreRefused(r) ==
  /\ At(Put(r), {"check"}) /\ (row # "live" \/ ~MayRead(call[Put(r)].job))
  /\ Abandons(r)
  /\ UNCHANGED lock

\* Trashed after the check: the merge writes nothing and the answer is 204.
StoresNothing(r) ==
  /\ At(Put(r), {"store"}) /\ row # "live"
  /\ Abandons(r)
  /\ UNCHANGED lock

Changes(r) == Merged(call[Put(r)].read, call[Put(r)].doc) # call[Put(r)].read

\* 403 of the validator: a viewer's token over a document that differs.
StoreForbidden(r) ==
  /\ At(Put(r), {"storing"}) /\ call[Put(r)].read # Damaged
  /\ Changes(r) /\ call[Put(r)].job = "viewer"
  /\ Abandons(r)
  /\ lock' = None

\* The answer of a store that committed may still be lost.
Stores(r) ==
  /\ At(Put(r), {"storing"}) /\ call[Put(r)].read # Damaged
  /\ Changes(r) => call[Put(r)].job = "editor"
  /\ StoreCommits(Put(r))
  /\ \/ Becomes(r, [relay[r] EXCEPT !.kept = FALSE]) /\ UNCHANGED faults
     \/ Becomes(r, [relay[r] EXCEPT !.kept = TRUE]) /\ Fault
  /\ Ends(Put(r))
  /\ UNCHANGED <<inbox, made, waived, damages>>

\* Mutant: every failure is taken for final.
StoreFailsForGood(r) ==
  /\ \/ ~At(Put(r), {"idle"}) /\ Fault
     \/ At(Put(r), {"storing"}) /\ call[Put(r)].read = Damaged /\ UNCHANGED faults
  /\ lock' = Released(Put(r))
  /\ Becomes(r, [relay[r] EXCEPT !.kept = FALSE])
  /\ Ends(Put(r))
  /\ UNCHANGED <<row, stored, rows, versions, inbox, made, waived, damages>>

\* 5xx, a timeout, a damaged state: the document stays in memory.
StoreFails(r) ==
  /\ \/ ~At(Put(r), {"idle"}) /\ Fault
     \/ At(Put(r), {"storing"}) /\ call[Put(r)].read = Damaged /\ UNCHANGED faults
  /\ lock' = Released(Put(r))
  /\ Becomes(r, [relay[r] EXCEPT !.kept = TRUE])
  /\ Ends(Put(r))
  /\ UNCHANGED <<row, stored, rows, versions, inbox, made, waived, damages>>

------------------------------------------------------------------------------
(* The relay: fan-out messages *)

Taken(r, m) == inbox' = [inbox EXCEPT ![r] = @ \ {m}]

\* A backend write is merged into a resident copy and stored at once with
\* the cached token; without a copy or a token it is skipped.
FanIn(r, m) ==
  /\ m \in inbox[r] /\ m.kind = "update"
  /\ Taken(r, m)
  /\ IF relay[r].copy = None \/ relay[r].token = None
       THEN UNCHANGED relay
       ELSE Becomes(r, [relay[r] EXCEPT !.copy = @ \cup m.doc, !.pend = relay[r].token])
  /\ UNCHANGED <<db, call, made, history>>

\* The token goes, every client is disconnected, and the copy is dropped
\* unless a store waits or runs.
Invalidate(r, m) ==
  /\ m \in inbox[r] /\ m.kind = "invalidate"
  /\ Taken(r, m)
  /\ LET drop == relay[r].copy # None /\ Settled(r)
     IN  /\ Becomes(r, IF drop THEN NoCopy
                       ELSE [relay[r] EXCEPT !.conns = {}, !.token = None])
         /\ waived' = IF drop THEN waived \cup Unsaved(relay[r].copy) ELSE waived
  /\ UNCHANGED <<db, call, made, faults, damages>>

GetStep(r) == Locks(Get(r)) \/ Loads(r) \/ Refreshes(r) \/ LoadFails(r) \/ RefreshFails(r)

PutStep(r) ==
  \/ SendStore(r) \/ Checks(r) \/ StoreRefused(r) \/ Locks(Put(r)) \/ StoresNothing(r)
  \/ StoreForbidden(r) \/ Stores(r) \/ StoreFails(r)

ClientStep(r) ==
  \/ \E role \in Roles : Authenticate(r, role) \/ Disconnect(r, role) \/ Revalidate(r, role)
  \/ \E e \in Edits : LocalEdit(r, e)

MessageStep(r) == \E m \in inbox[r] : FanIn(r, m) \/ Invalidate(r, m)

Next ==
  \/ \E q \in Requests : Locks(q) \/ RequestStep(q)
  \/ RowStep
  \/ \E r \in Relays : GetStep(r) \/ PutStep(r) \/ ClientStep(r) \/ MessageStep(r) \/ Unload(r)

Spec == Init /\ [][Next]_vars

\* A call to the API ends, the revalidation timer fires and Hocuspocus tidies
\* up; users, requests and messages owe nothing.
FairSpec ==
  /\ Spec
  /\ \A r \in Relays : /\ WF_vars(GetStep(r)) /\ WF_vars(PutStep(r)) /\ WF_vars(Unload(r))
                       /\ \A role \in Roles : WF_vars(Revalidate(r, role))

------------------------------------------------------------------------------
(* Properties *)

CallType == [pc : {"idle", "load", "refresh", "loading", "refreshing", "store", "storing",
                   "number", "renumber", "insert", "reinsert", "check"},
             job : {None, Publish} \cup Edits \cup Roles, doc : Docs,
             read : {None, Damaged} \cup Docs, from : Docs, num : Nat]

RelayType == [copy : {None} \cup Docs, conns : SUBSET Roles, token : {None} \cup Roles,
              pend : {None} \cup Roles, kept : BOOLEAN]

MessageType == [kind : {"update", "invalidate"}, doc : Docs]

\* Every variable has its type, and a relay without a copy has nothing to
\* store: onStoreDocument always finds its document.
TypeOK ==
  /\ row \in {"live", "trashed", "gone"}
  /\ stored \in {None, Damaged} \cup Docs /\ rows \in Docs
  /\ call \in [Actors -> CallType]
  /\ versions \in Seq([doc : Docs, from : Docs])
  /\ relay \in [Relays -> RelayType]
  /\ inbox \in [Relays -> SUBSET MessageType]
  /\ made \in SUBSET Edits /\ waived \in Docs
  /\ faults \in Nat /\ damages \in Nat
  /\ lock \in {None} \cup Actors
  /\ \A r \in Relays : relay[r].copy = None => relay[r].pend = None

\* A transaction that is open holds the row, which is live, and what it read
\* is what is stored: nobody writes, trashes or deletes under it.
OpenTransactionIsAlone ==
  \A a \in Actors : At(a, Held) => lock = a /\ row = "live" /\ call[a].read = stored

\* The derived rows, which REST reads and the seed rebuilds a document from,
\* spell the stored document: no seed, heal, store or delete, whatever runs
\* at once, leaves one ahead of the other.
RowsMirrorDocument == Readable(stored) => rows = stored

\* No client is ever served an empty dashboard: whoever is connected has a
\* copy with the update the dashboard began with, whatever load, refresh or
\* store failed before.
NoBlankServed ==
  \A r \in Relays : relay[r].conns # {} => relay[r].copy # None /\ Base \in relay[r].copy

\* A relay that may drop its copy, or keeps it without a store to come, has
\* saved every update in it or been given a final refusal of it.
SettledIsSaved ==
  \A r \in Relays :
    row # "gone" /\ relay[r].copy # None /\ Settled(r) /\ ~relay[r].kept
      => Unsaved(relay[r].copy) \subseteq waived

\* A version holds everything that was saved when its publish began, however
\* publishes, stores and heals overlap.
VersionsFollowDraft ==
  \A i \in DOMAIN versions : versions[i].from \subseteq versions[i].doc

Shared == INSTANCE SharedDoc WITH state <- row, content <- Content

\* The two-step transactions of every writer together are one document that
\* only gains updates while live, rests in the trash and ends with its row.
ImplementsSharedDoc == Shared!Spec

\* Once the dashboard is trashed or deleted for good, every client is
\* disconnected and every copy dropped even if the notice is lost, except a
\* copy whose last store failed without a final answer.
DeadCopiesLeave ==
  <>[](row # "live")
    => <>[](\A r \in Relays : /\ relay[r].conns = {}
                             /\ (relay[r].copy = None \/ relay[r].kept))
=============================================================================
