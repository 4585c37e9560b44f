# A verification of Aether Notebooks

TLA+ modules of the concurrent core of Aether Notebooks, the TLC configurations
that check them on small instances, and TLAPS proofs, for every value of their
constants, that their safety properties hold. Paths are relative to the
repository; `W` stands for `internal/api/warehouse_sync.go`.

- [The system](#the-system): its parts, their state, how they interact, what is hard
- [The modules](#the-modules): what each models and how it corresponds to the code
- [The runs](#the-runs): what each checks, its bounds and its fairness
- [The proofs](#the-proofs)
- [What the code does that its documentation does not say](#what-the-code-does-that-its-documentation-does-not-say)
- [Not modelled, and why](#not-modelled-and-why)
- [The plan](#the-plan)

`PROJECT.json` lists the components, the runs, for every property a mutation of
the model that breaks it, the lines of source each definition translates, the
hazards and the theorems.

## The system

Aether is a notebook and dashboard platform: any number of identical API
servers (Go) over one PostgreSQL database, Redis for pub/sub and replay buffers,
a collaboration relay (Hocuspocus/Yjs, TypeScript), and customers' ClickHouse
warehouses. An API server is a process with goroutines per request, per
WebSocket connection, per agent turn, per subscription and for background loops.
Processes share nothing but PostgreSQL, Redis and the warehouses.

| part | state | operations | talks to |
|---|---|---|---|
| Sync worker (`internal/chaccess/sync.go`) | per process: `queued`, `active`, `rerun`, `kicks`, a semaphore, a wait group | `Enqueue`, `EnqueueNow`, a goroutine for each busy warehouse, `Close` | is asked by the triggers and the loop, calls `reconcileWarehouse` |
| Managed warehouse access (`W`, `warehouse_handlers.go`, `warehouse_invalidation.go`, `execution_target.go`) | `warehouses` row (provisioner, `sync_status`, `applied_master_fp`), ACL and group tables, an advisory lock; users, roles and grants in ClickHouse | reconcile, admin changes, delete, periodic loop, query gate | sync worker, pool (invalidation over Redis), ClickHouse |
| Connection pool (`internal/executor/pool.go`) | per process: a map of entries with reference counts, an LRU list | `Get`, release, `InvalidateUsers`, `Invalidate`, `CloseIdle`, `CloseAll` | queries, invalidation |
| Session stream (`internal/agent/stream.go`) | Redis: a counter, a trimmed buffer, a channel per session; per process: a pump, subscribers, fallback markers; per viewer: a sequence clock and a throttle | publish, fall back, retry, pump, catch up, subscribe, retire, reconcile | agent turns publish, WebSocket viewers read |
| Agent turns (`internal/api/agent_ws.go`, `internal/agent/engine.go`, `session.go`) | per connection `processing` and a cancel function; per process `sessionCancels`, pending confirmations, steering mailboxes; `agent_messages` | message, steer, cancel, confirm, the turn loop | LLM, tools, the stream |
| Dashboard documents (`internal/dashboarddoc`, `internal/api/dashboard_doc_*.go`) | `dashboard_yjs_documents`, `dashboards`/`widgets` derived from them, `dashboard_versions` | merge and store, lazy seed and heal, materialise, publish, trash, restore, purge | relay, agent tools, REST |
| Relay (`relay/src`) | resident Y.Docs, a token per document, revalidation timers | authenticate, load, store, fan-in, refresh, invalidate, unload | internal API, Redis, browsers |
| Folders (`internal/api/folder_handlers.go`) | `folders.parent_id`, `deleted_at` | create, move to the root, delete, purge | database; recursive queries of permissions and purge |
| Scheduler (`internal/scheduler`) | `schedules` rows, advisory locks | claim and run, purge, roll up | database, runner |
| OAuth server (`internal/oauth`) | codes, refresh-token families | issue, consume, rotate, revoke, clean up | database |
| Permissions, SSO, groups | ACLs, folders, memberships, pending grants | resolve, grant, login sync | database; a change triggers a warehouse sync |
| Executors, notebooks, search, audit, storage, auth, CLI, web | mostly database rows | request handlers | database, drivers |

How they meet: a change of membership or grant commits and then asks the sync
worker of the serving replica for a run; the run takes the warehouse's advisory
lock, applies DDL, and invalidates the pooled sessions of every replica; queries
pass the `sync_status` gate and lease a session from their replica's pool. A turn
stores messages and publishes events; the stream carries events to the viewers on
every replica; a viewer that cannot trust what it has reconciles with the store.
A dashboard is edited by requests and agent tools, which load, change and store its
document and publish the update over Redis, and by browsers through a relay, which
loads and stores over the internal API with the token of a client and merges what
others publish.

What is hard: goroutines that hand over to each other through flags
(`sync.go`); a skipped run counted as done because another replica holds the
lock; state checked before a lock or a connection is taken; invalidations that
are best effort; sequences that start over and events with two numbers; a list and the
clock that goes with it, read one after the other; a cancel
that races the goroutine it cancels; histories broken by a crash between a call
and its result; documents that are read in one step and written in a later one, by
writers that do not know each other; copies in memory whose store fails, is refused
for good, or whose notice of deletion is lost. The `hazards` of `PROJECT.json` give each one with its line.

What makes each part correct, in a sentence:

- sync worker: no accepted request is forgotten, runs of one warehouse never
  overlap, at most so many run at once, an urgent request is not slept over, and
  `Close` drains and returns;
- warehouse access: nobody is let through while access changes, `ready` means
  current once things are quiet, no session outlives a revocation, no identity
  is orphaned by a delete, and everything converges;
- pool: a connection is closed when, and only when, nobody can get or holds it;
- stream: what a viewer was not shown it is told of, its clock never runs
  backwards, and it reconciles in the end (but for the cases named below);
- turns: the history sent to the LLM pairs every call with a result, an answer
  reaches its confirmation and never blocks the reader, a follow-up is kept, and
  a turn can be cancelled over the connection that began it;
- dashboard documents and relay: a reader never loses an update, whoever writes at
  once, nothing changes a trashed dashboard, the derived rows are the document's,
  nobody is served a blank, a copy that may be dropped is saved or was refused for
  good, a published version holds what preceded it, and copies of a dead dashboard
  leave;
- scheduler: a due schedule runs once, when its expression says;
- OAuth: a code and a refresh token are redeemed once.

## The modules

| module | stands for |
|---|---|
| `CoalescedSync` | abstract: what the sync worker promises its callers |
| `SyncService` | `chaccess.SyncService`, an action for each critical section |
| `SyncServiceProofs` | its theorems and the refinement |
| `LeasePool` | abstract: what a pool promises the queries that lease from it |
| `ConnPool` | `executor.ConnPool`, an action for each method |
| `ConnPoolProofs` | its theorems |
| `WarehouseAccess` | reconcile, triggers, delete, invalidation and the query gate, on any number of replicas |
| `WarehouseAccessProofs` | its theorems |
| `SessionStream` | `agent.StreamManager`, Redis, the viewers and how they reconcile |
| `SessionStreamProofs` | its theorems |
| `AgentTurn` | the turns of one agent session |
| `AgentTurnProofs` | its theorems, some for turns that do not overlap |
| `SharedDoc` | abstract: the one document that readers of a dashboard see |
| `DashboardDoc` | one dashboard: its rows, its writers and publishers, its relays and their clients |
| `DashboardDocProofs` | its theorems |
| `FoldInduction` | lemmas: induction over a sequence or a finite set, for the proofs about folds |
| `MC...` | symmetry sets and budgets for TLC |

**SyncService.** `queued`, `active`, `rerun`, `kicks` are the maps; `sem` counts
the tokens in the channel, `wg` the wait group; `svc` is `closed` and the progress
of `Close`. A goroutine has a program counter for the places where it does not
hold the mutex: in its debounce (`debounce`), between timer and mutex (`woken`),
waiting for a token (`slot`), in a run (`reconcile`, `backoff`), before giving the
token back, before the re-check of `rerun` (`settle`), and in its two deferred
functions (`cleanup`, `done`). `buffered` is the one-element buffer of its kick
channel. Two history variables say which warehouses have a request, or an urgent
one, that no attempt has started after. Time is not counted: a timer may fire at
any moment. `CoalescedSync` keeps, per warehouse, the number of runs owed (at most
two: the next one and a rerun) and says requests coalesce but never into a run
that has begun.

**ConnPool.** Every method holds the mutex from start to end and is one action;
`Detach` is `detachLocked`, `Evict` is `evictLocked`. Time is one bit of a
connection (`IdleTTL` has passed since `lastUsed`). `LeasePool` knows only which
connection is offered for a key, who holds what, what is open and with which
configuration it was made, and says a connection is open exactly as long as it is
offered or held.

**WarehouseAccess.** One warehouse, one user, a set of roles. A replica's worker
is taken to be what `CoalescedSync` promises: it owes a run, or not; `run[r]` is
`reconcileWarehouse` cut at each statement, query and status write, including the
header read before the lock, the skip when the lock is held, the fail-closed path
with its invalidation, and the retries. `del` is the delete handler cut the same
way. `session[r]` is a resident session with the roles its login got; `gated`
are the queries between the status check and the pool. The invalidation is a
message that reaches the own pool at once, and the others or some of them later.
`missed`, `late` and `deaf` are history variables: they say what a property
excuses, and each is described below.

**SessionStream.** `redis` is the counter and the buffer of a session, with both
Lua scripts as one step each (`Committed`); `pod[p]` the `SessionStream` of a
replica, its pump (`off`, `dial`, `subscribed`, `live`), the queue of the pub/sub
channel, and the channel of its subscriber with its drop-oldest overflow (`Push`);
`fell[p]` the fallback marker with its retrier, which publishes the watermark it
read (`Retry`, or `RetryFails`) and drops the marker later (`RetryEnds`), `recov[p]`
forced markers taken over by a publish that succeeded. `view[p]` is the viewer: its
clock (`last`), a request to reconcile that waits for the connection's reader
(`asked`), whether the page has called `requestResync` before (`before`, without
which the throttle of 30 s cannot hold a request back), and the reply on its way.
A reconcile is cut at its reads: `ReadMessages`, `QueueReply` (the `server_seq`, read
after the messages), `Reconnected` (the page applies it, in any order with the events
that come through the other queue), or `Unanswered`. As history, `view[p]` has what the
viewer has not seen (`missing`), what was published since the messages of the reply
were read (`since`), and the kinds of loss met since the messages were last read
(`lost`). `spent` counts faults and, as history, says whether a
marker was dropped (`forgotten`), the counter lost (`reset`) or an event delivered
without Redis (`fanned`). `Delivered` is `deliverLocked` with its duplicate,
reset and gap cases, `Replayed` one entry of `catchUpSessionStream`.

**AgentTurn.** `conn` holds what the read loop of a connection keeps; a turn is
named by the message that began it and has a program counter along
`handleUserMessage` and `ProcessMessage`: `spawned`, `registered`, `loaded`,
`boundary` (checkpoint), `llm`, `calls`, `confirming`, `final`, `ending`,
`announcing`. `log` is `agent_messages`: roles and ids only. `Rebuilt` and
`Sanitized` are what the engine makes of the stored rows; `Paired` is what an LLM
provider requires of the result. The constant `Overlaps` says whether an instance
lets a turn begin while the call of `ProcessMessage` of another has not returned. The
code does not prevent it (see below), so the instance with `Overlaps = FALSE` says what
one turn after another guarantees, and the one with `TRUE` what overlap breaks. In
both, a turn may begin while the one before it announces its end: the connection is
free (`EndTurn`) before the goroutine reads the usage, publishes `done` and deletes the
session's cancel entry (`Announce`), whosever that is by then.

**DashboardDoc.** A document is the set of updates merged into it, since a CRDT
merge is a union; `stored` is `dashboard_yjs_documents.state` (or none, or bytes
that do not decode), `rows` the title, settings and widgets as the document they
spell, `lock` the holder of the dashboard row's `FOR UPDATE`. `call[a]` is one call
to the API: a request or an agent tool (`load`, then `store` or, for a publish,
`number` and `insert`), or a relay's GET or PUT. A transaction has two steps:
`Locks` takes the row and reads, `LoadCommits` (seed or heal) or `StoreCommits`
(merge, derived rows) writes. `relay[r]` is a relay's resident copy, the roles of its clients, the
cached token, the context of the debounced store (`pend`), and `kept`, which says
that the last store failed without a final answer. `Abandons` is the store whose
answer (404, 403, or a 204 that wrote nothing) the relay takes for final. `inbox`
are Redis messages; one that is lost is never taken. Edits are each made once;
`waived` is a history variable. `SharedDoc` has a document that only gains updates
while live, rests in the trash, and ends with its row.

## The runs

Every passing run is exhaustive. *Bounds* are constants of the `.cfg`.

| run | checks | bounds |
|---|---|---|
| `sync_worker` | `SingleFlight`, `ConcurrencyCap`, `NoLostRequest`, `PromptWake`, `NoStrayEntry`, `CloseDrains`, `ImplementsCoalescedSync`, `RequestServed`, `CloseReturns`, `ImplementsFairness` | 2 warehouses, 2 goroutines, 1 token, 2 attempts; requests unlimited |
| `access_replicas` | `GateClosedWhileApplying`, `ReadyIsCurrent`, `NoStaleSession`, `NoOrphanOnceProvisioned` | 2 replicas, 1 serving, 1 role, 1 attempt, 2 changes, 1 fault |
| `access_liveness` | `AccessConverges` | 2 replicas, 1 role, 2 attempts, 2 changes, 1 fault |
| `access_lost_provisioner` | `LostProvisionerFailsClosed` is violated | 2 replicas, 1 change, no fault |
| `pool_leases` | `ListMatchesEntries`, `RefsCountLeases`, `OverageOnlyWhileLeased`, `ImplementsLeasePool` | 2 endpoints, 2 users, 2 configurations, 4 connections, 2 queries, `MaxPools` 1 |
| `stream_faults` | `NoSilentLoss`, `ClockRunsForward` | 2 replicas, 2 events, buffer 1, channel 2, 1 fault, 1 join |
| `stream_live` | `Reconciles` | 2 replicas, 1 event, buffer 2, channel 1, 2 faults, 1 join |
| `stream_reconcile` | `AllSeen` is violated | 1 replica, 1 event, no fault |
| `stream_replay` | `DeliveredOnce` is violated | 1 replica, 2 events, no fault |
| `turn_single` | `AnswerNeverBlocks`, `AnswerReaches`, `PairedHistory`, `FollowUpKept`, `OwnCancelReaches` | 2 messages, 2 calls, 2 connections, 2 LLM calls, 2 attempts, mailbox 1, 2 faults |
| `turn_overlap` | `PairedHistory` is violated when turns overlap | 3 messages, 1 call, no fault |
| `dashboard_doc` | `OpenTransactionIsAlone`, `RowsMirrorDocument`, `NoBlankServed`, `SettledIsSaved`, `VersionsFollowDraft`, `ImplementsSharedDoc`, `DeadCopiesLeave` | 1 relay with an editor and a viewer, 2 requests, 2 edits, 1 version, 1 fault, 1 damage, `Budget` 2 |

Every module also has its type invariant checked,
which carries the bounds that are not types (attempts, tokens, buffer and channel
lengths, LLM calls of a turn).

Why the bounds are enough for the cases that matter:

- `sync_worker`: two goroutines are enough for a drain whose deferred clean-up
  overlaps its successor's whole life, and for two warehouses that compete for the
  one token; a third goroutine adds one more waiting for the same things.
- `access_*`: two replicas are enough for the skipped run, the lock and the late
  invalidation; one serving replica that is not always the one that reconciles is
  enough for a session that is invalidated from elsewhere or by its own worker;
  two changes allow a change during a run and a delete after it; the one fault may
  be any failure, crash or lost message. With one attempt in `access_replicas`
  a failed run is given up at once, which is the harder case for these safety
  properties; `access_liveness` has retries.
- `pool_leases`: four keys with one place mean an eviction at every `Get`, two
  queries allow a shared connection, a detached one that is still leased, and a
  pool above its limit.
- `stream_faults`: two events and their markers trim a buffer of one and overflow a
  channel of two; the fault is a failed call (with the script run or not), a lost
  message, a closed channel, a request without an answer or the loss of the counter.
  What two faults do together, such as a retry that fails after a publish that
  failed, is left to `stream_live` (on one event) and to the proof of `NoSilentLoss`,
  which has no bound on the faults. `stream_live`: one event, published in a fallback
  and followed by its marker, is enough for a viewer that has to be told; a channel of
  one overflows with the two.
- `turn_*`: two messages are two turns from either connection, the second while the
  first announces its end, or a turn and its follow-up; two calls are a batch, or two
  in a row, of which a crash or a failed write may lose one or both; `turn_overlap`
  needs a third message for the turn that reads what the other two left.
- `dashboard_doc`: two writers are a request and the relay's PUT, or two requests;
  a third actor, the relay's GET, seeds or heals beside them. `Budget` is shared by
  edits, a publish and damage, less the failed call: of each kind one or two happen
  in a behaviour, in every combination of two. `Calm` lets two requests race only
  while no client is connected; only what users begin is held back, never a step
  that is owed. One relay is enough for the safety properties, since relays meet
  only in the database and a request can do there what another relay's PUT does.

Where an instance really may stop, a stuttering `Idle` (or `Terminated`) says so:
its guard names the states in which nobody has to do anything, and a state that is
stuck elsewhere is reported as a deadlock.

**Fairness.** `SyncService!FairSpec`: each goroutine goes on (the Go scheduler),
and a goroutine that waits for a token gets one when tokens keep coming back
(strong fairness for `AcquireSlot`: senders on a channel queue in order). `Close`
goes on once called. Nobody has to request or close. `WarehouseAccess!FairSpec`:
a worker goes on with the run it owes (what `SyncService` guarantees), the periodic
loop ticks, messages in flight arrive, a delete handler goes on. Nobody has to
change, query or fail, and crashes are bounded. `SessionStream!FairSpec`: pump and
retrier are goroutines, a publisher finishes its marker, writer and viewer keep
reading, and the reader of a connection goes on with a request it took. That a request
goes unanswered is an action of its own (`Unanswered`), which disables the next step of
the reconcile; so the fairness of `ReadMessages`, `QueueReply` and `Reconnected` forces
only the reconciles that do not fail. Publishing, connecting, asking and failing are
never forced. `DashboardDoc!FairSpec`:
a relay's GET and PUT end (`AbortSignal.timeout`), the debounced store fires,
Hocuspocus unloads what nobody uses, and the minute timer authorizes each
connection again; users, requests and messages owe nothing.
`ImplementsFairness` shows that the fairness of the worker's code yields the one
its abstraction states.

**What the properties excuse.** They hold up to the behaviours below, each of
which is visible in the formula. `ReadyIsCurrent` excuses `missed`: a run that was
asked for and lost (a failed trigger lookup, a skip, exhausted attempts, a crash),
which is what the periodic loop repairs (`AccessConverges`). `NoStaleSession`
excuses `late` (the session was opened after the gate had closed behind the query)
and `deaf` (no invalidation reached it). `NoOrphanOnceProvisioned` is about
warehouses with a successful run. `NoSilentLoss` and `Reconciles` excuse, by
name: a marker that a replica gave up or dropped (`forgotten`), a lost counter (`reset`),
and, from the moment it happens until the viewer's messages are read again, a catch-up
that found the buffer trimmed and could not tell (`cut`), a marker that came within 30 s
of the last request, so that nothing was requested (`throttled`), a request without an
answer, which nobody repeats (`unanswered`), and a reply that raised the clock over an
event it does not hold or took one back (`overtaken`). For liveness a loss at the tail,
which no later event tells of, is excused too. `OwnCancelReaches` is about the
connection that began the turn: over another one, the cancel of a turn whose entry the
turn before it deleted is lost.
`ClockRunsForward` is about streams without a local fan-out. `SettledIsSaved`
excuses `waived`, the updates in a document whose store was refused for good, and a
copy that is `kept`, which stays in memory; `DeadCopiesLeave` excuses a `kept` copy.

## The proofs

Every safety invariant and both refinements that the passing runs check are also
proved by TLAPS, for every value of the constants that satisfies the modules'
assumptions (`WorkersAssumption`, `LimitsAssumption`, ...). Three invariants of
`AgentTurn` are proved for turns that do not overlap, as the run checks them: the
condition is part of the theorem.

`SyncServiceProofs`: `Spec` implies each of `TypeOK`, `SingleFlight`,
`ConcurrencyCap`, `NoLostRequest`, `PromptWake`, `NoStrayEntry` and `CloseDrains`.
None but a part of `TypeOK` is inductive. The invariant `IInv` adds what the code
keeps true between its maps and its goroutines: at most one goroutine of a
warehouse is draining (`OneDrainer`), a warehouse is in `queued` or `active`
exactly when one is, in the map that fits its place in the loop, and `rerun` only
when it is active (`EntryInv`); the registered kick channel is the drainer's or
that of a goroutine on its way to its deferred delete (`KickInv`), which is why the
identity check in that delete matters; the counters equal the cardinalities of the
goroutines they count (`CountInv`); an unserved urgent request is in the buffer of
a goroutine that sleeps (`UrgentInv`). `Counting` states the facts about finite
sets; each part of `IInv` has a lemma with one step per action. The second half of
the module shows that `Spec` implies `CoalescedSync!Spec` under the mapping that
counts, for a warehouse, one owed run when its goroutine is on the way to one and
one more for `rerun`: each action maps to a step of the abstraction or a stutter.

`WarehouseAccessProofs`: `TypeOK`, `GateClosedWhileApplying`, `ReadyIsCurrent`,
`NoStaleSession` and `NoOrphanOnceProvisioned`, for any replicas, roles, attempts,
changes and faults. The invariant says who holds the advisory lock at each place of
a run and of a delete (`LockInv`), what a deleted row stops (`RowInv`), that the
statements left are those that still separate what is from what is wanted
(`PlanInv`), that what a run has read is current or another run will read what is
(`WantInv`, `ReadyInv`), what a delete past its revocation leaves (`OrphanInv`), and
which sessions a message or a later step still has to reach (`SessionInv`). The gate
follows from the lock: only its holder writes `ready`.

`ConnPoolProofs`: the reference count is the number of leases, and `Spec` implies
`LeasePool!Spec`. The invariant says a resident connection is open, alive and at
one key only; a leased one is open; an open one is resident or leased; a dead one
is leased and not resident; and the count of every open one is the number of its
leases. The evicting actions are lifted to `Detach` of a set of idle keys, so the
argument about `Detach` is made once. For `TypeOK`, `ListMatchesEntries` and
`OverageOnlyWhileLeased` the invariant gains the LRU list: what `detachLocked`
filters out of it is found by induction over its length.

`SessionStreamProofs`: `TypeOK`, `ClockRunsForward` and `NoSilentLoss`, for any
number of replicas, events, faults and connections and any size of buffer and
channel. The first two follow from types and from the order of a channel, which
`push` keeps when it evicts, since the marker takes the sequence of the event it
replaces. `NoSilentLoss` needs `Good`, which speaks of behaviours in which no marker
was dropped and the counter is intact. A viewer is taken as it will be when the reply on
its way is applied: its clock then (`Clock`) is never above the log but by a floor that
some marker still owes; and while none is owed, each event it will lack then
(`Lacking`) is promised by its channel (the event or a later marker is in it), or an
entry of the log that tells of it is ahead of the pump, in its queue or in the buffer it
will read, or a loss was named since the messages were last read. A failed publish, whose
script may have run, a retry, a lost message, an overflowing channel and each step of a
reconcile move an event between these cases. What a catch-up does to a channel is an
induction over the buffer.

`AgentTurnProofs`: `TypeOK`, `AnswerNeverBlocks` and `FollowUpKept`, whether turns
overlap or not; `AnswerReaches`, `OwnCancelReaches` and `PairedHistory` for
`Overlaps = FALSE`, without which `turn_overlap` refutes the last. The first of these
rest on one fact: at most one turn is active but for those that announce their ends,
which touch neither the map of confirmations nor any connection; so what the turn puts
there stays there. `PairedHistory` is about two passes over
a list. A walk over a history (`Scan`) keeps six sets of calls: those seen since the
last user message, those that may be answered now, those that were, and the answers
and calls that are out of place. The proof says what the walk makes of each kind of
row, what each pass of `sanitizeChatMessages` does to it, what the history of a turn
may therefore contain at each place of the turn, and that the log, whatever a crash
or a failed write left out of it, is such that the next turn's history is good again.

`FoldInduction` has the induction that these three modules need. The provers do
not instantiate a theorem's operator parameter, so its principles are stated about
sets (a set that holds 0 and successors holds every number), and the step of the fold
is a constant of the module, given a value by `INSTANCE`.

`DashboardDocProofs`: `Spec` implies `TypeOK`, `OpenTransactionIsAlone`,
`RowsMirrorDocument`, `NoBlankServed`, `SettledIsSaved`, `VersionsFollowDraft` and
`SharedDoc!Spec`, for any number of relays, requests and edits and without the
run's `Budget`. The invariant adds what makes them inductive: each call is only in
places of its kind (`CallsFit`); rows, stores and copies have the title and the
settings (`RowsRooted`, `CallsRooted`, `CopiesRooted`); a copy is saved, refused,
kept, about to be stored, or in the store under way (`Saved`); a publish holds what
it began with (`DraftsFollow`). Since a transaction is alone, every step treats the
stored state in one of six ways (`StoredStep`); from that alone follow that content
only grows (`ContentGrows`) and the refinement (`SharedStep`).

Only model-checked: `RequestServed`, `CloseReturns`, `ImplementsFairness`,
`AccessConverges`, `Reconciles` and `DeadCopiesLeave`. They are liveness properties
under fairness, which the prover does not reach.

## What the code does that its documentation does not say

With a counterexample (`findings`):

- A warehouse that loses its provisioner connector while a replica is in the middle
  of a run stays `ready`: the run of the other replica is skipped by the advisory
  lock (`W:106-109`), the run in flight writes `ready` (`W:219`), and the loop passes
  over warehouses without a provisioner (`W:1083`), although the handler promises to
  fail closed (`connector_handlers.go:558-560`). `access_lost_provisioner`.
- A viewer may be handed, as a new event, one that it has seen: a catch-up can replay
  several events that are still queued on the live channel, and `deliverLocked` takes
  only the last of them for a duplicate (`stream.go:788`) and the lower ones for a
  counter reset (`stream.go:794`), which it re-bases to new sequences; the comments
  promise exactly-once delivery (`stream.go:351-352`). `stream_replay`.
- Two turns of one session may overlap, from two connections or after a cancel, since
  `processing` belongs to a connection (`agent_ws.go:226`) and a cancel clears it
  while the old turn runs (`agent_ws.go:348`). Their stored messages interleave, and
  `sanitizeChatMessages` then answers a call with a placeholder and keeps the result
  that follows another turn's message (`engine.go:424-440`), against its own comment
  (`engine.go:384-386`). `turn_overlap`.
- A reconcile reads the messages (`agent_ws.go:379`) before the `server_seq`
  (`agent_ws.go:394`): an event stored and published in between is not in the list of the
  reply and below its clock, so the page drops it as seen (`AgentPanel.tsx:873`), although
  the reply is called the authoritative state (`agent_ws.go:375`) and its clock a jump
  past what was already reconciled (`AgentPanel.tsx:945-946`). `stream_reconcile`.

Excused in the formulas, or left out and described here:

- Stream: `cleanupSessionStream` forgets the marker of an unreachable Redis
  (`stream.go:342`, against the comment at `:424-426`); after a counter reset a
  catch-up before the first live event compares sequences of two counters and hides
  entries (`stream.go:701`, comment `:653-655`); a first catch-up from a trimmed
  buffer does not tell its viewer (`stream.go:687`, comment `:27-28`); `publishLocal`
  pushes under a read lock, so that two concurrent fallbacks on a full channel may
  lose an event and its marker (`stream.go:566`). A fallback on a replica without a
  stream has the sequence 0 and raises no watermark (`stream.go:435`), so that a
  retrier whose marker is in flight deletes the record of it (`stream.go:505`),
  against `:515-516`. The marker of a later catch-up carries the start of the missing
  range and not its end (`stream.go:708`), so a viewer whose clock `server_seq` has
  raised beyond it drops it as seen, which `:801-802` avoids for a live gap; the
  attempt to prove `NoSilentLoss` without `CutShort` found this one. A marker within 30 s
  of the last request is swallowed: the clock is raised and nothing is requested, then
  or later (`AgentPanel.tsx:577`, against the comment at `:910`). A reconcile whose
  permission check or read fails, or whose reply finds the writer's queue full, gets no
  answer and is not repeated (`agent_ws.go:361-367`, `:383`, `:232-236`).
- Access: the gate is checked before the pooled session is opened
  (`execution_target.go:102`), so a query may open a session after the run that
  revokes its roles has invalidated; a revocation that fails after its first
  statement has told no pool (`W:649`, comment `W:653-654`); a warehouse whose every
  run failed has no `applied_master_fp`, and its identities are not looked for by a
  delete without a provisioner (`W:621`, `warehouse_handlers.go:883-884`).
- Pool: `CloseIdle` measures idle time from the last `Get` and not from the last
  release (`pool.go:174`, against `pool.go:23`).
- Turns: a follow-up accepted after the last checkpoint waits for the next turn
  (`agent_ws.go:454`, comment `:450-452`); a cancel before the goroutine has stored
  its cancel function finds nothing to cancel (`agent_ws.go:345`), and a turn that
  ends deletes the session's entry, whosever it is (`agent_ws.go:491`), and its connection
  is free before that (`:592-595`), so that an ordinary follow-up turn may lose its entry:
  a cancel over another connection then misses it, against the comment at `:339`; an answer
  resolves whatever confirmation is pending and not the tool it names
  (`engine.go:162`); the final message is stored under the turn's context and
  announced whether or not it was stored (`engine.go:1142`).
- Dashboards: a fan-in is stored with the cached token (`index.ts:366`), which may be
  a viewer's; its 403 is final (`index.ts:252`), and an edit of the editor beside that
  viewer that waits in the same debounced store is given up. The state is read before
  the version number is claimed (`publish.go:195`), so that a later version may hold
  an earlier state, and the third of three concurrent publishes fails. A copy whose
  last store failed stays after its dashboard is deleted, where
  `dashboard_doc_events.go:20` counts on every copy to leave.
- Folders (read, not modelled): the cycle guard of a move names its common table
  expression `desc`, which PostgreSQL reserves, without quotes
  (`folder_handlers.go:1643-1650`), so every move under a folder is answered with 500
  (`:1652-1655`).
- Scheduler (read, not modelled): the claim moves `next_run_at` by a minute and does
  not consult `cron_expression` (`scheduler.go:103`), which only the handlers that
  create and update a schedule do.

## Not modelled, and why

`PROJECT.json` lists every component. Scheduler, OAuth and permissions are next
(below). Folders are left out because only moves to the root reach their update. Left
out for good: executors, drivers, LLM and tools (I/O
whose results the models choose); CRUD handlers, each one statement or transaction;
string work (SQL parsing, quoting, chart and widget validation), covered by unit
tests; the web front end apart from the viewer's clock; CLI, audit, storage,
configuration.

Abstractions inside the modelled parts: the desired roles of a warehouse are one
set, not `chaccess.Compute`; master-key rotation, password statements and the kill
switch are out of `WarehouseAccess`, and so is a run that outlives the connection
of its lock (`W:897`), which nothing in the code detects; a replica of
`SessionStream` has one viewer; `AgentTurn` has no contents, compaction or
sub-agents, and `ask_question` waits like a confirmation. `DashboardDoc` leaves out
what updates say: tombstones and the last writer of a field, widgets that
`Materialize` drops because what they refer to is gone, and rows changed by a
deleted connector; Hocuspocus and Yjs themselves, the Redis extension that syncs
relays with each other, notebook documents, role changes of a connected client, and
retention times. That Hocuspocus keeps a copy in memory whose store failed, and does
not unload it with its last client, is taken from the relay's comments
(`index.ts:261-264`): `SettledIsSaved` rests on it.

## The plan

1. `SyncService`, `CoalescedSync`, proofs, refinement. *Done.*
2. `ConnPool`, `LeasePool`, proofs. *Done.*
3. `WarehouseAccess`, proofs. *Done.*
4. `SessionStream`, proofs. *Done.*
5. `AgentTurn`, proofs. *Done.*
6. `DashboardDoc`, `SharedDoc`, proofs, refinement. *Done.*
7. `Scheduler`: replicas, claims, connections of the pool with session locks.
   Properties: a run follows the cron expression, a tick always ends.
8. `RefreshFamilies`: rotation and reuse detection as transactions with row locks and
   statement snapshots.
9. Effective permissions along the folder path, against a reference definition.
