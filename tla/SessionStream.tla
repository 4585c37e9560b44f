---------------------------- MODULE SessionStream ----------------------------
(***************************************************************************)
(* agent.StreamManager: the events of one agent session, published by any  *)
(* replica through Redis (a counter, a trimmed replay buffer and pub/sub)  *)
(* and pumped by each replica to its viewer; the in-memory fan-out when    *)
(* Redis fails, with the resync marker it owes; and the viewer that drops  *)
(* what it takes for duplicates and reconciles with the database when told *)
(* to.                                                                     *)
(*                                                                         *)
(* A viewer is a WebSocket connection (agent_ws.go), at most one for each  *)
(* replica here.  An event stands for a change that was stored before it   *)
(* was published, so the messages a reconcile reads hold all that was      *)
(* published by then; the server_seq that goes with them is read later,    *)
(* and the reply is written and applied later still.  Requests that wait   *)
(* for the reader are answered by one reply, and the next is taken up when *)
(* the reply before it was applied: of several replies the last one counts.*)
(* MaxFaults bounds the Redis calls that fail, the pub/sub messages that   *)
(* are lost, the channels that close, the losses of the counter and the    *)
(* requests to reconcile that go unanswered, MaxJoins the connections of   *)
(* the viewers.                                                            *)
(***************************************************************************)
EXTENDS Naturals, FiniteSets, SequencesExt

CONSTANTS
  Pods, Msgs,
  BufferMax,  \* sessionStreamBufferMax
  ChanMax,    \* bufSize of the subscription
  Resync,     \* the resync marker
  None,
  MaxFaults, MaxJoins

ASSUME BoundsAssumption ==
  /\ BufferMax \in Nat \ {0} /\ ChanMax \in Nat \ {0}
  /\ MaxFaults \in Nat /\ MaxJoins \in Nat
ASSUME MarkersAssumption == Resync \notin Msgs /\ None \notin Nat

VARIABLES
  redis,   \* the counter and the replay buffer
  pod,     \* each replica's SessionStream, its pump and its subscriber
  fell,    \* each replica's fallbackMarker and its retrier
  recov,   \* each replica's forced markers about to be published
  view,    \* each replica's viewer
  todo,    \* events not yet published
  spent    \* faults and joins so far, and what the properties excuse

vars == <<redis, pod, fell, recov, view, todo, spent>>

Entry(n, m) == [seq |-> n, msg |-> m]
Highest(a, b) == IF a > b THEN a ELSE b

NoStream == [alive |-> FALSE, sub |-> FALSE, ready |-> FALSE, lastSeq |-> 0, offset |-> 0,
             nextSeq |-> 0, pump |-> "off", wake |-> FALSE, live |-> <<>>,
             ch |-> <<>>, deaf |-> TRUE]
NoMarker == [on |-> FALSE, watermark |-> 0, retrying |-> None, renewed |-> FALSE]
NoView   == [last |-> 0, missing |-> {}, asked |-> FALSE, before |-> FALSE,
             reply |-> "none", upto |-> 0, since |-> {}, lost |-> {}]

Init ==
  /\ redis = [seq |-> 0, buf |-> <<>>]
  /\ pod = [p \in Pods |-> NoStream]
  /\ fell = [p \in Pods |-> NoMarker]
  /\ recov = [p \in Pods |-> {}]
  /\ view = [p \in Pods |-> NoView]
  /\ todo = Msgs
  /\ spent = [faults |-> 0, joins |-> 0,
              reset |-> FALSE, forgotten |-> FALSE, fanned |-> FALSE]
-----------------------------------------------------------------------------
(* Delivery to a subscriber of a stream s. *)

(* push: a full channel loses its oldest event and the new one, and gets a  *)
(* marker.                                                                  *)
Push(s, e) ==
  [s EXCEPT !.ch = IF Len(@) < ChanMax THEN Append(@, e)
                   ELSE Append(Tail(@), Entry(e.seq, Resync))]

(* Mutant for ClockRunsForward: a reset is announced but not re-based. *)
DeliveredRaw(s, e) ==
  LET n == e.seq + s.offset IN
  IF ~s.sub \/ ~s.ready \/ n = s.lastSeq THEN s
  ELSE IF n < s.lastSeq \/ n > s.lastSeq + 1
       THEN [Push(s, Entry(n, Resync)) EXCEPT !.lastSeq = n]
  ELSE [Push(s, Entry(n, e.msg)) EXCEPT !.lastSeq = n]

(* deliverLocked. *)
Delivered(s, e) ==
  LET n == e.seq + s.offset IN
  IF ~s.sub \/ ~s.ready \/ n = s.lastSeq THEN s
  ELSE IF n < s.lastSeq THEN
    [Push(Push(s, Entry(s.lastSeq + 1, Resync)), Entry(s.lastSeq + 2, e.msg))
       EXCEPT !.offset = s.lastSeq + 2 - e.seq, !.lastSeq = s.lastSeq + 2]
  ELSE IF n > s.lastSeq + 1 THEN [Push(s, Entry(n, Resync)) EXCEPT !.lastSeq = n]
  ELSE [Push(s, Entry(n, e.msg)) EXCEPT !.lastSeq = n]

(* Mutant for NoSilentLoss: a trimmed gap is passed over. *)
ReplayedUnmarked(s, e) ==
  LET n == e.seq + s.offset
  IN IF n <= s.lastSeq THEN s ELSE [Push(s, Entry(n, e.msg)) EXCEPT !.lastSeq = n]

(* One buffered entry of catchUpSessionStream. *)
Replayed(s, e) ==
  LET n == e.seq + s.offset
      t == IF s.ready /\ n > s.lastSeq + 1 THEN Push(s, Entry(s.lastSeq + 1, Resync)) ELSE s
  IN IF n <= s.lastSeq THEN s ELSE [Push(t, Entry(n, e.msg)) EXCEPT !.lastSeq = n]

CaughtUp(s, entries) ==
  IF s.sub THEN [FoldLeft(Replayed, s, entries) EXCEPT !.ready = TRUE] ELSE s
-----------------------------------------------------------------------------
(* The two scripts: the next seq, above floor, appended to the buffer and   *)
(* published.  Pub/sub reaches the pumps in D of those that listen.         *)
Listening == {p \in Pods : pod[p].pump \in {"subscribed", "live"}}

NextSeq(floor) == Highest(redis.seq, floor) + 1

(* Mutant for TypeOK: the buffer is never trimmed. *)
CommittedUntrimmed(n, m) == [seq |-> n, buf |-> Append(redis.buf, Entry(n, m))]

Committed(n, m) ==
  LET buf == Append(redis.buf, Entry(n, m))
  IN [seq |-> n, buf |-> IF Len(buf) > BufferMax THEN Tail(buf) ELSE buf]

(* deaf: the latest entry did not reach the pump, or reached it before its *)
(* subscriber was ready (history).                                         *)
Arrived(n, m, D) ==
  [p \in Pods |->
     IF p \notin Listening THEN pod[p]
     ELSE IF p \in D THEN [pod[p] EXCEPT !.live = Append(@, Entry(n, m)), !.deaf = FALSE]
     ELSE [pod[p] EXCEPT !.deaf = TRUE]]

(* seedLocalSeq on replica p. *)
Seeded(pods, p, n) ==
  IF pods[p].alive THEN [pods EXCEPT ![p].nextSeq = Highest(@, n)] ELSE pods

(* publishLocal: the seq it assigns, and the stream afterwards. *)
LocalSeq(s) == IF s.alive THEN s.nextSeq + 1 ELSE 0

FannedOut(s, m) ==
  LET n == s.nextSeq + 1
      t == [s EXCEPT !.nextSeq = n]
  IN IF ~s.alive THEN s ELSE IF s.sub THEN Push(t, Entry(n, m)) ELSE t

(* markFellBack; takeFellBack, clearFallback and forgetFallback leave no    *)
(* marker.  renewed: a fallback since the retrier last read the watermark   *)
(* (history).                                                               *)
Marked(f, n) ==
  IF f.on THEN [f EXCEPT !.watermark = Highest(@, n), !.renewed = (f.retrying # None)]
  ELSE [f EXCEPT !.on = TRUE, !.watermark = n]

(* Every viewer now lacks m, and so does a reply whose messages were read  *)
(* (history).                                                              *)
Owed(m) ==
  [p \in Pods |->
     IF ~pod[p].sub THEN view[p]
     ELSE [view[p] EXCEPT !.missing = @ \cup {m},
             !.since = IF view[p].reply = "none" THEN @ ELSE @ \cup {m}]]

Fault(n) == spent.faults + n <= MaxFaults
Spend(n) == [spent EXCEPT !.faults = @ + n]

(* Publish succeeds, and takes over a pending marker. *)
Publish(p, m) ==
  /\ m \in todo
  /\ \E D \in SUBSET Listening :
       LET lost == Cardinality(Listening \ D)
           n == NextSeq(0)
       IN /\ Fault(lost) /\ spent' = Spend(lost)
          /\ redis' = Committed(n, m)
          /\ pod' = Seeded(Arrived(n, m, D), p, n)
  /\ IF fell[p].on
     THEN /\ recov' = [recov EXCEPT ![p] = @ \cup {fell[p].watermark}]
          /\ fell' = [fell EXCEPT ![p] = NoMarker]
     ELSE UNCHANGED <<recov, fell>>
  /\ view' = Owed(m)
  /\ todo' = todo \ {m}

(* Mutant for Reconciles: without a viewer here nobody is told. *)
PublishFailsUnmarked(p, m) ==
  /\ m \in todo /\ Fault(1)
  /\ pod' = [pod EXCEPT ![p] = FannedOut(@, m)]
  /\ fell' = IF pod[p].alive THEN [fell EXCEPT ![p] = Marked(@, LocalSeq(pod[p]))] ELSE fell
  /\ spent' = [Spend(1) EXCEPT !.fanned = @ \/ pod[p].alive]
  /\ view' = Owed(m)
  /\ todo' = todo \ {m}
  /\ UNCHANGED <<redis, recov>>

(* It fails, before or after the script ran: the event is fanned out here,  *)
(* and the marker is owed.                                                  *)
PublishFails(p, m) ==
  /\ m \in todo /\ Fault(1)
  /\ \E ran \in BOOLEAN :
       LET n == NextSeq(0)
           pods == IF ran THEN Arrived(n, m, Listening) ELSE pod
       IN /\ redis' = IF ran THEN Committed(n, m) ELSE redis
          /\ pod' = [pods EXCEPT ![p] = FannedOut(@, m)]
  /\ fell' = [fell EXCEPT ![p] = Marked(@, LocalSeq(pod[p]))]
  /\ spent' = [Spend(1) EXCEPT !.fanned = @ \/ pod[p].alive]
  /\ view' = Owed(m)
  /\ todo' = todo \ {m}
  /\ UNCHANGED recov

(* A marker above w is published; the two forms it has. *)
MarkerCommits(p, w) ==
  \E D \in SUBSET Listening :
    LET lost == Cardinality(Listening \ D)
        n == NextSeq(w)
    IN /\ Fault(lost) /\ spent' = Spend(lost)
       /\ redis' = Committed(n, Resync)
       /\ pod' = Seeded(Arrived(n, Resync, D), p, n)

Recover(p, w) ==
  /\ w \in recov[p]
  /\ recov' = [recov EXCEPT ![p] = @ \ {w}]
  /\ MarkerCommits(p, w)
  /\ UNCHANGED <<fell, view, todo>>

RecoverFails(p, w) ==
  /\ w \in recov[p] /\ Fault(1)
  /\ recov' = [recov EXCEPT ![p] = @ \ {w}]
  /\ \E ran \in BOOLEAN :
       LET n == NextSeq(w)
           pods == IF ran THEN Arrived(n, Resync, Listening) ELSE pod
       IN /\ redis' = IF ran THEN Committed(n, Resync) ELSE redis
          /\ pod' = [pods EXCEPT ![p] = FannedOut(@, Resync)]
  /\ fell' = [fell EXCEPT ![p] = Marked(@, Highest(w, LocalSeq(pod[p])))]
  /\ spent' = [Spend(1) EXCEPT !.fanned = @ \/ pod[p].alive]
  /\ UNCHANGED <<view, todo>>

(* The retrier publishes the marker it read, and then drops it if no newer  *)
(* fallback raised it.  One that was taken meanwhile it leaves alone: that  *)
(* retrier is over.  A replica without a stream falls back under the seq 0, *)
(* which raises nothing: the marker its newer fallback owes is dropped too. *)
Retry(p) ==
  /\ fell[p].on /\ fell[p].retrying = None
  /\ MarkerCommits(p, fell[p].watermark)
  /\ fell' = [fell EXCEPT ![p].retrying = fell[p].watermark]
  /\ UNCHANGED <<recov, view, todo>>

(* A failed attempt changes nothing, unless the script ran.                 *)
RetryFails(p) ==
  /\ fell[p].on /\ fell[p].retrying = None /\ Fault(1)
  /\ redis' = Committed(NextSeq(fell[p].watermark), Resync)
  /\ pod' = Arrived(NextSeq(fell[p].watermark), Resync, Listening)
  /\ spent' = Spend(1)
  /\ UNCHANGED <<fell, recov, view, todo>>

RetryEnds(p) ==
  /\ fell[p].retrying # None
  /\ fell' = [fell EXCEPT ![p] =
       IF @.retrying = @.watermark THEN NoMarker
       ELSE [@ EXCEPT !.retrying = None, !.renewed = FALSE]]
  /\ spent' = [spent EXCEPT !.forgotten =
                  @ \/ (fell[p].renewed /\ fell[p].retrying = fell[p].watermark)]
  /\ UNCHANGED <<redis, pod, recov, view, todo>>

(* Redis was out of reach for sessionStreamFallbackRetryLifetime. *)
GiveUp(p) ==
  /\ fell[p].on /\ fell[p].retrying = None
  /\ fell' = [fell EXCEPT ![p] = NoMarker]
  /\ spent' = [spent EXCEPT !.forgotten = TRUE]
  /\ UNCHANGED <<redis, pod, recov, view, todo>>

(* The counter and the buffer are lost. *)
ResetRedis ==
  /\ Fault(1) /\ redis.seq > 0
  /\ redis' = [seq |-> 0, buf |-> <<>>]
  /\ spent' = [Spend(1) EXCEPT !.reset = TRUE]
  /\ UNCHANGED <<pod, fell, recov, view, todo>>
-----------------------------------------------------------------------------
(* The pump.  A catch-up reads the buffer and replays it: what is published *)
(* in between is queued behind it in either order, so it is one step.       *)
PumpSubscribe(p) ==
  /\ pod[p].pump = "dial"
  /\ pod' = [pod EXCEPT ![p].pump = "subscribed"]
  /\ UNCHANGED <<redis, fell, recov, view, todo, spent>>

CatchUpDue(p) == pod[p].pump = "subscribed" \/ (pod[p].pump = "live" /\ pod[p].wake)

(* The clock of a viewer once the reply on its way is applied, the events   *)
(* it will lack then, and the seqs it has taken up or is about to.          *)
Clock(v) == Highest(v.last, v.upto)
Lacking(v) == IF v.reply = "none" THEN v.missing ELSE v.since
Clocks(s, v) == {Clock(v)} \cup {s.ch[i].seq : i \in 1..Len(s.ch)}

(* A catch-up finds the buffer trimmed beyond what its viewer last saw: the *)
(* first one says nothing of it, a later one hands out a marker at the      *)
(* start of the missing range, which a viewer whose clock is ahead of the   *)
(* pump drops as seen (history).                                            *)
CutShort(p) ==
  /\ pod[p].sub /\ ~view[p].asked /\ redis.buf # <<>>
  /\ IF pod[p].ready
     THEN /\ Head(redis.buf).seq + pod[p].offset > pod[p].lastSeq + 1
          /\ \E n \in Clocks(pod[p], view[p]) : n > pod[p].lastSeq
     ELSE Head(redis.buf).seq > Clock(view[p]) + 1

PumpCatchUp(p) ==
  /\ CatchUpDue(p)
  /\ pod' = [pod EXCEPT ![p] =
       [CaughtUp(pod[p], redis.buf) EXCEPT
          !.pump = "live", !.deaf = (@ /\ redis.buf = <<>> /\ spent.reset),
          !.wake = (pod[p].pump = "subscribed" /\ @)]]
  /\ view' = [view EXCEPT ![p].lost = IF CutShort(p) THEN @ \cup {"cut"} ELSE @]
  /\ UNCHANGED <<redis, fell, recov, todo, spent>>

PumpCatchUpFails(p) ==
  /\ CatchUpDue(p)
  /\ Fault(1) /\ spent' = Spend(1)
  /\ pod' = [pod EXCEPT ![p].pump = "live", ![p].ready = pod[p].sub,
                        ![p].wake = (pod[p].pump = "subscribed" /\ @)]
  /\ UNCHANGED <<redis, fell, recov, view, todo>>

PumpDeliver(p) ==
  /\ pod[p].pump = "live" /\ pod[p].live # <<>>
  /\ pod' = [pod EXCEPT ![p] = [Delivered(pod[p], Head(pod[p].live)) EXCEPT
         !.live = Tail(@), !.deaf = (@ \/ (~pod[p].ready /\ Len(pod[p].live) = 1))]]
  /\ UNCHANGED <<redis, fell, recov, view, todo, spent>>

(* The channel closes, and the pump starts over. *)
PumpReconnects(p) ==
  /\ pod[p].pump = "live" /\ Fault(1)
  /\ pod' = [pod EXCEPT ![p].pump = "dial", ![p].live = <<>>, ![p].deaf = TRUE]
  /\ spent' = Spend(1)
  /\ UNCHANGED <<redis, fell, recov, view, todo>>

(* Subscribe: the viewer connects, and asks for the stored state first.  A  *)
(* page that connects again remembers when it last called requestResync.    *)
Subscribe(p) ==
  /\ ~pod[p].sub /\ spent.joins < MaxJoins
  /\ pod' = [pod EXCEPT ![p] =
       LET s == IF @.alive THEN @ ELSE [NoStream EXCEPT !.alive = TRUE, !.pump = "dial"]
       IN [s EXCEPT !.sub = TRUE, !.ready = FALSE, !.lastSeq = 0, !.offset = 0,
                    !.ch = <<>>, !.wake = TRUE]]
  /\ view' = [view EXCEPT ![p] =
       [NoView EXCEPT !.missing = Msgs \ todo, !.asked = TRUE, !.before = view[p].before]]
  /\ spent' = [spent EXCEPT !.joins = @ + 1]
  /\ UNCHANGED <<redis, fell, recov, todo>>

Unsubscribe(p) ==
  /\ pod[p].sub
  /\ pod' = [pod EXCEPT ![p].sub = FALSE, ![p].ready = FALSE, ![p].lastSeq = 0, ![p].offset = 0,
                        ![p].ch = <<>>]
  /\ view' = [view EXCEPT ![p] = [NoView EXCEPT !.before = view[p].before]]
  /\ UNCHANGED <<redis, fell, recov, todo, spent>>

(* cleanupSessionStream: the grace period is over. *)
Retire(p) ==
  /\ pod[p].alive /\ ~pod[p].sub
  /\ pod' = [pod EXCEPT ![p] = NoStream]
  /\ fell' = [fell EXCEPT ![p] = NoMarker]
  /\ spent' = [spent EXCEPT !.forgotten = @ \/ fell[p].on]
  /\ UNCHANGED <<redis, recov, view, todo>>
-----------------------------------------------------------------------------
(* The viewer.  requestResync: it asks for the stored state, but not within *)
(* 30 s of the last time; what it misses then is lost to it, unless a       *)
(* request still waits for the reader (history).                            *)
Requested(v, within) ==
  IF ~within THEN [v EXCEPT !.asked = TRUE, !.before = TRUE]
  ELSE [v EXCEPT !.lost = IF v.asked \/ Lacking(v) = {} THEN @ ELSE @ \cup {"throttled"}]

(* An accepted event raises its clock, and a marker calls requestResync.  A *)
(* reply under way takes back what it does not hold.                        *)
Received(v, e, within) ==
  IF e.seq <= v.last THEN v
  ELSE IF e.msg = Resync THEN Requested([v EXCEPT !.last = e.seq], within)
  ELSE [v EXCEPT !.last = e.seq, !.missing = @ \ {e.msg},
                 !.lost = IF e.msg \in v.since THEN @ \cup {"overtaken"} ELSE @]

Receive(p) ==
  /\ pod[p].ch # <<>>
  /\ \E within \in {FALSE, view[p].before} :
       view' = [view EXCEPT ![p] = Received(@, Head(pod[p].ch), within)]
  /\ pod' = [pod EXCEPT ![p].ch = Tail(@)]
  /\ UNCHANGED <<redis, fell, recov, todo, spent>>

(* A tool call has waited for its result for two minutes: bounded to a page *)
(* that has not asked before.                                               *)
Watchdog(p) ==
  /\ pod[p].sub /\ ~view[p].before
  /\ view' = [view EXCEPT ![p] = Requested(@, FALSE)]
  /\ UNCHANGED <<redis, pod, fell, recov, todo, spent>>

(* The reader answers a request: it reads the messages,                     *)
ReadMessages(p) ==
  /\ view[p].asked /\ view[p].reply = "none"
  /\ view' = [view EXCEPT ![p].asked = FALSE, ![p].reply = "read", ![p].lost = {}]
  /\ UNCHANGED <<redis, pod, fell, recov, todo, spent>>

(* and then the seq, the replica's own one when Redis fails; the reply is   *)
(* queued.  What was published in between is passed over.                   *)
QueueReply(p) ==
  /\ view[p].reply = "read"
  /\ \E n \in {redis.seq, pod[p].nextSeq} :
       /\ \/ n = redis.seq /\ UNCHANGED spent
          \/ Fault(1) /\ n = pod[p].nextSeq /\ spent' = Spend(1)
       /\ view' = [view EXCEPT ![p].reply = "sent", ![p].upto = n,
                    ![p].lost = IF view[p].since = {} THEN @ ELSE @ \cup {"overtaken"}]
  /\ UNCHANGED <<redis, pod, fell, recov, todo>>

(* The permission check or the read fails, or the writer's queue is full:   *)
(* the viewer hears nothing, and does not ask again.                        *)
Unanswered(p) ==
  /\ Fault(1) /\ spent' = Spend(1)
  /\ \/ view[p].asked /\ view[p].reply = "none"
     \/ view[p].reply = "read"
  /\ view' = [view EXCEPT ![p].asked = (@ /\ view[p].reply = "read"),
                          ![p].reply = "none", ![p].since = {},
                          ![p].lost = IF view[p].missing = {} THEN @ ELSE @ \cup {"unanswered"}]
  /\ UNCHANGED <<redis, pod, fell, recov, todo>>

(* reconnect_sync: its messages replace the list, its seq raises the clock. *)
Reconnected(p) ==
  /\ view[p].reply = "sent"
  /\ view' = [view EXCEPT ![p].reply = "none", ![p].last = Clock(view[p]), ![p].upto = 0,
                          ![p].missing = view[p].since, ![p].since = {}]
  /\ UNCHANGED <<redis, pod, fell, recov, todo, spent>>

Idle == todo = {} /\ UNCHANGED vars

PumpStep(p) ==
  PumpSubscribe(p) \/ PumpCatchUp(p) \/ PumpDeliver(p)

Next ==
  \/ \E p \in Pods :
       \/ \E m \in Msgs : Publish(p, m) \/ PublishFails(p, m)
       \/ \E w \in recov[p] : Recover(p, w) \/ RecoverFails(p, w)
       \/ Retry(p) \/ RetryFails(p) \/ RetryEnds(p) \/ GiveUp(p)
       \/ PumpStep(p) \/ PumpCatchUpFails(p) \/ PumpReconnects(p)
       \/ Subscribe(p) \/ Unsubscribe(p) \/ Retire(p)
       \/ Receive(p) \/ Watchdog(p)
       \/ ReadMessages(p) \/ QueueReply(p) \/ Unanswered(p) \/ Reconnected(p)
  \/ ResetRedis
  \/ Idle

Spec == Init /\ [][Next]_vars

(* The pump and the retrier are goroutines, the publisher finishes what it  *)
(* began, the writer and the viewer keep reading; a connection's reader     *)
(* goes on with the request it took, unless that fails (Unanswered).        *)
FairSpec ==
  /\ Spec
  /\ \A p \in Pods :
       /\ WF_vars(PumpStep(p)) /\ WF_vars(Receive(p)) /\ WF_vars(Reconnected(p))
       /\ WF_vars(ReadMessages(p)) /\ WF_vars(QueueReply(p))
       /\ WF_vars(Retry(p)) /\ WF_vars(RetryEnds(p)) /\ WF_vars(\E w \in recov[p] : Recover(p, w))
-----------------------------------------------------------------------------
TypeOK ==
  /\ redis.seq \in Nat /\ Len(redis.buf) <= BufferMax
  /\ \A p \in Pods :
       /\ pod[p].pump \in {"off", "dial", "subscribed", "live"}
       /\ pod[p].pump # "off" <=> pod[p].alive
       /\ pod[p].sub => pod[p].alive
       /\ Len(pod[p].ch) <= ChanMax
       /\ view[p].missing \cup view[p].since \subseteq Msgs \ todo
       /\ view[p].reply \in {"none", "read", "sent"}
       /\ view[p].reply = "none" => view[p].since = {}
       /\ view[p].reply # "sent" => view[p].upto = 0
       /\ fell[p].retrying # None => fell[p].on /\ fell[p].retrying <= fell[p].watermark

(* Nothing is on its way to the viewer of p, no marker is owed to anybody,  *)
(* and its pump heard the latest entry.                                     *)
Settled(p) ==
  /\ pod[p].sub /\ pod[p].ch = <<>> /\ ~view[p].asked /\ view[p].reply = "none"
  /\ pod[p].pump = "live" /\ pod[p].live = <<>> /\ ~pod[p].wake /\ ~pod[p].deaf
  /\ \A q \in Pods : ~fell[q].on /\ recov[q] = {}

Told(p) == Settled(p) => view[p].missing = {}

(* An event is lost silently in the ways named here only: a viewer to whom  *)
(* nothing is on its way has seen every event or has reconciled since,      *)
(* unless a pod gave up or dropped its marker (forgotten), the counter was  *)
(* lost (reset), or, since its messages were last read, a catch-up found    *)
(* the buffer trimmed and could not tell (cut: CutShort), a marker came     *)
(* within 30 s of the last request (throttled), a request got no answer     *)
(* (unanswered), or an event was passed over or taken back by a reply that  *)
(* did not hold it (overtaken).                                             *)
NoSilentLoss ==
  spent.forgotten \/ spent.reset \/ \A p \in Pods : Told(p) \/ view[p].lost # {}

(* reconnect_sync is the authoritative state and jumps the clock past what  *)
(* was already reconciled (AgentPanel.tsx:945-947): with no fault spent, a  *)
(* viewer to whom nothing is on its way has seen every event.               *)
AllSeen == spent.faults = 0 => \A p \in Pods : Told(p)

(* The seqs a subscriber is handed strictly increase, over lost messages,   *)
(* trimmed buffers and resets of the counter, as long as nothing was fanned *)
(* out locally.                                                             *)
ClockRunsForward ==
  spent.fanned \/
    \A p \in Pods : \A i, j \in 1..Len(pod[p].ch) :
      i < j => pod[p].ch[i].seq < pod[p].ch[j].seq

(* A viewer that misses an event gets it or reconciles, unless the loss is  *)
(* at the tail and no later event tells of it, or one of the losses that    *)
(* NoSilentLoss names.                                                      *)
Reconciles ==
  \A p \in Pods :
    (pod[p].sub /\ view[p].missing # {})
      ~> (view[p].missing = {} \/ view[p].lost # {} \/ ~pod[p].sub \/ pod[p].deaf
           \/ spent.forgotten \/ spent.reset)

(* Each event is delivered once (the comment on Publish): a viewer is not   *)
(* handed, as a new event, one that it has seen.                            *)
DeliveredOnce ==
  [][\A p \in Pods :
       Receive(p) /\ Head(pod[p].ch).seq > view[p].last /\ Head(pod[p].ch).msg # Resync
         => Head(pod[p].ch).msg \in view[p].missing]_vars
=============================================================================
