------------------------- MODULE SessionStreamProofs -------------------------
(***************************************************************************)
(* What holds of the session streams for every number of replicas, events, *)
(* faults and connections and for every size of the buffer and of the      *)
(* channels:                                                               *)
(*                                                                         *)
(*   TypeCorrect            the limits of the buffer and of the channels,  *)
(*   ClockRunsForwardHolds  the order of the seqs a subscriber is handed,  *)
(*   NoSilentLossHolds      no event is lost without the viewer asking for *)
(*                          the stored state, but in the ways NoSilentLoss *)
(*                          names.                                         *)
(*                                                                         *)
(* The first two follow from IInv.  The last needs Good: a clock never     *)
(* runs ahead of the log beyond a floor that a marker still owes, and      *)
(* while none is owed each event a viewer misses is in its channel, or an  *)
(* entry of the log that tells of it is still ahead of the pump.           *)
(***************************************************************************)
EXTENDS SessionStream, SequenceTheorems, TLAPS
-----------------------------------------------------------------------------
(* Queues of events, and the types.                                         *)
Events == [seq : Nat, msg : Msgs \cup {Resync}]
Pumps == {"off", "dial", "subscribed", "live"}
Streams == [alive : BOOLEAN, sub : BOOLEAN, ready : BOOLEAN, lastSeq : Nat, offset : Nat,
            nextSeq : Nat, pump : Pumps, wake : BOOLEAN, live : Seq(Events),
            ch : Seq(Events), deaf : BOOLEAN]

(* In the order of their seqs, and no later than n.                        *)
Rising(q) == \A i, j \in 1..Len(q) : i < j => q[i].seq < q[j].seq
UpTo(q, n) == \A i \in 1..Len(q) : q[i].seq <= n

(* A stream whose channel is bounded; one whose channel is in order.        *)
Bounded(s) == s \in Streams /\ Len(s.ch) <= ChanMax
Forward(s) == Rising(s.ch) /\ UpTo(s.ch, s.lastSeq)

(* What push makes of a channel.                                            *)
Offered(q, e) ==
  IF Len(q) < ChanMax THEN Append(q, e) ELSE Append(Tail(q), Entry(e.seq, Resync))

(* A queue stays in order when a later entry is put behind it.              *)
LEMMA AppendRises ==
  ASSUME NEW q \in Seq(Events), NEW e \in Events, NEW n \in Nat, Rising(q), UpTo(q, n), n < e.seq
  PROVE  Rising(Append(q, e)) /\ UpTo(Append(q, e), e.seq)
<1> DEFINE t == Append(q, e)
<1>0. \A x \in Events : x.seq \in Nat
  BY DEF Events
<1>1. /\ Len(t) = Len(q) + 1 /\ t[Len(q) + 1] = e /\ Len(q) \in Nat
      /\ \A i \in 1..Len(q) : t[i] = q[i] /\ q[i].seq \in Nat
  BY <1>0
<1>2. e.seq \in Nat
  BY DEF Events
<1> HIDE DEF t
<1>3. 1..Len(t) = 1..Len(q) \cup {Len(q) + 1}
  BY <1>1
<1>4. UpTo(t, e.seq)
  BY <1>1, <1>2, <1>3 DEF UpTo
<1>5. \A i \in 1..Len(q) : t[i].seq < e.seq
  BY <1>1, <1>2 DEF UpTo
<1>6. Rising(t)
  BY <1>1, <1>3, <1>5 DEF Rising
<1> QED
  BY <1>4, <1>6 DEF t

(* And when its head is taken.                                              *)
LEMMA TailRises ==
  ASSUME NEW q \in Seq(Events), q # <<>>, NEW n \in Nat, Rising(q), UpTo(q, n)
  PROVE  Rising(Tail(q)) /\ UpTo(Tail(q), n)
<1> DEFINE t == Tail(q)
<1>1. /\ Len(q) \in Nat /\ Len(t) = Len(q) - 1
      /\ \A i \in 1..Len(t) : t[i] = q[i + 1] /\ i + 1 \in 1..Len(q)
  OBVIOUS
<1>2. \A i, j \in 1..Len(t) : i < j => i + 1 < j + 1
  BY <1>1
<1> HIDE DEF t
<1> QED
  BY <1>1, <1>2 DEF Rising, UpTo, t

(* A full channel gives up its oldest event, and stays bounded and in       *)
(* order.                                                                   *)
LEMMA OfferedKeeps ==
  ASSUME NEW q \in Seq(Events), NEW e \in Events, Len(q) <= ChanMax
  PROVE  /\ Offered(q, e) \in Seq(Events) /\ Len(Offered(q, e)) <= ChanMax
         /\ \A n \in Nat : Rising(q) /\ UpTo(q, n) /\ n < e.seq
              => Rising(Offered(q, e)) /\ UpTo(Offered(q, e), e.seq)
<1>1. ChanMax \in Nat /\ ChanMax > 0
  BY BoundsAssumption
<1>2. CASE Len(q) < ChanMax
  <2>1. Offered(q, e) = Append(q, e)
    BY <1>2 DEF Offered
  <2>2. Append(q, e) \in Seq(Events) /\ Len(Append(q, e)) <= ChanMax
    BY <1>1, <1>2
  <2> QED
    BY <2>1, <2>2, AppendRises
<1>3. CASE ~(Len(q) < ChanMax)
  <2> DEFINE r == Entry(e.seq, Resync)
  <2>1. Offered(q, e) = Append(Tail(q), r)
    BY <1>3 DEF Offered
  <2>2. r \in Events /\ r.seq = e.seq
    BY DEF Events, Entry
  <2>3. q # <<>> /\ Tail(q) \in Seq(Events) /\ Len(Tail(q)) < ChanMax
    BY <1>1, <1>3
  <2> HIDE DEF r
  <2>4. Append(Tail(q), r) \in Seq(Events) /\ Len(Append(Tail(q), r)) <= ChanMax
    BY <1>1, <2>2, <2>3
  <2> QED
    BY <2>1, <2>2, <2>3, <2>4, AppendRises, TailRises
<1> QED
  BY <1>2, <1>3

(* push changes the channel of the subscriber and nothing else.             *)
LEMMA PushOffers ==
  ASSUME NEW s \in Streams, NEW e
  PROVE  Push(s, e) = [s EXCEPT !.ch = Offered(s.ch, e)]
BY DEF Push, Offered, Streams

(* A step from s to t that keeps the channel bounded and in order.          *)
Keeps(s, t) ==
  /\ Bounded(t)
  /\ t.alive = s.alive /\ t.sub = s.sub /\ t.pump = s.pump
  /\ Forward(s) => Forward(t)

(* What push keeps of a stream.                                             *)
LEMMA PushKeeps ==
  ASSUME NEW s, NEW e \in Events, Bounded(s)
  PROVE  /\ Bounded(Push(s, e))
         /\ Forward(s) /\ s.lastSeq < e.seq
              => Rising(Push(s, e).ch) /\ UpTo(Push(s, e).ch, e.seq)
         /\ Push(s, e) = [s EXCEPT !.ch = Push(s, e).ch]
<1> DEFINE q == Offered(s.ch, e)
<1>1. s \in Streams /\ s.ch \in Seq(Events) /\ s.lastSeq \in Nat /\ Len(s.ch) <= ChanMax
  BY DEF Bounded, Streams
<1>2. Push(s, e) = [s EXCEPT !.ch = q]
  BY <1>1, PushOffers
<1>3. /\ q \in Seq(Events) /\ Len(q) <= ChanMax
      /\ Forward(s) /\ s.lastSeq < e.seq => Rising(q) /\ UpTo(q, e.seq)
  BY <1>1, OfferedKeeps DEF Forward
<1> HIDE DEF q
<1>4. [s EXCEPT !.ch = q].ch = q /\ [s EXCEPT !.ch = q] \in Streams
  BY <1>1, <1>3 DEF Streams
<1> QED
  BY <1>2, <1>3, <1>4 DEF Bounded

(* An event handed out under its own seq.                                   *)
Sent(s, e) == [Push(s, e) EXCEPT !.lastSeq = e.seq]

(* An event past lastSeq that raises it keeps the channel in order.         *)
LEMMA SentKeeps ==
  ASSUME NEW s, NEW e \in Events, Bounded(s), s.lastSeq < e.seq
  PROVE  Keeps(s, Sent(s, e)) /\ Sent(s, e).lastSeq = e.seq
<1> DEFINE t == Push(s, e)
           u == [t EXCEPT !.lastSeq = e.seq]
<1>1. s \in Streams /\ t \in Streams /\ Len(t.ch) <= ChanMax /\ t = [s EXCEPT !.ch = t.ch]
  BY PushKeeps DEF Bounded
<1>2. Forward(s) => Rising(t.ch) /\ UpTo(t.ch, e.seq)
  BY PushKeeps
<1>3. e.seq \in Nat
  BY DEF Events
<1>4. Sent(s, e) = u
  BY DEF Sent
<1> HIDE DEF t
<1>5. t.alive = s.alive /\ t.sub = s.sub /\ t.pump = s.pump
  BY <1>1 DEF Streams
<1>6. /\ u \in Streams /\ u.ch = t.ch /\ u.lastSeq = e.seq
      /\ u.alive = t.alive /\ u.sub = t.sub /\ u.pump = t.pump
  BY <1>1, <1>3 DEF Streams
<1> QED
  BY <1>1, <1>2, <1>4, <1>5, <1>6 DEF Keeps, Bounded, Forward

(* The two pushes of a re-based counter, as two events sent one after the   *)
(* other.                                                                   *)
LEMMA SentTwice ==
  ASSUME NEW s, NEW d \in Events, NEW e \in Events, Bounded(s)
  PROVE  Sent(Sent(s, d), e) = [Push(Push(s, d), e) EXCEPT !.lastSeq = e.seq]
<1> DEFINE t == Push(s, d)
           u == [t EXCEPT !.lastSeq = d.seq]
<1>1. Bounded(t)
  BY PushKeeps
<1>2. t \in Streams /\ d.seq \in Nat
  BY <1>1 DEF Bounded, Events
<1>3. Sent(s, d) = u
  BY DEF Sent
<1> HIDE DEF t
<1>4. u \in Streams /\ u.ch = t.ch
  BY <1>2 DEF Streams
<1>5. /\ Push(u, e) = [u EXCEPT !.ch = Offered(t.ch, e)]
      /\ Push(t, e) = [t EXCEPT !.ch = Offered(t.ch, e)]
  BY <1>2, <1>4, PushOffers
<1>6. \A q : [[u EXCEPT !.ch = q] EXCEPT !.lastSeq = e.seq]
               = [[t EXCEPT !.ch = q] EXCEPT !.lastSeq = e.seq]
  BY <1>2 DEF Streams
<1> QED
  BY <1>3, <1>5, <1>6 DEF Sent, t

(* Keeps composes.                                                          *)
LEMMA KeepsTransitive ==
  ASSUME NEW s, NEW t, NEW u, Keeps(s, t), Keeps(t, u)
  PROVE  Keeps(s, u)
BY DEF Keeps

(* deliverLocked keeps the channel bounded and in order, in each of its     *)
(* cases.                                                                   *)
LEMMA DeliveredKeeps ==
  ASSUME NEW s, NEW e \in Events, Bounded(s)
  PROVE  Keeps(s, Delivered(s, e))
<1> DEFINE n == e.seq + s.offset
           l == s.lastSeq
           t == Sent(Sent(s, Entry(l + 1, Resync)), Entry(l + 2, e.msg))
<1>1. s \in Streams /\ l \in Nat /\ s.offset \in Nat /\ n \in Nat /\ e.seq \in Nat /\ e.seq <= n
  BY DEF Bounded, Streams, Events
<1>2. Keeps(s, s)
  BY DEF Keeps
<1>3. \A k \in Nat : Entry(k, Resync) \in Events /\ Entry(k, e.msg) \in Events
                    /\ Entry(k, Resync).seq = k /\ Entry(k, e.msg).seq = k
  BY DEF Entry, Events
<1>4. CASE ~s.sub \/ ~s.ready \/ n = l
  BY <1>2, <1>4 DEF Delivered
<1>5. CASE s.sub /\ s.ready /\ n < l
  <2>1. l + 1 \in Nat /\ l + 2 \in Nat /\ l < l + 1 /\ l + 1 < l + 2
    BY <1>1
  <2>2. Keeps(s, t) /\ t.lastSeq = l + 2
    BY <1>3, <2>1, SentKeeps, KeepsTransitive DEF Keeps
  <2>3. t = [Push(Push(s, Entry(l + 1, Resync)), Entry(l + 2, e.msg)) EXCEPT !.lastSeq = l + 2]
    BY <1>3, <2>1, SentTwice
  <2>4. l + 2 - e.seq \in Nat
    BY <1>1, <1>5
  <2> HIDE DEF t, n
  <2> DEFINE u == Push(Push(s, Entry(l + 1, Resync)), Entry(l + 2, e.msg))
             k == l + 2 - e.seq
  <2>5. u \in Streams
    BY <1>3, <2>1, PushKeeps DEF Bounded
  <2>6. Delivered(s, e) = [u EXCEPT !.offset = k, !.lastSeq = l + 2]
    BY <1>1, <1>5 DEF Delivered, n
  <2> HIDE DEF u, k
  <2>7. [u EXCEPT !.offset = k, !.lastSeq = l + 2] = [t EXCEPT !.offset = k]
    BY <2>3, <2>5 DEF Streams, u
  <2>8. Keeps(t, [t EXCEPT !.offset = k])
    BY <2>2, <2>4 DEF Keeps, Bounded, Streams, Forward, k
  <2> QED
    BY <2>2, <2>6, <2>7, <2>8, KeepsTransitive
<1>6. CASE s.sub /\ s.ready /\ l < n
  <2>1. \/ Delivered(s, e) = Sent(s, Entry(n, Resync))
        \/ Delivered(s, e) = Sent(s, Entry(n, e.msg))
    <3>1. ~(n < l) /\ n # l
      BY <1>1, <1>6
    <3> QED
      BY <1>3, <1>1, <1>6, <3>1 DEF Delivered, Sent
  <2> QED
    BY <1>1, <1>3, <1>6, <2>1, SentKeeps
<1> QED
  BY <1>1, <1>4, <1>5, <1>6

(* So does one replayed entry.                                              *)
LEMMA ReplayedKeeps ==
  ASSUME NEW s, NEW e \in Events, Bounded(s)
  PROVE  Keeps(s, Replayed(s, e))
<1> DEFINE n == e.seq + s.offset
           l == s.lastSeq
           d == Entry(l + 1, Resync)
           c == Entry(n, e.msg)
<1>1. s \in Streams /\ l \in Nat /\ s.offset \in Nat /\ n \in Nat /\ l + 1 \in Nat /\ l < l + 1
  BY DEF Bounded, Streams, Events
<1>2. Keeps(s, s)
  BY DEF Keeps
<1>3. d \in Events /\ c \in Events /\ d.seq = l + 1 /\ c.seq = n
  BY <1>1 DEF Entry, Events
<1>4. CASE n <= l
  BY <1>2, <1>4 DEF Replayed
<1>5. CASE ~(n <= l) /\ s.ready /\ n > l + 1
  <2>1. Replayed(s, e) = [Push(Push(s, d), c) EXCEPT !.lastSeq = n]
    BY <1>5 DEF Replayed
  <2>2. Replayed(s, e) = Sent(Sent(s, d), c)
    BY <1>3, <2>1, SentTwice
  <2> HIDE DEF d, c, n, l
  <2>3. l < d.seq /\ d.seq < c.seq
    BY <1>1, <1>3, <1>5
  <2>4. Keeps(s, Sent(s, d)) /\ Sent(s, d).lastSeq = d.seq
    BY <1>3, <2>3, SentKeeps DEF l
  <2>5. Keeps(Sent(s, d), Sent(Sent(s, d), c))
    BY <1>3, <2>3, <2>4, SentKeeps DEF Keeps
  <2> QED
    BY <2>2, <2>4, <2>5, KeepsTransitive
<1>6. CASE ~(n <= l) /\ ~(s.ready /\ n > l + 1)
  <2>1. Replayed(s, e) = Sent(s, c)
    BY <1>3, <1>6 DEF Replayed, Sent
  <2>2. s.lastSeq < c.seq
    BY <1>1, <1>3, <1>6
  <2> HIDE DEF c
  <2> QED
    BY <1>3, <2>1, <2>2, SentKeeps
<1> QED
  BY <1>4, <1>5, <1>6
(* The replay in the form FoldInduction takes.                              *)
Again(p, s, e) == Replayed(s, e)

F == INSTANCE FoldInduction WITH Op <- Again

(* The replay is the fold the induction over sequences is about.            *)
LEMMA ReplayIsFold ==
  ASSUME NEW s, NEW q
  PROVE  FoldLeft(Replayed, s, q) = F!Fold(None, s, q)
BY SMT DEF FoldLeft, F!Fold, F!FoldLeft, MapThenFoldSet, F!MapThenFoldSet, Max, F!Max, Again

(* A whole catch-up keeps the channel bounded and in order, by induction    *)
(* over the buffer.                                                         *)
LEMMA CaughtUpKeeps ==
  ASSUME NEW s, NEW q \in Seq(Events), Bounded(s)
  PROVE  Keeps(s, CaughtUp(s, q))
<1> DEFINE S == {r \in Seq(Events) : Keeps(s, FoldLeft(Replayed, s, r))}
           t == FoldLeft(Replayed, s, q)
<1>1. Keeps(s, s)
  BY DEF Keeps
<1>2. <<>> \in S
  <2>1. FoldLeft(Replayed, s, <<>>) = s
    BY ReplayIsFold, F!FoldEmpty
  <2> QED
    BY <1>1, <2>1
<1>3. ASSUME NEW r \in Seq(Events), NEW e \in Events, r \in S
      PROVE  Append(r, e) \in S
  <2>1. FoldLeft(Replayed, s, Append(r, e)) = Replayed(FoldLeft(Replayed, s, r), e)
    <3>1. F!Fold(None, s, Append(r, e)) = Again(None, F!Fold(None, s, r), e)
      BY F!FoldAppend
    <3> QED
      BY <3>1, ReplayIsFold DEF Again
  <2>2. Keeps(s, FoldLeft(Replayed, s, r)) /\ Append(r, e) \in Seq(Events)
    BY <1>3
  <2>3. Keeps(s, Replayed(FoldLeft(Replayed, s, r), e))
    <3> DEFINE u == FoldLeft(Replayed, s, r)
    <3>1. Keeps(s, u)
      BY <2>2
    <3> HIDE DEF u
    <3>2. Keeps(u, Replayed(u, e))
      BY <3>1, ReplayedKeeps DEF Keeps
    <3> QED
      BY <3>1, <3>2, KeepsTransitive DEF u
  <2> QED
    BY <2>1, <2>2, <2>3
<1>4. q \in S
  <2> HIDE DEF S
  <2> QED
    BY <1>2, <1>3, F!SeqSetInduction
<1>5. Keeps(s, t)
  BY <1>4
<1> HIDE DEF t
<1>6. Keeps(t, [t EXCEPT !.ready = TRUE])
  BY <1>5 DEF Keeps, Bounded, Streams, Forward
<1> QED
  BY <1>1, <1>5, <1>6, KeepsTransitive DEF CaughtUp, t
-----------------------------------------------------------------------------
(* The invariant of TypeOK and ClockRunsForward: the types, the limits, what*)
(* a stream has while it is alive, and channels in order.                   *)
Proper(s) == Bounded(s) /\ (s.pump # "off" <=> s.alive) /\ (s.sub => s.alive)

Fells == [on : BOOLEAN, watermark : Nat, retrying : Nat \cup {None}, renewed : BOOLEAN]
Replies == {"none", "read", "sent"}
Losses == {"cut", "throttled", "unanswered", "overtaken"}
Views == [last : Nat, missing : SUBSET Msgs, asked : BOOLEAN, before : BOOLEAN,
          reply : Replies, upto : Nat, since : SUBSET Msgs, lost : SUBSET Losses]
Answerable(v) == (v.reply = "none" => v.since = {}) /\ (v.reply # "sent" => v.upto = 0)

RedisOK == redis \in [seq : Nat, buf : Seq(Events)] /\ Len(redis.buf) <= BufferMax
PodsOK  == pod \in [Pods -> Streams] /\ \A p \in Pods : Proper(pod[p])
FellOK  == /\ fell \in [Pods -> Fells]
           /\ \A p \in Pods : fell[p].retrying # None =>
                                 fell[p].on /\ fell[p].retrying <= fell[p].watermark
RecovOK == recov \in [Pods -> SUBSET Nat]
ViewOK  == /\ view \in [Pods -> Views] /\ todo \subseteq Msgs
           /\ \A p \in Pods : /\ view[p].missing \cap todo = {} /\ view[p].since \cap todo = {}
                            /\ Answerable(view[p])
SpentOK == DOMAIN spent = {"faults", "joins", "reset", "forgotten", "fanned"}
ClockOK == spent.fanned \/ \A p \in Pods : Forward(pod[p])

IInv == RedisOK /\ PodsOK /\ FellOK /\ RecovOK /\ ViewOK /\ SpentOK /\ ClockOK

(* A part of the invariant holds after a step that leaves its variables     *)
(* alone.                                                                   *)
LEMMA Unchanged ==
  ASSUME IInv
  PROVE  /\ UNCHANGED redis => RedisOK'
         /\ UNCHANGED pod => PodsOK'
         /\ UNCHANGED fell => FellOK'
         /\ UNCHANGED recov => RecovOK'
         /\ UNCHANGED <<view, todo>> => ViewOK'
         /\ UNCHANGED spent => SpentOK'
         /\ UNCHANGED <<pod, spent>> => ClockOK'
BY DEF IInv, RedisOK, PodsOK, FellOK, RecovOK, ViewOK, SpentOK, ClockOK

(* The initial states satisfy the invariant.                                *)
LEMMA InitSound == Init => IInv
<1> SUFFICES ASSUME Init
             PROVE  IInv
  OBVIOUS
<1> USE DEF Init
<1>1. RedisOK
  BY BoundsAssumption DEF RedisOK
<1>2. NoStream \in Streams /\ NoStream.ch = <<>> /\ Proper(NoStream) /\ Forward(NoStream)
  <2>1. NoStream \in Streams /\ NoStream.ch = <<>> /\ NoStream.lastSeq = 0
    BY DEF NoStream, Streams, Pumps
  <2>2. NoStream.pump = "off" /\ ~NoStream.alive /\ ~NoStream.sub
    BY DEF NoStream
  <2>3. Rising(<<>>) /\ UpTo(<<>>, 0)
    BY DEF Rising, UpTo
  <2> QED
    BY <2>1, <2>2, <2>3, BoundsAssumption DEF Proper, Bounded, Forward
<1>3. PodsOK
  BY <1>2 DEF PodsOK
<1>4. FellOK
  BY MarkersAssumption DEF FellOK, Fells, NoMarker
<1>5. RecovOK
  BY DEF RecovOK
<1>6. ViewOK
  BY DEF ViewOK, Views, Replies, Answerable, NoView
<1>7. SpentOK
  BY DEF SpentOK
<1>8. ClockOK
  BY <1>2 DEF ClockOK
<1> QED
  BY <1>1, <1>3, <1>4, <1>5, <1>6, <1>7, <1>8 DEF IInv

(* Streams that keep their channels bounded and in order keep the           *)
(* invariant.                                                               *)
LEMMA PodsFollow ==
  ASSUME IInv, pod' \in [Pods -> Streams],
         \A p \in Pods : Keeps(pod[p], pod'[p]),
         spent.fanned => spent'.fanned
  PROVE  PodsOK' /\ ClockOK'
BY DEF IInv, PodsOK, ClockOK, Keeps, Proper

(* The same when one replica's stream is replaced.                          *)
LEMMA OnePod ==
  ASSUME IInv, NEW p \in Pods, NEW t, Proper(t), pod' = [pod EXCEPT ![p] = t],
         spent.fanned => spent'.fanned,
         spent'.fanned \/ (Forward(pod[p]) => Forward(t))
  PROVE  PodsOK' /\ ClockOK'
<1>1. t \in Streams /\ pod \in [Pods -> Streams]
  BY DEF IInv, PodsOK, Proper, Bounded
<1>2. pod' \in [Pods -> Streams] /\ pod'[p] = t /\ \A q \in Pods \ {p} : pod'[q] = pod[q]
  BY <1>1
<1>3. PodsOK'
  BY <1>2 DEF IInv, PodsOK
<1>4. ClockOK'
  BY <1>2 DEF IInv, ClockOK
<1> QED
  BY <1>3, <1>4
-----------------------------------------------------------------------------
(* The script assigns a number.                                             *)
LEMMA NextSeqTyped ==
  ASSUME IInv, NEW w \in Nat
  PROVE  NextSeq(w) \in Nat
BY DEF IInv, RedisOK, NextSeq, Highest

(* The buffer of sessionStreamBufferMax entries never overflows.            *)
LEMMA CommittedKeeps ==
  ASSUME IInv, NEW n \in Nat, NEW m \in Msgs \cup {Resync}, redis' = Committed(n, m)
  PROVE  RedisOK'
<1> DEFINE e == Entry(n, m)
           q == Append(redis.buf, e)
           r == IF Len(q) > BufferMax THEN Tail(q) ELSE q
<1>1. redis.buf \in Seq(Events) /\ Len(redis.buf) <= BufferMax /\ BufferMax \in Nat
  BY BoundsAssumption DEF IInv, RedisOK
<1>2. e \in Events
  BY DEF Entry, Events
<1>3. q \in Seq(Events) /\ Len(q) = Len(redis.buf) + 1 /\ Len(redis.buf) \in Nat
  BY <1>1, <1>2
<1>4. redis' = [seq |-> n, buf |-> r]
  BY DEF Committed
<1> HIDE DEF q
<1>5. r \in Seq(Events) /\ Len(r) <= BufferMax
  BY <1>1, <1>3
<1> HIDE DEF r
<1> QED
  BY <1>4, <1>5 DEF RedisOK

(* The fields the channel does not depend on.                               *)
LEMMA StreamTouched ==
  ASSUME NEW s \in Streams, Bounded(s)
  PROVE  /\ Keeps(s, s)
         /\ \A q \in Seq(Events), d \in BOOLEAN : Keeps(s, [s EXCEPT !.live = q, !.deaf = d])
         /\ \A d \in BOOLEAN : Keeps(s, [s EXCEPT !.deaf = d])
         /\ \A n \in Nat : Keeps(s, [s EXCEPT !.nextSeq = n])
BY DEF Keeps, Bounded, Streams, Forward

Follows(pods) == pods \in [Pods -> Streams] /\ \A p \in Pods : Keeps(pod[p], pods[p])

(* The type of one replica's stream.                                        *)
LEMMA PodAt ==
  ASSUME IInv, NEW p \in Pods
  PROVE  pod[p] \in Streams /\ Bounded(pod[p]) /\ Proper(pod[p])
BY DEF IInv, PodsOK, Proper, Bounded

(* Nothing changes on any replica.                                          *)
LEMMA SamePods ==
  ASSUME IInv
  PROVE  Follows(pod)
BY DEF IInv, PodsOK, Proper, Follows, Keeps

(* Pub/sub only queues an entry for the pumps.                              *)
LEMMA ArrivedFollows ==
  ASSUME IInv, NEW n \in Nat, NEW m \in Msgs \cup {Resync}, NEW D
  PROVE  Follows(Arrived(n, m, D))
<1> DEFINE t(p) == Arrived(n, m, D)[p]
<1>1. ASSUME NEW p \in Pods
      PROVE  Keeps(pod[p], t(p))
  <2>1. Entry(n, m) \in Events
    BY DEF Entry, Events
  <2>2. pod[p] \in Streams /\ Bounded(pod[p]) /\ pod[p].live \in Seq(Events)
    BY PodAt DEF Streams
  <2>3. Append(pod[p].live, Entry(n, m)) \in Seq(Events)
    BY <2>1, <2>2
  <2>4. \/ t(p) = pod[p]
        \/ t(p) = [pod[p] EXCEPT !.live = Append(pod[p].live, Entry(n, m)), !.deaf = FALSE]
        \/ t(p) = [pod[p] EXCEPT !.deaf = TRUE]
    BY <2>2 DEF Arrived
  <2>5. /\ Keeps(pod[p], pod[p])
        /\ Keeps(pod[p], [pod[p] EXCEPT !.live = Append(pod[p].live, Entry(n, m)), !.deaf = FALSE])
        /\ Keeps(pod[p], [pod[p] EXCEPT !.deaf = TRUE])
    BY <2>2, <2>3, StreamTouched
  <2> QED
    BY <2>4, <2>5
<1>2. \A p \in Pods : t(p) \in Streams
  BY <1>1 DEF Keeps, Bounded
<1>3. Arrived(n, m, D) = [p \in Pods |-> t(p)]
  BY DEF Arrived
<1> QED
  BY <1>1, <1>2, <1>3 DEF Follows

(* seedLocalSeq only raises nextSeq.                                        *)
LEMMA SeededFollows ==
  ASSUME IInv, NEW pods, Follows(pods), NEW p \in Pods, NEW n \in Nat
  PROVE  Follows(Seeded(pods, p, n))
<1>1. pods \in [Pods -> Streams] /\ Bounded(pods[p]) /\ pods[p] \in Streams
  BY DEF Follows, Keeps, Bounded
<1> DEFINE t == [pods[p] EXCEPT !.nextSeq = Highest(pods[p].nextSeq, n)]
<1>2. Highest(pods[p].nextSeq, n) \in Nat
  BY <1>1 DEF Highest, Streams
<1>3. Keeps(pods[p], t)
  BY <1>1, <1>2, StreamTouched
<1>4. CASE Seeded(pods, p, n) = pods
  BY <1>4
<1>5. CASE Seeded(pods, p, n) = [pods EXCEPT ![p] = t]
  <2> HIDE DEF t
  <2>1. t \in Streams /\ Keeps(pod[p], t)
    BY <1>3, KeepsTransitive DEF Keeps, Bounded, Follows
  <2> QED
    BY <1>1, <1>5, <2>1 DEF Follows
<1> QED
  BY <1>1, <1>4, <1>5 DEF Seeded

(* The local fan-out keeps the channel bounded.                             *)
LEMMA FannedOutProper ==
  ASSUME NEW s, Proper(s), NEW m \in Msgs \cup {Resync}
  PROVE  Proper(FannedOut(s, m)) /\ (~s.alive => FannedOut(s, m) = s)
<1> DEFINE n == s.nextSeq + 1
           t == [s EXCEPT !.nextSeq = n]
<1>1. s \in Streams /\ n \in Nat /\ Bounded(s)
  BY DEF Proper, Bounded, Streams
<1>2. Keeps(s, t) /\ t \in Streams
  BY <1>1, StreamTouched DEF Keeps, Bounded
<1>3. Entry(n, m) \in Events
  BY <1>1 DEF Entry, Events
<1> DEFINE u == Push(t, Entry(n, m))
<1>4. FannedOut(s, m) = IF ~s.alive THEN s ELSE IF s.sub THEN u ELSE t
  BY DEF FannedOut
<1> HIDE DEF t
<1>5. Bounded(u) /\ u = [t EXCEPT !.ch = u.ch]
  BY <1>2, <1>3, PushKeeps DEF Keeps
<1> HIDE DEF u
<1>6. u.alive = t.alive /\ u.sub = t.sub /\ u.pump = t.pump
  BY <1>2, <1>5 DEF Streams
<1> QED
  BY <1>1, <1>2, <1>4, <1>5, <1>6 DEF Keeps, Proper

(* What Follows says of one replica.                                        *)
LEMMA FollowsProper ==
  ASSUME IInv, NEW pods, Follows(pods), NEW p \in Pods
  PROVE  /\ pods \in [Pods -> Streams] /\ Proper(pods[p]) /\ pods[p].alive = pod[p].alive
         /\ (Forward(pod[p]) => Forward(pods[p]))
BY PodAt DEF Follows, Keeps, Proper, IInv

(* A local fan-out keeps the invariant: it gives up the order of the        *)
(* channel.                                                                 *)
LEMMA FannedKeeps ==
  ASSUME IInv, NEW pods, Follows(pods), NEW p \in Pods, NEW m \in Msgs \cup {Resync},
         pod' = [pods EXCEPT ![p] = FannedOut(pods[p], m)],
         spent.fanned => spent'.fanned, pod[p].alive => spent'.fanned
  PROVE  PodsOK' /\ ClockOK'
<1> DEFINE t == FannedOut(pods[p], m)
<1>1. \A q \in Pods : /\ pods \in [Pods -> Streams] /\ Proper(pods[q])
                      /\ pods[q].alive = pod[q].alive
                      /\ (Forward(pod[q]) => Forward(pods[q]))
  BY FollowsProper
<1>2. Proper(t) /\ (~pods[p].alive => t = pods[p])
  BY <1>1, FannedOutProper
<1>3. t \in Streams
  BY <1>2 DEF Proper, Bounded
<1> HIDE DEF t
<1>4. pod' \in [Pods -> Streams] /\ pod'[p] = t /\ \A q \in Pods \ {p} : pod'[q] = pods[q]
  BY <1>1, <1>3 DEF t
<1>5. PodsOK'
  BY <1>1, <1>2, <1>4 DEF PodsOK
<1>6. ClockOK'
  BY <1>1, <1>2, <1>4 DEF IInv, ClockOK
<1> QED
  BY <1>5, <1>6

(* markFellBack: the watermark stays above what a retrier has read.         *)
LEMMA MarkedKeeps ==
  ASSUME IInv, NEW p \in Pods, NEW n \in Nat, fell' = [fell EXCEPT ![p] = Marked(fell[p], n)]
  PROVE  FellOK'
<1> DEFINE f == fell[p]
           g == Marked(fell[p], n)
<1>1. /\ fell \in [Pods -> Fells] /\ f \in Fells
      /\ f.retrying # None => f.on /\ f.retrying <= f.watermark
  BY DEF IInv, FellOK
<1> HIDE DEF f
<1>2. CASE f.on
  <2> DEFINE b == (f.retrying # None)
             h == Highest(f.watermark, n)
  <2>1. f.watermark \in Nat /\ (f.retrying # None => f.retrying \in Nat)
    BY <1>1 DEF Fells
  <2>2. h \in Nat /\ f.watermark <= h /\ b \in BOOLEAN
    BY <2>1 DEF Highest
  <2>3. g = [f EXCEPT !.watermark = h, !.renewed = b]
    BY <1>2 DEF Marked, f
  <2> HIDE DEF b, h
  <2>4. g \in Fells /\ g.on = f.on /\ g.retrying = f.retrying /\ g.watermark = h
    BY <1>1, <2>2, <2>3 DEF Fells
  <2>5. g.retrying # None => g.on /\ g.retrying <= g.watermark
    BY <1>1, <2>1, <2>2, <2>4
  <2> HIDE DEF g
  <2> QED
    BY <1>1, <2>4, <2>5 DEF IInv, FellOK, g
<1>3. CASE ~f.on
  <2>1. g = [f EXCEPT !.on = TRUE, !.watermark = n] /\ f.retrying = None
    BY <1>1, <1>3 DEF Marked, f
  <2>2. g \in Fells /\ g.retrying = None
    BY <1>1, <2>1 DEF Fells
  <2> HIDE DEF g
  <2> QED
    BY <1>1, <2>2 DEF IInv, FellOK, g
<1> QED
  BY <1>2, <1>3

(* Nothing is required of a replica without a marker.                       *)
LEMMA UnmarkedKeeps ==
  ASSUME IInv, NEW p \in Pods, fell' = [fell EXCEPT ![p] = NoMarker]
  PROVE  FellOK'
<1>1. NoMarker \in Fells /\ NoMarker.retrying = None
  BY DEF Fells, NoMarker
<1> HIDE DEF NoMarker
<1> QED
  BY <1>1 DEF IInv, FellOK

(* A published event is missing only on connected viewers.                  *)
LEMMA OwedKeeps ==
  ASSUME IInv, NEW m \in todo, view' = Owed(m), todo' = todo \ {m}
  PROVE  ViewOK'
<1> DEFINE b(p) == IF view[p].reply = "none" THEN view[p].since ELSE view[p].since \cup {m}
           t(p) == IF ~pod[p].sub THEN view[p]
                   ELSE [view[p] EXCEPT !.missing = view[p].missing \cup {m}, !.since = b(p)]
<1>1. view \in [Pods -> Views] /\ todo \subseteq Msgs
      /\ \A p \in Pods : /\ view[p] \in Views /\ view[p].missing \cap todo = {}
                       /\ view[p].since \cap todo = {} /\ Answerable(view[p])
  BY DEF IInv, ViewOK
<1>2. view' = [p \in Pods |-> t(p)]
  BY DEF Owed
<1>3. ASSUME NEW p \in Pods
      PROVE  /\ t(p) \in Views /\ t(p).missing \cap (todo \ {m}) = {}
             /\ t(p).since \cap (todo \ {m}) = {} /\ Answerable(t(p))
  <2>1. view[p].missing \cup {m} \in SUBSET Msgs /\ b(p) \in SUBSET Msgs
    BY <1>1 DEF Views
  <2>2. CASE pod[p].sub
    <3> DEFINE x == view[p].missing \cup {m}
               y == b(p)
               u == [view[p] EXCEPT !.missing = x, !.since = y]
    <3>1. /\ x \in SUBSET Msgs /\ x \cap (todo \ {m}) = {}
          /\ y \in SUBSET Msgs /\ y \cap (todo \ {m}) = {}
          /\ view[p].reply = "none" => y = {}
      BY <1>1, <2>1 DEF Answerable
    <3>2. t(p) = u
      BY <2>2
    <3> HIDE DEF x, y
    <3>3. /\ u \in Views /\ u.missing = x /\ u.since = y /\ u.reply = view[p].reply
          /\ u.upto = view[p].upto
      BY <1>1, <3>1 DEF Views
    <3> HIDE DEF u
    <3> QED
      BY <1>1, <3>1, <3>2, <3>3 DEF Answerable
  <2>3. CASE ~pod[p].sub
    BY <1>1, <2>3
  <2> QED
    BY <2>2, <2>3
<1> HIDE DEF t
<1>4. view' \in [Pods -> Views] /\ \A p \in Pods : view'[p] = t(p)
  BY <1>2, <1>3
<1> QED
  BY <1>1, <1>3, <1>4 DEF ViewOK
-----------------------------------------------------------------------------
(* A delivery does not touch the pump's queue.                              *)
LEMMA DeliveredLive ==
  ASSUME NEW s, NEW e \in Events, Bounded(s)
  PROVE  Delivered(s, e).live = s.live
<1>1. ASSUME NEW u, NEW d \in Events, Bounded(u)
      PROVE  /\ Bounded(Push(u, d)) /\ Push(u, d).live = u.live
             /\ \A n, k : /\ [Push(u, d) EXCEPT !.lastSeq = n].live = u.live
                        /\ [Push(u, d) EXCEPT !.offset = k, !.lastSeq = n].live = u.live
  <2> DEFINE t == Push(u, d)
  <2>1. Bounded(t) /\ t = [u EXCEPT !.ch = t.ch] /\ u \in Streams /\ t \in Streams
    BY <1>1, PushKeeps DEF Bounded
  <2> HIDE DEF t
  <2>2. t.live = u.live
    BY <2>1 DEF Streams
  <2>3. \A n, k : [t EXCEPT !.lastSeq = n].live = t.live
    BY <2>1 DEF Streams
  <2>4. \A n, k : [t EXCEPT !.offset = k, !.lastSeq = n].live = t.live
    BY <2>1 DEF Streams
  <2> QED
    BY <2>1, <2>2, <2>3, <2>4 DEF t
<1>2. \A k \in Nat : Entry(k, Resync) \in Events /\ Entry(k, e.msg) \in Events
  BY DEF Entry, Events
<1>3. /\ e.seq + s.offset \in Nat /\ s.lastSeq + 1 \in Nat /\ s.lastSeq + 2 \in Nat
  BY DEF Bounded, Streams, Events
<1> QED
  BY <1>1, <1>2, <1>3 DEF Delivered

(* Each action keeps the invariant: Publish.                                *)
LEMMA PublishStep ==
  ASSUME IInv, NEW p \in Pods, NEW m \in Msgs, Publish(p, m)
  PROVE  IInv'
<1>1. m \in todo /\ view' = Owed(m) /\ todo' = todo \ {m}
  BY DEF Publish
<1>2. PICK D \in SUBSET Listening :
        /\ spent' = Spend(Cardinality(Listening \ D))
        /\ redis' = Committed(NextSeq(0), m)
        /\ pod' = Seeded(Arrived(NextSeq(0), m, D), p, NextSeq(0))
  BY DEF Publish
<1>3. NextSeq(0) \in Nat
  BY NextSeqTyped
<1>4. RedisOK'
  BY <1>2, <1>3, CommittedKeeps
<1>5. SpentOK' /\ spent'.fanned = spent.fanned
  BY <1>2 DEF IInv, SpentOK, Spend
<1>6. Follows(pod')
  BY <1>2, <1>3, ArrivedFollows, SeededFollows
<1>7. PodsOK' /\ ClockOK'
  BY <1>5, <1>6, PodsFollow DEF Follows
<1>8. FellOK' /\ RecovOK'
  <2>1. CASE fell[p].on
    <3>1. fell' = [fell EXCEPT ![p] = NoMarker]
      BY <2>1 DEF Publish
    <3>2. recov' = [recov EXCEPT ![p] = recov[p] \cup {fell[p].watermark}]
      BY <2>1 DEF Publish
    <3>3. fell[p].watermark \in Nat
      BY DEF IInv, FellOK, Fells
    <3> QED
      BY <3>1, <3>2, <3>3, UnmarkedKeeps DEF IInv, RecovOK
  <2>2. CASE ~fell[p].on
    <3>1. UNCHANGED <<fell, recov>>
      BY <2>2 DEF Publish
    <3> QED
      BY <3>1, Unchanged
  <2> QED
    BY <2>1, <2>2
<1>9. ViewOK'
  BY <1>1, OwedKeeps
<1> QED
  BY <1>4, <1>5, <1>7, <1>8, <1>9 DEF IInv

(* The seq of a local fan-out is a number.                                  *)
LEMMA LocalSeqTyped ==
  ASSUME IInv, NEW p \in Pods
  PROVE  LocalSeq(pod[p]) \in Nat
BY PodAt DEF LocalSeq, Streams

(* Publish that fails.                                                      *)
LEMMA PublishFailsStep ==
  ASSUME IInv, NEW p \in Pods, NEW m \in Msgs, PublishFails(p, m)
  PROVE  IInv'
<1>1. m \in todo /\ view' = Owed(m) /\ todo' = todo \ {m} /\ UNCHANGED recov
  BY DEF PublishFails
<1>2. PICK ran \in BOOLEAN :
        /\ redis' = IF ran THEN Committed(NextSeq(0), m) ELSE redis
        /\ pod' = [(IF ran THEN Arrived(NextSeq(0), m, Listening) ELSE pod) EXCEPT
                      ![p] = FannedOut(@, m)]
  BY DEF PublishFails
<1>3. NextSeq(0) \in Nat
  BY NextSeqTyped
<1>4. RedisOK'
  BY <1>2, <1>3, CommittedKeeps, Unchanged
<1>5. SpentOK' /\ (spent.fanned => spent'.fanned) /\ (pod[p].alive => spent'.fanned)
  BY DEF IInv, SpentOK, Spend, PublishFails
<1>6. PodsOK' /\ ClockOK'
  <2> DEFINE pods == IF ran THEN Arrived(NextSeq(0), m, Listening) ELSE pod
  <2>1. Follows(pods)
    BY <1>3, ArrivedFollows, SamePods
  <2>2. pod' = [pods EXCEPT ![p] = FannedOut(pods[p], m)]
    BY <1>2
  <2> HIDE DEF pods
  <2> QED
    BY <1>5, <2>1, <2>2, FannedKeeps
<1>7. FellOK'
  BY LocalSeqTyped, MarkedKeeps DEF PublishFails
<1>8. ViewOK'
  BY <1>1, OwedKeeps
<1> QED
  BY <1>1, <1>4, <1>5, <1>6, <1>7, <1>8, Unchanged DEF IInv

(* A marker that is published, by Recover or by the retrier.                *)
LEMMA MarkerKeeps ==
  ASSUME IInv, NEW p \in Pods, NEW w \in Nat, MarkerCommits(p, w)
  PROVE  RedisOK' /\ PodsOK' /\ ClockOK' /\ SpentOK'
<1>1. PICK D \in SUBSET Listening :
        /\ spent' = Spend(Cardinality(Listening \ D))
        /\ redis' = Committed(NextSeq(w), Resync)
        /\ pod' = Seeded(Arrived(NextSeq(w), Resync, D), p, NextSeq(w))
  BY DEF MarkerCommits
<1>2. NextSeq(w) \in Nat
  BY NextSeqTyped
<1>3. RedisOK'
  BY <1>1, <1>2, CommittedKeeps
<1>4. SpentOK' /\ spent'.fanned = spent.fanned
  BY <1>1 DEF IInv, SpentOK, Spend
<1>5. Follows(pod')
  BY <1>1, <1>2, ArrivedFollows, SeededFollows
<1> QED
  BY <1>3, <1>4, <1>5, PodsFollow DEF Follows

(* Recover.                                                                 *)
LEMMA RecoverStep ==
  ASSUME IInv, NEW p \in Pods, NEW w \in recov[p], Recover(p, w)
  PROVE  IInv'
<1>1. /\ recov' = [recov EXCEPT ![p] = recov[p] \ {w}]
      /\ MarkerCommits(p, w) /\ UNCHANGED fell /\ UNCHANGED <<view, todo>>
  BY DEF Recover
<1>2. w \in Nat /\ RecovOK'
  BY <1>1 DEF IInv, RecovOK
<1> QED
  BY <1>1, <1>2, MarkerKeeps, Unchanged DEF IInv

(* Recover that fails.                                                      *)
LEMMA RecoverFailsStep ==
  ASSUME IInv, NEW p \in Pods, NEW w \in recov[p], RecoverFails(p, w)
  PROVE  IInv'
<1>1. recov' = [recov EXCEPT ![p] = recov[p] \ {w}] /\ UNCHANGED <<view, todo>>
  BY DEF RecoverFails
<1>2. w \in Nat /\ RecovOK'
  BY <1>1 DEF IInv, RecovOK
<1>3. PICK ran \in BOOLEAN :
        /\ redis' = IF ran THEN Committed(NextSeq(w), Resync) ELSE redis
        /\ pod' = [(IF ran THEN Arrived(NextSeq(w), Resync, Listening) ELSE pod) EXCEPT
                      ![p] = FannedOut(@, Resync)]
  BY DEF RecoverFails
<1>4. NextSeq(w) \in Nat
  BY <1>2, NextSeqTyped
<1>5. RedisOK'
  BY <1>3, <1>4, CommittedKeeps, Unchanged
<1>6. SpentOK' /\ (spent.fanned => spent'.fanned) /\ (pod[p].alive => spent'.fanned)
  BY DEF IInv, SpentOK, Spend, RecoverFails
<1>7. PodsOK' /\ ClockOK'
  <2> DEFINE pods == IF ran THEN Arrived(NextSeq(w), Resync, Listening) ELSE pod
  <2>1. Follows(pods)
    BY <1>4, ArrivedFollows, SamePods
  <2>2. pod' = [pods EXCEPT ![p] = FannedOut(pods[p], Resync)]
    BY <1>3
  <2> HIDE DEF pods
  <2> QED
    BY <1>6, <2>1, <2>2, FannedKeeps
<1>8. FellOK'
  <2>1. Highest(w, LocalSeq(pod[p])) \in Nat
    BY <1>2, LocalSeqTyped DEF Highest
  <2> QED
    BY <2>1, MarkedKeeps DEF RecoverFails
<1> QED
  BY <1>1, <1>2, <1>5, <1>6, <1>7, <1>8, Unchanged DEF IInv

(* The type of one replica's marker.                                        *)
LEMMA FellAt ==
  ASSUME IInv, NEW p \in Pods
  PROVE  /\ fell[p] \in Fells /\ fell[p].watermark \in Nat
         /\ fell[p].retrying # None => fell[p].on /\ fell[p].retrying <= fell[p].watermark
BY DEF IInv, FellOK, Fells

(* A marker that is replaced.                                               *)
LEMMA FellReplaced ==
  ASSUME IInv, NEW p \in Pods, NEW f \in Fells, fell' = [fell EXCEPT ![p] = f],
         f.retrying # None => f.on /\ f.retrying <= f.watermark
  PROVE  FellOK'
BY DEF IInv, FellOK

(* Retry.                                                                   *)
LEMMA RetryStep ==
  ASSUME IInv, NEW p \in Pods, Retry(p)
  PROVE  IInv'
<1> DEFINE f == [fell[p] EXCEPT !.retrying = fell[p].watermark]
<1>1. /\ fell[p].on /\ MarkerCommits(p, fell[p].watermark)
      /\ fell' = [fell EXCEPT ![p] = f]
      /\ UNCHANGED recov /\ UNCHANGED <<view, todo>>
  BY DEF Retry
<1>2. f \in Fells /\ f.retrying = fell[p].watermark /\ f.watermark = fell[p].watermark
      /\ f.on = fell[p].on
  BY FellAt DEF Fells
<1>3. fell[p].watermark \in Nat
  BY FellAt
<1> HIDE DEF f
<1>4. f.on /\ f.retrying <= f.watermark
  <2>1. fell[p].watermark <= fell[p].watermark
    BY <1>3
  <2> QED
    BY <1>1, <1>2, <2>1
<1>5. FellOK'
  BY <1>1, <1>2, <1>4, FellReplaced
<1> QED
  BY <1>1, <1>3, <1>5, MarkerKeeps, Unchanged DEF IInv

(* Retry that fails after the script ran.                                   *)
LEMMA RetryFailsStep ==
  ASSUME IInv, NEW p \in Pods, RetryFails(p)
  PROVE  IInv'
<1> DEFINE n == NextSeq(fell[p].watermark)
<1>1. /\ redis' = Committed(n, Resync) /\ pod' = Arrived(n, Resync, Listening)
      /\ spent' = Spend(1) /\ UNCHANGED fell /\ UNCHANGED recov /\ UNCHANGED <<view, todo>>
  BY DEF RetryFails
<1>2. n \in Nat
  BY FellAt, NextSeqTyped
<1> HIDE DEF n
<1>3. SpentOK' /\ spent'.fanned = spent.fanned
  BY <1>1 DEF IInv, SpentOK, Spend
<1>4. PodsOK' /\ ClockOK'
  BY <1>1, <1>2, <1>3, ArrivedFollows, PodsFollow DEF Follows
<1> QED
  BY <1>1, <1>2, <1>3, <1>4, CommittedKeeps, Unchanged DEF IInv

(* The end of a retry.                                                      *)
LEMMA RetryEndsStep ==
  ASSUME IInv, NEW p \in Pods, RetryEnds(p)
  PROVE  IInv'
<1> DEFINE f == [fell[p] EXCEPT !.retrying = None, !.renewed = FALSE]
<1>1. UNCHANGED redis /\ UNCHANGED pod /\ UNCHANGED recov /\ UNCHANGED <<view, todo>>
  BY DEF RetryEnds
<1>2. SpentOK' /\ spent'.fanned = spent.fanned
  BY DEF IInv, SpentOK, RetryEnds
<1>3. \/ fell' = [fell EXCEPT ![p] = NoMarker]
      \/ fell' = [fell EXCEPT ![p] = f]
  BY DEF RetryEnds
<1>4. f \in Fells /\ f.retrying = None
  BY FellAt DEF Fells
<1> HIDE DEF f
<1>5. FellOK'
  BY <1>3, <1>4, FellReplaced, UnmarkedKeeps
<1>6. ClockOK'
  BY <1>1, <1>2 DEF IInv, ClockOK
<1> QED
  BY <1>1, <1>2, <1>5, <1>6, Unchanged DEF IInv

(* The end of the retrier's lifetime.                                       *)
LEMMA GiveUpStep ==
  ASSUME IInv, NEW p \in Pods, GiveUp(p)
  PROVE  IInv'
<1>1. UNCHANGED redis /\ UNCHANGED pod /\ UNCHANGED recov /\ UNCHANGED <<view, todo>>
  BY DEF GiveUp
<1>2. SpentOK' /\ spent'.fanned = spent.fanned
  BY DEF IInv, SpentOK, GiveUp
<1>3. FellOK'
  BY UnmarkedKeeps DEF GiveUp
<1>4. ClockOK'
  BY <1>1, <1>2 DEF IInv, ClockOK
<1> QED
  BY <1>1, <1>2, <1>3, <1>4, Unchanged DEF IInv

(* The loss of the counter.                                                 *)
LEMMA ResetRedisStep ==
  ASSUME IInv, ResetRedis
  PROVE  IInv'
<1>1. UNCHANGED pod /\ UNCHANGED fell /\ UNCHANGED recov /\ UNCHANGED <<view, todo>>
  BY DEF ResetRedis
<1>2. SpentOK' /\ spent'.fanned = spent.fanned
  BY DEF IInv, SpentOK, Spend, ResetRedis
<1>3. RedisOK'
  BY BoundsAssumption DEF RedisOK, ResetRedis
<1>4. ClockOK'
  BY <1>1, <1>2 DEF IInv, ClockOK
<1> QED
  BY <1>1, <1>2, <1>3, <1>4, Unchanged DEF IInv
-----------------------------------------------------------------------------
(* A viewer that is replaced.                                               *)
LEMMA ViewReplaced ==
  ASSUME IInv, NEW p \in Pods, NEW v \in Views, view' = [view EXCEPT ![p] = v], UNCHANGED todo,
         v.missing \cap todo = {}, v.since \cap todo = {}, Answerable(v)
  PROVE  ViewOK'
BY DEF IInv, ViewOK

(* The type of one viewer.                                                  *)
LEMMA ViewAt ==
  ASSUME IInv, NEW p \in Pods
  PROVE  /\ view[p] \in Views /\ view[p].last \in Nat /\ view[p].missing \in SUBSET Msgs
         /\ view[p].missing \cap todo = {} /\ view[p].since \cap todo = {}
         /\ view[p].since \in SUBSET Msgs /\ view[p].upto \in Nat /\ Answerable(view[p])
BY DEF IInv, ViewOK, Views

(* The pump subscribes.                                                     *)
LEMMA PumpSubscribeStep ==
  ASSUME IInv, NEW p \in Pods, PumpSubscribe(p)
  PROVE  IInv'
<1> DEFINE t == [pod[p] EXCEPT !.pump = "subscribed"]
<1>1. /\ pod[p].pump = "dial" /\ pod' = [pod EXCEPT ![p] = t] /\ UNCHANGED redis
      /\ UNCHANGED fell /\ UNCHANGED recov /\ UNCHANGED <<view, todo>> /\ UNCHANGED spent
  BY DEF PumpSubscribe
<1>2. Proper(t) /\ (Forward(pod[p]) => Forward(t))
  BY <1>1, PodAt DEF Proper, Bounded, Streams, Pumps, Forward
<1> QED
  BY <1>1, <1>2, OnePod, Unchanged DEF IInv

(* The pump catches up.                                                     *)
LEMMA PumpCatchUpStep ==
  ASSUME IInv, NEW p \in Pods, PumpCatchUp(p)
  PROVE  IInv'
<1> DEFINE s == CaughtUp(pod[p], redis.buf)
           a == s.deaf /\ redis.buf = <<>> /\ spent.reset
           b == pod[p].pump = "subscribed" /\ s.wake
           t == [s EXCEPT !.pump = "live", !.deaf = a, !.wake = b]
           c == IF CutShort(p) THEN view[p].lost \cup {"cut"} ELSE view[p].lost
           v == [view[p] EXCEPT !.lost = c]
<1>1. CatchUpDue(p) /\ pod' = [pod EXCEPT ![p] = t] /\ view' = [view EXCEPT ![p] = v]
  <2>1. CatchUpDue(p)
    BY DEF PumpCatchUp
  <2>2. pod' = [pod EXCEPT ![p] = t]
    BY DEF PumpCatchUp
  <2>3. view \in [Pods -> Views]
    BY DEF IInv, ViewOK
  <2>4. view' = [view EXCEPT ![p] = v]
    BY <2>3 DEF PumpCatchUp
  <2> QED
    BY <2>1, <2>2, <2>4
<1>2. /\ UNCHANGED redis /\ UNCHANGED fell /\ UNCHANGED recov /\ UNCHANGED todo
      /\ UNCHANGED spent
  BY DEF PumpCatchUp
<1>3. a \in BOOLEAN /\ b \in BOOLEAN /\ c \in SUBSET Losses
  BY ViewAt DEF Views, Losses
<1>4. Keeps(pod[p], s)
  BY PodAt, CaughtUpKeeps DEF IInv, RedisOK
<1>5. pod[p].alive
  BY <1>1, PodAt DEF CatchUpDue, Proper
<1> HIDE DEF s, a, b, c
<1>6. /\ t \in Streams /\ t.ch = s.ch /\ t.lastSeq = s.lastSeq /\ t.pump = "live"
      /\ t.alive = s.alive
  BY <1>3, <1>4 DEF Keeps, Bounded, Streams, Pumps
<1>7. Proper(t) /\ (Forward(pod[p]) => Forward(t))
  BY <1>4, <1>5, <1>6 DEF Keeps, Proper, Bounded, Forward
<1>8. /\ v \in Views /\ v.missing = view[p].missing /\ v.since = view[p].since
      /\ v.reply = view[p].reply /\ v.upto = view[p].upto
  BY <1>3, ViewAt DEF Views
<1> HIDE DEF t, v
<1>9. ViewOK'
  BY <1>1, <1>2, <1>8, ViewAt, ViewReplaced DEF Answerable
<1> QED
  BY <1>1, <1>2, <1>7, <1>9, OnePod, Unchanged DEF IInv

(* The pump's catch-up fails.                                               *)
LEMMA PumpCatchUpFailsStep ==
  ASSUME IInv, NEW p \in Pods, PumpCatchUpFails(p)
  PROVE  IInv'
<1> DEFINE b == pod[p].pump = "subscribed" /\ pod[p].wake
           r == pod[p].sub
           t == [pod[p] EXCEPT !.pump = "live", !.ready = r, !.wake = b]
<1>1. CatchUpDue(p) /\ spent' = Spend(1) /\ pod' = [pod EXCEPT ![p] = t]
  <2>1. pod \in [Pods -> Streams]
    BY DEF IInv, PodsOK
  <2> QED
    BY <2>1 DEF PumpCatchUpFails, CatchUpDue
<1>2. UNCHANGED redis /\ UNCHANGED fell /\ UNCHANGED recov /\ UNCHANGED <<view, todo>>
  BY DEF PumpCatchUpFails
<1>3. SpentOK' /\ spent'.fanned = spent.fanned
  BY <1>1 DEF IInv, SpentOK, Spend
<1>4. b \in BOOLEAN /\ r \in BOOLEAN /\ pod[p].alive
  BY <1>1, PodAt DEF CatchUpDue, Proper, Streams
<1> HIDE DEF b, r
<1>5. /\ t \in Streams /\ t.ch = pod[p].ch /\ t.lastSeq = pod[p].lastSeq /\ t.pump = "live"
      /\ t.alive = pod[p].alive
  BY <1>4, PodAt DEF Streams, Pumps
<1>6. Proper(t) /\ (Forward(pod[p]) => Forward(t))
  BY <1>4, <1>5, PodAt DEF Proper, Bounded, Forward
<1> QED
  BY <1>1, <1>2, <1>3, <1>6, OnePod, Unchanged DEF IInv

(* The pump delivers.                                                       *)
LEMMA PumpDeliverStep ==
  ASSUME IInv, NEW p \in Pods, PumpDeliver(p)
  PROVE  IInv'
<1> DEFINE e == Head(pod[p].live)
           s == Delivered(pod[p], e)
           q == Tail(s.live)
           d == s.deaf \/ (~pod[p].ready /\ Len(pod[p].live) = 1)
           t == [s EXCEPT !.live = q, !.deaf = d]
<1>1. pod[p].pump = "live" /\ pod[p].live # <<>> /\ pod' = [pod EXCEPT ![p] = t]
  <2>1. pod[p].pump = "live" /\ pod[p].live # <<>>
    BY DEF PumpDeliver
  <2>2. pod' = [pod EXCEPT ![p] = t]
    BY DEF PumpDeliver
  <2> QED
    BY <2>1, <2>2
<1>2. /\ UNCHANGED redis /\ UNCHANGED fell /\ UNCHANGED recov /\ UNCHANGED <<view, todo>>
      /\ UNCHANGED spent
  BY DEF PumpDeliver
<1>3. pod[p].live \in Seq(Events) /\ e \in Events /\ pod[p].alive
  BY <1>1, PodAt DEF Streams, Proper
<1>4. Keeps(pod[p], s) /\ s.live = pod[p].live
  BY <1>3, PodAt, DeliveredKeeps, DeliveredLive
<1> HIDE DEF s, e
<1>5. q \in Seq(Events) /\ d \in BOOLEAN
  BY <1>1, <1>3, <1>4
<1> HIDE DEF q, d
<1>6. s \in Streams /\ Bounded(s)
  BY <1>4 DEF Keeps, Bounded
<1>7. Keeps(s, t)
  BY <1>5, <1>6, StreamTouched
<1>8. Proper(t) /\ (Forward(pod[p]) => Forward(t))
  BY <1>1, <1>3, <1>4, <1>7 DEF Keeps, Proper
<1> QED
  BY <1>1, <1>2, <1>8, OnePod, Unchanged DEF IInv

(* The pump reconnects.                                                     *)
LEMMA PumpReconnectsStep ==
  ASSUME IInv, NEW p \in Pods, PumpReconnects(p)
  PROVE  IInv'
<1> DEFINE t == [pod[p] EXCEPT !.pump = "dial", !.live = <<>>, !.deaf = TRUE]
<1>1. pod[p].pump = "live" /\ spent' = Spend(1) /\ pod' = [pod EXCEPT ![p] = t]
  <2>1. pod \in [Pods -> Streams]
    BY DEF IInv, PodsOK
  <2> QED
    BY <2>1 DEF PumpReconnects
<1>2. UNCHANGED redis /\ UNCHANGED fell /\ UNCHANGED recov /\ UNCHANGED <<view, todo>>
  BY DEF PumpReconnects
<1>3. SpentOK' /\ spent'.fanned = spent.fanned
  BY <1>1 DEF IInv, SpentOK, Spend
<1>4. /\ t \in Streams /\ t.ch = pod[p].ch /\ t.lastSeq = pod[p].lastSeq /\ t.pump = "dial"
      /\ t.alive = pod[p].alive
  <2>1. \A q \in Seq(Events) :
          [pod[p] EXCEPT !.pump = "dial", !.live = q, !.deaf = TRUE] \in Streams
    BY PodAt DEF Streams, Pumps
  <2>2. t \in Streams
    <3>1. <<>> \in Seq(Events)
      OBVIOUS
    <3> QED
      BY <2>1, <3>1, Zenon
  <2>3. /\ t.ch = pod[p].ch /\ t.lastSeq = pod[p].lastSeq /\ t.pump = "dial"
        /\ t.alive = pod[p].alive
    BY PodAt DEF Streams
  <2> QED
    BY <2>2, <2>3
<1>5. Proper(t) /\ (Forward(pod[p]) => Forward(t))
  BY <1>1, <1>4, PodAt DEF Proper, Bounded, Forward
<1> QED
  BY <1>1, <1>2, <1>3, <1>5, OnePod, Unchanged DEF IInv

(* The type of a new stream.                                                *)
LEMMA FreshStream ==
  /\ NoStream \in Streams /\ Proper(NoStream) /\ Forward(NoStream)
  /\ \A s : s.ch = <<>> /\ s \in Streams => Bounded(s) /\ Forward(s)
<1>1. NoStream \in Streams /\ NoStream.ch = <<>> /\ NoStream.lastSeq = 0
  BY DEF NoStream, Streams, Pumps
<1>2. NoStream.pump = "off" /\ ~NoStream.alive /\ ~NoStream.sub
  BY DEF NoStream
<1>3. Rising(<<>>) /\ \A n : UpTo(<<>>, n)
  BY DEF Rising, UpTo
<1>4. Len(<<>>) <= ChanMax
  BY BoundsAssumption
<1> QED
  BY <1>1, <1>2, <1>3, <1>4 DEF Proper, Bounded, Forward

(* Subscribe.                                                               *)
LEMMA SubscribeStep ==
  ASSUME IInv, NEW p \in Pods, Subscribe(p)
  PROVE  IInv'
<1> DEFINE s == IF pod[p].alive THEN pod[p]
                ELSE [NoStream EXCEPT !.alive = TRUE, !.pump = "dial"]
           t == [s EXCEPT !.sub = TRUE, !.ready = FALSE, !.lastSeq = 0, !.offset = 0,
                          !.ch = <<>>, !.wake = TRUE]
           v == [NoView EXCEPT !.missing = Msgs \ todo, !.asked = TRUE, !.before = view[p].before]
<1>1. pod' = [pod EXCEPT ![p] = t] /\ view' = [view EXCEPT ![p] = v]
  BY DEF Subscribe
<1>2. UNCHANGED redis /\ UNCHANGED fell /\ UNCHANGED recov /\ UNCHANGED todo
  BY DEF Subscribe
<1>3. SpentOK' /\ spent'.fanned = spent.fanned
  BY DEF IInv, SpentOK, Subscribe
<1>4. s \in Streams /\ s.alive /\ s.pump # "off"
  <2>1. CASE pod[p].alive
    BY <2>1, PodAt DEF Proper
  <2>2. CASE ~pod[p].alive
    BY <2>2, FreshStream DEF Streams, Pumps
  <2> QED
    BY <2>1, <2>2
<1> HIDE DEF s
<1>5. t \in Streams /\ t.ch = <<>> /\ t.alive = s.alive /\ t.pump = s.pump
  <2>1. \A q \in Seq(Events) : [s EXCEPT !.sub = TRUE, !.ready = FALSE, !.lastSeq = 0,
                                      !.offset = 0, !.ch = q, !.wake = TRUE] \in Streams
    BY <1>4 DEF Streams
  <2>2. t \in Streams
    <3>1. <<>> \in Seq(Events)
      OBVIOUS
    <3> QED
      BY <2>1, <3>1, Zenon
  <2>3. t.ch = <<>> /\ t.alive = s.alive /\ t.pump = s.pump
    BY <1>4 DEF Streams
  <2> QED
    BY <2>2, <2>3
<1>6. Proper(t) /\ Forward(t)
  BY <1>4, <1>5, FreshStream DEF Proper
<1>7. /\ v \in Views /\ v.missing = Msgs \ todo /\ v.since = {} /\ v.reply = "none" /\ v.upto = 0
  BY ViewAt DEF NoView, Views, Replies
<1> HIDE DEF t, v
<1>8. ViewOK'
  BY <1>1, <1>2, <1>7, ViewReplaced DEF Answerable
<1> QED
  BY <1>1, <1>2, <1>3, <1>6, <1>8, OnePod, Unchanged DEF IInv

(* Unsubscribe.                                                             *)
LEMMA UnsubscribeStep ==
  ASSUME IInv, NEW p \in Pods, Unsubscribe(p)
  PROVE  IInv'
<1> DEFINE t == [pod[p] EXCEPT !.sub = FALSE, !.ready = FALSE, !.lastSeq = 0, !.offset = 0,
                               !.ch = <<>>]
           v == [NoView EXCEPT !.before = view[p].before]
<1>1. pod' = [pod EXCEPT ![p] = t] /\ view' = [view EXCEPT ![p] = v]
  <2>1. pod \in [Pods -> Streams]
    BY DEF IInv, PodsOK
  <2> QED
    BY <2>1 DEF Unsubscribe
<1>2. /\ UNCHANGED redis /\ UNCHANGED fell /\ UNCHANGED recov /\ UNCHANGED todo
      /\ UNCHANGED spent
  BY DEF Unsubscribe
<1>3. /\ t \in Streams /\ t.ch = <<>> /\ t.alive = pod[p].alive /\ t.pump = pod[p].pump
      /\ ~t.sub
  <2>1. \A q \in Seq(Events) : [pod[p] EXCEPT !.sub = FALSE, !.ready = FALSE, !.lastSeq = 0,
                                           !.offset = 0, !.ch = q] \in Streams
    BY PodAt DEF Streams
  <2>2. t \in Streams
    <3>1. <<>> \in Seq(Events)
      OBVIOUS
    <3> QED
      BY <2>1, <3>1, Zenon
  <2>3. t.ch = <<>> /\ t.alive = pod[p].alive /\ t.pump = pod[p].pump /\ ~t.sub
    BY PodAt DEF Streams
  <2> QED
    BY <2>2, <2>3
<1>4. Proper(t) /\ Forward(t)
  BY <1>3, PodAt, FreshStream DEF Proper
<1>5. /\ v \in Views /\ v.missing = {} /\ v.since = {} /\ v.reply = "none" /\ v.upto = 0
  BY ViewAt DEF NoView, Views, Replies
<1> HIDE DEF t, v
<1>6. ViewOK'
  BY <1>1, <1>2, <1>5, ViewReplaced DEF Answerable
<1> QED
  BY <1>1, <1>2, <1>4, <1>6, OnePod, Unchanged DEF IInv

(* cleanupSessionStream.                                                    *)
LEMMA RetireStep ==
  ASSUME IInv, NEW p \in Pods, Retire(p)
  PROVE  IInv'
<1>1. pod' = [pod EXCEPT ![p] = NoStream] /\ fell' = [fell EXCEPT ![p] = NoMarker]
  BY DEF Retire
<1>2. UNCHANGED redis /\ UNCHANGED recov /\ UNCHANGED <<view, todo>>
  BY DEF Retire
<1>3. SpentOK' /\ spent'.fanned = spent.fanned
  BY DEF IInv, SpentOK, Retire
<1> QED
  BY <1>1, <1>2, <1>3, FreshStream, OnePod, UnmarkedKeeps, Unchanged DEF IInv

(* What a request makes of a viewer.                                        *)
LEMMA RequestedIs ==
  ASSUME NEW v \in Views, NEW within \in BOOLEAN
  PROVE  /\ Requested(v, within) \in Views
         /\ Requested(v, within).last = v.last /\ Requested(v, within).missing = v.missing
         /\ Requested(v, within).reply = v.reply /\ Requested(v, within).upto = v.upto
         /\ Requested(v, within).since = v.since
         /\ v.asked => Requested(v, within).asked
         /\ v.lost \subseteq Requested(v, within).lost
         /\ \/ Requested(v, within).asked \/ Requested(v, within).lost # {}
            \/ Lacking(v) = {}
<1>1. CASE ~within
  BY <1>1 DEF Requested, Views
<1>2. CASE within
  <2> DEFINE c == IF v.asked \/ Lacking(v) = {} THEN v.lost ELSE v.lost \cup {"throttled"}
             w == [v EXCEPT !.lost = c]
  <2>1. Requested(v, within) = w
    BY <1>2 DEF Requested
  <2>2. c \in SUBSET Losses /\ v.lost \subseteq c /\ (v.asked \/ c # {} \/ Lacking(v) = {})
    BY DEF Views, Losses
  <2> HIDE DEF c
  <2>3. /\ w \in Views /\ w.last = v.last /\ w.missing = v.missing /\ w.reply = v.reply
        /\ w.upto = v.upto /\ w.since = v.since /\ w.asked = v.asked /\ w.lost = c
    BY <2>2 DEF Views
  <2> HIDE DEF w
  <2> QED
    BY <2>1, <2>2, <2>3
<1> QED
  BY <1>1, <1>2

(* What an event makes of the viewer that is handed it.                     *)
Handed(v, e, w) ==
  /\ w \in Views /\ w.reply = v.reply /\ w.upto = v.upto /\ w.since = v.since
  /\ w.last = IF e.seq <= v.last THEN v.last ELSE e.seq
  /\ w.missing = IF e.seq <= v.last THEN v.missing ELSE v.missing \ {e.msg}
  /\ v.asked => w.asked
  /\ v.lost \subseteq w.lost
  /\ e.seq > v.last /\ e.msg = Resync => w.asked \/ w.lost # {} \/ Lacking(v) = {}
  /\ e.seq > v.last /\ e.msg \in v.since => w.lost # {}

(* What a viewer does with an event from its channel (onmessage).           *)
LEMMA ReceivedIs ==
  ASSUME NEW v \in Views, NEW e \in Events, NEW within \in BOOLEAN
  PROVE  Handed(v, e, Received(v, e, within))
<1> DEFINE w == Received(v, e, within)
<1> SUFFICES Handed(v, e, w)
  OBVIOUS
<1>0. e.seq \in Nat /\ v.last \in Nat /\ (e.msg = Resync => v.missing \ {e.msg} = v.missing)
      /\ (e.msg = Resync => e.msg \notin v.since)
  BY MarkersAssumption DEF Events, Views
<1>1. CASE e.seq <= v.last
  BY <1>0, <1>1 DEF Received, Handed
<1>2. CASE ~(e.seq <= v.last) /\ e.msg = Resync
  <2> DEFINE u == [v EXCEPT !.last = e.seq]
  <2>1. w = Requested(u, within)
    BY <1>2 DEF Received
  <2>2. /\ u \in Views /\ u.last = e.seq /\ u.missing = v.missing /\ u.reply = v.reply
        /\ u.upto = v.upto /\ u.since = v.since /\ u.asked = v.asked /\ u.lost = v.lost
    BY <1>0 DEF Views
  <2> HIDE DEF u
  <2>3. Lacking(u) = Lacking(v)
    BY <2>2 DEF Lacking
  <2> QED
    <3> DEFINE y == Requested(u, within)
    <3>1. /\ y \in Views /\ y.last = u.last /\ y.missing = u.missing /\ y.reply = u.reply
          /\ y.upto = u.upto /\ y.since = u.since /\ (u.asked => y.asked)
          /\ u.lost \subseteq y.lost /\ (y.asked \/ y.lost # {} \/ Lacking(u) = {})
      BY <2>2, RequestedIs
    <3>2. w = y
      BY <2>1
    <3> HIDE DEF y, w
    <3> QED
      BY <1>0, <1>2, <2>2, <2>3, <3>1, <3>2 DEF Handed
<1>3. CASE ~(e.seq <= v.last) /\ e.msg # Resync
  <2> DEFINE x == v.missing \ {e.msg}
             c == IF e.msg \in v.since THEN v.lost \cup {"overtaken"} ELSE v.lost
             u == [v EXCEPT !.last = e.seq, !.missing = x, !.lost = c]
  <2>1. w = u
    BY <1>3 DEF Received
  <2>2. x \in SUBSET Msgs /\ c \in SUBSET Losses /\ v.lost \subseteq c
        /\ (e.msg \in v.since => c # {})
    BY DEF Views, Losses
  <2> HIDE DEF x, c
  <2>3. /\ u \in Views /\ u.last = e.seq /\ u.missing = x /\ u.reply = v.reply
        /\ u.upto = v.upto /\ u.since = v.since /\ u.asked = v.asked /\ u.lost = c
    BY <1>0, <2>2 DEF Views
  <2> HIDE DEF u
  <2> QED
    <3> HIDE DEF w
    <3> QED
      BY <1>0, <1>3, <2>1, <2>2, <2>3 DEF x, Handed
<1> QED
  BY <1>1, <1>2, <1>3

(* The viewer receives.                                                     *)
LEMMA ReceiveStep ==
  ASSUME IInv, NEW p \in Pods, Receive(p)
  PROVE  IInv'
<1> DEFINE e == Head(pod[p].ch)
           v == view[p]
           q == Tail(pod[p].ch)
           t == [pod[p] EXCEPT !.ch = q]
<1>1. pod[p].ch # <<>> /\ pod' = [pod EXCEPT ![p] = t]
  BY DEF Receive
<1>2. /\ UNCHANGED redis /\ UNCHANGED fell /\ UNCHANGED recov /\ UNCHANGED todo
      /\ UNCHANGED spent
  BY DEF Receive
<1>3. pod[p].ch \in Seq(Events) /\ pod[p].lastSeq \in Nat /\ Len(pod[p].ch) <= ChanMax
  BY PodAt DEF Bounded, Streams
<1>4. q \in Seq(Events) /\ Len(q) <= ChanMax /\ e \in Events
  BY <1>1, <1>3, BoundsAssumption
<1>5. Forward(pod[p]) => Rising(q) /\ UpTo(q, pod[p].lastSeq)
  BY <1>1, <1>3, TailRises DEF Forward
<1>6. v \in Views /\ v.before \in BOOLEAN
  BY ViewAt DEF Views
<1>7. PICK within \in BOOLEAN : view' = [view EXCEPT ![p] = Received(v, e, within)]
  BY <1>6 DEF Receive
<1> DEFINE w == Received(v, e, within)
<1>8. /\ w \in Views /\ w.missing \subseteq v.missing /\ w.since = v.since
      /\ w.reply = v.reply /\ w.upto = v.upto
  <2>1. /\ w \in Views /\ w.reply = v.reply /\ w.upto = v.upto /\ w.since = v.since
        /\ w.missing = IF e.seq <= v.last THEN v.missing ELSE v.missing \ {e.msg}
    <3>1. Handed(v, e, w)
      <4> HIDE DEF e, v
      <4> QED
        BY <1>4, <1>6, ReceivedIs, Zenon
    <3> QED
      BY <3>1 DEF Handed
  <2> HIDE DEF e, v, w
  <2> QED
    BY <2>1
<1> HIDE DEF q, w
<1>9. /\ t \in Streams /\ t.ch = q /\ t.alive = pod[p].alive /\ t.pump = pod[p].pump
      /\ t.sub = pod[p].sub /\ t.lastSeq = pod[p].lastSeq
  BY <1>4, PodAt DEF Streams
<1>10. Proper(t) /\ (Forward(pod[p]) => Forward(t))
  BY <1>4, <1>5, <1>9, PodAt DEF Proper, Bounded, Forward
<1> HIDE DEF t
<1>11. ViewOK'
  <2>1. view' = [view EXCEPT ![p] = w]
    BY <1>7 DEF w
  <2>2. w.missing \cap todo = {} /\ w.since \cap todo = {} /\ Answerable(w)
    BY <1>8, ViewAt DEF Answerable
  <2> QED
    BY <1>2, <1>8, <2>1, <2>2, ViewReplaced
<1> QED
  BY <1>1, <1>2, <1>10, <1>11, OnePod, Unchanged DEF IInv

(* The steps of a viewer that leave all else alone: what each makes of it.  *)
ViewerStep(p) ==
  Watchdog(p) \/ ReadMessages(p) \/ QueueReply(p) \/ Unanswered(p) \/ Reconnected(p)

(* A viewer that reconciles, or will, or did not in one of the ways that    *)
(* NoSilentLoss names.                                                      *)
Excused(v) == v.asked \/ v.reply = "read" \/ v.lost # {}

(* Such a step asks, or leaves nothing to ask for, or changes neither the   *)
(* clock of the viewer nor what it lacks; a clock moves to the seq of the   *)
(* reply at most.                                                           *)
LEMMA ViewerStepIs ==
  ASSUME IInv, NEW p \in Pods, ViewerStep(p)
  PROVE  \E w \in Views :
           /\ view' = [view EXCEPT ![p] = w] /\ Answerable(w)
           /\ w.missing \subseteq view[p].missing \cup view[p].since
           /\ w.since \subseteq view[p].since
           /\ \/ Excused(w) \/ Lacking(w) = {}
              \/ /\ Lacking(w) = Lacking(view[p]) /\ Clock(w) = Clock(view[p])
                 /\ Excused(view[p]) => Excused(w)
           /\ Clock(w) \in {Clock(view[p]), redis.seq, pod[p].nextSeq}
<1> DEFINE v == view[p]
<1>1. /\ v \in Views /\ v.last \in Nat /\ v.upto \in Nat /\ Answerable(v)
      /\ v.missing \in SUBSET Msgs /\ v.since \in SUBSET Msgs /\ v.lost \in SUBSET Losses
      /\ "overtaken" \in Losses /\ "unanswered" \in Losses /\ {} \in SUBSET Losses
  BY ViewAt DEF Views, Losses
<1>2. view \in [Pods -> Views] /\ redis.seq \in Nat /\ pod[p].nextSeq \in Nat
  BY PodAt DEF IInv, ViewOK, RedisOK, Streams
<1>3. CASE Watchdog(p)
  <2> DEFINE w == [v EXCEPT !.asked = TRUE, !.before = TRUE]
  <2>1. view' = [view EXCEPT ![p] = w]
    BY <1>2, <1>3 DEF Watchdog, Requested
  <2>2. /\ w \in Views /\ w.asked /\ w.last = v.last /\ w.missing = v.missing /\ w.reply = v.reply
        /\ w.upto = v.upto /\ w.since = v.since
    BY <1>1 DEF Views
  <2> HIDE DEF w
  <2>3. Excused(w) /\ Answerable(w) /\ Clock(w) = Clock(v)
    BY <1>1, <2>2 DEF Excused, Answerable, Clock
  <2> QED
    BY <2>1, <2>2, <2>3
<1>4. CASE ReadMessages(p)
  <2> DEFINE w == [v EXCEPT !.asked = FALSE, !.reply = "read", !.lost = {}]
  <2>1. view' = [view EXCEPT ![p] = w] /\ v.reply = "none"
    BY <1>2, <1>4 DEF ReadMessages
  <2>2. /\ w \in Views /\ w.reply = "read" /\ w.last = v.last /\ w.missing = v.missing
        /\ w.upto = v.upto /\ w.since = v.since
    BY <1>1 DEF Views, Replies
  <2> HIDE DEF w
  <2>3. Excused(w) /\ Answerable(w) /\ Clock(w) = Clock(v)
    BY <1>1, <2>1, <2>2 DEF Excused, Answerable, Clock
  <2> QED
    BY <2>1, <2>2, <2>3
<1>5. CASE QueueReply(p)
  <2>1. PICK n \in {redis.seq, pod[p].nextSeq} :
          view' = [view EXCEPT ![p].reply = "sent", ![p].upto = n,
                     ![p].lost = IF v.since = {} THEN @ ELSE @ \cup {"overtaken"}]
    BY <1>5 DEF QueueReply
  <2> DEFINE c == IF v.since = {} THEN v.lost ELSE v.lost \cup {"overtaken"}
             w == [v EXCEPT !.reply = "sent", !.upto = n, !.lost = c]
  <2>2. view' = [view EXCEPT ![p] = w] /\ v.reply = "read"
    BY <1>2, <1>5, <2>1 DEF QueueReply
  <2>3. c \in SUBSET Losses /\ (c # {} \/ v.since = {}) /\ n \in Nat
    BY <1>1, <1>2
  <2> HIDE DEF c
  <2>4. /\ w \in Views /\ w.reply = "sent" /\ w.last = v.last /\ w.missing = v.missing
        /\ w.upto = n /\ w.since = v.since /\ w.lost = c
    BY <1>1, <2>3 DEF Views, Replies
  <2> HIDE DEF w
  <2>5. /\ Excused(w) \/ Lacking(w) = {}
        /\ Answerable(w) /\ Clock(w) \in {v.last, n} /\ Clock(v) = v.last
    BY <1>1, <2>2, <2>3, <2>4 DEF Excused, Answerable, Clock, Highest, Lacking
  <2> QED
    BY <2>1, <2>2, <2>4, <2>5 DEF Answerable
<1>6. CASE Unanswered(p)
  <2> DEFINE a == v.asked /\ v.reply = "read"
             c == IF v.missing = {} THEN v.lost ELSE v.lost \cup {"unanswered"}
             w == [v EXCEPT !.asked = a, !.reply = "none", !.since = {}, !.lost = c]
  <2>1. view' = [view EXCEPT ![p] = w] /\ v.reply \in {"none", "read"}
    BY <1>2, <1>6 DEF Unanswered
  <2>2. c \in SUBSET Losses /\ (c # {} \/ v.missing = {}) /\ a \in BOOLEAN
    BY <1>1
  <2> HIDE DEF c, a
  <2>3. /\ w \in Views /\ w.reply = "none" /\ w.last = v.last /\ w.missing = v.missing
        /\ w.upto = v.upto /\ w.since = {} /\ w.lost = c
    BY <1>1, <2>2 DEF Views, Replies
  <2> HIDE DEF w
  <2>4. /\ Excused(w) \/ Lacking(w) = {}
        /\ Answerable(w) /\ Clock(w) = Clock(v)
    BY <1>1, <2>1, <2>2, <2>3 DEF Excused, Answerable, Clock, Lacking
  <2> QED
    BY <2>1, <2>3, <2>4
<1>7. CASE Reconnected(p)
  <2> DEFINE n == Clock(v)
             w == [v EXCEPT !.reply = "none", !.last = n, !.upto = 0,
                            !.missing = v.since, !.since = {}]
  <2>1. view' = [view EXCEPT ![p] = w] /\ v.reply = "sent"
    BY <1>2, <1>7 DEF Reconnected
  <2>2. n \in Nat
    BY <1>1 DEF Clock, Highest
  <2> HIDE DEF n
  <2>3. /\ w \in Views /\ w.reply = "none" /\ w.last = n /\ w.missing = v.since
        /\ w.upto = 0 /\ w.since = {} /\ w.lost = v.lost /\ w.asked = v.asked
    BY <1>1, <2>2 DEF Views, Replies
  <2> HIDE DEF w
  <2>4. /\ Lacking(w) = Lacking(v) /\ Answerable(w) /\ (Excused(v) => Excused(w))
    BY <2>1, <2>3 DEF Excused, Answerable, Lacking
  <2>5. Clock(w) = n
    BY <2>2, <2>3 DEF Clock, Highest
  <2> QED
    BY <2>1, <2>3, <2>4, <2>5 DEF n
<1> QED
  BY <1>3, <1>4, <1>5, <1>6, <1>7 DEF ViewerStep

(* What it leaves alone.                                                    *)
LEMMA ViewerStepLeaves ==
  ASSUME IInv, NEW p \in Pods, ViewerStep(p)
  PROVE  /\ UNCHANGED redis /\ UNCHANGED pod /\ UNCHANGED fell /\ UNCHANGED recov
         /\ UNCHANGED todo /\ SpentOK' /\ spent'.fanned = spent.fanned
         /\ spent'.forgotten = spent.forgotten /\ spent'.reset = spent.reset
<1>1. /\ UNCHANGED redis /\ UNCHANGED pod /\ UNCHANGED fell /\ UNCHANGED recov
      /\ UNCHANGED todo /\ (UNCHANGED spent \/ spent' = Spend(1))
  BY DEF ViewerStep, Watchdog, ReadMessages, QueueReply, Unanswered, Reconnected
<1> QED
  BY <1>1 DEF IInv, SpentOK, Spend

(* It keeps the invariant.                                                  *)
LEMMA ViewerStepStep ==
  ASSUME IInv, NEW p \in Pods, ViewerStep(p)
  PROVE  IInv'
<1>1. PICK w \in Views :
        /\ view' = [view EXCEPT ![p] = w] /\ Answerable(w)
        /\ w.missing \subseteq view[p].missing \cup view[p].since
        /\ w.since \subseteq view[p].since
  BY ViewerStepIs
<1>2. w.missing \cap todo = {} /\ w.since \cap todo = {}
  BY <1>1, ViewAt
<1>3. ViewOK'
  BY <1>1, <1>2, ViewReplaced, ViewerStepLeaves
<1>4. ClockOK'
  BY ViewerStepLeaves DEF IInv, ClockOK
<1> QED
  BY <1>3, <1>4, ViewerStepLeaves, Unchanged DEF IInv

(* Every step keeps the invariant.                                          *)
LEMMA StepSound == IInv /\ [Next]_vars => IInv'
<1> SUFFICES ASSUME IInv, [Next]_vars
             PROVE  IInv'
  OBVIOUS
<1>1. CASE UNCHANGED vars
  BY <1>1, Unchanged DEF vars, IInv
<1>2. ASSUME NEW p \in Pods, NEW m \in Msgs, Publish(p, m) \/ PublishFails(p, m)
      PROVE  IInv'
  BY <1>2, PublishStep, PublishFailsStep
<1>3. ASSUME NEW p \in Pods, NEW w \in recov[p], Recover(p, w) \/ RecoverFails(p, w)
      PROVE  IInv'
  BY <1>3, RecoverStep, RecoverFailsStep
<1>4. ASSUME NEW p \in Pods, Retry(p) \/ RetryFails(p) \/ RetryEnds(p) \/ GiveUp(p)
      PROVE  IInv'
  BY <1>4, RetryStep, RetryFailsStep, RetryEndsStep, GiveUpStep
<1>5. ASSUME NEW p \in Pods, PumpStep(p) \/ PumpCatchUpFails(p) \/ PumpReconnects(p)
      PROVE  IInv'
  BY <1>5, PumpSubscribeStep, PumpCatchUpStep, PumpDeliverStep, PumpCatchUpFailsStep,
     PumpReconnectsStep DEF PumpStep
<1>6. ASSUME NEW p \in Pods, Subscribe(p) \/ Unsubscribe(p) \/ Retire(p)
      PROVE  IInv'
  BY <1>6, SubscribeStep, UnsubscribeStep, RetireStep
<1>7. ASSUME NEW p \in Pods, Receive(p) \/ ViewerStep(p)
      PROVE  IInv'
  BY <1>7, ReceiveStep, ViewerStepStep
<1>8. CASE ResetRedis
  BY <1>8, ResetRedisStep
<1>9. CASE Idle
  BY <1>1, <1>9 DEF Idle
<1> QED
  BY <1>1, <1>2, <1>3, <1>4, <1>5, <1>6, <1>7, <1>8, <1>9 DEF Next, ViewerStep

(* The invariant of every reachable state.                                  *)
LEMMA InvariantHolds == Spec => []IInv
<1> QED
  BY InitSound, StepSound, PTL DEF Spec

(* The buffer and every channel stay within their limits, a subscriber has  *)
(* a live stream with a pump, a viewer lacks only what was published, and a *)
(* retrier never holds a watermark above its marker's (publishScript, push, *)
(* Subscribe, retryFallbackResync).                                         *)
THEOREM TypeCorrect == Spec => []TypeOK
<1>1. IInv => TypeOK
  <2> SUFFICES ASSUME IInv
               PROVE  TypeOK
    OBVIOUS
  <2>1. redis.seq \in Nat /\ Len(redis.buf) <= BufferMax
    BY DEF IInv, RedisOK
  <2>2. ASSUME NEW p \in Pods
        PROVE  /\ pod[p].pump \in {"off", "dial", "subscribed", "live"}
               /\ pod[p].pump # "off" <=> pod[p].alive
               /\ pod[p].sub => pod[p].alive
               /\ Len(pod[p].ch) <= ChanMax
               /\ view[p].missing \cup view[p].since \subseteq Msgs \ todo
               /\ view[p].reply \in {"none", "read", "sent"}
               /\ view[p].reply = "none" => view[p].since = {}
               /\ view[p].reply # "sent" => view[p].upto = 0
               /\ fell[p].retrying # None => fell[p].on /\ fell[p].retrying <= fell[p].watermark
    <3>1. pod[p].pump \in {"off", "dial", "subscribed", "live"}
      BY PodAt DEF Streams, Pumps
    <3>2. /\ view[p].missing \cup view[p].since \subseteq Msgs \ todo
          /\ view[p].reply \in {"none", "read", "sent"}
          /\ view[p].reply = "none" => view[p].since = {}
          /\ view[p].reply # "sent" => view[p].upto = 0
      BY ViewAt DEF Views, Replies, Answerable
    <3> QED
      BY <3>1, <3>2, PodAt, FellAt DEF Proper, Bounded
  <2> QED
    BY <2>1, <2>2 DEF TypeOK
<1> QED
  BY <1>1, InvariantHolds, PTL

(* The seqs in a subscriber's channel strictly increase over lost messages, *)
(* trimmed buffers, losses of the counter and full channels, as long as     *)
(* nothing was fanned out locally (deliverLocked, catchUpSessionStream,     *)
(* push).                                                                   *)
THEOREM ClockRunsForwardHolds == Spec => []ClockRunsForward
<1>1. IInv => ClockRunsForward
  BY DEF IInv, ClockOK, Forward, Rising, ClockRunsForward
<1> QED
  BY <1>1, InvariantHolds, PTL

(* A seq is a number.                                                       *)
LEMMA EventSeq == \A e \in Events : e.seq \in Nat
BY DEF Events

-----------------------------------------------------------------------------
(* NoSilentLoss.  A viewer whose clock is n is told of m by the queue q: an *)
(* entry above n and above all before it is m, or a marker.                 *)
Promises(q, n, m) ==
  \E i \in 1..Len(q) : /\ q[i].msg \in {m, Resync} /\ q[i].seq > n
                       /\ \A j \in 1..(i - 1) : q[j].seq < q[i].seq

(* The subscriber's channel will tell the viewer.                          *)
InChannel(s, v, m) == UpTo(s.ch, s.lastSeq) /\ Promises(s.ch, Clock(v), m)

(* An event behind a promised one, or promised itself.                      *)
LEMMA AppendPromises ==
  ASSUME NEW q \in Seq(Events), NEW e \in Events, NEW n \in Nat, NEW m
  PROVE  /\ Promises(q, n, m) => Promises(Append(q, e), n, m)
         /\ /\ \A i \in 1..Len(q) : q[i].seq < e.seq
            /\ n < e.seq /\ e.msg \in {m, Resync}
            => Promises(Append(q, e), n, m)
<1> DEFINE t == Append(q, e)
<1>1. /\ Len(t) = Len(q) + 1 /\ t[Len(q) + 1] = e /\ Len(q) \in Nat
      /\ \A i \in 1..Len(q) : t[i] = q[i]
  OBVIOUS
<1> HIDE DEF t
<1>2. ASSUME Promises(q, n, m)
      PROVE  Promises(t, n, m)
  <2>1. PICK i \in 1..Len(q) : /\ q[i].msg \in {m, Resync} /\ q[i].seq > n
                               /\ \A j \in 1..(i - 1) : q[j].seq < q[i].seq
    BY <1>2 DEF Promises
  <2>2. i \in 1..Len(t) /\ \A j \in 1..(i - 1) : j \in 1..Len(q)
    BY <1>1
  <2> QED
    BY <1>1, <2>1, <2>2 DEF Promises
<1>3. ASSUME \A i \in 1..Len(q) : q[i].seq < e.seq, n < e.seq, e.msg \in {m, Resync}
      PROVE  Promises(t, n, m)
  <2>1. Len(t) \in 1..Len(t) /\ \A j \in 1..(Len(t) - 1) : j \in 1..Len(q)
    BY <1>1
  <2>2. e.seq > n
    BY <1>3 DEF Events
  <2> QED
    BY <1>1, <1>3, <2>1, <2>2 DEF Promises
<1> QED
  BY <1>2, <1>3 DEF t

(* The oldest event is given up, or was not the one.                        *)
LEMMA TailPromises ==
  ASSUME NEW q \in Seq(Events), q # <<>>, NEW n \in Nat, NEW m, Promises(q, n, m)
  PROVE  \/ q[1].seq > n /\ q[1].msg \in {m, Resync}
         \/ Promises(Tail(q), n, m) /\ Promises(Tail(q), q[1].seq, m)
<1> DEFINE t == Tail(q)
<1>1. /\ Len(q) \in Nat /\ Len(t) = Len(q) - 1 /\ Len(q) >= 1
      /\ \A i \in 1..Len(t) : t[i] = q[i + 1] /\ i + 1 \in 1..Len(q)
  OBVIOUS
<1>2. \A i \in 1..Len(q) : q[i].seq \in Nat
  BY EventSeq
<1> HIDE DEF t
<1>3. PICK i \in 1..Len(q) : /\ q[i].msg \in {m, Resync} /\ q[i].seq > n
                             /\ \A j \in 1..(i - 1) : q[j].seq < q[i].seq
  BY DEF Promises
<1>4. CASE i = 1
  BY <1>3, <1>4
<1>5. CASE i # 1
  <2> DEFINE k == i - 1
  <2>1. k \in 1..Len(t) /\ t[k] = q[i] /\ 1 \in 1..(i - 1)
    BY <1>1, <1>3, <1>5
  <2>2. \A j \in 1..(k - 1) : j \in 1..Len(t) /\ j + 1 \in 1..(i - 1)
    BY <1>1, <1>3, <1>5
  <2>3. \A j \in 1..(k - 1) : t[j].seq < t[k].seq
    BY <1>1, <1>3, <2>1, <2>2
  <2>4. t[k].seq > q[1].seq /\ t[k].seq > n /\ t[k].msg \in {m, Resync}
    BY <1>1, <1>2, <1>3, <2>1
  <2> HIDE DEF k
  <2> QED
    BY <2>1, <2>3, <2>4 DEF Promises, t
<1> QED
  BY <1>4, <1>5

(* A full channel that gives up the promised event holds a marker for it.   *)
LEMMA OfferedPromises ==
  ASSUME NEW q \in Seq(Events), Len(q) <= ChanMax, NEW e \in Events, NEW n \in Nat, NEW m
  PROVE  /\ /\ \A i \in 1..Len(q) : q[i].seq < e.seq
            /\ Promises(q, n, m) \/ (n < e.seq /\ e.msg \in {m, Resync})
            => Promises(Offered(q, e), n, m)
         /\ \A i \in 1..Len(Offered(q, e)) :
              \/ Offered(q, e)[i].seq = e.seq
              \/ \E j \in 1..Len(q) : Offered(q, e)[i].seq = q[j].seq
<1>1. ChanMax \in Nat /\ ChanMax > 0
  BY BoundsAssumption
<1>2. CASE Len(q) < ChanMax
  <2>1. Offered(q, e) = Append(q, e)
    BY <1>2 DEF Offered
  <2>2. \A i \in 1..Len(Append(q, e)) :
          \/ Append(q, e)[i] = e
          \/ i \in 1..Len(q) /\ Append(q, e)[i] = q[i]
    OBVIOUS
  <2> QED
    BY <2>1, <2>2, AppendPromises
<1>3. CASE ~(Len(q) < ChanMax)
  <2> DEFINE r == Entry(e.seq, Resync)
             t == Tail(q)
  <2>1. Offered(q, e) = Append(t, r)
    BY <1>3 DEF Offered
  <2>2. r \in Events /\ r.seq = e.seq /\ r.msg = Resync /\ e.seq \in Nat
    BY DEF Events, Entry
  <2>3. /\ q # <<>> /\ t \in Seq(Events) /\ Len(q) >= 1
        /\ \A i \in 1..Len(t) : t[i] = q[i + 1] /\ i + 1 \in 1..Len(q)
    BY <1>1, <1>3
  <2> HIDE DEF r, t
  <2>4. \A i \in 1..Len(Append(t, r)) :
          \/ Append(t, r)[i] = r
          \/ i \in 1..Len(t) /\ Append(t, r)[i] = t[i]
    BY <2>2, <2>3
  <2>5. \A i \in 1..Len(Append(t, r)) :
              \/ Append(t, r)[i].seq = e.seq
              \/ \E j \in 1..Len(q) : Append(t, r)[i].seq = q[j].seq
    BY <2>2, <2>3, <2>4
  <2>6. ASSUME \A i \in 1..Len(q) : q[i].seq < e.seq,
               Promises(q, n, m) \/ (n < e.seq /\ e.msg \in {m, Resync})
        PROVE  Promises(Append(t, r), n, m)
    <3>1. \A i \in 1..Len(t) : t[i].seq < r.seq
      BY <2>2, <2>3, <2>6
    <3>2. 1 \in 1..Len(q) /\ q[1].seq \in Nat /\ q[1].seq < e.seq
      BY <2>3, <2>6, EventSeq
    <3>3. Promises(t, n, m) \/ n < r.seq
      <4>1. CASE Promises(q, n, m)
        <5>1. Promises(t, n, m) \/ q[1].seq > n
          BY <4>1, <2>3, TailPromises DEF t
        <5> QED
          BY <2>2, <3>2, <5>1
      <4> QED
        BY <2>2, <2>6, <4>1
    <3> QED
      BY <2>2, <2>3, <3>1, <3>3, AppendPromises
  <2> QED
    BY <2>1, <2>5, <2>6
<1> QED
  BY <1>2, <1>3

(* No clock of the viewer is at n or beyond.                                *)
Above(s, v, n) == \A x \in Clocks(s, v) : x < n

(* What pushing e, past the last seq, does to s.                            *)
Same(s, t) ==
  /\ t.sub = s.sub /\ t.ready = s.ready /\ t.nextSeq = s.nextSeq
  /\ t.live = s.live /\ t.pump = s.pump /\ t.deaf = s.deaf

(* The clocks of a viewer are numbers.                                      *)
LEMMA ClockTyped ==
  ASSUME NEW v \in Views
  PROVE  Clock(v) \in Nat
BY DEF Views, Clock, Highest

(* Those in its channel, too.                                               *)
LEMMA ClocksTyped ==
  ASSUME NEW s \in Streams, NEW v \in Views
  PROVE  Clocks(s, v) \subseteq Nat
<1>1. Clock(v) \in Nat /\ s.ch \in Seq(Events)
  BY ClockTyped DEF Streams
<1>2. \A i \in 1..Len(s.ch) : s.ch[i].seq \in Nat
  BY <1>1, EventSeq
<1> QED
  BY <1>1, <1>2 DEF Clocks

(* push adds one clock at most.                                             *)
LEMMA PushClocks ==
  ASSUME NEW s, NEW e \in Events, Bounded(s), NEW v \in Views
  PROVE  Clocks(Push(s, e), v) \subseteq Clocks(s, v) \cup {e.seq}
<1>1. s \in Streams /\ s.ch \in Seq(Events) /\ Len(s.ch) <= ChanMax
  BY DEF Bounded, Streams
<1>2. Push(s, e) = [s EXCEPT !.ch = Offered(s.ch, e)]
  BY <1>1, PushOffers
<1>3. Push(s, e).ch = Offered(s.ch, e)
  BY <1>1, <1>2 DEF Streams
<1>4. \A i \in 1..Len(Offered(s.ch, e)) :
        \/ Offered(s.ch, e)[i].seq = e.seq
        \/ \E j \in 1..Len(s.ch) : Offered(s.ch, e)[i].seq = s.ch[j].seq
  BY <1>1, OfferedPromises
<1> QED
  BY <1>3, <1>4 DEF Clocks

(* An event past lastSeq joins the channel and breaks no promise.           *)
LEMMA SentTells ==
  ASSUME NEW s, NEW e \in Events, Bounded(s), s.lastSeq < e.seq, NEW v \in Views, NEW m
  PROVE  /\ Bounded(Sent(s, e)) /\ Same(s, Sent(s, e))
         /\ Sent(s, e).offset = s.offset /\ Sent(s, e).lastSeq = e.seq
         /\ Clocks(Sent(s, e), v) \subseteq Clocks(s, v) \cup {e.seq}
         /\ InChannel(s, v, m) => InChannel(Sent(s, e), v, m)
         /\ Above(s, v, e.seq) /\ e.msg \in {m, Resync} => InChannel(Sent(s, e), v, m)
<1> DEFINE q == Offered(s.ch, e)
           t == [[s EXCEPT !.ch = q] EXCEPT !.lastSeq = e.seq]
<1>1. s \in Streams /\ s.ch \in Seq(Events) /\ Len(s.ch) <= ChanMax /\ s.lastSeq \in Nat
  BY DEF Bounded, Streams
<1>2. e.seq \in Nat /\ Clock(v) \in Nat
  BY EventSeq, ClockTyped
<1>3. q \in Seq(Events)
  BY <1>1, OfferedKeeps
<1>4. Push(s, e) = [s EXCEPT !.ch = q]
  BY <1>1, PushOffers
<1>5. Sent(s, e) = t
  BY <1>4 DEF Sent
<1> HIDE DEF q
<1>6. t.ch = q /\ t.lastSeq = e.seq /\ Same(s, t) /\ t.offset = s.offset
  BY <1>1 DEF Streams, Same
<1>7. Bounded(Sent(s, e))
  BY SentKeeps DEF Keeps
<1> HIDE DEF t
<1>8. \A i \in 1..Len(q) : \/ q[i].seq = e.seq
                          \/ \E j \in 1..Len(s.ch) : q[i].seq = s.ch[j].seq
  BY <1>1, OfferedPromises DEF q
<1>9. Clocks(t, v) \subseteq Clocks(s, v) \cup {e.seq}
  BY <1>6, <1>8 DEF Clocks
<1>10. \A i \in 1..Len(s.ch) : s.ch[i].seq \in Nat
  BY <1>1, EventSeq
<1>11. ASSUME \A i \in 1..Len(s.ch) : s.ch[i].seq < e.seq,
              Promises(s.ch, Clock(v), m) \/ (Clock(v) < e.seq /\ e.msg \in {m, Resync})
       PROVE  InChannel(t, v, m)
  <2>1. Promises(q, Clock(v), m)
    BY <1>1, <1>2, <1>11, OfferedPromises DEF q
  <2>2. \A j \in 1..Len(s.ch) : s.ch[j].seq < e.seq
    BY <1>11
  <2>3. UpTo(q, e.seq)
    <3> SUFFICES ASSUME NEW i \in 1..Len(q)
                 PROVE  q[i].seq <= e.seq
      BY DEF UpTo
    <3>1. CASE q[i].seq = e.seq
      BY <1>2, <3>1
    <3>2. ASSUME NEW j \in 1..Len(s.ch), q[i].seq = s.ch[j].seq
          PROVE  q[i].seq <= e.seq
      BY <1>2, <1>10, <2>2, <3>2
    <3> QED
      BY <1>8, <3>1, <3>2
  <2> QED
    BY <1>6, <2>1, <2>3 DEF InChannel
<1>12. ASSUME InChannel(s, v, m)
       PROVE  InChannel(t, v, m)
  <2>1. \A i \in 1..Len(s.ch) : s.ch[i].seq < e.seq
    BY <1>1, <1>2, <1>10, <1>12 DEF InChannel, UpTo
  <2> QED
    BY <1>11, <1>12, <2>1 DEF InChannel
<1>13. ASSUME Above(s, v, e.seq), e.msg \in {m, Resync}
       PROVE  InChannel(t, v, m)
  BY <1>11, <1>13 DEF Above, Clocks
<1> QED
  BY <1>5, <1>6, <1>7, <1>9, <1>12, <1>13

(* The entry k of the log is ahead of the subscriber and of its viewer.     *)
Ahead(s, v, k) == s.lastSeq < k + s.offset /\ Above(s, v, k + s.offset)

(* What lies beyond it is still ahead.                                      *)
LEMMA SentAhead ==
  ASSUME NEW s, NEW e \in Events, Bounded(s), s.lastSeq < e.seq, NEW v \in Views, NEW k \in Nat,
         Ahead(s, v, k), e.seq < k + s.offset
  PROVE  Ahead(Sent(s, e), v, k)
<1>1. /\ Sent(s, e).lastSeq = e.seq /\ Sent(s, e).offset = s.offset
      /\ Clocks(Sent(s, e), v) \subseteq Clocks(s, v) \cup {e.seq}
  BY SentTells
<1> QED
  BY <1>1 DEF Ahead, Above

(* The two pushes of a re-based counter.                                    *)
LEMMA SentTwiceTells ==
  ASSUME NEW s, NEW d \in Events, NEW e \in Events, Bounded(s), s.lastSeq < d.seq, d.seq < e.seq,
         NEW v \in Views, NEW m
  PROVE  /\ Bounded(Sent(Sent(s, d), e)) /\ Same(s, Sent(Sent(s, d), e))
         /\ Sent(Sent(s, d), e).offset = s.offset /\ Sent(Sent(s, d), e).lastSeq = e.seq
         /\ Clocks(Sent(Sent(s, d), e), v) \subseteq Clocks(s, v) \cup {d.seq, e.seq}
         /\ InChannel(s, v, m) => InChannel(Sent(Sent(s, d), e), v, m)
         /\ Above(s, v, d.seq) /\ d.msg \in {m, Resync} => InChannel(Sent(Sent(s, d), e), v, m)
         /\ Above(s, v, e.seq) /\ e.msg \in {m, Resync} => InChannel(Sent(Sent(s, d), e), v, m)
<1> DEFINE t == Sent(s, d)
<1>1. /\ Bounded(t) /\ Same(s, t) /\ t.offset = s.offset /\ t.lastSeq = d.seq
      /\ Clocks(t, v) \subseteq Clocks(s, v) \cup {d.seq}
      /\ InChannel(s, v, m) => InChannel(t, v, m)
      /\ Above(s, v, d.seq) /\ d.msg \in {m, Resync} => InChannel(t, v, m)
  BY SentTells
<1> HIDE DEF t
<1>2. /\ Bounded(Sent(t, e)) /\ Same(t, Sent(t, e)) /\ Sent(t, e).offset = t.offset
      /\ Sent(t, e).lastSeq = e.seq
      /\ Clocks(Sent(t, e), v) \subseteq Clocks(t, v) \cup {e.seq}
      /\ InChannel(t, v, m) => InChannel(Sent(t, e), v, m)
      /\ Above(t, v, e.seq) /\ e.msg \in {m, Resync} => InChannel(Sent(t, e), v, m)
  BY <1>1, SentTells
<1>3. Above(s, v, e.seq) => Above(t, v, e.seq)
  BY <1>1 DEF Above
<1> QED
  BY <1>1, <1>2, <1>3 DEF Same, t

(* deliverLocked: a promise is kept, what is ahead of the entry stays       *)
(* ahead, and the entry that reaches or passes an event is told as that     *)
(* event or as a marker; the clocks stay below the log.                     *)
LEMMA DeliveredTells ==
  ASSUME NEW s, NEW e \in Events, Bounded(s), NEW v \in Views, NEW m, NEW k \in Nat
  PROVE  /\ Same(s, Delivered(s, e)) /\ s.offset <= Delivered(s, e).offset
         /\ InChannel(s, v, m) => InChannel(Delivered(s, e), v, m)
         /\ Ahead(s, v, k) /\ e.seq < k => Ahead(Delivered(s, e), v, k)
         /\ /\ s.sub /\ s.ready /\ Ahead(s, v, k) /\ k <= e.seq
            /\ e.seq = k => e.msg \in {m, Resync}
            => InChannel(Delivered(s, e), v, m)
         /\ \A r \in Nat : e.seq <= r /\ s.lastSeq <= r + s.offset =>
              /\ Delivered(s, e).lastSeq <= r + Delivered(s, e).offset
              /\ \A x \in Clocks(Delivered(s, e), v) :
                   x \in Clocks(s, v) \/ x <= r + Delivered(s, e).offset
<1> DEFINE n == e.seq + s.offset
           l == s.lastSeq
           t == Delivered(s, e)
<1>1. s \in Streams /\ l \in Nat /\ s.offset \in Nat /\ n \in Nat /\ e.seq \in Nat
  BY EventSeq DEF Bounded, Streams
<1>2. \A i \in Nat : Entry(i, Resync) \in Events /\ Entry(i, e.msg) \in Events
                    /\ Entry(i, Resync).seq = i /\ Entry(i, e.msg).seq = i
                    /\ Entry(i, Resync).msg = Resync /\ Entry(i, e.msg).msg = e.msg
  BY DEF Entry, Events
<1>3. CASE ~s.sub \/ ~s.ready \/ n = l
  <2>1. t = s
    BY <1>3 DEF Delivered
  <2>2. ~(s.sub /\ s.ready /\ Ahead(s, v, k) /\ k <= e.seq)
    BY <1>1, <1>3 DEF Ahead
  <2> QED
    BY <1>1, <2>1, <2>2 DEF Same
<1>4. CASE s.sub /\ s.ready /\ n < l
  <2> DEFINE d == Entry(l + 1, Resync)
             c == Entry(l + 2, e.msg)
             w == Sent(Sent(s, d), c)
             o == l + 2 - e.seq
  <2>1. d \in Events /\ c \in Events /\ d.seq = l + 1 /\ c.seq = l + 2
    BY <1>1, <1>2
  <2>2. s.lastSeq < d.seq /\ d.seq < c.seq /\ o \in Nat /\ s.offset <= o /\ l + 2 = e.seq + o
    BY <1>1, <1>4, <2>1
  <2>3. w = [Push(Push(s, d), c) EXCEPT !.lastSeq = l + 2]
    BY <2>1, SentTwice
  <2>4. t = [Push(Push(s, d), c) EXCEPT !.offset = o, !.lastSeq = l + 2]
    BY <1>1, <1>4 DEF Delivered
  <2> HIDE DEF d, c, o, t, n
  <2>5. Push(Push(s, d), c) \in Streams
    BY <2>1, PushKeeps DEF Bounded
  <2> DEFINE u == Push(Push(s, d), c)
  <2> HIDE DEF u
  <2>6. /\ Bounded(w) /\ Same(s, w) /\ w.offset = s.offset /\ w.lastSeq = l + 2
        /\ Clocks(w, v) \subseteq Clocks(s, v) \cup {l + 1, l + 2}
        /\ InChannel(s, v, m) => InChannel(w, v, m)
    BY <2>1, <2>2, SentTwiceTells
  <2> HIDE DEF w
  <2>7. t.offset = o /\ t.lastSeq = l + 2 /\ t.ch = w.ch /\ Same(w, t)
    BY <2>3, <2>4, <2>5 DEF Streams, Same, u
  <2>8. Clocks(t, v) = Clocks(w, v) /\ (InChannel(w, v, m) => InChannel(t, v, m))
    BY <2>6, <2>7 DEF Clocks, InChannel
  <2>9. Same(s, t) /\ s.offset <= t.offset
    BY <2>2, <2>6, <2>7 DEF Same
  <2>10. ASSUME Ahead(s, v, k), e.seq < k
         PROVE  Ahead(t, v, k)
    <3>1. \A x \in Clocks(s, v) : x < k + s.offset /\ x \in Nat
      BY <1>1, <2>10, ClocksTyped DEF Ahead, Above
    <3>2. \A x \in Clocks(s, v) : x < k + o
      BY <1>1, <2>2, <3>1
    <3>3. l + 1 < k + o /\ l + 2 < k + o
      BY <1>1, <2>2, <2>10
    <3> QED
      BY <2>6, <2>7, <2>8, <3>2, <3>3 DEF Ahead, Above
  <2>11. ~(Ahead(s, v, k) /\ k <= e.seq)
    BY <1>1, <1>4 DEF Ahead, n
  <2>12. ASSUME NEW r \in Nat, e.seq <= r
         PROVE  l + 1 <= r + o /\ l + 2 <= r + o
    BY <1>1, <2>2, <2>12
  <2> QED
    BY <2>6, <2>7, <2>8, <2>9, <2>10, <2>11, <2>12 DEF t
<1>5. CASE s.sub /\ s.ready /\ l < n
  <2> DEFINE d == IF n > l + 1 THEN Entry(n, Resync) ELSE Entry(n, e.msg)
  <2>1. t = Sent(s, d)
    <3>1. ~(n < l) /\ n # l
      BY <1>1, <1>5
    <3> QED
      BY <1>1, <1>2, <1>5, <3>1 DEF Delivered, Sent
  <2>2. d \in Events /\ d.seq = n /\ l < d.seq /\ (d.msg = Resync \/ (d.msg = e.msg /\ n = l + 1))
    BY <1>1, <1>2, <1>5
  <2> HIDE DEF d, t
  <2>3. /\ Same(s, t) /\ t.offset = s.offset /\ t.lastSeq = n
        /\ Clocks(t, v) \subseteq Clocks(s, v) \cup {n}
        /\ InChannel(s, v, m) => InChannel(t, v, m)
        /\ Above(s, v, n) /\ d.msg \in {m, Resync} => InChannel(t, v, m)
    BY <2>1, <2>2, SentTells
  <2>4. ASSUME Ahead(s, v, k), e.seq < k
        PROVE  Ahead(t, v, k)
    <3>1. d.seq < k + s.offset
      BY <1>1, <2>2, <2>4
    <3> QED
      BY <2>1, <2>2, <2>4, <3>1, SentAhead
  <2>5. ASSUME Ahead(s, v, k), k <= e.seq, e.seq = k => e.msg \in {m, Resync}
        PROVE  InChannel(t, v, m)
    <3>1. Above(s, v, n)
      <4>1. k + s.offset <= n /\ k + s.offset \in Nat
        BY <1>1, <2>5
      <4>2. \A x \in Clocks(s, v) : x < k + s.offset /\ x \in Nat
        BY <1>1, <2>5, ClocksTyped DEF Ahead, Above
      <4> QED
        BY <1>1, <4>1, <4>2 DEF Above
    <3>2. d.msg \in {m, Resync}
      <4>1. CASE d.msg = e.msg /\ n = l + 1
        <5>1. e.seq = k
          BY <1>1, <2>5, <4>1 DEF Ahead
        <5> QED
          BY <2>5, <4>1, <5>1
      <4> QED
        BY <2>2, <4>1
    <3> QED
      BY <2>3, <3>1, <3>2
  <2>6. \A r \in Nat : e.seq <= r => n <= r + s.offset
    BY <1>1
  <2>7. s.offset <= s.offset
    BY <1>1
  <2> QED
    BY <2>3, <2>4, <2>5, <2>6, <2>7 DEF t
<1> QED
  BY <1>1, <1>3, <1>4, <1>5

(* One replayed entry, likewise; a gap in front of it is marked at its      *)
(* start.                                                                   *)
LEMMA ReplayedTells ==
  ASSUME NEW s, NEW e \in Events, Bounded(s), NEW v \in Views, NEW m, NEW k \in Nat
  PROVE  /\ Bounded(Replayed(s, e)) /\ Same(s, Replayed(s, e)) /\ Replayed(s, e).offset = s.offset
         /\ InChannel(s, v, m) => InChannel(Replayed(s, e), v, m)
         /\ Ahead(s, v, k) /\ e.seq < k => Ahead(Replayed(s, e), v, k)
         /\ Ahead(s, v, k) /\ e.seq = k /\ e.msg \in {m, Resync} => InChannel(Replayed(s, e), v, m)
         /\ s.ready /\ e.seq + s.offset > s.lastSeq + 1 /\ Above(s, v, s.lastSeq + 1)
              => InChannel(Replayed(s, e), v, m)
         /\ \A r \in Nat : e.seq <= r /\ s.lastSeq <= r + s.offset =>
              /\ Replayed(s, e).lastSeq <= r + s.offset
              /\ \A x \in Clocks(Replayed(s, e), v) : x \in Clocks(s, v) \/ x <= r + s.offset
<1> DEFINE n == e.seq + s.offset
           l == s.lastSeq
           d == Entry(l + 1, Resync)
           c == Entry(n, e.msg)
           t == Replayed(s, e)
<1>1. s \in Streams /\ l \in Nat /\ s.offset \in Nat /\ n \in Nat /\ e.seq \in Nat /\ l + 1 \in Nat
      /\ l < l + 1
  BY EventSeq DEF Bounded, Streams
<1>2. /\ d \in Events /\ c \in Events /\ d.seq = l + 1 /\ c.seq = n /\ d.msg = Resync
      /\ c.msg = e.msg
  BY <1>1 DEF Entry, Events
<1>3. CASE n <= l
  <2>1. t = s
    BY <1>3 DEF Replayed
  <2>2. ~(Ahead(s, v, k) /\ e.seq = k) /\ ~(n > l + 1)
    BY <1>1, <1>3 DEF Ahead
  <2> QED
    BY <2>1, <2>2 DEF Same
<1>4. CASE ~(n <= l) /\ s.ready /\ n > l + 1
  <2>1. t = [Push(Push(s, d), c) EXCEPT !.lastSeq = n]
    BY <1>4 DEF Replayed
  <2>2. t = Sent(Sent(s, d), c)
    BY <1>2, <2>1, SentTwice
  <2>3. l < d.seq /\ d.seq < c.seq
    BY <1>1, <1>2, <1>4
  <2> HIDE DEF d, c, n, l, t
  <2>4. /\ Bounded(t) /\ Same(s, t) /\ t.offset = s.offset /\ t.lastSeq = n
        /\ Clocks(t, v) \subseteq Clocks(s, v) \cup {l + 1, n}
        /\ InChannel(s, v, m) => InChannel(t, v, m)
        /\ Above(s, v, l + 1) => InChannel(t, v, m)
        /\ Above(s, v, n) /\ e.msg \in {m, Resync} => InChannel(t, v, m)
    BY <1>2, <2>2, <2>3, SentTwiceTells DEF l
  <2>5. ASSUME Ahead(s, v, k), e.seq < k
        PROVE  Ahead(t, v, k)
    <3>1. n < k + s.offset /\ l + 1 < k + s.offset
      BY <1>1, <1>4, <2>5 DEF n
    <3> QED
      BY <2>4, <2>5, <3>1 DEF Ahead, Above
  <2>6. Ahead(s, v, k) /\ e.seq = k => Above(s, v, n)
    BY DEF Ahead, n
  <2>7. \A r \in Nat : e.seq <= r => n <= r + s.offset /\ l + 1 <= r + s.offset
    BY <1>1, <1>4 DEF n
  <2> QED
    BY <2>4, <2>5, <2>6, <2>7 DEF t, l
<1>5. CASE ~(n <= l) /\ ~(s.ready /\ n > l + 1)
  <2>1. t = Sent(s, c)
    BY <1>2, <1>5 DEF Replayed, Sent
  <2>2. s.lastSeq < c.seq
    BY <1>1, <1>2, <1>5
  <2> HIDE DEF c, t
  <2>3. /\ Bounded(t) /\ Same(s, t) /\ t.offset = s.offset /\ t.lastSeq = n
        /\ Clocks(t, v) \subseteq Clocks(s, v) \cup {n}
        /\ InChannel(s, v, m) => InChannel(t, v, m)
        /\ Above(s, v, n) /\ e.msg \in {m, Resync} => InChannel(t, v, m)
    BY <1>2, <2>1, <2>2, SentTells
  <2>4. ASSUME Ahead(s, v, k), e.seq < k
        PROVE  Ahead(t, v, k)
    <3>1. c.seq < k + s.offset
      BY <1>1, <1>2, <2>4
    <3> QED
      BY <1>2, <2>1, <2>2, <2>4, <3>1, SentAhead
  <2>5. Ahead(s, v, k) /\ e.seq = k => Above(s, v, n)
    BY DEF Ahead
  <2>6. \A r \in Nat : e.seq <= r => n <= r + s.offset
    BY <1>1
  <2> QED
    BY <1>5, <2>3, <2>4, <2>5, <2>6 DEF t
<1> QED
  BY <1>3, <1>4, <1>5

(* The entry k of q, if q has it, is m or a marker.                         *)
Tells(q, k, m) == \A i \in 1..Len(q) : q[i].seq = k => q[i].msg \in {m, Resync}
Has(q, k) == \E i \in 1..Len(q) : q[i].seq = k

(* What a queue says of a seq, one entry later.                             *)
LEMMA AppendHas ==
  ASSUME NEW q \in Seq(Events), NEW e \in Events
  PROVE  /\ \A k : Has(Append(q, e), k) <=> Has(q, k) \/ e.seq = k
         /\ \A k, m : Tells(Append(q, e), k, m)
                        <=> Tells(q, k, m) /\ (e.seq = k => e.msg \in {m, Resync})
         /\ \A n : UpTo(Append(q, e), n) <=> UpTo(q, n) /\ e.seq <= n
         /\ Rising(Append(q, e)) => Rising(q) /\ \A i \in 1..Len(q) : q[i].seq < e.seq
         /\ Append(q, e) # <<>> /\ Append(q, e)[1] = IF q = <<>> THEN e ELSE q[1]
<1> DEFINE t == Append(q, e)
<1>1. /\ Len(t) = Len(q) + 1 /\ t[Len(q) + 1] = e /\ Len(q) \in Nat
      /\ \A i \in 1..Len(q) : t[i] = q[i]
  OBVIOUS
<1> HIDE DEF t
<1>2. t # <<>> /\ t[1] = IF q = <<>> THEN e ELSE q[1]
  <2>1. CASE q = <<>>
    <3>1. Len(q) = 0
      BY <2>1
    <3> QED
      BY <1>1, <2>1, <3>1
  <2>2. CASE q # <<>>
    <3>1. 1 \in 1..Len(q)
      BY <1>1, <2>2
    <3>2. t[1] = q[1]
      BY <1>1, <3>1
    <3> QED
      BY <1>1, <2>2, <3>2
  <2> QED
    BY <2>1, <2>2
<1>3. 1..Len(t) = 1..Len(q) \cup {Len(q) + 1}
  BY <1>1
<1>4. \A i \in 1..Len(q) : i < Len(q) + 1
  BY <1>1
<1>5. Rising(t) => Rising(q) /\ \A i \in 1..Len(q) : q[i].seq < e.seq
  BY <1>1, <1>3, <1>4 DEF Rising
<1>6. \A k : Has(t, k) <=> Has(q, k) \/ e.seq = k
  BY <1>1, <1>3 DEF Has
<1>7. \A k, m : Tells(t, k, m) <=> Tells(q, k, m) /\ (e.seq = k => e.msg \in {m, Resync})
  BY <1>1, <1>3 DEF Tells
<1>8. \A n : UpTo(t, n) <=> UpTo(q, n) /\ e.seq <= n
  BY <1>1, <1>3 DEF UpTo
<1> QED
  BY <1>2, <1>5, <1>6, <1>7, <1>8 DEF t

(* What replaying q, which took s to t, tells the viewer.                   *)
ReplayTells(s, t, q, v, m, k) ==
  /\ Bounded(t) /\ Same(s, t) /\ t.offset = s.offset
  /\ InChannel(s, v, m) => InChannel(t, v, m)
  /\ Ahead(s, v, k) /\ Tells(q, k, m) =>
       IF Has(q, k) THEN InChannel(t, v, m) ELSE UpTo(q, k) => Ahead(t, v, k)
  /\ s.ready /\ q # <<>> /\ q[1].seq + s.offset > s.lastSeq + 1 /\ Above(s, v, s.lastSeq + 1)
       => InChannel(t, v, m)
  /\ \A r \in Nat : UpTo(q, r) /\ s.lastSeq <= r + s.offset =>
       /\ t.lastSeq <= r + s.offset
       /\ \A x \in Clocks(t, v) : x \in Clocks(s, v) \/ x <= r + s.offset

(* One entry more of a replay.                                              *)
LEMMA ReplayOneMore ==
  ASSUME NEW s, NEW u, NEW q \in Seq(Events), NEW e \in Events, NEW v \in Views, NEW m,
         NEW k \in Nat, ReplayTells(s, u, q, v, m, k), q = <<>> => u = s,
         Rising(Append(q, e))
  PROVE  ReplayTells(s, Replayed(u, e), Append(q, e), v, m, k)
<1> DEFINE r == Append(q, e)
           t == Replayed(u, e)
<1>1. /\ \A j : Has(r, j) <=> Has(q, j) \/ e.seq = j
      /\ Tells(r, k, m) <=> Tells(q, k, m) /\ (e.seq = k => e.msg \in {m, Resync})
      /\ \A n : UpTo(r, n) <=> UpTo(q, n) /\ e.seq <= n
      /\ \A i \in 1..Len(q) : q[i].seq < e.seq
      /\ r # <<>> /\ r[1] = IF q = <<>> THEN e ELSE q[1]
  BY AppendHas
<1>2. /\ Bounded(u) /\ Same(s, u) /\ u.offset = s.offset
      /\ InChannel(s, v, m) => InChannel(u, v, m)
  BY DEF ReplayTells
<1>3. /\ Bounded(t) /\ Same(u, t) /\ t.offset = u.offset
      /\ InChannel(u, v, m) => InChannel(t, v, m)
      /\ Ahead(u, v, k) /\ e.seq < k => Ahead(t, v, k)
      /\ Ahead(u, v, k) /\ e.seq = k /\ e.msg \in {m, Resync} => InChannel(t, v, m)
      /\ u.ready /\ e.seq + u.offset > u.lastSeq + 1 /\ Above(u, v, u.lastSeq + 1)
           => InChannel(t, v, m)
      /\ \A n \in Nat : e.seq <= n /\ u.lastSeq <= n + u.offset =>
           /\ t.lastSeq <= n + u.offset
           /\ \A x \in Clocks(t, v) : x \in Clocks(u, v) \/ x <= n + u.offset
  BY <1>2, ReplayedTells
<1>4. e.seq \in Nat /\ \A i \in 1..Len(q) : q[i].seq \in Nat
  BY EventSeq
<1>5. Ahead(s, v, k) /\ Tells(q, k, m) =>
        IF Has(q, k) THEN InChannel(u, v, m) ELSE UpTo(q, k) => Ahead(u, v, k)
  BY DEF ReplayTells
<1>6. s.ready /\ q # <<>> /\ q[1].seq + s.offset > s.lastSeq + 1 /\ Above(s, v, s.lastSeq + 1)
        => InChannel(u, v, m)
  BY DEF ReplayTells
<1>7. \A n \in Nat : UpTo(q, n) /\ s.lastSeq <= n + s.offset =>
        /\ u.lastSeq <= n + s.offset
        /\ \A x \in Clocks(u, v) : x \in Clocks(s, v) \/ x <= n + s.offset
  BY DEF ReplayTells
<1> HIDE DEF r, t
<1>8. ASSUME Ahead(s, v, k), Tells(r, k, m)
      PROVE  IF Has(r, k) THEN InChannel(t, v, m) ELSE UpTo(r, k) => Ahead(t, v, k)
  <2>1. CASE Has(q, k)
    BY <1>1, <1>3, <1>5, <1>8, <2>1
  <2>2. CASE ~Has(q, k) /\ e.seq <= k
    <3>1. UpTo(q, k)
      BY <1>1, <1>4, <2>2 DEF UpTo
    <3>2. Ahead(u, v, k)
      BY <1>1, <1>5, <1>8, <2>2, <3>1
    <3>3. CASE e.seq = k
      BY <1>1, <1>3, <1>8, <3>2, <3>3
    <3>4. CASE e.seq < k
      BY <1>1, <1>3, <2>2, <3>2, <3>4, <1>4
    <3> QED
      BY <1>4, <2>2, <3>3, <3>4
  <2>3. CASE ~Has(q, k) /\ ~(e.seq <= k)
    <3>1. e.seq # k
      BY <1>4, <2>3
    <3> QED
      BY <1>1, <2>3, <3>1
  <2> QED
    BY <2>1, <2>2, <2>3
<1>9. ASSUME s.ready, r[1].seq + s.offset > s.lastSeq + 1, Above(s, v, s.lastSeq + 1)
      PROVE  InChannel(t, v, m)
  <2>1. CASE q = <<>>
    BY <1>1, <1>3, <1>9, <2>1
  <2>2. CASE q # <<>>
    BY <1>1, <1>3, <1>6, <1>9, <2>2
  <2> QED
    BY <2>1, <2>2
<1>10. ASSUME NEW n \in Nat, UpTo(r, n), s.lastSeq <= n + s.offset
       PROVE  /\ t.lastSeq <= n + s.offset
              /\ \A x \in Clocks(t, v) : x \in Clocks(s, v) \/ x <= n + s.offset
  BY <1>1, <1>2, <1>3, <1>7, <1>10
<1>11. Same(s, t) /\ t.offset = s.offset
  BY <1>2, <1>3 DEF Same
<1> QED
  BY <1>2, <1>3, <1>8, <1>9, <1>10, <1>11 DEF ReplayTells, r, t

(* A whole replay, by induction over the buffer.                            *)
LEMMA ReplayAll ==
  ASSUME NEW s, Bounded(s), NEW v \in Views, NEW m, NEW k \in Nat, NEW q \in Seq(Events), Rising(q)
  PROVE  ReplayTells(s, FoldLeft(Replayed, s, q), q, v, m, k)
<1> DEFINE S == {r \in Seq(Events) : Rising(r) =>
                    ReplayTells(s, FoldLeft(Replayed, s, r), r, v, m, k)}
<1>1. FoldLeft(Replayed, s, <<>>) = s
  BY ReplayIsFold, F!FoldEmpty
<1>2. <<>> \in S
  <2>1. /\ ~Has(<<>>, k) /\ Same(s, s)
    BY DEF Has, Same
  <2>2. ReplayTells(s, s, <<>>, v, m, k)
    BY <2>1 DEF ReplayTells
  <2> QED
    BY <1>1, <2>2
<1>3. ASSUME NEW r \in Seq(Events), NEW e \in Events, r \in S
      PROVE  Append(r, e) \in S
  <2> DEFINE u == FoldLeft(Replayed, s, r)
  <2>1. FoldLeft(Replayed, s, Append(r, e)) = Replayed(u, e)
    <3>1. F!Fold(None, s, Append(r, e)) = Again(None, F!Fold(None, s, r), e)
      BY F!FoldAppend
    <3> QED
      BY <3>1, ReplayIsFold DEF Again
  <2>2. /\ Append(r, e) \in Seq(Events)
        /\ Rising(r) => ReplayTells(s, u, r, v, m, k)
        /\ r = <<>> => u = s
    BY <1>1, <1>3
  <2>3. Rising(Append(r, e)) => Rising(r)
    BY AppendHas
  <2> HIDE DEF u
  <2>4. Rising(Append(r, e)) => ReplayTells(s, Replayed(u, e), Append(r, e), v, m, k)
    BY <2>2, <2>3, ReplayOneMore
  <2> QED
    BY <2>1, <2>2, <2>4
<1>4. q \in S
  <2> HIDE DEF S
  <2> QED
    BY <1>2, <1>3, F!SeqSetInduction
<1> QED
  BY <1>4

(* The buffer has the entry k, or has trimmed it.                           *)
Logged(q, k) == Has(q, k) \/ (q # <<>> /\ k < q[1].seq)

(* The buffer after another entry.                                          *)
Grown(q, e) == IF Len(Append(q, e)) > BufferMax THEN Tail(Append(q, e)) ELSE Append(q, e)

(* What is left of a queue without its head.                                *)
LEMMA TailTells ==
  ASSUME NEW q \in Seq(Events), q # <<>>, NEW n \in Nat, Rising(q), UpTo(q, n)
  PROVE  /\ Tail(q) \in Seq(Events) /\ Rising(Tail(q)) /\ UpTo(Tail(q), n)
         /\ \A k, m : Tells(q, k, m) => Tells(Tail(q), k, m)
         /\ \A k : Has(q, k) => Has(Tail(q), k) \/ k = q[1].seq
         /\ Tail(q) # <<>> => q[1].seq < Tail(q)[1].seq
<1> DEFINE t == Tail(q)
<1>1. /\ Len(q) \in Nat /\ Len(t) = Len(q) - 1 /\ t \in Seq(Events) /\ Len(q) >= 1
      /\ \A i \in 1..Len(t) : t[i] = q[i + 1] /\ i + 1 \in 1..Len(q)
      /\ t # <<>> => 1 \in 1..Len(t)
  OBVIOUS
<1>2. Rising(t) /\ UpTo(t, n)
  BY TailRises
<1> HIDE DEF t
<1>3. \A k, m : Tells(q, k, m) => Tells(t, k, m)
  BY <1>1 DEF Tells
<1>4. ASSUME NEW k, NEW i \in 1..Len(q), q[i].seq = k, i # 1
      PROVE  Has(t, k)
  <2>1. i - 1 \in 1..Len(t) /\ (i - 1) + 1 = i
    BY <1>1, <1>4
  <2>2. t[i - 1] = q[i]
    BY <1>1, <2>1
  <2> QED
    BY <1>4, <2>1, <2>2 DEF Has
<1>5. \A k : Has(q, k) => Has(t, k) \/ k = q[1].seq
  BY <1>4 DEF Has
<1>6. t # <<>> => q[1].seq < t[1].seq
  <2>1. t # <<>> => 1 + 1 \in 1..Len(q) /\ 1 \in 1..Len(q) /\ t[1] = q[1 + 1] /\ 1 < 1 + 1
    BY <1>1
  <2> QED
    BY <2>1 DEF Rising
<1> QED
  BY <1>1, <1>2, <1>3, <1>5, <1>6 DEF t

(* The buffer after a committed entry: trimmed or not, it still accounts    *)
(* for every seq it did before.                                             *)
LEMMA GrownTells ==
  ASSUME NEW q \in Seq(Events), NEW e \in Events, NEW r \in Nat, Rising(q), UpTo(q, r), r < e.seq
  PROVE  /\ Grown(q, e) \in Seq(Events) /\ Rising(Grown(q, e)) /\ UpTo(Grown(q, e), e.seq)
         /\ Logged(Grown(q, e), e.seq)
         /\ \A k \in Nat : Logged(q, k) => Logged(Grown(q, e), k)
         /\ \A k, m : Tells(q, k, m) /\ k # e.seq => Tells(Grown(q, e), k, m)
         /\ \A m : e.msg \in {m, Resync} => Tells(Grown(q, e), e.seq, m)
<1> DEFINE t == Append(q, e)
<1>1. /\ \A k : Has(t, k) <=> Has(q, k) \/ e.seq = k
      /\ \A k, m : Tells(t, k, m) <=> Tells(q, k, m) /\ (e.seq = k => e.msg \in {m, Resync})
      /\ t # <<>> /\ t[1] = IF q = <<>> THEN e ELSE q[1]
  BY AppendHas
<1>2. t \in Seq(Events) /\ Len(t) = Len(q) + 1 /\ Rising(t) /\ UpTo(t, e.seq) /\ e.seq \in Nat
      /\ Len(q) \in Nat /\ BufferMax \in Nat /\ BufferMax >= 1
  BY AppendRises, EventSeq, BoundsAssumption
<1>3. \A m : Tells(q, e.seq, m)
  BY EventSeq DEF UpTo, Tells
<1>4. Grown(q, e) = IF Len(t) > BufferMax THEN Tail(t) ELSE t
  BY DEF Grown
<1> HIDE DEF t
<1>5. \A k : Logged(q, k) => Logged(t, k)
  BY <1>1 DEF Logged
<1>6. Logged(t, e.seq)
  BY <1>1 DEF Logged
<1>7. CASE ~(Len(t) > BufferMax)
  BY <1>1, <1>2, <1>3, <1>4, <1>5, <1>6, <1>7
<1>8. CASE Len(t) > BufferMax
  <2> DEFINE b == Tail(t)
  <2>1. /\ b \in Seq(Events) /\ Rising(b) /\ UpTo(b, e.seq)
        /\ \A k, m : Tells(t, k, m) => Tells(b, k, m)
        /\ \A k : Has(t, k) => Has(b, k) \/ k = t[1].seq
        /\ b # <<>> => t[1].seq < b[1].seq
    BY <1>1, <1>2, TailTells
  <2>2. b # <<>>
    <3>1. Len(b) = Len(t) - 1 /\ Len(t) >= 2
      BY <1>1, <1>2, <1>8
    <3>2. Len(b) >= 1
      BY <1>2, <3>1
    <3> HIDE DEF b
    <3> QED
      BY <3>2
  <2>3. b[1].seq \in Nat /\ t[1].seq \in Nat
    <3>1. b[1] \in Events /\ t[1] \in Events
      BY <1>1, <1>2, <2>1, <2>2
    <3> QED
      BY <3>1, EventSeq
  <2> HIDE DEF b
  <2>4. \A k \in Nat : Logged(t, k) => Logged(b, k)
    BY <2>1, <2>2, <2>3 DEF Logged
  <2> QED
    BY <1>1, <1>2, <1>3, <1>4, <1>5, <1>6, <1>8, <2>1, <2>4 DEF b
<1> QED
  BY <1>7, <1>8

-----------------------------------------------------------------------------
(* The pump has the entry k or a later one in its queue, or it is deaf: the *)
(* property waits for its next entry.                                       *)
Heard(s, k) == s.deaf \/ \E i \in 1..Len(s.live) : s.live[i].seq >= k

(* A marker still owed: no attempt is under way, or a newer fallback came.  *)
Due(f) == f.on /\ (f.retrying = None \/ f.renewed)

(* The seqs the markers of p have to rise above, and whether any is owed.   *)
Floors(p) == recov[p] \cup (IF Due(fell[p]) THEN {fell[p].watermark} ELSE {})
Pending == \E p \in Pods : Floors(p) # {}

(* x is no later than the log's k, or a marker owed will rise above it.     *)
Below(W, x, k) == x <= k \/ \E w \in W : x <= w

(* A viewer that lacks nothing, with or without a reply on its way.         *)
Blank(v) == v.missing = {} /\ v.since = {}

(* A stream s with its viewer v, who lacks nothing unless connected, over a *)
(* log of r entries and floors W: no seq it has handed out runs ahead of    *)
(* the log beyond a floor, so a later entry, or the marker owed, is never   *)
(* taken for one already seen.                                              *)
Sound(s, v, r, W) ==
  /\ Rising(s.live) /\ UpTo(s.live, r) /\ s.lastSeq <= r + s.offset
  /\ ~s.ready => s.lastSeq = 0 /\ s.offset = 0
  /\ s.pump \in {"off", "dial"} => s.deaf
  /\ ~s.sub => ~s.ready /\ Blank(v)
  /\ Below(W, s.nextSeq, r)
  /\ \A x \in Clocks(s, v) : Below(W, x, r + s.offset)

(* An entry of the log that tells of m lies ahead of the viewer, and the    *)
(* pump will come to it.                                                    *)
Coming(b, r, s, v, m) ==
  \E k \in 1..r : /\ Ahead(s, v, k) /\ Logged(b, k)
                  /\ Tells(b, k, m) /\ Tells(s.live, k, m) /\ Heard(s, k)

Covered(b, r, s, v, m) == Excused(v) \/ InChannel(s, v, m) \/ Coming(b, r, s, v, m)

(* What a step does to a viewer that it tells nothing.                      *)
Like(v, w) == Clock(w) = Clock(v) /\ (Excused(v) => Excused(w))

(* While no marker is owed, everything a viewer will lack once the reply on *)
(* its way is applied is on its way too.                                    *)
Good ==
  /\ Rising(redis.buf) /\ UpTo(redis.buf, redis.seq)
  /\ \A p \in Pods : fell[p].retrying = None => ~fell[p].renewed
  /\ \A p \in Pods : Sound(pod[p], view[p], redis.seq, Floors(p))
  /\ Pending \/ \A p \in Pods : \A m \in Lacking(view[p]) :
                   Covered(redis.buf, redis.seq, pod[p], view[p], m)

(* The inductive invariant.                                                 *)
LossInv == IInv /\ (spent.forgotten \/ spent.reset \/ Good)

-----------------------------------------------------------------------------
(* No floor of W is lost that is not in the log by then.                    *)
Floored(W, X, n) == \A x \in W : x < n \/ \E y \in X : x <= y

(* A clock below a floor stays below one, or below the log.                 *)
LEMMA BelowGrows ==
  ASSUME NEW W, NEW X, W \in SUBSET Nat, X \in SUBSET Nat, NEW x \in Nat, NEW r \in Nat,
         NEW n \in Nat, NEW o \in Nat, r <= n, Floored(W, X, n), Below(W, x, r + o)
  PROVE  Below(X, x, n + o)
<1>1. CASE x <= r + o
  BY <1>1 DEF Below
<1>2. CASE \E y \in W : x <= y
  <2>1. PICK y \in W : x <= y
    BY <1>2
  <2>2. y \in Nat
    OBVIOUS
  <2>3. CASE y < n
    <3>1. x <= n + o
      BY <2>1, <2>2, <2>3
    <3> QED
      BY <3>1 DEF Below
  <2>4. CASE \E z \in X : y <= z
    <3>1. PICK z \in X : y <= z
      BY <2>4
    <3>2. z \in Nat /\ x <= z
      BY <2>1, <2>2, <3>1
    <3> QED
      BY <3>2 DEF Below
  <2> QED
    BY <2>3, <2>4 DEF Floored
<1> QED
  BY <1>1, <1>2 DEF Below

(* What a committed entry does to a stream: it is queued, or the pump is    *)
(* deaf, or does not listen; and the local seq may be seeded.               *)
Hears(s, t, e) ==
  /\ t.sub = s.sub /\ t.ready = s.ready /\ t.lastSeq = s.lastSeq /\ t.offset = s.offset
  /\ t.ch = s.ch /\ t.pump = s.pump /\ t.nextSeq \in {s.nextSeq, e.seq}
  /\ s.pump \in {"off", "dial"} => t.deaf
  /\ \/ t.live = Append(s.live, e)
     \/ t.live = s.live /\ t.deaf

(* No clock moves.                                                          *)
SameClocks(s, v, t, w) == Clocks(t, w) = Clocks(s, v)

(* A stream that hears of a committed entry stays sound.                    *)
LEMMA HearsSound ==
  ASSUME NEW s \in Streams, NEW t \in Streams, NEW e \in Events, NEW v \in Views, NEW w \in Views,
         NEW r \in Nat, r < e.seq, NEW W, NEW X, W \in SUBSET Nat, X \in SUBSET Nat,
         Sound(s, v, r, W), Hears(s, t, e), Floored(W, X, e.seq),
         Clock(w) = Clock(v), ~s.sub => Blank(w)
  PROVE  Sound(t, w, e.seq, X) /\ SameClocks(s, v, t, w)
<1>1. /\ s.live \in Seq(Events) /\ s.lastSeq \in Nat /\ s.offset \in Nat /\ e.seq \in Nat
      /\ s.nextSeq \in Nat /\ r <= e.seq
  BY EventSeq DEF Streams
<1>2. Clocks(t, w) = Clocks(s, v)
  BY DEF Clocks, Hears
<1>3. Rising(t.live) /\ UpTo(t.live, e.seq)
  <2>1. Rising(s.live) /\ UpTo(s.live, r)
    BY DEF Sound
  <2>2. UpTo(s.live, e.seq)
    BY <1>1, <2>1, EventSeq DEF UpTo
  <2>3. Rising(Append(s.live, e)) /\ UpTo(Append(s.live, e), e.seq)
    BY <1>1, <2>1, AppendRises
  <2> QED
    BY <2>1, <2>2, <2>3 DEF Hears
<1>4. t.lastSeq <= e.seq + t.offset
  BY <1>1 DEF Sound, Hears
<1>5. \A x \in Clocks(s, v) : Below(X, x, e.seq + t.offset)
  <2> SUFFICES ASSUME NEW x \in Clocks(s, v)
               PROVE  Below(X, x, e.seq + t.offset)
    OBVIOUS
  <2>1. x \in Nat /\ Below(W, x, r + s.offset) /\ t.offset = s.offset
    BY ClocksTyped DEF Sound, Hears
  <2> QED
    BY <1>1, <2>1, BelowGrows
<1>6. Below(X, t.nextSeq, e.seq)
  <2>1. Below(W, s.nextSeq, r + 0)
    BY DEF Sound
  <2>2. Below(X, s.nextSeq, e.seq + 0)
    BY <1>1, <2>1, BelowGrows
  <2>3. Below(X, e.seq, e.seq)
    BY <1>1 DEF Below
  <2> QED
    BY <1>1, <2>2, <2>3 DEF Hears
<1>7. /\ ~t.ready => t.lastSeq = 0 /\ t.offset = 0
      /\ t.pump \in {"off", "dial"} => t.deaf
      /\ ~t.sub => ~t.ready /\ Blank(w)
  BY DEF Sound, Hears
<1> QED
  BY <1>2, <1>3, <1>4, <1>5, <1>6, <1>7 DEF Sound, SameClocks

(* What told the viewer of m still does.                                    *)
LEMMA HearsCovers ==
  ASSUME NEW s \in Streams, NEW t \in Streams, NEW e \in Events, NEW v \in Views, NEW w \in Views,
         NEW r \in Nat, r < e.seq, NEW b \in Seq(Events), Rising(b), UpTo(b, r),
         Hears(s, t, e), SameClocks(s, v, t, w), NEW m,
         Like(v, w), Covered(b, r, s, v, m)
  PROVE  Covered(Grown(b, e), e.seq, t, w, m)
<1>1. CASE Excused(v)
  BY <1>1 DEF Covered, Like
<1>2. CASE InChannel(s, v, m)
  <2>1. InChannel(t, w, m)
    BY <1>2 DEF InChannel, Hears, Like
  <2> QED
    BY <2>1 DEF Covered
<1>3. CASE Coming(b, r, s, v, m)
  <2>1. PICK k \in 1..r : /\ Ahead(s, v, k) /\ Logged(b, k)
                          /\ Tells(b, k, m) /\ Tells(s.live, k, m) /\ Heard(s, k)
    BY <1>3 DEF Coming
  <2>2. k \in Nat /\ k # e.seq /\ k \in 1..e.seq /\ e.seq \in Nat /\ e.seq >= k
    BY EventSeq
  <2>3. Logged(Grown(b, e), k) /\ Tells(Grown(b, e), k, m)
    BY <2>1, <2>2, GrownTells
  <2>4. Ahead(t, w, k)
    BY <2>1 DEF Ahead, Above, Hears, SameClocks
  <2>5. s.live \in Seq(Events)
    BY DEF Streams
  <2>6. Tells(t.live, k, m)
    <3>1. Tells(Append(s.live, e), k, m)
      BY <2>1, <2>2, <2>5, AppendHas
    <3> QED
      BY <2>1, <3>1 DEF Hears
  <2>7. Heard(t, k)
    <3>1. CASE t.deaf
      BY <3>1 DEF Heard
    <3>2. CASE t.live = Append(s.live, e)
      <4>1. Has(Append(s.live, e), e.seq)
        BY <2>5, AppendHas
      <4> QED
        BY <2>2, <3>2, <4>1 DEF Heard, Has
    <3> QED
      BY <3>1, <3>2 DEF Hears
  <2> QED
    BY <2>2, <2>3, <2>4, <2>6, <2>7 DEF Covered, Coming
<1> QED
  BY <1>1, <1>2, <1>3 DEF Covered

(* The new entry tells of m, with nothing owed.                             *)
LEMMA HearsTells ==
  ASSUME NEW s \in Streams, NEW t \in Streams, NEW e \in Events, NEW v \in Views, NEW w \in Views,
         NEW r \in Nat, r < e.seq, NEW b \in Seq(Events), Rising(b), UpTo(b, r),
         NEW W, W \in SUBSET Nat, \A x \in W : x < e.seq,
         Sound(s, v, r, W), Hears(s, t, e), SameClocks(s, v, t, w),
         NEW m, e.msg \in {m, Resync}
  PROVE  Covered(Grown(b, e), e.seq, t, w, m)
<1> DEFINE k == e.seq
<1>1. /\ s.live \in Seq(Events) /\ s.lastSeq \in Nat /\ s.offset \in Nat /\ k \in Nat /\ k \in 1..k
  BY EventSeq DEF Streams
<1>2. Logged(Grown(b, e), k) /\ Tells(Grown(b, e), k, m)
  <2>1. Logged(Grown(b, e), k)
    BY GrownTells
  <2>2. \A a : e.msg \in {a, Resync} => Tells(Grown(b, e), k, a)
    BY GrownTells
  <2> QED
    BY <2>1, <2>2
<1>3. Ahead(t, w, k)
  <2>1. s.lastSeq < k + s.offset
    BY <1>1 DEF Sound
  <2>2. ASSUME NEW x \in Clocks(s, v)
        PROVE  x < k + s.offset
    <3>1. x \in Nat /\ (x <= r + s.offset \/ \E y \in W : x <= y)
      BY ClocksTyped DEF Sound, Below
    <3>2. \A y \in W : y \in Nat /\ y < k
      OBVIOUS
    <3> QED
      BY <1>1, <3>1, <3>2
  <2> QED
    BY <2>1, <2>2 DEF Ahead, Above, Hears, SameClocks
<1>4. Tells(s.live, k, m)
  BY <1>1, EventSeq DEF Sound, UpTo, Tells
<1>5. Tells(t.live, k, m) /\ Heard(t, k)
  <2>1. Tells(Append(s.live, e), k, m) /\ Has(Append(s.live, e), k)
    BY <1>1, <1>4, AppendHas
  <2>2. k >= k
    BY <1>1
  <2> QED
    BY <1>4, <2>1, <2>2 DEF Heard, Has, Hears
<1> QED
  BY <1>1, <1>2, <1>3, <1>5 DEF Covered, Coming

(* The floors owed by a replica are numbers.                                *)
LEMMA FloorsTyped ==
  ASSUME IInv, NEW p \in Pods
  PROVE  Floors(p) \in SUBSET Nat
BY FellAt DEF Floors, IInv, RecovOK

(* What Good says of one replica.                                           *)
LEMMA SoundAt ==
  ASSUME IInv, Good, NEW p \in Pods
  PROVE  Sound(pod[p], view[p], redis.seq, Floors(p))
BY DEF Good

(* Every stream after an entry was committed.                               *)
Heeds(pods, e) == pods \in [Pods -> Streams] /\ \A p \in Pods : Hears(pod[p], pods[p], e)

(* Each replica hears of the entry, or its pump is deaf to it.              *)
LEMMA ArrivedHeeds ==
  ASSUME IInv, Good, NEW n \in Nat, NEW m \in Msgs \cup {Resync}, NEW D
  PROVE  Heeds(Arrived(n, m, D), Entry(n, m))
<1> DEFINE e == Entry(n, m)
           t(p) == Arrived(n, m, D)[p]
<1>1. Arrived(n, m, D) \in [Pods -> Streams]
  BY ArrivedFollows DEF Follows
<1>2. e \in Events
  BY DEF Entry, Events
<1>3. ASSUME NEW p \in Pods
      PROVE  Hears(pod[p], t(p), e)
  <2>1. pod[p] \in Streams /\ pod[p].live \in Seq(Events) /\ pod[p].pump \in Pumps
    BY PodAt DEF Streams
  <2>2. CASE p \notin Listening
    <3>1. t(p) = pod[p]
      BY <2>2 DEF Arrived
    <3>2. pod[p].pump \in {"off", "dial"}
      BY <2>1, <2>2 DEF Listening, Pumps
    <3>3. pod[p].deaf
      BY <3>2, SoundAt DEF Sound
    <3> QED
      BY <3>1, <3>2, <3>3 DEF Hears
  <2>3. CASE p \in Listening /\ p \in D
    <3> DEFINE q == Append(pod[p].live, e)
    <3>1. t(p) = [pod[p] EXCEPT !.live = q, !.deaf = FALSE]
      BY <2>3 DEF Arrived
    <3>2. pod[p].pump \notin {"off", "dial"}
      BY <2>3 DEF Listening
    <3>3. q \in Seq(Events)
      BY <1>2, <2>1
    <3> HIDE DEF q, e
    <3>4. /\ t(p).sub = pod[p].sub /\ t(p).ready = pod[p].ready /\ t(p).lastSeq = pod[p].lastSeq
          /\ t(p).offset = pod[p].offset /\ t(p).ch = pod[p].ch /\ t(p).pump = pod[p].pump
          /\ t(p).nextSeq = pod[p].nextSeq /\ t(p).live = q
      BY <2>1, <3>1 DEF Streams
    <3> QED
      BY <3>2, <3>4 DEF Hears, q
  <2>4. CASE p \in Listening /\ p \notin D
    <3>1. t(p) = [pod[p] EXCEPT !.deaf = TRUE]
      BY <2>4 DEF Arrived
    <3>2. /\ t(p).sub = pod[p].sub /\ t(p).ready = pod[p].ready /\ t(p).lastSeq = pod[p].lastSeq
          /\ t(p).offset = pod[p].offset /\ t(p).ch = pod[p].ch /\ t(p).pump = pod[p].pump
          /\ t(p).nextSeq = pod[p].nextSeq /\ t(p).live = pod[p].live /\ t(p).deaf
      BY <2>1, <3>1 DEF Streams
    <3> QED
      BY <3>2 DEF Hears
  <2> QED
    BY <2>2, <2>3, <2>4
<1> QED
  BY <1>1, <1>3 DEF Heeds

(* The local seq raised to it changes none of that.                         *)
LEMMA SeededHeeds ==
  ASSUME IInv, NEW pods, NEW p \in Pods, NEW n \in Nat, NEW m \in Msgs \cup {Resync},
         Heeds(pods, Entry(n, m)), \A q \in Pods : pods[q].nextSeq = pod[q].nextSeq
  PROVE  Heeds(Seeded(pods, p, n), Entry(n, m))
<1> DEFINE e == Entry(n, m)
           h == Highest(pods[p].nextSeq, n)
           t == [pods[p] EXCEPT !.nextSeq = h]
<1>1. pods \in [Pods -> Streams] /\ pods[p] \in Streams /\ pods[p].nextSeq \in Nat /\ e.seq = n
  BY DEF Heeds, Streams, Entry
<1>2. h \in Nat /\ h \in {pods[p].nextSeq, n}
  BY <1>1 DEF Highest
<1>3. CASE Seeded(pods, p, n) = pods
  BY <1>3
<1>4. CASE Seeded(pods, p, n) = [pods EXCEPT ![p] = t]
  <2> HIDE DEF h, e
  <2>1. /\ t \in Streams /\ t.sub = pods[p].sub /\ t.ready = pods[p].ready
        /\ t.lastSeq = pods[p].lastSeq /\ t.offset = pods[p].offset /\ t.ch = pods[p].ch
        /\ t.pump = pods[p].pump /\ t.live = pods[p].live /\ t.deaf = pods[p].deaf /\ t.nextSeq = h
    BY <1>1, <1>2 DEF Streams
  <2> HIDE DEF t
  <2>2. Hears(pod[p], pods[p], e)
    BY DEF Heeds, e
  <2>3. Hears(pod[p], t, e)
    BY <1>1, <1>2, <2>1, <2>2 DEF Hears
  <2> QED
    BY <1>1, <1>4, <2>1, <2>3 DEF Heeds, e
<1> QED
  BY <1>3, <1>4 DEF Seeded

(* Pub/sub does not touch the local seqs.                                   *)
LEMMA ArrivedSeqs ==
  ASSUME IInv, NEW n, NEW m, NEW D, NEW p \in Pods
  PROVE  Arrived(n, m, D)[p].nextSeq = pod[p].nextSeq /\ Arrived(n, m, D)[p].alive = pod[p].alive
         /\ Arrived(n, m, D)[p].sub = pod[p].sub
BY PodAt DEF Arrived, Streams

(* The buffer a commit leaves.                                              *)
LEMMA CommittedGrows ==
  ASSUME IInv, NEW n, NEW m, redis' = Committed(n, m)
  PROVE  redis'.seq = n /\ redis'.buf = Grown(redis.buf, Entry(n, m))
<1>1. \A b : [seq |-> n, buf |-> b].seq = n /\ [seq |-> n, buf |-> b].buf = b
  OBVIOUS
<1>2. redis' = [seq |-> n, buf |-> Grown(redis.buf, Entry(n, m))]
  BY DEF Committed, Grown
<1> QED
  BY <1>1, <1>2

(* The seq of a commit is new, and above the floor.                         *)
LEMMA NextSeqNew ==
  ASSUME IInv, NEW w \in Nat
  PROVE  NextSeq(w) \in Nat /\ redis.seq < NextSeq(w) /\ w < NextSeq(w) /\ redis.seq \in Nat
BY DEF IInv, RedisOK, NextSeq, Highest

(* An entry is committed, and no floor is lost but for one it passed.       *)
Commits(n, c) ==
  /\ redis' = Committed(n, c) /\ redis.seq < n /\ Heeds(pod', Entry(n, c))
  /\ \A p \in Pods :
       /\ Floored(Floors(p), Floors(p)', n)
       /\ fell'[p].retrying = None => ~fell'[p].renewed
       /\ Like(view[p], view'[p]) /\ (~pod[p].sub => Blank(view'[p]))
       /\ \A m \in Lacking(view'[p]) : m \in Lacking(view[p]) \/ c \in {m, Resync}
  /\ Pending => Pending' \/ c = Resync

(* A committed entry with the events it owes leaves a good state.           *)
LEMMA CommitGood ==
  ASSUME IInv, IInv', Good, NEW n \in Nat, NEW c \in Msgs \cup {Resync}, Commits(n, c)
  PROVE  Good'
<1> DEFINE e == Entry(n, c)
           b == redis.buf
           r == redis.seq
<1>1. e \in Events /\ e.seq = n /\ e.msg = c
  BY DEF Entry, Events
<1>2. b \in Seq(Events) /\ r \in Nat /\ Rising(b) /\ UpTo(b, r)
  BY DEF IInv, RedisOK, Good
<1>3. redis'.seq = n /\ redis'.buf = Grown(b, e)
  BY CommittedGrows DEF Commits
<1> HIDE DEF e, b, r
<1>4. Rising(redis'.buf) /\ UpTo(redis'.buf, redis'.seq)
  <2>1. r < e.seq
    BY <1>1 DEF r, Commits
  <2> QED
    BY <1>1, <1>2, <1>3, <2>1, GrownTells
<1>5. ASSUME NEW p \in Pods
      PROVE  /\ pod[p] \in Streams /\ pod'[p] \in Streams /\ view[p] \in Views /\ view'[p] \in Views
             /\ Floors(p) \in SUBSET Nat /\ Floors(p)' \in SUBSET Nat
             /\ Sound(pod[p], view[p], r, Floors(p)) /\ Hears(pod[p], pod'[p], e)
             /\ Sound(pod'[p], view'[p], n, Floors(p)')
             /\ SameClocks(pod[p], view[p], pod'[p], view'[p])
  <2>1. pod[p] \in Streams /\ pod'[p] \in Streams /\ view[p] \in Views /\ view'[p] \in Views
    BY DEF IInv, PodsOK, ViewOK
  <2>2. Floors(p) \in SUBSET Nat
    BY FloorsTyped
  <2>3. Floors(p)' \in SUBSET Nat
    <3>1. fell'[p].watermark \in Nat /\ recov'[p] \in SUBSET Nat
      BY DEF IInv, FellOK, RecovOK, Fells
    <3> QED
      BY <3>1 DEF Floors
  <2>4. Sound(pod[p], view[p], r, Floors(p))
    BY SoundAt DEF r
  <2>5. Hears(pod[p], pod'[p], e)
    BY DEF Heeds, e, Commits
  <2>6. r < e.seq
    BY <1>1 DEF r, Commits
  <2>7. Floored(Floors(p), Floors(p)', e.seq)
    BY <1>1 DEF Commits
  <2> DEFINE X == Floors(p)'
             W == Floors(p)
             t == pod'[p]
             w == view'[p]
             s == pod[p]
             v == view[p]
  <2>8. /\ s \in Streams /\ t \in Streams /\ v \in Views /\ w \in Views
        /\ X \in SUBSET Nat /\ W \in SUBSET Nat /\ Sound(s, v, r, W) /\ Hears(s, t, e)
        /\ Floored(W, X, e.seq) /\ Clock(w) = Clock(v) /\ (~s.sub => Blank(w))
    BY <2>1, <2>2, <2>3, <2>4, <2>5, <2>7 DEF Commits, Like
  <2> HIDE DEF X, W, s, t, v, w
  <2>9. Sound(t, w, e.seq, X) /\ SameClocks(s, v, t, w)
    BY <1>1, <1>2, <2>6, <2>8, HearsSound
  <2> QED
    BY <1>1, <2>1, <2>2, <2>3, <2>4, <2>5, <2>9 DEF X, W, s, t, v, w
<1>6. ASSUME ~Pending', NEW p \in Pods, NEW m \in Lacking(view'[p])
      PROVE  Covered(redis'.buf, redis'.seq, pod'[p], view'[p], m)
  <2>1. CASE c \in {m, Resync}
    <3>1. \A x \in Floors(p) : x < e.seq
      BY <1>1, <1>6 DEF Pending, Floored, Commits
    <3>2. Covered(Grown(b, e), e.seq, pod'[p], view'[p], m)
      <4> DEFINE W == Floors(p)
                 t == pod'[p]
                 w == view'[p]
                 s == pod[p]
                 v == view[p]
      <4>1. /\ s \in Streams /\ t \in Streams /\ v \in Views /\ w \in Views
            /\ W \in SUBSET Nat /\ Sound(s, v, r, W) /\ Hears(s, t, e)
            /\ SameClocks(s, v, t, w) /\ \A x \in W : x < e.seq
        BY <1>5, <3>1
      <4>2. r < e.seq /\ e.msg \in {m, Resync}
        BY <1>1, <2>1 DEF r, Commits
      <4> HIDE DEF W, s, t, v, w
      <4>3. \A a : e.msg \in {a, Resync} => Covered(Grown(b, e), e.seq, t, w, a)
        BY <1>1, <1>2, <4>1, <4>2, HearsTells
      <4> QED
        BY <4>2, <4>3 DEF t, w
    <3> QED
      BY <1>1, <1>3, <3>2
  <2>2. CASE c \notin {m, Resync}
    <3>1. ~Pending /\ m \in Lacking(view[p])
      BY <1>6, <2>2 DEF Commits
    <3>2. Covered(b, r, pod[p], view[p], m)
      BY <3>1 DEF Good, b, r
    <3>3. Covered(Grown(b, e), e.seq, pod'[p], view'[p], m)
      <4> DEFINE t == pod'[p]
                 w == view'[p]
                 s == pod[p]
                 v == view[p]
      <4>1. /\ s \in Streams /\ t \in Streams /\ v \in Views /\ w \in Views
            /\ Hears(s, t, e) /\ SameClocks(s, v, t, w)
            /\ Like(v, w)
        BY <1>5 DEF Commits
      <4>2. r < e.seq
        BY <1>1 DEF r, Commits
      <4>3. Covered(b, r, s, v, m)
        BY <3>2
      <4> HIDE DEF s, t, v, w
      <4>4. \A a : Covered(b, r, s, v, a) => Covered(Grown(b, e), e.seq, t, w, a)
        BY <1>1, <1>2, <4>1, <4>2, HearsCovers
      <4> QED
        BY <4>3, <4>4 DEF t, w
    <3> QED
      BY <1>1, <1>3, <3>3
  <2> QED
    BY <2>1, <2>2
<1>7. \A p \in Pods : fell'[p].retrying = None => ~fell'[p].renewed
  BY DEF Commits
<1>8. \A p \in Pods : Sound(pod'[p], view'[p], redis'.seq, Floors(p)')
  BY <1>3, <1>5
<1>9. Pending' \/ \A p \in Pods : \A m \in Lacking(view'[p]) :
        Covered(redis'.buf, redis'.seq, pod'[p], view'[p], m)
  BY <1>6
<1> QED
  BY <1>4, <1>7, <1>8, <1>9 DEF Good

(* A broadcast that reaches the pumps in D.                                 *)
LEMMA BroadcastHeeds ==
  ASSUME IInv, Good, NEW p \in Pods, NEW n \in Nat, NEW m \in Msgs \cup {Resync}, NEW D,
         pod' = Seeded(Arrived(n, m, D), p, n)
  PROVE  Heeds(pod', Entry(n, m))
<1>1. Heeds(Arrived(n, m, D), Entry(n, m))
  BY ArrivedHeeds
<1>2. \A q \in Pods : Arrived(n, m, D)[q].nextSeq = pod[q].nextSeq
  BY ArrivedSeqs
<1>3. Heeds(Seeded(Arrived(n, m, D), p, n), Entry(n, m))
  BY <1>1, <1>2, SeededHeeds
<1> QED
  BY <1>3

(* A replica whose marker is untouched owes what it owed.                   *)
LEMMA FloorsKept ==
  ASSUME IInv, NEW p \in Pods, fell'[p] = fell[p], recov'[p] = recov[p], NEW n
  PROVE  Floors(p)' = Floors(p) /\ Floored(Floors(p), Floors(p)', n)
<1>1. Floors(p)' = Floors(p)
  BY DEF Floors, Due
<1>2. \A x \in Floors(p) : x <= x
  BY FloorsTyped
<1> QED
  BY <1>1, <1>2 DEF Floored

(* A viewer that is left alone.                                             *)
LEMMA ViewKept ==
  ASSUME IInv, Good, UNCHANGED view, NEW p \in Pods
  PROVE  /\ Like(view[p], view'[p]) /\ (~pod[p].sub => Blank(view'[p]))
         /\ \A m \in Lacking(view'[p]) : m \in Lacking(view[p])
BY SoundAt DEF Sound, Like

(* What a published event adds to one viewer.                               *)
LEMMA OwedAt ==
  ASSUME IInv, Good, NEW m \in Msgs, view' = Owed(m), NEW p \in Pods
  PROVE  /\ Like(view[p], view'[p]) /\ (~pod[p].sub => Blank(view'[p]))
         /\ \A x \in Lacking(view'[p]) : x \in Lacking(view[p]) \/ x = m
<1>1. view[p] \in Views
  BY ViewAt
<1>2. CASE pod[p].sub
  <2> DEFINE v == view[p]
             w == view'[p]
             x == v.missing \cup {m}
             y == IF v.reply = "none" THEN v.since ELSE v.since \cup {m}
  <2>1. w = [v EXCEPT !.missing = x, !.since = y]
    BY <1>2 DEF Owed
  <2> HIDE DEF x, y
  <2>2. /\ w.last = v.last /\ w.asked = v.asked /\ w.lost = v.lost /\ w.reply = v.reply
        /\ w.upto = v.upto /\ w.missing = x /\ w.since = y
    BY <1>1, <2>1 DEF Views
  <2> HIDE DEF v, w
  <2>3. Like(v, w)
    BY <2>2 DEF Like, Clock, Excused
  <2>4. \A z \in Lacking(w) : z \in Lacking(v) \/ z = m
    BY <2>2 DEF Lacking, x, y
  <2> QED
    BY <1>2, <2>3, <2>4 DEF v, w
<1>3. CASE ~pod[p].sub
  <2>1. view'[p] = view[p]
    BY <1>3 DEF Owed
  <2> QED
    BY <1>3, <2>1, SoundAt DEF Sound, Like
<1> QED
  BY <1>2, <1>3

(* renewed is only set while a retrier runs.                                *)
LEMMA RenewedAt ==
  ASSUME Good, NEW p \in Pods
  PROVE  fell[p].retrying = None => ~fell[p].renewed
BY DEF Good

(* Each action leaves a good state: Publish hands its marker over to        *)
(* Recover.                                                                 *)
LEMMA PublishGood ==
  ASSUME IInv, IInv', Good, NEW p \in Pods, NEW m \in Msgs, Publish(p, m)
  PROVE  Good'
<1> DEFINE n == NextSeq(0)
<1>1. PICK D \in SUBSET Listening :
        redis' = Committed(n, m) /\ pod' = Seeded(Arrived(n, m, D), p, n)
  BY DEF Publish
<1>2. n \in Nat /\ redis.seq < n
  BY NextSeqNew
<1> HIDE DEF n
<1>3. Heeds(pod', Entry(n, m))
  BY <1>1, <1>2, BroadcastHeeds
<1>4. ASSUME NEW q \in Pods
      PROVE  /\ Floors(q) \subseteq Floors(q)' /\ Floored(Floors(q), Floors(q)', n)
             /\ fell'[q].retrying = None => ~fell'[q].renewed
  <2>1. CASE fell[p].on /\ q = p
    <3>1. fell'[p] = NoMarker /\ recov'[p] = recov[p] \cup {fell[p].watermark}
      BY <2>1 DEF Publish, IInv, FellOK, RecovOK
    <3>2. ~fell'[p].renewed
      BY <3>1 DEF NoMarker
    <3>3. Floors(p) \subseteq Floors(p)'
      BY <3>1 DEF Floors
    <3>4. \A x \in Floors(p) : x <= x
      BY FloorsTyped
    <3> QED
      BY <2>1, <3>2, <3>3, <3>4 DEF Floored
  <2>2. CASE ~(fell[p].on /\ q = p)
    <3>1. fell'[q] = fell[q] /\ recov'[q] = recov[q]
      BY <2>2 DEF Publish, IInv, FellOK, RecovOK
    <3> QED
      BY <3>1, FloorsKept, RenewedAt
  <2> QED
    BY <2>1, <2>2
<1>5. Pending => Pending'
  BY <1>4 DEF Pending
<1>6. view' = Owed(m)
  BY DEF Publish
<1>7. Commits(n, m)
  BY <1>1, <1>2, <1>3, <1>4, <1>5, <1>6, OwedAt DEF Commits
<1> QED
  BY <1>2, <1>7, CommitGood

(* A published marker covers the floors up to its own.                      *)
LEMMA MarkerGood ==
  ASSUME IInv, IInv', Good, NEW p \in Pods, NEW w \in Nat, MarkerCommits(p, w), UNCHANGED view,
         \A q \in Pods : \A x \in Floors(q) : x \in Floors(q)' \/ x <= w,
         \A q \in Pods : fell'[q].retrying = None => ~fell'[q].renewed
  PROVE  Good'
<1> DEFINE n == NextSeq(w)
<1>1. PICK D \in SUBSET Listening :
        redis' = Committed(n, Resync) /\ pod' = Seeded(Arrived(n, Resync, D), p, n)
  BY DEF MarkerCommits
<1>2. n \in Nat /\ redis.seq < n /\ w < n
  BY NextSeqNew
<1> HIDE DEF n
<1>3. Heeds(pod', Entry(n, Resync))
  BY <1>1, <1>2, BroadcastHeeds
<1>4. ASSUME NEW q \in Pods
      PROVE  Floored(Floors(q), Floors(q)', n)
  <2>1. \A x \in Floors(q) : x \in Nat /\ x <= x /\ (x <= w => x < n)
    BY <1>2, FloorsTyped
  <2> QED
    BY <2>1 DEF Floored
<1>5. Commits(n, Resync)
  BY <1>1, <1>2, <1>3, <1>4, ViewKept DEF Commits
<1> QED
  BY <1>2, <1>5, CommitGood

(* Recover.                                                                 *)
LEMMA RecoverGood ==
  ASSUME IInv, IInv', Good, NEW p \in Pods, NEW w \in recov[p], Recover(p, w)
  PROVE  Good'
<1>1. /\ recov' = [recov EXCEPT ![p] = recov[p] \ {w}]
      /\ MarkerCommits(p, w) /\ UNCHANGED fell /\ UNCHANGED view
  BY DEF Recover
<1>2. w \in Nat /\ w <= w /\ recov \in [Pods -> SUBSET Nat]
  BY DEF IInv, RecovOK
<1>3. ASSUME NEW q \in Pods
      PROVE  \A x \in Floors(q) : x \in Floors(q)' \/ x <= w
  BY <1>1, <1>2 DEF Floors, Due
<1>4. \A q \in Pods : fell'[q].retrying = None => ~fell'[q].renewed
  BY <1>1, RenewedAt
<1> QED
  BY <1>1, <1>2, <1>3, <1>4, MarkerGood

(* Retry.                                                                   *)
LEMMA RetryGood ==
  ASSUME IInv, IInv', Good, NEW p \in Pods, Retry(p)
  PROVE  Good'
<1> DEFINE w == fell[p].watermark
           f == [fell[p] EXCEPT !.retrying = w]
<1>1. /\ MarkerCommits(p, w) /\ UNCHANGED recov /\ UNCHANGED view
      /\ fell' = [fell EXCEPT ![p] = f] /\ fell[p].retrying = None
  BY DEF Retry
<1>2. w \in Nat /\ w <= w /\ fell \in [Pods -> Fells] /\ fell[p] \in Fells /\ None \notin Nat
  BY FellAt, MarkersAssumption DEF IInv, FellOK
<1>3. f.retrying = w
  BY <1>2 DEF Fells
<1> HIDE DEF w, f
<1>4. \A q \in Pods : fell'[q] = IF q = p THEN f ELSE fell[q]
  BY <1>1, <1>2
<1>5. ASSUME NEW q \in Pods
      PROVE  \A x \in Floors(q) : x \in Floors(q)' \/ x <= w
  <2>1. CASE q = p
    BY <1>1, <1>2, <2>1 DEF Floors, w
  <2>2. CASE q # p
    BY <1>1, <1>4, <2>2 DEF Floors, Due
  <2> QED
    BY <2>1, <2>2
<1>6. \A q \in Pods : fell'[q].retrying = None => ~fell'[q].renewed
  BY <1>2, <1>3, <1>4, RenewedAt
<1> QED
  BY <1>1, <1>2, <1>5, <1>6, MarkerGood

(* Retry that fails after the script ran.                                   *)
LEMMA RetryFailsGood ==
  ASSUME IInv, IInv', Good, NEW p \in Pods, RetryFails(p)
  PROVE  Good'
<1> DEFINE n == NextSeq(fell[p].watermark)
<1>1. /\ redis' = Committed(n, Resync) /\ pod' = Arrived(n, Resync, Listening)
      /\ UNCHANGED fell /\ UNCHANGED recov /\ UNCHANGED view
  BY DEF RetryFails
<1>2. n \in Nat /\ redis.seq < n
  BY FellAt, NextSeqNew
<1> HIDE DEF n
<1>3. Heeds(pod', Entry(n, Resync))
  BY <1>1, <1>2, ArrivedHeeds
<1>4. \A q \in Pods : /\ Floored(Floors(q), Floors(q)', n)
                      /\ fell'[q].retrying = None => ~fell'[q].renewed
  BY <1>1, FloorsKept, RenewedAt
<1>5. Commits(n, Resync)
  BY <1>1, <1>2, <1>3, <1>4, ViewKept DEF Commits
<1> QED
  BY <1>2, <1>5, CommitGood

(* A stream stays sound over more floors.                                   *)
LEMMA SoundKept ==
  ASSUME NEW s \in Streams, NEW v \in Views, NEW w \in Views, NEW r \in Nat,
         NEW W, NEW X, W \in SUBSET Nat, X \in SUBSET Nat,
         Sound(s, v, r, W), Floored(W, X, r), Clock(w) = Clock(v), ~s.sub => Blank(w)
  PROVE  Sound(s, w, r, X)
<1>1. s.offset \in Nat /\ s.nextSeq \in Nat /\ r <= r
  BY DEF Streams
<1>2. Clocks(s, w) = Clocks(s, v)
  BY DEF Clocks
<1>3. \A x \in Clocks(s, v) : Below(X, x, r + s.offset)
  <2> SUFFICES ASSUME NEW x \in Clocks(s, v)
               PROVE  Below(X, x, r + s.offset)
    OBVIOUS
  <2>1. x \in Nat /\ Below(W, x, r + s.offset)
    BY ClocksTyped DEF Sound
  <2> QED
    BY <1>1, <2>1, BelowGrows
<1>4. Below(X, s.nextSeq, r)
  <2>1. Below(W, s.nextSeq, r + 0)
    BY DEF Sound
  <2>2. Below(X, s.nextSeq, r + 0)
    BY <1>1, <2>1, BelowGrows
  <2> QED
    BY <2>2
<1> QED
  BY <1>2, <1>3, <1>4 DEF Sound

(* The local fan-out hands out a seq that the marker then owes.             *)
LEMMA FannedSound ==
  ASSUME NEW s, Bounded(s), NEW v \in Views, NEW r \in Nat, NEW W, W \in SUBSET Nat,
         Sound(s, v, r, W), NEW h \in W, LocalSeq(s) <= h, NEW m \in Msgs \cup {Resync}
  PROVE  Sound(FannedOut(s, m), v, r, W)
<1> DEFINE n == s.nextSeq + 1
           t == [s EXCEPT !.nextSeq = n]
           e == Entry(n, m)
           u == Push(t, e)
<1>1. s \in Streams /\ n \in Nat /\ s.ch \in Seq(Events) /\ e \in Events /\ e.seq = n
  BY DEF Bounded, Streams, Entry, Events
<1>2. FannedOut(s, m) = IF ~s.alive THEN s ELSE IF s.sub THEN u ELSE t
  BY DEF FannedOut
<1>3. CASE ~s.alive
  BY <1>2, <1>3
<1>4. CASE s.alive
  <2>1. n <= h /\ Below(W, n, r)
    BY <1>4 DEF LocalSeq, Below
  <2> HIDE DEF n, e
  <2>2. /\ t \in Streams /\ t.sub = s.sub /\ t.ready = s.ready /\ t.lastSeq = s.lastSeq
        /\ t.offset = s.offset /\ t.pump = s.pump /\ t.live = s.live /\ t.deaf = s.deaf
        /\ t.nextSeq = n /\ t.ch = s.ch
    BY <1>1 DEF Streams
  <2>3. Bounded(t) /\ Clocks(t, v) = Clocks(s, v)
    BY <2>2 DEF Bounded, Clocks
  <2>4. Sound(t, v, r, W)
    BY <2>1, <2>2, <2>3 DEF Sound
  <2> HIDE DEF t
  <2>5. /\ u.sub = t.sub /\ u.ready = t.ready /\ u.lastSeq = t.lastSeq
        /\ u.offset = t.offset /\ u.pump = t.pump /\ u.live = t.live /\ u.deaf = t.deaf
        /\ u.nextSeq = t.nextSeq
    <3>1. u = [t EXCEPT !.ch = u.ch]
      BY <1>1, <2>3, PushKeeps
    <3> HIDE DEF u
    <3> QED
      BY <2>2, <3>1 DEF Streams
  <2>6. Clocks(u, v) \subseteq Clocks(t, v) \cup {n}
    BY <1>1, <2>3, PushClocks
  <2> HIDE DEF u
  <2>7. \A x \in Clocks(u, v) : Below(W, x, r + u.offset)
    <3>1. Below(W, n, r + u.offset)
      BY <1>1, <2>1 DEF Below
    <3>2. \A x \in Clocks(t, v) : Below(W, x, r + u.offset)
      BY <2>4, <2>5 DEF Sound
    <3> QED
      BY <2>6, <3>1, <3>2
  <2>8. Sound(u, v, r, W)
    BY <2>4, <2>5, <2>7 DEF Sound
  <2> QED
    BY <1>2, <1>4, <2>4, <2>8
<1> QED
  BY <1>3, <1>4

(* markFellBack owes the seq, and what it owed before.                      *)
LEMMA MarkedFloors ==
  ASSUME IInv, Good, NEW p \in Pods, NEW n \in Nat, fell' = [fell EXCEPT ![p] = Marked(fell[p], n)]
  PROVE  /\ \E h \in Nat : /\ h \in Floors(p)' /\ n <= h
                           /\ fell[p].on => fell[p].watermark <= h
         /\ \A q \in Pods : fell'[q].retrying = None => ~fell'[q].renewed
         /\ \A q \in Pods \ {p} : fell'[q] = fell[q]
<1> DEFINE f == fell[p]
           g == Marked(f, n)
           h == Highest(f.watermark, n)
           b == (f.retrying # None)
<1>1. /\ fell \in [Pods -> Fells] /\ f \in Fells /\ f.watermark \in Nat
      /\ f.retrying # None => f.on
      /\ f.retrying = None => ~f.renewed
  BY FellAt, RenewedAt DEF IInv, FellOK
<1>2. h \in Nat /\ n <= h /\ f.watermark <= h /\ n <= n
  BY <1>1 DEF Highest
<1>3. fell'[p] = g /\ \A q \in Pods \ {p} : fell'[q] = fell[q]
  BY <1>1
<1> HIDE DEF f, g, h
<1>4. CASE f.on
  <2>1. g = [f EXCEPT !.watermark = h, !.renewed = b]
    BY <1>4 DEF Marked, g, h
  <2> HIDE DEF b
  <2>2. g.on /\ g.watermark = h /\ g.renewed = b /\ g.retrying = f.retrying
    BY <1>1, <1>4, <2>1 DEF Fells
  <2>3. Due(g) /\ (g.retrying = None => ~g.renewed)
    BY <2>2 DEF Due, b
  <2>4. h \in Floors(p)'
    BY <1>3, <2>2, <2>3 DEF Floors
  <2>5. \A q \in Pods : fell'[q].retrying = None => ~fell'[q].renewed
    BY <1>3, <2>3, RenewedAt
  <2> QED
    BY <1>2, <1>3, <2>4, <2>5 DEF f
<1>5. CASE ~f.on
  <2>1. g = [f EXCEPT !.on = TRUE, !.watermark = n]
    BY <1>5 DEF Marked, g
  <2>2. g.on /\ g.watermark = n /\ g.renewed = f.renewed /\ g.retrying = f.retrying
    BY <1>1, <2>1 DEF Fells
  <2>3. Due(g) /\ (g.retrying = None => ~g.renewed)
    BY <1>1, <1>5, <2>2 DEF Due
  <2>4. n \in Floors(p)'
    BY <1>3, <2>2, <2>3 DEF Floors
  <2>5. \A q \in Pods : fell'[q].retrying = None => ~fell'[q].renewed
    BY <1>3, <2>3, RenewedAt
  <2> QED
    BY <1>2, <1>3, <1>5, <2>4, <2>5 DEF f
<1> QED
  BY <1>4, <1>5

(* A publish that failed, whether its script ran or not.                    *)
Fails(p, n, c, ran, pods) ==
  /\ redis' = IF ran THEN Committed(n, c) ELSE redis
  /\ pods = IF ran THEN Arrived(n, c, Listening) ELSE pod
  /\ pod' = [pods EXCEPT ![p] = FannedOut(pods[p], c)]
  /\ \E h \in Nat : h \in Floors(p)' /\ LocalSeq(pod[p]) <= h
  /\ \A q \in Pods :
       /\ \A x \in Floors(q) : \E y \in Floors(q)' : x <= y
       /\ fell'[q].retrying = None => ~fell'[q].renewed
       /\ Clock(view'[q]) = Clock(view[q]) /\ (~pod[q].sub => Blank(view'[q]))

(* A failed publish leaves every stream sound.                              *)
LEMMA FailedSound ==
  ASSUME IInv, IInv', Good, NEW p \in Pods, NEW n \in Nat, redis.seq < n,
         NEW c \in Msgs \cup {Resync}, NEW ran \in BOOLEAN, NEW pods, Fails(p, n, c, ran, pods),
         NEW q \in Pods
  PROVE  Sound(pods[q], view'[q], redis'.seq, Floors(q)') /\ Bounded(pods[q])
<1> DEFINE s == pod[q]
           v == view[q]
           w == view'[q]
           W == Floors(q)
           X == Floors(q)'
           r == redis.seq
           e == Entry(n, c)
<1>1. /\ s \in Streams /\ v \in Views /\ w \in Views /\ r \in Nat /\ e \in Events /\ e.seq = n
  <2>1. view' \in [Pods -> Views]
    BY DEF IInv, ViewOK
  <2>2. r \in Nat
    BY DEF IInv, RedisOK
  <2> QED
    BY <2>1, <2>2, PodAt, ViewAt DEF Entry, Events
<1>2. W \in SUBSET Nat /\ X \in SUBSET Nat
  <2>1. fell'[q].watermark \in Nat /\ recov'[q] \in SUBSET Nat
    BY DEF IInv, FellOK, RecovOK, Fells
  <2> QED
    BY <2>1, FloorsTyped DEF Floors
<1>3. Sound(s, v, r, W) /\ r < e.seq
  BY <1>1, SoundAt
<1>4. \A i : Floored(W, X, i)
  BY DEF Fails, Floored
<1>5. Clock(w) = Clock(v) /\ (~s.sub => Blank(w))
  BY DEF Fails
<1>6. CASE ran
  <2> DEFINE t == pods[q]
  <2>1. pods = Arrived(n, c, Listening) /\ redis'.seq = n
    BY <1>6, CommittedGrows DEF Fails
  <2>2. Heeds(pods, e) /\ Follows(pods)
    BY <2>1, ArrivedHeeds, ArrivedFollows
  <2>3. t \in Streams /\ Hears(s, t, e) /\ Bounded(t)
    BY <2>2 DEF Heeds, Follows, Keeps
  <2> HIDE DEF s, t, v, w, W, X, r, e
  <2>4. Sound(t, w, e.seq, X)
    BY <1>1, <1>2, <1>3, <1>4, <1>5, <2>3, HearsSound
  <2> QED
    BY <1>1, <2>1, <2>3, <2>4 DEF t, w, X
<1>7. CASE ~ran
  <2>1. pods[q] = s /\ redis'.seq = r /\ Bounded(s)
    BY <1>7, PodAt DEF Fails
  <2> HIDE DEF s, v, w, W, X, r, e
  <2>2. Sound(s, w, r, X)
    BY <1>1, <1>2, <1>3, <1>4, <1>5, SoundKept
  <2> QED
    BY <2>1, <2>2 DEF w, X
<1> QED
  BY <1>6, <1>7

(* A failed publish leaves a good state: the marker is pending.             *)
LEMMA FailedGood ==
  ASSUME IInv, IInv', Good, NEW p \in Pods, NEW n \in Nat, redis.seq < n,
         NEW c \in Msgs \cup {Resync}, NEW ran \in BOOLEAN, NEW pods, Fails(p, n, c, ran, pods)
  PROVE  Good'
<1>1. Rising(redis'.buf) /\ UpTo(redis'.buf, redis'.seq)
  <2> DEFINE e == Entry(n, c)
  <2>1. /\ redis.buf \in Seq(Events) /\ redis.seq \in Nat /\ Rising(redis.buf)
        /\ UpTo(redis.buf, redis.seq)
    BY DEF IInv, RedisOK, Good
  <2>2. e \in Events /\ e.seq = n
    BY DEF Entry, Events
  <2>3. CASE ran
    <3>1. redis'.seq = n /\ redis'.buf = Grown(redis.buf, e)
      BY <2>3, CommittedGrows DEF Fails
    <3> HIDE DEF e
    <3> QED
      BY <2>1, <2>2, <3>1, GrownTells
  <2>4. CASE ~ran
    BY <2>1, <2>4 DEF Fails
  <2> QED
    BY <2>3, <2>4
<1>2. /\ pods \in [Pods -> Streams]
      /\ pods[p].nextSeq = pod[p].nextSeq /\ pods[p].alive = pod[p].alive
  <2>1. CASE ran
    <3>1. pods = Arrived(n, c, Listening)
      BY <2>1 DEF Fails
    <3>2. pods \in [Pods -> Streams]
      BY <3>1, ArrivedFollows DEF Follows
    <3> QED
      BY <3>1, <3>2, ArrivedSeqs
  <2>2. CASE ~ran
    BY <2>2 DEF Fails, IInv, PodsOK
  <2> QED
    BY <2>1, <2>2
<1>3. PICK h \in Nat : h \in Floors(p)' /\ LocalSeq(pod[p]) <= h
  BY DEF Fails
<1>4. LocalSeq(pods[p]) <= h
  BY <1>2, <1>3 DEF LocalSeq
<1>5. redis'.seq \in Nat /\ view'[p] \in Views /\ Floors(p)' \in SUBSET Nat
  <2>1. fell'[p].watermark \in Nat /\ recov'[p] \in SUBSET Nat
    BY DEF IInv, FellOK, RecovOK, Fells
  <2> QED
    BY <2>1 DEF IInv, RedisOK, ViewOK, Floors
<1>6. Sound(pod'[p], view'[p], redis'.seq, Floors(p)')
  <2> DEFINE s == pods[p]
             w == view'[p]
             X == Floors(p)'
             r == redis'.seq
  <2>1. Sound(s, w, r, X) /\ Bounded(s)
    BY FailedSound
  <2>2. pod'[p] = FannedOut(s, c)
    BY <1>2 DEF Fails
  <2>3. w \in Views /\ r \in Nat /\ X \in SUBSET Nat /\ h \in X /\ LocalSeq(s) <= h
    BY <1>3, <1>4, <1>5
  <2> HIDE DEF s, w, X, r
  <2>4. Sound(FannedOut(s, c), w, r, X)
    BY <2>1, <2>3, FannedSound
  <2> QED
    BY <2>2, <2>4 DEF w, X, r
<1>7. ASSUME NEW q \in Pods \ {p}
      PROVE  Sound(pod'[q], view'[q], redis'.seq, Floors(q)')
  <2>1. pod'[q] = pods[q]
    BY <1>2 DEF Fails
  <2> QED
    BY <2>1, FailedSound
<1>8. Pending'
  BY <1>3 DEF Pending
<1>9. \A q \in Pods : fell'[q].retrying = None => ~fell'[q].renewed
  BY DEF Fails
<1>10. \A q \in Pods : Sound(pod'[q], view'[q], redis'.seq, Floors(q)')
  BY <1>6, <1>7
<1> QED
  BY <1>1, <1>8, <1>9, <1>10 DEF Good

(* Publish that fails.                                                      *)
LEMMA PublishFailsGood ==
  ASSUME IInv, IInv', Good, NEW p \in Pods, NEW m \in Msgs, PublishFails(p, m)
  PROVE  Good'
<1> DEFINE n == NextSeq(0)
<1>1. PICK ran \in BOOLEAN :
        /\ redis' = IF ran THEN Committed(n, m) ELSE redis
        /\ pod' = [(IF ran THEN Arrived(n, m, Listening) ELSE pod) EXCEPT ![p] = FannedOut(@, m)]
  BY DEF PublishFails
<1> DEFINE pods == IF ran THEN Arrived(n, m, Listening) ELSE pod
<1>2. n \in Nat /\ redis.seq < n
  BY NextSeqNew
<1>3. pod' = [pods EXCEPT ![p] = FannedOut(pods[p], m)]
  BY <1>1
<1> DEFINE l == LocalSeq(pod[p])
<1>4. view' = Owed(m) /\ UNCHANGED recov /\ fell' = [fell EXCEPT ![p] = Marked(fell[p], l)]
  BY DEF PublishFails
<1>5. l \in Nat
  BY LocalSeqTyped
<1> HIDE DEF l
<1>6. /\ \E h \in Nat : /\ h \in Floors(p)' /\ l <= h
                        /\ fell[p].on => fell[p].watermark <= h
      /\ \A q \in Pods : fell'[q].retrying = None => ~fell'[q].renewed
      /\ \A q \in Pods \ {p} : fell'[q] = fell[q]
  BY <1>4, <1>5, MarkedFloors
<1>7. ASSUME NEW q \in Pods, NEW x \in Floors(q)
      PROVE  \E y \in Floors(q)' : x <= y
  <2>1. x \in Nat /\ x <= x
    BY FloorsTyped
  <2>2. CASE x \in recov[q]
    BY <1>4, <2>1, <2>2 DEF Floors
  <2>3. CASE q = p /\ x \notin recov[p]
    <3>1. fell[p].on /\ x = fell[p].watermark
      BY <2>3 DEF Floors, Due
    <3> QED
      BY <1>6, <2>3, <3>1
  <2>4. CASE q # p
    BY <1>4, <1>6, <2>1, <2>4, FloorsKept
  <2> QED
    BY <2>2, <2>3, <2>4
<1> HIDE DEF n, pods
<1>8. Fails(p, n, m, ran, pods)
  BY <1>1, <1>3, <1>4, <1>6, <1>7, OwedAt DEF Fails, Like, pods, l
<1> QED
  BY <1>2, <1>8, FailedGood

(* Recover that fails.                                                      *)
LEMMA RecoverFailsGood ==
  ASSUME IInv, IInv', Good, NEW p \in Pods, NEW w \in recov[p], RecoverFails(p, w)
  PROVE  Good'
<1> DEFINE n == NextSeq(w)
<1>1. PICK ran \in BOOLEAN :
        /\ redis' = IF ran THEN Committed(n, Resync) ELSE redis
        /\ pod' = [(IF ran THEN Arrived(n, Resync, Listening) ELSE pod) EXCEPT
                      ![p] = FannedOut(@, Resync)]
  BY DEF RecoverFails
<1> DEFINE pods == IF ran THEN Arrived(n, Resync, Listening) ELSE pod
<1>2. w \in Nat /\ recov \in [Pods -> SUBSET Nat]
  BY DEF IInv, RecovOK
<1>3. n \in Nat /\ redis.seq < n
  BY <1>2, NextSeqNew
<1>4. pod' = [pods EXCEPT ![p] = FannedOut(pods[p], Resync)]
  BY <1>1
<1> DEFINE l == LocalSeq(pod[p])
           k == Highest(w, l)
<1>5. /\ UNCHANGED view /\ recov' = [recov EXCEPT ![p] = recov[p] \ {w}]
      /\ fell' = [fell EXCEPT ![p] = Marked(fell[p], k)]
  BY DEF RecoverFails
<1>6. l \in Nat /\ k \in Nat /\ w <= k /\ l <= k
  BY <1>2, LocalSeqTyped DEF Highest
<1> HIDE DEF l, k
<1>7. /\ \E h \in Nat : /\ h \in Floors(p)' /\ k <= h
                        /\ fell[p].on => fell[p].watermark <= h
      /\ \A q \in Pods : fell'[q].retrying = None => ~fell'[q].renewed
      /\ \A q \in Pods \ {p} : fell'[q] = fell[q]
  BY <1>5, <1>6, MarkedFloors
<1>8. PICK h \in Nat : /\ h \in Floors(p)' /\ w <= h /\ l <= h
                       /\ fell[p].on => fell[p].watermark <= h
  BY <1>2, <1>6, <1>7
<1>9. ASSUME NEW q \in Pods, NEW x \in Floors(q)
      PROVE  \E y \in Floors(q)' : x <= y
  <2>1. x \in Nat /\ x <= x
    BY FloorsTyped
  <2>2. CASE q = p
    <3>1. CASE x \in recov[p] /\ x # w
      <4>1. x \in recov'[p]
        BY <1>2, <1>5, <3>1
      <4> QED
        BY <2>1, <2>2, <4>1 DEF Floors
    <3>2. CASE x = w
      BY <1>8, <2>2, <3>2
    <3>3. CASE x \notin recov[p]
      <4>1. fell[p].on /\ x = fell[p].watermark
        BY <2>2, <3>3 DEF Floors, Due
      <4> QED
        BY <1>8, <2>2, <4>1
    <3> QED
      BY <3>1, <3>2, <3>3
  <2>3. CASE q # p
    <3>1. recov'[q] = recov[q] /\ fell'[q] = fell[q]
      BY <1>2, <1>5, <1>7, <2>3
    <3> QED
      BY <2>1, <3>1, FloorsKept
  <2> QED
    BY <2>2, <2>3
<1> HIDE DEF n, pods
<1>10. Fails(p, n, Resync, ran, pods)
  BY <1>1, <1>4, <1>7, <1>8, <1>9, <1>5, ViewKept DEF Fails, Like, pods, l
<1> QED
  BY <1>3, <1>10, FailedGood

(* A step of replica p or its viewer alone.                                 *)
Alone(p) ==
  /\ UNCHANGED redis
  /\ \A q \in Pods :
       /\ Floors(q) \subseteq Floors(q)'
       /\ fell'[q].retrying = None => ~fell'[q].renewed
       /\ q # p => pod'[q] = pod[q] /\ view'[q] = view[q]

(* A step of one replica leaves a good state if it does so there.           *)
LEMMA AloneGood ==
  ASSUME IInv, IInv', Good, NEW p \in Pods, Alone(p),
         Sound(pod'[p], view'[p], redis.seq, Floors(p)'),
         \A m \in Lacking(view'[p]) :
           \/ Covered(redis.buf, redis.seq, pod'[p], view'[p], m)
           \/ /\ m \in Lacking(view[p])
              /\ ~Covered(redis.buf, redis.seq, pod[p], view[p], m)
  PROVE  Good'
<1>1. redis' = redis
  BY DEF Alone
<1>2. Rising(redis'.buf) /\ UpTo(redis'.buf, redis'.seq)
  BY <1>1 DEF Good
<1>3. ASSUME NEW q \in Pods, q # p
      PROVE  Sound(pod'[q], view'[q], redis'.seq, Floors(q)')
  <2> DEFINE s == pod[q]
             v == view[q]
             r == redis.seq
             W == Floors(q)
             X == Floors(q)'
  <2>1. s \in Streams /\ v \in Views /\ r \in Nat /\ W \in SUBSET Nat
    BY PodAt, ViewAt, FloorsTyped DEF IInv, RedisOK
  <2>2. X \in SUBSET Nat
    <3>1. fell'[q].watermark \in Nat /\ recov'[q] \in SUBSET Nat
      BY DEF IInv, FellOK, RecovOK, Fells
    <3> QED
      BY <3>1 DEF Floors
  <2>3. Sound(s, v, r, W) /\ (~s.sub => Blank(v))
    BY SoundAt DEF Sound
  <2>4. Floored(W, X, r)
    <3>1. \A x \in W : x <= x
      BY <2>1
    <3> QED
      BY <3>1 DEF Floored, Alone
  <2>5. pod'[q] = s /\ view'[q] = v
    BY <1>3 DEF Alone
  <2> HIDE DEF s, v, r, W, X
  <2>6. Sound(s, v, r, X)
    BY <2>1, <2>2, <2>3, <2>4, SoundKept
  <2> QED
    BY <1>1, <2>5, <2>6 DEF r, X
<1>4. \A q \in Pods : Sound(pod'[q], view'[q], redis'.seq, Floors(q)')
  BY <1>1, <1>3
<1>5. Pending => Pending'
  BY DEF Pending, Alone
<1>6. ASSUME ~Pending', NEW q \in Pods, NEW m \in Lacking(view'[q])
      PROVE  Covered(redis'.buf, redis'.seq, pod'[q], view'[q], m)
  <2>1. \A a \in Pods : \A c \in Lacking(view[a]) :
          Covered(redis.buf, redis.seq, pod[a], view[a], c)
    BY <1>5, <1>6 DEF Good
  <2>2. CASE q = p
    BY <1>1, <2>1, <2>2
  <2>3. CASE q # p
    <3>1. pod'[q] = pod[q] /\ view'[q] = view[q]
      BY <2>3 DEF Alone
    <3> QED
      BY <1>1, <2>1, <3>1
  <2> QED
    BY <2>2, <2>3
<1>7. \A q \in Pods : fell'[q].retrying = None => ~fell'[q].renewed
  BY DEF Alone
<1>8. Pending' \/ \A q \in Pods : \A m \in Lacking(view'[q]) :
        Covered(redis'.buf, redis'.seq, pod'[q], view'[q], m)
  BY <1>6
<1> QED
  BY <1>2, <1>4, <1>7, <1>8 DEF Good

(* Such a step of a stream, with the markers as they are.                   *)
LEMMA StreamAlone ==
  ASSUME IInv, Good, NEW p \in Pods, UNCHANGED <<redis, fell, recov>>, NEW t, NEW v,
         pod' = [pod EXCEPT ![p] = t], view' = [view EXCEPT ![p] = v]
  PROVE  Alone(p) /\ pod'[p] = t /\ view'[p] = v /\ Floors(p)' = Floors(p)
<1>1. pod'[p] = t /\ view'[p] = v /\ \A q \in Pods : q # p => pod'[q] = pod[q] /\ view'[q] = view[q]
  BY DEF IInv, PodsOK, ViewOK
<1>2. \A q \in Pods : Floors(q)' = Floors(q)
  BY DEF Floors, Due
<1>3. \A q \in Pods : fell'[q].retrying = None => ~fell'[q].renewed
  BY RenewedAt
<1> QED
  BY <1>1, <1>2, <1>3 DEF Alone

(* The same for a step of its stream and its viewer.                        *)
LEMMA StreamGood ==
  ASSUME IInv, IInv', Good, NEW p \in Pods, UNCHANGED <<redis, fell, recov>>, NEW t, NEW v,
         pod' = [pod EXCEPT ![p] = t], view' = [view EXCEPT ![p] = v],
         Sound(t, v, redis.seq, Floors(p)),
         \A m \in Lacking(v) :
           /\ m \in Lacking(view[p])
           /\ Covered(redis.buf, redis.seq, pod[p], view[p], m)
                => Covered(redis.buf, redis.seq, t, v, m)
  PROVE  Good'
<1>1. Alone(p) /\ pod'[p] = t /\ view'[p] = v /\ Floors(p)' = Floors(p)
  BY StreamAlone
<1> QED
  BY <1>1, AloneGood

(* The view is kept.                                                        *)
LEMMA SameView ==
  ASSUME IInv, UNCHANGED view, NEW p \in Pods
  PROVE  view' = [view EXCEPT ![p] = view[p]]
BY DEF IInv, ViewOK

(* The stream is kept.                                                      *)
LEMMA SamePod ==
  ASSUME IInv, UNCHANGED pod, NEW p \in Pods
  PROVE  pod' = [pod EXCEPT ![p] = pod[p]]
BY DEF IInv, PodsOK

(* The end of a retry that forgets no newer fallback.                       *)
LEMMA RetryEndsGood ==
  ASSUME IInv, IInv', Good, NEW p \in Pods, RetryEnds(p), ~spent'.forgotten
  PROVE  Good'
<1> DEFINE f == [fell[p] EXCEPT !.retrying = None, !.renewed = FALSE]
           g == IF fell[p].retrying = fell[p].watermark THEN NoMarker ELSE f
<1>1. /\ UNCHANGED redis /\ UNCHANGED pod /\ UNCHANGED recov /\ UNCHANGED view
      /\ fell[p].retrying # None /\ fell' = [fell EXCEPT ![p] = g]
  BY DEF RetryEnds
<1>2. fell \in [Pods -> Fells] /\ fell[p] \in Fells
  BY FellAt DEF IInv, FellOK
<1>3. ~(fell[p].renewed /\ fell[p].retrying = fell[p].watermark)
  <2>1. spent'.forgotten =
          (spent.forgotten \/ (fell[p].renewed /\ fell[p].retrying = fell[p].watermark))
    BY DEF RetryEnds, IInv, SpentOK
  <2> QED
    BY <2>1
<1>4. f.on = fell[p].on /\ f.watermark = fell[p].watermark /\ f.retrying = None /\ f.renewed = FALSE
  BY <1>2 DEF Fells
<1> HIDE DEF f
<1>5. ~g.renewed /\ Due(fell[p]) => Due(g) /\ g.watermark = fell[p].watermark
  BY <1>1, <1>3, <1>4 DEF Due, NoMarker
<1>6. g.retrying = None => ~g.renewed
  BY <1>4 DEF NoMarker
<1>7. ~g.renewed
  BY <1>4 DEF NoMarker
<1> HIDE DEF g
<1>8. \A q \in Pods : fell'[q] = IF q = p THEN g ELSE fell[q]
  BY <1>1, <1>2
<1>9. ASSUME NEW q \in Pods
      PROVE  Floors(q) \subseteq Floors(q)'
  <2>1. CASE q = p
    <3>1. fell'[p] = g /\ recov'[p] = recov[p]
      BY <1>1, <1>8
    <3> QED
      BY <1>5, <1>7, <2>1, <3>1 DEF Floors
  <2>2. CASE q # p
    <3>1. fell'[q] = fell[q] /\ recov'[q] = recov[q]
      BY <1>1, <1>8, <2>2
    <3> QED
      BY <3>1, FloorsKept
  <2> QED
    BY <2>1, <2>2
<1>10. Alone(p)
  BY <1>1, <1>6, <1>8, <1>9, RenewedAt DEF Alone
<1>11. Sound(pod'[p], view'[p], redis.seq, Floors(p)')
  <2> DEFINE s == pod[p]
             v == view[p]
             r == redis.seq
             W == Floors(p)
             X == Floors(p)'
  <2>1. s \in Streams /\ v \in Views /\ r \in Nat /\ W \in SUBSET Nat
    BY PodAt, ViewAt, FloorsTyped DEF IInv, RedisOK
  <2>2. X \in SUBSET Nat
    <3>1. fell'[p].watermark \in Nat /\ recov'[p] \in SUBSET Nat
      BY DEF IInv, FellOK, RecovOK, Fells
    <3> QED
      BY <3>1 DEF Floors
  <2>3. Sound(s, v, r, W) /\ (~s.sub => Blank(v))
    BY SoundAt DEF Sound
  <2>4. Floored(W, X, r)
    <3>1. \A x \in W : x <= x
      BY <2>1
    <3> QED
      BY <1>9, <3>1 DEF Floored
  <2> HIDE DEF s, v, r, W, X
  <2>5. Sound(s, v, r, X)
    BY <2>1, <2>2, <2>3, <2>4, SoundKept
  <2> QED
    BY <1>1, <2>5 DEF s, v, r, X
<1>12. pod'[p] = pod[p] /\ view'[p] = view[p]
  BY <1>1
<1> QED
  BY <1>10, <1>11, <1>12, AloneGood

(* The counter is a number.                                                 *)
LEMMA SeqTyped == IInv => redis.seq \in Nat
BY DEF IInv, RedisOK

(* Nothing is said by an empty queue.                                       *)
LEMMA EmptyQueue ==
  /\ Rising(<<>>) /\ \A n : UpTo(<<>>, n)
  /\ \A k, m : Tells(<<>>, k, m)
BY DEF Rising, UpTo, Tells

(* A stream retired without a marker.                                       *)
LEMMA RetireGood ==
  ASSUME IInv, IInv', Good, NEW p \in Pods, Retire(p), ~spent'.forgotten
  PROVE  Good'
<1>1. /\ UNCHANGED redis /\ UNCHANGED recov /\ UNCHANGED view
      /\ pod' = [pod EXCEPT ![p] = NoStream] /\ fell' = [fell EXCEPT ![p] = NoMarker]
      /\ ~pod[p].sub
  BY DEF Retire
<1>2. ~fell[p].on
  <2>1. spent'.forgotten = (spent.forgotten \/ fell[p].on)
    BY DEF Retire, IInv, SpentOK
  <2> QED
    BY <2>1
<1>3. /\ fell'[p] = NoMarker /\ pod'[p] = NoStream
      /\ \A q \in Pods : q # p => fell'[q] = fell[q] /\ pod'[q] = pod[q]
  BY <1>1 DEF IInv, FellOK, PodsOK
<1>4. ~NoMarker.on /\ ~NoMarker.renewed
  BY DEF NoMarker
<1>5. Floors(p)' = Floors(p)
  BY <1>1, <1>2, <1>3, <1>4 DEF Floors, Due
<1>6. \A q \in Pods : Floors(q)' = Floors(q)
  <2>1. \A q \in Pods : q # p => Floors(q)' = Floors(q)
    BY <1>1, <1>3, FloorsKept
  <2> QED
    BY <1>5, <2>1
<1>7. Alone(p)
  BY <1>1, <1>3, <1>4, <1>6, RenewedAt DEF Alone
<1>8. Sound(NoStream, view[p], redis.seq, Floors(p))
  <2>1. Sound(pod[p], view[p], redis.seq, Floors(p)) /\ redis.seq \in Nat
    BY SoundAt, SeqTyped
  <2>2. pod[p].offset = 0 /\ Blank(view[p])
    BY <1>1, <2>1 DEF Sound
  <2>3. Below(Floors(p), Clock(view[p]), redis.seq)
    <3>1. Clock(view[p]) \in Clocks(pod[p], view[p])
      BY DEF Clocks
    <3>2. Below(Floors(p), Clock(view[p]), redis.seq + 0)
      BY <2>1, <2>2, <3>1 DEF Sound
    <3> QED
      BY <2>1, <3>2
  <2>4. /\ NoStream.live = <<>> /\ NoStream.ch = <<>> /\ NoStream.lastSeq = 0
        /\ NoStream.offset = 0 /\ NoStream.deaf /\ ~NoStream.ready /\ NoStream.nextSeq = 0
    BY DEF NoStream
  <2>5. Clocks(NoStream, view[p]) = {Clock(view[p])}
    BY <2>4 DEF Clocks
  <2>6. Below(Floors(p), 0, redis.seq) /\ 0 <= redis.seq + 0
    BY <2>1 DEF Below
  <2>7. redis.seq + 0 = redis.seq
    BY <2>1
  <2> HIDE DEF NoStream
  <2> QED
    BY <2>2, <2>3, <2>4, <2>5, <2>6, <2>7, EmptyQueue DEF Sound
<1>9. view'[p] = view[p] /\ Lacking(view[p]) = {}
  BY <1>1, SoundAt DEF Sound, Blank, Lacking
<1> QED
  BY <1>3, <1>5, <1>7, <1>8, <1>9, AloneGood

(* A subscriber to whom nothing was handed yet.                             *)
LEMMA StreamFresh ==
  ASSUME NEW t, NEW w, NEW r \in Nat, NEW W, Rising(t.live), UpTo(t.live, r),
         t.pump \in {"off", "dial"} => t.deaf, Below(W, t.nextSeq, r),
         Clock(w) = 0, ~t.ready, t.lastSeq = 0, t.offset = 0, t.ch = <<>>,
         ~t.sub => Blank(w)
  PROVE  Sound(t, w, r, W)
<1>1. Clocks(t, w) = {0}
  BY DEF Clocks
<1>2. Below(W, 0, r + 0) /\ 0 <= r + 0
  BY DEF Below
<1> QED
  BY <1>1, <1>2 DEF Sound

(* Subscribe: the viewer asks for the stored state first.                   *)
LEMMA SubscribeGood ==
  ASSUME IInv, IInv', Good, NEW p \in Pods, Subscribe(p)
  PROVE  Good'
<1> DEFINE s == IF pod[p].alive THEN pod[p]
                ELSE [NoStream EXCEPT !.alive = TRUE, !.pump = "dial"]
           t == [s EXCEPT !.sub = TRUE, !.ready = FALSE, !.lastSeq = 0, !.offset = 0,
                          !.ch = <<>>, !.wake = TRUE]
           v == [NoView EXCEPT !.missing = Msgs \ todo, !.asked = TRUE, !.before = view[p].before]
           W == Floors(p)
           r == redis.seq
<1>1. /\ pod' = [pod EXCEPT ![p] = t] /\ view' = [view EXCEPT ![p] = v]
      /\ UNCHANGED <<redis, fell, recov>>
  BY DEF Subscribe
<1>2. Clock(v) = 0 /\ Excused(v)
  BY DEF NoView, Clock, Highest, Excused
<1>3. r \in Nat
  BY SeqTyped
<1>4. /\ s \in Streams /\ Rising(s.live) /\ UpTo(s.live, r) /\ Below(W, s.nextSeq, r)
      /\ s.pump \in {"off", "dial"} => s.deaf
  <2>1. CASE pod[p].alive
    <3>1. s = pod[p]
      BY <2>1
    <3> HIDE DEF s
    <3> QED
      BY <3>1, PodAt, SoundAt DEF Sound
  <2>2. CASE ~pod[p].alive
    <3>1. s \in Streams
      BY <2>2, FreshStream DEF Streams, Pumps
    <3>2. s.live = <<>> /\ s.deaf /\ s.nextSeq = 0
      BY <2>2 DEF NoStream
    <3> HIDE DEF s
    <3>3. Below(W, 0, r)
      BY <1>3 DEF Below
    <3> QED
      BY <3>1, <3>2, <3>3, EmptyQueue
  <2> QED
    BY <2>1, <2>2
<1> HIDE DEF s, v, W, r
<1>5. /\ t.live = s.live /\ t.pump = s.pump /\ t.deaf = s.deaf /\ t.nextSeq = s.nextSeq
      /\ ~t.ready /\ t.lastSeq = 0 /\ t.offset = 0 /\ t.ch = <<>> /\ t.sub
  BY <1>4 DEF Streams
<1> HIDE DEF t
<1>6. Sound(t, v, r, W)
  BY <1>2, <1>3, <1>4, <1>5, StreamFresh
<1>7. Alone(p) /\ pod'[p] = t /\ view'[p] = v /\ Floors(p)' = Floors(p)
  BY <1>1, StreamAlone
<1>8. Sound(pod'[p], view'[p], redis.seq, Floors(p)')
  BY <1>6, <1>7 DEF r, W
<1>9. Excused(view'[p])
  BY <1>2, <1>7
<1> QED
  BY <1>7, <1>8, <1>9, AloneGood DEF Covered

(* Unsubscribe.                                                             *)
LEMMA UnsubscribeGood ==
  ASSUME IInv, IInv', Good, NEW p \in Pods, Unsubscribe(p)
  PROVE  Good'
<1> DEFINE t == [pod[p] EXCEPT !.sub = FALSE, !.ready = FALSE, !.lastSeq = 0, !.offset = 0,
                               !.ch = <<>>]
           v == [NoView EXCEPT !.before = view[p].before]
<1>1. /\ pod' = [pod EXCEPT ![p] = t] /\ view' = [view EXCEPT ![p] = v]
      /\ UNCHANGED <<redis, fell, recov>>
  <2>1. pod \in [Pods -> Streams]
    BY DEF IInv, PodsOK
  <2> QED
    BY <2>1 DEF Unsubscribe
<1>2. Clock(v) = 0 /\ Blank(v) /\ Lacking(v) = {}
  BY DEF NoView, Clock, Highest, Blank, Lacking
<1> HIDE DEF v
<1>3. /\ t.live = pod[p].live /\ t.pump = pod[p].pump /\ t.deaf = pod[p].deaf
      /\ t.nextSeq = pod[p].nextSeq /\ ~t.ready /\ t.lastSeq = 0 /\ t.offset = 0 /\ t.ch = <<>>
  BY PodAt DEF Streams
<1> HIDE DEF t
<1>4. Sound(pod[p], view[p], redis.seq, Floors(p)) /\ redis.seq \in Nat
  BY SoundAt, SeqTyped
<1>5. /\ Rising(t.live) /\ UpTo(t.live, redis.seq) /\ Below(Floors(p), t.nextSeq, redis.seq)
      /\ t.pump \in {"off", "dial"} => t.deaf
  BY <1>3, <1>4 DEF Sound
<1>6. Sound(t, v, redis.seq, Floors(p))
  BY <1>2, <1>3, <1>4, <1>5, StreamFresh
<1> QED
  BY <1>1, <1>2, <1>6, StreamGood

(* A viewer's coming event stays on its way.                                *)
LEMMA ComingKept ==
  ASSUME NEW s, NEW t, NEW v, NEW w, NEW b, NEW r, NEW m, Coming(b, r, s, v, m),
         t.lastSeq = s.lastSeq, t.offset = s.offset, Clocks(t, w) \subseteq Clocks(s, v),
         \/ t.live = s.live /\ t.deaf = s.deaf
         \/ t.live = <<>> /\ t.deaf
  PROVE  Coming(b, r, t, w, m)
<1>1. PICK k \in 1..r : /\ Ahead(s, v, k) /\ Logged(b, k)
                        /\ Tells(b, k, m) /\ Tells(s.live, k, m) /\ Heard(s, k)
  BY DEF Coming
<1>2. Ahead(t, w, k)
  BY <1>1 DEF Ahead, Above
<1>3. Tells(t.live, k, m) /\ Heard(t, k)
  BY <1>1, EmptyQueue DEF Heard
<1> QED
  BY <1>1, <1>2, <1>3 DEF Coming

(* What told the viewer of m still does.                                    *)
LEMMA SameCovers ==
  ASSUME NEW s, NEW t, NEW v, NEW b, NEW r, NEW m, Covered(b, r, s, v, m),
         t.lastSeq = s.lastSeq, t.offset = s.offset, t.ch = s.ch,
         \/ t.live = s.live /\ t.deaf = s.deaf
         \/ t.live = <<>> /\ t.deaf
  PROVE  Covered(b, r, t, v, m)
<1>1. Clocks(t, v) \subseteq Clocks(s, v)
  BY DEF Clocks
<1>2. Coming(b, r, s, v, m) => Coming(b, r, t, v, m)
  BY <1>1, ComingKept
<1>3. InChannel(s, v, m) => InChannel(t, v, m)
  BY DEF InChannel
<1> QED
  BY <1>2, <1>3 DEF Covered

(* The pump moved on, without touching what was delivered.                  *)
LEMMA PumpGood ==
  ASSUME IInv, IInv', Good, NEW p \in Pods, UNCHANGED <<redis, fell, recov>>, UNCHANGED view, NEW t,
         pod' = [pod EXCEPT ![p] = t],
         t.lastSeq = pod[p].lastSeq, t.offset = pod[p].offset, t.ch = pod[p].ch,
         t.nextSeq = pod[p].nextSeq, t.sub = pod[p].sub,
         ~pod[p].sub => ~t.ready, pod[p].ready => t.ready,
         t.pump \in {"off", "dial"} => t.deaf,
         \/ t.live = pod[p].live /\ t.deaf = pod[p].deaf
         \/ t.live = <<>> /\ t.deaf
  PROVE  Good'
<1>1. Sound(pod[p], view[p], redis.seq, Floors(p))
  BY SoundAt
<1>2. Clocks(t, view[p]) = Clocks(pod[p], view[p])
  BY DEF Clocks
<1>3. Rising(t.live) /\ UpTo(t.live, redis.seq)
  BY <1>1, EmptyQueue DEF Sound
<1>4. Sound(t, view[p], redis.seq, Floors(p))
  BY <1>1, <1>2, <1>3 DEF Sound
<1>5. view' = [view EXCEPT ![p] = view[p]]
  BY SameView
<1>6. \A m : Covered(redis.buf, redis.seq, pod[p], view[p], m)
               => Covered(redis.buf, redis.seq, t, view[p], m)
  BY SameCovers
<1> QED
  BY <1>4, <1>5, <1>6, StreamGood

(* The pump subscribes.                                                     *)
LEMMA PumpSubscribeGood ==
  ASSUME IInv, IInv', Good, NEW p \in Pods, PumpSubscribe(p)
  PROVE  Good'
<1> DEFINE t == [pod[p] EXCEPT !.pump = "subscribed"]
<1>1. /\ pod' = [pod EXCEPT ![p] = t] /\ UNCHANGED <<redis, fell, recov>> /\ UNCHANGED view
  BY DEF PumpSubscribe
<1>2. /\ t.lastSeq = pod[p].lastSeq /\ t.offset = pod[p].offset /\ t.ch = pod[p].ch
      /\ t.nextSeq = pod[p].nextSeq /\ t.sub = pod[p].sub /\ t.ready = pod[p].ready
      /\ t.live = pod[p].live /\ t.deaf = pod[p].deaf /\ t.pump = "subscribed"
  BY PodAt DEF Streams
<1> HIDE DEF t
<1>3. ~pod[p].sub => ~pod[p].ready
  BY SoundAt DEF Sound
<1> QED
  BY <1>1, <1>2, <1>3, PumpGood

(* The pump's catch-up fails.                                               *)
LEMMA PumpCatchUpFailsGood ==
  ASSUME IInv, IInv', Good, NEW p \in Pods, PumpCatchUpFails(p)
  PROVE  Good'
<1> DEFINE b == pod[p].pump = "subscribed" /\ pod[p].wake
           r == pod[p].sub
           t == [pod[p] EXCEPT !.pump = "live", !.ready = r, !.wake = b]
<1>1. /\ pod' = [pod EXCEPT ![p] = t] /\ UNCHANGED <<redis, fell, recov>> /\ UNCHANGED view
  <2>1. pod \in [Pods -> Streams]
    BY DEF IInv, PodsOK
  <2> QED
    BY <2>1 DEF PumpCatchUpFails, CatchUpDue
<1> HIDE DEF b, r
<1>2. /\ t.lastSeq = pod[p].lastSeq /\ t.offset = pod[p].offset /\ t.ch = pod[p].ch
      /\ t.nextSeq = pod[p].nextSeq /\ t.sub = pod[p].sub /\ t.ready = r
      /\ t.live = pod[p].live /\ t.deaf = pod[p].deaf /\ t.pump = "live"
  BY PodAt DEF Streams
<1> HIDE DEF t
<1>3. ~pod[p].sub => ~pod[p].ready
  BY SoundAt DEF Sound
<1>4. (~pod[p].sub => ~t.ready) /\ (pod[p].ready => t.ready)
  BY <1>2, <1>3 DEF r
<1> QED
  BY <1>1, <1>2, <1>4, PumpGood

(* The pump reconnects, and is deaf until it has caught up.                 *)
LEMMA PumpReconnectsGood ==
  ASSUME IInv, IInv', Good, NEW p \in Pods, PumpReconnects(p)
  PROVE  Good'
<1> DEFINE t == [pod[p] EXCEPT !.pump = "dial", !.live = <<>>, !.deaf = TRUE]
<1>1. /\ pod' = [pod EXCEPT ![p] = t] /\ UNCHANGED <<redis, fell, recov>> /\ UNCHANGED view
  <2>1. pod \in [Pods -> Streams]
    BY DEF IInv, PodsOK
  <2> QED
    BY <2>1 DEF PumpReconnects
<1>2. /\ t.lastSeq = pod[p].lastSeq /\ t.offset = pod[p].offset /\ t.ch = pod[p].ch
      /\ t.nextSeq = pod[p].nextSeq /\ t.sub = pod[p].sub /\ t.ready = pod[p].ready
      /\ t.live = <<>> /\ t.deaf
  BY PodAt DEF Streams
<1> HIDE DEF t
<1>3. ~pod[p].sub => ~pod[p].ready
  BY SoundAt DEF Sound
<1> QED
  BY <1>1, <1>2, <1>3, PumpGood

(* The viewer receives: what it takes up is what it lacked, or a marker.    *)
LEMMA ReceiveGood ==
  ASSUME IInv, IInv', Good, NEW p \in Pods, Receive(p)
  PROVE  Good'
<1> DEFINE s == pod[p]
           v == view[p]
           e == Head(s.ch)
           q == Tail(s.ch)
           t == [s EXCEPT !.ch = q]
           r == redis.seq
           W == Floors(p)
<1>1. /\ s.ch # <<>> /\ pod' = [pod EXCEPT ![p] = t] /\ UNCHANGED <<redis, fell, recov>>
  BY DEF Receive
<1>2. /\ s \in Streams /\ v \in Views /\ s.ch \in Seq(Events) /\ v.last \in Nat /\ s.lastSeq \in Nat
      /\ v.upto \in Nat /\ v.before \in BOOLEAN /\ Answerable(v) /\ Clock(v) \in Nat
      /\ Sound(s, v, r, W) /\ r \in Nat
  <2>1. v \in Views /\ Answerable(v)
    BY ViewAt
  <2> QED
    BY <2>1, PodAt, SoundAt, SeqTyped, ClockTyped DEF Streams, Views
<1>3. /\ e = s.ch[1] /\ e \in Events /\ q \in Seq(Events) /\ Len(s.ch) \in Nat /\ Len(s.ch) >= 1
      /\ \A i \in 1..Len(q) : q[i] = s.ch[i + 1] /\ i + 1 \in 1..Len(s.ch)
  BY <1>1, <1>2
<1>4. e.seq \in Nat /\ 1 \in 1..Len(s.ch)
  BY <1>3, EventSeq
<1>5. PICK within \in BOOLEAN : view' = [view EXCEPT ![p] = Received(v, e, within)]
  BY <1>2 DEF Receive
<1> DEFINE w == Received(v, e, within)
<1>6. view' = [view EXCEPT ![p] = w]
  BY <1>5
<1>7. Handed(v, e, w)
  <2> HIDE DEF e, v
  <2> QED
    BY <1>2, <1>3, ReceivedIs, Zenon
<1> HIDE DEF s, v, e, q, r, W, w
<1>8. /\ t.lastSeq = s.lastSeq /\ t.offset = s.offset /\ t.ch = q /\ t.nextSeq = s.nextSeq
      /\ t.sub = s.sub /\ t.ready = s.ready /\ t.live = s.live /\ t.deaf = s.deaf /\ t.pump = s.pump
  BY <1>2 DEF Streams
<1> HIDE DEF t
<1>9. Clock(w) \in {Clock(v), e.seq} /\ v.last <= Clock(v)
  BY <1>2, <1>4, <1>7 DEF Handed, Clock, Highest
<1>10. Lacking(w) \subseteq Lacking(v) /\ (Blank(v) => Blank(w))
  <2>1. w.missing \subseteq v.missing /\ w.since = v.since /\ w.reply = v.reply
    BY <1>7 DEF Handed
  <2> QED
    BY <2>1 DEF Lacking, Blank
<1>11. Excused(v) => Excused(w)
  <2>1. (v.asked => w.asked) /\ w.reply = v.reply /\ v.lost \subseteq w.lost
    BY <1>7 DEF Handed
  <2> QED
    BY <2>1 DEF Excused
<1>12. ASSUME v.last < e.seq, NEW m \in Lacking(w), e.msg \in {m, Resync}
       PROVE  Excused(w)
  <2>1. e.seq > v.last /\ ~(e.seq <= v.last) /\ m \in Lacking(v)
    BY <1>2, <1>4, <1>10, <1>12
  <2>2. CASE e.msg = Resync
    <3>1. w.asked \/ w.lost # {}
      BY <1>7, <2>1, <2>2 DEF Handed
    <3> QED
      BY <3>1 DEF Excused
  <2>3. CASE e.msg = m
    <3>1. m \notin w.missing /\ w.since = v.since /\ w.reply = v.reply
      BY <1>7, <2>1, <2>3 DEF Handed
    <3>2. m \in v.since
      BY <1>12, <3>1 DEF Lacking
    <3>3. w.lost # {}
      BY <1>7, <2>1, <2>3, <3>2 DEF Handed
    <3> QED
      BY <3>3 DEF Excused
  <2> QED
    BY <1>12, <2>2, <2>3
<1>13. Clocks(t, w) \subseteq Clocks(s, v)
  <2>1. e.seq \in Clocks(s, v) /\ Clock(v) \in Clocks(s, v)
    BY <1>3, <1>4 DEF Clocks
  <2>2. \A i \in 1..Len(t.ch) : t.ch[i].seq \in Clocks(s, v)
    BY <1>3, <1>8 DEF Clocks
  <2> QED
    BY <1>9, <2>1, <2>2 DEF Clocks
<1>14. Sound(t, w, r, W)
  BY <1>2, <1>8, <1>10, <1>13 DEF Sound
<1>15. ASSUME NEW m \in Lacking(w), Covered(redis.buf, r, s, v, m)
       PROVE  Covered(redis.buf, r, t, w, m)
  <2>1. CASE Excused(v)
    BY <1>11, <2>1 DEF Covered
  <2>2. CASE Coming(redis.buf, r, s, v, m)
    <3>1. Coming(redis.buf, r, t, w, m)
      BY <1>8, <1>13, <2>2, ComingKept
    <3> QED
      BY <3>1 DEF Covered
  <2>3. CASE InChannel(s, v, m)
    <3>1. UpTo(s.ch, s.lastSeq) /\ Promises(s.ch, Clock(v), m)
      BY <2>3 DEF InChannel
    <3>2. UpTo(q, s.lastSeq)
      BY <1>3, <3>1 DEF UpTo
    <3>3. \/ e.seq > Clock(v) /\ e.msg \in {m, Resync}
          \/ Promises(q, Clock(v), m) /\ Promises(q, e.seq, m)
      BY <1>1, <1>2, <1>3, <3>1, TailPromises DEF q
    <3>4. CASE e.seq > Clock(v) /\ e.msg \in {m, Resync}
      <4>1. v.last < e.seq
        BY <1>2, <1>4, <1>9, <3>4
      <4>2. Excused(w)
        BY <1>12, <1>15, <3>4, <4>1
      <4> QED
        BY <4>2 DEF Covered
    <3>5. CASE Promises(q, Clock(v), m) /\ Promises(q, e.seq, m)
      <4>1. InChannel(t, w, m)
        BY <1>8, <1>9, <3>2, <3>5 DEF InChannel
      <4> QED
        BY <4>1 DEF Covered
    <3> QED
      BY <3>3, <3>4, <3>5
  <2> QED
    BY <1>15, <2>1, <2>2, <2>3 DEF Covered
<1>16. \A m \in Lacking(w) : m \in Lacking(v)
  BY <1>10
<1> QED
  BY <1>1, <1>6, <1>14, <1>15, <1>16, StreamGood DEF s, v, r, W

(* The viewer asks, or its request is answered or fails.                    *)
LEMMA ViewerStepGood ==
  ASSUME IInv, IInv', Good, NEW p \in Pods, ViewerStep(p)
  PROVE  Good'
<1> DEFINE s == pod[p]
           v == view[p]
           r == redis.seq
           W == Floors(p)
<1>1. PICK w \in Views :
        /\ view' = [view EXCEPT ![p] = w]
        /\ w.missing \subseteq v.missing \cup v.since /\ w.since \subseteq v.since
        /\ \/ Excused(w) \/ Lacking(w) = {}
           \/ /\ Lacking(w) = Lacking(v) /\ Clock(w) = Clock(v)
              /\ Excused(v) => Excused(w)
        /\ Clock(w) \in {Clock(v), r, s.nextSeq}
  BY ViewerStepIs
<1>2. pod' = [pod EXCEPT ![p] = s] /\ UNCHANGED redis /\ UNCHANGED fell /\ UNCHANGED recov
  BY ViewerStepLeaves, SamePod
<1>3. /\ s \in Streams /\ v \in Views /\ s.offset \in Nat /\ s.nextSeq \in Nat
      /\ Sound(s, v, r, W) /\ r \in Nat
  BY PodAt, ViewAt, SoundAt, SeqTyped DEF Streams
<1> HIDE DEF s, v, r, W
<1>4. Clocks(s, w) \subseteq Clocks(s, v) \cup {r, s.nextSeq}
  BY <1>1 DEF Clocks
<1>5. Below(W, r, r + s.offset) /\ Below(W, s.nextSeq, r + s.offset)
  BY <1>3 DEF Below, Sound
<1>6. Blank(v) => Blank(w)
  BY <1>1 DEF Blank
<1>7. Sound(s, w, r, W)
  BY <1>3, <1>4, <1>5, <1>6 DEF Sound
<1>8. Alone(p) /\ pod'[p] = s /\ view'[p] = w /\ Floors(p)' = Floors(p)
  BY <1>1, <1>2, StreamAlone
<1>9. ASSUME NEW m \in Lacking(w)
      PROVE  \/ Covered(redis.buf, r, s, w, m)
             \/ m \in Lacking(v) /\ ~Covered(redis.buf, r, s, v, m)
  <2>1. CASE Excused(w)
    BY <2>1 DEF Covered
  <2>2. CASE /\ Lacking(w) = Lacking(v) /\ Clock(w) = Clock(v)
             /\ Excused(v) => Excused(w)
    <3>1. InChannel(s, v, m) => InChannel(s, w, m)
      BY <2>2 DEF InChannel
    <3>2. Clocks(s, w) = Clocks(s, v)
      BY <2>2 DEF Clocks
    <3>3. Coming(redis.buf, r, s, v, m) => Coming(redis.buf, r, s, w, m)
      BY <3>2, ComingKept
    <3> QED
      BY <1>9, <2>2, <3>1, <3>3 DEF Covered
  <2> QED
    BY <1>1, <1>9, <2>1, <2>2
<1> QED
  BY <1>7, <1>8, <1>9, AloneGood DEF s, v, r, W

(* An event still ahead when the pump delivers.                             *)
LEMMA DeliverCovers ==
  ASSUME NEW s, NEW t, NEW u, NEW e \in Events, Bounded(s), s.live # <<>>, e = Head(s.live),
         u = Delivered(s, e), Rising(s.live), NEW r \in Nat, UpTo(s.live, r),
         t.lastSeq = u.lastSeq, t.offset = u.offset, t.ch = u.ch, t.live = Tail(s.live),
         t.deaf = (s.deaf \/ (~s.ready /\ Len(s.live) = 1)),
         NEW v \in Views, NEW b, NEW m, s.sub, Covered(b, r, s, v, m)
  PROVE  Covered(b, r, t, v, m)
<1> DEFINE q == Tail(s.live)
<1>1. /\ s \in Streams /\ s.live \in Seq(Events) /\ e = s.live[1] /\ 1 \in 1..Len(s.live)
      /\ Len(s.live) \in Nat /\ Len(q) = Len(s.live) - 1 /\ e.seq \in Nat
      /\ q # <<>> => 1 \in 1..Len(q)
  <2>1. s \in Streams /\ s.live \in Seq(Events)
    BY DEF Bounded, Streams
  <2> QED
    BY <2>1, EventSeq
<1>2. /\ \A k, a : Tells(s.live, k, a) => Tells(q, k, a)
      /\ \A k : Has(s.live, k) => Has(q, k) \/ k = e.seq
      /\ q # <<>> => e.seq < q[1].seq
  BY <1>1, TailTells
<1>6. Len(s.live) # 1 => Len(q) >= 1
  <2>1. \A a, c \in Nat : a # 1 /\ a >= 1 /\ c = a - 1 => c >= 1
    OBVIOUS
  <2>2. Len(s.live) \in Nat /\ Len(q) = Len(s.live) - 1 /\ Len(s.live) >= 1 /\ Len(q) \in Nat
    BY <1>1
  <2> HIDE DEF q
  <2> QED
    BY <2>1, <2>2
<1> HIDE DEF q
<1>7. Len(s.live) # 1 => q # <<>>
  <2>1. q = <<>> => Len(q) = 0
    OBVIOUS
  <2> QED
    BY <1>6, <2>1
<1>3. CASE Excused(v)
  BY <1>3 DEF Covered
<1>4. CASE InChannel(s, v, m)
  <2>1. InChannel(u, v, m)
    <3>1. \A a : InChannel(s, v, a) => InChannel(Delivered(s, e), v, a)
      BY DeliveredTells
    <3> QED
      BY <1>4, <3>1
  <2> QED
    BY <2>1 DEF Covered, InChannel
<1>5. CASE Coming(b, r, s, v, m)
  <2>1. PICK k \in 1..r : /\ Ahead(s, v, k) /\ Logged(b, k)
                          /\ Tells(b, k, m) /\ Tells(s.live, k, m) /\ Heard(s, k)
    BY <1>5 DEF Coming
  <2>2. /\ Ahead(s, v, k) /\ e.seq < k => Ahead(u, v, k)
        /\ s.ready /\ k <= e.seq => InChannel(u, v, m)
    <3>1. e.seq = k => e.msg \in {m, Resync}
      BY <1>1, <2>1 DEF Tells
    <3>2. k \in Nat
      BY <2>1
    <3>3. \A a : /\ Ahead(s, v, k) /\ e.seq < k => Ahead(Delivered(s, e), v, k)
                 /\ /\ s.sub /\ s.ready /\ Ahead(s, v, k) /\ k <= e.seq
                    /\ e.seq = k => e.msg \in {a, Resync}
                    => InChannel(Delivered(s, e), v, a)
      BY <3>2, DeliveredTells
    <3> QED
      BY <2>1, <3>1, <3>3
  <2>3. ASSUME Ahead(u, v, k), Heard(t, k)
        PROVE  Covered(b, r, t, v, m)
    <3>1. Ahead(t, v, k)
      BY <2>3 DEF Ahead, Above, Clocks
    <3>2. Tells(t.live, k, m)
      BY <1>2, <2>1 DEF q
    <3> QED
      BY <2>1, <2>3, <3>1, <3>2 DEF Covered, Coming
  <2>4. CASE e.seq < k
    <3>1. Heard(t, k)
      <4>1. CASE s.deaf
        BY <4>1 DEF Heard
      <4>2. CASE \E i \in 1..Len(s.live) : s.live[i].seq >= k
        <5>1. PICK i \in 1..Len(s.live) : s.live[i].seq >= k
          BY <4>2
        <5>2. s.live[i].seq \in Nat /\ k \in Nat
          BY <1>1, EventSeq
        <5>3. Has(s.live, s.live[i].seq)
          BY DEF Has
        <5>4. s.live[i].seq # e.seq
          BY <1>1, <2>4, <5>1, <5>2
        <5>5. Has(q, s.live[i].seq)
          BY <1>2, <5>3, <5>4
        <5> QED
          BY <5>1, <5>5 DEF Heard, Has, q
      <4> QED
        BY <2>1, <4>1, <4>2 DEF Heard
    <3> QED
      BY <2>1, <2>2, <2>3, <2>4, <3>1
  <2>5. CASE ~(e.seq < k) /\ s.ready
    <3>1. InChannel(u, v, m)
      BY <1>1, <2>2, <2>5
    <3> QED
      BY <3>1 DEF Covered, InChannel
  <2>6. CASE ~(e.seq < k) /\ ~s.ready
    <3>1. u = s
      BY <2>6 DEF Delivered
    <3>2. Heard(t, k)
      <4>1. CASE Len(s.live) = 1
        BY <2>6, <4>1 DEF Heard
      <4>2. CASE Len(s.live) # 1
        <5>1. q # <<>>
          BY <1>7, <4>2
        <5>2. q[1].seq \in Nat
          <6>1. q \in Seq(Events)
            BY <1>1 DEF q
          <6> QED
            BY <1>1, <5>1, <6>1, EventSeq
        <5>3. q[1].seq >= k
          BY <1>1, <1>2, <2>6, <5>1, <5>2
        <5> QED
          BY <1>1, <5>1, <5>3 DEF Heard, q
      <4> QED
        BY <4>1, <4>2
    <3> QED
      BY <2>1, <2>3, <3>1, <3>2
  <2> QED
    BY <2>4, <2>5, <2>6
<1> QED
  BY <1>3, <1>4, <1>5 DEF Covered

(* The pump delivers.                                                       *)
LEMMA PumpDeliverGood ==
  ASSUME IInv, IInv', Good, NEW p \in Pods, PumpDeliver(p)
  PROVE  Good'
<1> DEFINE s == pod[p]
           v == view[p]
           r == redis.seq
           W == Floors(p)
           e == Head(s.live)
           u == Delivered(s, e)
           q == Tail(s.live)
           d == s.deaf \/ (~s.ready /\ Len(s.live) = 1)
           t == [u EXCEPT !.live = q, !.deaf = d]
<1>1. /\ s \in Streams /\ Bounded(s) /\ v \in Views /\ Sound(s, v, r, W) /\ r \in Nat
      /\ s.live \in Seq(Events) /\ s.offset \in Nat /\ s.deaf \in BOOLEAN
  <2>1. s \in Streams /\ Bounded(s) /\ v \in Views /\ Sound(s, v, r, W) /\ r \in Nat
    BY PodAt, ViewAt, SoundAt, SeqTyped
  <2> QED
    BY <2>1 DEF Streams
<1>2. s.pump = "live" /\ s.live # <<>> /\ UNCHANGED <<redis, fell, recov>> /\ UNCHANGED view
  BY DEF PumpDeliver
<1>3. e \in Events /\ e.seq \in Nat /\ e.seq <= r
  <2>1. e = s.live[1] /\ 1 \in 1..Len(s.live) /\ e \in Events
    BY <1>1, <1>2
  <2> QED
    BY <1>1, <2>1, EventSeq DEF Sound, UpTo
<1>4. u \in Streams /\ u.live = s.live
  BY <1>1, <1>3, DeliveredKeeps, DeliveredLive DEF Keeps, Bounded
<1>5. /\ Same(s, u) /\ s.offset <= u.offset
      /\ u.lastSeq <= r + u.offset
      /\ \A x \in Clocks(u, v) : x \in Clocks(s, v) \/ x <= r + u.offset
  <2>1. s.lastSeq <= r + s.offset
    BY <1>1 DEF Sound
  <2>2. /\ Same(s, u) /\ s.offset <= u.offset
        /\ \A n \in Nat : e.seq <= n /\ s.lastSeq <= n + s.offset =>
             /\ u.lastSeq <= n + u.offset
             /\ \A x \in Clocks(u, v) : x \in Clocks(s, v) \/ x <= n + u.offset
    BY <1>1, <1>3, DeliveredTells
  <2> QED
    BY <1>1, <1>3, <2>1, <2>2
<1>6. pod' = [pod EXCEPT ![p] = t]
  <2>1. u.deaf = s.deaf
    BY <1>5 DEF Same
  <2>2. pod' = [pod EXCEPT ![p] = [u EXCEPT !.live = Tail(u.live),
                                     !.deaf = u.deaf \/ (~s.ready /\ Len(s.live) = 1)]]
    BY DEF PumpDeliver
  <2> QED
    BY <1>4, <2>1, <2>2
<1>7. ~s.ready => u = s
  BY DEF Delivered
<1>8. q \in Seq(Events) /\ d \in BOOLEAN /\ Rising(q) /\ UpTo(q, r)
  <2>1. q \in Seq(Events) /\ Rising(q) /\ UpTo(q, r)
    BY <1>1, <1>2, TailTells DEF Sound
  <2> QED
    BY <1>1, <2>1
<1> HIDE DEF s, v, r, W, e, u, q, d
<1>9. /\ t.sub = s.sub /\ t.ready = s.ready /\ t.nextSeq = s.nextSeq /\ t.pump = s.pump
      /\ t.lastSeq = u.lastSeq /\ t.offset = u.offset /\ t.ch = u.ch
      /\ t.live = q /\ t.deaf = d
  BY <1>4, <1>5 DEF Streams, Same
<1> HIDE DEF t
<1>10. \A x \in Clocks(t, v) : Below(W, x, r + t.offset)
  <2> SUFFICES ASSUME NEW x \in Clocks(t, v)
               PROVE  Below(W, x, r + t.offset)
    OBVIOUS
  <2>1. x \in Clocks(u, v)
    BY <1>9 DEF Clocks
  <2>2. x \in Nat /\ u.offset \in Nat
    BY <1>1, <1>4, <2>1, ClocksTyped DEF Streams
  <2>3. CASE x <= r + u.offset
    BY <1>9, <2>3 DEF Below
  <2>4. CASE x \in Clocks(s, v)
    <3>1. Below(W, x, r + s.offset)
      BY <1>1, <2>4 DEF Sound
    <3>2. CASE x <= r + s.offset
      <4>1. x <= r + u.offset
        BY <1>1, <1>5, <2>2, <3>2
      <4> QED
        BY <1>9, <4>1 DEF Below
    <3>3. CASE \E w \in W : x <= w
      BY <3>3 DEF Below
    <3> QED
      BY <3>1, <3>2, <3>3 DEF Below
  <2> QED
    BY <1>5, <2>1, <2>3, <2>4
<1>11. Sound(t, v, r, W)
  BY <1>1, <1>2, <1>5, <1>7, <1>8, <1>9, <1>10 DEF Sound
<1>12. ASSUME NEW m \in Lacking(v), Covered(redis.buf, r, s, v, m)
       PROVE  Covered(redis.buf, r, t, v, m)
  <2>1. s.sub
    BY <1>1, <1>12 DEF Sound, Blank, Lacking
  <2>2. Rising(s.live) /\ UpTo(s.live, r)
    BY <1>1 DEF Sound
  <2> QED
    BY <1>1, <1>2, <1>3, <1>9, <1>12, <2>1, <2>2, DeliverCovers DEF e, u, q, d
<1>13. view' = [view EXCEPT ![p] = v]
  BY <1>2, SameView DEF v
<1> QED
  BY <1>2, <1>6, <1>11, <1>12, <1>13, StreamGood DEF s, v, r, W

(* What the catch-up hands out, or the viewer is told that it was cut.      *)
LEMMA CatchUpCovers ==
  ASSUME IInv, Good, NEW p \in Pods, NEW t, NEW u, NEW m,
         \A k \in Nat : ReplayTells(pod[p], u, redis.buf, view[p], m, k),
         pod[p].sub, t.lastSeq = u.lastSeq, t.ch = u.ch,
         NEW w, Clock(w) = Clock(view[p]), Excused(view[p]) \/ CutShort(p) => Excused(w),
         Covered(redis.buf, redis.seq, pod[p], view[p], m)
  PROVE  Covered(redis.buf, redis.seq, t, w, m)
<1> DEFINE s == pod[p]
           v == view[p]
           b == redis.buf
           r == redis.seq
<1>1. /\ s \in Streams /\ Bounded(s) /\ v \in Views /\ Sound(s, v, r, Floors(p))
      /\ Clock(v) \in Nat /\ b \in Seq(Events) /\ Rising(b)
  BY PodAt, ViewAt, SoundAt, ClockTyped DEF IInv, RedisOK, Good
<1>2. /\ s.lastSeq \in Nat /\ s.offset \in Nat /\ Clocks(s, v) \subseteq Nat
      /\ Clock(v) \in Clocks(s, v)
  BY <1>1, ClocksTyped DEF Streams, Clocks
<1>3. \A k \in Nat : ReplayTells(s, u, b, v, m, k)
  OBVIOUS
<1>4. CutShort(p) <=>
        /\ s.sub /\ ~v.asked /\ b # <<>>
        /\ IF s.ready
           THEN /\ b[1].seq + s.offset > s.lastSeq + 1
                /\ \E n \in Clocks(s, v) : n > s.lastSeq
           ELSE b[1].seq > Clock(v) + 1
  <2>1. b # <<>> => Head(b) = b[1]
    BY <1>1
  <2> QED
    BY <2>1 DEF CutShort
<1> HIDE DEF s, v, b, r
<1>5. InChannel(u, v, m) => Covered(b, r, t, w, m)
  BY DEF InChannel, Covered, v
<1>6. CASE Excused(v) \/ CutShort(p)
  BY <1>6 DEF Covered, v
<1>7. CASE InChannel(s, v, m)
  <2>1. InChannel(u, v, m)
    <3>1. ReplayTells(s, u, b, v, m, 0)
      BY <1>3
    <3> QED
      BY <1>7, <3>1 DEF ReplayTells
  <2> QED
    BY <1>5, <2>1 DEF b, r
<1>8. CASE Coming(b, r, s, v, m) /\ ~v.asked /\ ~CutShort(p)
  <2>1. PICK k \in 1..r : Ahead(s, v, k) /\ Logged(b, k) /\ Tells(b, k, m)
    BY <1>8 DEF Coming
  <2>2. k \in Nat
    OBVIOUS
  <2>3. ReplayTells(s, u, b, v, m, k)
    BY <1>3, <2>2
  <2>4. CASE Has(b, k)
    <3>1. InChannel(u, v, m)
      BY <2>1, <2>3, <2>4 DEF ReplayTells
    <3> QED
      BY <1>5, <3>1 DEF b, r
  <2>5. CASE b # <<>> /\ k < b[1].seq
    <3>1. b[1].seq \in Nat
      <4>1. 1 \in 1..Len(b)
        BY <1>1, <2>5
      <4> QED
        BY <1>1, <4>1, EventSeq
    <3>2. s.lastSeq < k + s.offset /\ \A x \in Clocks(s, v) : x < k + s.offset
      BY <2>1 DEF Ahead, Above
    <3>3. CASE s.ready
      <4>1. b[1].seq + s.offset > s.lastSeq + 1
        BY <1>2, <2>2, <2>5, <3>1, <3>2
      <4>2. ~(\E n \in Clocks(s, v) : n > s.lastSeq)
        BY <1>4, <1>8, <2>5, <3>3, <4>1 DEF s
      <4>3. Above(s, v, s.lastSeq + 1)
        BY <1>2, <4>2 DEF Above
      <4>4. InChannel(u, v, m)
        BY <2>3, <2>5, <3>3, <4>1, <4>3 DEF ReplayTells
      <4> QED
        BY <1>5, <4>4 DEF b, r
    <3>4. CASE ~s.ready
      <4>1. s.offset = 0
        BY <1>1, <3>4 DEF Sound
      <4>2. Clock(v) < k
        BY <1>2, <2>2, <3>2, <4>1
      <4>3. b[1].seq > Clock(v) + 1
        BY <1>1, <2>2, <2>5, <3>1, <4>2
      <4> QED
        BY <1>4, <1>8, <2>5, <3>4, <4>3 DEF s
    <3> QED
      BY <3>3, <3>4
  <2> QED
    BY <2>1, <2>4, <2>5 DEF Logged
<1> QED
  BY <1>6, <1>7, <1>8 DEF Covered, Excused, s, v, b, r

(* The pump catches up.                                                     *)
LEMMA PumpCatchUpGood ==
  ASSUME IInv, IInv', Good, NEW p \in Pods, PumpCatchUp(p), ~spent.reset
  PROVE  Good'
<1> DEFINE s == pod[p]
           v == view[p]
           r == redis.seq
           b == redis.buf
           W == Floors(p)
           u == CaughtUp(s, b)
           a == s.pump = "subscribed" /\ u.wake
           t == [u EXCEPT !.pump = "live", !.deaf = FALSE, !.wake = a]
           c == IF CutShort(p) THEN v.lost \cup {"cut"} ELSE v.lost
           w == [v EXCEPT !.lost = c]
<1>1. /\ s \in Streams /\ Bounded(s) /\ v \in Views /\ Sound(s, v, r, W) /\ r \in Nat
      /\ b \in Seq(Events) /\ Rising(b) /\ UpTo(b, r)
  BY PodAt, ViewAt, SoundAt DEF IInv, RedisOK, Good
<1>2. UNCHANGED <<redis, fell, recov>>
  BY DEF PumpCatchUp
<1>3. u \in Streams
  BY <1>1, CaughtUpKeeps DEF Keeps, Bounded
<1>4. pod' = [pod EXCEPT ![p] = t] /\ view' = [view EXCEPT ![p] = w]
  <2>1. pod' = [pod EXCEPT ![p] = [u EXCEPT !.pump = "live",
                  !.deaf = (u.deaf /\ b = <<>> /\ spent.reset), !.wake = a]]
    BY DEF PumpCatchUp
  <2>2. (u.deaf /\ b = <<>> /\ spent.reset) = FALSE
    OBVIOUS
  <2>3. pod' = [pod EXCEPT ![p] = t]
    BY <2>1, <2>2
  <2>4. view \in [Pods -> Views]
    BY DEF IInv, ViewOK
  <2>5. view' = [view EXCEPT ![p] = w]
    BY <2>4 DEF PumpCatchUp
  <2> QED
    BY <2>3, <2>5
<1>5. a \in BOOLEAN /\ (v.lost # {} \/ CutShort(p) => c # {})
  OBVIOUS
<1>6. /\ Clock(w) = Clock(v) /\ Lacking(w) = Lacking(v) /\ Blank(w) = Blank(v)
      /\ Excused(v) \/ CutShort(p) => Excused(w)
  <2> HIDE DEF c
  <2>1. /\ w.last = v.last /\ w.asked = v.asked /\ w.lost = c /\ w.missing = v.missing
        /\ w.reply = v.reply /\ w.upto = v.upto /\ w.since = v.since
    BY <1>1 DEF Views
  <2> HIDE DEF w
  <2> QED
    BY <1>5, <2>1 DEF Clock, Lacking, Blank, Excused
<1>7. CASE ~s.sub
  <2>1. u = s
    BY <1>7 DEF CaughtUp
  <2>2. Blank(v) /\ ~s.ready
    BY <1>1, <1>7 DEF Sound
  <2> HIDE DEF s, v, r, b, W, u, a, c, w
  <2>3. /\ t.lastSeq = s.lastSeq /\ t.offset = s.offset /\ t.ch = s.ch /\ t.live = s.live
        /\ t.nextSeq = s.nextSeq /\ t.sub = s.sub /\ t.ready = s.ready /\ t.pump = "live"
    BY <1>1, <1>5, <2>1 DEF Streams
  <2> HIDE DEF t
  <2>4. Clocks(t, w) = Clocks(s, v)
    BY <1>6, <2>3 DEF Clocks
  <2>5. Sound(t, w, r, W)
    BY <1>1, <1>6, <2>2, <2>3, <2>4 DEF Sound
  <2>6. Lacking(w) = {}
    BY <1>6, <2>2 DEF Blank, Lacking
  <2> QED
    BY <1>2, <1>4, <2>5, <2>6, StreamGood DEF s, v, r, W
<1>8. CASE s.sub
  <2> DEFINE f == FoldLeft(Replayed, s, b)
  <2>1. u = [f EXCEPT !.ready = TRUE]
    BY <1>8 DEF CaughtUp
  <2>2. ReplayTells(s, f, b, v, None, 0)
    BY <1>1, ReplayAll
  <2>3. /\ f \in Streams /\ Same(s, f) /\ f.offset = s.offset
        /\ f.lastSeq <= r + s.offset
        /\ \A x \in Clocks(f, v) : x \in Clocks(s, v) \/ x <= r + s.offset
    <3>1. s.lastSeq <= r + s.offset
      BY <1>1 DEF Sound
    <3> HIDE DEF f
    <3> QED
      BY <1>1, <2>2, <3>1 DEF ReplayTells, Bounded
  <2> HIDE DEF f, s, v, r, b, W, a, c, w
  <2>4. /\ t.lastSeq = f.lastSeq /\ t.offset = f.offset /\ t.ch = f.ch /\ t.live = s.live
        /\ t.nextSeq = s.nextSeq /\ t.sub = s.sub /\ t.ready /\ t.pump = "live"
    BY <1>5, <2>1, <2>3 DEF Streams, Same
  <2> HIDE DEF t, u
  <2>5. Clocks(t, w) = Clocks(f, v)
    BY <1>6, <2>4 DEF Clocks
  <2>6. \A x \in Clocks(t, w) : Below(W, x, r + t.offset)
    BY <1>1, <2>3, <2>4, <2>5 DEF Sound, Below
  <2>7. Sound(t, w, r, W)
    BY <1>1, <1>6, <1>8, <2>3, <2>4, <2>6 DEF Sound
  <2>8. ASSUME NEW m \in Lacking(w), Covered(b, r, s, v, m)
        PROVE  Covered(b, r, t, w, m)
    <3>1. \A k \in Nat : ReplayTells(s, f, b, v, m, k)
      BY <1>1, ReplayAll DEF f
    <3> QED
      BY <1>6, <1>8, <2>4, <2>8, <3>1, CatchUpCovers DEF s, v, r, b, c
  <2>9. Lacking(w) = Lacking(v)
    BY <1>6
  <2> QED
    BY <1>2, <1>4, <2>7, <2>8, <2>9, StreamGood DEF s, v, r, W, b
<1> QED
  BY <1>7, <1>8

(* The initial states are good.                                             *)
LEMMA InitGood == Init => Good
<1> SUFFICES ASSUME Init
             PROVE  Good
  OBVIOUS
<1>1. redis.seq = 0 /\ redis.buf = <<>>
  BY DEF Init
<1>2. ASSUME NEW p \in Pods
      PROVE  pod[p] = NoStream /\ view[p] = NoView /\ fell[p] = NoMarker
  BY DEF Init
<1>3. ASSUME NEW W
      PROVE  Sound(NoStream, NoView, 0, W)
  <2>1. /\ NoStream.live = <<>> /\ NoStream.ch = <<>> /\ NoStream.lastSeq = 0
        /\ NoStream.offset = 0 /\ NoStream.deaf /\ ~NoStream.ready /\ NoStream.nextSeq = 0
        /\ Clock(NoView) = 0 /\ Blank(NoView)
    BY DEF NoStream, NoView, Clock, Highest, Blank
  <2>2. Below(W, 0, 0)
    BY DEF Below
  <2> HIDE DEF NoStream, NoView
  <2> QED
    BY <2>1, <2>2, EmptyQueue, StreamFresh
<1>4. Lacking(NoView) = {} /\ NoMarker.retrying = None /\ ~NoMarker.renewed
  BY DEF NoView, NoMarker, Lacking
<1> HIDE DEF NoStream, NoView, NoMarker
<1>5. Rising(redis.buf) /\ UpTo(redis.buf, redis.seq)
  BY <1>1, EmptyQueue
<1>6. \A p \in Pods : /\ ~fell[p].renewed /\ Lacking(view[p]) = {}
                      /\ Sound(pod[p], view[p], redis.seq, Floors(p))
  BY <1>1, <1>2, <1>3, <1>4
<1> QED
  BY <1>5, <1>6 DEF Good

(* Under either excuse nothing is promised, and it stays.                   *)
LEMMA ExcusesStay ==
  ASSUME IInv, [Next]_vars
  PROVE  (spent.forgotten => spent'.forgotten) /\ (spent.reset => spent'.reset)
<1>1. CASE UNCHANGED spent
  BY <1>1
<1>2. CASE \E n : spent' = Spend(n)
  BY <1>2 DEF Spend, IInv, SpentOK
<1>3. ASSUME NEW p \in Pods, RetryEnds(p) \/ GiveUp(p) \/ Retire(p) \/ Subscribe(p)
      PROVE  (spent.forgotten => spent'.forgotten) /\ (spent.reset => spent'.reset)
  BY <1>3 DEF RetryEnds, GiveUp, Retire, Subscribe, IInv, SpentOK
<1>4. ASSUME NEW p \in Pods, NEW m \in Msgs, PublishFails(p, m)
      PROVE  (spent.forgotten => spent'.forgotten) /\ (spent.reset => spent'.reset)
  BY <1>4 DEF PublishFails, Spend, IInv, SpentOK
<1>5. ASSUME NEW p \in Pods, NEW w \in recov[p], RecoverFails(p, w)
      PROVE  (spent.forgotten => spent'.forgotten) /\ (spent.reset => spent'.reset)
  BY <1>5 DEF RecoverFails, Spend, IInv, SpentOK
<1>6. CASE ResetRedis
  BY <1>6 DEF ResetRedis, Spend, IInv, SpentOK
<1>7. ASSUME NEW p \in Pods, NEW m \in Msgs, Publish(p, m)
      PROVE  \E n : spent' = Spend(n)
  BY <1>7 DEF Publish
<1>8. ASSUME NEW p \in Pods, NEW w \in recov[p], Recover(p, w)
      PROVE  \E n : spent' = Spend(n)
  BY <1>8 DEF Recover, MarkerCommits
<1>9. ASSUME NEW p \in Pods, Retry(p)
      PROVE  \E n : spent' = Spend(n)
  BY <1>9 DEF Retry, MarkerCommits
<1>10. ASSUME NEW p \in Pods, RetryFails(p) \/ PumpCatchUpFails(p) \/ PumpReconnects(p)
       PROVE  \E n : spent' = Spend(n)
  BY <1>10 DEF RetryFails, PumpCatchUpFails, PumpReconnects
<1>11. ASSUME NEW p \in Pods, PumpStep(p) \/ Unsubscribe(p) \/ Receive(p)
       PROVE  UNCHANGED spent
  BY <1>11 DEF PumpStep, PumpSubscribe, PumpCatchUp, PumpDeliver, Unsubscribe, Receive
<1>12. CASE Idle \/ UNCHANGED vars
  BY <1>1, <1>12 DEF Idle, vars
<1>13. ASSUME NEW p \in Pods, ViewerStep(p)
       PROVE  (spent.forgotten => spent'.forgotten) /\ (spent.reset => spent'.reset)
  BY <1>13, ViewerStepLeaves
<1> QED
  BY <1>1, <1>2, <1>3, <1>4, <1>5, <1>6, <1>7, <1>8, <1>9, <1>10, <1>11, <1>12, <1>13
  DEF Next, ViewerStep

(* Every step leaves a good state, unless it forgets a marker or loses the  *)
(* counter.                                                                 *)
LEMMA GoodStep ==
  ASSUME IInv, Good, [Next]_vars, ~spent'.forgotten, ~spent'.reset
  PROVE  Good'
<1>1. IInv' /\ ~spent.reset
  BY StepSound, ExcusesStay
<1>2. CASE UNCHANGED vars
  <2>1. UNCHANGED <<redis, pod, fell, recov, view>>
    BY <1>2 DEF vars
  <2> QED
    BY <2>1 DEF Good, Pending, Floors, Due
<1>3. ASSUME NEW p \in Pods, NEW m \in Msgs, Publish(p, m) \/ PublishFails(p, m)
      PROVE  Good'
  BY <1>1, <1>3, PublishGood, PublishFailsGood
<1>4. ASSUME NEW p \in Pods, NEW w \in recov[p], Recover(p, w) \/ RecoverFails(p, w)
      PROVE  Good'
  BY <1>1, <1>4, RecoverGood, RecoverFailsGood
<1>5. ASSUME NEW p \in Pods, Retry(p) \/ RetryFails(p) \/ RetryEnds(p)
      PROVE  Good'
  BY <1>1, <1>5, RetryGood, RetryFailsGood, RetryEndsGood
<1>6. ASSUME NEW p \in Pods, GiveUp(p)
      PROVE  FALSE
  <2>1. spent' = [spent EXCEPT !.forgotten = TRUE]
    BY <1>6 DEF GiveUp
  <2> QED
    BY <2>1 DEF IInv, SpentOK
<1>7. ASSUME NEW p \in Pods, PumpStep(p) \/ PumpCatchUpFails(p) \/ PumpReconnects(p)
      PROVE  Good'
  BY <1>1, <1>7, PumpSubscribeGood, PumpCatchUpGood, PumpDeliverGood, PumpCatchUpFailsGood,
     PumpReconnectsGood DEF PumpStep
<1>8. ASSUME NEW p \in Pods, Subscribe(p) \/ Unsubscribe(p) \/ Retire(p)
      PROVE  Good'
  BY <1>1, <1>8, SubscribeGood, UnsubscribeGood, RetireGood
<1>9. ASSUME NEW p \in Pods, Receive(p) \/ ViewerStep(p)
      PROVE  Good'
  BY <1>1, <1>9, ReceiveGood, ViewerStepGood
<1>10. ~ResetRedis
  <2>1. ResetRedis => spent' = [Spend(1) EXCEPT !.reset = TRUE]
    BY DEF ResetRedis
  <2> QED
    BY <2>1 DEF Spend, IInv, SpentOK
<1>11. CASE Idle
  BY <1>2, <1>11 DEF Idle
<1> QED
  BY <1>2, <1>3, <1>4, <1>5, <1>6, <1>7, <1>8, <1>9, <1>10, <1>11 DEF Next, ViewerStep

(* The inductive invariant.                                                 *)
LEMMA LossInvStep == LossInv /\ [Next]_vars => LossInv'
BY StepSound, ExcusesStay, GoodStep DEF LossInv

(* A settled viewer with nothing owed has nothing on its way.               *)
LEMMA LossInvTells == LossInv => NoSilentLoss
<1> SUFFICES ASSUME IInv, Good, NEW p \in Pods, Settled(p), NEW m \in view[p].missing
             PROVE  view[p].lost # {}
  BY DEF LossInv, NoSilentLoss, Told
<1>1. /\ pod[p].ch = <<>> /\ ~view[p].asked /\ view[p].reply = "none"
      /\ pod[p].live = <<>> /\ ~pod[p].deaf
      /\ \A q \in Pods : ~fell[q].on /\ recov[q] = {}
  BY DEF Settled
<1>2. ~Pending
  BY <1>1 DEF Pending, Floors, Due
<1>3. Covered(redis.buf, redis.seq, pod[p], view[p], m)
  BY <1>1, <1>2 DEF Good, Lacking
<1>4. 1..Len(<<>>) = {}
  OBVIOUS
<1>5. ~InChannel(pod[p], view[p], m)
  BY <1>1, <1>4 DEF InChannel, Promises
<1>6. ~Coming(redis.buf, redis.seq, pod[p], view[p], m)
  BY <1>1, <1>4 DEF Coming, Heard
<1> QED
  BY <1>1, <1>3, <1>5, <1>6 DEF Covered, Excused

(* A dropped event is never silently forgotten (StreamManager:              *)
(* publishLocal, markFellBack, recoverFallback, retryFallbackResync,        *)
(* deliverLocked, catchUpSessionStream, push): a viewer to whom nothing is  *)
(* on its way has seen every event or has reconciled since, unless a marker *)
(* was given up or dropped, the counter was lost, a catch-up could not tell *)
(* of the trimmed events, a request was throttled or got no answer          *)
(* (requestResync, handleReconnect), or a reply passed over an event that   *)
(* its messages do not hold.                                                *)
THEOREM NoSilentLossHolds == Spec => []NoSilentLoss
<1>1. Init => LossInv
  BY InitSound, InitGood DEF LossInv
<1>2. LossInv /\ [Next]_vars => LossInv'
  BY LossInvStep
<1>3. LossInv => NoSilentLoss
  BY LossInvTells
<1> QED
  BY <1>1, <1>2, <1>3, PTL DEF Spec
=============================================================================
