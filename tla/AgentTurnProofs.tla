--------------------------- MODULE AgentTurnProofs ---------------------------
(***************************************************************************)
(* Proofs about AgentTurn, for any messages, calls and connections and any *)
(* bounds.  Types, the answers that never block and the follow-ups that    *)
(* are kept hold even when turns overlap; that answers and cancels reach   *)
(* the turn, and that the history sent to the LLM is paired, are proved    *)
(* for turns that do not, and are false otherwise.                         *)
(*                                                                         *)
(* The last of them is the long one.  sanitizeChatMessages makes two       *)
(* passes over a history; a walk over the history that keeps six sets of   *)
(* calls says what each pass preserves and repairs.  The history of a turn *)
(* is then related to what the walk knows, and so is the log, from which   *)
(* the next turn rebuilds its own.                                         *)
(***************************************************************************)
EXTENDS AgentTurn, TLAPS

(* The steps of the model's folds, each for an instance of FoldInduction.   *)
HoldStep(answered, out, k) == Hold(answered, out, k)
H == INSTANCE FoldInduction WITH Op <- HoldStep

CompleteStep(p, acc, e) == Complete(acc, e)
C == INSTANCE FoldInduction WITH Op <- CompleteStep

KeepStep(msgs, acc, i) == KeepIf(msgs, acc, i)
K == INSTANCE FoldInduction WITH Op <- KeepStep

(* The messages there are.                                                  *)
Users == {User(m) : m \in Msgs}
Assistants == {Assistant(ks, said) : ks \in Seq(Calls), said \in BOOLEAN}
Tools == {Tool(k) : k \in Calls}
Rows == Users \cup Assistants \cup Tools

(* What a walk over a history knows: the calls since the last user message, *)
(* those of the message whose tool messages may follow now, and which have; *)
(* then the answers to a call seen that do not stand behind the message     *)
(* that made it, the calls that another message came before all the         *)
(* answers of, and the answers to no call of the message they stand behind. *)
Start == [seen |-> {}, head |-> {}, got |-> {}, loose |-> {}, open |-> {}, stray |-> {}]

Scans == [seen : SUBSET Calls, head : SUBSET Calls, got : SUBSET Calls,
          loose : SUBSET Calls, open : SUBSET Calls, stray : SUBSET Calls]

AfterTool(a, k) ==
  [seen |-> a.seen, head |-> a.head, got |-> a.got \cup {k},
   loose |-> a.loose \cup ({k} \cap (a.seen \ a.head)),
   open |-> a.open, stray |-> a.stray \cup ({k} \ a.head)]

AfterOther(a, seen, ks) ==
  [seen |-> seen, head |-> ks, got |-> {},
   loose |-> a.loose, open |-> a.open \cup (a.head \ a.got), stray |-> a.stray]

Scan(p, a, e) ==
  CASE e.role = "tool" -> AfterTool(a, e.ids[1])
    [] e.role = "assistant" -> AfterOther(a, a.seen \cup Range(e.ids), Range(e.ids))
    [] e.role = "user" -> AfterOther(a, {}, {})

S == INSTANCE FoldInduction WITH Op <- Scan

Scanned(s) == S!Fold(0, Start, s)

(* A history that can be sent.                                              *)
Accepted(s) ==
  Scanned(s).open = {} /\ Scanned(s).stray = {} /\ Scanned(s).head \subseteq Scanned(s).got
-----------------------------------------------------------------------------
(* The ids a message carries, by its role.                                  *)
LEMMA RowForms ==
  ASSUME NEW e \in Rows
  PROVE  /\ e.role \in {"user", "assistant", "tool"}
         /\ e.role = "user" => e \in Users
         /\ e.role = "assistant" => e.ids \in Seq(Calls) /\ Range(e.ids) \subseteq Calls
         /\ e.role = "tool" => e.ids[1] \in Calls /\ e.ids = <<e.ids[1]>> /\ e = Tool(e.ids[1])
<1>1. CASE e \in Users
  BY <1>1 DEF Users, User
<1>2. CASE e \in Assistants
  BY <1>2 DEF Assistants, Assistant, Range
<1>3. CASE e \in Tools
  BY <1>3 DEF Tools, Tool
<1> QED
  BY <1>1, <1>2, <1>3 DEF Rows

(* The three kinds of messages, made.                                       *)
LEMMA RowsMade ==
  /\ \A m \in Msgs : User(m) \in Rows /\ User(m) \in Users /\ User(m).role = "user"
  /\ \A ks \in Seq(Calls), said \in BOOLEAN :
       /\ Assistant(ks, said) \in Rows /\ Assistant(ks, said).role = "assistant"
       /\ Assistant(ks, said).ids = ks
  /\ \A k \in Calls : /\ Tool(k) \in Rows /\ Tool(k).role = "tool"
                      /\ Tool(k).ids = <<k>> /\ Tool(k).ids[1] = k
<1>1. \A m \in Msgs : User(m) \in Rows /\ User(m) \in Users /\ User(m).role = "user"
  BY DEF Rows, Users, User
<1>2. ASSUME NEW ks \in Seq(Calls), NEW said \in BOOLEAN
      PROVE  /\ Assistant(ks, said) \in Rows /\ Assistant(ks, said).role = "assistant"
             /\ Assistant(ks, said).ids = ks
  <2>1. Assistant(ks, said) \in Assistants
    BY DEF Assistants
  <2> QED
    BY <2>1 DEF Rows, Assistant
<1>3. \A k \in Calls : /\ Tool(k) \in Rows /\ Tool(k).role = "tool"
                       /\ Tool(k).ids = <<k>> /\ Tool(k).ids[1] = k
  BY DEF Rows, Tools, Tool
<1> QED
  BY <1>1, <1>2, <1>3

(* Replaying a stored message gives a message.                              *)
LEMMA ReplayedRow ==
  ASSUME NEW e \in Rows
  PROVE  /\ Replayed(e) \in Rows
         /\ e.role # "assistant" => Replayed(e) = e
<1>1. CASE e \in Users
  <2>1. PICK m \in Msgs : e = [role |-> "user", ids |-> <<m>>, said |-> FALSE]
    BY <1>1 DEF Users, User
  <2>2. ~e.said
    BY <2>1
  <2> QED
    BY <2>2 DEF Replayed
<1>2. CASE e \in Assistants
  <2>1. PICK ks \in Seq(Calls), said \in BOOLEAN :
          e = [role |-> "assistant", ids |-> ks, said |-> said]
    BY <1>2 DEF Assistants, Assistant
  <2>2. CASE said = TRUE
    <3>1. e = [role |-> "assistant", ids |-> ks, said |-> TRUE]
      BY <2>1, <2>2
    <3>2. Replayed(e) = Assistant(<<>>, TRUE)
      BY <3>1 DEF Replayed, Assistant
    <3>3. <<>> \in Seq(Calls) /\ TRUE \in BOOLEAN /\ e.role = "assistant"
      BY <3>1
    <3> QED
      BY <3>2, <3>3, RowsMade
  <2>3. CASE said = FALSE
    <3>1. e = [role |-> "assistant", ids |-> ks, said |-> FALSE]
      BY <2>1, <2>3
    <3> QED
      BY <3>1 DEF Replayed
  <2> QED
    BY <2>1, <2>2, <2>3
<1>3. CASE e \in Tools
  <2>1. PICK k \in Calls : e = [role |-> "tool", ids |-> <<k>>, said |-> FALSE]
    BY <1>3 DEF Tools, Tool
  <2>2. ~e.said
    BY <2>1
  <2> QED
    BY <2>2 DEF Replayed
<1> QED
  BY <1>1, <1>2, <1>3 DEF Rows

(* An assistant message keeps its calls when it is replayed, or has none.   *)
LEMMA ReplayedCalls ==
  ASSUME NEW ks \in Seq(Calls), NEW said \in BOOLEAN
  PROVE  \E ls \in {<<>>, ks}, b \in BOOLEAN : Replayed(Assistant(ks, said)) = Assistant(ls, b)
<1>1. CASE said = TRUE
  <2>1. Replayed(Assistant(ks, TRUE)) = Assistant(<<>>, TRUE)
    BY DEF Replayed, Assistant
  <2> QED
    BY <1>1, <2>1
<1>2. CASE said = FALSE
  <2>1. Replayed(Assistant(ks, FALSE)) = Assistant(ks, FALSE)
    BY DEF Replayed, Assistant
  <2> QED
    BY <1>2, <2>1
<1> QED
  BY <1>1, <1>2

(* What is rebuilt from the log is a history.                               *)
LEMMA RebuiltTyped ==
  ASSUME NEW s \in Seq(Rows)
  PROVE  Rebuilt(s) \in Seq(Rows)
<1>1. \A x \in Rows : Replayed(x) \in Rows
  BY ReplayedRow
<1> QED
  BY <1>1 DEF Rebuilt

(* Replaying appends.                                                       *)
LEMMA RebuiltAppend ==
  ASSUME NEW s \in Seq(Rows), NEW e \in Rows
  PROVE  Rebuilt(s) \in Seq(Rows) /\ Rebuilt(Append(s, e)) = Append(Rebuilt(s), Replayed(e))
<1>1. \A x \in Rows : Replayed(x) \in Rows
  BY ReplayedRow
<1>2. /\ Rebuilt(s) \in Seq(Rows) /\ Len(Rebuilt(s)) = Len(s)
      /\ \A i \in 1..Len(s) : Rebuilt(s)[i] = Replayed(s[i])
  BY <1>1 DEF Rebuilt
<1> DEFINE l == Rebuilt(Append(s, e))
           r == Append(Rebuilt(s), Replayed(e))
<1>3. DOMAIN l = 1..(Len(s) + 1) /\ DOMAIN r = 1..(Len(s) + 1)
  BY <1>1, <1>2 DEF Rebuilt
<1>4. \A i \in 1..(Len(s) + 1) : l[i] = r[i]
  BY <1>1, <1>2 DEF Rebuilt
<1>5. l = [i \in DOMAIN l |-> l[i]] /\ r = [i \in DOMAIN r |-> r[i]]
  BY <1>1, <1>2 DEF Rebuilt
<1>6. l = r
  <2> HIDE DEF l, r
  <2> QED
    BY <1>3, <1>4, <1>5
<1> QED
  BY <1>2, <1>6

(* Nothing is rebuilt from nothing.                                         *)
LEMMA RebuiltEmpty == Rebuilt(<<>>) = <<>>
BY DEF Rebuilt
-----------------------------------------------------------------------------
(* The walk, message by message.                                            *)
LEMMA ScanTyped ==
  ASSUME NEW a \in Scans, NEW e \in Rows
  PROVE  Scan(0, a, e) \in Scans
<1>1. CASE e.role = "tool"
  <2>1. Scan(0, a, e) = AfterTool(a, e.ids[1]) /\ e.ids[1] \in Calls
    BY <1>1, RowForms DEF Scan
  <2> QED
    BY <2>1 DEF AfterTool, Scans
<1>2. CASE e.role = "assistant"
  <2>1. /\ Scan(0, a, e) = AfterOther(a, a.seen \cup Range(e.ids), Range(e.ids))
        /\ Range(e.ids) \subseteq Calls
    BY <1>2, RowForms DEF Scan
  <2> QED
    BY <2>1 DEF AfterOther, Scans
<1>3. CASE e.role = "user"
  <2>1. Scan(0, a, e) = AfterOther(a, {}, {})
    BY <1>3 DEF Scan
  <2> QED
    BY <2>1 DEF AfterOther, Scans
<1> QED
  BY <1>1, <1>2, <1>3, RowForms

(* What a walk knows are sets of calls.                                     *)
LEMMA ScannedTyped ==
  ASSUME NEW s \in Seq(Rows)
  PROVE  Scanned(s) \in Scans
<1>1. Start \in Scans
  BY DEF Start, Scans
<1> QED
  BY <1>1, ScanTyped, S!FoldStays DEF Scanned

(* A walk over nothing.                                                     *)
LEMMA ScannedEmpty == Scanned(<<>>) = Start
BY S!FoldEmpty DEF Scanned

(* A tool message at the end of a walk.                                     *)
LEMMA ScannedTool ==
  ASSUME NEW s \in Seq(Rows), NEW k \in Calls
  PROVE  Scanned(Append(s, Tool(k))) = AfterTool(Scanned(s), k)
<1>1. Scanned(Append(s, Tool(k))) = Scan(0, Scanned(s), Tool(k))
  BY RowsMade, S!FoldAppend DEF Scanned
<1> QED
  BY <1>1, RowsMade DEF Scan

(* An assistant message at the end of a walk.                               *)
LEMMA ScannedAssistant ==
  ASSUME NEW s \in Seq(Rows), NEW ks \in Seq(Calls), NEW said \in BOOLEAN
  PROVE  Scanned(Append(s, Assistant(ks, said))) =
           AfterOther(Scanned(s), Scanned(s).seen \cup Range(ks), Range(ks))
<1>1. Scanned(Append(s, Assistant(ks, said))) = Scan(0, Scanned(s), Assistant(ks, said))
  BY RowsMade, S!FoldAppend DEF Scanned
<1> QED
  BY <1>1, RowsMade DEF Scan

(* A user message at the end of a walk.                                     *)
LEMMA ScannedUser ==
  ASSUME NEW s \in Seq(Rows), NEW e \in Rows, e.role = "user"
  PROVE  Scanned(Append(s, e)) = AfterOther(Scanned(s), {}, {})
<1>1. Scanned(Append(s, e)) = Scan(0, Scanned(s), e)
  BY S!FoldAppend DEF Scanned
<1> QED
  BY <1>1 DEF Scan

(* Every message is of one of the three kinds.                              *)
LEMMA ScannedAppend ==
  ASSUME NEW s \in Seq(Rows), NEW e \in Rows
  PROVE  \/ /\ e.role = "tool" /\ e.ids[1] \in Calls /\ e.ids = <<e.ids[1]>>
            /\ Scanned(Append(s, e)) = AfterTool(Scanned(s), e.ids[1])
         \/ /\ e.role = "assistant" /\ Range(e.ids) \subseteq Calls
            /\ Scanned(Append(s, e)) =
                 AfterOther(Scanned(s), Scanned(s).seen \cup Range(e.ids), Range(e.ids))
         \/ /\ e.role = "user"
            /\ Scanned(Append(s, e)) = AfterOther(Scanned(s), {}, {})
<1>1. Scanned(Append(s, e)) = Scan(0, Scanned(s), e)
  BY S!FoldAppend DEF Scanned
<1> QED
  BY <1>1, RowForms DEF Scan

(* What every walk has: the head's calls are among those seen, and what is  *)
(* loose is stray.                                                          *)
Walked(a) == a.head \subseteq a.seen /\ a.loose \subseteq a.stray

(* The two facts hold over every history.                                   *)
LEMMA ScannedWalked ==
  ASSUME NEW s \in Seq(Rows)
  PROVE  Walked(Scanned(s))
<1> DEFINE V == {r \in Seq(Rows) : Walked(Scanned(r))}
<1>1. <<>> \in V
  BY ScannedEmpty DEF Start, Walked
<1>2. ASSUME NEW r \in Seq(Rows), NEW e \in Rows, r \in V
      PROVE  Append(r, e) \in V
  <2>1. Walked(Scanned(r)) /\ Append(r, e) \in Seq(Rows)
    BY <1>2
  <2>2. Walked(Scanned(Append(r, e)))
    BY <2>1, ScannedAppend, ScannedTyped DEF Walked, AfterTool, AfterOther, Scans
  <2> QED
    BY <2>1, <2>2
<1>3. Seq(Rows) \subseteq V
  <2> HIDE DEF V
  <2> QED
    BY <1>1, <1>2, S!SeqSetInduction
<1> QED
  BY <1>3
-----------------------------------------------------------------------------
(* An accepted history is paired.                                           *)
Answers(s, i, j) ==
  /\ i < j /\ s[i].role = "assistant" /\ s[j].role = "tool"
  /\ s[j].ids[1] \in Range(s[i].ids)
  /\ \A n \in (i + 1)..j : s[n].role = "tool"

(* Only tool messages stand behind the message at i.                        *)
Ends(s, i) == \A n \in (i + 1)..Len(s) : s[n].role = "tool"

AnsweredAt(s, i, k) == \E j \in DOMAIN s : Answers(s, i, j) /\ s[j].ids = <<k>>

(* What is so of a prefix: only the calls of the last message that is not a *)
(* tool message may still be without their answers.                         *)
PairedSoFar(s) ==
  LET a == Scanned(s) IN
  a.open = {} /\ a.stray = {} =>
    /\ \A j \in DOMAIN s : s[j].role = "tool" => \E i \in DOMAIN s : Answers(s, i, j)
    /\ \A i \in DOMAIN s : s[i].role = "assistant" =>
         \A k \in Range(s[i].ids) : AnsweredAt(s, i, k) \/ (k \in a.head \ a.got /\ Ends(s, i))
    /\ a.head # {} =>
         \E i \in DOMAIN s : s[i].role = "assistant" /\ Range(s[i].ids) = a.head /\ Ends(s, i)

(* One message more leaves the answers there are.                           *)
LEMMA AnswersKept ==
  ASSUME NEW s \in Seq(Rows), NEW e \in Rows
  PROVE  LET t == Append(s, e) IN
         /\ t \in Seq(Rows) /\ DOMAIN t = 1..(Len(s) + 1) /\ DOMAIN s = 1..Len(s) /\ Len(s) \in Nat
         /\ t[Len(s) + 1] = e /\ \A i \in DOMAIN s : t[i] = s[i]
         /\ \A i, j \in DOMAIN s : Answers(s, i, j) => Answers(t, i, j)
         /\ \A i \in DOMAIN s, k \in Calls : AnsweredAt(s, i, k) => AnsweredAt(t, i, k)
         /\ \A i \in DOMAIN s : Ends(s, i) /\ e.role = "tool" => Ends(t, i)
<1> DEFINE t == Append(s, e)
<1>1. /\ t \in Seq(Rows) /\ DOMAIN t = 1..(Len(s) + 1) /\ DOMAIN s = 1..Len(s) /\ Len(s) \in Nat
      /\ t[Len(s) + 1] = e /\ \A i \in DOMAIN s : t[i] = s[i]
  OBVIOUS
<1>2. Len(t) = Len(s) + 1
  OBVIOUS
<1> HIDE DEF t
<1>3. ASSUME NEW i \in DOMAIN s, NEW j \in DOMAIN s, Answers(s, i, j)
      PROVE  Answers(t, i, j)
  <2>1. \A n \in (i + 1)..j : n \in DOMAIN s
    BY <1>1
  <2> QED
    BY <1>1, <1>3, <2>1 DEF Answers
<1>4. \A i \in DOMAIN s, k \in Calls : AnsweredAt(s, i, k) => AnsweredAt(t, i, k)
  BY <1>1, <1>3 DEF AnsweredAt
<1>5. ASSUME NEW i \in DOMAIN s, Ends(s, i), e.role = "tool"
      PROVE  Ends(t, i)
  <2>1. \A n \in (i + 1)..(Len(s) + 1) : n = Len(s) + 1 \/ (n \in (i + 1)..Len(s) /\ n \in DOMAIN s)
    BY <1>1
  <2> QED
    BY <1>1, <1>2, <1>5, <2>1 DEF Ends
<1> QED
  BY <1>1, <1>3, <1>4, <1>5 DEF t

(* A tool message that answers the head keeps what is paired.               *)
LEMMA PairedTool ==
  ASSUME NEW s \in Seq(Rows), NEW e \in Rows, e.role = "tool", PairedSoFar(s)
  PROVE  PairedSoFar(Append(s, e))
<1> DEFINE t == Append(s, e)
           a == Scanned(s)
           b == Scanned(t)
           k == e.ids[1]
           l == Len(s) + 1
<1>1. /\ t \in Seq(Rows) /\ DOMAIN t = 1..l /\ DOMAIN s = 1..Len(s) /\ Len(s) \in Nat
      /\ t[l] = e /\ \A i \in DOMAIN s : t[i] = s[i]
      /\ \A i, j \in DOMAIN s : Answers(s, i, j) => Answers(t, i, j)
      /\ \A i \in DOMAIN s, c \in Calls : AnsweredAt(s, i, c) => AnsweredAt(t, i, c)
      /\ \A i \in DOMAIN s : Ends(s, i) => Ends(t, i)
  BY AnswersKept
<1>2. k \in Calls /\ e.ids = <<k>> /\ b = AfterTool(a, k) /\ a \in Scans
  BY RowForms, ScannedAppend, ScannedTyped
<1>3. b.head = a.head /\ b.got = a.got \cup {k} /\ b.open = a.open
        /\ b.stray = a.stray \cup ({k} \ a.head)
  BY <1>2 DEF AfterTool
<1>4. l \in DOMAIN t /\ \A i \in DOMAIN t : i = l \/ i \in DOMAIN s
  BY <1>1
<1>5. \A i \in DOMAIN s : i \in DOMAIN t /\ Range(s[i].ids) = Range(t[i].ids)
  BY <1>1
<1>6. \A i \in DOMAIN s : s[i].role = "assistant" => Range(s[i].ids) \subseteq Calls
  BY RowForms
<1> HIDE DEF t, a, b, l, k
<1> SUFFICES ASSUME b.open = {}, b.stray = {}
             PROVE  /\ \A j \in DOMAIN t : t[j].role = "tool" =>
                            \E i \in DOMAIN t : Answers(t, i, j)
                    /\ \A i \in DOMAIN t : t[i].role = "assistant" =>
                         \A c \in Range(t[i].ids) :
                            AnsweredAt(t, i, c) \/ (c \in b.head \ b.got /\ Ends(t, i))
                    /\ b.head # {} =>
                         \E i \in DOMAIN t :
                            t[i].role = "assistant" /\ Range(t[i].ids) = b.head /\ Ends(t, i)
  BY DEF PairedSoFar, t, b
<1>7. a.open = {} /\ a.stray = {} /\ k \in a.head
  BY <1>3
<1>8. /\ \A j \in DOMAIN s : s[j].role = "tool" => \E i \in DOMAIN s : Answers(s, i, j)
      /\ \A i \in DOMAIN s : s[i].role = "assistant" =>
           \A c \in Range(s[i].ids) : AnsweredAt(s, i, c) \/ (c \in a.head \ a.got /\ Ends(s, i))
  BY <1>7 DEF PairedSoFar, a
<1>9. PICK h \in DOMAIN s : s[h].role = "assistant" /\ Range(s[h].ids) = a.head /\ Ends(s, h)
  BY <1>7 DEF PairedSoFar, a
<1>10. ASSUME NEW i \in DOMAIN s, s[i].role = "assistant", k \in Range(s[i].ids), Ends(s, i)
       PROVE  Answers(t, i, l) /\ AnsweredAt(t, i, k)
  <2>1. \A n \in (i + 1)..l : n = l \/ (n \in (i + 1)..Len(s) /\ n \in DOMAIN s)
    BY <1>1 DEF l
  <2>2. i < l
    BY <1>1 DEF l
  <2>3. t[l].role = "tool" /\ t[l].ids[1] = k /\ t[l].ids = <<k>>
    BY <1>1, <1>2 DEF k
  <2>4. \A n \in (i + 1)..l : t[n].role = "tool"
    BY <1>1, <1>10, <2>1, <2>3 DEF Ends
  <2>5. t[i].role = "assistant" /\ k \in Range(t[i].ids)
    BY <1>1, <1>5, <1>10
  <2>6. Answers(t, i, l)
    BY <2>2, <2>3, <2>4, <2>5 DEF Answers
  <2> QED
    BY <1>4, <2>3, <2>6 DEF AnsweredAt
<1>11. ASSUME NEW j \in DOMAIN t, t[j].role = "tool"
       PROVE  \E i \in DOMAIN t : Answers(t, i, j)
  <2>1. CASE j \in DOMAIN s
    BY <1>1, <1>5, <1>8, <1>11, <2>1
  <2>2. CASE j = l
    BY <1>5, <1>7, <1>9, <1>10, <2>2
  <2> QED
    BY <1>4, <2>1, <2>2
<1>12. ASSUME NEW i \in DOMAIN t, t[i].role = "assistant", NEW c \in Range(t[i].ids)
       PROVE  AnsweredAt(t, i, c) \/ (c \in b.head \ b.got /\ Ends(t, i))
  <2>1. i \in DOMAIN s
    BY <1>1, <1>4, <1>12
  <2>2. s[i].role = "assistant" /\ c \in Range(s[i].ids) /\ c \in Calls
    BY <1>1, <1>5, <1>6, <1>12, <2>1
  <2>3. CASE AnsweredAt(s, i, c)
    BY <1>1, <2>1, <2>2, <2>3
  <2>4. CASE c \in a.head \ a.got /\ Ends(s, i)
    <3>1. CASE c = k
      BY <1>10, <2>1, <2>2, <2>4, <3>1
    <3>2. CASE c # k
      BY <1>1, <1>3, <2>1, <2>4, <3>2
    <3> QED
      BY <3>1, <3>2
  <2> QED
    BY <1>8, <2>1, <2>2, <2>3, <2>4
<1>13. h \in DOMAIN t /\ t[h].role = "assistant" /\ Range(t[h].ids) = b.head /\ Ends(t, h)
  BY <1>1, <1>3, <1>5, <1>9
<1> QED
  BY <1>11, <1>12, <1>13

(* Another message does once the head is answered.                          *)
LEMMA PairedOther ==
  ASSUME NEW s \in Seq(Rows), NEW e \in Rows, e.role # "tool", PairedSoFar(s)
  PROVE  PairedSoFar(Append(s, e))
<1> DEFINE t == Append(s, e)
           a == Scanned(s)
           b == Scanned(t)
           l == Len(s) + 1
           ks == IF e.role = "assistant" THEN Range(e.ids) ELSE {}
<1>1. /\ t \in Seq(Rows) /\ DOMAIN t = 1..l /\ DOMAIN s = 1..Len(s) /\ Len(s) \in Nat
      /\ t[l] = e /\ \A i \in DOMAIN s : t[i] = s[i]
      /\ \A i, j \in DOMAIN s : Answers(s, i, j) => Answers(t, i, j)
      /\ \A i \in DOMAIN s, c \in Calls : AnsweredAt(s, i, c) => AnsweredAt(t, i, c)
  BY AnswersKept
<1>2. b.head = ks /\ b.got = {} /\ b.open = a.open \cup (a.head \ a.got) /\ b.stray = a.stray
  <2>1. CASE e.role = "assistant"
    <3>1. b = AfterOther(a, a.seen \cup Range(e.ids), Range(e.ids))
      BY <2>1, ScannedAppend
    <3> QED
      BY <2>1, <3>1 DEF AfterOther
  <2>2. CASE e.role # "assistant"
    <3>1. b = AfterOther(a, {}, {})
      BY <2>2, ScannedAppend
    <3> QED
      BY <2>2, <3>1 DEF AfterOther
  <2> QED
    BY <2>1, <2>2
<1>3. l \in DOMAIN t /\ \A i \in DOMAIN t : i = l \/ i \in DOMAIN s
  BY <1>1
<1>4. \A i \in DOMAIN s : i \in DOMAIN t /\ Range(s[i].ids) = Range(t[i].ids)
  BY <1>1
<1>5. \A i \in DOMAIN s : s[i].role = "assistant" => Range(s[i].ids) \subseteq Calls
  BY RowForms
<1>6. Ends(t, l)
  BY <1>1 DEF Ends, t
<1> HIDE DEF t, a, b, l
<1> SUFFICES ASSUME b.open = {}, b.stray = {}
             PROVE  /\ \A j \in DOMAIN t : t[j].role = "tool" =>
                            \E i \in DOMAIN t : Answers(t, i, j)
                    /\ \A i \in DOMAIN t : t[i].role = "assistant" =>
                         \A c \in Range(t[i].ids) :
                            AnsweredAt(t, i, c) \/ (c \in b.head \ b.got /\ Ends(t, i))
                    /\ b.head # {} =>
                         \E i \in DOMAIN t :
                            t[i].role = "assistant" /\ Range(t[i].ids) = b.head /\ Ends(t, i)
  BY DEF PairedSoFar, t, b
<1>7. a.open = {} /\ a.stray = {} /\ a.head \ a.got = {}
  BY <1>2
<1>8. /\ \A j \in DOMAIN s : s[j].role = "tool" => \E i \in DOMAIN s : Answers(s, i, j)
      /\ \A i \in DOMAIN s : s[i].role = "assistant" =>
           \A c \in Range(s[i].ids) : AnsweredAt(s, i, c)
  BY <1>7 DEF PairedSoFar, a
<1>9. ASSUME NEW j \in DOMAIN t, t[j].role = "tool"
      PROVE  \E i \in DOMAIN t : Answers(t, i, j)
  <2>1. j \in DOMAIN s
    BY <1>1, <1>3, <1>9
  <2> QED
    BY <1>1, <1>4, <1>8, <1>9, <2>1
<1>10. ASSUME NEW i \in DOMAIN t, t[i].role = "assistant", NEW c \in Range(t[i].ids)
       PROVE  AnsweredAt(t, i, c) \/ (c \in b.head \ b.got /\ Ends(t, i))
  <2>1. CASE i \in DOMAIN s
    <3>1. s[i].role = "assistant" /\ c \in Range(s[i].ids) /\ c \in Calls
      BY <1>1, <1>4, <1>5, <1>10, <2>1
    <3> QED
      BY <1>1, <1>8, <2>1, <3>1
  <2>2. CASE i = l
    BY <1>1, <1>2, <1>6, <1>10, <2>2
  <2> QED
    BY <1>3, <2>1, <2>2
<1>11. b.head # {} => t[l].role = "assistant" /\ Range(t[l].ids) = b.head /\ Ends(t, l)
  BY <1>1, <1>2, <1>6
<1> QED
  BY <1>3, <1>9, <1>10, <1>11

(* What a walk accepts is paired: the condition the providers state.        *)
LEMMA AcceptedPaired ==
  ASSUME NEW s \in Seq(Rows), Accepted(s)
  PROVE  Paired(s)
<1> DEFINE V == {r \in Seq(Rows) : PairedSoFar(r)}
<1>1. <<>> \in V
  BY ScannedEmpty DEF Start, PairedSoFar
<1>2. ASSUME NEW r \in Seq(Rows), NEW e \in Rows, r \in V
      PROVE  Append(r, e) \in V
  BY <1>2, PairedTool, PairedOther
<1>3. Seq(Rows) \subseteq V
  <2> HIDE DEF V
  <2> QED
    BY <1>1, <1>2, S!SeqSetInduction
<1>4. PairedSoFar(s)
  BY <1>3
<1>5. /\ \A j \in DOMAIN s : s[j].role = "tool" => \E i \in DOMAIN s : Answers(s, i, j)
      /\ \A i \in DOMAIN s : s[i].role = "assistant" =>
           \A k \in Range(s[i].ids) : AnsweredAt(s, i, k)
  BY <1>4 DEF PairedSoFar, Accepted
<1> QED
  BY <1>5 DEF Paired, Answers, AnsweredAt
-----------------------------------------------------------------------------
(* The first loop of sanitizeChatMessages answers every call, and leaves    *)
(* what is loose and the calls at the end as they were.                     *)
LEMMA HeldFolds ==
  ASSUME NEW out, NEW ks, NEW answered
  PROVE  Held(out, ks, answered) = H!Fold(answered, out, ks)
BY SMT DEF Held, FoldLeft, H!Fold, H!FoldLeft, MapThenFoldSet, H!MapThenFoldSet, Max, H!Max,
   HoldStep

(* The first loop is a fold over the messages.                              *)
LEMMA CompletedFolds ==
  ASSUME NEW msgs
  PROVE  LET end == C!Fold(0, [out |-> <<>>, calls |-> <<>>, answered |-> {}], msgs)
         IN Completed(msgs) = Held(end.out, end.calls, end.answered)
BY SMT DEF Completed, FoldLeft, C!Fold, C!FoldLeft, MapThenFoldSet, C!MapThenFoldSet, Max, C!Max,
   CompleteStep

(* The second loop is a fold over their places.                             *)
LEMMA KeepFolds ==
  ASSUME NEW msgs
  PROVE  Keep(msgs) = K!Fold(msgs, <<>>, [i \in DOMAIN msgs |-> i])
BY SMT DEF Keep, FoldLeft, K!Fold, K!FoldLeft, MapThenFoldSet, K!MapThenFoldSet, Max, K!Max,
   KeepStep

(* The range of a sequence with one element more.                           *)
LEMMA RangeAppend ==
  ASSUME NEW T, NEW s \in Seq(T), NEW x \in T
  PROVE  Append(s, x) \in Seq(T) /\ Range(Append(s, x)) = Range(s) \cup {x}
<1> DEFINE t == Append(s, x)
<1>1. /\ t \in Seq(T) /\ DOMAIN t = 1..(Len(s) + 1) /\ DOMAIN s = 1..Len(s) /\ Len(s) \in Nat
      /\ t[Len(s) + 1] = x /\ \A i \in 1..Len(s) : t[i] = s[i]
  OBVIOUS
<1> HIDE DEF t
<1>2. \A i \in 1..(Len(s) + 1) : i = Len(s) + 1 \/ i \in 1..Len(s)
  BY <1>1
<1>3. \A i \in 1..Len(s) : i \in DOMAIN t
  BY <1>1
<1>4. Len(s) + 1 \in DOMAIN t
  BY <1>1
<1>5. Range(t) \subseteq Range(s) \cup {x}
  BY <1>1, <1>2 DEF Range
<1>6. Range(s) \cup {x} \subseteq Range(t)
  BY <1>1, <1>3, <1>4 DEF Range
<1> QED
  BY <1>1, <1>5, <1>6 DEF t

(* Two histories with the same calls seen, the same head, and the same that *)
(* is loose.                                                                *)
Alike(a, b) == a.seen = b.seen /\ a.head = b.head /\ a.loose = b.loose

(* Placeholders for the calls of the head.                                  *)
HeldAfter(out, ks, answered, r) ==
  /\ r \in Seq(Rows)
  /\ Alike(Scanned(r), Scanned(out))
  /\ Scanned(r).open = Scanned(out).open
  /\ Scanned(r).got = Scanned(out).got \cup (Range(ks) \ answered)

(* Placeholders answer the calls of the head that had no answer.            *)
LEMMA HeldScanned ==
  ASSUME NEW out \in Seq(Rows), NEW ks \in Seq(Calls), NEW answered,
         Range(ks) \subseteq Scanned(out).head
  PROVE  HeldAfter(out, ks, answered, Held(out, ks, answered))
<1> DEFINE V == {r \in Seq(Calls) : Range(r) \subseteq Scanned(out).head =>
                                      HeldAfter(out, r, answered, H!Fold(answered, out, r))}
<1>1. <<>> \in V
  <2>1. H!Fold(answered, out, <<>>) = out /\ Range(<<>>) = {} /\ <<>> \in Seq(Calls)
    BY H!FoldEmpty DEF Range
  <2> QED
    BY <2>1, ScannedTyped DEF HeldAfter, Alike, Scans
<1>2. ASSUME NEW r \in Seq(Calls), NEW k \in Calls, r \in V
      PROVE  Append(r, k) \in V
  <2> DEFINE f == H!Fold(answered, out, r)
             g == H!Fold(answered, out, Append(r, k))
  <2>1. Append(r, k) \in Seq(Calls) /\ Range(Append(r, k)) = Range(r) \cup {k}
    BY RangeAppend
  <2>2. g = IF k \in answered THEN f ELSE Append(f, Tool(k))
    BY H!FoldAppend DEF HoldStep, Hold
  <2> HIDE DEF f, g
  <2> SUFFICES ASSUME Range(r) \subseteq Scanned(out).head, k \in Scanned(out).head
               PROVE  HeldAfter(out, Append(r, k), answered, g)
    BY <2>1 DEF g
  <2>3. HeldAfter(out, r, answered, f)
    BY <1>2 DEF f
  <2>4. CASE k \in answered
    BY <2>1, <2>2, <2>3, <2>4 DEF HeldAfter
  <2>5. CASE k \notin answered
    <3>1. f \in Seq(Rows) /\ g = Append(f, Tool(k)) /\ g \in Seq(Rows)
      BY <2>2, <2>3, <2>5, RowsMade DEF HeldAfter
    <3>2. Scanned(g) = AfterTool(Scanned(f), k)
      BY <3>1, ScannedTool
    <3>3. Scanned(f).head = Scanned(out).head
      BY <2>3 DEF HeldAfter, Alike
    <3>4. /\ Scanned(g).seen = Scanned(f).seen /\ Scanned(g).head = Scanned(f).head
          /\ Scanned(g).loose = Scanned(f).loose /\ Scanned(g).open = Scanned(f).open
          /\ Scanned(g).got = Scanned(f).got \cup {k}
      BY <3>1, <3>2, <3>3, ScannedTyped DEF AfterTool, Scans
    <3> QED
      BY <2>1, <2>3, <2>5, <3>1, <3>4 DEF HeldAfter, Alike
  <2> QED
    BY <2>4, <2>5
<1>3. Seq(Calls) \subseteq V
  <2> HIDE DEF V
  <2> QED
    BY <1>1, <1>2, H!SeqSetInduction
<1> QED
  BY <1>3, HeldFolds

(* What the first loop has made of a prefix.                                *)
CompletedSoFar(s, acc) ==
  /\ acc \in [out : Seq(Rows), calls : Seq(Calls), answered : SUBSET Calls]
  /\ Alike(Scanned(acc.out), Scanned(s))
  /\ Scanned(acc.out).open = {}
  /\ Scanned(acc.out).got = Scanned(s).got
  /\ acc.answered = Scanned(s).got /\ Range(acc.calls) = Scanned(s).head

(* A tool message is copied, and its call is answered.                      *)
LEMMA CompleteTool ==
  ASSUME NEW s \in Seq(Rows), NEW acc, NEW e \in Rows, e.role = "tool", CompletedSoFar(s, acc)
  PROVE  CompletedSoFar(Append(s, e), Complete(acc, e))
<1> DEFINE k == e.ids[1]
           o == acc.out
           c == Complete(acc, e)
<1>1. k \in Calls /\ e = Tool(k)
  BY RowForms
<1>2. Scanned(Append(s, e)) = AfterTool(Scanned(s), k)
        /\ Scanned(Append(o, e)) = AfterTool(Scanned(o), k)
  BY <1>1, ScannedTool DEF CompletedSoFar
<1>3. c = [out |-> Append(o, e), calls |-> acc.calls, answered |-> acc.answered \cup {k}]
  BY DEF Complete, CompletedSoFar
<1>4. Append(o, e) \in Seq(Rows)
  BY DEF CompletedSoFar
<1> QED
  BY <1>1, <1>2, <1>3, <1>4 DEF CompletedSoFar, AfterTool, Alike

(* Before another message come the placeholders.                            *)
LEMMA CompleteOther ==
  ASSUME NEW s \in Seq(Rows), NEW acc, NEW e \in Rows, e.role # "tool", CompletedSoFar(s, acc)
  PROVE  CompletedSoFar(Append(s, e), Complete(acc, e))
<1> DEFINE h == Held(acc.out, acc.calls, acc.answered)
           a == Scanned(h)
           b == Scanned(s)
           ls == IF e.role = "assistant" THEN e.ids ELSE <<>>
<1>1. acc.out \in Seq(Rows) /\ acc.calls \in Seq(Calls) /\ Scanned(acc.out) \in Scans /\ b \in Scans
  BY ScannedTyped DEF CompletedSoFar
<1>2. HeldAfter(acc.out, acc.calls, acc.answered, h)
  BY <1>1, HeldScanned DEF CompletedSoFar, Alike
<1>3. h \in Seq(Rows) /\ Alike(a, b) /\ a.open = {} /\ a.head \subseteq a.got
  BY <1>1, <1>2 DEF HeldAfter, CompletedSoFar, Alike
<1>4. Complete(acc, e) = [out |-> Append(h, e), calls |-> ls, answered |-> {}]
  BY DEF Complete
<1>5. Append(h, e) \in Seq(Rows) /\ ls \in Seq(Calls)
  BY <1>3, RowForms
<1> DEFINE x == Scanned(Append(h, e))
           y == Scanned(Append(s, e))
<1>6. CASE e.role = "assistant"
  <2>1. /\ y = AfterOther(b, b.seen \cup Range(ls), Range(ls))
        /\ x = AfterOther(a, a.seen \cup Range(ls), Range(ls))
    BY <1>3, <1>6, ScannedAppend
  <2> HIDE DEF a, b, h, ls
  <2>2. Alike(x, y) /\ x.open = {} /\ x.got = {} /\ y.got = {} /\ y.head = Range(ls)
    BY <1>3, <2>1 DEF AfterOther, Alike
  <2> QED
    BY <1>4, <1>5, <2>2 DEF CompletedSoFar
<1>7. CASE e.role # "assistant"
  <2>1. y = AfterOther(b, {}, {}) /\ x = AfterOther(a, {}, {})
    BY <1>3, <1>7, ScannedAppend
  <2>2. Range(ls) = {}
    BY <1>7 DEF Range
  <2> HIDE DEF a, b, h, ls
  <2>3. Alike(x, y) /\ x.open = {} /\ x.got = {} /\ y.got = {} /\ y.head = Range(ls)
    BY <1>3, <2>1, <2>2 DEF AfterOther, Alike
  <2> QED
    BY <1>4, <1>5, <2>3 DEF CompletedSoFar
<1> QED
  BY <1>6, <1>7

(* The whole of it.                                                         *)
LEMMA CompletedScanned ==
  ASSUME NEW s \in Seq(Rows)
  PROVE  /\ Completed(s) \in Seq(Rows)
         /\ Alike(Scanned(Completed(s)), Scanned(s))
         /\ Scanned(Completed(s)).open = {}
         /\ Scanned(Completed(s)).head \subseteq Scanned(Completed(s)).got
<1> DEFINE base == [out |-> <<>>, calls |-> <<>>, answered |-> {}]
           V == {r \in Seq(Rows) : CompletedSoFar(r, C!Fold(0, base, r))}
<1>1. <<>> \in V
  <2>1. C!Fold(0, base, <<>>) = base
    BY C!FoldEmpty
  <2>2. Range(<<>>) = {} /\ <<>> \in Seq(Rows) /\ <<>> \in Seq(Calls)
    BY DEF Range
  <2>3. Scanned(<<>>) = Start /\ base.out = <<>> /\ base.calls = <<>> /\ base.answered = {}
    BY ScannedEmpty
  <2>4. base \in [out : Seq(Rows), calls : Seq(Calls), answered : SUBSET Calls]
    BY <2>2
  <2> HIDE DEF base
  <2>5. Start.got = {} /\ Start.head = {} /\ Start.open = {}
    BY DEF Start
  <2>6. CompletedSoFar(<<>>, base)
    BY <2>2, <2>3, <2>4, <2>5 DEF CompletedSoFar, Alike
  <2> QED
    BY <2>1, <2>2, <2>6
<1>2. ASSUME NEW r \in Seq(Rows), NEW e \in Rows, r \in V
      PROVE  Append(r, e) \in V
  <2>1. C!Fold(0, base, Append(r, e)) = Complete(C!Fold(0, base, r), e)
    BY C!FoldAppend DEF CompleteStep
  <2> HIDE DEF base
  <2>2. CompletedSoFar(Append(r, e), Complete(C!Fold(0, base, r), e))
    BY <1>2, CompleteTool, CompleteOther
  <2> QED
    BY <2>1, <2>2
<1>3. Seq(Rows) \subseteq V
  <2> HIDE DEF V
  <2> QED
    BY <1>1, <1>2, C!SeqSetInduction
<1> DEFINE end == C!Fold(0, base, s)
<1>4. CompletedSoFar(s, end) /\ Completed(s) = Held(end.out, end.calls, end.answered)
  BY <1>3, CompletedFolds
<1> HIDE DEF end, V
<1>5. HeldAfter(end.out, end.calls, end.answered, Completed(s))
  BY <1>4, HeldScanned DEF CompletedSoFar, Alike
<1> QED
  BY <1>4, <1>5, ScannedTyped DEF HeldAfter, CompletedSoFar, Alike, Scans
-----------------------------------------------------------------------------
(* The calls seen are those whose assistant message stands behind the last  *)
(* user message: what the second loop of sanitizeChatMessages walks back    *)
(* for.                                                                     *)
SeenAt(s, k) ==
  \E j \in 1..Len(s) : /\ s[j].role = "assistant" /\ k \in Range(s[j].ids)
                       /\ \A n \in j..Len(s) : s[n].role # "user"

SeenIsCalled(s) == \A k \in Calls : k \in Scanned(s).seen <=> SeenAt(s, k)

(* One message more.                                                        *)
LEMMA SeenAppend ==
  ASSUME NEW s \in Seq(Rows), NEW e \in Rows, SeenIsCalled(s)
  PROVE  SeenIsCalled(Append(s, e))
<1> DEFINE t == Append(s, e)
           l == Len(s) + 1
<1>1. /\ t \in Seq(Rows) /\ Len(t) = l /\ Len(s) \in Nat
      /\ t[l] = e /\ \A i \in 1..Len(s) : t[i] = s[i]
  OBVIOUS
<1>2. Scanned(s) \in Scans
  BY ScannedTyped
<1> HIDE DEF t
<1> SUFFICES ASSUME NEW k \in Calls
             PROVE  k \in Scanned(t).seen <=> SeenAt(t, k)
  BY DEF SeenIsCalled, t
<1>3. k \in Scanned(s).seen <=> SeenAt(s, k)
  BY DEF SeenIsCalled
<1>4. e.role # "user" /\ SeenAt(s, k) => SeenAt(t, k)
  <2>1. SUFFICES ASSUME e.role # "user", SeenAt(s, k)
                 PROVE  SeenAt(t, k)
    OBVIOUS
  <2>2. PICK j \in 1..Len(s) : /\ s[j].role = "assistant" /\ k \in Range(s[j].ids)
                               /\ \A n \in j..Len(s) : s[n].role # "user"
    BY <2>1 DEF SeenAt
  <2>3. \A n \in j..l : n = l \/ (n \in j..Len(s) /\ n \in 1..Len(s))
    BY <1>1
  <2>4. j \in 1..l
    BY <1>1
  <2> QED
    BY <1>1, <2>1, <2>2, <2>3, <2>4 DEF SeenAt
<1>5. SeenAt(t, k) =>
        e.role # "user" /\ (SeenAt(s, k) \/ (e.role = "assistant" /\ k \in Range(e.ids)))
  <2>1. SUFFICES ASSUME SeenAt(t, k)
                 PROVE  e.role # "user"
                          /\ (SeenAt(s, k) \/ (e.role = "assistant" /\ k \in Range(e.ids)))
    OBVIOUS
  <2>2. PICK j \in 1..l : /\ t[j].role = "assistant" /\ k \in Range(t[j].ids)
                          /\ \A n \in j..l : t[n].role # "user"
    BY <1>1, <2>1 DEF SeenAt
  <2>3. l \in j..l
    BY <1>1
  <2>4. CASE j = l
    BY <1>1, <2>2, <2>3, <2>4
  <2>5. CASE j # l
    <3>1. j \in 1..Len(s) /\ \A n \in j..Len(s) : n \in j..l /\ n \in 1..Len(s)
      BY <1>1, <2>5
    <3>2. SeenAt(s, k)
      BY <1>1, <2>2, <3>1 DEF SeenAt
    <3> QED
      BY <1>1, <2>2, <2>3, <3>2
  <2> QED
    BY <2>4, <2>5
<1>6. e.role = "assistant" /\ k \in Range(e.ids) => SeenAt(t, k)
  <2>1. l \in 1..l /\ \A n \in l..l : n = l
    BY <1>1
  <2>2. e.role = "assistant" => e.role # "user"
    OBVIOUS
  <2> QED
    BY <1>1, <2>1, <2>2 DEF SeenAt
<1>7. CASE e.role = "tool"
  <2>1. Scanned(t) = AfterTool(Scanned(s), e.ids[1])
    BY <1>7, ScannedAppend DEF t
  <2>2. Scanned(t).seen = Scanned(s).seen
    BY <2>1 DEF AfterTool
  <2> QED
    BY <1>3, <1>4, <1>5, <1>7, <2>2
<1>8. CASE e.role = "assistant"
  <2>1. Scanned(t).seen = Scanned(s).seen \cup Range(e.ids)
    BY <1>8, ScannedAppend DEF AfterOther, t
  <2> QED
    BY <1>3, <1>4, <1>5, <1>6, <1>8, <2>1
<1>9. CASE e.role = "user"
  <2>1. Scanned(t).seen = {}
    BY <1>9, ScannedAppend DEF AfterOther, t
  <2> QED
    BY <1>5, <1>9, <2>1
<1> QED
  BY <1>7, <1>8, <1>9, RowForms

(* For every history.                                                       *)
LEMMA SeenCalled ==
  ASSUME NEW s \in Seq(Rows)
  PROVE  SeenIsCalled(s)
<1> DEFINE V == {r \in Seq(Rows) : SeenIsCalled(r)}
<1>1. <<>> \in V
  <2>1. Scanned(<<>>).seen = {} /\ Len(<<>>) = 0 /\ 1..0 = {}
    BY ScannedEmpty DEF Start
  <2> QED
    BY <2>1 DEF SeenIsCalled, SeenAt
<1>2. ASSUME NEW r \in Seq(Rows), NEW e \in Rows, r \in V
      PROVE  Append(r, e) \in V
  BY <1>2, SeenAppend
<1>3. Seq(Rows) \subseteq V
  <2> HIDE DEF V
  <2> QED
    BY <1>1, <1>2, S!SeqSetInduction
<1> QED
  BY <1>3

(* The first n messages.                                                    *)
Prefix(s, n) == SubSeq(s, 1, n)

(* A prefix with one message more.                                          *)
LEMMA PrefixNext ==
  ASSUME NEW s \in Seq(Rows), NEW n \in Nat, n + 1 <= Len(s)
  PROVE  /\ Prefix(s, n) \in Seq(Rows) /\ Len(Prefix(s, n)) = n
         /\ \A i \in 1..n : Prefix(s, n)[i] = s[i]
         /\ s[n + 1] \in Rows
         /\ Prefix(s, n + 1) = Append(Prefix(s, n), s[n + 1])
<1>1. Prefix(s, n) \in Seq(Rows) /\ Len(Prefix(s, n)) = n /\ \A i \in 1..n : Prefix(s, n)[i] = s[i]
  BY DEF Prefix
<1>2. Prefix(s, n + 1) \in Seq(Rows) /\ Len(Prefix(s, n + 1)) = n + 1
      /\ \A i \in 1..(n + 1) : Prefix(s, n + 1)[i] = s[i]
  BY DEF Prefix
<1>3. s[n + 1] \in Rows
  OBVIOUS
<1> DEFINE p == Prefix(s, n)
           q == Prefix(s, n + 1)
<1> HIDE DEF p, q
<1>4. q = Append(p, s[n + 1])
  BY <1>1, <1>2, <1>3 DEF p, q
<1> QED
  BY <1>1, <1>3, <1>4 DEF p, q

(* The search of the second loop finds the calls that the walk has seen.    *)
LEMMA CalledIsSeen ==
  ASSUME NEW s \in Seq(Rows), NEW n \in Nat, n + 1 <= Len(s), s[n + 1].role = "tool"
  PROVE  Called(s, n + 1) <=> s[n + 1].ids[1] \in Scanned(Prefix(s, n)).seen
<1> DEFINE p == Prefix(s, n)
           k == s[n + 1].ids[1]
<1>1. p \in Seq(Rows) /\ Len(p) = n /\ (\A i \in 1..n : p[i] = s[i]) /\ (n + 1) - 1 = n
  BY PrefixNext
<1>2. k \in Calls
  BY PrefixNext, RowForms
<1> HIDE DEF p, k
<1>3. k \in Scanned(p).seen <=> SeenAt(p, k)
  BY <1>1, <1>2, SeenCalled DEF SeenIsCalled
<1>4. \A j \in 1..n : \A i \in j..n : i \in 1..n
  OBVIOUS
<1>5. \A j \in 1..n : (\A i \in j..n : p[i].role # "user") <=> (\A i \in j..n : s[i].role # "user")
  BY <1>1, <1>4
<1>6. SeenAt(p, k) <=> \E j \in 1..n : /\ s[j].role = "assistant" /\ k \in Range(s[j].ids)
                                       /\ \A i \in j..n : s[i].role # "user"
  BY <1>1, <1>5 DEF SeenAt
<1> QED
  BY <1>1, <1>3, <1>6 DEF Called, k, p
-----------------------------------------------------------------------------
(* A walk over what is kept, against one over what there was: dropped       *)
(* messages answer no call of the head, and none that is kept is stray that *)
(* was not loose.                                                           *)
KeptLike(a, b) ==
  /\ a.seen = b.seen /\ a.head = b.head
  /\ a.got \cap b.head = b.got \cap b.head
  /\ a.open \subseteq b.open /\ a.stray \subseteq b.loose

(* The two walks stay alike.                                                *)
LEMMA KeptLikeSteps ==
  ASSUME NEW a \in Scans, NEW b \in Scans, KeptLike(a, b), b.head \subseteq b.seen
  PROVE  /\ \A k \in b.seen : KeptLike(AfterTool(a, k), AfterTool(b, k))
         /\ \A k \in Calls \ b.seen : KeptLike(a, AfterTool(b, k))
         /\ \A ks : KeptLike(AfterOther(a, a.seen \cup ks, ks), AfterOther(b, b.seen \cup ks, ks))
         /\ KeptLike(AfterOther(a, {}, {}), AfterOther(b, {}, {}))
<1>1. ASSUME NEW k \in b.seen
      PROVE  KeptLike(AfterTool(a, k), AfterTool(b, k))
  <2>1. (a.got \cup {k}) \cap b.head = (b.got \cup {k}) \cap b.head
    BY DEF KeptLike
  <2>2. a.stray \cup ({k} \ a.head) \subseteq b.loose \cup ({k} \cap (b.seen \ b.head))
    BY DEF KeptLike
  <2> QED
    BY <2>1, <2>2 DEF KeptLike, AfterTool
<1>2. ASSUME NEW k \in Calls \ b.seen
      PROVE  KeptLike(a, AfterTool(b, k))
  <2>1. a.got \cap b.head = (b.got \cup {k}) \cap b.head
    BY DEF KeptLike
  <2>2. a.stray \subseteq b.loose \cup ({k} \cap (b.seen \ b.head))
    BY DEF KeptLike
  <2> QED
    BY <2>1, <2>2 DEF KeptLike, AfterTool
<1>3. a.head \ a.got = b.head \ b.got
  BY DEF KeptLike
<1>4. a.open \cup (a.head \ a.got) \subseteq b.open \cup (b.head \ b.got)
  BY <1>3 DEF KeptLike
<1>5. \A ks : KeptLike(AfterOther(a, a.seen \cup ks, ks), AfterOther(b, b.seen \cup ks, ks))
  BY <1>4 DEF KeptLike, AfterOther
<1>6. KeptLike(AfterOther(a, {}, {}), AfterOther(b, {}, {}))
  BY <1>4 DEF KeptLike, AfterOther
<1> QED
  BY <1>1, <1>2, <1>5, <1>6

(* What the second loop has made of the first n messages.                   *)
KeptSoFar(s, n, r) == r \in Seq(Rows) /\ KeptLike(Scanned(r), Scanned(Prefix(s, n)))

(* One message kept or dropped.                                             *)
LEMMA KeepOne ==
  ASSUME NEW s \in Seq(Rows), NEW n \in Nat, n + 1 <= Len(s), NEW r, KeptSoFar(s, n, r)
  PROVE  KeptSoFar(s, n + 1, KeepIf(s, r, n + 1))
<1> DEFINE e == s[n + 1]
           k == e.ids[1]
           p == Prefix(s, n)
           q == KeepIf(s, r, n + 1)
           a == Scanned(r)
           b == Scanned(p)
           c == Scanned(q)
           d == Scanned(Append(p, e))
<1>1. p \in Seq(Rows) /\ e \in Rows /\ Prefix(s, n + 1) = Append(p, e)
  BY PrefixNext
<1>2. r \in Seq(Rows) /\ a \in Scans /\ b \in Scans /\ b.head \subseteq b.seen
  BY <1>1, ScannedTyped, ScannedWalked DEF KeptSoFar, Walked
<1>3. KeptLike(a, b)
  BY DEF KeptSoFar
<1>4. Scanned(Prefix(s, n + 1)) = d
  BY <1>1
<1>5. SUFFICES q \in Seq(Rows) /\ KeptLike(c, d)
  BY <1>4 DEF KeptSoFar
<1>6. CASE e.role = "tool"
  <2>1. k \in Calls /\ d = AfterTool(b, k)
    BY <1>1, <1>6, RowForms, ScannedAppend
  <2>2. Called(s, n + 1) <=> k \in b.seen
    BY <1>6, CalledIsSeen
  <2>3. CASE k \in b.seen
    <3>1. q = Append(r, e)
      BY <2>2, <2>3 DEF KeepIf
    <3>2. q \in Seq(Rows)
      <4> HIDE DEF a, b, p, q, e, k
      <4> QED
        BY <1>1, <1>2, <3>1
    <3>3. c = AfterTool(a, k)
      BY <1>1, <1>2, <1>6, <3>1, ScannedAppend
    <3> HIDE DEF a, b, c, d, q, k
    <3> QED
      BY <1>2, <1>3, <2>1, <2>3, <3>2, <3>3, KeptLikeSteps
  <2>4. CASE k \notin b.seen
    <3>1. q = r
      BY <1>6, <2>2, <2>4 DEF KeepIf
    <3>2. c = a
      BY <3>1
    <3> HIDE DEF a, b, c, d, q, k
    <3> QED
      BY <1>2, <1>3, <2>1, <2>4, <3>1, <3>2, KeptLikeSteps
  <2> QED
    BY <2>3, <2>4
<1>7. CASE e.role # "tool"
  <2>1. q = Append(r, e)
    BY <1>7 DEF KeepIf
  <2>2. q \in Seq(Rows)
    <3> HIDE DEF a, b, p, q, e, k
    <3> QED
      BY <1>1, <1>2, <2>1
  <2>3. CASE e.role = "assistant"
    <3>1. /\ d = AfterOther(b, b.seen \cup Range(e.ids), Range(e.ids))
          /\ c = AfterOther(a, a.seen \cup Range(e.ids), Range(e.ids))
      BY <1>1, <1>2, <2>1, <2>3, ScannedAppend
    <3> HIDE DEF a, b, c, d, q, e
    <3> QED
      BY <1>2, <1>3, <2>2, <3>1, KeptLikeSteps
  <2>4. CASE e.role # "assistant"
    <3>1. d = AfterOther(b, {}, {}) /\ c = AfterOther(a, {}, {})
      BY <1>1, <1>2, <1>7, <2>1, <2>4, ScannedAppend
    <3> HIDE DEF a, b, c, d, q
    <3> QED
      BY <1>2, <1>3, <2>2, <3>1, KeptLikeSteps
  <2> QED
    BY <2>3, <2>4
<1> QED
  BY <1>6, <1>7

Places(n) == [i \in 1..n |-> i]

(* The places of n messages, and one more.                                  *)
LEMMA PlacesNext ==
  ASSUME NEW n \in Nat
  PROVE  Places(n) \in Seq(Nat) /\ Places(n + 1) = Append(Places(n), n + 1)
<1>1. Places(n) \in Seq(Nat) /\ Len(Places(n)) = n /\ \A i \in 1..n : Places(n)[i] = i
  BY DEF Places
<1>2. /\ Places(n + 1) \in Seq(Nat) /\ Len(Places(n + 1)) = n + 1
      /\ \A i \in 1..(n + 1) : Places(n + 1)[i] = i
  BY DEF Places
<1> DEFINE p == Places(n)
           q == Places(n + 1)
<1> HIDE DEF p, q
<1>3. q = Append(p, n + 1)
  BY <1>1, <1>2 DEF p, q
<1> QED
  BY <1>1, <1>3 DEF p, q

(* The second loop over all of them.                                        *)
LEMMA KeepScanned ==
  ASSUME NEW s \in Seq(Rows)
  PROVE  KeptSoFar(s, Len(s), Keep(s))
<1> DEFINE F(n) == K!Fold(s, <<>>, Places(n))
           N == {n \in Nat : n <= Len(s) => KeptSoFar(s, n, F(n))}
<1>1. 0 \in N
  <2>1. Places(0) = <<>> /\ Prefix(s, 0) = <<>> /\ <<>> \in Seq(Rows)
    BY DEF Places, Prefix
  <2>2. F(0) = <<>>
    BY <2>1, K!FoldEmpty
  <2>3. KeptSoFar(s, 0, <<>>)
    BY <2>1, ScannedEmpty DEF KeptSoFar, KeptLike, Start
  <2> QED
    BY <2>2, <2>3
<1>2. ASSUME NEW n \in Nat, n \in N
      PROVE  n + 1 \in N
  <2> SUFFICES ASSUME n + 1 <= Len(s)
               PROVE  KeptSoFar(s, n + 1, F(n + 1))
    OBVIOUS
  <2>1. n <= Len(s) /\ n + 1 \in Nat
    OBVIOUS
  <2>2. KeptSoFar(s, n, F(n))
    BY <1>2, <2>1
  <2>3. K!Fold(s, <<>>, Append(Places(n), n + 1)) = KeepStep(s, F(n), n + 1)
    <3>1. Places(n) \in Seq(Nat)
      BY PlacesNext
    <3> HIDE DEF N
    <3> QED
      BY <2>1, <3>1, K!FoldAppend
  <2>4. F(n + 1) = KeepIf(s, F(n), n + 1)
    BY <2>3, PlacesNext DEF KeepStep
  <2> HIDE DEF F, N
  <2> QED
    BY <2>2, <2>4, KeepOne
<1>3. Nat \subseteq N
  <2> HIDE DEF N
  <2> QED
    BY <1>1, <1>2, K!NatSetInduction
<1>4. Len(s) \in Nat /\ [i \in DOMAIN s |-> i] = Places(Len(s))
  BY DEF Places
<1> QED
  BY <1>3, <1>4, KeepFolds

(* sanitizeChatMessages makes a history acceptable whose tool messages that *)
(* answer a call already seen all stand behind the message that made it,    *)
(* and leaves its last calls as they were.                                  *)
LEMMA SanitizedAccepted ==
  ASSUME NEW s \in Seq(Rows), Scanned(s).loose = {}
  PROVE  Sanitized(s) \in Seq(Rows) /\ Accepted(Sanitized(s))
<1> DEFINE c == Completed(s)
           a == Scanned(Keep(c))
           b == Scanned(c)
<1>1. c \in Seq(Rows) /\ b.loose = {} /\ b.open = {} /\ b.head \subseteq b.got
  BY CompletedScanned DEF Alike
<1>2. Prefix(c, Len(c)) = c
  BY <1>1 DEF Prefix
<1>3. KeptSoFar(c, Len(c), Keep(c))
  BY <1>1, KeepScanned
<1> HIDE DEF c
<1>4. /\ Keep(c) \in Seq(Rows) /\ a.head = b.head /\ a.got \cap b.head = b.got \cap b.head
      /\ a.open \subseteq b.open /\ a.stray \subseteq b.loose
  BY <1>2, <1>3 DEF KeptSoFar, KeptLike
<1>5. a.open = {} /\ a.stray = {} /\ a.head \subseteq a.got
  BY <1>1, <1>4
<1> QED
  BY <1>4, <1>5 DEF Sanitized, Accepted, c
-----------------------------------------------------------------------------
(* Types.                                                                   *)
PCs == {"none", "spawned", "registered", "loaded", "boundary", "llm", "final", "calls",
        "confirming", "ending", "announcing", "done", "dead"}

Turns == [pc : PCs, conn : Conns \cup {None}, live : BOOLEAN, chat : Seq(Rows),
          calls : Seq(Calls), answers : Nat, loops : Nat, errs : Nat]

Connections == [Conns -> [processing : BOOLEAN, cancel : Msgs \cup {None}]]

Typed ==
  /\ conn \in Connections
  /\ turn \in [Msgs -> Turns]
  /\ cancels \in Msgs \cup {None} /\ pending \in Msgs \cup {None}
  /\ mailbox \in Seq(Msgs) /\ log \in Seq(Rows)
  /\ todo \in SUBSET Msgs /\ fresh \in SUBSET Calls /\ faults \in Nat
  /\ \A t \in Msgs : turn[t].pc = "confirming" => turn[t].calls # <<>>

Bounded ==
  /\ Len(mailbox) <= MailboxSize /\ Range(mailbox) \cap todo = {}
  /\ \A t \in Msgs : turn[t].loops <= MaxTurns /\ turn[t].errs < LlmAttempts

(* A sanitized history is a history.                                        *)
LEMMA SanitizedTyped ==
  ASSUME NEW s \in Seq(Rows)
  PROVE  Sanitized(s) \in Seq(Rows)
BY CompletedScanned, KeepScanned DEF KeptSoFar, Sanitized

(* A turn that begins or ends, with its fields.                             *)
LEMMA NewTurnTyped ==
  ASSUME NEW pc \in PCs, NEW c \in Conns \cup {None}, NEW live \in BOOLEAN
  PROVE  [NewTurn EXCEPT !.pc = pc, !.conn = c, !.live = live] \in Turns
<1>1. <<>> \in Seq(Rows) /\ <<>> \in Seq(Calls) /\ 0 \in Nat
  OBVIOUS
<1> QED
  BY <1>1 DEF NewTurn, Turns

(* The forms of the turns that begin and end.                               *)
LEMMA NewTurns ==
  /\ NewTurn \in Turns
  /\ \A pc \in PCs : [NewTurn EXCEPT !.pc = pc] \in Turns
  /\ \A pc \in PCs, c \in Conns \cup {None} : [NewTurn EXCEPT !.pc = pc, !.conn = c] \in Turns
<1>1. <<>> \in Seq(Rows) /\ <<>> \in Seq(Calls) /\ 0 \in Nat /\ "none" \in PCs
  BY DEF PCs
<1>2. NewTurn \in Turns
  BY <1>1 DEF NewTurn, Turns
<1>3. \A pc \in PCs : [NewTurn EXCEPT !.pc = pc] \in Turns
  BY <1>1 DEF NewTurn, Turns
<1>4. \A pc \in PCs, c \in Conns \cup {None} : [NewTurn EXCEPT !.pc = pc, !.conn = c] \in Turns
  BY <1>1 DEF NewTurn, Turns
<1> QED
  BY <1>2, <1>3, <1>4

(* Where a step moves a turn: what it leaves alone is the connection and    *)
(* the context.                                                             *)
Fields == {"pc", "conn", "live", "chat", "calls", "answers", "loops", "errs"}

Moved(x, r, pc, chat, calls, answers, loops, errs) ==
  /\ x = [f \in Fields |-> x[f]]
  /\ x.pc = pc /\ x.conn = r.conn /\ x.live = r.live /\ x.chat = chat
  /\ x.calls = calls /\ x.answers = answers /\ x.loops = loops /\ x.errs = errs

(* A turn that has moved is a turn.                                         *)
LEMMA MovedTyped ==
  ASSUME NEW r \in Turns, NEW pc \in PCs, NEW chat \in Seq(Rows), NEW calls \in Seq(Calls),
         NEW answers \in Nat, NEW loops \in Nat, NEW errs \in Nat,
         NEW x, Moved(x, r, pc, chat, calls, answers, loops, errs)
  PROVE  x \in Turns
<1>1. x = [pc |-> pc, conn |-> r.conn, live |-> r.live, chat |-> chat,
           calls |-> calls, answers |-> answers, loops |-> loops, errs |-> errs]
  BY DEF Moved, Fields
<1> QED
  BY <1>1 DEF Turns

(* What is stored is a message, or nothing is.                              *)
LEMMA LogTyped ==
  ASSUME Typed, NEW e \in Rows, AppendMessage(e)
  PROVE  log' \in Seq(Rows) /\ log' \in {log, Append(log, e)} /\ faults' \in Nat
<1>1. log \in Seq(Rows) /\ Append(log, e) \in Seq(Rows)
  BY DEF Typed
<1>2. CASE log' = Append(log, e) /\ UNCHANGED faults
  BY <1>1, <1>2 DEF Typed
<1>3. CASE faults < MaxFaults /\ faults' = faults + 1 /\ UNCHANGED log
  BY <1>1, <1>3 DEF Typed
<1> QED
  BY <1>2, <1>3 DEF AppendMessage

(* The same under a context that may be over.                               *)
LEMMA LogTypedCtx ==
  ASSUME Typed, NEW e \in Rows, NEW t \in Msgs, AppendMessageCtx(t, e)
  PROVE  log' \in Seq(Rows) /\ log' \in {log, Append(log, e)} /\ faults' \in Nat
BY LogTyped DEF Typed, AppendMessageCtx

(* The follow-ups as messages, and what of them is stored.                  *)
Steered == [i \in DOMAIN mailbox |-> User(mailbox[i])]

(* The follow-ups are messages of users, with or without the one whose      *)
(* write failed.                                                            *)
LEMMA SteeredTyped ==
  ASSUME Typed
  PROVE  /\ Steered \in Seq(Users) /\ Seq(Users) \subseteq Seq(Rows)
         /\ Len(Steered) = Len(mailbox) /\ Range(Steered) = {User(m) : m \in Range(mailbox)}
         /\ \A i \in DOMAIN Steered : RemoveAt(Steered, i) \in Seq(Users)
<1>1. mailbox \in Seq(Msgs) /\ DOMAIN mailbox = 1..Len(mailbox) /\ Len(mailbox) \in Nat
  BY DEF Typed
<1>2. \A i \in DOMAIN mailbox : User(mailbox[i]) \in Users
  BY <1>1 DEF Users
<1>3. Steered \in [1..Len(mailbox) -> Users]
  BY <1>1, <1>2 DEF Steered
<1>4. Steered \in Seq(Users) /\ Len(Steered) = Len(mailbox)
  BY <1>1, <1>3
<1>5. Range(Steered) = {User(m) : m \in Range(mailbox)}
  BY <1>1 DEF Steered, Range
<1>6. ASSUME NEW s \in Seq(Users), NEW i \in DOMAIN s
      PROVE  RemoveAt(s, i) \in Seq(Users)
  <2>1. SubSeq(s, 1, i - 1) \in Seq(Users)
    OBVIOUS
  <2>2. SubSeq(s, i + 1, Len(s)) \in Seq(Users)
    OBVIOUS
  <2>3. RemoveAt(s, i) = SubSeq(s, 1, i - 1) \o SubSeq(s, i + 1, Len(s))
    BY DEF RemoveAt
  <2> QED
    BY <2>1, <2>2, <2>3
<1> QED
  BY <1>4, <1>5, <1>6 DEF Rows

(* The chat and the log at the top of the loop.                             *)
LEMMA BoundaryLog ==
  ASSUME Typed, NEW t \in Msgs, Boundary(t)
  PROVE  /\ turn' = [turn EXCEPT ![t].pc = "llm", ![t].loops = @ + 1,
                                 ![t].chat = Sanitized(@) \o Steered]
         /\ \E us \in Seq(Users) : log' = log \o us /\ (faults' = 0 => us = Steered)
         /\ faults' \in Nat /\ faults <= faults'
<1>1. turn' = [turn EXCEPT ![t].pc = "llm", ![t].loops = @ + 1, ![t].chat = Sanitized(@) \o Steered]
  BY DEF Boundary, Steered
<1>2. CASE log' = log \o Steered /\ UNCHANGED faults
  <2>1. faults' \in Nat /\ faults <= faults'
    BY <1>2 DEF Typed
  <2> QED
    BY <1>1, <1>2, <2>1, SteeredTyped
<1>3. CASE /\ faults < MaxFaults /\ faults' = faults + 1
           /\ \E i \in DOMAIN Steered : log' = log \o RemoveAt(Steered, i)
  <2>1. faults' \in Nat /\ faults' # 0 /\ faults <= faults'
    BY <1>3 DEF Typed
  <2> QED
    BY <1>1, <1>3, <2>1, SteeredTyped
<1> QED
  BY <1>2, <1>3 DEF Boundary, Steered

(* The calls of the LLM, in the chat and in what may be stored.             *)
CallsMade(t, ks) ==
  turn' = [turn EXCEPT ![t].pc = "calls", ![t].calls = ks, ![t].errs = 0,
                       ![t].chat = Append(@, Assistant(ks, FALSE))]

(* They are calls not yet made, and what is stored are these calls or       *)
(* nothing.                                                                 *)
LEMMA LlmCallsMade ==
  ASSUME Typed, NEW t \in Msgs, LlmCalls(t)
  PROVE  \E ks \in Seq(Calls), said \in BOOLEAN :
           /\ Range(ks) \subseteq fresh /\ fresh' = fresh \ Range(ks)
           /\ CallsMade(t, ks)
           /\ log' \in {log, Append(log, Assistant(ks, said))} /\ log' \in Seq(Rows)
           /\ faults' \in Nat
<1>1. PICK ks \in UNION {[1..n -> fresh] : n \in {1, 2}}, said \in BOOLEAN :
        /\ CallsMade(t, ks)
        /\ AppendMessage(Assistant(ks, said))
        /\ fresh' = fresh \ Range(ks)
  BY DEF LlmCalls, CallsMade
<1>2. fresh \in SUBSET Calls
  BY DEF Typed
<1>3. PICK n \in {1, 2} : ks \in [1..n -> fresh]
  OBVIOUS
<1>4. ks \in Seq(Calls) /\ Range(ks) \subseteq fresh
  BY <1>2, <1>3 DEF Range
<1>5. log' \in {log, Append(log, Assistant(ks, said))} /\ log' \in Seq(Rows) /\ faults' \in Nat
  BY <1>1, <1>4, RowsMade, LogTyped
<1> QED
  BY <1>1, <1>4, <1>5

(* The result of a call, in the chat and in what may be stored.             *)
LEMMA ResultMade ==
  ASSUME Typed, NEW t \in Msgs, CallTool(t) \/ Answered(t) \/ ConfirmTimesOut(t)
  PROVE  \E k \in Calls :
           /\ turn[t].calls \in Seq(Calls) /\ Tail(turn[t].calls) \in Seq(Calls)
           /\ k \in Range(turn[t].calls)
           /\ Range(Tail(turn[t].calls)) \subseteq Range(turn[t].calls)
           /\ turn' = [turn EXCEPT ![t].pc = "calls", ![t].calls = Tail(@), ![t].answers = 0,
                                   ![t].chat = Append(@, Tool(k))]
           /\ log' \in {log, Append(log, Tool(k))} /\ log' \in Seq(Rows)
           /\ faults' \in Nat
<1> DEFINE ks == turn[t].calls
           k == Head(ks)
<1>1. ks \in Seq(Calls) /\ ks # <<>> /\ Result(t)
  BY DEF Typed, Turns, CallTool, Answered, ConfirmTimesOut
<1>2. /\ k \in Calls /\ k \in Range(ks)
      /\ Tail(ks) \in Seq(Calls) /\ Range(Tail(ks)) \subseteq Range(ks)
  <2> HIDE DEF ks
  <2>1. k \in Calls /\ Tail(ks) \in Seq(Calls) /\ k = ks[1] /\ 1 \in DOMAIN ks
    BY <1>1
  <2>2. \A i \in DOMAIN Tail(ks) : i + 1 \in DOMAIN ks /\ Tail(ks)[i] = ks[i + 1]
    BY <1>1
  <2> QED
    BY <2>1, <2>2 DEF Range
<1>3. turn' = [turn EXCEPT ![t].pc = "calls", ![t].calls = Tail(@), ![t].answers = 0,
                           ![t].chat = Append(@, Tool(k))]
  BY <1>1 DEF Result
<1>4. AppendMessage(Tool(k))
  BY <1>1 DEF Result
<1>5. log' \in {log, Append(log, Tool(k))} /\ log' \in Seq(Rows) /\ faults' \in Nat
  BY <1>2, <1>4, RowsMade, LogTyped
<1> QED
  BY <1>1, <1>2, <1>3, <1>5
-----------------------------------------------------------------------------
(* What a step leaves of the turn that takes it, and of the others.         *)
After(t, pc, chat, calls, answers, loops, errs) ==
  /\ turn' \in [Msgs -> Turns]
  /\ turn'[t].pc = pc /\ turn'[t].chat = chat /\ turn'[t].calls = calls
  /\ turn'[t].answers = answers /\ turn'[t].loops = loops /\ turn'[t].errs = errs
  /\ \A u \in Msgs \ {t} : turn'[u] = turn[u]

(* The fields of a turn.                                                    *)
LEMMA FieldsTyped ==
  ASSUME NEW r \in Turns
  PROVE  /\ r.pc \in PCs /\ r.conn \in Conns \cup {None}
         /\ r.chat \in Seq(Rows) /\ r.calls \in Seq(Calls)
         /\ r.answers \in Nat /\ r.loops \in Nat /\ r.errs \in Nat
         /\ r.answers + 1 \in Nat /\ r.loops + 1 \in Nat /\ r.errs + 1 \in Nat
<1>1. r.answers \in Nat /\ r.loops \in Nat /\ r.errs \in Nat
  BY DEF Turns
<1> QED
  BY <1>1 DEF Turns

(* Every turn is one.                                                       *)
LEMMA TurnTyped ==
  ASSUME Typed
  PROVE  /\ turn \in [Msgs -> Turns]
         /\ \A t \in Msgs : turn[t] \in Turns
BY DEF Typed

(* A record put in the place of a turn.                                     *)
LEMMA TurnPut ==
  ASSUME Typed, NEW t \in Msgs, NEW x \in Turns, turn' = [turn EXCEPT ![t] = x]
  PROVE  turn' \in [Msgs -> Turns] /\ turn'[t] = x /\ \A u \in Msgs \ {t} : turn'[u] = turn[u]
<1> QED
  BY TurnTyped

(* A step that only moves on.                                               *)
LEMMA AfterGoing ==
  ASSUME Typed, NEW t \in Msgs, NEW pc \in PCs, turn' = [turn EXCEPT ![t].pc = pc]
  PROVE  /\ After(t, pc, turn[t].chat, turn[t].calls, turn[t].answers, turn[t].loops, turn[t].errs)
         /\ turn'[t].live = turn[t].live /\ turn'[t].conn = turn[t].conn
<1>1. PICK r \in Turns : r = turn[t]
  BY TurnTyped
<1> DEFINE x == [r EXCEPT !.pc = pc]
<1>2. turn' = [turn EXCEPT ![t] = x]
  BY <1>1, TurnTyped
<1>3. Moved(x, r, pc, r.chat, r.calls, r.answers, r.loops, r.errs)
  BY DEF Moved, Turns, Fields
<1>4. pc \in PCs
  OBVIOUS
<1> HIDE DEF x
<1>5. x \in Turns
  BY <1>3, <1>4, FieldsTyped, MovedTyped
<1>6. turn' \in [Msgs -> Turns] /\ turn'[t] = x /\ \A u \in Msgs \ {t} : turn'[u] = turn[u]
  BY <1>2, <1>5, TurnTyped
<1> QED
  BY <1>1, <1>3, <1>6 DEF After, Moved

(* A failed call of the LLM that is tried again.                            *)
LEMMA AfterRetry ==
  ASSUME Typed, NEW t \in Msgs, LlmRetries(t)
  PROVE  /\ After(t, "boundary", turn[t].chat,
                    turn[t].calls, turn[t].answers, turn[t].loops, turn[t].errs + 1)
         /\ turn'[t].live = turn[t].live /\ turn'[t].conn = turn[t].conn
<1>1. PICK r \in Turns : r = turn[t]
  BY TurnTyped
<1> DEFINE x == [r EXCEPT !.pc = "boundary", !.errs = r.errs + 1]
<1>2. turn' = [turn EXCEPT ![t] = x]
  BY <1>1, TurnTyped DEF LlmRetries
<1>3. Moved(x, r, "boundary", r.chat, r.calls, r.answers, r.loops, r.errs + 1)
  BY DEF Moved, Turns, Fields
<1>4. "boundary" \in PCs /\ 0 \in Nat
  BY DEF PCs
<1> HIDE DEF x
<1>5. x \in Turns
  BY <1>3, <1>4, FieldsTyped, MovedTyped
<1>6. turn' \in [Msgs -> Turns] /\ turn'[t] = x /\ \A u \in Msgs \ {t} : turn'[u] = turn[u]
  BY <1>2, <1>5, TurnTyped
<1> QED
  BY <1>1, <1>3, <1>6 DEF After, Moved

(* A final answer.                                                          *)
LEMMA AfterAnswer ==
  ASSUME Typed, NEW t \in Msgs, LlmAnswers(t)
  PROVE  /\ After(t, "final", turn[t].chat, turn[t].calls, turn[t].answers, turn[t].loops, 0)
         /\ turn'[t].live = turn[t].live /\ turn'[t].conn = turn[t].conn
<1>1. PICK r \in Turns : r = turn[t]
  BY TurnTyped
<1> DEFINE x == [r EXCEPT !.pc = "final", !.errs = 0]
<1>2. turn' = [turn EXCEPT ![t] = x]
  BY <1>1, TurnTyped DEF LlmAnswers
<1>3. Moved(x, r, "final", r.chat, r.calls, r.answers, r.loops, 0)
  BY DEF Moved, Turns, Fields
<1>4. "final" \in PCs /\ 0 \in Nat
  BY DEF PCs
<1> HIDE DEF x
<1>5. x \in Turns
  BY <1>3, <1>4, FieldsTyped, MovedTyped
<1>6. turn' \in [Msgs -> Turns] /\ turn'[t] = x /\ \A u \in Msgs \ {t} : turn'[u] = turn[u]
  BY <1>2, <1>5, TurnTyped
<1> QED
  BY <1>1, <1>3, <1>6 DEF After, Moved

(* A confirmation asked for.                                                *)
LEMMA AfterConfirm ==
  ASSUME Typed, NEW t \in Msgs, SetToolConfirm(t)
  PROVE  /\ After(t, "confirming", turn[t].chat, turn[t].calls, 0, turn[t].loops, turn[t].errs)
         /\ turn'[t].live = turn[t].live /\ turn'[t].conn = turn[t].conn
<1>1. PICK r \in Turns : r = turn[t]
  BY TurnTyped
<1> DEFINE x == [r EXCEPT !.pc = "confirming", !.answers = 0]
<1>2. turn' = [turn EXCEPT ![t] = x]
  BY <1>1, TurnTyped DEF SetToolConfirm
<1>3. Moved(x, r, "confirming", r.chat, r.calls, 0, r.loops, r.errs)
  BY DEF Moved, Turns, Fields
<1>4. "confirming" \in PCs /\ 0 \in Nat
  BY DEF PCs
<1> HIDE DEF x
<1>5. x \in Turns
  BY <1>3, <1>4, FieldsTyped, MovedTyped
<1>6. turn' \in [Msgs -> Turns] /\ turn'[t] = x /\ \A u \in Msgs \ {t} : turn'[u] = turn[u]
  BY <1>2, <1>5, TurnTyped
<1> QED
  BY <1>1, <1>3, <1>6 DEF After, Moved

(* The history loaded.                                                      *)
LEMMA AfterLoad ==
  ASSUME Typed, NEW t \in Msgs, GetMessages(t)
  PROVE  /\ After(t, "loaded", Sanitized(Rebuilt(log)),
                    turn[t].calls, turn[t].answers, turn[t].loops, turn[t].errs)
         /\ turn'[t].live = turn[t].live /\ turn'[t].conn = turn[t].conn
<1>1. PICK r \in Turns : r = turn[t]
  BY TurnTyped
<1>2. PICK s \in Seq(Rows) : s = Sanitized(Rebuilt(log))
  BY RebuiltTyped, SanitizedTyped DEF Typed
<1> DEFINE x == [r EXCEPT !.pc = "loaded", !.chat = s]
<1>3. turn' = [turn EXCEPT ![t] = x]
  <2>1. turn' = [turn EXCEPT ![t].pc = "loaded", ![t].chat = s]
    BY <1>2 DEF GetMessages
  <2> QED
    BY <1>1, <2>1, TurnTyped
<1>4. Moved(x, r, "loaded", s, r.calls, r.answers, r.loops, r.errs)
  BY DEF Moved, Turns, Fields
<1>5. "loaded" \in PCs /\ 0 \in Nat
  BY DEF PCs
<1> HIDE DEF x
<1>6. x \in Turns
  BY <1>4, <1>5, FieldsTyped, MovedTyped
<1>7. turn' \in [Msgs -> Turns] /\ turn'[t] = x /\ \A u \in Msgs \ {t} : turn'[u] = turn[u]
  BY <1>3, <1>6, TurnPut
<1> QED
  BY <1>1, <1>2, <1>4, <1>7 DEF After, Moved

(* The message of the user in the chat.                                     *)
LEMMA AfterUser ==
  ASSUME Typed, NEW t \in Msgs, AppendUser(t)
  PROVE  /\ After(t, "boundary", Append(turn[t].chat, User(t)),
                    turn[t].calls, turn[t].answers, turn[t].loops, turn[t].errs)
         /\ turn'[t].live = turn[t].live /\ turn'[t].conn = turn[t].conn
<1>1. PICK r \in Turns : r = turn[t]
  BY TurnTyped
<1>2. PICK s \in Seq(Rows) : s = Append(r.chat, User(t))
  <2>1. r.chat \in Seq(Rows) /\ User(t) \in Rows
    BY FieldsTyped, RowsMade
  <2>2. Append(r.chat, User(t)) \in Seq(Rows)
    BY <2>1
  <2> QED
    BY <2>2
<1> DEFINE x == [r EXCEPT !.pc = "boundary", !.chat = s]
<1>3. turn' = [turn EXCEPT ![t] = x]
  <2>1. turn' = [turn EXCEPT ![t].pc = "boundary", ![t].chat = s]
    BY <1>1, <1>2, TurnTyped DEF AppendUser
  <2> QED
    BY <1>1, <2>1, TurnTyped
<1>4. Moved(x, r, "boundary", s, r.calls, r.answers, r.loops, r.errs)
  BY DEF Moved, Turns, Fields
<1>5. "boundary" \in PCs /\ 0 \in Nat
  BY DEF PCs
<1> HIDE DEF x
<1>6. x \in Turns
  BY <1>4, <1>5, FieldsTyped, MovedTyped
<1>7. turn' \in [Msgs -> Turns] /\ turn'[t] = x /\ \A u \in Msgs \ {t} : turn'[u] = turn[u]
  BY <1>3, <1>6, TurnPut
<1> QED
  BY <1>1, <1>2, <1>4, <1>7 DEF After, Moved

(* The follow-ups in the chat.                                              *)
LEMMA AfterBoundary ==
  ASSUME Typed, NEW t \in Msgs, Boundary(t)
  PROVE  /\ After(t, "llm", Sanitized(turn[t].chat) \o Steered,
                    turn[t].calls, turn[t].answers, turn[t].loops + 1, turn[t].errs)
         /\ turn'[t].live = turn[t].live /\ turn'[t].conn = turn[t].conn
<1>1. PICK r \in Turns : r = turn[t]
  BY TurnTyped
<1>2. PICK s \in Seq(Rows) : s = Sanitized(r.chat) \o Steered
  <2>1. Sanitized(r.chat) \in Seq(Rows) /\ Steered \in Seq(Rows)
    BY FieldsTyped, SanitizedTyped, SteeredTyped
  <2>2. Sanitized(r.chat) \o Steered \in Seq(Rows)
    BY <2>1
  <2> QED
    BY <2>2
<1> DEFINE x == [r EXCEPT !.pc = "llm", !.loops = r.loops + 1, !.chat = s]
<1>3. turn' = [turn EXCEPT ![t] = x]
  <2>1. turn' = [turn EXCEPT ![t].pc = "llm", ![t].loops = r.loops + 1, ![t].chat = s]
    BY <1>1, <1>2, TurnTyped, BoundaryLog
  <2> QED
    BY <1>1, <2>1, TurnTyped
<1>4. Moved(x, r, "llm", s, r.calls, r.answers, r.loops + 1, r.errs)
  BY DEF Moved, Turns, Fields
<1>5. "llm" \in PCs /\ 0 \in Nat
  BY DEF PCs
<1> HIDE DEF x
<1>6. x \in Turns
  BY <1>4, <1>5, FieldsTyped, MovedTyped
<1>7. turn' \in [Msgs -> Turns] /\ turn'[t] = x /\ \A u \in Msgs \ {t} : turn'[u] = turn[u]
  BY <1>3, <1>6, TurnPut
<1> QED
  BY <1>1, <1>2, <1>4, <1>7 DEF After, Moved

(* The calls of the LLM in the chat.                                        *)
LEMMA AfterCalls ==
  ASSUME Typed, NEW t \in Msgs, NEW ks \in Seq(Calls), CallsMade(t, ks)
  PROVE  /\ After(t, "calls", Append(turn[t].chat, Assistant(ks, FALSE)),
                    ks, turn[t].answers, turn[t].loops, 0)
         /\ turn'[t].live = turn[t].live /\ turn'[t].conn = turn[t].conn
<1>1. PICK r \in Turns : r = turn[t]
  BY TurnTyped
<1>2. PICK s \in Seq(Rows) : s = Append(r.chat, Assistant(ks, FALSE))
  <2>1. PICK e \in Rows : e = Assistant(ks, FALSE)
    BY RowsMade
  <2>2. Append(r.chat, e) \in Seq(Rows)
    BY FieldsTyped
  <2> QED
    BY <2>1, <2>2
<1> DEFINE x == [r EXCEPT !.pc = "calls", !.calls = ks, !.errs = 0, !.chat = s]
<1>3. turn' = [turn EXCEPT ![t] = x]
  <2>1. turn' = [turn EXCEPT ![t].pc = "calls", ![t].calls = ks, ![t].errs = 0, ![t].chat = s]
    BY <1>1, <1>2, TurnTyped DEF CallsMade
  <2> QED
    BY <1>1, <2>1, TurnTyped
<1>4. Moved(x, r, "calls", s, ks, r.answers, r.loops, 0)
  BY DEF Moved, Turns, Fields
<1>5. "calls" \in PCs /\ 0 \in Nat
  BY DEF PCs
<1> HIDE DEF x
<1>6. x \in Turns
  BY <1>4, <1>5, FieldsTyped, MovedTyped
<1>7. turn' \in [Msgs -> Turns] /\ turn'[t] = x /\ \A u \in Msgs \ {t} : turn'[u] = turn[u]
  BY <1>3, <1>6, TurnPut
<1> QED
  BY <1>1, <1>2, <1>4, <1>7 DEF After, Moved

(* The result of a call in the chat.                                        *)
LEMMA AfterResult ==
  ASSUME Typed, NEW t \in Msgs, NEW k \in Calls, NEW ks \in Seq(Calls), ks = Tail(turn[t].calls),
         turn' = [turn EXCEPT ![t].pc = "calls", ![t].calls = Tail(@), ![t].answers = 0,
                              ![t].chat = Append(@, Tool(k))]
  PROVE  /\ After(t, "calls", Append(turn[t].chat, Tool(k)), ks, 0, turn[t].loops, turn[t].errs)
         /\ turn'[t].live = turn[t].live /\ turn'[t].conn = turn[t].conn
<1>1. PICK r \in Turns : r = turn[t]
  BY TurnTyped
<1>2. PICK s \in Seq(Rows) : s = Append(r.chat, Tool(k))
  <2>1. r.chat \in Seq(Rows) /\ Tool(k) \in Rows
    BY FieldsTyped, RowsMade
  <2>2. Append(r.chat, Tool(k)) \in Seq(Rows)
    BY <2>1
  <2> QED
    BY <2>2
<1> DEFINE x == [r EXCEPT !.pc = "calls", !.calls = ks, !.answers = 0, !.chat = s]
<1>3. turn' = [turn EXCEPT ![t] = x]
  <2>1. turn' = [turn EXCEPT ![t].pc = "calls", ![t].calls = ks, ![t].answers = 0, ![t].chat = s]
    BY <1>1, <1>2, TurnTyped
  <2> QED
    BY <1>1, <2>1, TurnTyped
<1>4. Moved(x, r, "calls", s, ks, 0, r.loops, r.errs)
  BY DEF Moved, Turns, Fields
<1>5. "calls" \in PCs /\ 0 \in Nat
  BY DEF PCs
<1> HIDE DEF x
<1>6. x \in Turns
  BY <1>4, <1>5, FieldsTyped, MovedTyped
<1>7. turn' \in [Msgs -> Turns] /\ turn'[t] = x /\ \A u \in Msgs \ {t} : turn'[u] = turn[u]
  BY <1>3, <1>6, TurnPut
<1> QED
  BY <1>1, <1>2, <1>4, <1>7 DEF After, Moved

(* A turn that begins or ends.                                              *)
LEMMA AfterStart ==
  ASSUME Typed, NEW c \in Conns, NEW t \in Msgs, StartTurn(c, t)
  PROVE  After(t, "spawned", <<>>, <<>>, 0, 0, 0) /\ turn'[t].conn = c
<1> DEFINE r == [NewTurn EXCEPT !.pc = "spawned", !.conn = c]
<1>1. turn' = [turn EXCEPT ![t] = r]
  BY DEF StartTurn
<1>2. r \in Turns
  BY NewTurns DEF PCs
<1>3. /\ r.pc = "spawned" /\ r.conn = c /\ r.chat = <<>> /\ r.calls = <<>>
      /\ r.answers = 0 /\ r.loops = 0 /\ r.errs = 0
  BY DEF NewTurn
<1> HIDE DEF r
<1> QED
  BY <1>1, <1>2, <1>3, TurnTyped DEF After

(* The end of a turn.                                                       *)
LEMMA AfterEnd ==
  ASSUME Typed, NEW t \in Msgs, EndTurn(t)
  PROVE  After(t, "announcing", <<>>, <<>>, 0, 0, 0) /\ turn'[t].conn = turn[t].conn
<1> DEFINE r == [NewTurn EXCEPT !.pc = "announcing", !.conn = turn[t].conn, !.live = FALSE]
<1>1. turn' = [turn EXCEPT ![t] = r]
  BY DEF EndTurn
<1>2. r \in Turns
  <2>1. turn[t].conn \in Conns \cup {None} /\ FALSE \in BOOLEAN /\ "announcing" \in PCs
    BY DEF Typed, Turns, PCs
  <2> QED
    BY <2>1, NewTurnTyped
<1>3. /\ r.pc = "announcing" /\ r.conn = turn[t].conn /\ r.chat = <<>> /\ r.calls = <<>>
      /\ r.answers = 0 /\ r.loops = 0 /\ r.errs = 0
  BY DEF NewTurn
<1> HIDE DEF r
<1> QED
  BY <1>1, <1>2, <1>3, TurnTyped DEF After

(* The end announced.                                                       *)
LEMMA AfterAnnounce ==
  ASSUME Typed, NEW t \in Msgs, Announce(t)
  PROVE  After(t, "done", <<>>, <<>>, 0, 0, 0)
<1> DEFINE r == [NewTurn EXCEPT !.pc = "done"]
<1>1. turn' = [turn EXCEPT ![t] = r]
  BY DEF Announce
<1>2. r \in Turns
  BY NewTurns DEF PCs
<1>3. r.pc = "done" /\ r.chat = <<>> /\ r.calls = <<>>
      /\ r.answers = 0 /\ r.loops = 0 /\ r.errs = 0
  BY DEF NewTurn
<1> HIDE DEF r
<1> QED
  BY <1>1, <1>2, <1>3, TurnTyped DEF After

(* An answer reaches the turn whose channel is in the map.                  *)
LEMMA AfterResolve ==
  ASSUME Typed, NEW c \in Conns, ResolveToolConfirm(c)
  PROVE  \E t \in Msgs :
           /\ t = pending
           /\ After(t, turn[t].pc, turn[t].chat,
                      turn[t].calls, turn[t].answers + 1, turn[t].loops, turn[t].errs)
           /\ turn'[t].live = turn[t].live /\ turn'[t].conn = turn[t].conn
<1>1. PICK t \in Msgs : t = pending
  BY DEF ResolveToolConfirm, Typed
<1>2. PICK r \in Turns : r = turn[t]
  BY TurnTyped
<1> DEFINE x == [r EXCEPT !.answers = r.answers + 1]
<1>3. turn' = [turn EXCEPT ![t] = x]
  BY <1>1, <1>2, TurnTyped DEF ResolveToolConfirm
<1>4. Moved(x, r, r.pc, r.chat, r.calls, r.answers + 1, r.loops, r.errs)
  BY DEF Moved, Turns, Fields
<1> HIDE DEF x
<1>5. x \in Turns
  BY <1>4, FieldsTyped, MovedTyped
<1>6. turn' \in [Msgs -> Turns] /\ turn'[t] = x /\ \A u \in Msgs \ {t} : turn'[u] = turn[u]
  BY <1>3, <1>5, TurnTyped
<1> QED
  BY <1>1, <1>2, <1>4, <1>6 DEF After, Moved

(* A cancel or a deadline ends contexts, and nothing else of a turn.        *)
Cut(r, q) ==
  /\ q \in Turns /\ (q.live => r.live)
  /\ q.pc = r.pc /\ q.conn = r.conn /\ q.chat = r.chat /\ q.calls = r.calls
  /\ q.answers = r.answers /\ q.loops = r.loops /\ q.errs = r.errs

(* What a cancel and a deadline do to each turn.                            *)
LEMMA AfterCut ==
  ASSUME Typed,
         (\E c \in Conns : Cancel(c)) \/ (\E t \in Msgs : Deadline(t))
  PROVE  turn' \in [Msgs -> Turns] /\ \A t \in Msgs : Cut(turn[t], turn'[t])
<1>1. \A r \in Turns : Cut(r, [r EXCEPT !.live = FALSE]) /\ Cut(r, r)
  BY DEF Turns, Cut
<1>2. ASSUME NEW c \in Conns, Cancel(c), NEW t \in Msgs
      PROVE  Cut(turn[t], turn'[t])
  <2>1. turn' = [u \in Msgs |-> IF u \in {cancels, conn[c].cancel} /\ Live(u)
                                THEN [turn[u] EXCEPT !.live = FALSE] ELSE turn[u]]
    BY <1>2 DEF Cancel
  <2>2. PICK r \in Turns : r = turn[t]
    BY TurnTyped
  <2>3. turn'[t] = [r EXCEPT !.live = FALSE] \/ turn'[t] = r
    BY <2>1, <2>2
  <2> QED
    BY <1>1, <2>2, <2>3, Zenon
<1>3. ASSUME NEW u \in Msgs, Deadline(u), NEW t \in Msgs
      PROVE  Cut(turn[t], turn'[t])
  <2>1. PICK r \in Turns : r = turn[t]
    BY TurnTyped
  <2>2. turn'[t] = [r EXCEPT !.live = FALSE] \/ turn'[t] = r
    BY <1>3, <2>1, TurnTyped DEF Deadline
  <2> QED
    BY <1>1, <2>1, <2>2, Zenon
<1>4. \A t \in Msgs : Cut(turn[t], turn'[t])
  BY <1>2, <1>3
<1>5. DOMAIN turn' = Msgs /\ turn' = [t \in Msgs |-> turn'[t]]
  BY TurnTyped DEF Cancel, Deadline
<1> QED
  BY <1>4, <1>5 DEF Cut

(* A crash ends the turns that are active, and only those.                  *)
LEMMA AfterCrash ==
  ASSUME Typed, Crash
  PROVE  /\ turn' \in [Msgs -> Turns]
         /\ \A t \in Msgs : /\ Active(t) => turn'[t].pc = "dead" /\ turn'[t].answers = 0
                                            /\ turn'[t].loops = 0
                                            /\ turn'[t].errs = 0
                            /\ ~Active(t) => turn'[t] = turn[t]
<1> DEFINE r == [NewTurn EXCEPT !.pc = "dead"]
<1>1. turn' = [t \in Msgs |-> IF Active(t) THEN r ELSE turn[t]]
  BY DEF Crash
<1>2. r \in Turns
  BY NewTurns DEF PCs
<1>3. r.pc = "dead"
      /\ r.answers = 0 /\ r.loops = 0 /\ r.errs = 0
  BY DEF NewTurn
<1> HIDE DEF r
<1> QED
  BY <1>1, <1>2, <1>3, TurnTyped DEF Typed
-----------------------------------------------------------------------------
(* The steps there are, and which of them change what.                      *)
LEMMA Steps ==
  ASSUME [Next]_vars
  PROVE  \/ \E c \in Conns : ResolveToolConfirm(c)
         \/ \E c \in Conns, t \in Msgs : StartTurn(c, t)
         \/ \E c \in Conns, m \in Msgs : Steer(c, m)
         \/ (\E c \in Conns : Cancel(c)) \/ (\E t \in Msgs : Deadline(t))
         \/ \E t \in Msgs : TurnStep(t)
         \/ Crash
         \/ UNCHANGED vars
BY DEF Next, Idle

(* The steps that change the mailbox.                                       *)
LEMMA MailboxSteps ==
  ASSUME [Next]_vars
  PROVE  \/ UNCHANGED mailbox
         \/ \E c \in Conns, m \in Msgs : Steer(c, m)
         \/ \E t \in Msgs : Boundary(t)
         \/ Crash
<1>1. ASSUME NEW t \in Msgs, TurnStep(t)
      PROVE  UNCHANGED mailbox \/ Boundary(t)
  BY <1>1 DEF TurnStep, Register, GetMessages, GetMessagesFails, AppendUser, OutOfTurns, LlmEnds,
     LlmRetries, LlmGivesUp, LlmAnswers, Finish, LlmCalls, CallTool, Answered, ConfirmTimesOut,
     Result, SetToolConfirm, EndTurn, Announce
<1> QED
  BY <1>1, Steps DEF ResolveToolConfirm, StartTurn, Cancel, Deadline, vars

(* The steps that send a message.                                           *)
LEMMA TodoSteps ==
  ASSUME [Next]_vars
  PROVE  \/ UNCHANGED todo
         \/ \E c \in Conns, m \in Msgs : Steer(c, m)
         \/ \E c \in Conns, t \in Msgs : StartTurn(c, t)
<1>1. ASSUME NEW t \in Msgs, TurnStep(t)
      PROVE  UNCHANGED todo
  BY <1>1 DEF TurnStep, Register, GetMessages, GetMessagesFails, AppendUser, Boundary, OutOfTurns,
     LlmEnds, LlmRetries, LlmGivesUp, LlmAnswers, Finish, LlmCalls, CallTool, Answered,
     ConfirmTimesOut, Result, SetToolConfirm, EndTurn, Announce
<1> QED
  BY <1>1, Steps DEF ResolveToolConfirm, Cancel, Deadline, Crash, vars

(* The step that makes calls.                                               *)
LEMMA FreshSteps ==
  ASSUME [Next]_vars
  PROVE  UNCHANGED fresh \/ \E t \in Msgs : LlmCalls(t)
<1>1. ASSUME NEW t \in Msgs, TurnStep(t)
      PROVE  UNCHANGED fresh \/ LlmCalls(t)
  BY <1>1 DEF TurnStep, Register, GetMessages, GetMessagesFails, AppendUser, Boundary, OutOfTurns,
     LlmEnds, LlmRetries, LlmGivesUp, LlmAnswers, Finish, CallTool, Answered, ConfirmTimesOut,
     Result, SetToolConfirm, EndTurn, Announce
<1> QED
  BY <1>1, Steps DEF ResolveToolConfirm, StartTurn, Steer, Cancel, Deadline, Crash, vars

(* The steps that change the confirmation that can be answered.             *)
LEMMA PendingSteps ==
  ASSUME [Next]_vars
  PROVE  \/ UNCHANGED pending
         \/ \E c \in Conns : ResolveToolConfirm(c)
         \/ \E t \in Msgs : SetToolConfirm(t)
         \/ Crash
<1>1. ASSUME NEW t \in Msgs, TurnStep(t)
      PROVE  UNCHANGED pending \/ SetToolConfirm(t)
  BY <1>1 DEF TurnStep, Register, GetMessages, GetMessagesFails, AppendUser, Boundary, OutOfTurns,
     LlmEnds, LlmRetries, LlmGivesUp, LlmAnswers, Finish, LlmCalls, CallTool, Answered,
     ConfirmTimesOut, Result, EndTurn, Announce
<1> QED
  BY <1>1, Steps DEF StartTurn, Steer, Cancel, Deadline, vars

(* The steps that change the entry of sessionCancels.                       *)
LEMMA CancelsSteps ==
  ASSUME [Next]_vars
  PROVE  \/ UNCHANGED cancels
         \/ \E c \in Conns : Cancel(c)
         \/ \E t \in Msgs : Register(t) \/ Announce(t)
         \/ Crash
<1>1. ASSUME NEW t \in Msgs, TurnStep(t)
      PROVE  UNCHANGED cancels \/ Register(t) \/ Announce(t)
  BY <1>1 DEF TurnStep, GetMessages, GetMessagesFails, AppendUser, Boundary, OutOfTurns, LlmEnds,
     LlmRetries, LlmGivesUp, LlmAnswers, Finish, LlmCalls, CallTool, Answered, ConfirmTimesOut,
     Result, SetToolConfirm, EndTurn
<1> QED
  BY <1>1, Steps DEF StartTurn, Steer, ResolveToolConfirm, Deadline, vars

(* The steps that change the connections.                                   *)
LEMMA ConnSteps ==
  ASSUME [Next]_vars
  PROVE  \/ UNCHANGED conn
         \/ \E c \in Conns : Cancel(c)
         \/ \E c \in Conns, t \in Msgs : StartTurn(c, t)
         \/ \E t \in Msgs : Register(t) \/ EndTurn(t)
         \/ Crash
<1>1. ASSUME NEW t \in Msgs, TurnStep(t)
      PROVE  UNCHANGED conn \/ Register(t) \/ EndTurn(t)
  BY <1>1 DEF TurnStep, GetMessages, GetMessagesFails, AppendUser, Boundary, OutOfTurns, LlmEnds,
     LlmRetries, LlmGivesUp, LlmAnswers, Finish, LlmCalls, CallTool, Answered, ConfirmTimesOut,
     Result, SetToolConfirm, Announce
<1> QED
  BY <1>1, Steps DEF Steer, ResolveToolConfirm, Deadline, vars

(* What is stored, in the order of the handler: a message of the user, the  *)
(* text at the end, the calls, a result, the follow-ups.                    *)
LEMMA LogSteps ==
  ASSUME [Next]_vars
  PROVE  \/ UNCHANGED <<log, faults>>
         \/ Crash
         \/ \E t \in Msgs : \/ GetMessagesFails(t) \/ AppendUser(t) \/ Boundary(t)
                            \/ LlmGivesUp(t) \/ Finish(t)
                            \/ LlmCalls(t) \/ CallTool(t) \/ Answered(t) \/ ConfirmTimesOut(t)
<1>1. ASSUME NEW t \in Msgs, TurnStep(t)
      PROVE  \/ UNCHANGED <<log, faults>>
             \/ GetMessagesFails(t) \/ AppendUser(t) \/ Boundary(t)
                            \/ LlmGivesUp(t) \/ Finish(t)
             \/ LlmCalls(t) \/ CallTool(t) \/ Answered(t) \/ ConfirmTimesOut(t)
  BY <1>1 DEF TurnStep, Register, GetMessages, OutOfTurns, LlmEnds, LlmRetries, LlmAnswers,
     SetToolConfirm, EndTurn, Announce
<1> QED
  BY <1>1, Steps DEF Steer, StartTurn, Cancel, ResolveToolConfirm, Deadline, vars
-----------------------------------------------------------------------------
(* Every step keeps the types.                                              *)
LEMMA TypedInit ==
  ASSUME Init
  PROVE  Typed /\ Bounded
<1>1. conn \in Connections
  BY DEF Init, Connections, NewConn
<1>2. turn \in [Msgs -> Turns]
  BY NewTurns DEF Init
<1>3. \A t \in Msgs : turn[t].pc = "none" /\ turn[t].loops = 0 /\ turn[t].errs = 0
  BY DEF Init, NewTurn
<1>4. /\ mailbox \in Seq(Msgs) /\ log \in Seq(Rows) /\ Len(mailbox) = 0 /\ Range(mailbox) = {}
  BY DEF Init, Range
<1>5. 0 <= MaxTurns /\ 0 < LlmAttempts /\ 0 <= MailboxSize
  BY TurnBounds
<1> QED
  BY <1>1, <1>2, <1>3, <1>4, <1>5 DEF Init, Typed, Bounded

(* A turn that moves to a confirmation has a call.                          *)
LEMMA OneTyped ==
  ASSUME Typed, NEW t \in Msgs, NEW pc, NEW chat, NEW calls, NEW answers, NEW loops, NEW errs,
         After(t, pc, chat, calls, answers, loops, errs), pc = "confirming" => calls # <<>>
  PROVE  /\ turn' \in [Msgs -> Turns]
         /\ \A u \in Msgs : turn'[u].pc = "confirming" => turn'[u].calls # <<>>
BY DEF After, Typed

(* The turns keep their types.                                              *)
LEMMA TurnsKept ==
  ASSUME Typed, [Next]_vars
  PROVE  /\ turn' \in [Msgs -> Turns]
         /\ \A u \in Msgs : turn'[u].pc = "confirming" => turn'[u].calls # <<>>
<1>1. ASSUME NEW c \in Conns, ResolveToolConfirm(c)
      PROVE  /\ turn' \in [Msgs -> Turns]
             /\ \A u \in Msgs : turn'[u].pc = "confirming" => turn'[u].calls # <<>>
  <2>1. PICK t \in Msgs :
          After(t, turn[t].pc, turn[t].chat,
                  turn[t].calls, turn[t].answers + 1, turn[t].loops, turn[t].errs)
    BY <1>1, AfterResolve
  <2>2. turn[t].pc = "confirming" => turn[t].calls # <<>>
    BY DEF Typed
  <2> QED
    BY <2>1, <2>2, OneTyped
<1>2. ASSUME NEW c \in Conns, NEW t \in Msgs, StartTurn(c, t)
      PROVE  /\ turn' \in [Msgs -> Turns]
             /\ \A u \in Msgs : turn'[u].pc = "confirming" => turn'[u].calls # <<>>
  BY <1>2, AfterStart, OneTyped
<1>3. ASSUME NEW c \in Conns, NEW m \in Msgs, Steer(c, m)
      PROVE  /\ turn' \in [Msgs -> Turns]
             /\ \A u \in Msgs : turn'[u].pc = "confirming" => turn'[u].calls # <<>>
  BY <1>3 DEF Steer, Typed
<1>4. CASE (\E c \in Conns : Cancel(c)) \/ (\E t \in Msgs : Deadline(t))
  BY <1>4, AfterCut DEF Cut, Typed
<1>5. CASE Crash
  BY <1>5, AfterCrash DEF Typed
<1>6. CASE UNCHANGED vars
  BY <1>6 DEF vars, Typed
<1>7. ASSUME NEW t \in Msgs, TurnStep(t)
      PROVE  \E pc, chat, calls, answers, loops, errs :
               /\ After(t, pc, chat, calls, answers, loops, errs)
               /\ pc = "confirming" => calls # <<>>
  <2>1. CASE \/ Register(t) \/ GetMessagesFails(t) \/ OutOfTurns(t)
             \/ LlmEnds(t) \/ LlmGivesUp(t) \/ Finish(t)
    <3>1. PICK pc \in {"registered", "ending"} : turn' = [turn EXCEPT ![t].pc = pc]
      BY <2>1 DEF Register, GetMessagesFails, OutOfTurns, LlmEnds, LlmGivesUp, Finish
    <3>2. pc \in PCs /\ pc # "confirming"
      BY DEF PCs
    <3> QED
      BY <3>1, <3>2, AfterGoing
  <2>2. CASE GetMessages(t)
    BY <2>2, AfterLoad
  <2>3. CASE AppendUser(t)
    BY <2>3, AfterUser
  <2>4. CASE Boundary(t)
    BY <2>4, AfterBoundary
  <2>5. CASE LlmRetries(t)
    BY <2>5, AfterRetry
  <2>6. CASE LlmAnswers(t)
    BY <2>6, AfterAnswer
  <2>7. CASE LlmCalls(t)
    <3>1. PICK ks \in Seq(Calls) : CallsMade(t, ks)
      BY <2>7, LlmCallsMade
    <3>2. \E chat : After(t, "calls", chat, ks, turn[t].answers, turn[t].loops, 0)
      BY <3>1, AfterCalls
    <3> QED
      BY <3>2
  <2>8. CASE CallTool(t) \/ Answered(t) \/ ConfirmTimesOut(t)
    <3>1. \E chat, calls : After(t, "calls", chat, calls, 0, turn[t].loops, turn[t].errs)
      BY <2>8, ResultMade, AfterResult
    <3> QED
      BY <3>1
  <2>9. CASE SetToolConfirm(t)
    <3>1. turn[t].calls # <<>>
      BY <2>9 DEF SetToolConfirm
    <3> QED
      BY <2>9, <3>1, AfterConfirm
  <2>10. CASE EndTurn(t)
    BY <2>10, AfterEnd
  <2>11. CASE Announce(t)
    BY <2>11, AfterAnnounce
  <2> QED
    BY <1>7, <2>1, <2>2, <2>3, <2>4, <2>5, <2>6, <2>7, <2>8, <2>9, <2>10, <2>11 DEF TurnStep
<1> QED
  BY <1>1, <1>2, <1>3, <1>4, <1>5, <1>6, <1>7, Steps, OneTyped

(* The connections do.                                                      *)
LEMMA ConnKept ==
  ASSUME Typed, [Next]_vars
  PROVE  conn' \in Connections
<1>0. conn \in Connections
  BY DEF Typed
<1>1. ASSUME NEW c \in Conns, Cancel(c)
      PROVE  conn' \in Connections
  BY <1>0, <1>1 DEF Cancel, Connections
<1>2. ASSUME NEW c \in Conns, NEW m \in Msgs, StartTurn(c, m)
      PROVE  conn' \in Connections
  BY <1>0, <1>2 DEF StartTurn, Connections
<1>3. ASSUME NEW t \in Msgs, Register(t)
      PROVE  conn' \in Connections
  <2>1. conn' = [conn EXCEPT ![turn[t].conn].cancel = t]
    BY <1>3 DEF Register
  <2> QED
    BY <1>0, <2>1 DEF Connections
<1>4. ASSUME NEW t \in Msgs, EndTurn(t)
      PROVE  conn' \in Connections
  <2>1. conn' = [conn EXCEPT ![turn[t].conn].cancel = None, ![turn[t].conn].processing = FALSE]
    BY <1>4 DEF EndTurn
  <2> QED
    BY <1>0, <2>1 DEF Connections
<1>5. CASE Crash
  BY <1>5 DEF Crash, Connections, NewConn
<1> QED
  BY <1>0, <1>1, <1>2, <1>3, <1>4, <1>5, ConnSteps

(* The log and the number of faults do.                                     *)
LEMMA LogKept ==
  ASSUME Typed, [Next]_vars
  PROVE  log' \in Seq(Rows) /\ faults' \in Nat
<1>0. log \in Seq(Rows) /\ faults \in Nat
  BY DEF Typed
<1>1. CASE UNCHANGED <<log, faults>>
  BY <1>0, <1>1
<1>2. CASE Crash
  BY <1>0, <1>2 DEF Crash
<1>3. ASSUME NEW t \in Msgs, GetMessagesFails(t)
      PROVE  log' \in Seq(Rows) /\ faults' \in Nat
  BY <1>0, <1>3 DEF GetMessagesFails
<1>4. ASSUME NEW t \in Msgs, AppendUser(t)
      PROVE  log' \in Seq(Rows) /\ faults' \in Nat
  BY <1>4, RowsMade, LogTypedCtx DEF AppendUser
<1>5. ASSUME NEW t \in Msgs, Boundary(t)
      PROVE  log' \in Seq(Rows) /\ faults' \in Nat
  <2>1. PICK us \in Seq(Users) : log' = log \o us /\ faults' \in Nat
    BY <1>5, BoundaryLog
  <2>2. us \in Seq(Rows)
    BY SteeredTyped
  <2> QED
    BY <1>0, <2>1, <2>2
<1>6. ASSUME NEW t \in Msgs, LlmGivesUp(t) \/ Finish(t)
      PROVE  log' \in Seq(Rows) /\ faults' \in Nat
  <2>1. Assistant(<<>>, TRUE) \in Rows
    <3>1. <<>> \in Seq(Calls) /\ TRUE \in BOOLEAN
      OBVIOUS
    <3> QED
      BY <3>1, RowsMade
  <2> QED
    BY <1>6, <2>1, LogTyped, LogTypedCtx DEF LlmGivesUp, Finish
<1>7. ASSUME NEW t \in Msgs, LlmCalls(t)
      PROVE  log' \in Seq(Rows) /\ faults' \in Nat
  BY <1>7, LlmCallsMade
<1>8. ASSUME NEW t \in Msgs, CallTool(t) \/ Answered(t) \/ ConfirmTimesOut(t)
      PROVE  log' \in Seq(Rows) /\ faults' \in Nat
  BY <1>8, ResultMade
<1> QED
  BY <1>1, <1>2, <1>3, <1>4, <1>5, <1>6, <1>7, <1>8, LogSteps

(* The mailbox does, with its bound and apart from what is to be sent.      *)
LEMMA MailboxKept ==
  ASSUME Typed, Bounded, [Next]_vars
  PROVE  /\ mailbox' \in Seq(Msgs) /\ todo' \in SUBSET Msgs
         /\ Len(mailbox') <= MailboxSize /\ Range(mailbox') \cap todo' = {}
<1>0. /\ mailbox \in Seq(Msgs) /\ todo \in SUBSET Msgs
      /\ Len(mailbox) <= MailboxSize /\ Range(mailbox) \cap todo = {}
  BY DEF Typed, Bounded
<1>1. ASSUME NEW c \in Conns, NEW m \in Msgs, Steer(c, m)
      PROVE  /\ mailbox' \in Seq(Msgs) /\ todo' \in SUBSET Msgs
             /\ Len(mailbox') <= MailboxSize /\ Range(mailbox') \cap todo' = {}
  <2>1. mailbox' = Append(mailbox, m) /\ todo' = todo \ {m} /\ Len(mailbox) < MailboxSize
    BY <1>1 DEF Steer
  <2>2. mailbox' \in Seq(Msgs) /\ Range(mailbox') = Range(mailbox) \cup {m}
    BY <1>0, <2>1, RangeAppend
  <2>3. Len(mailbox') = Len(mailbox) + 1 /\ Len(mailbox) \in Nat /\ MailboxSize \in Nat
    BY <1>0, <2>1, TurnBounds
  <2> QED
    BY <1>0, <2>1, <2>2, <2>3
<1>2. CASE mailbox' = <<>> /\ UNCHANGED todo
  <2>1. <<>> \in Seq(Msgs) /\ Len(<<>>) = 0 /\ Range(<<>>) = {}
    BY DEF Range
  <2> QED
    BY <1>0, <1>2, <2>1, TurnBounds
<1>3. CASE UNCHANGED mailbox /\ todo' \in SUBSET todo
  BY <1>0, <1>3
<1>4. ASSUME NEW t \in Msgs, Boundary(t)
      PROVE  mailbox' = <<>> /\ UNCHANGED todo
  BY <1>4 DEF Boundary
<1>5. ASSUME Crash
      PROVE  mailbox' = <<>> /\ UNCHANGED todo
  BY <1>5 DEF Crash
<1>6. UNCHANGED mailbox => (todo' \in SUBSET todo \/ \E c \in Conns, m \in Msgs : Steer(c, m))
  BY TodoSteps DEF StartTurn
<1> QED
  BY <1>1, <1>2, <1>3, <1>4, <1>5, <1>6, MailboxSteps

(* The counts of a turn stay in their bounds.                               *)
LEMMA CountsKept ==
  ASSUME Typed, Bounded, [Next]_vars
  PROVE  \A u \in Msgs : turn'[u].loops <= MaxTurns /\ turn'[u].errs < LlmAttempts
<1>0. \A u \in Msgs : turn[u].loops <= MaxTurns /\ turn[u].errs < LlmAttempts
  BY DEF Bounded
<1>1. 0 <= MaxTurns /\ 0 < LlmAttempts
  BY TurnBounds
<1>2. ASSUME NEW t \in Msgs, TurnStep(t)
      PROVE  \E pc, chat, calls, answers, loops, errs :
               /\ After(t, pc, chat, calls, answers, loops, errs)
               /\ loops <= MaxTurns /\ errs < LlmAttempts
  <2>1. CASE \/ Register(t) \/ GetMessagesFails(t) \/ OutOfTurns(t)
             \/ LlmEnds(t) \/ LlmGivesUp(t) \/ Finish(t)
    <3>1. PICK pc \in {"registered", "ending"} : turn' = [turn EXCEPT ![t].pc = pc]
      BY <2>1 DEF Register, GetMessagesFails, OutOfTurns, LlmEnds, LlmGivesUp, Finish
    <3>2. pc \in PCs
      BY DEF PCs
    <3> QED
      BY <1>0, <3>1, <3>2, AfterGoing
  <2>2. CASE GetMessages(t)
    BY <1>0, <2>2, AfterLoad
  <2>3. CASE AppendUser(t)
    BY <1>0, <2>3, AfterUser
  <2>4. CASE Boundary(t)
    <3>1. turn[t].loops + 1 <= MaxTurns
      <4>1. turn[t].loops < MaxTurns /\ turn[t].loops \in Nat
        BY <2>4, TurnTyped, FieldsTyped DEF Boundary, HasTurns
      <4> QED
        BY <4>1, TurnBounds
    <3> QED
      BY <1>0, <2>4, <3>1, AfterBoundary
  <2>5. CASE LlmRetries(t)
    BY <1>0, <2>5, AfterRetry DEF LlmRetries
  <2>6. CASE LlmAnswers(t)
    BY <1>0, <1>1, <2>6, AfterAnswer
  <2>7. CASE LlmCalls(t)
    BY <1>0, <1>1, <2>7, LlmCallsMade, AfterCalls
  <2>8. CASE CallTool(t) \/ Answered(t) \/ ConfirmTimesOut(t)
    BY <1>0, <2>8, ResultMade, AfterResult
  <2>9. CASE SetToolConfirm(t)
    BY <1>0, <2>9, AfterConfirm
  <2>10. CASE EndTurn(t)
    BY <1>1, <2>10, AfterEnd
  <2>11. CASE Announce(t)
    BY <1>1, <2>11, AfterAnnounce
  <2> QED
    BY <1>2, <2>1, <2>2, <2>3, <2>4, <2>5, <2>6, <2>7, <2>8, <2>9, <2>10, <2>11 DEF TurnStep
<1>3. ASSUME NEW c \in Conns, ResolveToolConfirm(c)
      PROVE  \A u \in Msgs : turn'[u].loops <= MaxTurns /\ turn'[u].errs < LlmAttempts
  BY <1>0, <1>3, AfterResolve DEF After
<1>4. ASSUME NEW c \in Conns, NEW t \in Msgs, StartTurn(c, t)
      PROVE  \A u \in Msgs : turn'[u].loops <= MaxTurns /\ turn'[u].errs < LlmAttempts
  BY <1>0, <1>1, <1>4, AfterStart DEF After
<1>5. CASE (\E c \in Conns : Cancel(c)) \/ (\E t \in Msgs : Deadline(t))
  BY <1>0, <1>5, AfterCut DEF Cut
<1>6. CASE Crash
  BY <1>0, <1>1, <1>6, AfterCrash
<1>7. CASE UNCHANGED turn
  BY <1>0, <1>7
<1>8. ASSUME NEW t \in Msgs, TurnStep(t)
      PROVE  \A u \in Msgs : turn'[u].loops <= MaxTurns /\ turn'[u].errs < LlmAttempts
  BY <1>0, <1>2, <1>8 DEF After
<1> QED
  BY <1>3, <1>4, <1>5, <1>6, <1>7, <1>8, Steps DEF Steer, vars

(* Every step keeps the types and the bounds.                               *)
LEMMA TypedStep ==
  ASSUME Typed, Bounded, [Next]_vars
  PROVE  Typed' /\ Bounded'
<1>0. cancels \in Msgs \cup {None} /\ pending \in Msgs \cup {None} /\ fresh \in SUBSET Calls
  BY DEF Typed
<1>1. cancels' \in Msgs \cup {None}
  BY <1>0, CancelsSteps DEF Cancel, Register, Announce, Crash
<1>2. pending' \in Msgs \cup {None}
  BY <1>0, PendingSteps DEF ResolveToolConfirm, SetToolConfirm, Crash
<1>3. fresh' \in SUBSET Calls
  BY <1>0, FreshSteps DEF LlmCalls
<1> QED
  BY <1>1, <1>2, <1>3, TurnsKept, ConnKept, LogKept, MailboxKept, CountsKept DEF Typed, Bounded

(* Every variable has its type, the mailbox its bound and no message that   *)
(* is still to be sent, and no turn makes more LLM calls or fails more of   *)
(* them in a row than it may (engine.go, agent_ws.go).                      *)
THEOREM TypeCorrect == Spec => []TypeOK
<1>1. Init => Typed /\ Bounded
  BY TypedInit
<1>2. Typed /\ Bounded /\ [Next]_vars => (Typed /\ Bounded)'
  BY TypedStep
<1>3. Typed /\ Bounded => TypeOK
  BY DEF Typed, Bounded, TypeOK, Connections
<1> QED
  BY <1>1, <1>2, <1>3, PTL DEF Spec
-----------------------------------------------------------------------------
(* What a step of the goroutine does to the turns: only its own changes, it *)
(* was active, it never goes back to the start, its context stays as it is, *)
(* and it has no answer it had not before.                                  *)
LEMMA TurnStepTaken ==
  ASSUME Typed, Bounded, NEW t \in Msgs, TurnStep(t)
  PROVE  /\ Active(t) /\ \A u \in Msgs \ {t} : turn'[u] = turn[u]
         /\ turn'[t].pc \notin {"none", "spawned"}
         /\ turn'[t].answers \in {0, turn[t].answers}
         /\ turn'[t].pc \notin {"announcing", "done"} => turn'[t].live = turn[t].live
         /\ turn'[t].pc # "done" => turn'[t].conn = turn[t].conn
         /\ turn'[t].pc = "confirming" => SetToolConfirm(t)
<1>0. Active(t)
  BY DEF TurnStep, Active, Register, GetMessages, GetMessagesFails, AppendUser, Boundary,
     OutOfTurns, LlmEnds, LlmRetries, LlmGivesUp, LlmAnswers, Finish, LlmCalls, CallTool,
     SetToolConfirm, Answered, ConfirmTimesOut, EndTurn, Announce, AtBoundary
<1> SUFFICES \E pc, chat, calls, answers, loops, errs :
               /\ After(t, pc, chat, calls, answers, loops, errs)
               /\ pc \notin {"none", "spawned"} /\ answers \in {0, turn[t].answers}
               /\ pc \notin {"announcing", "done"} => turn'[t].live = turn[t].live
               /\ pc # "done" => turn'[t].conn = turn[t].conn
               /\ pc = "confirming" => SetToolConfirm(t)
  BY <1>0 DEF After
<1>1. CASE \/ Register(t) \/ GetMessagesFails(t) \/ OutOfTurns(t)
           \/ LlmEnds(t) \/ LlmGivesUp(t) \/ Finish(t)
  <2>1. PICK pc \in {"registered", "ending"} : turn' = [turn EXCEPT ![t].pc = pc]
    BY <1>1 DEF Register, GetMessagesFails, OutOfTurns, LlmEnds, LlmGivesUp, Finish
  <2>2. pc \in PCs /\ pc \notin {"none", "spawned"}
    BY DEF PCs
  <2> QED
    BY <2>1, <2>2, AfterGoing
<1>2. CASE GetMessages(t) \/ AppendUser(t) \/ Boundary(t)
  BY <1>2, AfterLoad, AfterUser, AfterBoundary
<1>3. CASE LlmRetries(t) \/ LlmAnswers(t) \/ SetToolConfirm(t)
  BY <1>3, AfterRetry, AfterAnswer, AfterConfirm
<1>4. CASE LlmCalls(t)
  <2>1. PICK ks \in Seq(Calls) : CallsMade(t, ks)
    BY <1>4, LlmCallsMade
  <2>2. /\ \E chat : After(t, "calls", chat, ks, turn[t].answers, turn[t].loops, 0)
        /\ turn'[t].live = turn[t].live /\ turn'[t].conn = turn[t].conn
    BY <2>1, AfterCalls
  <2> QED
    BY <2>2
<1>5. CASE CallTool(t) \/ Answered(t) \/ ConfirmTimesOut(t)
  <2>1. /\ \E chat, calls : After(t, "calls", chat, calls, 0, turn[t].loops, turn[t].errs)
        /\ turn'[t].live = turn[t].live /\ turn'[t].conn = turn[t].conn
    BY <1>5, ResultMade, AfterResult
  <2> QED
    BY <2>1
<1>6. CASE EndTurn(t) \/ Announce(t)
  BY <1>6, AfterEnd, AfterAnnounce
<1> QED
  BY <1>1, <1>2, <1>3, <1>4, <1>5, <1>6 DEF TurnStep
-----------------------------------------------------------------------------
(* A confirmation whose channel is in the map has no answer yet, and one    *)
(* that is over leaves none behind that counts.                             *)
AnswersInv ==
  \A t \in Msgs : turn[t].answers <= 1 /\ (pending = t => turn[t].answers = 0)

(* Every step keeps it: an answer takes the channel out of the map.         *)
LEMMA AnswersStep ==
  ASSUME Typed, Bounded, AnswersInv, [Next]_vars
  PROVE  AnswersInv'
<1>0. \A u \in Msgs : turn[u].answers <= 1 /\ (pending = u => turn[u].answers = 0)
  BY DEF AnswersInv
<1>1. ASSUME NEW c \in Conns, ResolveToolConfirm(c)
      PROVE  AnswersInv'
  <2>1. PICK t \in Msgs :
          /\ t = pending
          /\ After(t, turn[t].pc, turn[t].chat,
                     turn[t].calls, turn[t].answers + 1, turn[t].loops, turn[t].errs)
    BY <1>1, AfterResolve
  <2>2. pending' = None
    BY <1>1 DEF ResolveToolConfirm
  <2>3. turn[t].answers = 0 /\ turn'[t].answers = 1 /\ \A u \in Msgs \ {t} : turn'[u] = turn[u]
    BY <1>0, <2>1 DEF After
  <2> QED
    BY <1>0, <2>2, <2>3, NoneAssumption DEF AnswersInv
<1>2. ASSUME NEW t \in Msgs, SetToolConfirm(t)
      PROVE  AnswersInv'
  <2>1. turn'[t].answers = 0 /\ \A u \in Msgs \ {t} : turn'[u] = turn[u]
    BY <1>2, AfterConfirm DEF After
  <2>2. pending' = t
    BY <1>2 DEF SetToolConfirm
  <2> QED
    BY <1>0, <2>1, <2>2 DEF AnswersInv
<1>3. CASE Crash
  <2>1. pending' = None /\ \A u \in Msgs : turn'[u].answers <= 1
    BY <1>0, <1>3, AfterCrash DEF Crash
  <2> QED
    BY <2>1, NoneAssumption DEF AnswersInv
<1>4. ASSUME UNCHANGED pending, \A u \in Msgs : turn'[u].answers \in {0, turn[u].answers}
      PROVE  AnswersInv'
  BY <1>0, <1>4 DEF AnswersInv
<1>5. ASSUME NEW c \in Conns, NEW t \in Msgs, StartTurn(c, t)
      PROVE  \A u \in Msgs : turn'[u].answers \in {0, turn[u].answers}
  BY <1>5, AfterStart DEF After
<1>6. CASE (\E c \in Conns : Cancel(c)) \/ (\E t \in Msgs : Deadline(t))
  <2>1. \A u \in Msgs : turn'[u].answers \in {0, turn[u].answers}
    BY <1>6, AfterCut DEF Cut
  <2>2. UNCHANGED pending
    BY <1>6 DEF Cancel, Deadline
  <2> QED
    BY <1>4, <2>1, <2>2
<1>7. ASSUME NEW t \in Msgs, TurnStep(t)
      PROVE  \A u \in Msgs : turn'[u].answers \in {0, turn[u].answers}
  BY <1>7, TurnStepTaken
<1>8. UNCHANGED turn => \A u \in Msgs : turn'[u].answers \in {0, turn[u].answers}
  OBVIOUS
<1> QED
  BY <1>1, <1>2, <1>3, <1>4, <1>5, <1>6, <1>7, <1>8, Steps, PendingSteps DEF Steer, vars

(* The reader of a connection never waits on a confirmation's channel, even *)
(* when turns overlap: ResolveToolConfirm takes the channel from the map    *)
(* with the answer, and the channel holds one (engine.go, SetToolConfirm).  *)
THEOREM NoAnswerBlocks == Spec => []AnswerNeverBlocks
<1>1. Init => Typed /\ Bounded /\ AnswersInv
  <2> SUFFICES ASSUME Init
               PROVE  AnswersInv
    BY TypedInit
  <2>1. \A t \in Msgs : turn[t].answers = 0
    BY DEF Init, NewTurn
  <2> QED
    BY <2>1 DEF AnswersInv
<1>2. Typed /\ Bounded /\ AnswersInv /\ [Next]_vars => (Typed /\ Bounded /\ AnswersInv)'
  BY TypedStep, AnswersStep
<1>3. AnswersInv => AnswerNeverBlocks
  BY DEF AnswersInv, AnswerNeverBlocks
<1> QED
  BY <1>1, <1>2, <1>3, PTL DEF Spec
-----------------------------------------------------------------------------
(* A message accepted as a follow-up is in the mailbox, or stored.          *)
Stored(m) == User(m) \in Range(log)

(* Nothing stored is ever removed.                                          *)
LEMMA LogGrows ==
  ASSUME Typed, [Next]_vars
  PROVE  Range(log) \subseteq Range(log')
<1>0. log \in Seq(Rows)
  BY DEF Typed
<1>1. ASSUME NEW us \in Seq(Rows), log' = log \o us
      PROVE  Range(log) \subseteq Range(log')
  <2>1. \A i \in DOMAIN log : i \in DOMAIN (log \o us) /\ (log \o us)[i] = log[i]
    BY <1>0
  <2> QED
    BY <1>1, <2>1 DEF Range
<1>2. ASSUME NEW e \in Rows, log' \in {log, Append(log, e)}
      PROVE  Range(log) \subseteq Range(log')
  <2>1. CASE log' = log
    BY <2>1
  <2>2. CASE log' = Append(log, e)
    <3>1. Range(Append(log, e)) = Range(log) \cup {e}
      BY <1>0, RangeAppend
    <3> QED
      BY <2>2, <3>1
  <2> QED
    BY <1>2, <2>1, <2>2
<1>3. ASSUME NEW t \in Msgs, AppendUser(t)
      PROVE  Range(log) \subseteq Range(log')
  BY <1>2, <1>3, RowsMade, LogTypedCtx DEF AppendUser
<1>4. ASSUME NEW t \in Msgs, Boundary(t)
      PROVE  Range(log) \subseteq Range(log')
  <2>1. PICK us \in Seq(Users) : log' = log \o us
    BY <1>4, BoundaryLog
  <2>2. us \in Seq(Rows)
    BY SteeredTyped
  <2> QED
    BY <1>1, <2>1, <2>2
<1>5. ASSUME NEW t \in Msgs, LlmGivesUp(t) \/ Finish(t)
      PROVE  Range(log) \subseteq Range(log')
  <2>1. Assistant(<<>>, TRUE) \in Rows
    <3>1. <<>> \in Seq(Calls) /\ TRUE \in BOOLEAN
      OBVIOUS
    <3> QED
      BY <3>1, RowsMade
  <2> QED
    BY <1>2, <1>5, <2>1, LogTyped, LogTypedCtx DEF LlmGivesUp, Finish
<1>6. ASSUME NEW t \in Msgs, LlmCalls(t)
      PROVE  Range(log) \subseteq Range(log')
  <2>1. PICK ks \in Seq(Calls), said \in BOOLEAN : log' \in {log, Append(log, Assistant(ks, said))}
    BY <1>6, LlmCallsMade
  <2> QED
    BY <1>2, <2>1, RowsMade
<1>7. ASSUME NEW t \in Msgs, CallTool(t) \/ Answered(t) \/ ConfirmTimesOut(t)
      PROVE  Range(log) \subseteq Range(log')
  <2>1. PICK k \in Calls : log' \in {log, Append(log, Tool(k))}
    BY <1>7, ResultMade
  <2> QED
    BY <1>2, <2>1, RowsMade
<1> QED
  BY <1>3, <1>4, <1>5, <1>6, <1>7, LogSteps DEF GetMessagesFails, Crash

(* Nor is a fault undone.                                                   *)
LEMMA FaultsGrow ==
  ASSUME Typed, [Next]_vars, faults' = 0
  PROVE  faults = 0
<1>0. faults \in Nat
  BY DEF Typed
<1>1. ASSUME NEW e, AppendMessage(e)
      PROVE  faults = 0
  BY <1>0, <1>1 DEF AppendMessage
<1>2. ASSUME NEW e, NEW t, AppendMessageCtx(t, e)
      PROVE  faults = 0
  BY <1>0, <1>1, <1>2 DEF AppendMessageCtx
<1>3. ASSUME NEW t \in Msgs, Boundary(t)
      PROVE  faults = 0
  <2>1. faults' \in Nat /\ faults <= faults'
    BY <1>3, BoundaryLog
  <2> QED
    BY <1>0, <2>1
<1>4. ASSUME NEW t \in Msgs, GetMessagesFails(t)
      PROVE  faults = 0
  BY <1>0, <1>4 DEF GetMessagesFails
<1>5. ~Crash
  BY <1>0 DEF Crash
<1>6. ASSUME NEW t \in Msgs, AppendUser(t) \/ LlmGivesUp(t) \/ Finish(t)
      PROVE  faults = 0
  BY <1>1, <1>2, <1>6 DEF AppendUser, LlmGivesUp, Finish
<1>7. ASSUME NEW t \in Msgs, LlmCalls(t) \/ CallTool(t) \/ Answered(t) \/ ConfirmTimesOut(t)
      PROVE  faults = 0
  BY <1>1, <1>2, <1>7 DEF LlmCalls, CallTool, Answered, ConfirmTimesOut, Result
<1> QED
  BY <1>0, <1>3, <1>4, <1>5, <1>6, <1>7, LogSteps

(* A turn that has begun never goes back to not having begun.               *)
LEMMA BegunStays ==
  ASSUME Typed, Bounded, [Next]_vars, NEW m \in Msgs, turn'[m].pc = "none"
  PROVE  turn[m].pc = "none"
<1>1. ASSUME NEW c \in Conns, ResolveToolConfirm(c)
      PROVE  turn[m].pc = "none"
  BY <1>1, AfterResolve DEF After
<1>2. ASSUME NEW c \in Conns, NEW t \in Msgs, StartTurn(c, t)
      PROVE  turn[m].pc = "none"
  BY <1>2, AfterStart DEF After
<1>3. CASE (\E c \in Conns : Cancel(c)) \/ (\E t \in Msgs : Deadline(t))
  BY <1>3, AfterCut DEF Cut
<1>4. CASE Crash
  BY <1>4, AfterCrash
<1>5. ASSUME NEW t \in Msgs, TurnStep(t)
      PROVE  turn[m].pc = "none"
  BY <1>5, TurnStepTaken
<1> QED
  BY <1>1, <1>2, <1>3, <1>4, <1>5, Steps DEF Steer, vars

(* A follow-up moves from the mailbox to the log, and is nowhere lost on    *)
(* the way.                                                                 *)
LEMMA FollowUpStep ==
  ASSUME Typed, Bounded, FollowUpKept, [Next]_vars
  PROVE  FollowUpKept'
<1> SUFFICES ASSUME faults' = 0, NEW m \in Msgs \ todo', turn'[m].pc = "none"
             PROVE  m \in Range(mailbox') \/ User(m) \in Range(log')
  <2>1. faults' \in Nat
    BY LogKept
  <2>2. faults' = 0 \/ faults' > 0
    BY <2>1
  <2> QED
    BY <2>2 DEF FollowUpKept
<1>1. faults = 0
  BY FaultsGrow
<1>2. turn[m].pc = "none"
  BY BegunStays
<1>3. mailbox \in Seq(Msgs)
  BY DEF Typed
<1>4. m \in Range(mailbox) \/ User(m) \in Range(log) \/ m \in todo
  BY <1>1, <1>2 DEF FollowUpKept
<1>5. User(m) \in Range(log) => User(m) \in Range(log')
  BY LogGrows
<1>6. CASE m \in todo
  <2>1. ASSUME NEW c \in Conns, NEW u \in Msgs, Steer(c, u)
        PROVE  m \in Range(mailbox')
    <3>1. u = m /\ mailbox' = Append(mailbox, m)
      BY <1>6, <2>1 DEF Steer
    <3> QED
      BY <1>3, <3>1, RangeAppend
  <2>2. ASSUME NEW c \in Conns, NEW u \in Msgs, StartTurn(c, u)
        PROVE  FALSE
    <3>1. u = m
      BY <1>6, <2>2 DEF StartTurn
    <3> QED
      BY <2>2, <3>1, AfterStart DEF After
  <2> QED
    BY <1>6, <2>1, <2>2, TodoSteps
<1>7. CASE m \in Range(mailbox)
  <2>1. ASSUME NEW c \in Conns, NEW u \in Msgs, Steer(c, u)
        PROVE  m \in Range(mailbox')
    BY <1>3, <1>7, <2>1, RangeAppend DEF Steer
  <2>2. ASSUME NEW t \in Msgs, Boundary(t)
        PROVE  User(m) \in Range(log')
    <3>1. PICK us \in Seq(Users) : log' = log \o us /\ us = Steered
      BY <2>2, BoundaryLog
    <3>2. User(m) \in Range(us)
      BY <1>7, <3>1, SteeredTyped
    <3>3. log \in Seq(Rows) /\ us \in Seq(Rows)
      BY SteeredTyped DEF Typed
    <3>4. PICK i \in 1..Len(us) : us[i] = User(m)
      BY <3>2, <3>3 DEF Range
    <3>5. Len(log) + i \in DOMAIN (log \o us) /\ (log \o us)[Len(log) + i] = us[i]
      BY <3>3
    <3> QED
      BY <3>1, <3>4, <3>5 DEF Range
  <2>3. ~Crash
    BY <1>1 DEF Crash
  <2> QED
    BY <1>7, <2>1, <2>2, <2>3, MailboxSteps
<1> QED
  BY <1>4, <1>5, <1>6, <1>7

(* As long as no write fails and no replica dies, a message the handler     *)
(* took as a follow-up is in the mailbox or among the stored messages, with *)
(* turns that overlap or not (agent_ws.go, the steering mailbox).           *)
THEOREM NoFollowUpLost == Spec => []FollowUpKept
<1>1. Init => Typed /\ Bounded /\ FollowUpKept
  BY TypedInit DEF Init, FollowUpKept
<1>2. Typed /\ Bounded /\ FollowUpKept /\ [Next]_vars => (Typed /\ Bounded /\ FollowUpKept)'
  BY TypedStep, FollowUpStep
<1> QED
  BY <1>1, <1>2, PTL DEF Spec
-----------------------------------------------------------------------------
(* When no turn begins before the one before it has returned, one at most   *)
(* is busy: more than one may announce its end.                             *)
Busy(t) == turn[t].pc \notin {"none", "done", "dead", "announcing"}
Alone == \A t, u \in Msgs : Busy(t) /\ Busy(u) => t = u

Begins(t) == \E c \in Conns : StartTurn(c, t)

(* A turn that is active was so before, or begins.                          *)
LEMMA NoneBegins ==
  ASSUME Typed, Bounded, [Next]_vars, NEW u \in Msgs, turn'[u].pc \notin {"none", "done", "dead"}
  PROVE  Active(u) \/ Begins(u)
<1>1. ASSUME NEW c \in Conns, ResolveToolConfirm(c)
      PROVE  Active(u)
  BY <1>1, AfterResolve DEF After, Active
<1>2. ASSUME NEW c \in Conns, NEW t \in Msgs, StartTurn(c, t)
      PROVE  Active(u) \/ Begins(u)
  BY <1>2, AfterStart DEF After, Active, Begins
<1>3. CASE (\E c \in Conns : Cancel(c)) \/ (\E t \in Msgs : Deadline(t))
  BY <1>3, AfterCut DEF Cut, Active
<1>4. ~Crash
  BY AfterCrash DEF Active
<1>5. ASSUME NEW t \in Msgs, TurnStep(t)
      PROVE  Active(u)
  BY <1>5, TurnStepTaken DEF Active
<1> QED
  BY <1>1, <1>2, <1>3, <1>4, <1>5, Steps DEF Steer, vars, Active

(* A turn that is busy was so before, or begins.                            *)
LEMMA NoneBusies ==
  ASSUME Typed, Bounded, [Next]_vars, NEW u \in Msgs,
         turn'[u].pc \notin {"none", "done", "dead", "announcing"}
  PROVE  Busy(u) \/ Begins(u)
<1>1. CASE turn[u].pc # "announcing"
  BY <1>1, NoneBegins DEF Active, Busy
<1>2. CASE turn[u].pc = "announcing"
  <2>1. ASSUME NEW c \in Conns, ResolveToolConfirm(c)
        PROVE  turn'[u].pc = turn[u].pc
    BY <2>1, AfterResolve DEF After
  <2>2. ASSUME NEW c \in Conns, NEW t \in Msgs, StartTurn(c, t)
        PROVE  turn'[u].pc = turn[u].pc \/ Begins(u)
    BY <2>2, AfterStart DEF After, Begins
  <2>3. (\E c \in Conns : Cancel(c)) \/ (\E t \in Msgs : Deadline(t)) => turn'[u].pc = turn[u].pc
    BY AfterCut DEF Cut
  <2>4. ~Crash
    BY AfterCrash DEF Active
  <2>5. ASSUME NEW t \in Msgs, TurnStep(t)
        PROVE  turn'[u].pc = turn[u].pc
    <3>1. u # t => turn'[u] = turn[u]
      BY <2>5, TurnStepTaken
    <3>2. u # t
      <4>1. turn[t].pc = "announcing" => Announce(t)
        BY <2>5 DEF TurnStep, Register, GetMessages, GetMessagesFails, AppendUser, Boundary,
           OutOfTurns, LlmEnds, LlmRetries, LlmGivesUp, LlmAnswers, Finish, LlmCalls, CallTool,
           SetToolConfirm, Answered, ConfirmTimesOut, EndTurn, AtBoundary
      <4> QED
        BY <1>2, <4>1, AfterAnnounce DEF After
    <3> QED
      BY <3>1, <3>2
  <2> QED
    BY <1>2, <2>1, <2>2, <2>3, <2>4, <2>5, Steps DEF Steer, vars
<1> QED
  BY <1>1, <1>2

(* A turn begins only when none is busy.                                    *)
LEMMA AloneStep ==
  ASSUME ~Overlaps, Typed, Bounded, Alone, [Next]_vars
  PROVE  Alone'
<1> SUFFICES ASSUME NEW t \in Msgs, NEW u \in Msgs,
                    turn'[t].pc \notin {"none", "done", "dead", "announcing"},
                    turn'[u].pc \notin {"none", "done", "dead", "announcing"}
             PROVE  t = u
  BY DEF Alone, Busy
<1>1. CASE Busy(t) /\ Busy(u)
  BY <1>1 DEF Alone
<1>2. ASSUME NEW v \in Msgs, NEW w \in Msgs, Begins(v),
             turn'[w].pc \notin {"none", "done", "dead", "announcing"}
      PROVE  w = v
  <2>1. ~Busy(w)
    BY <1>2 DEF Begins, StartTurn, Active, Busy
  <2>2. w # v => turn'[w] = turn[w]
    BY <1>2, AfterStart DEF After, Begins
  <2> QED
    BY <1>2, <2>1, <2>2 DEF Busy
<1>3. CASE Begins(t) \/ Begins(u)
  BY <1>2, <1>3
<1> QED
  BY <1>1, <1>3, NoneBusies

(* None is busy at the start.                                               *)
LEMMA AloneInit ==
  ASSUME Init
  PROVE  Alone
BY DEF Init, NewTurn, Alone, Busy
-----------------------------------------------------------------------------
(* Every step keeps the waiting turn within reach of an answer.             *)
LEMMA AnswerReachesStep ==
  ASSUME Typed, Bounded, Alone, AnswerReaches, [Next]_vars
  PROVE  AnswerReaches'
<1> SUFFICES ASSUME NEW u \in Msgs, turn'[u].pc = "confirming"
             PROVE  pending' = u \/ turn'[u].answers > 0
  BY DEF AnswerReaches
<1>0. /\ turn[u].pc = "confirming" => pending = u \/ turn[u].answers > 0
      /\ turn[u].answers \in Nat
  BY TurnTyped, FieldsTyped DEF AnswerReaches
<1>1. ASSUME NEW c \in Conns, ResolveToolConfirm(c)
      PROVE  turn'[u].answers > 0
  <2>1. PICK t \in Msgs :
          /\ t = pending
          /\ After(t, turn[t].pc, turn[t].chat,
                     turn[t].calls, turn[t].answers + 1, turn[t].loops, turn[t].errs)
    BY <1>1, AfterResolve
  <2>2. CASE u = t
    <3>1. turn'[u].answers = turn[u].answers + 1
      BY <2>1, <2>2 DEF After
    <3> QED
      BY <1>0, <3>1
  <2>3. CASE u # t
    <3>1. turn'[u] = turn[u] /\ pending # u
      BY <2>1, <2>3 DEF After
    <3> QED
      BY <1>0, <3>1
  <2> QED
    BY <2>2, <2>3
<1>2. ASSUME NEW t \in Msgs, SetToolConfirm(t)
      PROVE  pending' = u
  <2>1. pending' = t /\ turn[t].pc = "calls"
    BY <1>2 DEF SetToolConfirm
  <2>2. u # t => turn'[u] = turn[u]
    BY <1>2, AfterConfirm DEF After
  <2> QED
    BY <2>1, <2>2 DEF Alone, Busy
<1>3. ~Crash
  BY AfterCrash DEF Active
<1>4. ASSUME NEW t \in Msgs, TurnStep(t)
      PROVE  SetToolConfirm(t) \/ turn'[u] = turn[u]
  BY <1>4, TurnStepTaken
<1>5. ASSUME NEW c \in Conns, NEW t \in Msgs, StartTurn(c, t)
      PROVE  turn'[u] = turn[u]
  BY <1>5, AfterStart DEF After
<1>6. CASE (\E c \in Conns : Cancel(c)) \/ (\E t \in Msgs : Deadline(t))
  <2>1. turn'[u].pc = turn[u].pc /\ turn'[u].answers = turn[u].answers
    BY <1>6, AfterCut DEF Cut
  <2>2. UNCHANGED pending
    BY <1>6 DEF Cancel, Deadline
  <2> QED
    BY <1>0, <2>1, <2>2
<1>7. ASSUME turn'[u] = turn[u], UNCHANGED pending
      PROVE  pending' = u \/ turn'[u].answers > 0
  BY <1>0, <1>7
<1> QED
  BY <1>1, <1>2, <1>3, <1>4, <1>5, <1>6, <1>7, Steps, PendingSteps DEF Steer, vars

(* A turn that waits for a confirmation can be answered, whatever channels  *)
(* timeouts and crashes of earlier turns left behind: SetToolConfirm puts   *)
(* its own channel in the map, and no other turn runs that could replace it *)
(* (engine.go, toolConfirmPending).                                         *)
THEOREM AnAnswerReaches ==
  ASSUME ~Overlaps
  PROVE  Spec => []AnswerReaches
<1>1. Init => Typed /\ Bounded /\ Alone /\ AnswerReaches
  <2> SUFFICES ASSUME Init
               PROVE  AnswerReaches
    BY TypedInit, AloneInit
  <2> QED
    BY DEF Init, NewTurn, AnswerReaches
<1>2. Typed /\ Bounded /\ Alone /\ AnswerReaches /\ [Next]_vars
        => (Typed /\ Bounded /\ Alone /\ AnswerReaches)'
  BY TypedStep, AloneStep, AnswerReachesStep
<1> QED
  BY <1>1, <1>2, PTL DEF Spec
-----------------------------------------------------------------------------
(* The turns that a cancel has to reach.                                    *)
Runs(t) == Active(t) /\ Live(t) /\ turn[t].pc \notin {"spawned", "announcing"}

(* Every turn under way has a connection that began it.                     *)
Placed == \A t \in Msgs : Active(t) => turn[t].conn \in Conns

(* Every step keeps it: a turn has its connection from the start.           *)
LEMMA PlacedStep ==
  ASSUME Typed, Bounded, Placed, [Next]_vars
  PROVE  Placed'
<1> SUFFICES ASSUME NEW u \in Msgs, turn'[u].pc \notin {"none", "done", "dead"}
             PROVE  turn'[u].conn \in Conns
  BY DEF Placed, Active
<1>1. ASSUME NEW c \in Conns, ResolveToolConfirm(c)
      PROVE  turn'[u].conn = turn[u].conn
  BY <1>1, AfterResolve DEF After
<1>2. ASSUME NEW c \in Conns, NEW t \in Msgs, StartTurn(c, t)
      PROVE  turn'[u].conn \in Conns \/ turn'[u].conn = turn[u].conn
  BY <1>2, AfterStart DEF After
<1>3. (\E c \in Conns : Cancel(c)) \/ (\E t \in Msgs : Deadline(t))
        => turn'[u].conn = turn[u].conn
  BY AfterCut DEF Cut
<1>4. ~Crash
  BY AfterCrash DEF Active
<1>5. ASSUME NEW t \in Msgs, TurnStep(t)
      PROVE  turn'[u].conn = turn[u].conn
  BY <1>5, TurnStepTaken
<1>6. turn'[u].conn \in Conns \/ turn'[u].conn = turn[u].conn
  BY <1>1, <1>2, <1>3, <1>4, <1>5, Steps DEF Steer, vars
<1>7. Active(u) \/ Begins(u)
  BY NoneBegins
<1>8. CASE Begins(u)
  BY <1>8, AfterStart DEF Begins
<1> QED
  BY <1>6, <1>7, <1>8 DEF Placed

(* Every step keeps the running turn within reach of a cancel over its own  *)
(* connection.                                                              *)
LEMMA OwnCancelReachesStep ==
  ASSUME Typed, Bounded, Alone, Placed, OwnCancelReaches, [Next]_vars
  PROVE  OwnCancelReaches'
<1> SUFFICES ASSUME NEW u \in Msgs, turn'[u].live,
                    turn'[u].pc \notin {"none", "done", "dead", "spawned", "announcing"}
             PROVE  conn'[turn'[u].conn].cancel = u
  BY DEF OwnCancelReaches, Active, Live
<1> DEFINE d == turn[u].conn
<1>0. Runs(u) => conn[d].cancel = u
  BY DEF OwnCancelReaches, Runs
<1>1. ASSUME turn'[u].pc = turn[u].pc, turn[u].live, turn'[u].conn = d,
             conn'[d].cancel = conn[d].cancel
      PROVE  conn'[turn'[u].conn].cancel = u
  BY <1>0, <1>1 DEF Runs, Active, Live
<1>2. ASSUME NEW c \in Conns, ResolveToolConfirm(c)
      PROVE  conn'[turn'[u].conn].cancel = u
  <2>1. turn'[u].pc = turn[u].pc /\ turn'[u].live = turn[u].live /\ turn'[u].conn = turn[u].conn
    BY <1>2, AfterResolve DEF After
  <2>2. UNCHANGED conn
    BY <1>2 DEF ResolveToolConfirm
  <2> QED
    BY <1>1, <2>1, <2>2
<1>3. ASSUME NEW c \in Conns, NEW t \in Msgs, StartTurn(c, t)
      PROVE  conn'[turn'[u].conn].cancel = u
  <2>1. turn'[u] = turn[u]
    BY <1>3, AfterStart DEF After
  <2>2. Runs(u)
    BY <2>1 DEF Runs, Active, Live
  <2>3. d \in Conns
    BY <2>2 DEF Placed, Runs
  <2>4. conn' = [conn EXCEPT ![c].processing = TRUE] /\ conn \in Connections
    BY <1>3 DEF StartTurn, Typed
  <2>5. conn'[d].cancel = conn[d].cancel
    BY <2>3, <2>4 DEF Connections
  <2> QED
    BY <1>0, <2>1, <2>2, <2>5
<1>4. ASSUME NEW t \in Msgs, Deadline(t)
      PROVE  conn'[turn'[u].conn].cancel = u
  <2>1. turn'[u].pc = turn[u].pc /\ turn[u].live /\ turn'[u].conn = turn[u].conn
    BY <1>4, AfterCut DEF Cut
  <2>2. UNCHANGED conn
    BY <1>4 DEF Deadline
  <2> QED
    BY <1>1, <2>1, <2>2
<1>5. ASSUME NEW c \in Conns, Cancel(c)
      PROVE  conn'[turn'[u].conn].cancel = u
  <2>1. turn'[u].pc = turn[u].pc /\ turn[u].live /\ turn'[u].conn = turn[u].conn
    BY <1>5, AfterCut DEF Cut
  <2>2. Runs(u)
    BY <2>1 DEF Runs, Active, Live
  <2>3. d \in Conns /\ conn[d].cancel = u
    BY <1>0, <2>2 DEF Placed, Runs
  <2>4. conn[c].cancel # u
    <3>1. SUFFICES ASSUME conn[c].cancel = u
                   PROVE  FALSE
      OBVIOUS
    <3>2. turn'[u] = [turn[u] EXCEPT !.live = FALSE]
      BY <1>5, <2>1, <3>1 DEF Cancel, Live
    <3>3. turn[u] \in Turns
      BY TurnTyped
    <3> QED
      BY <3>2, <3>3 DEF Turns
  <2>5. conn' = [conn EXCEPT ![c].cancel = None, ![c].processing = FALSE] /\ conn \in Connections
    BY <1>5 DEF Cancel, Typed
  <2>6. conn'[d] = conn[d]
    BY <2>3, <2>4, <2>5 DEF Connections
  <2> QED
    BY <2>1, <2>3, <2>6
<1>6. ASSUME NEW t \in Msgs, TurnStep(t)
      PROVE  conn'[turn'[u].conn].cancel = u
  <2>1. /\ Active(t) /\ (u # t => turn'[u] = turn[u])
        /\ u = t => turn'[u].live = turn[u].live /\ turn'[u].conn = turn[u].conn
    BY <1>6, TurnStepTaken
  <2>2. CASE u # t
    <3>1. Runs(u) /\ turn'[u] = turn[u]
      BY <2>1, <2>2 DEF Runs, Active, Live
    <3>2. turn[t].pc = "announcing"
      BY <2>1, <2>2, <3>1 DEF Alone, Busy, Runs, Active
    <3>3. UNCHANGED conn
      BY <1>6, <3>2 DEF TurnStep, Register, GetMessages, GetMessagesFails, AppendUser, Boundary,
         OutOfTurns, LlmEnds, LlmRetries, LlmGivesUp, LlmAnswers, Finish, LlmCalls, CallTool,
         SetToolConfirm, Answered, ConfirmTimesOut, EndTurn, AtBoundary, Announce
    <3> QED
      BY <1>0, <3>1, <3>3
  <2>3. CASE u = t /\ Register(t)
    <3>1. d \in Conns
      BY <2>1, <2>3 DEF Placed
    <3>2. conn' = [conn EXCEPT ![d].cancel = u] /\ conn \in Connections
      BY <2>3 DEF Register, Typed
    <3>3. conn'[d].cancel = u
      BY <3>1, <3>2 DEF Connections
    <3> QED
      BY <2>1, <2>3, <3>3
  <2>4. CASE u = t /\ ~Register(t)
    <3>1. ~Announce(t) /\ ~EndTurn(t)
      BY <2>4, AfterAnnounce, AfterEnd DEF After
    <3>2. UNCHANGED conn
      BY <1>6, <2>4, <3>1 DEF TurnStep, GetMessages, GetMessagesFails, AppendUser, Boundary,
         OutOfTurns, LlmEnds, LlmRetries, LlmGivesUp, LlmAnswers, Finish, LlmCalls, CallTool,
         SetToolConfirm, Answered, ConfirmTimesOut, Result
    <3>3. turn[t].pc \notin {"spawned", "announcing"}
      BY <1>6, <2>4, <3>1 DEF TurnStep, GetMessages, GetMessagesFails, AppendUser, Boundary,
         OutOfTurns, LlmEnds, LlmRetries, LlmGivesUp, LlmAnswers, Finish, LlmCalls, CallTool,
         SetToolConfirm, Answered, ConfirmTimesOut, AtBoundary
    <3> QED
      BY <1>0, <2>1, <2>4, <3>2, <3>3 DEF Runs, Live
  <2> QED
    BY <2>2, <2>3, <2>4
<1>7. ~Crash
  BY AfterCrash DEF Active
<1>8. (\E c \in Conns, m \in Msgs : Steer(c, m)) \/ UNCHANGED vars
        => conn'[turn'[u].conn].cancel = u
  BY <1>1 DEF Steer, vars
<1> QED
  BY <1>2, <1>3, <1>4, <1>5, <1>6, <1>7, <1>8, Steps

(* A cancel over the connection that began it reaches the turn that runs,   *)
(* whatever the turns before it, which may still announce their ends, do to *)
(* the session's entry: currentCancel is the turn's own from registering to *)
(* its return (agent_ws.go).                                                *)
THEOREM AnOwnCancelReaches ==
  ASSUME ~Overlaps
  PROVE  Spec => []OwnCancelReaches
<1>1. Init => Typed /\ Bounded /\ Alone /\ Placed /\ OwnCancelReaches
  <2> SUFFICES ASSUME Init
               PROVE  Placed /\ OwnCancelReaches
    BY TypedInit, AloneInit
  <2> QED
    BY DEF Init, NewTurn, Placed, OwnCancelReaches, Active
<1>2. Typed /\ Bounded /\ Alone /\ Placed /\ OwnCancelReaches /\ [Next]_vars
        => (Typed /\ Bounded /\ Alone /\ Placed /\ OwnCancelReaches)'
  BY TypedStep, AloneStep, PlacedStep, OwnCancelReachesStep
<1> QED
  BY <1>1, <1>2, PTL DEF Spec
-----------------------------------------------------------------------------
(* Follow-ups behind a history that can be sent leave it one that can.      *)
LEMMA AppendLonger ==
  ASSUME NEW T, NEW s \in Seq(T), NEW us \in Seq(T), NEW x \in T
  PROVE  s \o Append(us, x) = Append(s \o us, x) /\ s \o us \in Seq(T)
<1> DEFINE l == s \o Append(us, x)
           r == Append(s \o us, x)
<1>1. DOMAIN l = 1..(Len(s) + Len(us) + 1) /\ DOMAIN r = 1..(Len(s) + Len(us) + 1)
  OBVIOUS
<1>2. \A i \in 1..(Len(s) + Len(us) + 1) : l[i] = r[i]
  OBVIOUS
<1>3. l \in Seq(T) /\ r \in Seq(T)
  OBVIOUS
<1>4. \A q \in Seq(T) : q = [i \in DOMAIN q |-> q[i]]
  OBVIOUS
<1>5. l = r
  <2> HIDE DEF l, r
  <2>1. l = [i \in DOMAIN l |-> l[i]] /\ r = [i \in DOMAIN r |-> r[i]]
    BY <1>3, <1>4
  <2>2. DOMAIN l = DOMAIN r /\ \A i \in DOMAIN l : l[i] = r[i]
    BY <1>1, <1>2
  <2> QED
    BY <2>1, <2>2
<1> QED
  BY <1>5

(* Nothing concatenated.                                                    *)
LEMMA NoneLonger ==
  ASSUME NEW T, NEW s \in Seq(T)
  PROVE  s \o <<>> = s
OBVIOUS

(* Messages of users are replayed as they are.                              *)
LEMMA UserRows ==
  /\ Seq(Users) \subseteq Seq(Rows) /\ Users \subseteq Rows
  /\ \A e \in Users : e.role = "user" /\ Replayed(e) = e
<1>1. Users \subseteq Rows
  BY DEF Rows
<1>2. \A e \in Users : e.role = "user"
  BY DEF Users, User
<1> QED
  BY <1>1, <1>2, ReplayedRow

(* A user message closes what can be sent.                                  *)
LEMMA AcceptedUser ==
  ASSUME NEW s \in Seq(Rows), Accepted(s), NEW e \in Rows, e.role = "user"
  PROVE  Accepted(Append(s, e))
<1>1. Scanned(Append(s, e)) = AfterOther(Scanned(s), {}, {})
  BY ScannedUser
<1> QED
  BY <1>1, ScannedTyped DEF Accepted, AfterOther, Scans

(* So do several.                                                           *)
LEMMA AcceptedUsers ==
  ASSUME NEW s \in Seq(Rows), Accepted(s), NEW us \in Seq(Users)
  PROVE  s \o us \in Seq(Rows) /\ Accepted(s \o us)
<1> DEFINE V == {r \in Seq(Users) : Accepted(s \o r)}
<1>1. <<>> \in V
  BY NoneLonger
<1>2. ASSUME NEW r \in Seq(Users), NEW e \in Users, r \in V
      PROVE  Append(r, e) \in V
  <2>1. Accepted(s \o r) /\ r \in Seq(Rows) /\ e \in Rows /\ e.role = "user"
    BY <1>2, UserRows
  <2>2. s \o Append(r, e) = Append(s \o r, e) /\ s \o r \in Seq(Rows)
    BY <2>1, AppendLonger
  <2>3. Accepted(s \o Append(r, e))
    BY <2>1, <2>2, AcceptedUser
  <2> QED
    BY <2>3
<1>3. us \in V
  <2> HIDE DEF V
  <2> QED
    BY <1>1, <1>2, S!SeqSetInduction
<1> QED
  BY <1>3, UserRows

(* Stored, they leave what is loose, and the calls seen unless none is.     *)
Loosened(a, b) ==
  b.loose = a.loose /\ (b.seen = {} \/ (b.seen = a.seen /\ b.head = a.head))

(* It is so for any number of follow-ups.                                   *)
LEMMA LoggedUsers ==
  ASSUME NEW s \in Seq(Rows), NEW us \in Seq(Users)
  PROVE  Loosened(Scanned(Rebuilt(s)), Scanned(Rebuilt(s \o us)))
<1> DEFINE a == Scanned(Rebuilt(s))
           V == {r \in Seq(Users) : Loosened(a, Scanned(Rebuilt(s \o r)))}
<1>1. <<>> \in V
  BY NoneLonger DEF Loosened
<1>2. ASSUME NEW r \in Seq(Users), NEW e \in Users, r \in V
      PROVE  Append(r, e) \in V
  <2> DEFINE b == Scanned(Rebuilt(s \o r))
             c == Scanned(Rebuilt(s \o Append(r, e)))
  <2>1. Loosened(a, b) /\ r \in Seq(Rows) /\ e \in Rows /\ e.role = "user" /\ Replayed(e) = e
    BY <1>2, UserRows
  <2>2. s \o Append(r, e) = Append(s \o r, e) /\ s \o r \in Seq(Rows)
    BY <2>1, AppendLonger
  <2>3. Rebuilt(s \o r) \in Seq(Rows) /\ Rebuilt(s \o Append(r, e)) = Append(Rebuilt(s \o r), e)
    BY <2>1, <2>2, RebuiltAppend
  <2>4. c = AfterOther(b, {}, {})
    BY <2>1, <2>3, ScannedUser
  <2>5. Loosened(a, c)
    <3> HIDE DEF a, b, c
    <3> QED
      BY <2>1, <2>4 DEF Loosened, AfterOther
  <2> QED
    BY <2>5
<1>3. us \in V
  <2> HIDE DEF V
  <2> QED
    BY <1>1, <1>2, S!SeqSetInduction
<1> QED
  BY <1>3
-----------------------------------------------------------------------------
(* What is known of the chat of a turn: it can be sent when it is, and      *)
(* while its calls are made, those that are left belong to the last message *)
(* of the LLM, and nothing before it is open.                               *)
Calling == {"calls", "confirming"}

ChatFine(pc, chat, calls) ==
  /\ pc \in {"loaded", "boundary", "llm"} => Accepted(chat)
  /\ pc \in Calling => /\ Scanned(chat).stray = {} /\ Scanned(chat).open = {}
                       /\ Range(calls) \subseteq Scanned(chat).head

ChatInv == \A t \in Msgs : ChatFine(turn[t].pc, turn[t].chat, turn[t].calls)

(* What is known of the log: no answer in it is loose, it has none of the   *)
(* calls that are not yet made, and a call that a turn still has to answer  *)
(* is one of the last message, if it is there at all.                       *)
Seen == Scanned(Rebuilt(log))

LogFine(a, calls) == Range(calls) \cap a.seen \subseteq a.head

LogInv ==
  /\ Seen.loose = {} /\ Seen.seen \cap fresh = {}
  /\ \A t \in Msgs : turn[t].pc \in Calling => LogFine(Seen, turn[t].calls)

(* A chat without a stray answer can be sent when it is sanitized.          *)
LEMMA SanitizedFine ==
  ASSUME NEW s \in Seq(Rows), Scanned(s).stray = {}
  PROVE  Sanitized(s) \in Seq(Rows) /\ Accepted(Sanitized(s))
<1>1. Scanned(s).loose = {}
  BY ScannedWalked DEF Walked
<1> QED
  BY <1>1, SanitizedAccepted

(* Only the chat of the turn that takes the step has to be looked at.       *)
LEMMA OneChat ==
  ASSUME ChatInv, NEW t \in Msgs, NEW pc, NEW chat, NEW calls, NEW answers, NEW loops, NEW errs,
         After(t, pc, chat, calls, answers, loops, errs), ChatFine(pc, chat, calls)
  PROVE  ChatInv'
<1>1. /\ turn'[t].pc = pc /\ turn'[t].chat = chat /\ turn'[t].calls = calls
      /\ \A u \in Msgs \ {t} : turn'[u] = turn[u]
  BY DEF After
<1>2. \A u \in Msgs : ChatFine(turn'[u].pc, turn'[u].chat, turn'[u].calls)
  BY <1>1 DEF ChatInv
<1> QED
  BY <1>2 DEF ChatInv

(* Every step keeps it.                                                     *)
LEMMA ChatStep ==
  ASSUME Typed, Bounded, ChatInv, Seen.loose = {}, [Next]_vars
  PROVE  ChatInv'
<1>0. \A t \in Msgs : /\ ChatFine(turn[t].pc, turn[t].chat, turn[t].calls)
                      /\ turn[t].chat \in Seq(Rows) /\ turn[t].calls \in Seq(Calls)
  BY TurnTyped, FieldsTyped DEF ChatInv
<1>1. ASSUME NEW c \in Conns, ResolveToolConfirm(c)
      PROVE  ChatInv'
  BY <1>0, <1>1, AfterResolve, OneChat
<1>2. ASSUME NEW c \in Conns, NEW t \in Msgs, StartTurn(c, t)
      PROVE  ChatInv'
  <2>1. ChatFine("spawned", <<>>, <<>>)
    BY DEF ChatFine, Calling
  <2> QED
    BY <1>2, <2>1, AfterStart, OneChat
<1>3. CASE (\E c \in Conns : Cancel(c)) \/ (\E t \in Msgs : Deadline(t))
  <2>1. \A t \in Msgs : ChatFine(turn'[t].pc, turn'[t].chat, turn'[t].calls)
    BY <1>0, <1>3, AfterCut DEF Cut
  <2> QED
    BY <2>1 DEF ChatInv
<1>4. CASE Crash
  <2>1. \A t \in Msgs : Active(t) => ChatFine(turn'[t].pc, turn'[t].chat, turn'[t].calls)
    BY <1>4, AfterCrash DEF ChatFine, Calling
  <2>2. \A t \in Msgs : ~Active(t) => ChatFine(turn'[t].pc, turn'[t].chat, turn'[t].calls)
    BY <1>0, <1>4, AfterCrash
  <2> QED
    BY <2>1, <2>2 DEF ChatInv
<1>5. ASSUME NEW t \in Msgs, TurnStep(t)
      PROVE  ChatInv'
  <2>0. /\ ChatFine(turn[t].pc, turn[t].chat, turn[t].calls)
        /\ turn[t].chat \in Seq(Rows) /\ turn[t].calls \in Seq(Calls)
    BY <1>0
  <2>1. CASE \/ Register(t) \/ GetMessagesFails(t) \/ OutOfTurns(t)
             \/ LlmEnds(t) \/ LlmGivesUp(t) \/ Finish(t)
    <3>1. PICK pc \in {"registered", "ending"} : turn' = [turn EXCEPT ![t].pc = pc]
      BY <2>1 DEF Register, GetMessagesFails, OutOfTurns, LlmEnds, LlmGivesUp, Finish
    <3>2. pc \in PCs /\ \A chat, calls : ChatFine(pc, chat, calls)
      BY DEF PCs, ChatFine, Calling
    <3> QED
      BY <3>1, <3>2, AfterGoing, OneChat
  <2>2. CASE GetMessages(t)
    <3>1. Rebuilt(log) \in Seq(Rows)
      BY RebuiltTyped DEF Typed
    <3>2. Accepted(Sanitized(Rebuilt(log)))
      BY <3>1, SanitizedAccepted DEF Seen
    <3>3. ChatFine("loaded", Sanitized(Rebuilt(log)), turn[t].calls)
      BY <3>2 DEF ChatFine, Calling
    <3> QED
      BY <2>2, <3>3, AfterLoad, OneChat
  <2>3. CASE AppendUser(t)
    <3>1. Accepted(turn[t].chat)
      BY <2>0, <2>3 DEF AppendUser, ChatFine
    <3>2. Accepted(Append(turn[t].chat, User(t)))
      BY <2>0, <3>1, AcceptedUser, RowsMade
    <3>3. ChatFine("boundary", Append(turn[t].chat, User(t)), turn[t].calls)
      BY <3>2 DEF ChatFine, Calling
    <3> QED
      BY <2>3, <3>3, AfterUser, OneChat
  <2>4. CASE Boundary(t)
    <3>1. Scanned(turn[t].chat).stray = {}
      BY <2>0, <2>4 DEF Boundary, AtBoundary, ChatFine, Accepted, Calling
    <3>2. Sanitized(turn[t].chat) \in Seq(Rows) /\ Accepted(Sanitized(turn[t].chat))
      BY <2>0, <3>1, SanitizedFine
    <3>3. Accepted(Sanitized(turn[t].chat) \o Steered)
      BY <3>2, AcceptedUsers, SteeredTyped
    <3>4. ChatFine("llm", Sanitized(turn[t].chat) \o Steered, turn[t].calls)
      BY <3>3 DEF ChatFine, Calling
    <3> QED
      BY <2>4, <3>4, AfterBoundary, OneChat
  <2>5. CASE LlmRetries(t) \/ LlmAnswers(t)
    <3>1. /\ ChatFine("boundary", turn[t].chat, turn[t].calls)
          /\ ChatFine("final", turn[t].chat, turn[t].calls)
      BY <2>0, <2>5 DEF LlmRetries, LlmAnswers, ChatFine, Calling
    <3> QED
      BY <2>5, <3>1, AfterRetry, AfterAnswer, OneChat
  <2>6. CASE LlmCalls(t)
    <3>1. PICK ks \in Seq(Calls) : CallsMade(t, ks)
      BY <2>6, LlmCallsMade
    <3>2. Accepted(turn[t].chat)
      BY <2>0, <2>6 DEF LlmCalls, ChatFine
    <3> DEFINE a == Scanned(turn[t].chat)
               b == Scanned(Append(turn[t].chat, Assistant(ks, FALSE)))
    <3>3. b = AfterOther(a, a.seen \cup Range(ks), Range(ks))
      BY <2>0, ScannedAssistant
    <3>4. a.stray = {} /\ a.open = {} /\ a.head \subseteq a.got
      BY <3>2 DEF Accepted
    <3>5. b.stray = {} /\ b.open = {} /\ Range(ks) \subseteq b.head
      <4> HIDE DEF a, b
      <4> QED
        BY <3>3, <3>4 DEF AfterOther
    <3>6. ChatFine("calls", Append(turn[t].chat, Assistant(ks, FALSE)), ks)
      BY <3>5 DEF ChatFine, Calling
    <3> QED
      BY <3>1, <3>6, AfterCalls, OneChat
  <2>7. CASE CallTool(t) \/ Answered(t) \/ ConfirmTimesOut(t)
    <3>1. PICK k \in Calls :
            /\ turn[t].calls \in Seq(Calls) /\ Tail(turn[t].calls) \in Seq(Calls)
            /\ k \in Range(turn[t].calls)
            /\ Range(Tail(turn[t].calls)) \subseteq Range(turn[t].calls)
            /\ turn' = [turn EXCEPT ![t].pc = "calls", ![t].calls = Tail(@), ![t].answers = 0,
                                    ![t].chat = Append(@, Tool(k))]
      BY <2>7, ResultMade
    <3> DEFINE a == Scanned(turn[t].chat)
               b == Scanned(Append(turn[t].chat, Tool(k)))
    <3>2. a.stray = {} /\ a.open = {} /\ Range(turn[t].calls) \subseteq a.head
      BY <2>0, <2>7 DEF CallTool, Answered, ConfirmTimesOut, ChatFine, Calling
    <3>3. b = AfterTool(a, k)
      BY <2>0, ScannedTool
    <3>4. b.stray = {} /\ b.open = {} /\ Range(Tail(turn[t].calls)) \subseteq b.head
      <4> HIDE DEF a, b
      <4> QED
        BY <3>1, <3>2, <3>3 DEF AfterTool
    <3>5. ChatFine("calls", Append(turn[t].chat, Tool(k)), Tail(turn[t].calls))
      BY <3>4 DEF ChatFine, Calling
    <3> QED
      BY <3>1, <3>5, AfterResult, OneChat
  <2>8. CASE SetToolConfirm(t)
    <3>1. ChatFine("confirming", turn[t].chat, turn[t].calls)
      BY <2>0, <2>8 DEF SetToolConfirm, ChatFine, Calling
    <3> QED
      BY <2>8, <3>1, AfterConfirm, OneChat
  <2>9. CASE EndTurn(t) \/ Announce(t)
    <3>1. ChatFine("announcing", <<>>, <<>>) /\ ChatFine("done", <<>>, <<>>)
      BY DEF ChatFine, Calling
    <3> QED
      BY <2>9, <3>1, AfterEnd, AfterAnnounce, OneChat
  <2> QED
    BY <1>5, <2>1, <2>2, <2>3, <2>4, <2>5, <2>6, <2>7, <2>8, <2>9 DEF TurnStep
<1>6. UNCHANGED turn => ChatInv'
  BY <1>0 DEF ChatInv
<1> QED
  BY <1>1, <1>2, <1>3, <1>4, <1>5, <1>6, Steps DEF Steer, vars
-----------------------------------------------------------------------------
(* The log, message by message.                                             *)
LEMMA SeenScans ==
  ASSUME Typed
  PROVE  Rebuilt(log) \in Seq(Rows) /\ Seen \in Scans /\ log \in Seq(Rows)
BY RebuiltTyped, ScannedTyped DEF Typed, Seen

(* A message of the user or the text at the end leaves nothing to answer.   *)
LEMMA SeenPlain ==
  ASSUME Typed, NEW e \in Rows, e \in Users \/ e = Assistant(<<>>, TRUE),
         log' \in {log, Append(log, e)}
  PROVE  Seen'.loose = Seen.loose /\ Seen'.seen \subseteq Seen.seen
<1>1. CASE log' = log
  <2>1. Seen' = Seen
    BY <1>1 DEF Seen
  <2> QED
    BY <2>1
<1>2. CASE log' = Append(log, e) /\ e \in Users
  <2>1. Rebuilt(log') = Append(Rebuilt(log), e) /\ Rebuilt(log) \in Seq(Rows) /\ e.role = "user"
    BY <1>2, SeenScans, RebuiltAppend, UserRows
  <2>2. Seen' = AfterOther(Seen, {}, {})
    BY <2>1, ScannedUser DEF Seen
  <2> QED
    BY <2>2 DEF AfterOther
<1>3. CASE log' = Append(log, e) /\ e = Assistant(<<>>, TRUE)
  <2>1. <<>> \in Seq(Calls) /\ Range(<<>>) = {}
    BY DEF Range
  <2>2. PICK b \in BOOLEAN : Replayed(e) = Assistant(<<>>, b)
    BY <1>3, <2>1, ReplayedCalls
  <2>3. Rebuilt(log') = Append(Rebuilt(log), Assistant(<<>>, b)) /\ Rebuilt(log) \in Seq(Rows)
    BY <1>3, <2>2, SeenScans, RebuiltAppend
  <2>4. Seen' = AfterOther(Seen, Seen.seen \cup {}, {})
    BY <2>1, <2>3, ScannedAssistant DEF Seen
  <2> QED
    BY <2>4 DEF AfterOther
<1> QED
  BY <1>1, <1>2, <1>3

(* Follow-ups: the calls seen are as they were, or none.                    *)
LEMMA SeenFollowUps ==
  ASSUME Typed, NEW us \in Seq(Users), log' = log \o us
  PROVE  Loosened(Seen, Seen')
BY LoggedUsers, SeenScans DEF Seen

(* The calls of the LLM: those of the last message, or none of them there.  *)
LEMMA SeenCalls ==
  ASSUME Typed, NEW ks \in Seq(Calls), NEW said \in BOOLEAN,
         log' \in {log, Append(log, Assistant(ks, said))}, Range(ks) \cap Seen.seen = {}
  PROVE  /\ Seen'.loose = Seen.loose /\ Seen'.seen \subseteq Seen.seen \cup Range(ks)
         /\ LogFine(Seen', ks)
<1>1. CASE log' = log
  <2>1. Seen' = Seen
    BY <1>1 DEF Seen
  <2> QED
    BY <2>1 DEF LogFine
<1>2. CASE log' = Append(log, Assistant(ks, said))
  <2>1. PICK ls \in {<<>>, ks}, b \in BOOLEAN : Replayed(Assistant(ks, said)) = Assistant(ls, b)
    BY ReplayedCalls
  <2>2. ls \in Seq(Calls) /\ (ls = ks \/ Range(ls) = {})
    <3>1. <<>> \in Seq(Calls) /\ Range(<<>>) = {}
      BY DEF Range
    <3> QED
      BY <2>1, <3>1
  <2>3. Rebuilt(log') = Append(Rebuilt(log), Assistant(ls, b)) /\ Rebuilt(log) \in Seq(Rows)
    BY <1>2, <2>1, SeenScans, RebuiltAppend, RowsMade
  <2>4. Seen' = AfterOther(Seen, Seen.seen \cup Range(ls), Range(ls))
    BY <2>2, <2>3, ScannedAssistant DEF Seen
  <2>5. Seen'.loose = Seen.loose /\ Seen'.seen = Seen.seen \cup Range(ls) /\ Seen'.head = Range(ls)
    BY <2>4 DEF AfterOther
  <2> QED
    BY <2>2, <2>5 DEF LogFine
<1> QED
  BY <1>1, <1>2

(* A result of a call that is not in the log, or is one of the last message.*)
LEMMA SeenResult ==
  ASSUME Typed, NEW k \in Calls, log' \in {log, Append(log, Tool(k))},
         k \in Seen.seen => k \in Seen.head
  PROVE  Seen'.loose = Seen.loose /\ Seen'.seen = Seen.seen /\ Seen'.head = Seen.head
<1>1. CASE log' = log
  <2>1. Seen' = Seen
    BY <1>1 DEF Seen
  <2> QED
    BY <2>1
<1>2. CASE log' = Append(log, Tool(k))
  <2>0. Tool(k) \in Rows /\ Replayed(Tool(k)) = Tool(k)
    <3>1. Tool(k) \in Rows /\ Tool(k).role = "tool"
      BY RowsMade
    <3>2. Tool(k).role # "assistant"
      BY <3>1
    <3> QED
      BY <3>1, <3>2, ReplayedRow
  <2>1. Rebuilt(log') = Append(Rebuilt(log), Tool(k)) /\ Rebuilt(log) \in Seq(Rows)
    BY <1>2, <2>0, SeenScans, RebuiltAppend
  <2>2. Seen' = AfterTool(Seen, k)
    BY <2>1, ScannedTool DEF Seen
  <2>3. Seen'.loose = Seen.loose \cup ({k} \cap (Seen.seen \ Seen.head))
    BY <2>2 DEF AfterTool
  <2>4. Seen'.seen = Seen.seen /\ Seen'.head = Seen.head
    BY <2>2 DEF AfterTool
  <2>5. {k} \cap (Seen.seen \ Seen.head) = {}
    OBVIOUS
  <2> QED
    BY <2>3, <2>4, <2>5
<1> QED
  BY <1>1, <1>2

(* A turn that still has calls to answer had them already, or makes them,   *)
(* or has just answered one.                                                *)
LEMMA CallsLeft ==
  ASSUME Typed, Bounded, [Next]_vars, NEW u \in Msgs, turn'[u].pc \in Calling, ~LlmCalls(u)
  PROVE  /\ turn[u].pc \in Calling /\ turn[u].calls \in Seq(Calls)
         /\ Range(turn'[u].calls) \subseteq Range(turn[u].calls)
<1>0. turn[u].calls \in Seq(Calls)
  BY TurnTyped, FieldsTyped
<1>1. turn'[u].pc = turn[u].pc /\ turn'[u].calls = turn[u].calls
        => turn[u].pc \in Calling /\ Range(turn'[u].calls) \subseteq Range(turn[u].calls)
  OBVIOUS
<1>2. ASSUME NEW c \in Conns, ResolveToolConfirm(c)
      PROVE  turn'[u].pc = turn[u].pc /\ turn'[u].calls = turn[u].calls
  BY <1>2, AfterResolve DEF After
<1>3. ASSUME NEW c \in Conns, NEW t \in Msgs, StartTurn(c, t)
      PROVE  turn'[u].pc = turn[u].pc /\ turn'[u].calls = turn[u].calls
  BY <1>3, AfterStart DEF After, Calling
<1>4. CASE (\E c \in Conns : Cancel(c)) \/ (\E t \in Msgs : Deadline(t))
  <2>1. turn'[u].pc = turn[u].pc /\ turn'[u].calls = turn[u].calls
    BY <1>4, AfterCut DEF Cut
  <2> QED
    BY <1>0, <1>1, <2>1
<1>5. ~Crash
  BY AfterCrash DEF Calling, Active
<1>6. ASSUME NEW t \in Msgs, TurnStep(t), t # u
      PROVE  turn'[u].pc = turn[u].pc /\ turn'[u].calls = turn[u].calls
  BY <1>6, TurnStepTaken
<1>7. ASSUME TurnStep(u)
      PROVE  turn[u].pc \in Calling /\ Range(turn'[u].calls) \subseteq Range(turn[u].calls)
  <2>1. ~(\/ Register(u) \/ GetMessagesFails(u) \/ OutOfTurns(u)
          \/ LlmEnds(u) \/ LlmGivesUp(u) \/ Finish(u))
    <3> SUFFICES ASSUME \/ Register(u) \/ GetMessagesFails(u) \/ OutOfTurns(u)
                        \/ LlmEnds(u) \/ LlmGivesUp(u) \/ Finish(u)
                 PROVE  FALSE
      OBVIOUS
    <3>1. PICK pc \in {"registered", "ending"} : turn' = [turn EXCEPT ![u].pc = pc]
      BY DEF Register, GetMessagesFails, OutOfTurns, LlmEnds, LlmGivesUp, Finish
    <3>2. pc \in PCs
      BY DEF PCs
    <3> QED
      BY <3>1, <3>2, AfterGoing DEF After, Calling
  <2>2. ~(\/ GetMessages(u) \/ AppendUser(u) \/ Boundary(u)
          \/ LlmRetries(u) \/ LlmAnswers(u) \/ EndTurn(u) \/ Announce(u))
    BY AfterLoad, AfterUser, AfterBoundary, AfterRetry, AfterAnswer, AfterEnd, AfterAnnounce DEF
       After, Calling
  <2>3. CASE SetToolConfirm(u)
    BY <2>3, AfterConfirm DEF After, SetToolConfirm, Calling
  <2>4. CASE CallTool(u) \/ Answered(u) \/ ConfirmTimesOut(u)
    <3>1. PICK k \in Calls :
            /\ turn[u].calls \in Seq(Calls) /\ Tail(turn[u].calls) \in Seq(Calls)
            /\ k \in Range(turn[u].calls)
            /\ Range(Tail(turn[u].calls)) \subseteq Range(turn[u].calls)
            /\ turn' = [turn EXCEPT ![u].pc = "calls", ![u].calls = Tail(@), ![u].answers = 0,
                                    ![u].chat = Append(@, Tool(k))]
      BY <2>4, ResultMade
    <3>2. turn'[u].calls = Tail(turn[u].calls)
      <4>1. PICK ks \in Seq(Calls) : ks = Tail(turn[u].calls)
        BY <3>1
      <4>2. After(u, "calls", Append(turn[u].chat, Tool(k)), ks, 0, turn[u].loops, turn[u].errs)
        BY <3>1, <4>1, AfterResult
      <4> QED
        BY <4>1, <4>2 DEF After
    <3>3. turn[u].pc \in Calling
      BY <2>4 DEF CallTool, Answered, ConfirmTimesOut, Calling
    <3> QED
      BY <3>1, <3>2, <3>3
  <2> QED
    BY <1>7, <2>1, <2>2, <2>3, <2>4 DEF TurnStep
<1> QED
  BY <1>0, <1>1, <1>2, <1>3, <1>4, <1>5, <1>6, <1>7, Steps DEF Steer, vars
-----------------------------------------------------------------------------
(* The log stays fine while turns do not overlap: what a turn stores cannot *)
(* come between the calls of another and their results.                     *)
LEMMA LogLeft ==
  ASSUME Typed, Bounded, LogInv, [Next]_vars,
         Seen'.loose = {}, Seen'.seen \cap fresh' = {},
         \A u \in Msgs : \A calls :
           turn[u].pc \in Calling /\ turn'[u].pc \in Calling /\ LogFine(Seen, calls)
             => LogFine(Seen', calls),
         \A t \in Msgs : ~LlmCalls(t)
  PROVE  LogInv'
<1>1. ASSUME NEW u \in Msgs, turn'[u].pc \in Calling
      PROVE  LogFine(Seen', turn'[u].calls)
  <2>1. turn[u].pc \in Calling /\ Range(turn'[u].calls) \subseteq Range(turn[u].calls)
    BY <1>1, CallsLeft
  <2>2. LogFine(Seen, turn[u].calls)
    BY <2>1 DEF LogInv
  <2>3. LogFine(Seen, turn'[u].calls)
    BY <2>1, <2>2 DEF LogFine
  <2> QED
    BY <1>1, <2>1, <2>3
<1> QED
  BY <1>1 DEF LogInv

(* Every step of a turn that runs alone keeps it.                           *)
LEMMA LogInvStep ==
  ASSUME Typed, Bounded, Alone, LogInv, [Next]_vars
  PROVE  LogInv'
<1>0. Seen.loose = {} /\ Seen.seen \cap fresh = {}
  BY DEF LogInv
<1>1. CASE UNCHANGED log /\ ~\E t \in Msgs : LlmCalls(t)
  <2>1. UNCHANGED fresh /\ Seen' = Seen
    BY <1>1, FreshSteps DEF Seen
  <2> QED
    BY <1>0, <1>1, <2>1, LogLeft
<1>2. ASSUME NEW t \in Msgs, LlmCalls(t)
      PROVE  LogInv'
  <2>1. PICK ks \in Seq(Calls), said \in BOOLEAN :
          /\ Range(ks) \subseteq fresh /\ fresh' = fresh \ Range(ks)
          /\ CallsMade(t, ks)
          /\ log' \in {log, Append(log, Assistant(ks, said))}
    BY <1>2, LlmCallsMade
  <2>2. Range(ks) \cap Seen.seen = {}
    BY <1>0, <2>1
  <2>3. Seen'.loose = {} /\ Seen'.seen \subseteq Seen.seen \cup Range(ks) /\ LogFine(Seen', ks)
    BY <1>0, <2>1, <2>2, SeenCalls
  <2>4. Seen'.seen \cap fresh' = {}
    BY <1>0, <2>1, <2>3
  <2>5. turn'[t].calls = ks /\ \A u \in Msgs \ {t} : turn'[u] = turn[u]
    BY <2>1, AfterCalls DEF After
  <2>6. Busy(t)
    BY <1>2 DEF LlmCalls, Busy
  <2>7. \A u \in Msgs \ {t} : turn'[u].pc \notin Calling
    BY <2>5, <2>6 DEF Alone, Busy, Calling
  <2>8. \A u \in Msgs : turn'[u].pc \in Calling => LogFine(Seen', turn'[u].calls)
    BY <2>3, <2>5, <2>7
  <2> QED
    BY <2>3, <2>4, <2>8 DEF LogInv
<1>3. ASSUME NEW t \in Msgs, AppendUser(t) \/ Boundary(t)
      PROVE  LogInv'
  <2>1. Loosened(Seen, Seen')
    <3>1. CASE Boundary(t)
      BY <3>1, BoundaryLog, SeenFollowUps
    <3>2. CASE AppendUser(t) /\ log' = log
      BY <3>2 DEF Loosened, Seen
    <3>3. CASE AppendUser(t) /\ log' # log
      <4>1. log' = Append(log, User(t)) /\ log \in Seq(Rows)
        BY <3>3, RowsMade, LogTypedCtx, SeenScans DEF AppendUser
      <4>2. Append(log, User(t)) = log \o <<User(t)>> /\ <<User(t)>> \in Seq(Users)
        <5>1. User(t) \in Rows /\ User(t) \in Users
          BY RowsMade
        <5> QED
          BY <4>1, <5>1
      <4> QED
        BY <4>1, <4>2, SeenFollowUps
    <3> QED
      BY <1>3, <3>1, <3>2, <3>3
  <2>2. UNCHANGED fresh /\ \A u \in Msgs : ~LlmCalls(u)
    <3>1. turn'[t].pc \in {"boundary", "llm"} /\ \A u \in Msgs \ {t} : turn'[u] = turn[u]
      BY <1>3, AfterUser, AfterBoundary DEF After
    <3>2. ASSUME NEW u \in Msgs, LlmCalls(u)
          PROVE  FALSE
      <4>1. turn'[u].pc = "calls" /\ turn[u].pc = "llm"
        BY <3>2, LlmCallsMade, AfterCalls DEF After, LlmCalls
      <4> QED
        BY <3>1, <4>1
    <3> QED
      BY <3>2, FreshSteps
  <2>3. Seen'.loose = {} /\ Seen'.seen \cap fresh' = {}
    BY <1>0, <2>1, <2>2 DEF Loosened
  <2>4. \A calls : LogFine(Seen, calls) => LogFine(Seen', calls)
    BY <2>1 DEF Loosened, LogFine
  <2> QED
    BY <2>2, <2>3, <2>4, LogLeft
<1>4. ASSUME NEW t \in Msgs, LlmGivesUp(t) \/ Finish(t)
      PROVE  LogInv'
  <2>1. Assistant(<<>>, TRUE) \in Rows
    <3>1. <<>> \in Seq(Calls) /\ TRUE \in BOOLEAN
      OBVIOUS
    <3> QED
      BY <3>1, RowsMade
  <2>2. log' \in {log, Append(log, Assistant(<<>>, TRUE))}
    BY <1>4, <2>1, LogTyped, LogTypedCtx DEF LlmGivesUp, Finish
  <2>3. Seen'.loose = {} /\ Seen'.seen \subseteq Seen.seen
    BY <1>0, <2>1, <2>2, SeenPlain
  <2>4. UNCHANGED fresh
    BY <1>4 DEF LlmGivesUp, Finish
  <2>5. "ending" \in PCs /\ turn' = [turn EXCEPT ![t].pc = "ending"]
    BY <1>4 DEF PCs, LlmGivesUp, Finish
  <2>6. turn'[t].pc = "ending"
    BY <2>5, AfterGoing DEF After
  <2>7. \A u \in Msgs : turn[u].pc \in Calling => u = t
    BY <1>4 DEF LlmGivesUp, Finish, Alone, Busy, Calling
  <2>8. ASSUME NEW u \in Msgs, LlmCalls(u)
        PROVE  FALSE
    <3>1. u = t
      BY <1>4, <2>8 DEF LlmCalls, LlmGivesUp, Finish, Alone, Busy
    <3>2. turn'[u].pc = "calls"
      BY <2>8, LlmCallsMade, AfterCalls DEF After
    <3> QED
      BY <2>6, <3>1, <3>2
  <2>9. \A u \in Msgs : ~(turn[u].pc \in Calling /\ turn'[u].pc \in Calling)
    BY <2>6, <2>7 DEF Calling
  <2> QED
    BY <1>0, <2>3, <2>4, <2>8, <2>9, LogLeft
<1>5. ASSUME NEW t \in Msgs, CallTool(t) \/ Answered(t) \/ ConfirmTimesOut(t)
      PROVE  LogInv'
  <2>1. PICK k \in Calls : k \in Range(turn[t].calls) /\ log' \in {log, Append(log, Tool(k))}
    BY <1>5, ResultMade
  <2>2. LogFine(Seen, turn[t].calls)
    BY <1>5 DEF CallTool, Answered, ConfirmTimesOut, LogInv, Calling
  <2>3. k \in Seen.seen => k \in Seen.head
    BY <2>1, <2>2 DEF LogFine
  <2>4. Seen'.loose = {} /\ Seen'.seen = Seen.seen /\ Seen'.head = Seen.head
    BY <1>0, <2>1, <2>3, SeenResult
  <2>5. UNCHANGED fresh
    BY <1>5 DEF CallTool, Answered, ConfirmTimesOut, Result
  <2>6. ASSUME NEW u \in Msgs, LlmCalls(u)
        PROVE  FALSE
    BY <1>5, <2>6 DEF LlmCalls, CallTool, Answered, ConfirmTimesOut, Alone, Busy
  <2>7. \A calls : LogFine(Seen, calls) => LogFine(Seen', calls)
    BY <2>4 DEF LogFine
  <2> QED
    BY <1>0, <2>4, <2>5, <2>6, <2>7, LogLeft
<1>6. CASE Crash \/ \E t \in Msgs : GetMessagesFails(t)
  <2>1. UNCHANGED log
    BY <1>6 DEF Crash, GetMessagesFails
  <2>2. ASSUME NEW u \in Msgs, LlmCalls(u)
        PROVE  LogInv'
    BY <1>2, <2>2
  <2> QED
    BY <1>1, <2>1, <2>2
<1> QED
  BY <1>1, <1>2, <1>3, <1>4, <1>5, <1>6, LogSteps
-----------------------------------------------------------------------------
PairedInv == Typed /\ Bounded /\ Alone /\ ChatInv /\ LogInv

(* All of it holds at the start.                                            *)
LEMMA PairedInit ==
  ASSUME Init
  PROVE  PairedInv
<1>1. \A t \in Msgs : turn[t].pc = "none"
  BY DEF Init, NewTurn
<1>2. ChatInv
  BY <1>1 DEF ChatInv, ChatFine, Calling
<1>3. Seen = Start
  BY RebuiltEmpty, ScannedEmpty DEF Init, Seen
<1>4. LogInv
  BY <1>1, <1>3 DEF LogInv, Start, Calling
<1> QED
  BY <1>2, <1>4, TypedInit, AloneInit DEF PairedInv

(* Whatever writes fail, turns are cancelled, confirmations time out and    *)
(* replicas crash, every call in the history sent to the LLM is answered    *)
(* behind its message and nothing else stands there, as the comment on      *)
(* sanitizeChatMessages promises, when turns do not overlap (engine.go).    *)
THEOREM HistoryPaired ==
  ASSUME ~Overlaps
  PROVE  Spec => []PairedHistory
<1>1. Init => PairedInv
  BY PairedInit
<1>2. PairedInv /\ [Next]_vars => PairedInv'
  <2> SUFFICES ASSUME PairedInv, [Next]_vars
               PROVE  PairedInv'
    OBVIOUS
  <2>1. Typed /\ Bounded /\ Alone /\ ChatInv /\ LogInv
    BY DEF PairedInv
  <2>2. Typed' /\ Bounded'
    BY <2>1, TypedStep
  <2>3. Alone'
    BY <2>1, AloneStep
  <2>4. ChatInv'
    BY <2>1, ChatStep DEF LogInv
  <2>5. LogInv'
    BY <2>1, LogInvStep
  <2> QED
    BY <2>2, <2>3, <2>4, <2>5 DEF PairedInv
<1>3. PairedInv => PairedHistory
  <2> SUFFICES ASSUME PairedInv, NEW t \in Msgs, Sending(t)
               PROVE  Paired(turn[t].chat)
    BY DEF PairedHistory
  <2>1. turn[t].chat \in Seq(Rows)
    BY TurnTyped, FieldsTyped DEF PairedInv
  <2>2. Accepted(turn[t].chat)
    BY DEF PairedInv, ChatInv, ChatFine, Sending
  <2> QED
    BY <2>1, <2>2, AcceptedPaired
<1> QED
  BY <1>1, <1>2, <1>3, PTL DEF Spec
==============================================================================
