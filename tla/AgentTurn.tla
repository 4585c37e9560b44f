------------------------------ MODULE AgentTurn ------------------------------
(***************************************************************************)
(* The turns of one agent session on one replica: the WebSocket handler    *)
(* that starts, steers, cancels and confirms (agent_ws.go), the turn loop  *)
(* of the engine with its tool calls (engine.go), and the stored messages  *)
(* from which each turn rebuilds what it sends to the LLM.                 *)
(*                                                                         *)
(* A turn is named by the message that began it.  A stored or sent message *)
(* is its role with the ids it carries: the calls of an assistant message, *)
(* the call a tool message answers.  Contents, usage, images, titles and   *)
(* compaction are left out, and ask_question, which waits for its answer   *)
(* just as a confirmation does.  The code lets turns overlap, from two     *)
(* connections or after a cancel: Overlaps says whether an instance does;  *)
(* a turn may always begin while another announces its end.                *)
(* MaxFaults bounds the failed writes and the crashes.                     *)
(***************************************************************************)
EXTENDS Naturals, SequencesExt

CONSTANTS
  Msgs,         \* messages of the users
  Calls,        \* ids of tool calls
  Conns,        \* WebSocket connections of the session's editors
  None,
  MaxTurns,     \* maxTurns of the agent: LLM calls of one turn
  LlmAttempts,  \* failed calls in a row that end a turn
  MailboxSize,  \* steeringMailboxSize
  Overlaps,     \* whether a turn may begin before another has returned
  MaxFaults

ASSUME TurnBounds ==
  /\ MaxTurns \in Nat \ {0} /\ LlmAttempts \in Nat \ {0}
  /\ MailboxSize \in Nat \ {0} /\ MaxFaults \in Nat /\ Overlaps \in BOOLEAN
ASSUME NoneAssumption == None \notin Msgs

VARIABLES
  conn,        \* each connection: processing and currentCancel
  turn,        \* each turn: its goroutine, context, chat and confirmation
  cancels,     \* sessionCancels of the session
  pending,     \* toolConfirmPending: the turn whose channel it holds
  mailbox,     \* the steering mailbox
  log,         \* agent_messages
  todo, fresh, \* messages not yet sent, calls not yet made
  faults

vars == <<conn, turn, cancels, pending, mailbox, log, todo, fresh, faults>>
-----------------------------------------------------------------------------
(* Messages, and the history a turn rebuilds from them. *)
User(m) == [role |-> "user", ids |-> <<m>>, said |-> FALSE]
Assistant(ks, said) == [role |-> "assistant", ids |-> ks, said |-> said]
Tool(k) == [role |-> "tool", ids |-> <<k>>, said |-> FALSE]

(* An assistant message that also has text is replayed without its calls. *)
Replayed(row) == IF row.said THEN [row EXCEPT !.ids = <<>>] ELSE row
Rebuilt(rows) == [i \in DOMAIN rows |-> Replayed(rows[i])]

(* The first loop of sanitizeChatMessages: a placeholder for every call     *)
(* that no tool message answers, behind those that do.                      *)
Hold(answered, out, k) == IF k \in answered THEN out ELSE Append(out, Tool(k))
Held(out, ks, answered) == FoldLeft(LAMBDA o, k : Hold(answered, o, k), out, ks)

Complete(acc, e) ==
  IF e.role = "tool"
  THEN [acc EXCEPT !.out = Append(@, e), !.answered = @ \cup {e.ids[1]}]
  ELSE [out |-> Append(Held(acc.out, acc.calls, acc.answered), e),
        calls |-> IF e.role = "assistant" THEN e.ids ELSE <<>>, answered |-> {}]

Completed(msgs) ==
  LET end == FoldLeft(Complete, [out |-> <<>>, calls |-> <<>>, answered |-> {}], msgs)
  IN Held(end.out, end.calls, end.answered)

(* Its second loop drops a tool message without a call of its id since the *)
(* last user message.                                                      *)
Called(msgs, i) ==
  \E j \in 1..(i - 1) :
    /\ msgs[j].role = "assistant" /\ msgs[i].ids[1] \in Range(msgs[j].ids)
    /\ \A n \in j..(i - 1) : msgs[n].role # "user"

KeepIf(msgs, acc, i) ==
  IF msgs[i].role = "tool" /\ ~Called(msgs, i) THEN acc ELSE Append(acc, msgs[i])

Keep(msgs) ==
  FoldLeft(LAMBDA acc, i : KeepIf(msgs, acc, i), <<>>, [i \in DOMAIN msgs |-> i])

(* Mutant for PairedHistory: no placeholders. *)
SanitizedHalf(msgs) == Keep(msgs)

Sanitized(msgs) == Keep(Completed(msgs))

(* What the providers ask for: the tool messages behind an assistant        *)
(* message answer all of its calls and no others.                           *)
Paired(msgs) ==
  LET Answers(i, j) == /\ i < j /\ msgs[i].role = "assistant" /\ msgs[j].role = "tool"
                       /\ msgs[j].ids[1] \in Range(msgs[i].ids)
                       /\ \A n \in (i + 1)..j : msgs[n].role = "tool"
  IN /\ \A i \in DOMAIN msgs : msgs[i].role = "assistant" =>
          \A k \in Range(msgs[i].ids) :
            \E j \in DOMAIN msgs : Answers(i, j) /\ msgs[j].ids = <<k>>
     /\ \A j \in DOMAIN msgs : msgs[j].role = "tool" => \E i \in DOMAIN msgs : Answers(i, j)
-----------------------------------------------------------------------------
NewConn == [processing |-> FALSE, cancel |-> None]
NewTurn == [pc |-> "none", conn |-> None, live |-> TRUE, chat |-> <<>>, calls |-> <<>>,
            answers |-> 0, loops |-> 0, errs |-> 0]

Init ==
  /\ conn = [c \in Conns |-> NewConn]
  /\ turn = [m \in Msgs |-> NewTurn]
  /\ cancels = None /\ pending = None
  /\ mailbox = <<>> /\ log = <<>>
  /\ todo = Msgs /\ fresh = Calls
  /\ faults = 0

Active(t) == turn[t].pc \notin {"none", "done", "dead"}
Live(t) == turn[t].live

(* AppendMessage: its errors are ignored. *)
AppendMessage(e) ==
  \/ log' = Append(log, e) /\ UNCHANGED faults
  \/ faults < MaxFaults /\ faults' = faults + 1 /\ UNCHANGED log

(* Under a context that is over nothing is stored. *)
AppendMessageCtx(t, e) == IF Live(t) THEN AppendMessage(e) ELSE UNCHANGED <<log, faults>>
-----------------------------------------------------------------------------
(* The handler. *)
StartTurn(c, m) ==
  /\ ~conn[c].processing
  /\ Overlaps \/ \A t \in Msgs : Active(t) => turn[t].pc = "announcing"
  /\ m \in todo /\ todo' = todo \ {m}
  /\ conn' = [conn EXCEPT ![c].processing = TRUE]
  /\ turn' = [turn EXCEPT ![m] = [NewTurn EXCEPT !.pc = "spawned", !.conn = c]]
  /\ UNCHANGED <<cancels, pending, mailbox, log, fresh, faults>>

(* With a full mailbox the client is told to keep the message. *)
Steer(c, m) ==
  /\ conn[c].processing
  /\ Len(mailbox) < MailboxSize
  /\ m \in todo /\ todo' = todo \ {m}
  /\ mailbox' = Append(mailbox, m)
  /\ UNCHANGED <<conn, turn, cancels, pending, log, fresh, faults>>

Cancel(c) ==
  /\ turn' = [t \in Msgs |-> IF t \in {cancels, conn[c].cancel} /\ Live(t)
                             THEN [turn[t] EXCEPT !.live = FALSE] ELSE turn[t]]
  /\ cancels' = None
  /\ conn' = [conn EXCEPT ![c].cancel = None, ![c].processing = FALSE]
  /\ UNCHANGED <<pending, mailbox, log, todo, fresh, faults>>

(* An answer is counted, approval or denial: a result follows from either.  *)

(* Mutant for AnswerNeverBlocks: the channel stays in the map. *)
ResolveToolConfirmKept(c) ==
  /\ pending # None
  /\ turn' = [turn EXCEPT ![pending].answers = @ + 1]
  /\ UNCHANGED <<conn, cancels, pending, mailbox, log, todo, fresh, faults>>

ResolveToolConfirm(c) ==
  /\ pending # None
  /\ turn' = [turn EXCEPT ![pending].answers = @ + 1]
  /\ pending' = None
  /\ UNCHANGED <<conn, cancels, mailbox, log, todo, fresh, faults>>
-----------------------------------------------------------------------------
(* The goroutine of a turn. *)
Register(t) ==
  /\ turn[t].pc = "spawned"
  /\ turn' = [turn EXCEPT ![t].pc = "registered"]
  /\ conn' = [conn EXCEPT ![turn[t].conn].cancel = t]
  /\ cancels' = t
  /\ UNCHANGED <<pending, mailbox, log, todo, fresh, faults>>

(* Thirty minutes, or any time in the model. *)
Deadline(t) ==
  /\ Active(t) /\ turn[t].pc # "spawned" /\ Live(t)
  /\ turn' = [turn EXCEPT ![t].live = FALSE]
  /\ UNCHANGED <<conn, cancels, pending, mailbox, log, todo, fresh, faults>>

GetMessages(t) ==
  /\ turn[t].pc = "registered" /\ Live(t)
  /\ turn' = [turn EXCEPT ![t].pc = "loaded", ![t].chat = Sanitized(Rebuilt(log))]
  /\ UNCHANGED <<conn, cancels, pending, mailbox, log, todo, fresh, faults>>

GetMessagesFails(t) ==
  /\ turn[t].pc = "registered"
  /\ IF Live(t) THEN faults < MaxFaults /\ faults' = faults + 1 ELSE UNCHANGED faults
  /\ turn' = [turn EXCEPT ![t].pc = "ending"]
  /\ UNCHANGED <<conn, cancels, pending, mailbox, log, todo, fresh>>

AppendUser(t) ==
  /\ turn[t].pc = "loaded"
  /\ turn' = [turn EXCEPT ![t].pc = "boundary", ![t].chat = Append(@, User(t))]
  /\ AppendMessageCtx(t, User(t))
  /\ UNCHANGED <<conn, cancels, pending, mailbox, todo, fresh>>

AtBoundary(t) ==
  turn[t].pc = "boundary" \/ (turn[t].pc = "calls" /\ turn[t].calls = <<>>)

(* Mutant for TypeOK: one turn more. *)
HasTurnsLate(t) == turn[t].loops <= MaxTurns

HasTurns(t) == turn[t].loops < MaxTurns

(* The top of the loop: DrainSteering and applySteering, each follow-up     *)
(* into the chat and the log.                                               *)
Boundary(t) ==
  /\ AtBoundary(t) /\ HasTurns(t)
  /\ LET steered == [i \in DOMAIN mailbox |-> User(mailbox[i])]
     IN /\ turn' = [turn EXCEPT ![t].pc = "llm", ![t].loops = @ + 1,
                                ![t].chat = Sanitized(@) \o steered]
        /\ \/ log' = log \o steered /\ UNCHANGED faults
           \/ /\ faults < MaxFaults /\ faults' = faults + 1
              /\ \E i \in DOMAIN steered : log' = log \o RemoveAt(steered, i)
  /\ mailbox' = <<>>
  /\ UNCHANGED <<conn, cancels, pending, todo, fresh>>

OutOfTurns(t) ==
  /\ AtBoundary(t) /\ ~HasTurns(t)
  /\ turn' = [turn EXCEPT ![t].pc = "ending"]
  /\ UNCHANGED <<conn, cancels, pending, mailbox, log, todo, fresh, faults>>

(* The call fails: at once when the context is over, else with a retry, and *)
(* after LlmAttempts with an error message that is stored.                  *)
LlmEnds(t) ==
  /\ turn[t].pc = "llm" /\ ~Live(t)
  /\ turn' = [turn EXCEPT ![t].pc = "ending"]
  /\ UNCHANGED <<conn, cancels, pending, mailbox, log, todo, fresh, faults>>

LlmRetries(t) ==
  /\ turn[t].pc = "llm" /\ Live(t) /\ turn[t].errs + 1 < LlmAttempts
  /\ turn' = [turn EXCEPT ![t].pc = "boundary", ![t].errs = @ + 1]
  /\ UNCHANGED <<conn, cancels, pending, mailbox, log, todo, fresh, faults>>

LlmGivesUp(t) ==
  /\ turn[t].pc = "llm" /\ Live(t) /\ turn[t].errs + 1 = LlmAttempts
  /\ turn' = [turn EXCEPT ![t].pc = "ending"]
  /\ AppendMessage(Assistant(<<>>, TRUE))
  /\ UNCHANGED <<conn, cancels, pending, mailbox, todo, fresh>>

(* The final text is streamed, and then stored under the turn's context. *)
LlmAnswers(t) ==
  /\ turn[t].pc = "llm" /\ Live(t)
  /\ turn' = [turn EXCEPT ![t].pc = "final", ![t].errs = 0]
  /\ UNCHANGED <<conn, cancels, pending, mailbox, log, todo, fresh, faults>>

Finish(t) ==
  /\ turn[t].pc = "final"
  /\ turn' = [turn EXCEPT ![t].pc = "ending"]
  /\ AppendMessageCtx(t, Assistant(<<>>, TRUE))
  /\ UNCHANGED <<conn, cancels, pending, mailbox, todo, fresh>>

LlmCalls(t) ==
  /\ turn[t].pc = "llm" /\ Live(t)
  /\ \E ks \in UNION {[1..n -> fresh] : n \in {1, 2}}, said \in BOOLEAN :
       /\ IsInjective(ks)
       /\ turn' = [turn EXCEPT ![t].pc = "calls", ![t].calls = ks, ![t].errs = 0,
                               ![t].chat = Append(@, Assistant(ks, FALSE))]
       /\ AppendMessage(Assistant(ks, said))
       /\ fresh' = fresh \ Range(ks)
  /\ UNCHANGED <<conn, cancels, pending, mailbox, todo>>

(* The result of the current call, or why it has none. *)
Result(t) ==
  LET k == Head(turn[t].calls)
  IN /\ turn' = [turn EXCEPT ![t].pc = "calls", ![t].calls = Tail(@), ![t].answers = 0,
                             ![t].chat = Append(@, Tool(k))]
     /\ AppendMessage(Tool(k))
     /\ UNCHANGED <<conn, cancels, pending, mailbox, todo, fresh>>

(* The tool is not the agent's, or needs no confirmation and has run. *)
CallTool(t) == turn[t].pc = "calls" /\ turn[t].calls # <<>> /\ Result(t)

(* Mutant for AnswerReaches: a channel left in the map is kept. *)
SetToolConfirmOnce(t) ==
  /\ turn[t].pc = "calls" /\ turn[t].calls # <<>>
  /\ turn' = [turn EXCEPT ![t].pc = "confirming", ![t].answers = 0]
  /\ pending' = IF pending = None THEN t ELSE pending
  /\ UNCHANGED <<conn, cancels, mailbox, log, todo, fresh, faults>>

SetToolConfirm(t) ==
  /\ turn[t].pc = "calls" /\ turn[t].calls # <<>>
  /\ turn' = [turn EXCEPT ![t].pc = "confirming", ![t].answers = 0]
  /\ pending' = t
  /\ UNCHANGED <<conn, cancels, mailbox, log, todo, fresh, faults>>

(* Approved, the tool runs; denied, that is its result. *)
Answered(t) == turn[t].pc = "confirming" /\ turn[t].answers > 0 /\ Result(t)

ConfirmTimesOut(t) == turn[t].pc = "confirming" /\ ~Live(t) /\ Result(t)

(* Mutant for FollowUpKept: the mailbox ends with the turn. *)
EndTurnEmpties(t) ==
  /\ turn[t].pc = "ending"
  /\ turn' = [turn EXCEPT ![t] =
       [NewTurn EXCEPT !.pc = "announcing", !.conn = turn[t].conn, !.live = FALSE]]
  /\ conn' = [conn EXCEPT ![turn[t].conn].cancel = None, ![turn[t].conn].processing = FALSE]
  /\ mailbox' = <<>>
  /\ UNCHANGED <<cancels, pending, log, todo, fresh, faults>>

(* ProcessMessage has returned, and its context is not used any more: the   *)
(* connection is free first, and the session's entry is deleted, whosever   *)
(* it is, at the end.                                                       *)
EndTurn(t) ==
  /\ turn[t].pc = "ending"
  /\ turn' = [turn EXCEPT ![t] =
       [NewTurn EXCEPT !.pc = "announcing", !.conn = turn[t].conn, !.live = FALSE]]
  /\ conn' = [conn EXCEPT ![turn[t].conn].cancel = None, ![turn[t].conn].processing = FALSE]
  /\ UNCHANGED <<cancels, pending, mailbox, log, todo, fresh, faults>>

(* Mutant for OwnCancelReaches: the connection is freed with the entry. *)
AnnounceFrees(t) ==
  /\ turn[t].pc = "announcing"
  /\ turn' = [turn EXCEPT ![t] = [NewTurn EXCEPT !.pc = "done"]]
  /\ cancels' = None
  /\ conn' = [conn EXCEPT ![turn[t].conn] = NewConn]
  /\ UNCHANGED <<pending, mailbox, log, todo, fresh, faults>>

Announce(t) ==
  /\ turn[t].pc = "announcing"
  /\ turn' = [turn EXCEPT ![t] = [NewTurn EXCEPT !.pc = "done"]]
  /\ cancels' = None
  /\ UNCHANGED <<conn, pending, mailbox, log, todo, fresh, faults>>

(* The replica restarts: what is in memory is lost. *)
Crash ==
  /\ faults < MaxFaults /\ faults' = faults + 1
  /\ conn' = [c \in Conns |-> NewConn]
  /\ turn' = [t \in Msgs |-> IF Active(t) THEN [NewTurn EXCEPT !.pc = "dead"] ELSE turn[t]]
  /\ cancels' = None /\ pending' = None /\ mailbox' = <<>>
  /\ UNCHANGED <<log, todo, fresh>>
-----------------------------------------------------------------------------
TurnStep(t) ==
  \/ Register(t) \/ GetMessages(t) \/ GetMessagesFails(t) \/ AppendUser(t)
  \/ Boundary(t) \/ OutOfTurns(t)
  \/ LlmEnds(t) \/ LlmRetries(t) \/ LlmGivesUp(t) \/ LlmAnswers(t) \/ Finish(t) \/ LlmCalls(t)
  \/ CallTool(t) \/ SetToolConfirm(t) \/ Answered(t) \/ ConfirmTimesOut(t)
  \/ EndTurn(t) \/ Announce(t)

(* Nobody has to send another message. *)
Idle == (\A t \in Msgs : ~Active(t)) /\ UNCHANGED vars

Next ==
  \/ \E c \in Conns :
       \/ Cancel(c) \/ ResolveToolConfirm(c)
       \/ \E m \in Msgs : StartTurn(c, m) \/ Steer(c, m)
  \/ \E t \in Msgs : TurnStep(t) \/ Deadline(t)
  \/ Crash
  \/ Idle

Spec == Init /\ [][Next]_vars
-----------------------------------------------------------------------------
TypeOK ==
  /\ conn \in [Conns -> [processing : BOOLEAN, cancel : Msgs \cup {None}]]
  /\ cancels \in Msgs \cup {None} /\ pending \in Msgs \cup {None}
  /\ Len(mailbox) <= MailboxSize /\ Range(mailbox) \cap todo = {}
  /\ \A t \in Msgs : turn[t].loops <= MaxTurns /\ turn[t].errs < LlmAttempts

(* ResolveToolConfirm never blocks the reader of a connection: a channel of *)
(* one takes all the answers it will ever get.                              *)
AnswerNeverBlocks == \A t \in Msgs : turn[t].answers <= 1

(* A turn that waits for a confirmation can be answered: nothing that an    *)
(* earlier turn left behind stands in the way.                              *)
AnswerReaches ==
  \A t \in Msgs :
    turn[t].pc = "confirming" => pending = t \/ turn[t].answers > 0

(* The chat of t is about to be sent to the LLM. *)
Sending(t) == turn[t].pc \in {"loaded", "boundary", "llm"}

(* What the LLM is sent is paired (the comment on sanitizeChatMessages),    *)
(* over crashes, cancelled turns, timeouts and failed writes.               *)
PairedHistory == \A t \in Msgs : Sending(t) => Paired(turn[t].chat)

(* A follow-up that was accepted is in the mailbox or stored. *)
FollowUpKept ==
  faults > 0 \/ \A m \in Msgs \ todo :
    turn[m].pc = "none" => m \in Range(mailbox) \/ User(m) \in Range(log)

(* A turn that runs can be cancelled over the connection that began it,     *)
(* although the turn before it may delete the session's entry meanwhile     *)
(* (agent_ws.go:491): currentCancel is its own.  Over another connection it *)
(* cannot, then, whatever the comment at agent_ws.go:339 says.              *)
OwnCancelReaches ==
  \A t \in Msgs :
    Active(t) /\ Live(t) /\ turn[t].pc \notin {"spawned", "announcing"}
      => conn[turn[t].conn].cancel = t
=============================================================================
