------------------------------ MODULE AgentLoop ------------------------------
(***************************************************************************)
(* One agent's loop (core/src/runtime.rs Runtime::agent, accept, user_turn,*)
(* deliver, idle): requests, responses of every kind, tool calls one after *)
(* the other, messages that are delivered with the next request or taken   *)
(* by a tool, the final answer and every way out.  Messages arrive,        *)
(* children end and the node is stopped (cancelled or past its deadline)   *)
(* at any await.                                                           *)
(*                                                                         *)
(* A message of the history is reduced to the tool uses it makes or        *)
(* answers, by position, and the mail it carries.  Plain messages come     *)
(* from others than the children.  What attempts does with a request is in *)
(* Attempts; here it is a response or an error.                            *)
(***************************************************************************)
EXTENDS Mailbox, Sequences, SequencesExt

CONSTANTS
  MaxTurns,        \* settings.max_turns
  MaxUses,         \* bound: tool uses in one response
  Children,        \* agents that tools of this one may spawn
  MaxMail,         \* bound: plain messages sent to it
  MailSize         \* size of a message or notice as delivered

ASSUME LoopAssumption ==
  MaxTurns \in Nat \ {0} /\ MaxUses \in Nat /\ MaxMail \in Nat /\ MailSize \in Nat \ {0}

VARIABLES
  contract,        \* settings.output is set: only an accepted value completes
  stage,           \* where the loop is
  history,         \* the conversation
  turns,           \* accepted responses
  doubled,         \* output_cap is twice the configured one
  retried,         \* invalid_retry
  previous,        \* messages in the request that previous.usage measured, or 0
  sent,            \* messages in the request under way
  response,        \* the accepted response: stop reason and tool uses
  results,         \* uses answered so far
  committed,       \* final_answer is set
  handed,          \* mail that tools took for the response
  reminded,        \* the submit_result reminder was given
  draft,           \* the user message being recorded
  after,           \* where the loop goes once it is
  status,          \* "running", or how the node ended
  stopped,         \* cx.stopped() or the deadline has passed
  box,             \* the agent's mailbox
  mails,           \* plain messages accepted so far
  carried          \* history: mail in a request that a model responded to

loopVars == <<turns, doubled, retried, previous, sent, response, reminded>>
turnVars == <<results, committed, handed>>
outside == <<stopped, box, mails>>
agentVars == <<contract, stage, history, loopVars, turnVars, draft, after, status,
               outside, carried>>

\* What a model asks for: input that is no JSON or breaks the schema, a tool that
\* does not exist, one that runs and may spawn an agent or take mail, one that commits
\* an answer, and one whose answer breaks the contract.
Kinds == {"invalid", "unknown", "tool", "submit", "break"}
StopReasons == {"tool_use", "end_turn", "max_tokens", "pause_turn", "context",
                "refusal", "other"}
Responses == [stop : StopReasons, uses : SeqOf(Kinds, MaxUses)]

User(ids, mail) == [role |-> "user", ids |-> ids, mail |-> mail]
Assistant(uses) ==
  [role |-> "assistant", ids |-> [k \in DOMAIN uses |-> k], mail |-> {}]
NoDraft == User(<<>>, {})
MailIn(messages) == UNION {messages[i].mail : i \in DOMAIN messages}

LoopInit ==
  /\ contract \in BOOLEAN
  /\ stage = "task"
  /\ history = <<>>
  /\ turns = 0 /\ doubled = FALSE /\ retried = FALSE /\ previous = 0 /\ sent = 0
  /\ response = [stop |-> "other", uses |-> <<>>]
  /\ results = <<>> /\ committed = FALSE /\ handed = {}
  /\ reminded = FALSE
  /\ draft = NoDraft /\ after = "top"
  /\ status = "running"
  /\ stopped = FALSE
  /\ box = EmptyMailbox /\ mails = 0
  /\ carried = {}

Finish(how) == stage' = "done" /\ status' = how

-----------------------------------------------------------------------------
(* user_turn, deliver: a user message with what is given and what the      *)
(* mailbox adds, then its record; only then is it part of the conversation.*)

UserTurn(ids, given, delivers, next) ==
  LET taken == IF delivers THEN Taken(box, box.queue) ELSE {}
  IN /\ box' = IF delivers THEN AfterTake(box, taken) ELSE box
     /\ draft' = User(ids, given \cup {e.id : e \in taken})
     /\ after' = next
     /\ stage' = "recording"

Record ==
  /\ stage = "recording"
  /\ history' = Append(history, draft)
  /\ draft' = NoDraft
  /\ stage' = after
  /\ UNCHANGED <<contract, loopVars, turnVars, after, status, outside, carried>>

\* A record is refused because the trace has failed: agent returns the error.
TraceFails ==
  /\ \/ stage \in {"task", "asked", "tools", "running", "recording"}
     \/ stage = "idle" /\ reminded
  /\ Finish("error")
  /\ UNCHANGED <<contract, history, loopVars, turnVars, draft, after, outside, carried>>

\* The task, followed by what was sent before the first request.
Task ==
  /\ stage = "task"
  /\ UserTurn(<<>>, {}, TRUE, "top")
  /\ UNCHANGED <<contract, history, loopVars, turnVars, status, stopped, mails, carried>>

-----------------------------------------------------------------------------
(* The top of the loop, the request and its response.                      *)

GiveUp ==
  /\ stage = "top"
  /\ stopped \/ turns >= MaxTurns
  /\ Finish(IF stopped THEN "stopped" ELSE "max_turns")
  /\ UNCHANGED <<contract, history, loopVars, turnVars, draft, after, outside, carried>>

Request ==
  /\ stage = "top"
  /\ ~stopped /\ turns < MaxTurns
  /\ sent' = Len(history)
  /\ box' = NewTurn(box)
  /\ stage' = "asked"
  /\ UNCHANGED <<contract, history, turns, doubled, retried, previous, response,
                 reminded, turnVars, draft, after, status, stopped, mails, carried>>

\* status_for: what attempts may fail with, before the request is sent or after.
RequestFails ==
  /\ stage = "asked"
  /\ \/ \E how \in {"budget", "context", "failed"} : Finish(how)
     \/ stopped /\ Finish("stopped")
  /\ UNCHANGED <<contract, history, loopVars, turnVars, draft, after, outside, carried>>

Broken(r) == \E k \in DOMAIN r.uses : r.uses[k] = "invalid"
CutOff(r) == r.stop = "max_tokens" /\ Broken(r) /\ ~retried

\* Tool input cut off by the output cap: once more, with twice the cap. The
\* conversation, the turn and the estimator stay as they are.
RetryCutOff ==
  /\ stage = "asked"
  /\ \E r \in Responses : CutOff(r)
  /\ retried' = TRUE
  /\ doubled' = TRUE
  /\ carried' = MailIn(history)
  /\ stage' = "top"
  /\ UNCHANGED <<contract, history, turns, previous, sent, response, reminded, turnVars,
                 draft, after, status, outside>>

\* Faulty variant: the cap of a retry stays for the rest of the run.
RespondDoubled ==
  /\ stage = "asked"
  /\ \E r \in Responses :
       /\ ~CutOff(r)
       /\ response' = r
       /\ history' = Append(history, Assistant(r.uses))
       /\ stage' = IF r.uses = <<>> THEN "decide" ELSE "tools"
  /\ retried' = FALSE
  /\ previous' = sent
  /\ turns' = turns + 1
  /\ results' = <<>>
  /\ committed' = FALSE /\ handed' = {}
  /\ carried' = MailIn(history)
  /\ UNCHANGED <<contract, doubled, sent, reminded, draft, after, status, outside>>

\* Any other response is accepted and recorded.
Respond ==
  /\ stage = "asked"
  /\ \E r \in Responses :
       /\ ~CutOff(r)
       /\ response' = r
       /\ history' = Append(history, Assistant(r.uses))
       /\ stage' = IF r.uses = <<>> THEN "decide" ELSE "tools"
  /\ retried' = FALSE
  /\ doubled' = FALSE
  /\ previous' = sent
  /\ turns' = turns + 1
  /\ results' = <<>>
  /\ committed' = FALSE /\ handed' = {}
  /\ carried' = MailIn(history)
  /\ UNCHANGED <<contract, sent, reminded, draft, after, status, outside>>

-----------------------------------------------------------------------------
(* The tool uses of a response, in order.                                  *)

Use == response.uses[Len(results) + 1]
Answered == results' = Append(results, Len(results) + 1)
Pending == stage = "tools" /\ Len(results) < Len(response.uses)

\* Bad input, a stop reason that forbids execution, an answer that is already
\* committed, or a stopped node: a result without a call.
Runs == /\ response.stop = "tool_use" /\ ~committed /\ ~stopped
        /\ Use \notin {"invalid", "unknown"}

SkipTool ==
  /\ Pending /\ ~Runs
  /\ Answered
  /\ UNCHANGED <<contract, stage, history, loopVars, committed, handed, draft, after,
                 status, outside, carried>>

CallTool ==
  /\ Pending /\ Runs
  /\ stage' = "running"
  /\ UNCHANGED <<contract, history, loopVars, turnVars, draft, after, status, outside,
                 carried>>

\* accept: refused once the node is stopped, and when it breaks the contract.
Accepts(kind) == ~stopped /\ (kind = "submit" \/ (kind = "break" /\ ~contract))

\* The call returns, or the node is stopped and does not wait for one that only
\* reads; a mutating call is awaited.
ToolReturns ==
  /\ stage = "running"
  /\ Answered
  /\ committed' = Accepts(Use)
  /\ stage' = "tools"
  /\ UNCHANGED <<contract, history, loopVars, handed, draft, after, status, outside,
                 carried>>

\* A running tool uses the node: check_open refuses it once the node is stopped.
Open == stage = "running" /\ Use = "tool" /\ ~stopped

\* NodeCtx::receive takes from any sender, wait and cancel_agent from children that have
\* finished, even past what others sent before.  What is taken becomes the tool's result;
\* such a tool is mutating, so the loop always waits for it.
ToolTakes ==
  /\ Open
  /\ \E from \in {SendersOf(box.queue)} \cup SUBSET box.concluded :
       LET taken == Taken(box, {e \in box.queue : e.from \in from})
       IN /\ taken # {}
          /\ box' = AfterTake(box, taken)
          /\ handed' = handed \cup {e.id : e \in taken}
  /\ UNCHANGED <<contract, stage, history, loopVars, results, committed, draft, after,
                 status, stopped, mails, carried>>

\* NodeCtx::report: the outcome of a deeper descendant, or one that was handed over
\* before, is told if it still fits; those of its own children come as notices.
ToolReports ==
  /\ Open
  /\ box.awaiting \cup box.concluded # {} /\ CanCharge(box, MailSize)
  /\ box' = Charged(box, MailSize)
  /\ UNCHANGED <<contract, stage, history, loopVars, turnVars, draft, after, status,
                 stopped, mails, carried>>

\* A running tool spawns an agent: its outcome will be heard of.
SpawnChild(c) ==
  /\ Open
  /\ c \notin box.awaiting \cup box.concluded
  /\ box' = Expecting(box, c)
  /\ UNCHANGED <<contract, stage, history, loopVars, turnVars, draft, after, status,
                 stopped, mails, carried>>

\* Faulty variant: mail is delivered with every tool result.
ContinuesAnyway == ~stopped /\ response.stop \in {"tool_use", "pause_turn", "max_tokens"}

\* Mail is delivered only when another request will carry it.
Continues == /\ ~committed /\ ~stopped /\ turns < MaxTurns
             /\ response.stop \in {"tool_use", "pause_turn", "max_tokens"}

\* Faulty variant: only calls that may be executed are answered.
ToolResultsOfCalls ==
  /\ stage = "tools" /\ Len(results) = Len(response.uses)
  /\ UserTurn(IF response.stop = "tool_use" THEN results ELSE <<>>, handed, Continues, "decide")
  /\ UNCHANGED <<contract, history, loopVars, turnVars, status, stopped, mails, carried>>

ToolResults ==
  /\ stage = "tools" /\ Len(results) = Len(response.uses)
  /\ UserTurn(results, handed, Continues, "decide")
  /\ UNCHANGED <<contract, history, loopVars, turnVars, status, stopped, mails, carried>>

-----------------------------------------------------------------------------
(* What follows a response.                                                *)

\* Faulty variant: a stopped node is stopped, whatever it accepted.
VerdictStoppedFirst ==
  IF stopped THEN "stopped"
  ELSE IF committed THEN "completed"
  ELSE IF response.stop = "end_turn" /\ turns >= MaxTurns
       THEN IF contract THEN "max_turns" ELSE "completed"
  ELSE IF response.stop = "context" THEN "context"
  ELSE IF response.stop = "refusal" THEN "refused"
  ELSE IF response.stop = "other" THEN "failed"
  ELSE "running"

\* How it ends the node: an accepted answer comes first, then a stopped node.
Verdict ==
  IF committed THEN "completed"
  ELSE IF stopped THEN "stopped"
  ELSE IF response.stop = "end_turn" /\ turns >= MaxTurns
       THEN IF contract THEN "max_turns" ELSE "completed"
  ELSE IF response.stop = "context" THEN "context"
  ELSE IF response.stop = "refusal" THEN "refused"
  ELSE IF response.stop = "other" THEN "failed"
  ELSE "running"

Decide ==
  /\ stage = "decide" /\ Verdict # "running"
  /\ Finish(Verdict)
  /\ UNCHANGED <<contract, history, loopVars, turnVars, draft, after, outside, carried>>

GoOn ==
  /\ stage = "decide" /\ Verdict = "running"
  /\ \/ /\ \/ response.stop \in {"tool_use", "pause_turn"}
           \/ response.stop = "max_tokens" /\ response.uses # <<>>
        /\ stage' = "top"
        /\ UNCHANGED <<draft, after, box>>
     \/ /\ response.stop = "max_tokens" /\ response.uses = <<>>
        /\ UserTurn(<<>>, {}, turns < MaxTurns, "top")  \* "continue"
     \/ /\ response.stop = "end_turn"
        /\ stage' = "idle"
        /\ UNCHANGED <<draft, after, box>>
  /\ UNCHANGED <<contract, history, loopVars, turnVars, status, stopped, mails, carried>>

\* Runtime::idle: whatever is queued opens the next turn.
IdleDeliver ==
  /\ stage = "idle" /\ box.queue # {}
  /\ UserTurn(<<>>, {}, TRUE, "top")
  /\ UNCHANGED <<contract, history, loopVars, turnVars, status, stopped, mails, carried>>

\* Nothing can arrive any more.
IdleEnds ==
  /\ stage = "idle" /\ IdleDone(box)
  /\ box' = [box EXCEPT !.closed = ~contract \/ @]
  /\ Finish(IF stopped THEN "stopped" ELSE IF contract THEN "failed" ELSE "completed")
  /\ stopped \/ ~contract \/ reminded
  /\ UNCHANGED <<contract, history, loopVars, turnVars, draft, after, stopped, mails,
                 carried>>

\* A contract agent that ended its turn is reminded once; its mailbox stays open.
IdleReminds ==
  /\ stage = "idle" /\ IdleDone(box)
  /\ contract /\ ~stopped /\ ~reminded
  /\ reminded' = TRUE
  /\ UserTurn(<<>>, {}, TRUE, "top")
  /\ UNCHANGED <<contract, history, turns, doubled, retried, previous, sent, response,
                 turnVars, status, stopped, mails, carried>>

IdleStopped ==
  /\ stage = "idle" /\ stopped /\ box.queue = {} /\ ~IdleDone(box)
  /\ Finish("stopped")
  /\ UNCHANGED <<contract, history, loopVars, turnVars, draft, after, outside, carried>>

-----------------------------------------------------------------------------
(* Everybody else.                                                         *)

Stop ==
  /\ stage # "done" /\ ~stopped
  /\ stopped' = TRUE
  /\ UNCHANGED <<contract, stage, history, loopVars, turnVars, draft, after, status, box,
                 mails, carried>>

\* A message is accepted; later it is queued.
SendMail ==
  /\ stage # "done" /\ mails < MaxMail /\ HasRoom(box)
  /\ box' = Reserved(box)
  /\ mails' = mails + 1
  /\ UNCHANGED <<contract, stage, history, loopVars, turnVars, draft, after, status,
                 stopped, carried>>

Envelope(id, from, kind) ==
  [id |-> id, from |-> from, kind |-> kind, size |-> MailSize, at |-> 0]

MailArrives ==
  /\ stage # "done" /\ box.reserved > 0
  /\ box' = Pushed(box, Envelope(mails - box.reserved + 1, "peer", "message"))
  /\ UNCHANGED <<contract, stage, history, loopVars, turnVars, draft, after, status,
                 stopped, mails, carried>>

ChildEnds(c) ==
  /\ stage # "done" /\ c \in box.awaiting
  /\ box' = Pushed(box, Envelope(c, c, "notice"))
  /\ UNCHANGED <<contract, stage, history, loopVars, turnVars, draft, after, status,
                 stopped, mails, carried>>

LoopNext ==
  \/ Task \/ Record \/ TraceFails \/ GiveUp \/ Request \/ RequestFails
  \/ RetryCutOff \/ Respond \/ SkipTool \/ CallTool \/ ToolTakes \/ ToolReports \/ ToolReturns
  \/ ToolResults \/ Decide \/ GoOn \/ IdleDeliver \/ IdleEnds \/ IdleReminds \/ IdleStopped
  \/ Stop \/ SendMail \/ MailArrives
  \/ \E c \in Children : SpawnChild(c) \/ ChildEnds(c)

LoopSpec == LoopInit /\ [][LoopNext]_agentVars

-----------------------------------------------------------------------------
\* Every request a provider accepts: each tool use of a response is answered, once
\* and in order, by the user message right after it, and nothing else is answered.
\* Retries, refusals to run a tool, cancellations and deliveries keep it that way.
ToolUsesAnswered ==
  stage = "asked" =>
    \A i \in DOMAIN history :
      LET m == history[i]
          before == IF i = 1 THEN NoDraft ELSE history[i - 1]
      IN /\ m.role = "user" => m.ids = (IF before.role = "assistant" THEN before.ids ELSE <<>>)
         /\ m.role = "assistant" /\ m.ids # <<>> => i < Len(history) /\ history[i + 1].role = "user"

\* The mail that has arrived, and whether the last request got no response.
Arrivals == 1 .. mails - box.reserved \cup box.concluded
Unanswered == sent = Len(history)

\* Whatever arrived before the loop ended is still in the mailbox, or a model has
\* responded to it; a stop, a failed trace and a failed request may come in between.
\* A tool takes mail at once, so there are two more ways to lose it: with a later use of
\* the same response the agent completes, or the response is the last of its turns.
MailReachesModel ==
  status \notin {"running", "stopped", "error"} /\ ~Unanswered =>
    \A id \in Arrivals :
      \/ \E e \in box.queue : e.id = id
      \/ id \in carried
      \/ id \in handed /\ (committed \/ turns = MaxTurns)

\* A contract agent completes exactly with an answer it accepted: a stop that comes
\* later does not replace it, and nothing else passes for one.
AcceptedAnswerDecides ==
  status \notin {"running", "error"} =>
    /\ committed => status = "completed"
    /\ contract /\ status = "completed" => committed

\* The estimator and the output cap match the conversation: previous.usage measured
\* the messages before the response that follows them, and the cap is doubled only
\* for the one retry of a response that was cut off.
EstimateInStep ==
  /\ previous > 0 => previous < Len(history) /\ history[previous + 1].role = "assistant"
  /\ \A i \in DOMAIN history : history[i].role = "assistant" => i <= previous + 1
  /\ doubled => retried /\ stage \in {"top", "asked", "done"}
=============================================================================
