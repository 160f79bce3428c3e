-------------------------------- MODULE Agents --------------------------------
(***************************************************************************)
(* The agents of a run, each with a mailbox: spawning, sending, receiving, *)
(* waiting, cancelling, idling and the ordered shutdown that publishes an  *)
(* outcome (core/src/runtime.rs NodeCtx, run_node, join_descendants).      *)
(*                                                                         *)
(* A mailbox wakes its agent through a watch counter: `changed` says that  *)
(* the counter moved since the agent subscribed.  Every trace record and   *)
(* every lock is a point where others run, so changing a mailbox and       *)
(* waking its agent are two steps.  A deadline acts like a cancellation.   *)
(* The ledger's limits are left to Ledger; here agents are just bounded.   *)
(***************************************************************************)
EXTENDS Mailbox

CONSTANTS
  MaxAgents,       \* bound: agents of one behaviour
  MaxMessages      \* bound: plain messages of one behaviour

ASSUME AgentsAssumption == MaxAgents \in Nat \ {0} /\ MaxMessages \in Nat

VARIABLES
  path,            \* an agent and its ancestors; empty until it is spawned
  noted,           \* agents that post a notice to their parent: node-owned ones
  phase,           \* where an agent's task is
  call,            \* what a running agent waits in: idle, receive, wait or watch
  targets,         \* whom a wait or a watch is for
  box,             \* mailboxes
  changed,         \* subscribed agents whose watch counter has moved since
  tasks,           \* owned work: an envelope to queue and the wake-up after it
  stopped,         \* agents whose token is cancelled, the topmost ones
  outcome,         \* agents whose outcome is published
  messages         \* plain messages accepted so far

treeVars == <<path, noted>>
callVars == <<call, targets>>
agentsVars == <<treeVars, phase, callVars, box, changed, tasks, stopped, outcome, messages>>

AgentId == 0 .. MaxAgents - 1
Root == 0
Phase == {"absent", "running", "checking", "staged", "settling", "asleep", "taking", "draining",
          "joining", "posting", "waking", "done"}
Calls == {"none", "idle", "receive", "wait", "watch"}
Envelope == [id : Nat, from : AgentId, to : AgentId, kind : {"message", "notice"},
             size : {1}, at : Nat]
Task == [owner : AgentId, envelope : Envelope, step : {"queue", "wake"}]

Spawned == {n \in AgentId : path[n] # {}}
\* Faulty variant: an agent heeds only its own cancellation.
StoppedItself(n) == n \in stopped
\* A child's token descends from its parent's.
Stopped(n) == path[n] \cap stopped # {}
ChildrenOf(n) == {m \in Spawned : m # n /\ path[m] = path[n] \cup {m}}
Below(n) == {m \in Spawned : m # n /\ n \in path[m]}
ParentOf(n) == CHOOSE m \in path[n] : m # n /\ n \in ChildrenOf(m)
\* NodeCtx::kin: parent, children and siblings.
Kin(n) == {m \in Spawned \ {n} :
             \/ m \in ChildrenOf(n) \/ n \in ChildrenOf(m)
             \/ \E p \in Spawned : {m, n} \subseteq ChildrenOf(p)}

Message(n, m) ==
  [id |-> messages, from |-> n, to |-> m, kind |-> "message", size |-> 1, at |-> 0]
Notice(c, n) ==
  [id |-> 0, from |-> c, to |-> n, kind |-> "notice", size |-> 1, at |-> 0]
Work(n, e) == [owner |-> n, envelope |-> e, step |-> "queue"]

Go(n, where) == phase' = [phase EXCEPT ![n] = where]
\* Forgets what no agent here tells apart: how many envelopes an empty queue has seen,
\* whose outcome the model was handed, and the notices of a closed mailbox.
Tidy(b) ==
  [b EXCEPT !.arrivals = IF b.queue = {} THEN 0 ELSE @, !.seen = {},
            !.awaiting = IF b.closed THEN {} ELSE @, !.concluded = IF b.closed THEN {} ELSE @]
Into(n, newBox) == box' = [box EXCEPT ![n] = Tidy(newBox)]
\* A wake-up matters to an agent that has subscribed.
Woken(n) ==
  changed' = changed \cup (IF phase[n] \in {"staged", "settling", "asleep"} THEN {n} ELSE {})
\* A cancelled token covers every token below it.
WithStopped(n) == IF Stopped(n) THEN stopped ELSE (stopped \ Below(n)) \cup {n}
\* The call is over and nothing is subscribed to any more.
Leave(n, where) ==
  /\ Go(n, where)
  /\ call' = [call EXCEPT ![n] = "none"]
  /\ targets' = [targets EXCEPT ![n] = {}]
  /\ changed' = changed \ {n}
\* The call returns to the agent's loop or tool.
Return(n) == Leave(n, "running")

\* Whoever holds an agent's NodeCtx may spawn and send until its work is closed.
Open(n) ==
  /\ phase[n] \in {"running", "checking", "staged", "settling", "asleep", "taking", "draining"}
  /\ ~Stopped(n)

-----------------------------------------------------------------------------
AgentsInit ==
  /\ path = [n \in AgentId |-> IF n = Root THEN {Root} ELSE {}]
  /\ noted = {}
  /\ phase = [n \in AgentId |-> IF n = Root THEN "running" ELSE "absent"]
  /\ call = [n \in AgentId |-> "none"]
  /\ targets = [n \in AgentId |-> {}]
  /\ box = [n \in AgentId |-> EmptyMailbox]
  /\ changed = {}
  /\ tasks = {}
  /\ stopped = {}
  /\ outcome = {}
  /\ messages = 0

\* NodeCtx::spawn_agent; a node-owned child is expected in the spawner's mailbox.
Spawn(n, c, nodeOwned) ==
  /\ Open(n)
  /\ path[c] = {} /\ \A m \in AgentId : m < c => path[m] # {}
  /\ path' = [path EXCEPT ![c] = path[n] \cup {c}]
  /\ Go(c, "running")
  /\ IF nodeOwned
     THEN noted' = noted \cup {c} /\ Into(n, Expecting(box[n], c)) /\ Woken(n)
     ELSE UNCHANGED <<noted, box, changed>>
  /\ UNCHANGED <<callVars, tasks, stopped, outcome, messages>>

\* NodeCtx::send: a place is reserved and owned work does the rest.
Send(n, m) ==
  /\ Open(n)
  /\ m \in Kin(n)
  /\ messages < MaxMessages
  /\ HasRoom(box[m])
  /\ Into(m, Reserved(box[m]))
  /\ tasks' = tasks \cup {Work(n, Message(n, m))}
  /\ messages' = messages + 1
  /\ UNCHANGED <<treeVars, phase, callVars, changed, stopped, outcome>>

\* Faulty variant: the envelope is queued and nobody is woken.
QueueQuietly(t) ==
  LET e == t.envelope IN
  /\ t \in tasks /\ t.step = "queue"
  /\ Into(e.to, Pushed(box[e.to], e))
  /\ tasks' = tasks \ {t}
  /\ UNCHANGED <<treeVars, phase, callVars, changed, stopped, outcome, messages>>

\* Owned work has written its record and queues the envelope.
Queue(t) ==
  LET e == t.envelope IN
  /\ t \in tasks /\ t.step = "queue"
  /\ \A u \in tasks : e.kind = "message" /\ u.envelope.kind = "message" /\ u.owner = t.owner
                        => e.id <= u.envelope.id
  /\ Into(e.to, Pushed(box[e.to], e))
  /\ tasks' = (tasks \ {t}) \cup {[t EXCEPT !.step = "wake"]}
  /\ UNCHANGED <<treeVars, phase, callVars, changed, stopped, outcome, messages>>

\* It wakes the recipient, and is done.
Wake(t) ==
  /\ t \in tasks /\ t.step = "wake"
  /\ tasks' = tasks \ {t}
  /\ Woken(t.envelope.to)
  /\ UNCHANGED <<treeVars, phase, callVars, box, stopped, outcome, messages>>

-----------------------------------------------------------------------------
\* Runtime::idle, receive or wait_via begins.  Its loop subscribes and then inspects,
\* which is one step below: a wake-up between the two only causes another look.
Begin(n, what, whom) ==
  /\ phase[n] = "running"
  /\ ~Stopped(n)
  /\ Go(n, "checking")
  /\ call' = [call EXCEPT ![n] = what]
  /\ targets' = [targets EXCEPT ![n] = whom]
  /\ changed' = changed \ {n}
  /\ UNCHANGED <<treeVars, box, tasks, outcome, messages>>

BeginIdle(n) == Begin(n, "idle", {}) /\ UNCHANGED stopped
BeginReceive(n) == Begin(n, "receive", {}) /\ UNCHANGED stopped
BeginWait(n) ==
  /\ \E whom \in SUBSET ChildrenOf(n) \ {{}} : Begin(n, "wait", whom)
  /\ UNCHANGED stopped
\* cancel_agent: a child is waited for like any other, of a deeper descendant only
\* the outcome is watched.
CancelAgent(n, m) ==
  /\ m \in Below(n)
  /\ stopped' = WithStopped(m)
  /\ Begin(n, IF m \in ChildrenOf(n) THEN "wait" ELSE "watch", {m})

\* The idle decision, made under the mailbox's lock: take a delivery, close, or sleep.
\* An agent that still owes a result goes on instead of closing.
CheckIdle(n) ==
  LET taken == Taken(box[n], box[n].queue) IN
  /\ phase[n] = "checking" /\ call[n] = "idle"
  /\ \/ /\ box[n].queue # {}
        /\ Into(n, NewTurn(AfterTake(box[n], taken)))
        /\ Return(n)
     \/ /\ IdleDone(box[n])
        /\ \/ Into(n, Closed(box[n])) /\ Leave(n, "draining")
           \/ UNCHANGED box /\ Return(n)
     \/ /\ box[n].queue = {} /\ ~IdleDone(box[n])
        /\ Go(n, "settling")
        /\ UNCHANGED <<callVars, box, changed>>
  /\ UNCHANGED <<treeVars, tasks, stopped, outcome, messages>>

\* receive takes what is there, or sleeps.
CheckReceive(n) ==
  LET taken == Taken(box[n], box[n].queue) IN
  /\ phase[n] = "checking" /\ call[n] = "receive"
  /\ \/ /\ Stopped(n) \/ box[n].queue # {} \/ box[n].closed
        /\ Into(n, IF Stopped(n) THEN box[n] ELSE NewTurn(AfterTake(box[n], taken)))
        /\ Return(n)
     \/ /\ ~Stopped(n) /\ box[n].queue = {} /\ ~box[n].closed
        /\ Go(n, "settling")
        /\ UNCHANGED <<callVars, box, changed>>
  /\ UNCHANGED <<treeVars, tasks, stopped, outcome, messages>>

\* Finished means the outcome is published and any notice has been queued.
Finished(n, c) == c \in outcome /\ c \notin box[n].awaiting
\* Targets with an outcome that posted no notice: wait stages one for each.
Unreported(n) == {c \in targets[n] \cap outcome : CanStage(box[n], c)}

\* wait_via stages the notices of its targets ...
StageNotices(n) ==
  /\ phase[n] = "checking" /\ call[n] = "wait"
  /\ \/ /\ Stopped(n)
        /\ Return(n)
        /\ UNCHANGED <<box, tasks>>
     \/ /\ ~Stopped(n)
        /\ Into(n, [box[n] EXCEPT !.concluded = @ \cup Unreported(n),
                                  !.awaiting = @ \cup Unreported(n)])
        /\ tasks' = tasks \cup {Work(n, Notice(c, n)) : c \in Unreported(n)}
        /\ Go(n, "staged")
        /\ UNCHANGED <<callVars, changed>>
  /\ UNCHANGED <<treeVars, stopped, outcome, messages>>

\* ... and then returns if every target has finished, also one that ended meanwhile.
CheckFinished(n) ==
  /\ phase[n] = "staged"
  /\ Go(n, IF \A c \in targets[n] : Finished(n, c) THEN "taking" ELSE "settling")
  /\ UNCHANGED <<treeVars, callVars, box, changed, tasks, stopped, outcome, messages>>

\* A deeper descendant's outcome is watched directly.
CheckWatch(n) ==
  /\ phase[n] = "checking" /\ call[n] = "watch"
  /\ targets[n] \subseteq outcome \/ Stopped(n)
  /\ Return(n)
  /\ UNCHANGED <<treeVars, box, tasks, stopped, outcome, messages>>

\* Faulty variant: subscribe only now, after inspecting.
SettleLate(n) ==
  /\ phase[n] = "settling"
  /\ changed' = changed \ {n}
  /\ Go(n, "asleep")
  /\ UNCHANGED <<treeVars, callVars, box, tasks, stopped, outcome, messages>>

\* Having found nothing, the call starts to wait for a change since it subscribed.
Settle(n) ==
  /\ phase[n] = "settling"
  /\ Go(n, "asleep")
  /\ UNCHANGED <<treeVars, callVars, box, changed, tasks, stopped, outcome, messages>>

\* The mailbox changed: subscribe and inspect again.
Resume(n) ==
  /\ phase[n] = "asleep"
  /\ n \in changed
  /\ changed' = changed \ {n}
  /\ Go(n, "checking")
  /\ UNCHANGED <<treeVars, callVars, box, tasks, stopped, outcome, messages>>

\* A cancellation or a deadline ends the call; a wait or a receive also times out.
Interrupt(n) ==
  /\ phase[n] = "asleep"
  /\ Stopped(n)
  /\ Return(n)
  /\ UNCHANGED <<treeVars, box, tasks, stopped, outcome, messages>>
TimeOut(n) ==
  /\ phase[n] = "asleep" /\ call[n] \in {"receive", "wait"}
  /\ IF call[n] = "wait" THEN Go(n, "taking") /\ UNCHANGED <<callVars, changed>> ELSE Return(n)
  /\ UNCHANGED <<treeVars, box, tasks, stopped, outcome, messages>>

\* wait_via takes what its finished targets have queued.
TakeWaited(n) ==
  LET from == {c \in targets[n] : Finished(n, c)}
      taken == Taken(box[n], {e \in box[n].queue : e.from \in from})
  IN
  /\ phase[n] = "taking"
  /\ Into(n, IF Stopped(n) THEN box[n] ELSE NewTurn(AfterTake(box[n], taken)))
  /\ Return(n)
  /\ UNCHANGED <<treeVars, tasks, stopped, outcome, messages>>

-----------------------------------------------------------------------------
\* The agent's loop ends, for a reason of its own or because it is stopped, and
\* run_node closes the mailbox.
EndLoop(n) ==
  /\ phase[n] = "running"
  /\ Into(n, Closed(box[n]))
  /\ Go(n, "draining")
  /\ UNCHANGED <<treeVars, callVars, changed, tasks, stopped, outcome, messages>>

\* join_descendants: no more work, and everything below is cancelled.
CloseWork(n) ==
  /\ phase[n] = "draining"
  /\ stopped' = WithStopped(n)
  /\ Go(n, "joining")
  /\ UNCHANGED <<treeVars, callVars, box, changed, tasks, outcome, messages>>

\* Faulty variant: only children are joined, not the sends still under way.
PublishEarly(n) ==
  /\ phase[n] = "joining"
  /\ \A c \in ChildrenOf(n) : phase[c] = "done"
  /\ outcome' = outcome \cup {n}
  /\ Go(n, IF n = Root THEN "done" ELSE IF n \in noted THEN "posting" ELSE "waking")
  /\ UNCHANGED <<treeVars, callVars, box, changed, tasks, stopped, messages>>

\* Every owned task has been joined: the outcome is published.
Publish(n) ==
  /\ phase[n] = "joining"
  /\ \A t \in tasks : t.owner # n
  /\ \A c \in ChildrenOf(n) : phase[c] = "done"
  /\ outcome' = outcome \cup {n}
  /\ Go(n, IF n = Root THEN "done" ELSE IF n \in noted THEN "posting" ELSE "waking")
  /\ UNCHANGED <<treeVars, callVars, box, changed, tasks, stopped, messages>>

\* Runtime::notify queues the notice in the parent's mailbox ...
PostNotice(n) ==
  LET p == ParentOf(n) IN
  /\ phase[n] = "posting"
  /\ Into(p, Pushed(box[p], Notice(n, p)))
  /\ Go(n, "waking")
  /\ UNCHANGED <<treeVars, callVars, changed, tasks, stopped, outcome, messages>>

\* ... and wakes the parent, as `touch` does for a child that posts none.
WakeParent(n) ==
  /\ phase[n] = "waking"
  /\ Woken(ParentOf(n))
  /\ Go(n, "done")
  /\ UNCHANGED <<treeVars, callVars, box, tasks, stopped, outcome, messages>>

\* Runtime::cancel, a handle, an owning cell or a deadline.
Stop(n) ==
  /\ phase[n] \notin {"absent", "done"} /\ ~Stopped(n)
  /\ stopped' = WithStopped(n)
  /\ UNCHANGED <<treeVars, phase, callVars, box, changed, tasks, outcome, messages>>

\* What an agent's task does by itself once it waits, is stopped or has ended.
Machinery(n) ==
  \/ CheckIdle(n) \/ CheckReceive(n) \/ CheckWatch(n)
  \/ StageNotices(n) \/ CheckFinished(n)
  \/ Settle(n) \/ Resume(n) \/ Interrupt(n) \/ TakeWaited(n)
  \/ Stopped(n) /\ EndLoop(n)
  \/ CloseWork(n) \/ Publish(n) \/ PostNotice(n) \/ WakeParent(n)
TaskStep(n) == \E t \in tasks : t.owner = n /\ (Queue(t) \/ Wake(t))

AgentsNext ==
  \/ \E n \in Spawned : \E c \in AgentId, nodeOwned \in BOOLEAN : Spawn(n, c, nodeOwned)
  \/ \E n, m \in Spawned : Send(n, m) \/ CancelAgent(n, m)
  \/ \E n \in Spawned :
       \/ BeginIdle(n) \/ BeginReceive(n) \/ BeginWait(n)
       \/ TimeOut(n) \/ EndLoop(n) \/ Stop(n)
       \/ Machinery(n) \/ TaskStep(n)

AgentsSpec == AgentsInit /\ [][AgentsNext]_agentsVars

\* Tasks that can run do run.  Agents may go on for ever unless they are stopped,
\* timeouts need not pass, and nobody is obliged to cancel.
FairAgents ==
  AgentsSpec /\ \A n \in AgentId : WF_agentsVars(Machinery(n)) /\ WF_agentsVars(TaskStep(n))

-----------------------------------------------------------------------------
AgentsTypeOK ==
  /\ path \in [AgentId -> SUBSET AgentId]
  /\ noted \subseteq AgentId
  /\ phase \in [AgentId -> Phase]
  /\ call \in [AgentId -> Calls]
  /\ targets \in [AgentId -> SUBSET AgentId]
  /\ tasks \subseteq Task
  /\ stopped \subseteq AgentId /\ outcome \subseteq AgentId /\ changed \subseteq AgentId
  /\ messages \in 0 .. MaxMessages
  /\ \A n \in AgentId :
       /\ box[n].plain = Cardinality(Plain(box[n].queue))
       /\ box[n].reserved = Cardinality({t \in tasks : t.envelope.to = n /\ t.step = "queue"
                                                         /\ t.envelope.kind = "message"})

\* Somebody is about to wake n.
WakeDue(n) ==
  \/ n \in changed
  \/ \E t \in tasks : t.envelope.to = n /\ t.step = "wake"
  \/ \E c \in ChildrenOf(n) : phase[c] \in {"posting", "waking"}

\* No wake-up is lost: an agent sleeps on only as long as the call it sleeps in has
\* nothing to return, whatever happened between its look and its sleep (subscribe
\* precedes inspection, every change of a mailbox is followed by a wake-up).
NoLostWakeup ==
  \A n \in AgentId : phase[n] = "asleep" /\ ~WakeDue(n) =>
    CASE call[n] = "idle" -> box[n].queue = {} /\ ~IdleDone(box[n])
      [] call[n] = "receive" -> box[n].queue = {} /\ ~box[n].closed
      [] call[n] = "wait" -> /\ Unreported(n) = {}
                             /\ \E c \in targets[n] : ~Finished(n, c)

\* An outcome is final: when it is published nothing the agent started is under way,
\* neither a descendant nor a send, nothing can reach it and no notice of it exists
\* yet (join_descendants joins every owned task, run_node comes before send_replace).
PublishedLast ==
  /\ \A n \in outcome :
       /\ \A m \in Below(n) : phase[m] = "done"
       /\ \A t \in tasks : t.owner # n
       /\ box[n].closed /\ box[n].queue = {}
  /\ \A n \in AgentId : \A e \in box[n].queue : e.kind = "notice" => e.from \in outcome

\* A stopped agent ends, with everything below it, whatever it was waiting for.
CancellationEnds ==
  \A n \in AgentId : path[n] # {} /\ Stopped(n) ~> n \in outcome

\* A wait or a cancel call whose children have all ended does return: their outcomes
\* reach it through the notices they post or through those the call stages itself.
WaitReturns ==
  \A n \in AgentId :
    call[n] = "wait" /\ targets[n] \subseteq outcome ~> call[n] # "wait"
=============================================================================
