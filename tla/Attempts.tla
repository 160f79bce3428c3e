------------------------------- MODULE Attempts -------------------------------
(***************************************************************************)
(* The model calls of a run: agents and leaf completions that share the    *)
(* model slots and the ledger, from admission to node_end                  *)
(* (core/src/runtime.rs attempts, run_node, join_descendants, llm_owned).  *)
(*                                                                         *)
(* Every scope of the ledger is a task here, and the only client of the    *)
(* ledger.  Every await is a point where others run: the trace record,     *)
(* the slot, the provider, the backoff, the join of the children.  A       *)
(* deadline acts like a cancellation everywhere in this part of the code,  *)
(* so `stopped` stands for both.  Timers may fire at any moment.           *)
(***************************************************************************)
EXTENDS Ledger

CONSTANTS
  Slots,           \* limits.max_inflight_requests
  MaxRetries,      \* RetryPolicy::max_retries
  MaxCalls         \* bound: model calls of one agent (its turn cap)

ASSUME SlotsAssumption ==
  /\ Slots \in Nat \ {0}
  /\ MaxRetries \in Nat
  /\ MaxCalls \in Nat

VARIABLES
  pc,              \* where the task of a scope is
  calls,           \* model calls it has started
  call,            \* the locals of its current call: prompt estimate, output cap,
                   \* failed attempts, what the last attempt came to
  stopped,         \* scopes whose own token is cancelled or deadline has passed
  free,            \* permits left in the semaphore
  panicked,        \* RuntimeInner.panicked
  panics,          \* history: a provider or an agent task panicked
  broken,          \* the trace sink has failed
  failed,          \* the root's status was replaced by Failed
  report           \* the usage a scope's node_end carries

callVars == <<calls, call>>
runVars == <<stopped, panicked, panics, broken, failed, report>>
attemptsVars == <<ledgerVars, pc, callVars, free, runVars>>

Phase == {"absent", "starting", "working", "queued", "granted", "announced", "sent",
          "grace", "settled", "backoff", "ended", "joining", "reporting", "done"}
Verdict == {"none", "ok", "retry", "fail", "panic"}
Usage == [self : Nat, subtree : Nat]
Locals == [prompt : Nat, output : Nat, failures : 0 .. MaxRetries, verdict : Verdict]
NoCall == [prompt |-> 0, output |-> 0, failures |-> 0, verdict |-> "none"]

\* A token is cancelled with every token above it.
Stopped(n) == path[n] \cap stopped # {}
ChildrenOf(n) == {m \in Admitted : m # n /\ path[m] = path[n] \cup {m}}
Holders == {n \in NodeId : pc[n] \in {"granted", "announced", "sent", "grace"}}
Reserving == {n \in NodeId : pc[n] \in {"announced", "sent", "grace"}}

Go(n, phase) == pc' = [pc EXCEPT ![n] = phase]
\* The call returns, and its locals are gone.
Return(n, phase) == Go(n, phase) /\ call' = [call EXCEPT ![n] = NoCall]
\* A trace record is acknowledged, or refused because the sink has failed.  Records
\* handed over before the failure may still be acknowledged.
Emits(ok) == broken' = (broken \/ ~ok)

-----------------------------------------------------------------------------
AttemptsInit ==
  /\ LedgerInit
  /\ pc = [n \in NodeId |-> IF n = Root THEN "starting" ELSE "absent"]
  /\ calls = [n \in NodeId |-> 0]
  /\ call = [n \in NodeId |-> NoCall]
  /\ stopped = {}
  /\ free = Slots
  /\ panicked = FALSE /\ panics = FALSE
  /\ broken = FALSE
  /\ failed = FALSE
  /\ report = [n \in NodeId |-> [self |-> 0, subtree |-> 0]]

\* check_open and the admission that spawn_agent and llm share, from a tool or a cell
\* of an agent whose work is still open.
Spawn(parent, isAgent, requestedLimit) ==
  /\ agent[parent]
  /\ pc[parent] \notin {"absent", "starting", "joining", "reporting", "done"}
  /\ ~Stopped(parent)
  /\ Admit(parent, isAgent, requestedLimit)
  /\ Go(scopes, "starting")
  /\ UNCHANGED <<callVars, free, runVars>>

\* NodeCtx::spawn_agent
SpawnAgent(parent) == \E limits \in ScopeLimits : Spawn(parent, TRUE, limits)
\* NodeCtx::llm: a leaf completion has no limit of its own.
SpawnLeaf(parent) == Spawn(parent, FALSE, BudgetTokens)

\* The node_start record; without it the task ends.
Start(n) ==
  /\ pc[n] = "starting"
  /\ \E ok \in BOOLEAN :
       /\ Emits(ok)
       /\ Go(n, IF ok THEN "working" ELSE "ended")
  /\ UNCHANGED <<ledgerVars, callVars, free,
                 stopped, panicked, panics, failed, report>>

\* The next model request of an agent's loop, or the only one of a leaf.
Call(n) ==
  /\ pc[n] = "working"
  /\ ~Stopped(n)
  /\ calls[n] < (IF agent[n] THEN MaxCalls ELSE 1)
  /\ calls' = [calls EXCEPT ![n] = @ + 1]
  /\ \E prompt \in Prompts, requested \in Requests :
       call' = [call EXCEPT ![n].prompt = prompt, ![n].output = requested]
  /\ Go(n, "queued")
  /\ UNCHANGED <<ledgerVars, free, runVars>>

\* The agent's loop ends for a reason of its own, or its task panics.
Finish(n) ==
  /\ pc[n] = "working"
  /\ Go(n, "ended")
  /\ \E panic \in BOOLEAN :
       panicked' = (panicked \/ panic) /\ panics' = (panics \/ panic)
  /\ UNCHANGED <<ledgerVars, callVars, free, stopped, broken, failed, report>>

\* A permit of the semaphore, unless the scope is stopped while it waits for one.
Acquire(n) ==
  /\ pc[n] = "queued"
  /\ free > 0
  /\ free' = free - 1
  /\ Go(n, "granted")
  /\ UNCHANGED <<ledgerVars, callVars, runVars>>

\* A stopped scope gives up its place in the queue, or the rest of its backoff.
GiveUp(n) ==
  /\ pc[n] \in {"queued", "backoff"}
  /\ Stopped(n)
  /\ Return(n, "ended")
  /\ UNCHANGED <<ledgerVars, calls, free, runVars>>

\* The reservation, made with the permit in hand; a retry asks for the output cap
\* that the attempt before it was granted.
ReserveAttempt(n) ==
  /\ pc[n] = "granted"
  /\ ~Stopped(n)
  /\ Reserve(n, call[n].prompt, call[n].output)
  /\ \E a \in attempts' \ attempts :
       call' = [call EXCEPT ![n].output = a.tokens - call[n].prompt]
  /\ Go(n, "announced")
  /\ UNCHANGED <<calls, free, runVars>>

\* Faulty variant: a refused reservation keeps the permit.
RefuseHolding(n) ==
  /\ pc[n] = "granted"
  /\ Stopped(n) \/ ~CanReserve(n, call[n].prompt, call[n].output)
  /\ Return(n, "ended")
  /\ UNCHANGED <<ledgerVars, calls, free, runVars>>

\* Stopped or out of budget: the permit goes back and the call fails.
Refuse(n) ==
  /\ pc[n] = "granted"
  /\ Stopped(n) \/ ~CanReserve(n, call[n].prompt, call[n].output)
  /\ free' = free + 1
  /\ Return(n, "ended")
  /\ UNCHANGED <<ledgerVars, calls, runVars>>

\* The attempt_start record is there: the request goes out.
Dispatch(n) ==
  /\ pc[n] = "announced"
  /\ ~Stopped(n)
  /\ Go(n, "sent")
  /\ UNCHANGED <<ledgerVars, callVars, free, runVars>>

\* An attempt ends: its reservation is settled and its permit returned.
EndAttempt(n, charged) ==
  /\ \E a \in attempts : a.node = n /\ Settle(a, charged)
  /\ free' = free + 1

\* The attempt_start record failed, or the scope was stopped before the request
\* went out: nothing is charged.
Withdraw(n) ==
  /\ pc[n] = "announced"
  /\ EndAttempt(n, 0)
  /\ \/ /\ Stopped(n)
        /\ Go(n, "settled")
        /\ call' = [call EXCEPT ![n].verdict = "retry"]
        /\ UNCHANGED broken
     \/ /\ Emits(FALSE)
        /\ Return(n, "ended")
  /\ UNCHANGED <<calls, stopped, panicked, panics, failed, report>>

\* What a provider may come back with: a response and its usage, an error that is
\* free of charge, or one whose usage is unknown and costs the reservation.
Outcomes(n) ==
  [charged : Usages, as : {"ok"}]
    \cup [charged : {0}, as : {"retry", "fail"}]
    \cup [charged : {a.tokens : a \in {b \in attempts : b.node = n}},
          as : {"retry", "fail", "panic"}]

\* The provider's stream ends, before or after it was told to stop.
Answer(n) ==
  /\ pc[n] \in {"sent", "grace"}
  /\ \E outcome \in Outcomes(n) :
       /\ EndAttempt(n, outcome.charged)
       /\ call' = [call EXCEPT ![n].verdict = outcome.as]
       /\ panics' = (panics \/ outcome.as = "panic")
  /\ Go(n, "settled")
  /\ UNCHANGED <<calls, stopped, panicked, broken, failed, report>>

\* The scope is stopped, or the request has taken limits.request_total.
SignalProvider(n) ==
  /\ pc[n] = "sent"
  /\ Go(n, "grace")
  /\ UNCHANGED <<ledgerVars, callVars, free, runVars>>

\* Faulty variant: a provider that was told to stop is waited for without limit.
GraceEndless(n) == pc[n] = "grace" /\ UNCHANGED attemptsVars

\* The provider did not react within PROVIDER_CANCEL_GRACE: usage is unknown.
GraceOver(n) ==
  /\ pc[n] = "grace"
  /\ \E a \in attempts : a.node = n /\ EndAttempt(n, a.tokens)
  /\ call' = [call EXCEPT ![n].verdict = "retry"]
  /\ Go(n, "settled")
  /\ UNCHANGED <<calls, runVars>>

\* Faulty variant: the panic of a leaf's provider is not noted.
RecordEndQuietly(n) ==
  /\ pc[n] = "settled"
  /\ Return(n, IF call[n].verdict = "ok" /\ agent[n] THEN "working" ELSE "ended")
  /\ panicked' = (panicked \/ (call[n].verdict = "panic" /\ agent[n]))
  /\ UNCHANGED <<ledgerVars, calls, free, stopped, panics, broken, failed, report>>

\* The attempt_end record is there: go on, retry after a backoff, or end.
RecordEnd(n) ==
  LET verdict == call[n].verdict IN
  /\ pc[n] = "settled"
  /\ IF verdict = "retry" /\ ~Stopped(n) /\ call[n].failures < MaxRetries
     THEN /\ Go(n, "backoff")
          /\ call' = [call EXCEPT ![n].failures = @ + 1, ![n].verdict = "none"]
     ELSE Return(n, IF verdict = "ok" /\ agent[n] THEN "working" ELSE "ended")
  /\ panicked' = (panicked \/ verdict = "panic")
  /\ UNCHANGED <<ledgerVars, calls, free, stopped, panics, broken, failed, report>>

\* The attempt_end record failed: the call fails, whatever the attempt came to.
LoseEnd(n) ==
  /\ pc[n] = "settled"
  /\ Emits(FALSE)
  /\ Return(n, "ended")
  /\ UNCHANGED <<ledgerVars, calls, free,
                 stopped, panicked, panics, failed, report>>

\* The delay of RetryPolicy::next_delay has passed; no permit is held meanwhile.
BackoffOver(n) ==
  /\ pc[n] = "backoff"
  /\ Go(n, "queued")
  /\ UNCHANGED <<ledgerVars, callVars, free, runVars>>

\* join_descendants: no more work, no more admissions, and everything below stops.
CloseWork(n) ==
  /\ pc[n] = "ended"
  /\ CloseAdmission(n)
  /\ stopped' = stopped \cup {n}
  /\ Go(n, "joining")
  /\ UNCHANGED <<callVars, free, panicked, panics, broken, failed, report>>

\* Faulty variants: the usage is read before the children are joined; the leaf
\* completions are not joined.
ReadUsageEarly(n) ==
  /\ pc[n] = "joining"
  /\ report' = [report EXCEPT ![n] = [self |-> own[n], subtree |-> used[n]]]
  /\ failed' = IF n = Root THEN panicked ELSE failed
  /\ Go(n, "reporting")
  /\ UNCHANGED <<ledgerVars, callVars, free, stopped, panicked, panics, broken>>
ReadUsageBeforeLeaves(n) ==
  /\ \A m \in ChildrenOf(n) : agent[m] => pc[m] = "done"
  /\ ReadUsageEarly(n)

\* Every child task has ended: the usage of the subtree is read for node_end, and
\* the root's status accounts for a panic anywhere below.
ReadUsage(n) ==
  /\ pc[n] = "joining"
  /\ \A m \in ChildrenOf(n) : pc[m] = "done"
  /\ report' = [report EXCEPT ![n] = [self |-> own[n], subtree |-> used[n]]]
  /\ failed' = IF n = Root THEN panicked ELSE failed
  /\ Go(n, "reporting")
  /\ UNCHANGED <<ledgerVars, callVars, free, stopped, panicked, panics, broken>>

\* The node_end record is written or refused; the live slot goes back either way.
End(n) ==
  /\ pc[n] = "reporting"
  /\ \E ok \in BOOLEAN : Emits(ok)
  /\ Shutdown(n)
  /\ Go(n, "done")
  /\ UNCHANGED <<callVars, free, stopped, panicked, panics, failed, report>>

\* A cancellation from outside or a deadline: Runtime::cancel, cancel_agent, a handle,
\* an owning cell, a caller that drops its future.
Stop(n) ==
  /\ pc[n] \notin {"absent", "done"}
  /\ stopped' = stopped \cup {n}
  /\ UNCHANGED <<ledgerVars, pc, callVars, free,
                 panicked, panics, broken, failed, report>>

\* The steps a scope's task takes by itself, timers included.
Progress(n) ==
  \/ Start(n) \/ Call(n) \/ Finish(n) \/ Acquire(n) \/ GiveUp(n)
  \/ ReserveAttempt(n) \/ Refuse(n) \/ Dispatch(n) \/ Withdraw(n)
  \/ SignalProvider(n) \/ GraceOver(n) \/ RecordEnd(n) \/ LoseEnd(n) \/ BackoffOver(n)
  \/ CloseWork(n) \/ ReadUsage(n) \/ End(n)

AttemptsNext ==
  \/ \E parent \in Admitted : SpawnAgent(parent) \/ SpawnLeaf(parent)
  \/ \E n \in Admitted : Progress(n) \/ Answer(n) \/ Stop(n)

AttemptsSpec == AttemptsInit /\ [][AttemptsNext]_attemptsVars

\* The executor runs every task that can run, and timers fire.  Nothing is assumed
\* of the provider, and nobody is obliged to cancel.
FairAttempts == AttemptsSpec /\ \A n \in NodeId : WF_attemptsVars(Progress(n))

-----------------------------------------------------------------------------
\* Types; the semaphore never holds more permits than it was made with.
AttemptsTypeOK ==
  /\ pc \in [NodeId -> Phase]
  /\ calls \in [NodeId -> Nat]
  /\ call \in [NodeId -> Locals]
  /\ stopped \subseteq NodeId
  /\ free \in 0 .. Slots
  /\ panicked \in BOOLEAN /\ panics \in BOOLEAN
  /\ broken \in BOOLEAN /\ failed \in BOOLEAN
  /\ report \in [NodeId -> Usage]

\* A permit is held exactly from acquire to settlement and a reservation exactly
\* while its attempt is under way, on every path out of the loop of `attempts`: a
\* scope that waits for a record, a backoff or its children holds neither.
HeldOnlyInFlight ==
  /\ free + Cardinality(Holders) = Slots
  /\ {a.node : a \in attempts} = Reserving
  /\ \A a, b \in attempts : a.node = b.node => a = b

\* The usage in a scope's node_end is final: no attempt below it is settled after it
\* was read (run_node reads it after join_descendants, llm_owned after its call).
ReportFinal ==
  \A n \in NodeId : pc[n] \in {"reporting", "done"} =>
    report[n] = [self |-> own[n], subtree |-> used[n]]

\* Shutdown is ordered: a scope reports only when everything below it has ended and
\* nothing is reserved there, and the ended root leaves no live agent behind.
OrderlyEnd ==
  /\ \A n \in NodeId : pc[n] \in {"reporting", "done"} =>
       /\ \A m \in Subtree(n) \ {n} : pc[m] = "done"
       /\ reserved[n] = 0
  /\ pc[Root] = "done" => live = 0

\* A panic of any provider or agent task fails the run, even when everybody above
\* it went on, unless the run fails anyway because its trace did.
PanicFailsRun ==
  panics /\ pc[Root] \in {"reporting", "done"} => failed \/ broken

\* The run ends, whatever the providers do or fail to do.
RunEnds == <>(pc[Root] = "done")
=============================================================================
