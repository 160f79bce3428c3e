# A TLA+ verification development for kyora

kyora runs a language-model agent that may start child agents and leaf
completions, share one token budget and one pool of request slots with them, and
exchange messages with them. Its agents use tools: files, shell commands and MCP servers.
This directory holds TLA+ modules that model its concurrent core, its provider
client and its tools, TLC configurations that check small instances of them, and
theorems about them that TLAPS checks for every value of the constants.

Run a check with `tlc -config MCLedger.cfg MCLedger`, a proof with
`tlapm AgentsProofs.tla`. `PROJECT.json` lists the runs, the hazards, the source
lines behind every definition, and for each property a faulty variant of the code
that breaks it.

## 1. The system

Paths are relative to `src/crates/`. "Hard" names what makes a part hard to test.

| part | state | operations | hard | correct when |
|---|---|---|---|---|
| **Ledger** `core/src/ledger.rs` | tree of scopes (limit, used, reserved, closed, alive), counters of agents and leaf calls, outstanding attempts; one mutex | `admit`, `reserve`, `settle`, `close_admission`, `shutdown` | path-wide updates, measured usage above the estimate | a scope's counters are those of its subtree; open budgets are never overcommitted; limits hold; closed stays closed |
| **Mailboxes** `core/src/messages.rs` | queue, plain and reserved counts, awaited children, turn budget, closed, concluded and seen sets; one mutex and a watch counter per agent | `reserve`, `push`, `expect`, `stage`, `take`, `charge`, `idle`, `close` | accepted sends that are not queued yet; close racing with them; order; the same outcome by several ways | nothing accepted is lost, duplicated or reordered; the capacity holds; an idle close is right |
| **Model calls** `core/src/runtime.rs` `attempts`, `stream` | semaphore, reservation guard, attempt and retry counters | acquire, reserve, record, dispatch, settle, record, back off | cancellation and timeouts at every await; late answers; panics; refused records | slots and reservations are returned on every path; a retry holds nothing |
| **Node life cycle** `core/src/runtime.rs` `run`, `run_node`, `join_descendants`, `spawn_agent`, `llm` | the task list of each node, tokens, deadline, the `panicked` flag | admit, start, close work, join, report, end | shutdown order; panics in detached tasks | a parent ends last; its usage is final; a panic fails the run; the run ends |
| **Agent loop** `core/src/runtime.rs` `agent` | history, turns, output cap, committed answer | request, tool calls, deliver, idle, finish | cancellation during a committed answer; one retry after cut-off tool input; turn limit | one terminal decision; messages are delivered only when a request will carry them |
| **Coordination** `core/src/runtime.rs` `send`, `receive`, `wait`, `cancel_agent`, `report`; `core/src/agent_tools.rs` | directory of agents, outcome channels, ordered message records | the calls named | wake-ups, deadlines, cancelling what just finished | waiters are woken; outcomes are handed over once |
| **Trace** `core/src/trace.rs`, `core/src/session.rs` | bounded command queue, sequence number, failure latch, pending acknowledgements, session file | `emit`, `finish`, writer task, `list`, `reconstruct_tree` | acknowledgements in any order, failure in the middle, crash in a line | an acknowledged record is stored; numbers are gapless; nothing follows a failure; `finish` tells |
| **Provider streams** `providers/src/accumulator.rs`, `providers/src/anthropic/` | open blocks, usage counters, SSE line buffer | `push`, `finish`, `feed` | events out of order, truncated streams, counters that go back | only complete responses are accepted; usage is cumulative |
| **Retry policy** `providers/src/retry.rs`, `providers/src/lib.rs` | none | `next_delay`, `charge`, `is_retryable` | limits and saturation | bounded retries; unknown usage is charged in full |
| **File tools** `tools/src/files.rs` | registry of locks keyed by inode | `read`, `edit`, `write` | every edit replaces the inode that is the key | concurrent edits of one file are serialised; the registry is emptied |
| **Shell** `tools/src/shell.rs` | set of process groups, bounded capture | run, time out, kill | pipes held open by grandchildren; cancel while spawning | no process is left in a group |
| **MCP** `mcp/src/server.rs`, `http.rs`, `process.rs` | connection, tool listing, HTTP session slot, server process | start, list, call, refresh, shutdown | late session ids, list changes while listing, shutdown during a call | sessions are deleted, processes ended, the listing catches up |
| **Command line and terminal** `cli/src/main.rs`, `tui/src/` | interrupt times, terminal mode | run, interrupt twice, restore | interrupts during start and shutdown | everything is cleaned up; the terminal is restored once |

The parts interact as follows. The loop of an agent asks the ledger for tokens and
the semaphore for a slot, writes trace records at every step (each an await), and
runs tools. Tools and cells admit children through the ledger, send messages into
other agents' mailboxes and wait on them. A child's task publishes its outcome and
then posts a notice to its parent's mailbox. A node ends by closing its mailbox and
its admission, cancelling everything below and joining its tasks. The trace sink
serialises the records of all nodes. Providers, MCP servers and the file system are
outside; they may answer late, wrongly or never.

## 2. The modules

    Ledger          scopes, budgets and limits; the most general client
      Attempts      EXTENDS Ledger: the runtime as its client, with slots and records
        RunTrace    EXTENDS Attempts: what the records say, and the tree made of them
    Mailbox         one mailbox as operators on its state
      MailboxSpec   EXTENDS Mailbox: its senders, children and owner
      Agents        EXTENDS Mailbox: a tree of agents, each with a mailbox
      AgentLoop     EXTENDS Mailbox: one agent's turns, tools and answer
    TraceLog        what a durable trace promises (abstract)
      TraceSink     both writers, shown to implement TraceLog
    FileSpec        what concurrent edits promise (abstract)
      Files         the file tools and their locks, shown to implement FileSpec
    Stream          one attempt, from the wire to its response or its charge
    McpServer       an MCP server: start, listing, calls, shutdown, session
    Shell           a shell command and its process group
      Cli           EXTENDS McpServer and Shell: `kyora run` and Ctrl-C

The modules `MC...` give these constants for TLC; `...Proofs` hold theorems. A
definition marked as a faulty variant is not part of a model: it is the form a
plausible bug would give the definition after it, and shows that a property can fail.

**Ledger.** One variable per field of `Scope` and `State`; a scope's position in
the vector is its number and `path` is the function of that name. Each public method
is one critical section and so one action; a refused call is a disabled action.
A `Usage` record is its total (`Usage::total`), so the fields `usage` and
`budget.used`, which always change together by the same amount, are one number.
`own` is the usage of the scope itself. `excess` is a history variable: the sum of
what `Settlement::excess` reported below a scope.

**Attempts.** Every scope is a task. `pc` names the await at which it is:

| `pc` | where in the code |
|---|---|
| starting | `agent`, `llm_owned`: the node_start record |
| working | the agent's loop between requests |
| queued | `slots.acquire()` |
| granted | a permit in hand, before `reserve` |
| announced | the attempt_start record |
| sent, grace | the provider's stream, before and after it was told to stop |
| settled | the attempt_end record |
| backoff | the delay of `next_delay` |
| ended, joining | `join_descendants` |
| reporting | the node_end record |
| done | the task has ended |

A node's token descends from its parent's, so `Stopped(n)` asks for a stopped scope
on its path. A deadline has the same effect as a cancellation everywhere in these
functions, and `stopped` stands for both. `panics` records that a provider or an agent
task panicked, and `failed` that the root's status was replaced. The unwinding of a
task is modelled where the code catches it; `ReservationGuard::drop`, which settles
while unwinding past `catch_unwind`, has the same effect as `Answer` with the outcome
panic.

**RunTrace.** Every step of `Attempts` that emits a record of the tree puts it into
`records`, or is refused; once one is refused all later ones are, which is the latch of
the session file. Reconstruction goes by kind and node, so the file is a set of records,
those of its complete lines. Since a crash leaves whatever was recorded so far, an
invariant of `records` is a statement about every crash. `settlement` is the charge that
is settled but whose attempt_end is not on record yet, `inHand` a response that the loop
has neither accepted nor dropped (tool input cut off by the output cap), or has counted as
a turn but not recorded, `turns` the counter that node_end reports. A node spawns only after its model has been called: tools
run on what it answered, and `spawn_agent` refuses before the tools are frozen, which
comes after the node_start record. `Readable` is what `reconstruct_tree` refuses,
`SelfUsage`, `TurnsIn` and `SubtreeUsage` are what it computes. `Total` adds up by counting tokens, as the ledger's model does. `reconstruct_jsonl`
parses first and refuses a text whose last line was cut off, unlike the listing of sessions.

**Mailbox, MailboxSpec.** `Mailbox` has one operator per method. The queue is a set of
envelopes with arrival numbers, because everything the code does with it goes by
arrival order or by sender. `MailboxSpec` adds the steps around it in `runtime.rs`: a
send reserves a place, its task writes the record and then queues it, after the
sender's previous one; a child publishes its outcome and posts its notice; a wait or a
report may stage the notice of an agent that posts none; the owner takes deliveries,
starts turns, closes when idle and closes at shutdown.

**Agents.** Every agent has a mailbox and a `phase`: its loop or a tool is running; a
call is checking (its loop subscribed and looks), staged (a wait that has staged notices
and has yet to look who finished; a child that ends in between is waited for no more,
though its own notice was not staged), settling (it found nothing), asleep
(in the `select`), taking; the agent is draining (mailbox closed), joining
(`join_descendants`), posting its notice, waking its parent, done. `call` names the
call: the idle wait, `receive`, `wait_via`, or the outcome watch of `cancel_agent`.
`changed` is the watch counter: who subscribed and has had a change since. Queueing an
envelope and waking its recipient are two steps (`push` wakes after it unlocks), and so
are publishing an outcome, posting the notice and the wake-up. `tasks` is the owned work
that `join_descendants` joins. `noted` tells a node-owned child, which posts a notice,
from a cell-owned one, for which `wait_via` stages one. An agent makes one call at a
time here, though tools of one turn may run concurrently with the sends and spawns of
cells; `report` and the trace are in the other modules.

**TraceLog, TraceSink.** `TraceLog` is the contract the comments of `TraceSink` state:
an event is stored once and in order, acknowledged only when stored, refused after a
failure, and none is begun after one. Beginning and storing are two steps: the record
whose turn it was when another failed may still be stored, and only that one. `TraceSink`
is the code, where that is the record handed to a store just after the latch was read. `kind` chooses the
writer: a session file, or a store given by the caller. An emit waits for room in the
channel (`emitting`), is in it (`queue`), or is with the writer: as `current`, the record
a session file is writing, or among `acks`, what a store has not answered yet. A line of
`lines` holds the events whose bytes are in it and whether it has ended, so that a write
that fails halfway, or a crash, leaves a line without its end, and a later write would
run into it. `handle` is the join handle that `finish` takes; `finisher` follows each
caller of `finish`: sending its command, waiting for the result, returned with it,
returned at once because the handle was gone (`late`), or dropped. The live broadcast,
which promises nothing, and the blob files of large prompts, which are written before
the line and make it fail at most, are left out.

**AgentLoop.** `stage` is where `Runtime::agent` is: at the top of its loop, waiting for
a response (`asked`), among the tool uses of one (`tools`, `running`), waiting for the
record of a user message (`recording`; it joins the conversation when the record is
acknowledged), deciding what follows, idle, done. A message of `history` is reduced to
the ids of the tool uses it makes or answers and the mail it carries, which is what
decides whether a provider accepts the next request. A response has any stop reason and
any uses up to `MaxUses`; `Broken` is one with input that is no JSON. `box` is the
agent's own mailbox, with the operators of `Mailbox`. Mail leaves it with a delivery, into the
next user message, or through a tool: `receive` takes from anybody, `wait` and
`cancel_agent` from children that finished, and what they took (`handed`) goes into the
message with the results. `report` tells outcomes of deeper descendants within the same
delivery budget. Plain messages come from others than the children. `carried` is the mail
in a request that a model has responded to: a request that `attempts` refuses or loses
carries nothing. `previous` is the number of messages
the last measured usage stands for. What `attempts` does below a request is in `Attempts`; here
it is a response or an error. `status` "error" is `agent` returning an error, which only
a failed trace brings about.

**FileSpec, Files.** `FileSpec` is the promise: an edit reads and replaces in one step, or
refuses, or does nothing. `Files` has one step per system call and per critical section
of the registry. `entry` is the directory (name to inode), `registry` the map of
`LockRegistry`, `lease` a call's strong reference to its lock, and `Live` the entries
whose weak reference still upgrades. `mutex` is the registry's mutex where it is held
over several steps: from the creation of the temporary file to the publication of its
inode. `told` is what the future returned, which for a read may be earlier than what the
blocking thread did. The file system chooses free inodes by `Candidates`; with `Reuse`
it may choose a number that some call still remembers. Edits are serialised against
edits only: `write_file` takes no lock, and the properties are about names that are
edited or written, never both (`SeparateTargets`). Publication is one step, under the
mutex that the edit already holds.

**Stream.** One attempt: `request` follows the connection, `started` is
`SendTrackedBody::send_started`, `server` is what only the server knows. `Mapped` and
`NextMapper` are `Mapper::map_event`, `CanPush` and `Pushed` are `Accumulator::push`,
`Response` is `finish`, and a failure is one of the errors that `classify_dispatch` and
`charge` tell apart. `consumed` is a history variable, from which `WholeMessage` and
`Reported` say, without either automaton, what the response should be. Texts and signatures carry no
payload; a tool's input is the number of halves that arrived, since none and two of them
parse and one does not; the several usage counters are one. An entry of `iterations`
that names no serving model changes nothing and is left out; a message_start and a
message_delta may both carry one that does.

**McpServer.** Four tasks touch a server at once: the one that starts it and shuts it
down (`phase`), the refresh task and the notification handler (`tools`), a call of an
agent, and rmcp's own worker (`conn`, `http.post`, `http.own`). `req` has the last request
of the lister and of the caller: its `Pending`, what the server still works on, and
whether it was told to cancel. The tools a server offers are version numbers; a listing
shows the version its first page was taken from, and each change is announced, unless
the connection is down. `http` has the `SessionSlot`, the token of the client, and the
two ways a session is deleted: rmcp's `delete_session` (`own`), sent when the service
closes, and kyora's `spawn_delete`. `group` is the process group as the system sees it:
alive, only grandchildren left (`orphans`), or dead; `registry` is `process.rs` `GROUPS`.

**Shell.** A command from `spawn` through its registration to the last kill; `over` says
that the call was cancelled or its deadline passed, `outsider` that a process which left
the group holds the pipes open, so that the pumps wait until the call is over.

**Cli.** `execute`: the servers start, the names on the command line are checked, the
renderer is spawned, the agent makes calls and runs commands, the trace is flushed, the renderer
ends, the servers are shut down. The interrupts task is a thread of its own that
may be anywhere: the first Ctrl-C fires the token, a second one within the window sweeps
the registry of the commands, then that of the servers, and exits. `main` ends as `done`, `exited` or, when servers were still
starting, `aborted`. `missed` is a history variable: the commands that were not
registered at the first of the two sweeps.

## 3. What is checked

| run | instance | question |
|---|---|---|
| `ledger` | 4 scopes, 2 attempts, budget 8, a child limit of 3 or none, usage above and below the reservation | do the counters and limits hold under any client? |
| `mailbox` | a child and a sibling, 4 envelopes of size 1, 2 and 3, capacity 2, delivery budget 3 | is anything lost, doubled, reordered or overfull? |
| `attempts` (`RunTrace`) | a root and two scopes below it, agents or a leaf, one slot, a call each with one retry, two attempts in all, any record may be the first that is refused, everything may be cancelled, panics | does every path return what it took and end in order; is the transcript a tree at every moment, and does its usage agree with the ledger? |
| `run_ends` | two scopes, two calls, one retry, providers that never answer | does the run end? |
| `agents` | three agents in any tree, no plain messages | is every wake-up delivered, does a wait return, does a cancelled subtree end? |
| `messages` | three agents in any tree, one plain message, capacity 1 | are the counts of sends under way right, is every recipient woken, is an outcome the last thing an agent does? |
| `trace` | three events, two callers of `finish`, a channel with room for one command, either writer | is what was acknowledged stored, is a session readable after any failure, does `finish` tell, do both writers keep the contract, does every emit return? |
| `files` | three edits of one file (two compete, one needs what another puts in), one of which may fail; a write and a read of another file, either cancelled at any time; inode numbers that nobody remembers | do concurrent edits behave as if atomic, is the registry emptied, is a mutation reported by what it did? |
| `files_reuse` | four edits, a file system that reuses an inode number at once | is what an edit replaces still what it read? It is not. |
| `agent_loop` | three turns, up to two tool uses of five kinds, seven stop reasons, one child, one message, a contract or none | is every tool use answered, does a model respond to the mail that arrived unless a tool took it too late, does the accepted answer decide? |
| `mcp` | one server of either kind, one command, the agent uses one of them; two changes of the tools, two pages, two interrupts | is anything left running, are sessions deleted and abandoned requests cancelled, is the listing current, does `kyora run` end? |
| `stream` | seven events in any order: two indexes, tool and server blocks, text and input deltas, counters 0 to 3 | is a response exactly the message that was sent, is only an unprocessed attempt free? |

The type invariants of the proved modules are theorems; those of the others are stated
in the modules. So is `RecordedFirst` of `MailboxSpec` (nothing is queued or delivered
before its record is written), which the code's order of two statements makes true and
`MailboxRecords` proves.

The bounds are enough to reach the cases the properties are about. Four scopes give a
chain of three, two siblings and a leaf (with `MaxDepth = 1` a deeper agent is refused);
two attempts compete for the last tokens of one budget; usage 5 exceeds every
reservation under the limit of 3 and closes it while another attempt is outstanding.
With a capacity of 2 and four envelopes a mailbox is full, drained, full again and
closed with a send on its way; with sizes 1 and 3 and a budget of 3, a delivery stops
in the middle. In `attempts` one slot is contended by three scopes, and two attempts are those of two
nodes, or a node's first and its retry, settled and recorded one after the other. The run
checks the properties of `Attempts` too, under the order of records that a session file
enforces; the theorems of `AttemptsProofs` do not assume that order; in `run_ends` a
retry meets a timeout, a budget refusal and a cancellation. Three agents are a chain
with a grandchild to cancel, or two siblings that message each other; which child posts
a notice, who is cancelled and when is free. The message is left out of `agents` so that
liveness stays checkable. In `trace` a channel of one makes emits wait for room while the
finish command passes them; with three events one is stored, one fails and one comes
after the failure, or two acknowledgements arrive out of order.

In `files` three edits are a holder, a waiter whose identity goes stale, and a newcomer
that finds the published one; the file system takes the lowest free number, as ext4
does, and which one it takes does not matter as long as it is nobody's identity.
In `agent_loop` three turns are a response that is retried, one with tools and one that
ends; two uses have an order and a last one; one message and one child arrive before, between or after
them, and a tool may take them before an answer is committed or on the last turn. In `mcp` two changes of the tools fall on both sides of a page or into one permit; a second
server would share nothing with the first but the token and the registry, and the proof
of `NothingLeftRunning` is for any number of servers and commands; the sweep meets
every state of the one server and the one command. In `stream` seven events are a whole message with one block and
an update, or an interleaving of two blocks with one event too many; the start and the
updates may each name a serving model. The two indexes are interchangeable: mapper and
accumulator only ever compare them, so the run is symmetric in them. `thinking` and
`signature` deltas follow the rule of `text` and are left out of the instance.

Deadlock checking is off, but for `Files`, whose end is a step of its own (`Finished`),
because these systems really stop: when the run has ended, when the bounds are used up, or, without fairness, when nobody acts.
`RunEnds` is what says that stopping early is impossible.

Bounds by name: `MaxNodes`, `MaxAttempts` (ledger), `MaxCalls` (requests of one agent,
its turn limit), `MaxMessages` (envelopes; in `Agents` plain ones), `MaxAgents`, `MaxUses` and `MaxMail`
(`AgentLoop`), `MaxEvents` (`Stream`), `MaxChanges`, `MaxCalls`, `MaxInterrupts` and
`MaxUsed` (`Cli`). `MaxTurns`, `MaxPages` and `WriterCapacity` are constants of the code.

### Fairness

`FairAttempts` assumes weak fairness of `Progress(n)`: the executor runs a task that
can run, and timers fire (`request_total`, `PROVIDER_CANCEL_GRACE`, the backoff). It
assumes nothing of the provider (`Answer` is not in `Progress`) and nobody is obliged
to cancel (`Stop`). `FairAgents` likewise runs `Machinery(n)` and the owned work of every
agent; a running agent need not do anything until it is stopped, and then its loop ends
(the cancellation is checked between requests and by every call), and no timeout need
pass. Trace records are acknowledged or refused, which the code says of
its own session file; a store that never acknowledges blocks the run
(`trace.rs:240-241`) and is excluded. So are tools that never return: a mutating tool is
awaited without limit. `FairSink` runs the writer task, has a store answer, and lets an
emit into a channel that has room again and again (strongly fair: the channel serves
those who wait in order); nobody is obliged to emit or to finish. The retry and turn limits keep the behaviour finite.
`Cli` has one weak fairness, on all steps of kyora's own together: some task of kyora's
that can run does, and every wait has a timeout that passes. Nothing is assumed of a
server, of a command or of the user, and nothing of a single task, so `AlwaysEnds` also
says that no task of kyora's can keep the others from the end. That the listing does not
keep the refresh task busy for ever rests on `MaxChanges`: a server that changes its
tools without end is refreshed without end, until the shutdown. The renderer ends
because its output is read; a terminal that blocks it blocks the end of the run.

### Disagreements with comments and documents

* `files_reuse`: an edit finds its lock by device and inode (`files.rs:427-432`) and
  revalidates by comparing that pair (433). A waiter whose inode was replaced twice
  meanwhile may find its old number under the name again, as the number of a new file,
  and passes, holding a lock that the current editor does not hold. Both edit, the later
  rename undoes the other, and both report success; `files.rs:424-425`, the assertion of the test
  at 507-511 and `docs/m1-runtime.md:109` say otherwise. It takes four edits of
  one file at once and a file system that reuses numbers at once. `files` shows that it
  is the only way: with `Reuse = FALSE` edits are atomic.
* `Mailbox::take` takes nothing when a turn's delivery budget is spent, where
  `messages.rs:347-349` says "always at least one"; the code (154), `receive`
  (`runtime.rs:1619-1623`) and `docs/agent-messages.md` agree with each other. `Taken`
  is what the code does.
* Mail that a tool takes is removed from the mailbox at once. When the same response also
  commits the final answer, or is the last of the agent's turns, no request follows, and
  the model never reads what `receive`, `wait` or `cancel_agent` took
  (`runtime.rs:1638-1645`, 1753-1762), where `docs/agent-messages.md:121` says that what a
  tool delivers becomes part of the next request. `MailReachesModel` allows exactly
  these two cases, beside a stop, a failed trace and a request that gets no response; deliveries of the loop itself are never lost this way, since they are
  made only when another request will carry them (`runtime.rs:738-749`).
* A command that was spawned but not registered when the second Ctrl-C sweeps, or was
  spawned after it (`shell.rs:220-235`), outlives the process, where
  `main.rs:342-343` says that shell and MCP groups are killed. `NothingLeftRunning`
  excludes exactly the commands of `missed`. It also excludes a server that was being
  spawned when the exit came (`aborted`, `process.rs:83-89`), which is a limit rather than
  a disagreement: `docs/mcp.md:65` promises the kill during the run and while servers shut down.

## 4. What is proved

All theorems hold for every value of the constants that satisfies the named
assumptions: `LimitsAssumption` (what `Limits::validate` enforces), `SlotsAssumption`,
`MailboxAssumption`, `ClientsAssumption`, `AgentsAssumption`, `TraceAssumption`,
`StreamAssumption`, `McpAssumption`, `LoopAssumption` and `FilesAssumption`. Three assumptions of `Files` say
more than types: `SeparateTargets` (no name is both edited and written), `AbsentIsNoText`
(a missing file is told from an empty one) and `FreshLocks` (a lock can always be
created). Four of its theorems have the hypothesis `~Reuse`, without which they are
false: the run `files_reuse` shows how.
The proofs are in `AttemptsProofs` (with `Ledger` and `RunTrace`), `MailboxProofs`,
`AgentsProofs`, `TraceSinkProofs`, `StreamProofs`, `CliProofs` (with `McpServer` and
`Shell`), `FilesProofs` and `AgentLoopProofs`. `PROJECT.json` lists the results; type invariants and
lemmas are in the same modules.

* **Ledger.** `SubtreeAccounting` counts tokens as pairs (attempt, i), so a sum over a
  subtree is a cardinality and needs no recursion. It is not inductive alone: an
  admission must not change the subtrees of others, so the invariant has `TreeOK`
  (paths are closed upwards, unadmitted scopes are in no path and hold nothing) and
  the fact that outstanding attempts belong to admitted scopes with distinct ids.
  `NoOvercommit` rests on `Reserve` taking the least headroom and `Settle` closing what
  ends above its limit; `OvershootBounded` follows along the same lines with the excess
  added on both sides.
* **Mailbox.** The invariant relates identifiers to places (`ExactlyOnce`), orders
  each sender's envelopes across those places, and says of each awaited child where its
  notice is: not posted, on its way, or not promised. `IdleLosesNothing` needs the last
  part: an empty `awaiting` set means every promised notice has been queued.
  `MailboxTurnBudget` is about what `take` measures: the size of the envelopes up to
  one, which grows with it. What is taken is a prefix in the order of arrival, so its last
  envelope says how large it is, and only a first envelope passes without fitting.
* **Attempts.** The invariant contains the ledger's, plus: `Ancestry` (tasks form the
  tree of scopes), `Lifecycle` (which phases go with `alive` and a closed admission),
  `BelowEnded` (below a scope that reports everything is done) and `PanicNoted` (where
  a panic is on its way to `failed`). That the runtime stays within the ledger's
  guarantees is proved directly (`AttemptsNoOvercommit`): a retry asks for the cap
  the attempt before was granted, which need not be one of `Requests`, so the runtime is
  not literally an instance of `LedgerSpec`. So is the action property
  (`AttemptsClosed`): every step of a task is one of the ledger's or leaves it alone.
  `RunNeverStuck` is the half of `RunEnds` that is a matter of safety: until the root is
  done, or the bound `MaxAttempts` is reached, some scope is `Movable`. Of two that wait for
  each other one would have to hold a slot while it waits for one, or join an older scope:
  whoever holds a slot has its attempt (`HeldOnlyInFlight`) and can go on, and of those that
  join, the one with the largest number has only finished children. `Movable` writes the
  guards of `Progress` out, because `ENABLED` is out of the prover's reach.
* **RunTrace.** Every step but a lost turn is one of `Attempts`, so its invariant holds
  here. `RecordsOK` adds what `TreeIsReadable` needs of the records: a start names the
  scope that admitted it, and a scope whose start is not on record has made no call and
  is about to start, or has ended because the trace had failed. A scope therefore admits
  children and leaves other records only once its start is there. No cycle, because a scope is
  admitted after its parent and has a larger number (`LeastNumber`).
  `TreeMatchesLedger` needs the books of both sides (`BooksOK`): a charge is in hand exactly
  from the settlement to its record; an attempt that is outstanding or in hand is not on
  record, so no record of a scope repeats one; while the trace has not failed the records of a scope and the charge in hand
  add up to what the ledger says, and otherwise to no more; what the end of a scope says is
  final; and the turns on record are those counted but for one whose record is being
  written (`Written`). That one belongs to a working agent (`TurnsInv`), so none is missing
  when the agent has ended. Sums are numbers of tokens here as
  well (`Total`), and what is proved of them rests on an induction over finite sets that is
  stated without operators (`SetInduction`: a family of sets that has {} and each set with one
  more element has all). `SubtreeUsage` is a recursive function: that a function with its
  equation exists is shown by giving one, the sum over the reconstructed subtree, and that
  it is the only one from the youngest scope up. `RunTraceTypes` needs that a turn costs a
  call of its own. `RunTraceKeepsPromises` repeats what holds of the tasks alone, because
  a lost turn is a step they do not have.
* **Agents.** The tree ends from the leaves up: `PhasesOK` says that whoever has an outcome
  has only ended agents below it, and `TasksOK` that no owned work is left to it; with the
  mailbox closed at the end of the loop (`BoxesOK`) that is `OutcomesAreLast`. For
  `NoWakeupIsLost` the invariant covers a call from its look on, not only its sleep
  (`AwakeOK`): whoever adds to a mailbox, or makes a target finish, is after that step
  itself one of those that will wake the agent, as owned work about to wake, as a child that
  has published but not yet woken its parent, or as the wake-up that already came. A child's
  outcome counts because a wait is only for children (`CallsOK`) and an agent has one parent
  (`OneParent`). Steps of an agent on its own are handled by one lemma (`OwnStep`).
  Two further theorems are the halves of `CancellationEnds` and `WaitReturns` that are
  matters of safety. Both need `PromisesOK`: a notice that an open mailbox expects is of a
  child that will post it, is posting it, or has staged it and owns the work that queues
  it, so that nobody waits for what will never come. Then, in a cancelled subtree, the
  youngest agent that is not done has only ended children; it can go on, its own work can,
  or it sleeps and its token, cancelled with those above it (`PathsNest`), wakes it
  (`CancellationNeverStuck`). And a wait for children that all have outcomes returns or is
  about to be woken: if it sleeps with no wake-up due, a target is still awaited, whose
  notice is staged, and staged work can be queued (`WaitsAreAnswered`). `CanMove` writes the
  guards of an agent's machinery out, for the reason `Movable` does.
* **TraceSink.** The invariant puts every event in one place: it is unanswered while it
  waits for room, is in the channel, is being written or is with the store, and each
  stored event is answered or still awaited; a line without its end is the last one, and
  belongs to the record being written or to a failed one. `SinkImplementsContract` maps
  `log` to the complete records (a file) or those handed over (a store): ending a line is
  the abstract store step of a file, handing over that of a store, and the end of the
  writer closes the log, which needs that nothing is awaited any more. `TraceNeverStuck` is
  the safety half of `EmitReturns`, and says the same of `finish`: an event that waits for
  room waits behind a command, and the writer in front of it can take one or is at work.
  `FinishOK` is what that needs of `finish`: one caller has the join handle, the channel
  cannot end before its command is in it, and a caller that waits for the answer has its
  command in an open channel or at the writer.
* **Stream.** `ZeroChargeIsSafe`: the charge looks at the error, and the error at the flag. The
  invariant `FlagLeads` says what the flag knows: it is up before a byte can be
  written, so while it is down the server has seen nothing. `ResponsesAreMessages`:
  `InStep` relates the events consumed to what mapper and accumulator keep of them, one
  block index at a time: not opened, open with its deltas, or closed. One case neither of
  them notices before the end, an index that is held back as a server tool and known to
  the accumulator as well; there the block was opened twice, and `finish` refuses.
* **Cli.** `NothingIsLeftRunning` is an argument of coverage. A group that is not gone is
  registered or is being spawned; a start, a shutdown or a command gets to its end only
  through a step that kills its group; once the servers have started nothing but a
  command can spawn a group, so that a sweep after the start misses none of theirs.
  `ClientInv` is about each server's requests, session and listing: a step of one server
  leaves the others alone (`ServerFrame`), and keeps its own three conjuncts
  (`ServerKept`). A request that was given up is told or cannot be told any more; a
  session that is known is current, deleted, or held by somebody who will delete it; a
  change is in the list, in the listing under way, or announced and pending.
* **Files.** `FilesInv` holds whatever numbers the file system chooses and gives
  `MutationsAreReportedTruly` and `RegistryIsEmptied`. `SerialInv` adds, without reuse, the
  argument about identities: an edit that has a lease finds its lock under the identity
  it remembers (`LockFound`), and one that passed its revalidation remembers the inode
  under the name (`EntriesKept`), so two edits inside hold the same lock (`EditsAreExclusive`).
  That needs `NewInodeUnknown`: nobody with a lease knows a new inode before it is
  published. `EditsImplementFileSpec` maps the rename to the abstract edit, the
  other writes and refusals likewise, and everything else to a stutter.
* **AgentLoop.** `AnswersOK` has every past response answered by the next message, and
  `Owed` what the last one still lacks; at a request nothing is owed. For the mail,
  `PlacedOK` has every message that arrived in the mailbox, among what tools took, or in
  what was said (the conversation and the message being recorded); `HandedOK` has what
  tools took said as soon as their results are. `CarriedOK` is why what was said gets a
  response: there is a turn left and nothing between here and the next request but a stop
  or a failed trace, or what is unread was taken by a tool too late (the answer is
  committed, or the turns are used up). `AnswerOK`: an accepted answer goes to the verdict
  and nowhere else.

Only model-checked: `RunEnds`, `CancellationEnds`, `WaitReturns`, `EmitReturns` and
`AlwaysEnds`, since liveness under fairness is out of the prover's reach. Of the first four
the safety half is proved: there is always a step to take (`RunNeverStuck`,
`CancellationNeverStuck`, `WaitsAreAnswered`, `TraceNeverStuck`). That the steps come to an
end is what TLC shows. Every invariant the passing runs check is a theorem. `NoLostEdit` proves, without reuse of inode numbers, the very
property that `files_reuse` refutes with it.

## 5. What is not modelled, and the plan

Left out of the parts that are modelled:

* `Ledger`: saturation of 64-bit sums. `Agents`: two tools of one agent in two calls at
  once, addressing by name. `AgentLoop`: what messages, results and the answer say, and
  JSON schema checks (an answer keeps or breaks the contract).
* `TraceSink`: the live broadcast, blobs, the contents of records.
* `RunTrace`: names, models and statuses of nodes, parsing of the text.
* `Files`: path resolution, truncation of what is read, deletion of files by others (so
  that the new file's identity can always be read after the rename),
  an edit and a write of one name.
* `Stream`: texts, headers, the size limit of an SSE event, chunk boundaries (an event is
  one step), building the JSON request, the model catalogue.
* `McpServer`: names of tools and their collisions, schemas, headers, credentials, size
  limits, reuse of process ids, the guard that deletes a session when the future of
  `start_until` is dropped, requests of an HTTP session after the first. A DELETE is best
  effort: `SessionsAreDeleted` says that one is sent. A refresh that fails keeps the old
  list, which is what `kept` says.
* `Shell`: captured output and the environment. `Cli`: arguments, configuration and what the renderer shows.

Next: `Agents` with two concurrent calls of one agent; the joint view of `AgentLoop` and
`Attempts`, where an agent's request is the attempt.

Not planned: argument and configuration parsing, prompts, JSON schema validation,
HTTP and JSON mapping of the Anthropic client, text search for credentials, rendering
of the terminal interface, the scripted provider of the tests, the data types of the
protocol. They are sequential conversions without the hazards above.
