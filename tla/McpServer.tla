------------------------------ MODULE McpServer ------------------------------
(***************************************************************************)
(* MCP servers (crates/mcp): `Server::start_until`, the tool listing and   *)
(* its refresh task, calls, `Server::shutdown`, the process group of a     *)
(* stdio server and the session of an HTTP server.                         *)
(*                                                                         *)
(* Each server is of one kind.  A stdio server is a process group that     *)
(* kyora spawned and registered for emergency exits; an HTTP server may    *)
(* assign a session, which the client deletes when it is done.  Four tasks *)
(* of kyora touch one server at once: the one that starts it and shuts it  *)
(* down (`phase`), the refresh task, a call of an agent, and rmcp's own    *)
(* worker, which owns the connection and survives a failed start.  The     *)
(* server itself answers, changes its tools, exits or stays silent as it   *)
(* likes.                                                                  *)
(*                                                                         *)
(* Tool lists are version numbers, a listing shows the version its first   *)
(* page was taken from, and a timeout may pass at any step that awaits one.*)
(***************************************************************************)
EXTENDS Integers, FiniteSets

CONSTANTS
    Servers,     \* the enabled servers
    MaxChanges,  \* bound: how often a server changes its tools
    MaxPages,    \* defaults::MAX_LIST_PAGES
    MaxCalls     \* bound: calls made to a server

ASSUME McpAssumption ==
    /\ IsFiniteSet(Servers)
    /\ MaxChanges \in Nat /\ MaxPages \in Nat \ {0} /\ MaxCalls \in Nat

VARIABLES
    stop,      \* the token `start_until` is given
    kind,      \* kind[s]: "stdio" (config.command) or "http" (config.url)
    phase,     \* phase[s]: where the start or the shutdown of s is
    group,     \* group[s]: the process group as the system sees it
    registry,  \* process.rs GROUPS: the groups `kill_servers` would kill
    conn,      \* conn[s]: the connection rmcp serves: "none", "open", "closed"
    req,       \* req[s][r]: the last request of the lister and of the caller
    tools,     \* tools[s]: the refresh task, and what is offered and shown
    http,      \* http[s]: initialize request, session slot and DELETEs
    calls      \* calls[s]: calls made so far

serverVars == <<stop, kind, phase, group, registry, conn, req, tools, http, calls>>

Requesters == {"list", "call"}

Phases == {"new", "spawned", "initializing", "listing", "started", "failing",
           "service", "stopping", "terminated", "reaped",
           "closing", "cancelled", "deleting", "ended"}

Gone == {"none", "dead"}

Request == [state   : {"none", "sent", "answered", "lost"},  \* Pending and its channel
            working : BOOLEAN,                               \* the server works on it
            taken   : BOOLEAN,                               \* its response was used
            notice  : BOOLEAN]                               \* notifications/cancelled

Tools == [refresh : {"none", "waiting", "listing", "ended"},
          closed  : BOOLEAN,               \* Server::closed
          permit  : BOOLEAN,               \* Handler::changed, a Notify
          notices : 0..MaxChanges,         \* list_changed not yet handled
          offered : 0..MaxChanges,
          shown   : 0..MaxChanges,         \* Server::listing
          seen    : 0..MaxChanges,
          page    : 0..MaxPages,
          kept    : BOOLEAN]               \* the last refresh failed

Http == [post    : {"none", "sent", "held", "received", "answered", "done", "dropped"},
         session : {"none", "open", "deleted"},  \* at the server
         learned : BOOLEAN,                      \* `remember` was called
         slot    : BOOLEAN,                      \* SessionSlot::session
         closed  : BOOLEAN,                      \* SessionSlot::closed
         cancel  : BOOLEAN,                      \* Shared::cancel
         own     : {"none", "running", "answered", "dropped"},  \* delete_session
         delete  : {"none", "running", "done"}]                 \* spawn_delete

ServerTypeOK ==
    /\ stop \in BOOLEAN
    /\ kind \in [Servers -> {"stdio", "http"}]
    /\ phase \in [Servers -> Phases]
    /\ group \in [Servers -> {"none", "alive", "orphans", "dead"}]
    /\ registry \subseteq Servers
    /\ conn \in [Servers -> {"none", "open", "closed"}]
    /\ req \in [Servers -> [Requesters -> Request]]
    /\ tools \in [Servers -> Tools]
    /\ http \in [Servers -> Http]
    /\ calls \in [Servers -> 0..MaxCalls]

NoRequest == [state |-> "none", working |-> FALSE, taken |-> FALSE, notice |-> FALSE]

ServerInit ==
    /\ stop = FALSE
    /\ kind \in [Servers -> {"stdio", "http"}]
    /\ phase = [s \in Servers |-> "new"]
    /\ group = [s \in Servers |-> "none"]
    /\ registry = {}
    /\ conn = [s \in Servers |-> "none"]
    /\ req = [s \in Servers |-> [r \in Requesters |-> NoRequest]]
    /\ tools = [s \in Servers |->
                  [refresh |-> "none", closed |-> FALSE, permit |-> FALSE,
                   notices |-> 0, offered |-> 0, shown |-> 0, seen |-> 0,
                   page |-> 0, kept |-> FALSE]]
    /\ http = [s \in Servers |->
                  [post |-> "none", session |-> "none", learned |-> FALSE,
                   slot |-> FALSE, closed |-> FALSE, cancel |-> FALSE,
                   own |-> "none", delete |-> "none"]]
    /\ calls = [s \in Servers |-> 0]

-----------------------------------------------------------------------------
(* Requests: `Connection::request` and `Pending`.                          *)

(* A request sent now: sending on a closed connection fails at once.       *)
Sent(s) == [NoRequest EXCEPT !.state = IF conn[s] = "open" THEN "sent" ELSE "lost",
                             !.working = conn[s] = "open"]

(* `pending.0 = None`: the response is used and the request is over.       *)
Taken(q) == [q EXCEPT !.state = "none", !.taken = q.state = "answered"]

\* Faulty variant: a request that is given up is only forgotten.
AbandonedSilently(q) == [q EXCEPT !.state = "none"]

(* The future gives up or is dropped, and the server is told.              *)
Abandoned(q) == IF q.state = "none" THEN q
                ELSE [q EXCEPT !.state = "none", !.notice = TRUE]

(* rmcp's connection ends: every responder is dropped.                     *)
Cut(q) == [q EXCEPT !.state = IF @ = "sent" THEN "lost" ELSE @, !.working = FALSE]

Answered(s, r) == req[s][r].state = "answered"
Failed(s, r) == req[s][r].state \in {"answered", "lost"}  \* an error, or no responder

(* The select is biased: a response that is there wins over the rest.      *)
Stoppable(s, r) == req[s][r].state = "sent"

-----------------------------------------------------------------------------
(* Start.                                                                  *)

(* `cmd.spawn()`: from here to the registration nothing else runs in this  *)
(* task, but other threads do.                                             *)
Spawn(s) ==
    /\ phase[s] = "new" /\ kind[s] = "stdio"
    /\ group' = [group EXCEPT ![s] = "alive"]
    /\ phase' = [phase EXCEPT ![s] = "spawned"]
    /\ UNCHANGED <<stop, kind, registry, conn, req, tools, http, calls>>

Register(s) ==
    /\ phase[s] = "spawned"
    /\ registry' = registry \cup {s}
    /\ phase' = [phase EXCEPT ![s] = "initializing"]
    /\ UNCHANGED <<stop, kind, group, conn, req, tools, http, calls>>

(* `handler.serve` on HTTP: rmcp's worker posts the initialize request.    *)
Connect(s) ==
    /\ phase[s] = "new" /\ kind[s] = "http"
    /\ http' = [http EXCEPT ![s].post = "sent"]
    /\ phase' = [phase EXCEPT ![s] = "initializing"]
    /\ UNCHANGED <<stop, kind, group, registry, conn, req, tools, calls>>

(* The command cannot be spawned; an HTTP header or token variable is not  *)
(* set, which returns before there is a client to clean up after.          *)
Refuse(s) ==
    /\ phase[s] = "new"
    /\ phase' = [phase EXCEPT ![s] = IF kind[s] = "stdio" THEN "failing" ELSE "ended"]
    /\ UNCHANGED <<stop, kind, group, registry, conn, req, tools, http, calls>>

(* The task that serves the connection is told of the answer to initialize:*)
(* the listing begins, and `Handler::changed` is already there to hear of  *)
(* changes.                                                                *)
Initialized(s) ==
    /\ phase[s] = "initializing" /\ conn[s] = "open"
    /\ phase' = [phase EXCEPT ![s] = "listing"]
    /\ req' = [req EXCEPT ![s]["list"] = Sent(s)]
    /\ tools' = [tools EXCEPT ![s].page = 1]
    /\ UNCHANGED <<stop, kind, group, registry, conn, http, calls>>

(* The server is up: the refresh task starts, with the listing just made.  *)
(* Servers without the tools capability offer nothing and are not listed.  *)
Started(s) ==
    /\ phase[s] = "listing" /\ Answered(s, "list")
    /\ phase' = [phase EXCEPT ![s] = "started"]
    /\ req' = [req EXCEPT ![s]["list"] = Taken(@)]
    /\ tools' = [tools EXCEPT ![s].page = 0, ![s].shown = tools[s].seen,
                              ![s].refresh = "waiting"]
    /\ UNCHANGED <<stop, kind, group, registry, conn, http, calls>>

(* The start gives up on the startup timeout, on `cancel`, or on an error. *)
(* What the dropped future held goes with it: the request under way is     *)
(* cancelled, and the connection, if there is one, ends.                   *)
GivesUp(s) ==
    \/ phase[s] = "new" /\ stop
    \/ phase[s] \in {"initializing", "listing"}

StartFails(s) ==
    /\ GivesUp(s)
    /\ phase' = [phase EXCEPT ![s] = "failing"]
    /\ req' = [req EXCEPT ![s]["list"] =
                 IF Failed(s, "list") THEN Taken(@) ELSE Abandoned(@)]
    /\ conn' = [conn EXCEPT ![s] = IF @ = "open" THEN "closed" ELSE @]
    /\ tools' = [tools EXCEPT ![s].page = 0]
    /\ UNCHANGED <<stop, kind, group, registry, http, calls>>

(* `process.kill`: SIGKILL to the group, then wait for the child.          *)
Kill(s) ==
    /\ phase[s] = "failing" /\ kind[s] = "stdio"
    /\ group' = [group EXCEPT ![s] = IF @ = "none" THEN "none" ELSE "dead"]
    /\ phase' = [phase EXCEPT ![s] = IF group[s] = "none" THEN "ended" ELSE "reaped"]
    /\ UNCHANGED <<stop, kind, registry, conn, req, tools, http, calls>>

\* Faulty variant: only the child that was waited for is gone.
DropChild(s) ==
    /\ phase[s] = "reaped"
    /\ registry' = registry \ {s}
    /\ phase' = [phase EXCEPT ![s] = "ended"]
    /\ UNCHANGED <<stop, kind, group, conn, req, tools, http, calls>>

(* `drop(Process)`: kills what is left of the group and forgets it.        *)
DropProcess(s) ==
    /\ phase[s] = "reaped"
    /\ group' = [group EXCEPT ![s] = "dead"]
    /\ registry' = registry \ {s}
    /\ phase' = [phase EXCEPT ![s] = "ended"]
    /\ UNCHANGED <<stop, kind, conn, req, tools, http, calls>>

-----------------------------------------------------------------------------
(* Listing and refresh.                                                    *)

Listing(s) == phase[s] = "listing" \/ tools[s].refresh = "listing"

(* `page.next_cursor`: another page is asked for, up to MAX_LIST_PAGES.    *)
NextPage(s) ==
    /\ Listing(s) /\ Answered(s, "list") /\ tools[s].page < MaxPages
    /\ req' = [req EXCEPT ![s]["list"] = Sent(s)]
    /\ tools' = [tools EXCEPT ![s].page = @ + 1]
    /\ UNCHANGED <<stop, kind, phase, group, registry, conn, http, calls>>

(* `on_tool_list_changed`: `notify_one` leaves one permit at most.         *)
ToolListChanged(s) ==
    /\ tools[s].notices > 0 /\ conn[s] = "open"
    /\ tools' = [tools EXCEPT ![s].notices = @ - 1, ![s].permit = TRUE]
    /\ UNCHANGED <<stop, kind, phase, group, registry, conn, req, http, calls>>

(* The refresh task wakes up: the permit is used before the list is read.  *)
RefreshBegins(s) ==
    /\ tools[s].refresh = "waiting" /\ tools[s].permit
    /\ tools' = [tools EXCEPT ![s].permit = FALSE, ![s].refresh = "listing", ![s].page = 1]
    /\ req' = [req EXCEPT ![s]["list"] = Sent(s)]
    /\ UNCHANGED <<stop, kind, phase, group, registry, conn, http, calls>>

\* Faulty variant: the permit is used up when the list has been read.
RefreshListedUsingPermit(s) ==
    /\ tools[s].refresh = "listing" /\ Answered(s, "list")
    /\ tools' = [tools EXCEPT ![s].refresh = "waiting", ![s].page = 0, ![s].permit = FALSE,
                              ![s].shown = tools[s].seen, ![s].kept = FALSE]
    /\ req' = [req EXCEPT ![s]["list"] = Taken(@)]
    /\ UNCHANGED <<stop, kind, phase, group, registry, conn, http, calls>>

(* `*server.listing.write() = listing`.                                    *)
RefreshListed(s) ==
    /\ tools[s].refresh = "listing" /\ Answered(s, "list")
    /\ tools' = [tools EXCEPT ![s].refresh = "waiting", ![s].page = 0,
                              ![s].shown = tools[s].seen, ![s].kept = FALSE]
    /\ req' = [req EXCEPT ![s]["list"] = Taken(@)]
    /\ UNCHANGED <<stop, kind, phase, group, registry, conn, http, calls>>

(* An error, a limit, the deadline or `closed`: the previous list stays.   *)
RefreshFails(s) ==
    /\ tools[s].refresh = "listing"
    /\ tools' = [tools EXCEPT ![s].refresh = "waiting", ![s].page = 0, ![s].kept = TRUE]
    /\ req' = [req EXCEPT ![s]["list"] =
                 IF Failed(s, "list") THEN Taken(@) ELSE Abandoned(@)]
    /\ UNCHANGED <<stop, kind, phase, group, registry, conn, http, calls>>

RefreshEnds(s) ==
    /\ tools[s].refresh = "waiting" /\ tools[s].closed
    /\ tools' = [tools EXCEPT ![s].refresh = "ended"]
    /\ UNCHANGED <<stop, kind, phase, group, registry, conn, req, http, calls>>

-----------------------------------------------------------------------------
(* Calls: `McpTool::call`, with the agent's token and deadline.            *)

CallBegins(s) ==
    /\ phase[s] = "started" /\ calls[s] < MaxCalls /\ req[s]["call"].state = "none"
    /\ calls' = [calls EXCEPT ![s] = @ + 1]
    /\ req' = [req EXCEPT ![s]["call"] = Sent(s)]
    /\ UNCHANGED <<stop, kind, phase, group, registry, conn, tools, http>>

CallReturns(s) ==
    /\ Failed(s, "call")
    /\ req' = [req EXCEPT ![s]["call"] = Taken(@)]
    /\ UNCHANGED <<stop, kind, phase, group, registry, conn, tools, http, calls>>

(* Cancelled or timed out.                                                 *)
CallStops(s) ==
    /\ Stoppable(s, "call")
    /\ req' = [req EXCEPT ![s]["call"] = Abandoned(@)]
    /\ UNCHANGED <<stop, kind, phase, group, registry, conn, tools, http, calls>>

(* `drop(Pending)`: the runtime drops a read-only call on cancellation,    *)
(* perhaps with a response nobody has looked at.                           *)
CallDropped(s) ==
    /\ req[s]["call"].state # "none"
    /\ req' = [req EXCEPT ![s]["call"] = Abandoned(@)]
    /\ UNCHANGED <<stop, kind, phase, group, registry, conn, tools, http, calls>>

-----------------------------------------------------------------------------
(* Shutdown.                                                               *)

(* `closed.cancel()`, then the service is taken and closed.                *)
ShutdownBegins(s) ==
    /\ phase[s] = "started"
    /\ phase' = [phase EXCEPT ![s] = "service"]
    /\ tools' = [tools EXCEPT ![s].closed = TRUE]
    /\ UNCHANGED <<stop, kind, group, registry, conn, req, http, calls>>

(* `service.close_with_timeout(EXIT_GRACE)`: the connection ends, stdin is *)
(* closed, and rmcp starts to delete an HTTP session it knows.             *)
ServiceCloses(s) ==
    /\ phase[s] = "service"
    /\ phase' = [phase EXCEPT ![s] = IF kind[s] = "stdio" THEN "stopping" ELSE "closing"]
    /\ conn' = [conn EXCEPT ![s] = "closed"]
    /\ req' = [req EXCEPT ![s] = [r \in Requesters |-> Cut(@[r])]]
    /\ http' = [http EXCEPT ![s].own = IF http[s].slot THEN "running" ELSE @]
    /\ UNCHANGED <<stop, kind, group, registry, tools, calls>>

(* `Process::stop`: the child has exited, perhaps before it had to.        *)
ChildExited(s) ==
    /\ phase[s] \in {"stopping", "terminated"} /\ group[s] # "alive"
    /\ phase' = [phase EXCEPT ![s] = "reaped"]
    /\ UNCHANGED <<stop, kind, group, registry, conn, req, tools, http, calls>>

(* EXIT_GRACE has passed: SIGTERM, which the server may ignore.            *)
Terminate(s) ==
    /\ phase[s] = "stopping" /\ group[s] = "alive"
    /\ phase' = [phase EXCEPT ![s] = "terminated"]
    /\ UNCHANGED <<stop, kind, group, registry, conn, req, tools, http, calls>>

\* Faulty variant: the wait after SIGTERM has no timeout.
KillNever(s) == phase[s] = "terminated" /\ group[s] # "alive" /\ UNCHANGED serverVars

(* TERM_GRACE has passed too: SIGKILL to the group.                        *)
KillStubborn(s) ==
    /\ phase[s] = "terminated" /\ group[s] = "alive"
    /\ group' = [group EXCEPT ![s] = "dead"]
    /\ phase' = [phase EXCEPT ![s] = "reaped"]
    /\ UNCHANGED <<stop, kind, registry, conn, req, tools, http, calls>>

-----------------------------------------------------------------------------
(* The HTTP client: `bounded`, `remember`, `forget`, `close`.              *)

(* `bounded` is biased too: a response is only received while the client   *)
(* is not cancelled, but what follows is not covered by it.                *)
Receive(s) ==
    /\ http[s].post = "held" /\ ~http[s].cancel
    /\ http' = [http EXCEPT ![s].post = "received"]
    /\ UNCHANGED <<stop, kind, phase, group, registry, conn, req, tools, calls>>

(* Cancelled, or the request timeout.                                      *)
PostDropped(s) ==
    /\ http[s].post \in {"sent", "held"}
    /\ http' = [http EXCEPT ![s].post = "dropped"]
    /\ UNCHANGED <<stop, kind, phase, group, registry, conn, req, tools, calls>>

\* Faulty variant: a session is kept in the slot whether or not it is closed.
RememberAlways(s) ==
    LET named == http[s].session # "none" IN
    /\ http[s].post = "received"
    /\ http' = [http EXCEPT ![s].post = "answered", ![s].learned = named, ![s].slot = named]
    /\ UNCHANGED <<stop, kind, phase, group, registry, conn, req, tools, calls>>

(* `remember`: a session that arrives after `close` is deleted at once.    *)
Remember(s) ==
    LET named == http[s].session # "none"
        late  == http[s].closed
    IN  /\ http[s].post = "received"
        /\ http' = [http EXCEPT ![s].post = "answered", ![s].learned = named,
                                ![s].slot = named /\ ~late,
                                ![s].delete = IF named /\ late THEN "running" ELSE @]
        /\ UNCHANGED <<stop, kind, phase, group, registry, conn, req, tools, calls>>

(* The rest of the answer is read, and the reply is handed to rmcp, which  *)
(* opens the connection if the start still waits for it.                   *)
Reply(s) ==
    /\ http[s].post = "answered"
    /\ http' = [http EXCEPT ![s].post = "done"]
    /\ conn' = [conn EXCEPT ![s] = IF phase[s] = "initializing" THEN "open" ELSE @]
    /\ UNCHANGED <<stop, kind, phase, group, registry, req, tools, calls>>

(* An error status, a body that is cut off or too large, or one that is no *)
(* reply: rmcp is told of an error, and the session stays remembered.      *)
NoReply(s) ==
    /\ http[s].post = "answered"
    /\ http' = [http EXCEPT ![s].post = "done"]
    /\ UNCHANGED <<stop, kind, phase, group, registry, conn, req, tools, calls>>

(* `close`, first half: every request in flight ends.                      *)
HttpCancel(s) ==
    /\ phase[s] \in {"failing", "closing"} /\ kind[s] = "http"
    /\ http' = [http EXCEPT ![s].cancel = TRUE]
    /\ phase' = [phase EXCEPT ![s] = "cancelled"]
    /\ UNCHANGED <<stop, kind, group, registry, conn, req, tools, calls>>

(* `close`, second half: the slot is emptied and closed under its lock.    *)
CloseSlot(s) ==
    /\ phase[s] = "cancelled"
    /\ http' = [http EXCEPT ![s].closed = TRUE, ![s].slot = FALSE,
                            ![s].delete = IF http[s].slot THEN "running" ELSE @]
    /\ phase' = [phase EXCEPT ![s] = IF http[s].slot THEN "deleting" ELSE "ended"]
    /\ UNCHANGED <<stop, kind, group, registry, conn, req, tools, calls>>

(* The spawned DELETE is answered, or DELETE_TIMEOUT passes.               *)
DeleteEnds(s) ==
    /\ http[s].delete = "running"
    /\ \E after \in {http[s].session, "deleted"} :
          http' = [http EXCEPT ![s].delete = "done", ![s].session = after]
    /\ UNCHANGED <<stop, kind, phase, group, registry, conn, req, tools, calls>>

(* `close_and_wait` returns.                                               *)
DeleteAwaited(s) ==
    /\ phase[s] = "deleting" /\ http[s].delete = "done"
    /\ phase' = [phase EXCEPT ![s] = "ended"]
    /\ UNCHANGED <<stop, kind, group, registry, conn, req, tools, http, calls>>

(* `delete_session`, sent by rmcp when the service closes: once answered,  *)
(* the session is forgotten.                                               *)
OwnDeleteAnswered(s) ==
    /\ http[s].own = "running" /\ ~http[s].cancel
    /\ http' = [http EXCEPT ![s].own = "answered", ![s].slot = FALSE,
                            ![s].session = "deleted"]
    /\ UNCHANGED <<stop, kind, phase, group, registry, conn, req, tools, calls>>

OwnDeleteDropped(s) ==
    /\ http[s].own = "running"
    /\ \E after \in {http[s].session, "deleted"} :
          http' = [http EXCEPT ![s].own = "dropped", ![s].session = after]
    /\ UNCHANGED <<stop, kind, phase, group, registry, conn, req, tools, calls>>

-----------------------------------------------------------------------------
(* The server, which owes kyora nothing.                                   *)

Reachable(s) == kind[s] = "http" \/ group[s] = "alive"

AnswersInitialize(s) ==
    \/ /\ kind[s] = "stdio" /\ group[s] = "alive"
       /\ phase[s] = "initializing" /\ conn[s] = "none"
       /\ conn' = [conn EXCEPT ![s] = "open"]
       /\ UNCHANGED <<stop, kind, phase, group, registry, req, tools, http, calls>>
    \/ /\ http[s].post = "sent"
       /\ \E session \in {"none", "open"} :
             http' = [http EXCEPT ![s].post = "held", ![s].session = session]
       /\ UNCHANGED <<stop, kind, phase, group, registry, conn, req, tools, calls>>

Answers(s, r) ==
    /\ req[s][r].working /\ Reachable(s)
    /\ req' = [req EXCEPT ![s][r].working = FALSE,
                          ![s][r].state = IF @ = "sent" THEN "answered" ELSE @]
    /\ tools' = [tools EXCEPT ![s].seen =
                    IF r = "list" /\ tools[s].page = 1 THEN tools[s].offered ELSE @]
    /\ UNCHANGED <<stop, kind, phase, group, registry, conn, http, calls>>

(* The server stops working on what it was told to cancel.                 *)
Obeys(s, r) ==
    /\ req[s][r].working /\ req[s][r].notice
    /\ req' = [req EXCEPT ![s][r].working = FALSE]
    /\ UNCHANGED <<stop, kind, phase, group, registry, conn, tools, http, calls>>

ChangesTools(s) ==
    /\ Reachable(s) /\ conn[s] # "closed" /\ tools[s].offered < MaxChanges
    /\ tools' = [tools EXCEPT ![s].offered = @ + 1,
                              ![s].notices = @ + IF conn[s] = "open" THEN 1 ELSE 0]
    /\ UNCHANGED <<stop, kind, phase, group, registry, conn, req, http, calls>>

(* The child exits, with or without children of its own; those exit too.   *)
Exits(s) ==
    /\ \E left \in {"orphans", "dead"} :
          /\ group[s] = "alive" \/ (group[s] = "orphans" /\ left = "dead")
          /\ group' = [group EXCEPT ![s] = left]
    /\ UNCHANGED <<stop, kind, phase, registry, conn, req, tools, http, calls>>

(* End of file on stdout, a message over the limit, a lost HTTP stream.    *)
ConnectionEnds(s) ==
    /\ conn[s] = "open"
    /\ conn' = [conn EXCEPT ![s] = "closed"]
    /\ req' = [req EXCEPT ![s] = [r \in Requesters |-> Cut(@[r])]]
    /\ UNCHANGED <<stop, kind, phase, group, registry, tools, http, calls>>

ServerSide(s) ==
    \/ AnswersInitialize(s) \/ ChangesTools(s) \/ Exits(s) \/ ConnectionEnds(s)
    \/ \E r \in Requesters : Answers(s, r) \/ Obeys(s, r)

-----------------------------------------------------------------------------
(* What kyora's tasks do on their own.  `CallBegins` and `ShutdownBegins`  *)
(* are the caller's.                                                       *)

Starting(s) ==
    \/ Spawn(s) \/ Register(s) \/ Connect(s) \/ Refuse(s) \/ Initialized(s)
    \/ Started(s) \/ StartFails(s) \/ Kill(s) \/ DropProcess(s)

Refreshing(s) ==
    \/ NextPage(s) \/ ToolListChanged(s) \/ RefreshBegins(s) \/ RefreshListed(s)
    \/ RefreshFails(s) \/ RefreshEnds(s)

Calling(s) == CallReturns(s) \/ CallStops(s) \/ CallDropped(s)

Stopping(s) ==
    \/ ServiceCloses(s) \/ ChildExited(s) \/ Terminate(s) \/ KillStubborn(s)

Cleaning(s) ==
    \/ Receive(s) \/ PostDropped(s) \/ Remember(s) \/ Reply(s) \/ NoReply(s)
    \/ HttpCancel(s) \/ CloseSlot(s) \/ DeleteEnds(s) \/ DeleteAwaited(s)
    \/ OwnDeleteAnswered(s) \/ OwnDeleteDropped(s)

ServerTasks(s) ==
    Starting(s) \/ Refreshing(s) \/ Calling(s) \/ Stopping(s) \/ Cleaning(s)

-----------------------------------------------------------------------------
(* Safety.                                                                 *)

(* A session the client was told of is never left behind by a client that  *)
(* has closed (http.rs `close`, `remember`): rmcp's DELETE was answered, or *)
(* one of kyora's own has been sent, also when the session arrives while   *)
(* the client closes.                                                      *)
SessionsAreDeleted ==
    \A s \in Servers :
        http[s].closed /\ http[s].learned
            => http[s].own = "answered" \/ http[s].delete # "none"

(* A server is not left working on a request nobody waits for (server.rs   *)
(* `Pending`): as long as the connection is up it has been told, and it is *)
(* never told to cancel a request whose response was used.                 *)
AbandonedRequestsAreCancelled ==
    \A s \in Servers, r \in Requesters :
        LET q == req[s][r] IN
        /\ q.working /\ q.state = "none" /\ conn[s] = "open" => q.notice
        /\ ~(q.taken /\ q.notice)

(* When the refresh task waits, no permit and no notification is left, and *)
(* the last refresh did not fail, agents are shown the tools the server    *)
(* offers now (server.rs `refresh`): no change falls between two listings, *)
(* or between the first listing and the start of the task.                 *)
QuietListingIsCurrent ==
    \A s \in Servers :
        LET t == tools[s] IN
        (/\ t.refresh = "waiting" /\ ~t.permit /\ t.notices = 0 /\ ~t.kept
         /\ conn[s] = "open")
            => t.shown = t.offered
=============================================================================
