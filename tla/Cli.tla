--------------------------------- MODULE Cli ---------------------------------
(***************************************************************************)
(* `kyora run` around its MCP servers (crates/cli/src/main.rs): `execute`  *)
(* starts the servers, runs the root agent and shuts the servers down,     *)
(* while `watch_interrupts` waits for Ctrl-C on a thread of its own.  The  *)
(* first one fires the token everything listens to; a second within the    *)
(* window kills the process groups that are registered and exits at once.  *)
(*                                                                         *)
(* The run itself is an agent that makes calls, runs commands and ends:    *)
(* what happens inside it is the business of the other modules.            *)
(***************************************************************************)
EXTENDS McpServer, Shell

CONSTANTS
    MaxInterrupts, \* bound: how often the user presses Ctrl-C
    MaxUsed        \* bound: servers and commands the agent uses

VARIABLES
    main,       \* where `execute` is, and how the process ended
    renderer,   \* the task that shows the trace: "none", "live", "ended"
    watcher,    \* the interrupts task
    interrupts, \* Ctrl-C so far
    missed      \* history: commands that ran unregistered when groups were killed

cliVars == <<main, renderer, watcher, interrupts, missed>>
vars == <<serverVars, shellVars, cliVars>>

(* "done" returned from `execute`; "exited" and "aborted" are exits by the *)
(* second Ctrl-C, "aborted" when it came while servers were starting: one  *)
(* that is being spawned is then not registered yet and may be left.       *)
Over == {"done", "exited", "aborted"}

CliTypeOK ==
    /\ ServerTypeOK /\ ShellTypeOK
    /\ main \in {"starting", "checking", "running", "flushing", "rendering", "shutdown"}
               \cup Over
    /\ renderer \in {"none", "live", "ended"}
    /\ watcher \in {"watching", "sweeping", "killing", "aborting"}
    /\ interrupts \in 0..MaxInterrupts
    /\ missed \subseteq Shells

Init ==
    /\ ServerInit /\ ShellInit
    /\ main = "starting"
    /\ renderer = "none"
    /\ watcher = "watching"
    /\ interrupts = 0
    /\ missed = {}

(* `Servers::start_until` joins every start before it returns.  When the   *)
(* token has fired by then, the servers that did start are shut down.      *)
ServersStarted ==
    /\ main = "starting"
    /\ \A s \in Servers : phase[s] \in {"started", "ended"}
    /\ main' = IF stop THEN "shutdown" ELSE "checking"
    /\ UNCHANGED <<serverVars, shellVars, renderer, watcher, interrupts, missed>>

(* The tools named on the command line, and the providers, are checked.    *)
UsageError ==
    /\ main = "checking"
    /\ main' = "shutdown"
    /\ UNCHANGED <<serverVars, shellVars, renderer, watcher, interrupts, missed>>

(* `execute_runtime`: the renderer is spawned and the run begins.          *)
RunBegins ==
    /\ main = "checking"
    /\ main' = "running"
    /\ renderer' = "live"
    /\ UNCHANGED <<serverVars, shellVars, watcher, interrupts, missed>>

(* The servers and commands the agent has used.                            *)
Used == {s \in Servers : calls[s] > 0} \cup {c \in Shells : shell[c].pc # "idle"}

AgentCalls(s) ==
    /\ main = "running" /\ Cardinality(Used \cup {s}) <= MaxUsed
    /\ CallBegins(s)
    /\ UNCHANGED <<shellVars, cliVars>>

AgentRunsCommand(c) ==
    /\ main = "running" /\ Cardinality(Used \cup {c}) <= MaxUsed
    /\ ShellRefused(c) \/ ShellSpawn(c)
    /\ UNCHANGED <<serverVars, cliVars>>

(* `runtime.run` returns once every call of every agent has.               *)
RunEnds ==
    /\ main = "running"
    /\ \A s \in Servers : req[s]["call"].state = "none"
    /\ \A c \in Shells : shell[c].pc \in {"idle", "done"}
    /\ main' = "flushing"
    /\ UNCHANGED <<serverVars, shellVars, renderer, watcher, interrupts, missed>>

(* `trace.finish` has returned, with or without an error, and the renderer *)
(* is told to stop.                                                        *)
Flushed ==
    /\ main = "flushing"
    /\ main' = "rendering"
    /\ UNCHANGED <<serverVars, shellVars, renderer, watcher, interrupts, missed>>

(* `render` ends when it is told to, once it has shown what is left; with  *)
(* --json it also ends when it lagged behind the trace.                    *)
RendererEnds ==
    /\ renderer = "live" /\ main \in {"running", "flushing", "rendering"}
    /\ renderer' = "ended"
    /\ UNCHANGED <<serverVars, shellVars, main, watcher, interrupts, missed>>

(* `execute_runtime` returns, with its exit code.                          *)
Rendered ==
    /\ main = "rendering" /\ renderer = "ended"
    /\ main' = "shutdown"
    /\ UNCHANGED <<serverVars, shellVars, renderer, watcher, interrupts, missed>>

(* `Servers::shutdown` shuts them down concurrently.                       *)
ShutServerDown(s) ==
    /\ main = "shutdown"
    /\ ShutdownBegins(s)
    /\ UNCHANGED <<shellVars, cliVars>>

Return ==
    /\ main = "shutdown"
    /\ \A s \in Servers : phase[s] = "ended"
    /\ main' = "done"
    /\ UNCHANGED <<serverVars, shellVars, renderer, watcher, interrupts, missed>>

(* Ctrl-C: the token fires, unless it is the second within the window.     *)
Interrupt ==
    /\ watcher = "watching" /\ interrupts < MaxInterrupts
    /\ interrupts' = interrupts + 1
    /\ stop' = TRUE
    /\ UNCHANGED <<kind, phase, group, registry, conn, req, tools, http, calls,
                   shellVars, main, renderer, watcher, missed>>

(* `cancel_processes`, when Ctrl-C comes again within the window: every    *)
(* registered group of a command, under the registry's lock.               *)
KillCommands ==
    /\ watcher = "watching" /\ interrupts > 1
    /\ shell' = [c \in Shells |->
                   [pc |-> shell[c].pc, over |-> shell[c].over, outsider |-> shell[c].outsider,
                    group |-> IF c \in shellGroups THEN "dead" ELSE shell[c].group]]
    /\ missed' = Shells \ shellGroups
    /\ watcher' = "sweeping"
    /\ UNCHANGED <<serverVars, shellGroups, main, renderer, interrupts>>

(* Then `kill_servers`, for those of the servers, under its own lock.      *)
KillServers ==
    /\ watcher = "sweeping"
    /\ group' = [s \in Servers |-> IF s \in registry THEN "dead" ELSE group[s]]
    /\ watcher' = IF main = "starting" THEN "aborting" ELSE "killing"
    /\ UNCHANGED <<stop, kind, phase, registry, conn, req, tools, http, calls,
                   shellVars, main, renderer, interrupts, missed>>

(* `process::exit(130)`.                                                   *)
Exit ==
    /\ watcher \in {"killing", "aborting"}
    /\ main' = IF watcher = "aborting" THEN "aborted" ELSE "exited"
    /\ UNCHANGED <<serverVars, shellVars, renderer, watcher, interrupts, missed>>

(* The steps of kyora's own tasks, every timeout included.                 *)
Kyora ==
    /\ main \notin Over
    /\ \/ ServersStarted \/ UsageError \/ RunBegins \/ RunEnds \/ Flushed
       \/ RendererEnds \/ Rendered \/ Return \/ KillServers \/ Exit
       \/ \E s \in Servers : ServerTasks(s) /\ UNCHANGED <<shellVars, cliVars>>
       \/ \E s \in Servers : ShutServerDown(s)
       \/ \E c \in Shells : ShellTasks(c) /\ UNCHANGED <<serverVars, cliVars>>

Surroundings ==
    \/ /\ main \notin Over
       /\ \/ Interrupt \/ KillCommands
          \/ \E s \in Servers : AgentCalls(s)
          \/ \E c \in Shells : AgentRunsCommand(c)
    \/ \E s \in Servers : ServerSide(s) /\ UNCHANGED <<shellVars, cliVars>>
    \/ \E c \in Shells : CommandSide(c) /\ UNCHANGED <<serverVars, cliVars>>

Next == Kyora \/ Surroundings

(* The runtime polls a task that is ready, and every wait of kyora's has a *)
(* timeout.  Nothing is assumed of the servers or of the user.             *)
Spec == Init /\ [][Next]_vars /\ WF_vars(Kyora)

-----------------------------------------------------------------------------
(* No process is left in the group of a server whose start has failed or   *)
(* that has been shut down, nor in the group of a command whose call is    *)
(* over, nor in either when `execute` has returned, or when the second     *)
(* Ctrl-C ended a run or a shutdown at once (main.rs:342, docs/mcp.md:65), *)
(* wherever the cleanup was then.  A command that was being spawned, or    *)
(* was spawned afterwards, is not in the registry that is swept.           *)
NothingLeftRunning ==
    /\ \A s \in Servers :
           phase[s] = "ended" \/ main \in {"done", "exited"} => group[s] \in Gone
    /\ \A c \in Shells :
           (\/ shell[c].pc = "done" \/ main = "done"
            \/ main = "exited" /\ c \notin missed)
               => shell[c].group \in Gone

(* `kyora run` ends whatever the servers do: one that never answers, never *)
(* exits and ignores SIGTERM holds up neither the start, nor a call, nor   *)
(* the shutdown.                                                           *)
AlwaysEnds == <>(main \in Over)
=============================================================================
