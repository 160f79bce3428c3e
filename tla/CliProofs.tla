------------------------------ MODULE CliProofs -------------------------------
(***************************************************************************)
(* No process is left running, no session and no request is forgotten and  *)
(* no change of a server's tools is missed, for any number of servers, of  *)
(* commands and of interrupts.                                             *)
(*                                                                         *)
(* The argument for processes is one of coverage: a group that is not gone *)
(* is registered (or is being spawned), so that the sweep of the second    *)
(* Ctrl-C finds it; a start, a shutdown or a call of the shell gets to its *)
(* end only through a step that kills the group; and once the servers have *)
(* started nothing but a command can spawn a group any more.  The argument *)
(* for the rest is one about a single server: each of its records carries  *)
(* enough to say what is still owed to it.                                 *)
(***************************************************************************)
EXTENDS Cli, TLAPS

(* The types the argument needs.                                           *)
Types ==
    /\ kind \in [Servers -> {"stdio", "http"}]
    /\ phase \in [Servers -> Phases]
    /\ group \in [Servers -> {"none", "alive", "orphans", "dead"}]
    /\ shell \in [Shells -> Call]
    /\ watcher \in {"watching", "sweeping", "killing", "aborting"}

ServerCovered(s) ==
    /\ group[s] \in Gone \/ s \in registry \/ phase[s] = "spawned"
    /\ phase[s] \in {"new", "ended"} => group[s] \in Gone
    /\ kind[s] = "http" =>
         /\ group[s] \in Gone
         /\ phase[s] \notin {"spawned", "stopping", "terminated", "reaped"}
    /\ phase[s] \in {"closing", "cancelled", "deleting"} => kind[s] = "http"

(* Once the servers have started none is spawned, and when they have been  *)
(* swept none is left.                                                     *)
ServersSettled ==
    \A s \in Servers :
        /\ main \notin {"starting", "aborted"} => phase[s] \notin {"new", "spawned"}
        /\ main = "done" => phase[s] = "ended"
        /\ watcher = "killing" => group[s] \in Gone

CommandCovered(c) ==
    /\ shell[c].group \in Gone \/ c \in shellGroups \/ shell[c].pc = "spawned"
    /\ shell[c].pc \in {"idle", "done"} => shell[c].group \in Gone
    /\ c \in shellGroups => shell[c].pc \in {"waiting", "killed"}
    /\ main \in {"starting", "checking"} => shell[c].pc = "idle"
    /\ main \in {"flushing", "rendering", "shutdown", "done"} => shell[c].pc \in {"idle", "done"}
    /\ watcher \in {"sweeping", "killing"} /\ c \notin missed =>
         shell[c].group \in Gone /\ shell[c].pc \in {"waiting", "killed", "done"}

Swept ==
    /\ watcher = "killing" => main \notin {"starting", "aborted"}
    /\ main = "exited" => watcher = "killing"

GInv ==
    /\ Types
    /\ \A s \in Servers : ServerCovered(s)
    /\ ServersSettled
    /\ \A c \in Shells : CommandCovered(c)
    /\ Swept

LEMMA InitCovered == Init => GInv
  BY SMT DEF Init, ServerInit, ShellInit, GInv, Types, Phases, Call, ServerCovered, Gone,
             ServersSettled, CommandCovered, Swept

LEMMA CoveredIsEnough == GInv => NothingLeftRunning
  BY SMT DEF GInv, ServerCovered, ServersSettled, CommandCovered, Swept, NothingLeftRunning

-----------------------------------------------------------------------------
(* The servers: what a step of one of them, or of its tasks, leaves true.  *)

ServersOK == /\ \A s \in Servers : ServerCovered(s)
             /\ ServersSettled

LEMMA ServerStep ==
  ASSUME GInv, NEW s \in Servers,
         \/ ServerTasks(s) /\ main \notin Over
         \/ ShutdownBegins(s) /\ main = "shutdown"
         \/ CallBegins(s)
         \/ ServerSide(s),
         UNCHANGED <<shellVars, cliVars>>
  PROVE  GInv'
  <1> USE DEF GInv, Types, Phases, ServerCovered, Gone, ServersSettled, CommandCovered, Swept,
              shellVars, cliVars, Over
  <1>1. CASE Spawn(s) /\ main \notin Over
    BY <1>1, SMT DEF Spawn
  <1>2. CASE Register(s)
    BY <1>2, SMT DEF Register
  <1>3. CASE Connect(s) \/ Refuse(s) \/ Initialized(s) \/ Started(s)
    BY <1>3, SMT DEF Connect, Refuse, Initialized, Started
  <1>4. CASE StartFails(s) 
    BY <1>4, SMT DEF StartFails, GivesUp
  <1>5. CASE Kill(s) \/ DropProcess(s)
    BY <1>5, SMT DEF Kill, DropProcess
  <1>6. CASE Refreshing(s)
    BY <1>6, SMT DEF Refreshing, NextPage, ToolListChanged, RefreshBegins, RefreshListed,
                     RefreshFails, RefreshEnds
  <1>7. CASE Calling(s) \/ CallBegins(s)
    BY <1>7, SMT DEF Calling, CallReturns, CallStops, CallDropped, CallBegins
  <1>8. CASE ShutdownBegins(s) /\ main = "shutdown"
    BY <1>8, SMT DEF ShutdownBegins
  <1>9. CASE Stopping(s) /\ main \notin Over
    BY <1>9, SMT DEF Stopping, ServiceCloses, ChildExited, Terminate, KillStubborn
  <1>10. CASE Cleaning(s) /\ main \notin Over
    BY <1>10, SMT DEF Cleaning, Receive, PostDropped, Remember, Reply, NoReply, HttpCancel,
                      CloseSlot, DeleteEnds, DeleteAwaited, OwnDeleteAnswered, OwnDeleteDropped
  <1>11. CASE ServerSide(s)
    <2>1. CASE Exits(s)
      BY <2>1, SMT DEF Exits
    <2>2. CASE AnswersInitialize(s)
      BY <2>2, SMT DEF AnswersInitialize
    <2>3. CASE ChangesTools(s) \/ ConnectionEnds(s)
      BY <2>3, SMT DEF ChangesTools, ConnectionEnds
    <2>4. CASE \E r \in Requesters : Answers(s, r)
      BY <2>4, SMT DEF Answers
    <2>5. CASE \E r \in Requesters : Obeys(s, r)
      BY <2>5, SMT DEF Obeys
    <2> QED BY <1>11, <2>1, <2>2, <2>3, <2>4, <2>5 DEF ServerSide
  <1> QED
    BY <1>1, <1>2, <1>3, <1>4, <1>5, <1>6, <1>7, <1>8, <1>9, <1>10, <1>11
    DEF ServerTasks, Starting

-----------------------------------------------------------------------------
(* The commands.                                                           *)

LEMMA CommandMoves ==
  ASSUME NEW c \in Shells, CommandSide(c)
  PROVE  \/ \E g \in {"orphans", "dead"} : Goes(c, shell[c].pc, g)
         \/ \E o \in BOOLEAN : Flags(c, shell[c].over, o)
  BY Zenon DEF CommandSide

LEMMA CommandStep ==
  ASSUME GInv, NEW c \in Shells,
         \/ ShellTasks(c) /\ main \notin Over
         \/ (ShellRefused(c) \/ ShellSpawn(c)) /\ main = "running"
         \/ CommandSide(c),
         UNCHANGED <<serverVars, cliVars>>
  PROVE  GInv'
  <1> USE DEF GInv, Types, ServerCovered, ServersSettled, CommandCovered, Swept, Gone, Call,
              serverVars, cliVars, Over, Goes, Flags
  <1>1. CASE ShellTasks(c) /\ main \notin Over
    <2>1. CASE ShellRegister(c)
      BY <1>1, <2>1, SMT DEF ShellRegister
    <2>2. CASE ShellExpires(c)
      BY <1>1, <2>2, SMT DEF ShellExpires
    <2>3. CASE ShellKill(c)
      BY <1>1, <2>3, SMT DEF ShellKill
    <2>4. CASE ShellReturn(c)
      BY <1>1, <2>4, SMT DEF ShellReturn
    <2> QED BY <1>1, <2>1, <2>2, <2>3, <2>4 DEF ShellTasks
  <1>2. CASE (ShellRefused(c) \/ ShellSpawn(c)) /\ main = "running"
    BY <1>2, SMT DEF ShellRefused, ShellSpawn
  <1>3. CASE CommandSide(c)
    <2>1. CASE \E g \in {"orphans", "dead"} : Goes(c, shell[c].pc, g)
      BY <1>3, <2>1, SMT DEF CommandSide
    <2>2. CASE \E o \in BOOLEAN : Flags(c, shell[c].over, o)
      BY <1>3, <2>2, SMT DEF CommandSide
    <2> QED BY <1>3, <2>1, <2>2, CommandMoves
  <1> QED BY <1>1, <1>2, <1>3

-----------------------------------------------------------------------------
(* `execute` and the watcher.                                              *)

LEMMA MainStep ==
  ASSUME GInv, main \notin Over,
         \/ ServersStarted \/ UsageError \/ RunBegins \/ RunEnds \/ Flushed
         \/ RendererEnds \/ Rendered \/ Return \/ Exit \/ Interrupt
         \/ KillCommands \/ KillServers
  PROVE  GInv'
  <1> USE DEF GInv, Types, ServerCovered, ServersSettled, CommandCovered, Swept, Gone, Over,
              serverVars, shellVars
  <1>1. CASE ServersStarted
    BY <1>1, SMT DEF ServersStarted
  <1>2. CASE UsageError \/ RunBegins
    BY <1>2, SMT DEF UsageError, RunBegins
  <1>3. CASE RunEnds
    BY <1>3, SMT DEF RunEnds
  <1>4. CASE Flushed \/ RendererEnds \/ Rendered
    BY <1>4, SMT DEF Flushed, RendererEnds, Rendered
  <1>5. CASE Return
    BY <1>5, SMT DEF Return
  <1>6. CASE Exit
    BY <1>6, SMT DEF Exit
  <1>7. CASE Interrupt
    BY <1>7, SMT DEF Interrupt
  <1>8. CASE KillCommands
    BY <1>8, SMT DEF KillCommands, Call
  <1>9. CASE KillServers
    BY <1>9, SMT DEF KillServers
  <1> QED BY <1>1, <1>2, <1>3, <1>4, <1>5, <1>6, <1>7, <1>8, <1>9

LEMMA StepCovered == GInv /\ [Next]_vars => GInv'
  <1> SUFFICES ASSUME GInv, [Next]_vars PROVE GInv'
    OBVIOUS
  <1>1. CASE Kyora
    BY <1>1, MainStep, ServerStep, CommandStep
    DEF Kyora, ShutServerDown
  <1>2. CASE Surroundings
    BY <1>2, MainStep, ServerStep, CommandStep
    DEF Surroundings, AgentCalls, AgentRunsCommand
  <1>3. CASE UNCHANGED vars
    BY <1>3, SMT DEF vars, serverVars, shellVars, cliVars, GInv, Types, ServerCovered,
                     ServersSettled, CommandCovered, Swept
  <1> QED BY <1>1, <1>2, <1>3 DEF Next

(* No process is left in the group of a server that failed to start or was *)
(* shut down, of a command whose call is over, nor of either when          *)
(* `execute` returned or the second Ctrl-C ended a run (main.rs:342), but  *)
(* for commands that were not registered when the groups were killed.      *)
THEOREM NothingIsLeftRunning == Spec => []NothingLeftRunning
  BY InitCovered, StepCovered, CoveredIsEnough, PTL DEF Spec

-----------------------------------------------------------------------------
(* What a server is told, what it is asked to delete, and what it shows.   *)

(* A response that is used, or a request that is given up, is over for     *)
(* kyora; for the server it is over too, or it has been told.              *)
RequestOK(q) ==
    /\ q.state # "none" => ~q.taken /\ ~q.notice
    /\ q.state \in {"answered", "lost"} => ~q.working
    /\ q.state = "none" /\ q.working => q.notice
    /\ ~(q.taken /\ q.notice)

(* A session stays in the slot until it is deleted, and the slot of a      *)
(* client that has closed stays empty.                                     *)
SessionOK(h) ==
    /\ h.closed => ~h.slot
    /\ h.learned /\ h.closed => h.own = "answered" \/ h.delete # "none"
    /\ h.learned /\ ~h.closed => h.slot \/ h.own = "answered"

(* What a listing has seen since its first page was answered, and what is  *)
(* shown when it is over, is what the server offers, or a notification or  *)
(* a permit is left to bring on the next listing.                          *)
ListingOK(at, c, q, t) ==
    LET listing == at = "listing" \/ t.refresh = "listing" IN
    /\ t.refresh # "none" => at \notin {"new", "spawned", "initializing", "listing"}
    /\ listing => t.page # 0
    /\ c = "open" /\ ~t.permit /\ t.notices = 0 =>
         /\ listing /\ (t.page > 1 \/ q.state = "answered") => t.seen = t.offered
         /\ t.refresh = "waiting" /\ ~t.kept => t.shown = t.offered

ClientOK(s) ==
    /\ \A r \in Requesters : RequestOK(req[s][r])
    /\ SessionOK(http[s])
    /\ ListingOK(phase[s], conn[s], req[s]["list"], tools[s])

(* The fields of a request.                                                *)
Fields == {"state", "working", "taken", "notice"}

(* Of the types, the argument needs the fields of the records and that the *)
(* counters are numbers.                                                   *)
Shape(s) ==
    /\ DOMAIN req[s] = Requesters
    /\ \A r \in Requesters : DOMAIN req[s][r] = Fields
    /\ DOMAIN tools[s] = {"refresh", "closed", "permit", "notices", "offered", "shown",
                          "seen", "page", "kept"}
    /\ tools[s].notices \in Nat /\ tools[s].offered \in Nat /\ tools[s].page \in Nat
    /\ DOMAIN http[s] = {"post", "session", "learned", "slot", "closed", "cancel", "own",
                         "delete"}

ClientInv ==
    /\ phase \in [Servers -> Phases]
    /\ DOMAIN conn = Servers /\ DOMAIN req = Servers
    /\ DOMAIN tools = Servers /\ DOMAIN http = Servers
    /\ \A s \in Servers : Shape(s) /\ ClientOK(s)

\* A step of a server, of its tasks or of its callers.
ServerMoves(s) == ServerTasks(s) \/ CallBegins(s) \/ ShutdownBegins(s) \/ ServerSide(s)

LEMMA InitClientInv == Init => ClientInv
  <1> SUFFICES ASSUME Init PROVE ClientInv
    OBVIOUS
  <1> USE DEF Init, ServerInit, NoRequest, Fields
  <1>1. /\ phase \in [Servers -> Phases] /\ DOMAIN conn = Servers /\ DOMAIN req = Servers
        /\ DOMAIN tools = Servers /\ DOMAIN http = Servers
    BY DEF Phases
  <1>2. \A s \in Servers : Shape(s)
    BY DEF Shape
  <1>3. \A s \in Servers : ClientOK(s)
    BY DEF ClientOK, RequestOK, SessionOK, ListingOK, Requesters
  <1> QED BY <1>1, <1>2, <1>3 DEF ClientInv

\* What can happen to a request (server.rs `Connection::request`, `Pending`).
LEMMA RequestMoves ==
  ASSUME NEW q, DOMAIN q = Fields, RequestOK(q)
  PROVE  /\ DOMAIN Abandoned(q) = Fields /\ RequestOK(Abandoned(q)) /\ Abandoned(q).state = "none"
         /\ DOMAIN Cut(q) = Fields /\ RequestOK(Cut(q))
         /\ Cut(q).state = "answered" => q.state = "answered"
         /\ q.state \in {"answered", "lost"} =>
              DOMAIN Taken(q) = Fields /\ RequestOK(Taken(q)) /\ Taken(q).state = "none"
  BY DEF RequestOK, Abandoned, Cut, Taken, Fields

LEMMA SentRequest ==
  ASSUME NEW s
  PROVE  /\ DOMAIN Sent(s) = Fields /\ RequestOK(Sent(s))
         /\ Sent(s).state \in {"sent", "lost"}
  BY DEF RequestOK, Sent, NoRequest, Fields

\* A step of one server keeps its records in shape and leaves the other servers alone.
LEMMA ServerFrame ==
  ASSUME ClientInv, NEW s \in Servers, ServerMoves(s)
  PROVE  /\ phase' \in [Servers -> Phases] /\ DOMAIN conn' = Servers /\ DOMAIN req' = Servers
         /\ DOMAIN tools' = Servers /\ DOMAIN http' = Servers
         /\ Shape(s)'
         /\ \A t \in Servers \ {s} :
              UNCHANGED <<phase[t], conn[t], req[t], tools[t], http[t]>>
  <1> USE DEF ClientInv, Shape, Phases, ClientOK
  <1>1. CASE Spawn(s) \/ Register(s) \/ Refuse(s)
    BY <1>1 DEF Spawn, Register, Refuse
  <1>2. CASE Connect(s)
    BY <1>2 DEF Connect
  <1>3. CASE Initialized(s)
    BY <1>3, RequestMoves, SentRequest DEF Initialized, Requesters, Failed, Answered
  <1>4. CASE Started(s)
    BY <1>4, RequestMoves, SentRequest DEF Started, Requesters, Failed, Answered
  <1>5. CASE StartFails(s)
    BY <1>5, RequestMoves, SentRequest DEF StartFails, Requesters, Failed, Answered,
       GivesUp
  <1>6. CASE Kill(s) \/ DropProcess(s)
    BY <1>6 DEF Kill, DropProcess
  <1>7. CASE NextPage(s)
    BY <1>7, RequestMoves, SentRequest DEF NextPage, Requesters, Failed, Answered
  <1>8. CASE RefreshBegins(s)
    BY <1>8, RequestMoves, SentRequest DEF RefreshBegins, Requesters, Failed, Answered
  <1>9. CASE RefreshListed(s)
    BY <1>9, RequestMoves, SentRequest DEF RefreshListed, Requesters, Failed, Answered
  <1>10. CASE RefreshFails(s)
    BY <1>10, RequestMoves, SentRequest DEF RefreshFails, Requesters, Failed, Answered
  <1>11. CASE ToolListChanged(s) \/ RefreshEnds(s) \/ ShutdownBegins(s)
    BY <1>11 DEF ToolListChanged, RefreshEnds, ShutdownBegins
  <1>12. CASE CallBegins(s)
    BY <1>12, RequestMoves, SentRequest DEF CallBegins, Requesters, Failed, Answered
  <1>13. CASE CallReturns(s)
    BY <1>13, RequestMoves, SentRequest DEF CallReturns, Requesters, Failed, Answered
  <1>14. CASE CallStops(s) \/ CallDropped(s)
    BY <1>14, RequestMoves, SentRequest DEF CallStops, CallDropped, Requesters, Failed,
       Answered
  <1>15. CASE ServiceCloses(s)
    BY <1>15, RequestMoves, SentRequest DEF ServiceCloses, Requesters, Failed, Answered
  <1>16. CASE ChildExited(s) \/ Terminate(s) \/ KillStubborn(s)
    BY <1>16 DEF ChildExited, Terminate, KillStubborn
  <1>17. CASE Receive(s) \/ PostDropped(s) \/ Remember(s) \/ Reply(s) \/ NoReply(s)
    BY <1>17 DEF Receive, PostDropped, Remember, Reply, NoReply
  <1>18. CASE HttpCancel(s) \/ CloseSlot(s) \/ DeleteEnds(s) \/ DeleteAwaited(s)
    BY <1>18 DEF HttpCancel, CloseSlot, DeleteEnds, DeleteAwaited
  <1>19. CASE OwnDeleteAnswered(s) \/ OwnDeleteDropped(s) \/ AnswersInitialize(s)
    BY <1>19 DEF OwnDeleteAnswered, OwnDeleteDropped, AnswersInitialize
  <1>20. CASE ChangesTools(s) \/ Exits(s)
    BY <1>20 DEF ChangesTools, Exits
  <1>21. CASE ConnectionEnds(s)
    BY <1>21, RequestMoves, SentRequest DEF ConnectionEnds, Requesters, Failed, Answered
  <1>22. ASSUME NEW r \in Requesters, Answers(s, r) \/ Obeys(s, r)
        PROVE  /\ phase' \in [Servers -> Phases] /\ DOMAIN conn' = Servers /\ DOMAIN req' = Servers
               /\ DOMAIN tools' = Servers /\ DOMAIN http' = Servers
               /\ Shape(s)'
               /\ \A t \in Servers \ {s} :
                    UNCHANGED <<phase[t], conn[t], req[t], tools[t], http[t]>>
    BY <1>22 DEF Answers, Obeys, Fields
  <1> QED BY <1>1, <1>2, <1>3, <1>4, <1>5, <1>6, <1>7, <1>8, <1>9, <1>10, <1>11, <1>12,
    <1>13, <1>14, <1>15, <1>16, <1>17, <1>18, <1>19, <1>20, <1>21, <1>22
    DEF ServerMoves, ServerTasks, Starting, Refreshing, Calling, Stopping, Cleaning, ServerSide

\* What each step means for the requests, the session and the listing of the server.
LEMMA ServerKept ==
  ASSUME ClientInv, NEW s \in Servers, ServerMoves(s)
  PROVE  ClientOK(s)'
  <1> USE DEF ClientInv, Shape, Phases, ClientOK, SessionOK, ListingOK, Listing, Answered
  <1>1. CASE Spawn(s) \/ Register(s) \/ Refuse(s)
    BY <1>1 DEF Spawn, Register, Refuse
  <1>2. CASE Connect(s)
    BY <1>2 DEF Connect
  <1>3. CASE Initialized(s)
    BY <1>3, RequestMoves, SentRequest DEF Initialized, Requesters, Failed, Stoppable
  <1>4. CASE Started(s)
    BY <1>4, RequestMoves, SentRequest DEF Started, Requesters, Failed, Stoppable
  <1>5. CASE StartFails(s)
    BY <1>5, RequestMoves, SentRequest DEF StartFails, Requesters, Failed, Stoppable,
       GivesUp
  <1>6. CASE Kill(s) \/ DropProcess(s)
    BY <1>6 DEF Kill, DropProcess
  <1>7. CASE NextPage(s)
    BY <1>7, RequestMoves, SentRequest DEF NextPage, Requesters, Failed, Stoppable
  <1>8. CASE RefreshBegins(s)
    BY <1>8, RequestMoves, SentRequest DEF RefreshBegins, Requesters, Failed, Stoppable
  <1>9. CASE RefreshListed(s)
    BY <1>9, RequestMoves, SentRequest DEF RefreshListed, Requesters, Failed, Stoppable
  <1>10. CASE RefreshFails(s)
    BY <1>10, RequestMoves, SentRequest DEF RefreshFails, Requesters, Failed, Stoppable
  <1>11. CASE ToolListChanged(s) \/ RefreshEnds(s) \/ ShutdownBegins(s)
    BY <1>11 DEF ToolListChanged, RefreshEnds, ShutdownBegins
  <1>12. CASE CallBegins(s)
    BY <1>12, RequestMoves, SentRequest DEF CallBegins, Requesters, Failed, Stoppable
  <1>13. CASE CallReturns(s)
    BY <1>13, RequestMoves, SentRequest DEF CallReturns, Requesters, Failed, Stoppable
  <1>14. CASE CallStops(s) \/ CallDropped(s)
    BY <1>14, RequestMoves, SentRequest DEF CallStops, CallDropped, Requesters, Failed,
       Stoppable
  <1>15. CASE ServiceCloses(s)
    BY <1>15, RequestMoves, SentRequest DEF ServiceCloses, Requesters, Failed, Stoppable
  <1>16. CASE ChildExited(s) \/ Terminate(s) \/ KillStubborn(s)
    BY <1>16 DEF ChildExited, Terminate, KillStubborn
  <1>17. CASE Receive(s) \/ PostDropped(s) \/ Remember(s) \/ Reply(s) \/ NoReply(s)
    BY <1>17 DEF Receive, PostDropped, Remember, Reply, NoReply
  <1>18. CASE HttpCancel(s) \/ CloseSlot(s) \/ DeleteEnds(s) \/ DeleteAwaited(s)
    BY <1>18 DEF HttpCancel, CloseSlot, DeleteEnds, DeleteAwaited
  <1>19. CASE OwnDeleteAnswered(s) \/ OwnDeleteDropped(s) \/ AnswersInitialize(s)
    BY <1>19 DEF OwnDeleteAnswered, OwnDeleteDropped, AnswersInitialize
  <1>20. CASE ChangesTools(s) \/ Exits(s)
    BY <1>20 DEF ChangesTools, Exits
  <1>21. CASE ConnectionEnds(s)
    BY <1>21, RequestMoves, SentRequest DEF ConnectionEnds, Requesters, Failed,
       Stoppable
  <1>22. ASSUME NEW r \in Requesters, Answers(s, r) \/ Obeys(s, r)
        PROVE  ClientOK(s)'
    BY <1>22 DEF Answers, Obeys, Requesters, RequestOK, Fields
  <1> QED BY <1>1, <1>2, <1>3, <1>4, <1>5, <1>6, <1>7, <1>8, <1>9, <1>10, <1>11, <1>12,
    <1>13, <1>14, <1>15, <1>16, <1>17, <1>18, <1>19, <1>20, <1>21, <1>22
    DEF ServerMoves, ServerTasks, Starting, Refreshing, Calling, Stopping, Cleaning, ServerSide

LEMMA ServerStepKeeps ==
  ASSUME ClientInv, NEW s \in Servers, ServerMoves(s)
  PROVE  ClientInv'
  <1>1. \A t \in Servers \ {s} : Shape(t)' /\ ClientOK(t)'
    BY ServerFrame DEF ClientInv, Shape, ClientOK
  <1> QED BY <1>1, ServerFrame, ServerKept DEF ClientInv

LEMMA ClientStep == ClientInv /\ [Next]_vars => ClientInv'
  <1> SUFFICES ASSUME ClientInv, [Next]_vars PROVE ClientInv'
    OBVIOUS
  <1>1. ASSUME NEW s \in Servers, ServerMoves(s) PROVE ClientInv'
    BY <1>1, ServerStepKeeps
  <1>2. CASE UNCHANGED <<phase, conn, req, tools, http>>
    BY <1>2 DEF ClientInv, Shape, ClientOK
  <1>3. CASE UNCHANGED serverVars
    BY <1>2, <1>3 DEF serverVars
  <1>4. CASE Interrupt \/ KillServers
    BY <1>2, <1>4 DEF Interrupt, KillServers
  <1>5. CASE Kyora
    BY <1>1, <1>3, <1>4, <1>5 DEF Kyora, ServersStarted, UsageError, RunBegins, RunEnds, Flushed,
       RendererEnds, Rendered, Return, Exit, ShutServerDown, ServerMoves
  <1>6. CASE Surroundings
    BY <1>1, <1>3, <1>4, <1>6 DEF Surroundings, KillCommands, AgentCalls, AgentRunsCommand, ServerMoves
  <1> QED BY <1>3, <1>5, <1>6 DEF Next, vars

(* The invariant of the servers' requests, sessions and listings.          *)
THEOREM ClientInvariant == Spec => []ClientInv
  BY InitClientInv, ClientStep, PTL DEF Spec

(* A session the client was told of is not left behind by a client that    *)
(* has closed, also when the session arrives while it closes (http.rs      *)
(* `remember`, `close`).                                                   *)
THEOREM NoSessionIsLeft == Spec => []SessionsAreDeleted
  <1>1. ClientInv => SessionsAreDeleted
    BY DEF ClientInv, ClientOK, SessionOK, SessionsAreDeleted
  <1> QED BY <1>1, ClientInvariant, PTL

(* A server is told of every request that is given up while it works on    *)
(* it, and never to cancel one whose response was used (server.rs          *)
(* `Pending`).                                                             *)
THEOREM AbandonedRequestsAreTold == Spec => []AbandonedRequestsAreCancelled
  <1>1. ClientInv => AbandonedRequestsAreCancelled
    BY DEF ClientInv, ClientOK, RequestOK, AbandonedRequestsAreCancelled
  <1> QED BY <1>1, ClientInvariant, PTL

(* No change of the tools falls between two listings, nor between the      *)
(* first one and the start of the refresh task (server.rs `refresh`).      *)
THEOREM NoChangeIsMissed == Spec => []QuietListingIsCurrent
  <1>1. ClientInv => QuietListingIsCurrent
    BY DEF ClientInv, ClientOK, ListingOK, QuietListingIsCurrent
  <1> QED BY <1>1, ClientInvariant, PTL
=============================================================================
