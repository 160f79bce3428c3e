------------------------------- MODULE TraceLog -------------------------------
(***************************************************************************)
(* What a durable trace promises those who emit events, whoever stores     *)
(* them: the contract stated on TraceSink (core/src/trace.rs) that a       *)
(* session file and a caller's store both have to keep.                    *)
(***************************************************************************)
EXTENDS Sequences, Functions

CONSTANT Events

VARIABLES
  log,        \* events handed to the storage, in sequence order
  storing,    \* the event that is being stored
  answer,     \* what emit returned for each event
  failed,     \* the storage failed once
  closed      \* the writer is gone

logVars == <<log, storing, answer, failed, closed>>

LogInit ==
  /\ log = <<>>
  /\ storing = {}
  /\ answer = [e \in Events |-> "none"]
  /\ failed = FALSE
  /\ closed = FALSE

\* An event is stored once, one at a time, and none that comes after a failure.
Begin(e) ==
  /\ ~failed /\ ~closed
  /\ storing = {}
  /\ answer[e] = "none" /\ e \notin Range(log)
  /\ storing' = {e}
  /\ UNCHANGED <<log, answer, failed, closed>>
Store(e) ==
  /\ storing = {e}
  /\ log' = Append(log, e)
  /\ storing' = {}
  /\ UNCHANGED <<answer, failed, closed>>

\* Only a stored event is acknowledged, in any order.
Acknowledge(e) ==
  /\ answer[e] = "none" /\ e \in Range(log)
  /\ answer' = [answer EXCEPT ![e] = "ok"]
  /\ UNCHANGED <<log, storing, failed, closed>>

\* An event is refused because storing failed, or failed before.
Refuse(e) ==
  /\ answer[e] = "none"
  /\ answer' = [answer EXCEPT ![e] = "error"]
  /\ storing' = storing \ {e}
  /\ failed' = TRUE
  /\ UNCHANGED <<log, closed>>

\* The writer ends with nothing under way; what comes later is refused.
Close ==
  /\ ~closed /\ storing = {}
  /\ \A e \in Range(log) : answer[e] # "none"
  /\ closed' = TRUE
  /\ \E late \in SUBSET (Events \ Range(log)) :
       answer' = [e \in Events |-> IF e \in late /\ answer[e] = "none" THEN "error" ELSE answer[e]]
  /\ UNCHANGED <<log, storing, failed>>
RefuseLate(e) ==
  /\ closed /\ answer[e] = "none" /\ e \notin Range(log)
  /\ answer' = [answer EXCEPT ![e] = "error"]
  /\ UNCHANGED <<log, storing, failed, closed>>

LogNext ==
  \/ \E e \in Events : Begin(e) \/ Store(e) \/ Acknowledge(e) \/ Refuse(e) \/ RefuseLate(e)
  \/ Close

LogSpec == LogInit /\ [][LogNext]_logVars
=============================================================================
