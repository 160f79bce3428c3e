------------------------------ MODULE TraceSink ------------------------------
(***************************************************************************)
(* The durable trace (core/src/trace.rs TraceSink, core/src/session.rs):   *)
(* emitters and callers of finish, the bounded command channel, and its    *)
(* two writers.  A session file takes one record at a time and answers     *)
(* when it is flushed; a store given by the caller answers in any order.   *)
(*                                                                         *)
(* A line holds the events whose bytes are in it.  A write that fails, or  *)
(* a crash, leaves a line without its end.  The live broadcast, which      *)
(* promises nothing, is left out.                                          *)
(***************************************************************************)
EXTENDS Integers, Sequences, Functions

CONSTANTS
  Events,            \* persistent events, each emitted once
  Finish,            \* the command of finish
  Finishers,         \* callers of finish
  WriterCapacity     \* defaults::WRITER_CAPACITY

ASSUME TraceAssumption == Finish \notin Events /\ WriterCapacity \in Nat \ {0}

VARIABLES
  kind,        \* "file" or "store"
  emitting,    \* events whose emit waits for room in the channel
  answer,      \* what emit returned
  queue,       \* the channel
  writer,      \* the writer's phase
  current,     \* the event the writer has in hand
  lines,       \* the file, or the records handed to the store
  acks,        \* events whose storage has not answered
  failed,      \* the failure latch
  handle,      \* the writer's join handle is still there
  finisher,    \* where each caller of finish is
  crashed      \* the process died

answerVars == <<emitting, answer>>
writerVars == <<writer, current, lines, acks, failed>>
finishVars == <<handle, finisher>>
sinkVars == <<kind, answerVars, queue, writerVars, finishVars, crashed>>

Line == [events : Seq(Events), ended : BOOLEAN]
Commands == Events \cup {Finish}

Answered(e, what) == answer' = [answer EXCEPT ![e] = what]
Unended == lines # <<>> /\ ~lines[Len(lines)].ended
\* Bytes go to the end of the file: into its last line, if that has not ended.
Written(e, ended) ==
  IF Unended
  THEN [lines EXCEPT ![Len(lines)] = [events |-> Append(@.events, e), ended |-> ended]]
  ELSE Append(lines, [events |-> <<e>>, ended |-> ended])

-----------------------------------------------------------------------------
SinkInit ==
  /\ kind \in {"file", "store"}
  /\ emitting = {} /\ answer = [e \in Events |-> "none"]
  /\ queue = <<>>
  /\ writer = "idle" /\ current = Finish /\ lines = <<>> /\ acks = {} /\ failed = FALSE
  /\ handle = TRUE /\ finisher = [f \in Finishers |-> "new"]
  /\ crashed = FALSE

\* Where an event is on its way: in emit, in the channel, or with the writer.
UnderWay(e) == e \in emitting \/ e \in Range(queue) \/ e = current \/ e \in acks

\* TraceSink::emit: wait for room in the channel; a channel without a reader fails.
Emit(e) ==
  /\ answer[e] = "none" /\ ~UnderWay(e)
  /\ IF writer = "ended"
     THEN Answered(e, "error") /\ UNCHANGED emitting
     ELSE emitting' = emitting \cup {e} /\ UNCHANGED answer
  /\ UNCHANGED <<kind, queue, writerVars, finishVars, crashed>>

\* The channel has room for the command.
Enqueue(e) ==
  /\ e \in emitting
  /\ Len(queue) < WriterCapacity
  /\ emitting' = emitting \ {e}
  /\ queue' = Append(queue, e)
  /\ UNCHANGED <<kind, answer, writerVars, finishVars, crashed>>

-----------------------------------------------------------------------------
\* The writer takes the next command.
Takes(c) ==
  /\ writer = "idle"
  /\ queue # <<>> /\ Head(queue) = c
  /\ queue' = Tail(queue)

\* After a failure nothing else is stored.
RefuseLatched(e) ==
  /\ Takes(e)
  /\ failed
  /\ Answered(e, "error")
  /\ UNCHANGED <<kind, emitting, writerVars, finishVars, crashed>>

\* Faulty variant: the session file is written to after a failure.
StartWritingAnyway(e) ==
  /\ kind = "file" /\ Takes(e)
  /\ lines' = Written(e, FALSE)
  /\ writer' = "writing" /\ current' = e
  /\ UNCHANGED <<kind, answerVars, acks, failed, finishVars, crashed>>

\* write_record: the bytes of a record, which may fail at once or after some of them.
StartWriting(e) ==
  /\ kind = "file" /\ Takes(e) /\ ~failed
  /\ lines' = Written(e, FALSE)
  /\ writer' = "writing" /\ current' = e
  /\ UNCHANGED <<kind, answerVars, acks, failed, finishVars, crashed>>
FailAtOnce(e) ==
  /\ kind = "file" /\ Takes(e) /\ ~failed
  /\ failed' = TRUE
  /\ Answered(e, "error")
  /\ UNCHANGED <<kind, emitting, writer, current, lines, acks, finishVars, crashed>>
FailWriting ==
  /\ writer = "writing"
  /\ failed' = TRUE
  /\ Answered(current, "error")
  /\ writer' = "idle" /\ current' = Finish
  /\ UNCHANGED <<kind, emitting, queue, lines, acks, finishVars, crashed>>
\* The line is ended and flushed, and then the event is acknowledged.
EndLine ==
  /\ writer = "writing"
  /\ lines' = [lines EXCEPT ![Len(lines)] = [events |-> @.events, ended |-> TRUE]]
  /\ writer' = "written"
  /\ UNCHANGED <<kind, answerVars, queue, current, acks, failed, finishVars, crashed>>
AcknowledgeLine ==
  /\ writer = "written"
  /\ Answered(current, "ok")
  /\ writer' = "idle" /\ current' = Finish
  /\ UNCHANGED <<kind, emitting, queue, lines, acks, failed, finishVars, crashed>>

\* Faulty variant: the latch is not asked before a record is handed over.
HandOverAnyway(e) ==
  /\ kind = "store" /\ Takes(e)
  /\ writer' = "handing" /\ current' = e
  /\ UNCHANGED <<kind, answerVars, lines, acks, failed, finishVars, crashed>>
\* The latch is asked, and then the record is handed to the caller's store: another one
\* may fail in between.  The store answers later, in any order.
HandOver(e) ==
  /\ kind = "store" /\ Takes(e) /\ ~failed
  /\ writer' = "handing" /\ current' = e
  /\ UNCHANGED <<kind, answerVars, lines, acks, failed, finishVars, crashed>>
CallStore ==
  /\ writer = "handing"
  /\ lines' = Append(lines, [events |-> <<current>>, ended |-> TRUE])
  /\ acks' = acks \cup {current}
  /\ writer' = "idle" /\ current' = Finish
  /\ UNCHANGED <<kind, answerVars, queue, failed, finishVars, crashed>>
StoreAnswers(e, what) ==
  /\ e \in acks
  /\ acks' = acks \ {e}
  /\ failed' = (failed \/ what = "error")
  /\ Answered(e, what)
  /\ UNCHANGED <<kind, emitting, queue, writer, current, lines, finishVars, crashed>>

\* The finish command: no more commands, but every acknowledgement is awaited.
StartDraining ==
  /\ Takes(Finish)
  /\ writer' = "draining"
  /\ UNCHANGED <<kind, answerVars, current, lines, acks, failed, finishVars, crashed>>

\* The writer tells finish how it went and drops the channel: the emits still waiting
\* for room and the events behind the finish command fail.
Drop ==
  /\ writer' = "ended"
  /\ emitting' = {} /\ queue' = <<>>
  /\ answer' = [e \in Events |-> IF e \in emitting \cup Range(queue) THEN "error" ELSE answer[e]]
  /\ finisher' = [f \in Finishers |->
       IF finisher[f] = "waiting" THEN IF failed THEN "error" ELSE "ok" ELSE finisher[f]]
  /\ UNCHANGED <<kind, current, lines, acks, failed, handle, crashed>>
\* Faulty variants: acknowledgements are not awaited; the channel outlives its reader.
EndEarly == writer = "draining" /\ Drop
EndOpen ==
  /\ writer = "draining" /\ acks = {}
  /\ writer' = "ended"
  /\ finisher' = [f \in Finishers |->
       IF finisher[f] = "waiting" THEN IF failed THEN "error" ELSE "ok" ELSE finisher[f]]
  /\ UNCHANGED <<kind, answerVars, queue, current, lines, acks, failed, handle, crashed>>
End == writer = "draining" /\ acks = {} /\ Drop

-----------------------------------------------------------------------------
\* TraceSink::finish holds an asynchronous mutex until it returns; the first caller
\* takes the join handle and all others return without a question.
Finishing == {f \in Finishers : finisher[f] \in {"sending", "waiting"}}
CallFinish(f) ==
  /\ finisher[f] = "new" /\ Finishing = {}
  /\ finisher' = [finisher EXCEPT ![f] = IF handle THEN "sending" ELSE "late"]
  /\ handle' = FALSE
  /\ UNCHANGED <<kind, answerVars, queue, writerVars, crashed>>
SendFinish(f) ==
  /\ finisher[f] = "sending"
  /\ Len(queue) < WriterCapacity
  /\ queue' = Append(queue, Finish)
  /\ finisher' = [finisher EXCEPT ![f] = "waiting"]
  /\ UNCHANGED <<kind, answerVars, writerVars, handle, crashed>>
\* The caller may stop waiting, before or after its command is sent.
DropFinish(f) ==
  /\ f \in Finishing
  /\ finisher' = [finisher EXCEPT ![f] = "dropped"]
  /\ UNCHANGED <<kind, answerVars, queue, writerVars, handle, crashed>>

\* The process dies; what is in a session file stays there.
Crash ==
  /\ kind = "file"
  /\ crashed' = TRUE
  /\ UNCHANGED <<kind, answerVars, queue, writerVars, finishVars>>

WriterStep ==
  \/ \E e \in Events : RefuseLatched(e) \/ StartWriting(e) \/ FailAtOnce(e) \/ HandOver(e)
  \/ FailWriting \/ EndLine \/ AcknowledgeLine \/ CallStore \/ StartDraining \/ End
StoreStep(e) == \E what \in {"ok", "error"} : StoreAnswers(e, what)

SinkNext ==
  /\ ~crashed
  /\ \/ \E e \in Events : Emit(e) \/ Enqueue(e) \/ StoreStep(e)
     \/ \E f \in Finishers : CallFinish(f) \/ SendFinish(f) \/ DropFinish(f)
     \/ WriterStep
     \/ Crash

SinkSpec == SinkInit /\ [][SinkNext]_sinkVars

\* The writer task runs, the channel serves those who wait, and a store answers.
FairSink ==
  /\ SinkSpec
  /\ WF_sinkVars(~crashed /\ WriterStep)
  /\ \A e \in Events :
       SF_sinkVars(~crashed /\ Enqueue(e)) /\ WF_sinkVars(~crashed /\ StoreStep(e))

-----------------------------------------------------------------------------
SinkTypeOK ==
  /\ kind \in {"file", "store"} /\ crashed \in BOOLEAN /\ failed \in BOOLEAN
  /\ emitting \subseteq Events /\ acks \subseteq Events
  /\ answer \in [Events -> {"none", "ok", "error"}]
  /\ queue \in Seq(Commands) /\ Len(queue) <= WriterCapacity
  /\ writer \in {"idle", "writing", "written", "handing", "draining", "ended"}
  /\ current \in Commands
  /\ lines \in Seq(Line)
  /\ handle \in BOOLEAN
  /\ finisher \in [Finishers -> {"new", "sending", "waiting", "ok", "error", "late", "dropped"}]

\* The records that are complete, in order: all lines but a last one without its end.
Complete == IF Unended THEN Len(lines) - 1 ELSE Len(lines)
Stored == [i \in 1 .. Complete |-> lines[i].events[1]]

\* session::list reads a session at any time, also after a crash or a failed write:
\* every complete line is one record, and only the last line may be incomplete.
SessionReadable ==
  \A i \in DOMAIN lines :
    /\ lines[i].ended => Len(lines[i].events) = 1
    /\ ~lines[i].ended => i = Len(lines)

\* The finish that took the join handle returns after every acknowledgement and tells
\* whether one of them failed; one that finds the handle gone returns after the writer
\* ended, unless the caller that took it stopped waiting.
FinishTells ==
  \A f \in Finishers :
    /\ finisher[f] \in {"ok", "error"} =>
         /\ failed = (finisher[f] = "error")
         /\ \A e \in Range(Stored) : answer[e] # "none"
    /\ finisher[f] = "late" =>
         writer = "ended" \/ \E g \in Finishers : finisher[g] = "dropped"

\* Every emit returns: with its acknowledgement, with the latched failure, or with an
\* error because the writer ended while it waited.
EmitReturns ==
  \A e \in Events : UnderWay(e) ~> answer[e] # "none" \/ crashed

\* Both writers keep the contract of a durable trace.
Storing == IF writer \in {"writing", "handing"} THEN {current} ELSE {}
Contract == INSTANCE TraceLog WITH log <- Stored, storing <- Storing, closed <- writer = "ended"
KeepsContract == Contract!LogSpec
=============================================================================
