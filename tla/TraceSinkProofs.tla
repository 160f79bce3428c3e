--------------------------- MODULE TraceSinkProofs ---------------------------
(***************************************************************************)
(* Theorems about the trace, for every set of events and any capacity: a   *)
(* session can always be read, finish tells the truth, both writers        *)
(* implement the contract TraceLog, and nobody waits for ever for want of  *)
(* a step that could be taken.                                             *)
(***************************************************************************)
EXTENDS TraceSink, TLAPS

\* An event is in one place, and nothing has been answered while it is on its way.
PlacesOK ==
  /\ \A e \in Events : UnderWay(e) => answer[e] = "none"
  /\ \A e \in emitting : e \notin Range(queue) /\ e # current /\ e \notin acks
  /\ \A e \in Events : e \in Range(queue) => e # current /\ e \notin acks
  /\ \A i, j \in DOMAIN queue : queue[i] = queue[j] /\ queue[i] \in Events => i = j

\* Each writer uses its own part of the state.
WritersOK ==
  /\ kind = "file" => acks = {}
  /\ kind = "store" => writer \notin {"writing", "written"} /\ ~Unended
  /\ writer = "handing" => kind = "store"
  /\ current \in Events <=> writer \in {"writing", "written", "handing"}
  /\ current \notin acks

\* What the lines hold; a line without its end is being written, or its write failed.
LinesOK ==
  /\ \A i \in DOMAIN lines : lines[i].events = <<lines[i].events[1]>> /\ lines[i].events[1] \in Events
  /\ \A i \in DOMAIN lines : ~lines[i].ended => i = Len(lines)
  /\ Unended => writer = "writing" \/ failed
  /\ writer = "writing" => ~failed /\ Unended /\ lines[Len(lines)].events[1] = current
  /\ writer = "written" => ~failed /\ lines # <<>> /\ ~Unended
                             /\ lines[Len(lines)].events[1] = current

\* A stored event has been answered or will be, and only a stored one is waited for.
StoredOK ==
  /\ \A e \in Range(Stored) :
       answer[e] # "none" \/ e \in acks \/ (e = current /\ writer = "written")
  /\ acks \subseteq Range(Stored)

\* A writer that has ended left nothing behind, and finish knows how it went.
EndOK ==
  /\ writer = "ended" => acks = {} /\ emitting = {} /\ \A e \in Events : e \notin Range(queue)
  /\ \A f \in Finishers :
       /\ finisher[f] \in {"ok", "error"} => writer = "ended" /\ failed = (finisher[f] = "error")
       /\ finisher[f] = "late" =>
            writer = "ended" \/ \E g \in Finishers : finisher[g] = "dropped"
  /\ ~handle => \E g \in Finishers :
       finisher[g] \in {"sending", "waiting", "ok", "error", "dropped"}

SinkInv == SinkTypeOK /\ PlacesOK /\ WritersOK /\ LinesOK /\ StoredOK /\ EndOK

-----------------------------------------------------------------------------
\* The channel is a sequence: what appending and taking do to its members.
LEMMA AppendMembers ==
  ASSUME NEW S, NEW s \in Seq(S), NEW c \in S
  PROVE  Range(Append(s, c)) = Range(s) \cup {c}
  <1>1. Append(s, c) \in Seq(S) /\ DOMAIN Append(s, c) = 1 .. Len(s) + 1
        /\ \A i \in 1 .. Len(s) : Append(s, c)[i] = s[i]
        /\ Append(s, c)[Len(s) + 1] = c
    OBVIOUS
  <1>2. DOMAIN s = 1 .. Len(s) /\ Len(s) \in Nat  OBVIOUS
  <1> QED  BY <1>1, <1>2 DEF Range

LEMMA TailMembers ==
  ASSUME NEW S, NEW s \in Seq(S), s # <<>>
  PROVE  /\ Head(s) \in Range(s) /\ Head(s) \in S
         /\ Tail(s) \in Seq(S) /\ Len(Tail(s)) = Len(s) - 1
         /\ \A i \in DOMAIN Tail(s) : i + 1 \in DOMAIN s /\ Tail(s)[i] = s[i + 1]
         /\ Range(Tail(s)) \subseteq Range(s)
  <1>1. DOMAIN s = 1 .. Len(s) /\ Len(s) \in Nat \ {0}  OBVIOUS
  <1>2. Tail(s) \in Seq(S) /\ Len(Tail(s)) = Len(s) - 1  BY <1>1
  <1>3. \A i \in DOMAIN Tail(s) : i + 1 \in DOMAIN s /\ Tail(s)[i] = s[i + 1]
    BY <1>1, <1>2
  <1>4. Head(s) = s[1]  OBVIOUS
  <1> QED  BY <1>1, <1>2, <1>3, <1>4 DEF Range

\* Taking the first command leaves it nowhere in the channel, if it is an event.
LEMMA TakenOnce ==
  ASSUME SinkTypeOK, PlacesOK, NEW c \in Commands, Takes(c)
  PROVE  /\ c \in Range(queue) /\ queue' \in Seq(Commands) /\ Len(queue') <= WriterCapacity
         /\ Range(queue') \subseteq Range(queue)
         /\ c \in Events => c \notin Range(queue')
         /\ \A i, j \in DOMAIN queue' : queue'[i] = queue'[j] /\ queue'[i] \in Events => i = j
  <1>1. queue \in Seq(Commands) /\ Len(queue) <= WriterCapacity /\ queue # <<>>
        /\ queue' = Tail(queue) /\ c = Head(queue) /\ c = queue[1]
    BY DEF SinkTypeOK, Takes
  <1>2. /\ c \in Range(queue) /\ queue' \in Seq(Commands) /\ Len(queue') = Len(queue) - 1
        /\ \A i \in DOMAIN queue' : i + 1 \in DOMAIN queue /\ queue'[i] = queue[i + 1]
        /\ Range(queue') \subseteq Range(queue)
    BY <1>1, TailMembers
  <1>3. DOMAIN queue = 1 .. Len(queue) /\ DOMAIN queue' = 1 .. Len(queue')
        /\ Len(queue) \in Nat /\ Len(queue') \in Nat
    BY <1>1, <1>2
  <1>4. \A i, j \in DOMAIN queue : queue[i] = queue[j] /\ queue[i] \in Events => i = j
    BY DEF PlacesOK
  <1>5. ASSUME c \in Events, c \in Range(queue')  PROVE FALSE
    <2>1. PICK i \in DOMAIN queue' : queue'[i] = c  BY <1>5 DEF Range
    <2>2. queue[i + 1] = queue[1] /\ i + 1 \in DOMAIN queue /\ 1 \in DOMAIN queue
      BY <2>1, <1>1, <1>2, <1>3
    <2>3. i + 1 = 1  BY <2>2, <1>4, <1>1, <1>5
    <2> QED  BY <2>1, <2>3, <1>3
  <1>6. ASSUME NEW i \in DOMAIN queue', NEW j \in DOMAIN queue',
               queue'[i] = queue'[j], queue'[i] \in Events
        PROVE  i = j
    <2>1. i + 1 = j + 1  BY <1>2, <1>4, <1>6
    <2> QED  BY <2>1, <1>3
  <1>7. Len(queue') <= WriterCapacity  BY <1>1, <1>2, <1>3, TraceAssumption
  <1> QED  BY <1>2, <1>5, <1>6, <1>7

\* What the writer's steps do to the lines and to the stored events.
LEMMA WritingStarts ==
  ASSUME SinkTypeOK, LinesOK, NEW e \in Events, StartWriting(e)
  PROVE  /\ ~Unended /\ lines' \in Seq(Line) /\ Len(lines') = Len(lines) + 1
         /\ \A i \in 1 .. Len(lines) : lines'[i] = lines[i]
         /\ lines'[Len(lines) + 1] = [events |-> <<e>>, ended |-> FALSE]
         /\ Unended' /\ Stored' = Stored
  <1>1. ~Unended  BY DEF StartWriting, Takes, LinesOK
  <1>2. lines' = Append(lines, [events |-> <<e>>, ended |-> FALSE])
    BY <1>1 DEF StartWriting, Written
  <1>3. lines \in Seq(Line) /\ Len(lines) \in Nat  BY DEF SinkTypeOK
  <1>4. [events |-> <<e>>, ended |-> FALSE] \in Line  BY DEF Line
  <1>5. /\ lines' \in Seq(Line) /\ Len(lines') = Len(lines) + 1
        /\ \A i \in 1 .. Len(lines) : lines'[i] = lines[i]
        /\ lines'[Len(lines) + 1] = [events |-> <<e>>, ended |-> FALSE]
    BY <1>2, <1>3, <1>4
  <1>6. Unended'  BY <1>3, <1>5 DEF Unended
  <1>7. Complete = Len(lines) /\ Complete' = Len(lines)
    BY <1>1, <1>3, <1>5, <1>6 DEF Complete
  <1>8. Stored' = Stored  BY <1>5, <1>7 DEF Stored
  <1> QED  BY <1>1, <1>5, <1>6, <1>8

LEMMA LineEnds ==
  ASSUME SinkTypeOK, LinesOK, EndLine
  PROVE  /\ lines' \in Seq(Line) /\ Len(lines') = Len(lines) /\ lines # <<>> /\ Len(lines) \in Nat \ {0}
         /\ \A i \in 1 .. Len(lines) : lines'[i].events = lines[i].events
         /\ \A i \in 1 .. Len(lines) : i # Len(lines) => lines'[i] = lines[i]
         /\ lines'[Len(lines)].ended = TRUE /\ ~Unended'
         /\ Stored' = Append(Stored, current)
  <1>1. Unended /\ lines[Len(lines)].events[1] = current  BY DEF EndLine, LinesOK
  <1>2. lines \in Seq(Line) /\ Len(lines) \in Nat \ {0} /\ lines # <<>>
        /\ DOMAIN lines = 1 .. Len(lines)
    BY <1>1 DEF SinkTypeOK, Unended
  <1> DEFINE last == lines[Len(lines)]
             whole == [events |-> last.events, ended |-> TRUE]
  <1>3. last \in Line  BY <1>2
  <1>4. whole \in Line
    <2>1. ASSUME NEW line \in Line  PROVE line.events \in Seq(Events)  BY <2>1 DEF Line
    <2> HIDE DEF last
    <2> QED  BY <1>3, <2>1 DEF Line
  <1>5. lines' = [lines EXCEPT ![Len(lines)] = whole]  BY DEF EndLine
  <1> HIDE DEF whole
  <1>6. /\ lines' \in Seq(Line) /\ Len(lines') = Len(lines)
        /\ \A i \in 1 .. Len(lines) : i # Len(lines) => lines'[i] = lines[i]
        /\ lines'[Len(lines)] = whole
    <2> HIDE DEF last
    <2>1. lines \in [1 .. Len(lines) -> Line]  BY <1>2
    <2>2. lines' \in [1 .. Len(lines) -> Line]  BY <2>1, <1>4, <1>5
    <2>3. lines' \in Seq(Line) /\ Len(lines') = Len(lines)  BY <2>2, <1>2
    <2>4. \A i \in 1 .. Len(lines) : i # Len(lines) => lines'[i] = lines[i]  BY <2>1, <1>5
    <2>5. lines'[Len(lines)] = whole  BY <2>1, <1>2, <1>5
    <2> QED  BY <2>3, <2>4, <2>5
  <1> USE DEF whole
  <1>7. ~Unended'  BY <1>5, <1>6 DEF Unended
  <1>8. \A i \in 1 .. Len(lines) : lines'[i].events = lines[i].events  BY <1>5, <1>6
  <1>9. Complete = Len(lines) - 1 /\ Complete' = Len(lines)
    BY <1>1, <1>2, <1>6, <1>7 DEF Complete
  <1>10. Stored' = [i \in 1 .. Len(lines) |-> lines[i].events[1]]
    BY <1>8, <1>9 DEF Stored
  <1>11. Stored = [i \in 1 .. Len(lines) - 1 |-> lines[i].events[1]]  BY <1>9 DEF Stored
  <1>12. Stored' = Append(Stored, current)
    BY <1>1, <1>2, <1>10, <1>11
  <1> QED  BY <1>2, <1>5, <1>6, <1>7, <1>8, <1>12

LEMMA RecordHandedOver ==
  ASSUME SinkTypeOK, WritersOK, CallStore
  PROVE  /\ ~Unended /\ lines' \in Seq(Line) /\ Len(lines') = Len(lines) + 1
         /\ \A i \in 1 .. Len(lines) : lines'[i] = lines[i]
         /\ lines'[Len(lines) + 1] = [events |-> <<current>>, ended |-> TRUE]
         /\ ~Unended' /\ Stored' = Append(Stored, current)
  <1>1. ~Unended  BY DEF CallStore, WritersOK, SinkTypeOK
  <1>2. lines' = Append(lines, [events |-> <<current>>, ended |-> TRUE])  BY DEF CallStore
  <1>3. lines \in Seq(Line) /\ Len(lines) \in Nat  BY DEF SinkTypeOK
  <1>4. [events |-> <<current>>, ended |-> TRUE] \in Line
    BY DEF CallStore, WritersOK, Line
  <1>5. /\ lines' \in Seq(Line) /\ Len(lines') = Len(lines) + 1
        /\ \A i \in 1 .. Len(lines) : lines'[i] = lines[i]
        /\ lines'[Len(lines) + 1] = [events |-> <<current>>, ended |-> TRUE]
    BY <1>2, <1>3, <1>4
  <1>6. ~Unended'  BY <1>3, <1>5 DEF Unended
  <1>7. Complete = Len(lines) /\ Complete' = Len(lines) + 1
    BY <1>1, <1>5, <1>6 DEF Complete
  <1>8. Stored' = [i \in 1 .. Len(lines) + 1 |-> lines'[i].events[1]]  BY <1>7 DEF Stored
  <1>9. Stored = [i \in 1 .. Len(lines) |-> lines[i].events[1]]  BY <1>7 DEF Stored
  <1>10. Stored' = Append(Stored, current)  BY <1>3, <1>5, <1>8, <1>9
  <1> QED  BY <1>1, <1>5, <1>6, <1>10

-----------------------------------------------------------------------------
\* What is stored are events.
LEMMA StoredEvents ==
  ASSUME SinkTypeOK, LinesOK
  PROVE  Stored \in Seq(Events) /\ Range(Stored) \subseteq Events
  <1>1. Len(lines) \in Nat /\ DOMAIN lines = 1 .. Len(lines)  BY DEF SinkTypeOK
  <1>2. Complete \in Nat /\ Complete <= Len(lines)
    BY <1>1 DEF Complete, Unended, SinkTypeOK
  <1>3. \A i \in 1 .. Complete : lines[i].events[1] \in Events  BY <1>1, <1>2 DEF LinesOK
  <1>4. Stored \in [1 .. Complete -> Events]  BY <1>3 DEF Stored
  <1> QED  BY <1>2, <1>4 DEF Range

LEMMA InitInv == SinkInit => SinkInv
  <1> SUFFICES ASSUME SinkInit  PROVE SinkInv  OBVIOUS
  <1>1. /\ kind \in {"file", "store"} /\ emitting = {} /\ answer = [e \in Events |-> "none"]
        /\ queue = <<>> /\ writer = "idle" /\ current = Finish /\ lines = <<>> /\ acks = {}
        /\ failed = FALSE /\ handle = TRUE /\ finisher = [f \in Finishers |-> "new"]
        /\ crashed = FALSE
    BY DEF SinkInit
  <1>2. ~Unended /\ DOMAIN lines = {} /\ DOMAIN queue = {} /\ Range(queue) = {}
    BY <1>1 DEF Unended, Range
  <1>3. Complete = 0  BY <1>1, <1>2 DEF Complete
  <1>4. Range(Stored) = {}  BY <1>3 DEF Stored, Range
  <1>5. SinkTypeOK
    <2>1. \A S : <<>> \in Seq(S)  OBVIOUS
    <2>2. Len(queue) = 0  BY <1>1
    <2>3. queue \in Seq(Commands) /\ lines \in Seq(Line)  BY <1>1, <2>1, Zenon
    <2>4. /\ kind \in {"file", "store"} /\ crashed \in BOOLEAN /\ failed \in BOOLEAN
          /\ emitting \subseteq Events /\ acks \subseteq Events
          /\ answer \in [Events -> {"none", "ok", "error"}]
          /\ writer \in {"idle", "writing", "written", "handing", "draining", "ended"}
          /\ current \in Commands /\ handle \in BOOLEAN
          /\ finisher \in [Finishers ->
               {"new", "sending", "waiting", "ok", "error", "late", "dropped"}]
      BY <1>1 DEF Commands
    <2>5. Len(queue) <= WriterCapacity  BY <2>2, TraceAssumption
    <2> QED  BY <2>3, <2>4, <2>5 DEF SinkTypeOK
  <1>6. PlacesOK  BY <1>1, <1>2, TraceAssumption DEF PlacesOK, UnderWay
  <1>7. WritersOK  BY <1>1, <1>2, TraceAssumption DEF WritersOK
  <1>8. LinesOK  BY <1>1, <1>2 DEF LinesOK
  <1>9. StoredOK  BY <1>1, <1>4 DEF StoredOK
  <1>10. EndOK  BY <1>1 DEF EndOK
  <1> QED  BY <1>5, <1>6, <1>7, <1>8, <1>9, <1>10 DEF SinkInv

LEMMA StepInv == SinkInv /\ [SinkNext]_sinkVars => SinkInv'
  <1> SUFFICES ASSUME SinkInv, [SinkNext]_sinkVars  PROVE SinkInv'  OBVIOUS
  <1>0. SinkTypeOK /\ PlacesOK /\ WritersOK /\ LinesOK /\ StoredOK /\ EndOK  BY DEF SinkInv
  <1>1. ASSUME NEW e \in Events, Emit(e)  PROVE SinkInv'
    <2>1. SinkTypeOK'
      BY <1>1, <1>0, TraceAssumption
      DEF Emit, Answered, answerVars, writerVars, finishVars, SinkTypeOK
    <2>2. PlacesOK'
      BY <1>1, <1>0, TraceAssumption
      DEF Emit, Answered, answerVars, writerVars, finishVars, PlacesOK, UnderWay, SinkTypeOK, WritersOK
    <2>3. WritersOK'
      BY <1>1, <1>0, TraceAssumption
      DEF Emit, answerVars, writerVars, finishVars, WritersOK, Unended
    <2>4. LinesOK'
      BY <1>1, <1>0, TraceAssumption
      DEF Emit, answerVars, writerVars, finishVars, LinesOK, WritersOK, Unended
    <2>5. StoredOK'
      <3>1. Stored' = Stored /\ Range(Stored) \subseteq Events
        BY <1>1, <1>0, StoredEvents DEF Emit, writerVars, Stored, Complete, Unended
      <3>2. \A x \in Events : answer[x] # "none" => answer'[x] # "none"
        BY <1>1, <1>0 DEF Emit, Answered, SinkTypeOK
      <3> QED  BY <1>1, <1>0, <3>1, <3>2 DEF StoredOK, Emit, writerVars
    <2>6. EndOK'
      BY <1>1, <1>0, TraceAssumption
      DEF Emit, answerVars, writerVars, finishVars, EndOK
    <2> QED  BY <2>1, <2>2, <2>3, <2>4, <2>5, <2>6 DEF SinkInv
  <1>2. ASSUME NEW e \in Events, Enqueue(e)  PROVE SinkInv'
    <2>1. queue' = Append(queue, e) /\ queue \in Seq(Commands) /\ e \in Commands
      BY <1>2, <1>0 DEF Enqueue, SinkTypeOK, Commands
    <2>2. Range(queue') = Range(queue) \cup {e}
      BY <2>1, AppendMembers
    <2>3. SinkTypeOK'
      BY <1>2, <1>0, <2>1, <2>2, TraceAssumption
      DEF Enqueue, answerVars, writerVars, finishVars, SinkTypeOK
    <2>4. PlacesOK'
      <3>1. \A x \in Events : UnderWay(x)' => UnderWay(x)
        BY <1>2, <1>0, <2>2 DEF Enqueue, PlacesOK, UnderWay, writerVars
      <3>2. \A x \in emitting' : x \notin Range(queue') /\ x # current' /\ x \notin acks'
        BY <1>2, <1>0, <2>2 DEF Enqueue, PlacesOK, writerVars
      <3>3. \A x \in Events : x \in Range(queue') => x # current' /\ x \notin acks'
        BY <1>2, <1>0, <2>2 DEF Enqueue, PlacesOK, writerVars
      <3>4. \A x \in Events : UnderWay(x)' => answer'[x] = "none"
        BY <1>2, <1>0, <3>1 DEF Enqueue, PlacesOK
      <3>5. e \notin Range(queue)  BY <1>2, <1>0 DEF Enqueue, PlacesOK
      <3>6. /\ DOMAIN queue = 1 .. Len(queue) /\ DOMAIN queue' = 1 .. Len(queue) + 1
            /\ Len(queue) \in Nat /\ queue'[Len(queue) + 1] = e
            /\ \A i \in 1 .. Len(queue) : queue'[i] = queue[i] /\ queue[i] # e
        BY <2>1, <3>5 DEF Range
      <3>7. \A i, j \in DOMAIN queue' : queue'[i] = queue'[j] /\ queue'[i] \in Events => i = j
        BY <1>0, <3>6 DEF PlacesOK
      <3> QED  BY <3>2, <3>3, <3>4, <3>7 DEF PlacesOK
    <2>5. WritersOK'
      BY <1>2, <1>0, <2>1, <2>2, TraceAssumption
      DEF Enqueue, answerVars, writerVars, finishVars, WritersOK, Unended
    <2>6. LinesOK'
      BY <1>2, <1>0, <2>1, <2>2, TraceAssumption
      DEF Enqueue, answerVars, writerVars, finishVars, LinesOK, WritersOK, Unended
    <2>7. StoredOK'
      BY <1>2, <1>0, <2>1, <2>2, TraceAssumption
      DEF Enqueue, answerVars, writerVars, finishVars, StoredOK, WritersOK, Stored, Complete, Unended
    <2>8. EndOK'
      BY <1>2, <1>0, <2>1, <2>2, TraceAssumption
      DEF Enqueue, answerVars, writerVars, finishVars, EndOK
    <2> QED  BY <2>3, <2>4, <2>5, <2>6, <2>7, <2>8 DEF SinkInv
  <1>3. ASSUME NEW e \in Events, RefuseLatched(e)  PROVE SinkInv'
    <2>1. Takes(e) /\ e \in Commands
      BY <1>3, <1>0 DEF RefuseLatched, Commands
    <2>2. /\ e \in Range(queue) /\ queue' \in Seq(Commands) /\ Len(queue') <= WriterCapacity
          /\ Range(queue') \subseteq Range(queue)
          /\ e \in Events => e \notin Range(queue')
          /\ \A i, j \in DOMAIN queue' : queue'[i] = queue'[j] /\ queue'[i] \in Events => i = j
      BY <2>1, <1>0, TakenOnce
    <2>3. queue' \in Seq(Commands) /\ Len(queue') <= WriterCapacity  BY <2>2
    <2>4. UnderWay(e) /\ e \notin emitting /\ e # current /\ e \notin acks
      BY <1>3, <1>0, <2>2 DEF PlacesOK, UnderWay
    <2>5. SinkTypeOK'
      BY <1>3, <1>0, <2>3
      DEF RefuseLatched, Answered, answerVars, writerVars, finishVars, SinkTypeOK
    <2>6. PlacesOK'
      <3>1. \A x \in Events : x \in Range(queue') => x \in Range(queue) /\ x # e  BY <2>2
      <3>2. \A x \in Events : UnderWay(x)' => answer'[x] = "none"
        BY <1>3, <1>0, <3>1, <2>4 DEF RefuseLatched, Answered, PlacesOK, UnderWay, SinkTypeOK, answerVars, writerVars, finishVars
      <3>3. \A x \in emitting' : x \notin Range(queue') /\ x # current' /\ x \notin acks'
        BY <1>3, <1>0, <3>1, <2>4 DEF RefuseLatched, Answered, PlacesOK, SinkTypeOK, answerVars, writerVars, finishVars
      <3>4. \A x \in Events : x \in Range(queue') => x # current' /\ x \notin acks'
        BY <1>3, <1>0, <3>1, <2>4 DEF RefuseLatched, Answered, PlacesOK, answerVars, writerVars, finishVars
      <3> QED  BY <2>2, <3>2, <3>3, <3>4 DEF PlacesOK
    <2>7. WritersOK'
      BY <1>3, <1>0, <2>1, <2>2, <2>4, TraceAssumption
      DEF RefuseLatched, answerVars, writerVars, finishVars, WritersOK, Unended
    <2>8. LinesOK'
      BY <1>3, <1>0, <2>1, <2>2, <2>4, TraceAssumption
      DEF RefuseLatched, answerVars, writerVars, finishVars, LinesOK, WritersOK
    <2>9. StoredOK'
      BY <1>3, <1>0, <2>1, <2>2, <2>4, TraceAssumption
      DEF RefuseLatched, Answered, answerVars, writerVars, finishVars, StoredOK, WritersOK, Stored, Complete, Unended
    <2>10. EndOK'
      BY <1>3, <1>0, <2>1, <2>2, <2>4, TraceAssumption
      DEF RefuseLatched, answerVars, writerVars, finishVars, EndOK
    <2> QED  BY <2>5, <2>6, <2>7, <2>8, <2>9, <2>10 DEF SinkInv
  <1>4. ASSUME NEW e \in Events, StartWriting(e)  PROVE SinkInv'
    <2>1. Takes(e) /\ e \in Commands
      BY <1>4, <1>0 DEF StartWriting, Commands
    <2>2. /\ e \in Range(queue) /\ queue' \in Seq(Commands) /\ Len(queue') <= WriterCapacity
          /\ Range(queue') \subseteq Range(queue)
          /\ e \in Events => e \notin Range(queue')
          /\ \A i, j \in DOMAIN queue' : queue'[i] = queue'[j] /\ queue'[i] \in Events => i = j
      BY <2>1, <1>0, TakenOnce
    <2>3. /\ ~Unended /\ lines' \in Seq(Line) /\ Len(lines') = Len(lines) + 1
          /\ \A i \in 1 .. Len(lines) : lines'[i] = lines[i]
          /\ lines'[Len(lines) + 1] = [events |-> <<e>>, ended |-> FALSE]
          /\ Unended' /\ Stored' = Stored
      BY <1>4, <1>0, WritingStarts
    <2>4. queue' \in Seq(Commands) /\ Len(queue') <= WriterCapacity  BY <2>2
    <2>5. UnderWay(e) /\ e \notin emitting /\ e # current /\ e \notin acks
      BY <1>4, <1>0, <2>2 DEF PlacesOK, UnderWay
    <2>6. SinkTypeOK'
      BY <1>4, <1>0, <2>4, <2>3
      DEF StartWriting, answerVars, writerVars, finishVars, SinkTypeOK, Commands
    <2>7. PlacesOK'
      <3>1. \A x \in Events : x \in Range(queue') => x \in Range(queue) /\ x # e  BY <2>2
      <3>2. \A x \in Events : UnderWay(x)' => answer'[x] = "none"
        BY <1>4, <1>0, <3>1, <2>5 DEF StartWriting, PlacesOK, UnderWay, SinkTypeOK, answerVars, writerVars, finishVars
      <3>3. \A x \in emitting' : x \notin Range(queue') /\ x # current' /\ x \notin acks'
        BY <1>4, <1>0, <3>1, <2>5 DEF StartWriting, PlacesOK, SinkTypeOK, answerVars, writerVars, finishVars
      <3>4. \A x \in Events : x \in Range(queue') => x # current' /\ x \notin acks'
        BY <1>4, <1>0, <3>1, <2>5 DEF StartWriting, PlacesOK, answerVars, writerVars, finishVars
      <3> QED  BY <2>2, <3>2, <3>3, <3>4 DEF PlacesOK
    <2>8. WritersOK'
      BY <1>4, <1>0, <2>1, <2>2, <2>3, <2>5, TraceAssumption
      DEF StartWriting, answerVars, writerVars, finishVars, WritersOK
    <2>9. LinesOK'
      <3>1. Len(lines) \in Nat /\ DOMAIN lines = 1 .. Len(lines)
            /\ DOMAIN lines' = 1 .. Len(lines) + 1
        BY <1>0, <2>3 DEF SinkTypeOK
      <3>2. writer' = "writing" /\ current' = e /\ ~failed' /\ ~Unended
        BY <1>4, <2>3 DEF StartWriting
      <3>3. lines'[Len(lines) + 1].events = <<e>> /\ lines'[Len(lines) + 1].events[1] = e
        BY <2>3
      <3>4. \A i \in 1 .. Len(lines) : lines[i].ended
        BY <1>0, <3>1, <3>2 DEF LinesOK, Unended
      <3>5. \A i \in DOMAIN lines' :
              lines'[i].events = <<lines'[i].events[1]>> /\ lines'[i].events[1] \in Events
        BY <1>0, <2>3, <3>1, <3>3 DEF LinesOK
      <3>6. \A i \in DOMAIN lines' : ~lines'[i].ended => i = Len(lines')
        BY <2>3, <3>1, <3>4
      <3> QED  BY <2>3, <3>1, <3>2, <3>3, <3>5, <3>6 DEF LinesOK
    <2>10. StoredOK'
      BY <1>4, <1>0, <2>1, <2>2, <2>3, <2>5, TraceAssumption
      DEF StartWriting, answerVars, writerVars, finishVars, StoredOK, WritersOK, Takes
    <2>11. EndOK'
      BY <1>4, <1>0, <2>1, <2>2, <2>3, <2>5, TraceAssumption
      DEF StartWriting, answerVars, writerVars, finishVars, EndOK
    <2> QED  BY <2>6, <2>7, <2>8, <2>9, <2>10, <2>11 DEF SinkInv
  <1>5. ASSUME NEW e \in Events, FailAtOnce(e)  PROVE SinkInv'
    <2>1. Takes(e) /\ e \in Commands
      BY <1>5, <1>0 DEF FailAtOnce, Commands
    <2>2. /\ e \in Range(queue) /\ queue' \in Seq(Commands) /\ Len(queue') <= WriterCapacity
          /\ Range(queue') \subseteq Range(queue)
          /\ e \in Events => e \notin Range(queue')
          /\ \A i, j \in DOMAIN queue' : queue'[i] = queue'[j] /\ queue'[i] \in Events => i = j
      BY <2>1, <1>0, TakenOnce
    <2>3. queue' \in Seq(Commands) /\ Len(queue') <= WriterCapacity  BY <2>2
    <2>4. UnderWay(e) /\ e \notin emitting /\ e # current /\ e \notin acks
      BY <1>5, <1>0, <2>2 DEF PlacesOK, UnderWay
    <2>5. SinkTypeOK'
      BY <1>5, <1>0, <2>3
      DEF FailAtOnce, Answered, answerVars, writerVars, finishVars, SinkTypeOK
    <2>6. PlacesOK'
      <3>1. \A x \in Events : x \in Range(queue') => x \in Range(queue) /\ x # e  BY <2>2
      <3>2. \A x \in Events : UnderWay(x)' => answer'[x] = "none"
        BY <1>5, <1>0, <3>1, <2>4 DEF FailAtOnce, Answered, PlacesOK, UnderWay, SinkTypeOK, answerVars, writerVars, finishVars
      <3>3. \A x \in emitting' : x \notin Range(queue') /\ x # current' /\ x \notin acks'
        BY <1>5, <1>0, <3>1, <2>4 DEF FailAtOnce, Answered, PlacesOK, SinkTypeOK, answerVars, writerVars, finishVars
      <3>4. \A x \in Events : x \in Range(queue') => x # current' /\ x \notin acks'
        BY <1>5, <1>0, <3>1, <2>4 DEF FailAtOnce, Answered, PlacesOK, answerVars, writerVars, finishVars
      <3> QED  BY <2>2, <3>2, <3>3, <3>4 DEF PlacesOK
    <2>7. WritersOK'
      BY <1>5, <1>0, <2>1, <2>2, <2>4, TraceAssumption
      DEF FailAtOnce, answerVars, writerVars, finishVars, WritersOK
    <2>8. LinesOK'
      BY <1>5, <1>0, <2>1, <2>2, <2>4, TraceAssumption
      DEF FailAtOnce, answerVars, writerVars, finishVars, LinesOK, Takes, WritersOK
    <2>9. StoredOK'
      BY <1>5, <1>0, <2>1, <2>2, <2>4, TraceAssumption
      DEF FailAtOnce, Answered, answerVars, writerVars, finishVars, StoredOK, WritersOK, Stored, Complete, Unended
    <2>10. EndOK'
      BY <1>5, <1>0, <2>1, <2>2, <2>4, TraceAssumption
      DEF FailAtOnce, answerVars, writerVars, finishVars, EndOK
    <2> QED  BY <2>5, <2>6, <2>7, <2>8, <2>9, <2>10 DEF SinkInv
  <1>6. ASSUME FailWriting  PROVE SinkInv'
    <2>1. SinkTypeOK'
      BY <1>6, <1>0, TraceAssumption
      DEF FailWriting, Answered, answerVars, writerVars, finishVars, SinkTypeOK, Commands
    <2>2. PlacesOK'
      BY <1>6, <1>0, TraceAssumption
      DEF FailWriting, Answered, answerVars, writerVars, finishVars, PlacesOK, UnderWay, SinkTypeOK, WritersOK
    <2>3. WritersOK'
      BY <1>6, <1>0, TraceAssumption
      DEF FailWriting, answerVars, writerVars, finishVars, WritersOK, SinkTypeOK
    <2>4. LinesOK'
      BY <1>6, <1>0, TraceAssumption
      DEF FailWriting, answerVars, writerVars, finishVars, LinesOK, WritersOK
    <2>5. StoredOK'
      BY <1>6, <1>0, TraceAssumption
      DEF FailWriting, Answered, answerVars, writerVars, finishVars, StoredOK, WritersOK, Stored, Complete, Unended
    <2>6. EndOK'
      BY <1>6, <1>0, TraceAssumption
      DEF FailWriting, answerVars, writerVars, finishVars, EndOK
    <2> QED  BY <2>1, <2>2, <2>3, <2>4, <2>5, <2>6 DEF SinkInv
  <1>7. ASSUME EndLine  PROVE SinkInv'
    <2>1. /\ lines' \in Seq(Line) /\ Len(lines') = Len(lines) /\ lines # <<>> /\ Len(lines) \in Nat \ {0}
          /\ \A i \in 1 .. Len(lines) : lines'[i].events = lines[i].events
          /\ \A i \in 1 .. Len(lines) : i # Len(lines) => lines'[i] = lines[i]
          /\ lines'[Len(lines)].ended = TRUE /\ ~Unended'
          /\ Stored' = Append(Stored, current)
      BY <1>7, <1>0, LineEnds
    <2>2. SinkTypeOK'
      BY <1>7, <1>0, <2>1, TraceAssumption
      DEF EndLine, answerVars, writerVars, finishVars, SinkTypeOK
    <2>3. PlacesOK'
      BY <1>7, <1>0, <2>1, TraceAssumption
      DEF EndLine, answerVars, writerVars, finishVars, PlacesOK, UnderWay, WritersOK
    <2>4. WritersOK'
      BY <1>7, <1>0, <2>1, TraceAssumption
      DEF EndLine, answerVars, writerVars, finishVars, WritersOK
    <2>5. LinesOK'
      BY <1>7, <1>0, <2>1, TraceAssumption
      DEF EndLine, answerVars, writerVars, finishVars, LinesOK, WritersOK
    <2>6. StoredOK'
      <3>1. current \in Events  BY <1>7, <1>0 DEF EndLine, WritersOK
      <3>2. Range(Stored') = Range(Stored) \cup {current}
        BY <2>1, <3>1, <1>0, StoredEvents, AppendMembers
      <3> QED  BY <1>7, <1>0, <3>2 DEF StoredOK, EndLine, answerVars
    <2>7. EndOK'
      BY <1>7, <1>0, <2>1, TraceAssumption
      DEF EndLine, answerVars, writerVars, finishVars, EndOK
    <2> QED  BY <2>2, <2>3, <2>4, <2>5, <2>6, <2>7 DEF SinkInv
  <1>8. ASSUME AcknowledgeLine  PROVE SinkInv'
    <2>1. SinkTypeOK'
      BY <1>8, <1>0, TraceAssumption
      DEF AcknowledgeLine, Answered, answerVars, writerVars, finishVars, SinkTypeOK, Commands
    <2>2. PlacesOK'
      BY <1>8, <1>0, TraceAssumption
      DEF AcknowledgeLine, Answered, answerVars, writerVars, finishVars, PlacesOK, UnderWay, SinkTypeOK, WritersOK
    <2>3. WritersOK'
      BY <1>8, <1>0, TraceAssumption
      DEF AcknowledgeLine, answerVars, writerVars, finishVars, WritersOK, SinkTypeOK
    <2>4. LinesOK'
      BY <1>8, <1>0, TraceAssumption
      DEF AcknowledgeLine, answerVars, writerVars, finishVars, LinesOK, WritersOK, Unended
    <2>5. StoredOK'
      BY <1>8, <1>0, TraceAssumption
      DEF AcknowledgeLine, Answered, answerVars, writerVars, finishVars, StoredOK, WritersOK, SinkTypeOK, Stored, Complete, Unended
    <2>6. EndOK'
      BY <1>8, <1>0, TraceAssumption
      DEF AcknowledgeLine, answerVars, writerVars, finishVars, EndOK
    <2> QED  BY <2>1, <2>2, <2>3, <2>4, <2>5, <2>6 DEF SinkInv
  <1>9. ASSUME NEW e \in Events, HandOver(e)  PROVE SinkInv'
    <2>1. Takes(e) /\ e \in Commands
      BY <1>9, <1>0 DEF HandOver, Commands
    <2>2. /\ e \in Range(queue) /\ queue' \in Seq(Commands) /\ Len(queue') <= WriterCapacity
          /\ Range(queue') \subseteq Range(queue)
          /\ e \in Events => e \notin Range(queue')
          /\ \A i, j \in DOMAIN queue' : queue'[i] = queue'[j] /\ queue'[i] \in Events => i = j
      BY <2>1, <1>0, TakenOnce
    <2>3. queue' \in Seq(Commands) /\ Len(queue') <= WriterCapacity  BY <2>2
    <2>4. UnderWay(e) /\ e \notin emitting /\ e # current /\ e \notin acks
      BY <1>9, <1>0, <2>2 DEF PlacesOK, UnderWay
    <2>5. SinkTypeOK'
      BY <1>9, <1>0, <2>1, <2>3
      DEF HandOver, answerVars, writerVars, finishVars, SinkTypeOK
    <2>6. PlacesOK'
      <3>1. \A x \in Events : x \in Range(queue') => x \in Range(queue) /\ x # e  BY <2>2
      <3>2. \A x \in Events : UnderWay(x)' => answer'[x] = "none"
        BY <1>9, <1>0, <3>1, <2>4 DEF HandOver, PlacesOK, UnderWay, SinkTypeOK, answerVars, writerVars, finishVars
      <3>3. \A x \in emitting' : x \notin Range(queue') /\ x # current' /\ x \notin acks'
        BY <1>9, <1>0, <3>1, <2>4 DEF HandOver, PlacesOK, SinkTypeOK, answerVars, writerVars, finishVars
      <3>4. \A x \in Events : x \in Range(queue') => x # current' /\ x \notin acks'
        BY <1>9, <1>0, <3>1, <2>4 DEF HandOver, PlacesOK, answerVars, writerVars, finishVars
      <3> QED  BY <2>2, <3>2, <3>3, <3>4 DEF PlacesOK
    <2>7. WritersOK'
      BY <1>9, <1>0, <2>4 DEF HandOver, answerVars, writerVars, finishVars, WritersOK, Unended
    <2>8. LinesOK'
      BY <1>9, <1>0, <2>4
      DEF HandOver, answerVars, writerVars, finishVars, LinesOK, Takes, WritersOK, Unended
    <2>9. StoredOK'
      BY <1>9, <1>0, <2>4
      DEF HandOver, Takes, answerVars, writerVars, finishVars, StoredOK, Stored, Complete, Unended
    <2>10. EndOK'
      BY <1>9, <1>0, <2>2, <2>4 DEF HandOver, Takes, answerVars, writerVars, finishVars, EndOK
    <2> QED  BY <2>5, <2>6, <2>7, <2>8, <2>9, <2>10 DEF SinkInv
  <1>18. ASSUME CallStore  PROVE SinkInv'
    <2>1. /\ ~Unended /\ lines' \in Seq(Line) /\ Len(lines') = Len(lines) + 1
          /\ \A i \in 1 .. Len(lines) : lines'[i] = lines[i]
          /\ lines'[Len(lines) + 1] = [events |-> <<current>>, ended |-> TRUE]
          /\ ~Unended' /\ Stored' = Append(Stored, current)
      BY <1>18, <1>0, RecordHandedOver
    <2>2. /\ current \in Events /\ current \notin acks /\ kind = "store"
          /\ current \notin emitting /\ current \notin Range(queue)
      BY <1>18, <1>0 DEF CallStore, WritersOK, PlacesOK
    <2>3. SinkTypeOK'
      BY <1>18, <1>0, <2>1, <2>2
      DEF CallStore, answerVars, finishVars, SinkTypeOK, Commands
    <2>4. PlacesOK'
      BY <1>18, <1>0, <2>2, TraceAssumption
      DEF CallStore, answerVars, finishVars, PlacesOK, UnderWay, SinkTypeOK
    <2>5. WritersOK'
      BY <1>18, <1>0, <2>1, <2>2, TraceAssumption
      DEF CallStore, answerVars, finishVars, WritersOK, SinkTypeOK
    <2>6. LinesOK'
      <3>1. Len(lines) \in Nat  BY <1>0 DEF SinkTypeOK
      <3>2. \A i \in 1 .. Len(lines) : lines[i].ended
        BY <1>0, <2>1, <3>1 DEF LinesOK, Unended
      <3>3. \A i \in 1 .. Len(lines') :
              /\ lines'[i].ended /\ lines'[i].events = <<lines'[i].events[1]>>
              /\ lines'[i].events[1] \in Events
        BY <1>0, <2>1, <2>2, <3>1, <3>2 DEF LinesOK
      <3>4. writer' = "idle"  BY <1>18 DEF CallStore
      <3>5. DOMAIN lines' = 1 .. Len(lines')  BY <2>1
      <3> QED  BY <2>1, <3>3, <3>4, <3>5 DEF LinesOK
    <2>7. StoredOK'
      <3>1. Range(Stored') = Range(Stored) \cup {current}
        BY <2>1, <2>2, <1>0, StoredEvents, AppendMembers
      <3> QED  BY <1>18, <1>0, <3>1 DEF StoredOK, CallStore, answerVars
    <2>8. EndOK'
      BY <1>18, <1>0 DEF CallStore, answerVars, finishVars, EndOK
    <2> QED  BY <2>3, <2>4, <2>5, <2>6, <2>7, <2>8 DEF SinkInv
  <1>10. ASSUME NEW e \in Events, NEW what \in {"ok", "error"}, StoreAnswers(e, what)  PROVE SinkInv'
    <2>1. SinkTypeOK'
      BY <1>10, <1>0, TraceAssumption
      DEF StoreAnswers, Answered, answerVars, writerVars, finishVars, SinkTypeOK
    <2>2. PlacesOK'
      BY <1>10, <1>0, TraceAssumption
      DEF StoreAnswers, Answered, answerVars, writerVars, finishVars, PlacesOK, UnderWay, SinkTypeOK, WritersOK
    <2>3. WritersOK'
      BY <1>10, <1>0, TraceAssumption
      DEF StoreAnswers, answerVars, writerVars, finishVars, WritersOK, Unended
    <2>4. LinesOK'
      BY <1>10, <1>0, TraceAssumption
      DEF StoreAnswers, answerVars, writerVars, finishVars, LinesOK, SinkTypeOK, WritersOK, Unended
    <2>5. StoredOK'
      BY <1>10, <1>0, TraceAssumption
      DEF StoreAnswers, Answered, answerVars, writerVars, finishVars, StoredOK, WritersOK, SinkTypeOK, Stored, Complete, Unended
    <2>6. EndOK'
      BY <1>10, <1>0, TraceAssumption
      DEF StoreAnswers, answerVars, writerVars, finishVars, EndOK
    <2> QED  BY <2>1, <2>2, <2>3, <2>4, <2>5, <2>6 DEF SinkInv
  <1>11. ASSUME StartDraining  PROVE SinkInv'
    <2>1. Takes(Finish) /\ Finish \in Commands
      BY <1>11, <1>0 DEF StartDraining, Commands
    <2>2. /\ Finish \in Range(queue) /\ queue' \in Seq(Commands) /\ Len(queue') <= WriterCapacity
          /\ Range(queue') \subseteq Range(queue)
          /\ Finish \in Events => Finish \notin Range(queue')
          /\ \A i, j \in DOMAIN queue' : queue'[i] = queue'[j] /\ queue'[i] \in Events => i = j
      BY <2>1, <1>0, TakenOnce
    <2>3. queue' \in Seq(Commands) /\ Len(queue') <= WriterCapacity  BY <2>2
    <2>4. SinkTypeOK'
      BY <1>11, <1>0, <2>3
      DEF StartDraining, answerVars, writerVars, finishVars, SinkTypeOK
    <2>5. PlacesOK'
      BY <1>11, <1>0, <2>1, <2>2, TraceAssumption
      DEF StartDraining, answerVars, writerVars, finishVars, PlacesOK, UnderWay, WritersOK
    <2>6. WritersOK'
      BY <1>11, <1>0, <2>1, <2>2, TraceAssumption
      DEF StartDraining, answerVars, writerVars, finishVars, WritersOK, Takes, Unended
    <2>7. LinesOK'
      BY <1>11, <1>0, <2>1, <2>2, TraceAssumption
      DEF StartDraining, answerVars, writerVars, finishVars, LinesOK, Takes, WritersOK, Unended
    <2>8. StoredOK'
      BY <1>11, <1>0, <2>1, <2>2, TraceAssumption
      DEF StartDraining, answerVars, writerVars, finishVars, StoredOK, WritersOK, Stored, Complete, Takes, Unended
    <2>9. EndOK'
      BY <1>11, <1>0, <2>1, <2>2, TraceAssumption
      DEF StartDraining, answerVars, writerVars, finishVars, EndOK, Takes
    <2> QED  BY <2>4, <2>5, <2>6, <2>7, <2>8, <2>9 DEF SinkInv
  <1>12. ASSUME End  PROVE SinkInv'
    <2>1. SinkTypeOK'
      BY <1>12, <1>0, TraceAssumption
      DEF End, Drop, answerVars, writerVars, finishVars, SinkTypeOK
    <2>2. PlacesOK'
      <3>1. Range(queue') = {} /\ DOMAIN queue' = {} /\ emitting' = {} /\ acks' = {}
        BY <1>12 DEF End, Drop, Range
      <3>2. \A x \in Events : x # current'
        BY <1>12, <1>0 DEF End, Drop, WritersOK
      <3> QED  BY <3>1, <3>2 DEF PlacesOK, UnderWay
    <2>3. WritersOK'
      BY <1>12, <1>0, TraceAssumption
      DEF End, Drop, answerVars, writerVars, finishVars, WritersOK, Unended
    <2>4. LinesOK'
      BY <1>12, <1>0, TraceAssumption
      DEF End, Drop, answerVars, writerVars, finishVars, LinesOK, WritersOK, Unended
    <2>5. StoredOK'
      <3>1. Stored' = Stored /\ Range(Stored) \subseteq Events
        BY <1>12, <1>0, StoredEvents DEF End, Drop, Stored, Complete, Unended
      <3>2. \A x \in Events : answer[x] # "none" => answer'[x] # "none"
        BY <1>12, <1>0 DEF End, Drop, SinkTypeOK
      <3>3. acks' = acks /\ writer = "draining" /\ acks = {}  BY <1>12 DEF End, Drop
      <3> QED  BY <1>0, <3>1, <3>2, <3>3 DEF StoredOK
    <2>6. EndOK'
      <3>1. writer' = "ended" /\ acks' = {} /\ emitting' = {} /\ failed' = failed /\ handle' = handle
            /\ \A x \in Events : x \notin Range(queue')
        BY <1>12 DEF End, Drop, Range
      <3>2. writer = "draining" /\ failed \in BOOLEAN  BY <1>12, <1>0 DEF End, SinkTypeOK
      <3>3. \A f \in Finishers : finisher'[f] =
              IF finisher[f] = "waiting" THEN IF failed THEN "error" ELSE "ok" ELSE finisher[f]
        BY <1>12 DEF End, Drop
      <3>4. \A f \in Finishers : finisher[f] \notin {"ok", "error"}  BY <1>0, <3>2 DEF EndOK
      <3>5. \A f \in Finishers : finisher'[f] \in {"ok", "error"} => failed' = (finisher'[f] = "error")
        BY <3>1, <3>2, <3>3, <3>4
      <3>6. ~handle' => \E g \in Finishers :
              finisher'[g] \in {"sending", "waiting", "ok", "error", "dropped"}
        BY <1>0, <3>1, <3>3 DEF EndOK
      <3> QED  BY <3>1, <3>5, <3>6 DEF EndOK
    <2> QED  BY <2>1, <2>2, <2>3, <2>4, <2>5, <2>6 DEF SinkInv
  <1>13. ASSUME NEW f \in Finishers, CallFinish(f)  PROVE SinkInv'
    <2>1. SinkTypeOK'
      BY <1>13, <1>0, TraceAssumption
      DEF CallFinish, answerVars, writerVars, finishVars, SinkTypeOK
    <2>2. PlacesOK'
      BY <1>13, <1>0, TraceAssumption
      DEF CallFinish, answerVars, writerVars, finishVars, PlacesOK, UnderWay, WritersOK
    <2>3. WritersOK'
      BY <1>13, <1>0, TraceAssumption
      DEF CallFinish, answerVars, writerVars, finishVars, WritersOK, Unended
    <2>4. LinesOK'
      BY <1>13, <1>0, TraceAssumption
      DEF CallFinish, answerVars, writerVars, finishVars, LinesOK, WritersOK, Unended
    <2>5. StoredOK'
      BY <1>13, <1>0, TraceAssumption
      DEF CallFinish, answerVars, writerVars, finishVars, StoredOK, WritersOK, Stored, Complete, Unended
    <2>6. EndOK'
      BY <1>13, <1>0, TraceAssumption
      DEF CallFinish, Finishing, answerVars, writerVars, finishVars, EndOK, SinkTypeOK
    <2> QED  BY <2>1, <2>2, <2>3, <2>4, <2>5, <2>6 DEF SinkInv
  <1>14. ASSUME NEW f \in Finishers, SendFinish(f)  PROVE SinkInv'
    <2>1. queue' = Append(queue, Finish) /\ queue \in Seq(Commands) /\ Finish \in Commands
      BY <1>14, <1>0 DEF SendFinish, SinkTypeOK, Commands
    <2>2. Range(queue') = Range(queue) \cup {Finish}
      BY <2>1, AppendMembers
    <2>3. SinkTypeOK'
      BY <1>14, <1>0, <2>1, <2>2, TraceAssumption
      DEF SendFinish, answerVars, writerVars, finishVars, SinkTypeOK
    <2>4. PlacesOK'
      BY <1>14, <1>0, <2>1, <2>2, TraceAssumption
      DEF SendFinish, answerVars, writerVars, finishVars, PlacesOK, UnderWay, SinkTypeOK, WritersOK
    <2>5. WritersOK'
      BY <1>14, <1>0, <2>1, <2>2, TraceAssumption
      DEF SendFinish, answerVars, writerVars, finishVars, WritersOK, Unended
    <2>6. LinesOK'
      BY <1>14, <1>0, <2>1, <2>2, TraceAssumption
      DEF SendFinish, answerVars, writerVars, finishVars, LinesOK, WritersOK, Unended
    <2>7. StoredOK'
      BY <1>14, <1>0, <2>1, <2>2, TraceAssumption
      DEF SendFinish, answerVars, writerVars, finishVars, StoredOK, WritersOK, Stored, Complete, Unended
    <2>8. EndOK'
      BY <1>14, <1>0, <2>1, <2>2, TraceAssumption
      DEF SendFinish, answerVars, writerVars, finishVars, EndOK
    <2> QED  BY <2>3, <2>4, <2>5, <2>6, <2>7, <2>8 DEF SinkInv
  <1>15. ASSUME NEW f \in Finishers, DropFinish(f)  PROVE SinkInv'
    <2>1. SinkTypeOK'
      BY <1>15, <1>0, TraceAssumption
      DEF DropFinish, answerVars, writerVars, finishVars, SinkTypeOK
    <2>2. PlacesOK'
      BY <1>15, <1>0, TraceAssumption
      DEF DropFinish, answerVars, writerVars, finishVars, PlacesOK, UnderWay, WritersOK
    <2>3. WritersOK'
      BY <1>15, <1>0, TraceAssumption
      DEF DropFinish, answerVars, writerVars, finishVars, WritersOK, Unended
    <2>4. LinesOK'
      BY <1>15, <1>0, TraceAssumption
      DEF DropFinish, answerVars, writerVars, finishVars, LinesOK, WritersOK, Unended
    <2>5. StoredOK'
      BY <1>15, <1>0, TraceAssumption
      DEF DropFinish, answerVars, writerVars, finishVars, StoredOK, WritersOK, Stored, Complete, Unended
    <2>6. EndOK'
      BY <1>15, <1>0, TraceAssumption
      DEF DropFinish, answerVars, writerVars, finishVars, EndOK
    <2> QED  BY <2>1, <2>2, <2>3, <2>4, <2>5, <2>6 DEF SinkInv
  <1>16. ASSUME Crash  PROVE SinkInv'
    <2>1. SinkTypeOK'
      BY <1>16, <1>0, TraceAssumption
      DEF Crash, answerVars, writerVars, finishVars, SinkTypeOK
    <2>2. PlacesOK'
      BY <1>16, <1>0, TraceAssumption
      DEF Crash, answerVars, writerVars, finishVars, PlacesOK, UnderWay, WritersOK
    <2>3. WritersOK'
      BY <1>16, <1>0, TraceAssumption
      DEF Crash, answerVars, writerVars, finishVars, WritersOK
    <2>4. LinesOK'
      BY <1>16, <1>0, TraceAssumption
      DEF Crash, answerVars, writerVars, finishVars, LinesOK, WritersOK, Unended
    <2>5. StoredOK'
      BY <1>16, <1>0, TraceAssumption
      DEF Crash, answerVars, writerVars, finishVars, StoredOK, WritersOK, Stored, Complete, Unended
    <2>6. EndOK'
      BY <1>16, <1>0, TraceAssumption
      DEF Crash, answerVars, writerVars, finishVars, EndOK
    <2> QED  BY <2>1, <2>2, <2>3, <2>4, <2>5, <2>6 DEF SinkInv
  <1>17. ASSUME UNCHANGED sinkVars  PROVE SinkInv'
    <2>1. SinkTypeOK'
      BY <1>17, <1>0, TraceAssumption
      DEF sinkVars, answerVars, writerVars, finishVars, SinkTypeOK
    <2>2. PlacesOK'
      BY <1>17, <1>0, TraceAssumption
      DEF sinkVars, answerVars, writerVars, finishVars, PlacesOK, UnderWay, WritersOK, UnderWay
    <2>3. WritersOK'
      BY <1>17, <1>0, TraceAssumption
      DEF sinkVars, answerVars, writerVars, finishVars, WritersOK, Unended
    <2>4. LinesOK'
      BY <1>17, <1>0, TraceAssumption
      DEF sinkVars, answerVars, writerVars, finishVars, LinesOK, WritersOK, Unended
    <2>5. StoredOK'
      BY <1>17, <1>0, TraceAssumption
      DEF sinkVars, answerVars, writerVars, finishVars, StoredOK, WritersOK, Stored, Complete, Stored, Complete, Unended
    <2>6. EndOK'
      BY <1>17, <1>0, TraceAssumption
      DEF sinkVars, answerVars, writerVars, finishVars, EndOK
    <2> QED  BY <2>1, <2>2, <2>3, <2>4, <2>5, <2>6 DEF SinkInv
  <1> QED
    BY <1>1, <1>2, <1>3, <1>4, <1>5, <1>6, <1>7, <1>8, <1>9, <1>10, <1>11, <1>12, <1>13, <1>14, <1>15, <1>16, <1>17,
       <1>18
    DEF SinkNext, StoreStep, WriterStep

-----------------------------------------------------------------------------
\* The state of the trace at every step, for any events, callers and capacity: where
\* each event is, what is stored, and who waits for what.
THEOREM SinkInvariant == SinkSpec => []SinkInv
  BY InitInv, StepInv, PTL DEF SinkSpec

\* The channel keeps its bound and the writer its phases (trace.rs, session.rs).
THEOREM SinkTypes == SinkSpec => []SinkTypeOK
  <1>1. SinkInv => SinkTypeOK  BY DEF SinkInv
  <1> QED  BY SinkInvariant, <1>1, PTL

\* Every complete line of a session file is one record and only the last line may be
\* incomplete, whatever fails and whenever the process dies (session.rs write_record).
THEOREM SessionAlwaysReadable == SinkSpec => []SessionReadable
  <1>1. SinkInv => SessionReadable
    <2> SUFFICES ASSUME SinkInv, NEW i \in DOMAIN lines
                 PROVE  /\ lines[i].ended => Len(lines[i].events) = 1
                        /\ ~lines[i].ended => i = Len(lines)
      BY DEF SessionReadable
    <2>1. lines[i].events = <<lines[i].events[1]>> /\ (~lines[i].ended => i = Len(lines))
      BY DEF SinkInv, LinesOK
    <2>2. \A x : Len(<<x>>) = 1  OBVIOUS
    <2> QED  BY <2>1, <2>2
  <1> QED  BY SinkInvariant, <1>1, PTL

\* What finish returns is final: everything stored has been answered and the latch tells
\* whether one of the answers was a failure (trace.rs finish).
THEOREM FinishAlwaysTells == SinkSpec => []FinishTells
  <1>1. SinkInv => FinishTells
    <2> SUFFICES ASSUME SinkInv  PROVE FinishTells  OBVIOUS
    <2>1. SinkTypeOK /\ PlacesOK /\ WritersOK /\ LinesOK /\ StoredOK /\ EndOK  BY DEF SinkInv
    <2>2. ASSUME NEW f \in Finishers, finisher[f] \in {"ok", "error"}
          PROVE  failed = (finisher[f] = "error") /\ \A e \in Range(Stored) : answer[e] # "none"
      <3>1. writer = "ended" /\ failed = (finisher[f] = "error")  BY <2>1, <2>2 DEF EndOK
      <3>2. acks = {}  BY <2>1, <3>1 DEF EndOK
      <3> QED  BY <2>1, <3>1, <3>2 DEF StoredOK
    <2>3. \A f \in Finishers : finisher[f] = "late" =>
            writer = "ended" \/ \E g \in Finishers : finisher[g] = "dropped"
      BY <2>1 DEF EndOK
    <2> QED  BY <2>2, <2>3 DEF FinishTells
  <1> QED  BY SinkInvariant, <1>1, PTL

-----------------------------------------------------------------------------
\* Each step of the channel, of either writer and of finish is a step of the contract
\* or leaves it unchanged.
LEMMA ContractStep ==
  SinkInv /\ [SinkNext]_sinkVars => [Contract!LogNext]_(Contract!logVars)
  <1> SUFFICES ASSUME SinkInv, [SinkNext]_sinkVars
               PROVE  Contract!LogNext \/ UNCHANGED Contract!logVars
    OBVIOUS
  <1>0. SinkTypeOK /\ PlacesOK /\ WritersOK /\ LinesOK /\ StoredOK /\ EndOK  BY DEF SinkInv
  <1> DEFINE closed == writer = "ended"
             Same == UNCHANGED <<lines, answer, failed>> /\ Storing' = Storing /\ closed' = closed
  \* A step that neither stores nor answers nor ends the writer.
  <1>1. ASSUME Same  PROVE UNCHANGED Contract!logVars
    <2>1. Stored' = Stored  BY <1>1 DEF Stored, Complete, Unended
    <2> QED  BY <1>1, <2>1 DEF Contract!logVars
  <1>2. ASSUME NEW e \in Events, answer[e] = "none", answer' = [answer EXCEPT ![e] = "error"],
               failed', lines' = lines, Storing' = Storing \ {e}, closed' = closed
        PROVE  Contract!LogNext
    <2>1. Stored' = Stored  BY <1>2 DEF Stored, Complete, Unended
    <2>2. failed' = TRUE  BY <1>2
    <2> QED  BY <1>2, <2>1, <2>2 DEF Contract!LogNext, Contract!Refuse
  <1>3. ASSUME NEW e \in Events, answer[e] = "none", e \in Range(Stored),
               answer' = [answer EXCEPT ![e] = "ok"],
               failed' = failed, lines' = lines, Storing' = Storing, closed' = closed
        PROVE  Contract!LogNext
    <2>1. Stored' = Stored  BY <1>3 DEF Stored, Complete, Unended
    <2> QED  BY <1>3, <2>1 DEF Contract!LogNext, Contract!Acknowledge, Contract!Range, Range
  <1>4. ASSUME NEW e \in Events, answer[e] = "none", e \notin acks, writer = "idle",
               Stored' = Stored, ~failed, Storing' = {e},
               answer' = answer, failed' = failed, closed' = closed
        PROVE  Contract!LogNext
    <2>1. e \notin Range(Stored)  BY <1>0, <1>4 DEF StoredOK
    <2>2. Storing = {} /\ ~closed  BY <1>4 DEF Storing
    <2> QED  BY <1>4, <2>1, <2>2 DEF Contract!LogNext, Contract!Begin, Contract!Range, Range
  <1>20. ASSUME NEW e \in Events, Storing = {e}, Storing' = {}, Stored' = Append(Stored, e),
                answer' = answer, failed' = failed, closed' = closed
         PROVE  Contract!LogNext
    BY <1>20 DEF Contract!LogNext, Contract!Store
  <1>5. ASSUME NEW e \in Events, Emit(e)  PROVE Contract!LogNext \/ UNCHANGED Contract!logVars
    <2>1. CASE writer = "ended"
      <3>1. Stored' = Stored  BY <1>5 DEF Emit, writerVars, Stored, Complete, Unended
      <3>2. acks = {} /\ e \notin Range(Stored)  BY <1>0, <1>5, <2>1 DEF EndOK, StoredOK, Emit
      <3>3. Storing' = Storing /\ closed /\ closed'  BY <1>5, <2>1 DEF Emit, writerVars, Storing
      <3> QED
        BY <1>5, <2>1, <3>1, <3>2, <3>3
        DEF Emit, Answered, writerVars, Contract!LogNext, Contract!RefuseLate, Contract!Range, Range
    <2>2. CASE writer # "ended"
      <3>1. Same  BY <1>5, <2>2 DEF Emit, writerVars, Storing
      <3> QED  BY <3>1, <1>1
    <2> QED  BY <2>1, <2>2
  <1>6. ASSUME NEW e \in Events, Enqueue(e)  PROVE UNCHANGED Contract!logVars
    BY <1>1, <1>6 DEF Enqueue, writerVars, Storing
  <1>7. ASSUME NEW e \in Events, Takes(e)  PROVE answer[e] = "none" /\ e \notin acks /\ e # current
    <2>1. e \in Range(queue)  BY <1>0, <1>7, TakenOnce DEF Commands
    <2> QED  BY <1>0, <2>1 DEF PlacesOK, UnderWay
  <1>8. ASSUME NEW e \in Events, RefuseLatched(e)  PROVE Contract!LogNext
    <2>1. Takes(e) /\ Storing = {} /\ Storing' = {}
      BY <1>8 DEF RefuseLatched, Takes, writerVars, Storing
    <2> QED  BY <1>2, <1>7, <1>8, <2>1 DEF RefuseLatched, Answered, writerVars
  <1>9. ASSUME NEW e \in Events, StartWriting(e)  PROVE Contract!LogNext
    <2>1. Stored' = Stored  BY <1>0, <1>9, WritingStarts
    <2>2. /\ Takes(e) /\ writer = "idle" /\ ~failed /\ Storing' = {e}
          /\ answer' = answer /\ failed' = failed /\ closed' = closed
      BY <1>9 DEF StartWriting, Takes, answerVars, Storing
    <2> QED  BY <1>4, <1>7, <2>1, <2>2
  <1>10. ASSUME NEW e \in Events, FailAtOnce(e)  PROVE Contract!LogNext
    <2>1. Takes(e) /\ Storing = {} /\ Storing' = {}  BY <1>10 DEF FailAtOnce, Takes, Storing
    <2> QED  BY <1>2, <1>7, <1>10, <2>1 DEF FailAtOnce, Answered
  <1>11. ASSUME FailWriting  PROVE Contract!LogNext
    <2>1. current \in Events /\ answer[current] = "none"
      BY <1>0, <1>11 DEF FailWriting, WritersOK, PlacesOK, UnderWay
    <2>2. Storing = {current} /\ Storing' = {}  BY <1>11 DEF FailWriting, Storing
    <2> QED  BY <1>2, <1>11, <2>1, <2>2 DEF FailWriting, Answered
  <1>12. ASSUME EndLine  PROVE Contract!LogNext
    <2>1. current \in Events /\ Storing = {current} /\ Storing' = {}
      BY <1>0, <1>12 DEF EndLine, WritersOK, Storing
    <2>2. Stored' = Append(Stored, current)  BY <1>0, <1>12, LineEnds
    <2> QED  BY <1>12, <1>20, <2>1, <2>2 DEF EndLine, answerVars
  <1>13. ASSUME AcknowledgeLine  PROVE Contract!LogNext
    <2>1. current \in Events /\ answer[current] = "none"
      BY <1>0, <1>13 DEF AcknowledgeLine, WritersOK, PlacesOK, UnderWay
    <2>2. lines # <<>> /\ ~Unended /\ lines[Len(lines)].events[1] = current
      BY <1>0, <1>13 DEF AcknowledgeLine, LinesOK
    <2>3. Len(lines) \in Nat \ {0}  BY <1>0, <2>2 DEF SinkTypeOK
    <2>4. current \in Range(Stored)  BY <2>2, <2>3 DEF Stored, Complete, Range
    <2>5. Storing = {} /\ Storing' = {}  BY <1>13 DEF AcknowledgeLine, Storing
    <2> QED  BY <1>3, <1>13, <2>1, <2>4, <2>5 DEF AcknowledgeLine, Answered
  <1>14. ASSUME NEW e \in Events, HandOver(e)  PROVE Contract!LogNext
    <2>1. /\ Takes(e) /\ writer = "idle" /\ ~failed /\ Storing' = {e} /\ lines' = lines
          /\ answer' = answer /\ failed' = failed /\ closed' = closed
      BY <1>14 DEF HandOver, Takes, answerVars, Storing
    <2>2. Stored' = Stored  BY <2>1 DEF Stored, Complete, Unended
    <2> QED  BY <1>4, <1>7, <2>1, <2>2
  <1>21. ASSUME CallStore  PROVE Contract!LogNext
    <2>1. current \in Events /\ Storing = {current} /\ Storing' = {}
      BY <1>0, <1>21 DEF CallStore, WritersOK, Storing
    <2>2. Stored' = Append(Stored, current)  BY <1>0, <1>21, RecordHandedOver
    <2> QED  BY <1>20, <1>21, <2>1, <2>2 DEF CallStore, answerVars
  <1>15. ASSUME NEW e \in Events, NEW what \in {"ok", "error"}, StoreAnswers(e, what)
         PROVE  Contract!LogNext
    <2>1. answer[e] = "none" /\ e \in Range(Stored)
      BY <1>0, <1>15 DEF StoreAnswers, PlacesOK, UnderWay, StoredOK
    <2>4. Storing' = Storing /\ e \notin Storing
      BY <1>0, <1>15 DEF StoreAnswers, WritersOK, Storing
    <2>2. CASE what = "ok"
      <3>1. failed' = failed  BY <1>0, <1>15, <2>2 DEF StoreAnswers, SinkTypeOK
      <3> QED  BY <1>3, <1>15, <2>1, <2>2, <2>4, <3>1 DEF StoreAnswers, Answered
    <2>3. CASE what = "error"
      BY <1>2, <1>15, <2>1, <2>3, <2>4 DEF StoreAnswers, Answered
    <2> QED  BY <2>2, <2>3
  <1>16. ASSUME StartDraining  PROVE UNCHANGED Contract!logVars
    BY <1>1, <1>16 DEF StartDraining, Takes, answerVars, Storing
  <1>17. ASSUME End  PROVE Contract!LogNext
    <2>1. writer = "draining" /\ acks = {} /\ writer' = "ended" /\ failed' = failed /\ lines' = lines
          /\ answer' = [e \in Events |->
               IF e \in emitting \cup Range(queue) THEN "error" ELSE answer[e]]
      BY <1>17 DEF End, Drop
    <2>2. Stored' = Stored  BY <2>1 DEF Stored, Complete, Unended
    <2>3. \A e \in Range(Stored) : answer[e] # "none"  BY <1>0, <2>1 DEF StoredOK
    <2> DEFINE late == {e \in Events : e \in emitting \cup Range(queue)}
    <2>4. \A e \in late : answer[e] = "none"  BY <1>0 DEF PlacesOK, UnderWay
    <2>5. late \in SUBSET (Events \ Range(Stored))  BY <2>3, <2>4
    <2>6. answer' = [e \in Events |->
            IF e \in late /\ answer[e] = "none" THEN "error" ELSE answer[e]]
      BY <2>1, <2>4
    <2>7. Storing = {} /\ Storing' = {}  BY <2>1 DEF Storing
    <2> HIDE DEF late
    <2> QED
      BY <2>1, <2>2, <2>3, <2>5, <2>6, <2>7 DEF Contract!LogNext, Contract!Close, Contract!Range, Range
  <1>18. ASSUME NEW f \in Finishers, CallFinish(f) \/ SendFinish(f) \/ DropFinish(f)
         PROVE  UNCHANGED Contract!logVars
    BY <1>1, <1>18 DEF CallFinish, SendFinish, DropFinish, answerVars, writerVars, Storing
  <1>19. ASSUME Crash \/ UNCHANGED sinkVars  PROVE UNCHANGED Contract!logVars
    BY <1>1, <1>19 DEF Crash, sinkVars, answerVars, writerVars, Storing
  <1> QED
    BY <1>5, <1>6, <1>8, <1>9, <1>10, <1>11, <1>12, <1>13, <1>14, <1>15, <1>16, <1>17, <1>18, <1>19, <1>21
    DEF SinkNext, StoreStep, WriterStep

\* Both writers of the trace implement its contract: an event is stored once, only
\* stored events are acknowledged, no event is begun after a failure, and the writer
\* ends with nothing under way (trace.rs with_store, session.rs create).
THEOREM SinkImplementsContract == SinkSpec => KeepsContract
  <1>1. SinkInit => Contract!LogInit
    <2> SUFFICES ASSUME SinkInit  PROVE Contract!LogInit  OBVIOUS
    <2>1. lines = <<>> /\ writer = "idle" /\ failed = FALSE
          /\ answer = [e \in Events |-> "none"]
      BY DEF SinkInit
    <2>2. Complete = 0  BY <2>1 DEF Complete, Unended
    <2>3. Stored = <<>>  BY <2>2 DEF Stored
    <2> QED  BY <2>1, <2>3 DEF Contract!LogInit, Storing
  <1> QED
    BY <1>1, ContractStep, SinkInvariant, PTL DEF SinkSpec, KeepsContract, Contract!LogSpec

-----------------------------------------------------------------------------
(* Nobody is stuck.                                                        *)

\* Where the finish command is: there is one, of the caller that took the join handle,
\* and whoever waits for its answer has it in the channel or at the writer.
FinishOK ==
  /\ \A f \in Finishing : ~handle /\ \A g \in Finishing : f = g
  /\ (handle \/ \E f \in Finishers : finisher[f] = "sending") =>
       Finish \notin Range(queue) /\ writer \notin {"draining", "ended"}
  /\ \A f \in Finishers : finisher[f] = "waiting" =>
       (Finish \in Range(queue) /\ writer # "ended") \/ writer = "draining"

\* What is left in the channel when a command is taken.
LEMMA OthersStay ==
  ASSUME NEW S, NEW s \in Seq(S), s # <<>>
  PROVE  /\ Range(Tail(s)) \subseteq Range(s)
         /\ \A x \in Range(s) : x = Head(s) \/ x \in Range(Tail(s))
  <1>1. DOMAIN s = 1 .. Len(s) /\ Len(s) \in Nat \ {0} /\ Head(s) = s[1]  OBVIOUS
  <1>2. /\ DOMAIN Tail(s) = 1 .. Len(s) - 1
        /\ \A i \in 1 .. Len(s) - 1 : Tail(s)[i] = s[i + 1]
    BY <1>1
  <1>3. ASSUME NEW i \in DOMAIN s, i # 1  PROVE s[i] \in Range(Tail(s))
    <2>1. i - 1 \in DOMAIN Tail(s) /\ (i - 1) + 1 = i  BY <1>1, <1>2, <1>3
    <2>2. Tail(s)[i - 1] = s[i]  BY <1>2, <2>1
    <2> QED  BY <2>1, <2>2 DEF Range
  <1> QED  BY <1>1, <1>3, TailMembers DEF Range

\* A step of the writer other than the last takes a command that is no finish, or none.
LEMMA FinishStays ==
  ASSUME SinkTypeOK, FinishOK, UNCHANGED <<handle, finisher>>,
         writer \in {"draining", "ended"} <=> writer' \in {"draining", "ended"},
         writer = "draining" => writer' = "draining",
         Range(queue') \subseteq Range(queue) \cup Events,
         Finish \in Range(queue) => Finish \in Range(queue')
  PROVE  FinishOK'
  BY TraceAssumption DEF FinishOK, Finishing

LEMMA FinishStep ==
  ASSUME SinkInv, FinishOK, [SinkNext]_sinkVars
  PROVE  FinishOK'
  <1>1. SinkTypeOK /\ queue \in Seq(Commands) /\ WriterCapacity \in Nat \ {0}
        /\ finisher \in [Finishers -> {"new", "sending", "waiting", "ok", "error", "late", "dropped"}]
    BY TraceAssumption DEF SinkInv, SinkTypeOK
  <1>2. ASSUME NEW c \in Commands, Takes(c)
        PROVE  /\ Range(queue') \subseteq Range(queue)
               /\ c # Finish /\ Finish \in Range(queue) => Finish \in Range(queue')
               /\ writer = "idle" /\ c \in Range(queue)
    <2>1. queue # <<>> /\ c = Head(queue) /\ queue' = Tail(queue) /\ writer = "idle"
      BY <1>2 DEF Takes
    <2> QED  BY <1>1, <2>1, OthersStay, TailMembers
  <1>3. ASSUME NEW e \in Events,
               RefuseLatched(e) \/ StartWriting(e) \/ FailAtOnce(e) \/ HandOver(e)
        PROVE  FinishOK'
    <2>1. Takes(e) /\ e # Finish /\ e \in Commands /\ UNCHANGED <<handle, finisher>>
          /\ writer' \in {writer, "writing", "handing"}
      BY <1>3, TraceAssumption
      DEF RefuseLatched, StartWriting, FailAtOnce, HandOver, writerVars, finishVars, Commands
    <2> QED  BY <1>1, <1>2, <2>1, FinishStays
  <1>4. ASSUME NEW e \in Events, Emit(e) \/ StoreStep(e)  PROVE FinishOK'
    BY <1>4 DEF Emit, StoreStep, StoreAnswers, writerVars, finishVars, FinishOK, Finishing
  <1>5. ASSUME NEW e \in Events, Enqueue(e)  PROVE FinishOK'
    <2>1. Range(queue') = Range(queue) \cup {e} /\ UNCHANGED <<handle, finisher, writer>>
      BY <1>1, <1>5, AppendMembers DEF Enqueue, writerVars, finishVars, Commands
    <2> QED  BY <1>1, <2>1, FinishStays
  <1>6. CASE FailWriting \/ EndLine \/ AcknowledgeLine \/ CallStore
    <2>1. UNCHANGED <<handle, finisher, queue>> /\ writer \in {"writing", "written", "handing"}
          /\ writer' \in {"idle", "written"}
      BY <1>6 DEF FailWriting, EndLine, AcknowledgeLine, CallStore, finishVars
    <2> QED  BY <1>1, <2>1, FinishStays
  <1>7. CASE StartDraining
    <2>1. Takes(Finish) /\ Finish \in Commands /\ writer' = "draining"
          /\ UNCHANGED <<handle, finisher>>
      BY <1>7 DEF StartDraining, finishVars, Commands
    <2>2. Finish \in Range(queue)  BY <1>2, <2>1
    <2> QED  BY <2>1, <2>2 DEF FinishOK, Finishing
  <1>8. CASE End
    <2>1. /\ writer = "draining" /\ UNCHANGED handle
          /\ \A f \in Finishers : finisher'[f] # "waiting"
                                  /\ (finisher'[f] = "sending" => finisher[f] = "sending")
      BY <1>1, <1>8 DEF End, Drop
    <2> QED  BY <2>1 DEF FinishOK, Finishing
  <1>9. ASSUME NEW f \in Finishers, CallFinish(f)  PROVE FinishOK'
    <2>1. /\ Finishing = {} /\ handle' = FALSE /\ UNCHANGED <<queue, writer>>
          /\ finisher'[f] \in {"sending", "late"} /\ (finisher'[f] = "sending" => handle)
          /\ \A g \in Finishers \ {f} : finisher'[g] = finisher[g]
      BY <1>1, <1>9 DEF CallFinish, writerVars
    <2>2. Finishing' \subseteq {f}  BY <2>1 DEF Finishing
    <2> QED  BY <2>1, <2>2 DEF FinishOK, Finishing
  <1>10. ASSUME NEW f \in Finishers, SendFinish(f)  PROVE FinishOK'
    <2>1. /\ finisher[f] = "sending" /\ finisher'[f] = "waiting" /\ UNCHANGED <<handle, writer>>
          /\ \A g \in Finishers \ {f} : finisher'[g] = finisher[g]
          /\ Range(queue') = Range(queue) \cup {Finish}
      BY <1>1, <1>10, AppendMembers DEF SendFinish, writerVars, Commands
    <2>2. Finishing' = Finishing /\ f \in Finishing  BY <2>1 DEF Finishing
    <2>3. \A g \in Finishing : g = f /\ ~handle  BY <2>2 DEF FinishOK
    <2> QED  BY <2>1, <2>2, <2>3 DEF FinishOK, Finishing
  <1>11. ASSUME NEW f \in Finishers, DropFinish(f)  PROVE FinishOK'
    <2>1. /\ finisher'[f] = "dropped" /\ UNCHANGED <<handle, queue, writer>>
          /\ \A g \in Finishers \ {f} : finisher'[g] = finisher[g]
      BY <1>1, <1>11 DEF DropFinish, writerVars
    <2>2. Finishing' \subseteq Finishing  BY <2>1 DEF Finishing
    <2> QED  BY <2>1, <2>2 DEF FinishOK, Finishing
  <1>12. CASE Crash \/ UNCHANGED sinkVars
    BY <1>12 DEF Crash, sinkVars, writerVars, finishVars, FinishOK, Finishing
  <1> QED
    BY <1>3, <1>4, <1>5, <1>6, <1>7, <1>8, <1>9, <1>10, <1>11, <1>12
    DEF SinkNext, WriterStep

\* The writer, the store or the channel can take a step: the guards of what FairSink runs.
CanServe ==
  \/ writer \in {"writing", "written", "handing"}
  \/ writer = "idle" /\ queue # <<>>
  \/ writer = "draining" /\ acks = {}
  \/ acks # {}
  \/ emitting # {} /\ Len(queue) < WriterCapacity

\* Until an emit or a finish has returned, something can be done for it: no caller waits
\* for room behind a writer that waits for that caller, and a writer that awaits the
\* acknowledgements of a store takes no more commands but still ends.
THEOREM TraceNeverStuck ==
  SinkSpec => [](/\ \A e \in Events : UnderWay(e) => CanServe
                 /\ \A f \in Finishing :
                      CanServe \/ (finisher[f] = "sending" /\ Len(queue) < WriterCapacity))
  <1>1. SinkInit => FinishOK
    <2> SUFFICES ASSUME SinkInit  PROVE FinishOK  OBVIOUS
    <2>1. Finishing = {} /\ Range(queue) = {} /\ writer = "idle"
      BY DEF SinkInit, Finishing, Range
    <2> QED  BY <2>1 DEF FinishOK, SinkInit
  <1>2. SinkInv /\ FinishOK /\ [SinkNext]_sinkVars => FinishOK'  BY FinishStep
  <1>3. ASSUME SinkInv, FinishOK
        PROVE  /\ \A e \in Events : UnderWay(e) => CanServe
               /\ \A f \in Finishing :
                    CanServe \/ (finisher[f] = "sending" /\ Len(queue) < WriterCapacity)
    <2>1. /\ writer \in {"idle", "writing", "written", "handing", "draining", "ended"}
          /\ queue \in Seq(Commands) /\ WriterCapacity \in Nat \ {0}
      BY <1>3, TraceAssumption DEF SinkInv, SinkTypeOK
    <2>2. queue # <<>> /\ writer # "ended" => CanServe  BY <2>1 DEF CanServe
    <2>3. \A c \in Range(queue) : queue # <<>>  BY DEF Range
    <2>4. queue = <<>> => Len(queue) < WriterCapacity  BY <2>1
    <2>5. ASSUME NEW e \in Events, UnderWay(e)  PROVE CanServe
      <3>1. CASE e \in acks  BY <3>1 DEF CanServe
      <3>2. CASE e = current  BY <1>3, <3>2 DEF SinkInv, WritersOK, CanServe
      <3>3. CASE e \in Range(queue)
        BY <1>3, <2>2, <2>3, <3>3 DEF SinkInv, EndOK
      <3>4. CASE e \in emitting
        BY <1>3, <2>2, <2>4, <3>4 DEF SinkInv, EndOK, CanServe
      <3> QED  BY <2>5, <3>1, <3>2, <3>3, <3>4 DEF UnderWay
    <2>6. ASSUME NEW f \in Finishing
          PROVE  CanServe \/ (finisher[f] = "sending" /\ Len(queue) < WriterCapacity)
      <3>1. CASE finisher[f] = "sending"
        BY <1>3, <2>2, <2>4, <3>1 DEF FinishOK, Finishing
      <3>2. CASE finisher[f] = "waiting"
        <4>1. (Finish \in Range(queue) /\ writer # "ended") \/ writer = "draining"
          BY <1>3, <3>2 DEF FinishOK, Finishing
        <4>2. writer = "draining" => CanServe  BY DEF CanServe
        <4> QED  BY <2>2, <2>3, <4>1, <4>2
      <3> QED  BY <3>1, <3>2 DEF Finishing
    <2> QED  BY <2>5, <2>6
  <1>4. SinkInv /\ FinishOK =>
          /\ \A e \in Events : UnderWay(e) => CanServe
          /\ \A f \in Finishing :
               CanServe \/ (finisher[f] = "sending" /\ Len(queue) < WriterCapacity)
    BY <1>3
  <1> QED  BY <1>1, <1>2, <1>4, SinkInvariant, PTL DEF SinkSpec
=============================================================================
