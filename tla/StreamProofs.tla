----------------------------- MODULE StreamProofs ------------------------------
(***************************************************************************)
(* One attempt at a model call, for every set of events and every length   *)
(* of the stream.                                                          *)
(*                                                                         *)
(* An attempt settled at zero was not processed.  The charge looks at the  *)
(* error alone, and the error at the flag that the body sets when it is    *)
(* first asked about.  The invariant says what that flag knows: it is up   *)
(* as soon as a byte may have been written, so a flag that is down means   *)
(* that the server has seen nothing.                                       *)
(*                                                                         *)
(* An attempt that succeeds has consumed a whole message and its response  *)
(* is that message.  The invariant `InStep` relates the events consumed to *)
(* what the mapper and the accumulator keep of them, block by block, and   *)
(* says of the one case that neither of them notices before the end - an   *)
(* index that is held back as a server tool and known to the accumulator - *)
(* that the block was opened twice, so that it cannot become a message.    *)
(***************************************************************************)
EXTENDS Stream, FiniteSetTheorems, TLAPS

-----------------------------------------------------------------------------
(* What the flag knows.                                                    *)

(* Where the request is, what the flag says and what the server may have   *)
(* made of it.                                                             *)
FlagLeads ==
    /\ request \in {"idle", "connecting"} => server = "unreached"
    /\ request \in {"writing", "waiting", "streaming"} => started
    /\ ~started => server = "unreached"
    /\ result.end \in Zero => request = "over"

SInv == FlagLeads /\ ZeroChargeIsUnprocessed

LEMMA InitFlagLeads == Init => SInv
  BY SMT DEF Init, SInv, FlagLeads, ZeroChargeIsUnprocessed, Zero, NoResult

(* A failure is settled at zero only when the server saw nothing or has    *)
(* refused the request.                                                    *)
LEMMA FailureIsSafe ==
  ASSUME SInv, NEW error, Fails(error), UNCHANGED <<started, server>>,
         error \in Zero => server \in {"unreached", "refused"}
  PROVE  SInv'
  BY SMT DEF SInv, FlagLeads, ZeroChargeIsUnprocessed, Zero, Fails

(* What happens before a response (`classify_dispatch`).                   *)
LEMMA SendFailureIsSafe == ASSUME SInv, SendFails PROVE SInv'
  <1>1. PICK error \in {"transport", "cancelled"} : Fails(Classified(error))
    BY SMT DEF SendFails
  <1>2. Classified(error) \in Zero => server \in {"unreached", "refused"}
    BY SMT DEF SInv, FlagLeads, Classified, Zero
  <1> QED BY <1>1, <1>2, FailureIsSafe DEF SendFails

LEMMA StepFlagLeads == SInv /\ [Next]_vars => SInv'
  <1> SUFFICES ASSUME SInv, [Next]_vars PROVE SInv'
    OBVIOUS
  <1>1. CASE NotDispatched
    <2>1. server \in {"unreached", "refused"}
      BY <1>1, SMT DEF NotDispatched, SInv, FlagLeads
    <2> QED BY <1>1, <2>1, FailureIsSafe DEF NotDispatched
  <1>2. CASE Connect
    BY <1>2, SMT DEF Connect, SInv, FlagLeads, ZeroChargeIsUnprocessed
  <1>3. CASE MarkStarted
    BY <1>3, SMT DEF MarkStarted, SInv, FlagLeads, ZeroChargeIsUnprocessed
  <1>4. CASE Write
    <2>1. result.end \notin Zero
      BY <1>4, SMT DEF Write, SInv, FlagLeads
    <2> QED BY <1>4, <2>1, SMT DEF Write, SInv, FlagLeads, ZeroChargeIsUnprocessed
  <1>5. CASE SendFails
    BY <1>5, SendFailureIsSafe
  <1>6. CASE Rejected
    <2>1. HttpError \in Zero => server \in {"unreached", "refused"}
      BY SMT DEF HttpError, Zero
    <2> QED BY <1>6, <2>1, FailureIsSafe DEF Rejected
  <1>7. CASE Responds
    BY <1>7, SMT DEF Responds, SInv, FlagLeads, ZeroChargeIsUnprocessed
  <1>8. CASE GivenUp
    <2> DEFINE error == IF cancel THEN "cancelled" ELSE "idle"
    <2>1. error \notin Zero
      BY SMT DEF Zero
    <2> QED BY <1>8, <2>1, FailureIsSafe DEF GivenUp
  <1>9. CASE Cancel
    BY <1>9, SMT DEF Cancel, SInv, FlagLeads, ZeroChargeIsUnprocessed
  <1>10. CASE StreamStops
    <2>1. PICK error \in {"cancelled", "transport"} : Fails(error)
      BY <1>10, SMT DEF StreamStops
    <2> QED BY <1>10, <2>1, FailureIsSafe DEF StreamStops, Zero
  <1>11. CASE StreamBreaks
    BY <1>11, FailureIsSafe DEF StreamBreaks, Zero
  <1>12. CASE Decide
    BY <1>12, SMT DEF Decide, SInv, FlagLeads, ZeroChargeIsUnprocessed
  <1>13. CASE \E e \in Events : Consume(e)
    BY <1>13, SMT DEF Consume, SInv, FlagLeads, ZeroChargeIsUnprocessed
  <1>14. CASE \E e \in Events : Finish(e)
    <2>1. PICK e \in Events : Finish(e)
      BY <1>14
    <2>2. result'.end = "ok"
      BY <2>1, SMT DEF Finish, Response
    <2> QED BY <2>1, <2>2, SMT DEF Finish, SInv, FlagLeads, ZeroChargeIsUnprocessed, Zero
  <1>15. CASE \E e \in Events : Refuse(e)
    <2>1. PICK e \in Events : Refuse(e)
      BY <1>15
    <2>2. PICK error \in {"stream", "protocol", "other"} : Fails(error)
      BY <2>1, SMT DEF Refuse
    <2> QED BY <2>1, <2>2, FailureIsSafe DEF Refuse, Zero
  <1>16. CASE UNCHANGED vars
    BY <1>16, SMT DEF vars, SInv, FlagLeads, ZeroChargeIsUnprocessed
  <1> QED
    BY <1>1, <1>2, <1>3, <1>4, <1>5, <1>6, <1>7, <1>8, <1>9, <1>10, <1>11, <1>12,
       <1>13, <1>14, <1>15, <1>16 DEF Next

(* An attempt that is settled at zero was not processed: whatever was      *)
(* cancelled, timed out or broke off, the server was never reached or has  *)
(* refused the request (lib.rs `charge`, `classify_dispatch`).             *)
THEOREM ZeroChargeIsSafe == Spec => []ZeroChargeIsUnprocessed
  <1>1. SInv => ZeroChargeIsUnprocessed
    BY DEF SInv
  <1> QED BY <1>1, InitFlagLeads, StepFlagLeads, PTL DEF Spec

-----------------------------------------------------------------------------
(* What the mapper and the accumulator keep of the events they were given. *)

(* What one event of the history is to a block index.                      *)
IsOpening(h, i, o) == o \in Of(h, i) /\ h[o].type = "open"

(* A block that is opened: its deltas follow and fit.                      *)
Begun(h, i, o) ==
    /\ IsOpening(h, i, o)
    /\ \A j \in Of(h, i) \ {o} :
         /\ o < j /\ h[j].type = "delta"
         /\ h[o].kind \in {"server", KindOf[h[j].kind]}

(* A block that is closed: one opening, one end, and deltas between them.  *)
Ended(h, i, o, c) ==
    /\ IsOpening(h, i, o) /\ c \in Of(h, i) /\ h[c].type = "close"
    /\ \A j \in Of(h, i) \ {o, c} :
         /\ o < j /\ j < c /\ h[j].type = "delta"
         /\ h[o].kind \in {"server", KindOf[h[j].kind]}
    /\ h[o].kind = "server" => Parses(Halves(h, i))

(* Opened twice: no message, although neither side has noticed yet.        *)
OpenedTwice(h, i) == \E o, p \in Of(h, i) : o # p /\ h[o].type = "open" /\ h[p].type = "open"

(* What the accumulator knows of a block that is its own.                  *)
Collected(h, i, a) ==
    LET b == a.blocks[i] IN
    \E o \in At(h, "open") :
       /\ b.kind = h[o].kind
       /\ b.kind = "tool" => b.halves = Halves(h, i)
       /\ b.closed => \E c \in DOMAIN h : Ended(h, i, o, c)
       /\ ~b.closed => Begun(h, i, o) /\ b.kind # "server"
       /\ i \in a.invalid <=> b.closed /\ b.kind = "tool" /\ ~Parses(Halves(h, i))

BlockOK(h, m, a, i) ==
    LET held == i \in DOMAIN m.tools
        known == i \in DOMAIN a.blocks
    IN  /\ ~held /\ ~known => Of(h, i) = {}
        /\ held /\ ~known =>
             /\ \E o \in At(h, "open") : Begun(h, i, o) /\ h[o].kind = "server"
             /\ m.tools[i] = Halves(h, i)
        /\ ~held /\ known => Collected(h, i, a)
        /\ held /\ known => OpenedTwice(h, i)

(* The last counter is the one that was reported last.                     *)
UsageOK(h, u) ==
    \/ Reports(h) = {} /\ u = 0
    \/ \E j \in Reports(h) :
         /\ \A k \in Reports(h) : k <= j
         /\ u = IF h[j].usage # 0 THEN h[j].usage ELSE h[j].serving

(* Before the message starts there are only pieces of server tools.        *)
Beforehand(h, n) ==
    \A j \in 1..n : h[j].type \in {"open", "delta"} /\ (h[j].type = "open" => h[j].kind = "server")

HeaderOK(h, a) ==
    /\ ~a.header => At(h, "start") = {} /\ Beforehand(h, Len(h))
    /\ a.header => \E s \in DOMAIN h : At(h, "start") = {s} /\ Beforehand(h, s - 1)

Heard(h) == h \in Seq(Events) /\ \A j \in DOMAIN h : h[j].type \notin {"noise", "error", "stop"}

Shapes(m, a) ==
    /\ DOMAIN m = {"tools", "usage"}
    /\ DOMAIN a = {"header", "blocks", "usage", "fallback", "reason", "stopped", "invalid", "ok"}
    /\ DOMAIN m.tools \subseteq Indexes /\ DOMAIN a.blocks \subseteq Indexes
    /\ m.tools = [i \in DOMAIN m.tools |-> m.tools[i]]
    /\ \A i \in DOMAIN m.tools : m.tools[i] \in Nat
    /\ \A i \in DOMAIN a.blocks : a.blocks[i] \in Block
    /\ a.header \in BOOLEAN /\ a.fallback \in BOOLEAN /\ a.reason \in BOOLEAN
    /\ a.invalid \subseteq DOMAIN a.blocks
    /\ a.ok = TRUE /\ a.stopped = FALSE

(* What has been consumed is what the mapper and the accumulator hold.     *)
InStep(h, m, a) ==
    /\ Heard(h) /\ Shapes(m, a)
    /\ HeaderOK(h, a)
    /\ \A i \in Indexes : BlockOK(h, m, a, i)
    /\ m.usage = a.usage /\ UsageOK(h, a.usage)
    /\ a.reason <=> \E j \in At(h, "update") : h[j].reason
    /\ a.fallback <=> \E j \in Usages(h) : h[j].serving # 0

(* A response is the message that was consumed.                            *)
Matches(h, r) ==
    LET tools == {i \in Opened(h) : h[Opening(h, i)].kind = "tool"}
    IN  /\ WholeMessage(h)
        /\ DOMAIN r.blocks = Opened(h)
        /\ r.invalid = {i \in tools : ~Parses(Halves(h, i))}
        /\ r.usage = Reported(h)
        /\ r.fallback = (\E j \in Usages(h) : h[j].serving # 0)

StreamInv ==
    /\ request # "over" => InStep(consumed, mapper, acc) /\ result = NoResult
    /\ result.end = "ok" => Matches(consumed, result)

-----------------------------------------------------------------------------
(* What one more event does to the history.                                *)

Touches(e, i) == e.type \in {"open", "delta", "close"} /\ e.index = i

\* What an event of each type carries.
LEMMA EventShape ==
  ASSUME NEW e \in Events
  PROVE  /\ e.type \in {"open", "delta", "close"} => e.index \in Indexes
         /\ e.type = "open" => e.kind \in BlockKinds
         /\ e.type \in {"start", "update"} => e.usage \in Nat /\ e.serving \in Nat
         /\ e.type = "update" => e.reason \in BOOLEAN
         /\ e.type \in {"start", "open", "delta", "close", "update", "stop", "error", "noise"}
  <1>1. CASE e \in [type : {"start"}, usage : Initial, serving : Serving]
    BY <1>1, StreamAssumption
  <1>2. CASE e \in [type : {"open"}, index : Indexes, kind : BlockKinds]
    BY <1>2
  <1>3. CASE e \in [type : {"delta"}, index : Indexes, kind : DeltaKinds]
    BY <1>3
  <1>4. CASE e \in [type : {"close"}, index : Indexes]
    BY <1>4
  <1>5. CASE e \in [type : {"update"}, reason : BOOLEAN, usage : Updated, serving : Serving]
    BY <1>5, StreamAssumption
  <1>6. CASE e \in [type : {"stop", "error", "noise"}]
    BY <1>6
  <1> QED BY <1>1, <1>2, <1>3, <1>4, <1>5, <1>6 DEF Events

\* The history with one more event.
LEMMA Extended ==
  ASSUME NEW h \in Seq(Events), NEW e \in Events
  PROVE  /\ Append(h, e) \in Seq(Events) /\ Len(Append(h, e)) = Len(h) + 1
         /\ DOMAIN h = 1 .. Len(h) /\ Len(h) \in Nat
         /\ DOMAIN Append(h, e) = 1 .. Len(h) + 1
         /\ Append(h, e)[Len(h) + 1] = e
         /\ \A j \in 1 .. Len(h) : Append(h, e)[j] = h[j]
  OBVIOUS

\* Which events of a type there are then,
LEMMA ExtendedAt ==
  ASSUME NEW h \in Seq(Events), NEW e \in Events, NEW t
  PROVE  At(Append(h, e), t) = At(h, t) \cup (IF e.type = t THEN {Len(h) + 1} ELSE {})
  <1> DEFINE g == Append(h, e)
             n == Len(h) + 1
  <1>1. /\ DOMAIN h = 1 .. Len(h) /\ Len(h) \in Nat /\ DOMAIN g = 1 .. n /\ g[n] = e
        /\ \A j \in 1 .. Len(h) : g[j] = h[j]
    BY Extended
  <1> HIDE DEF g
  <1>2. \A j : j \in 1 .. n <=> j \in 1 .. Len(h) \/ j = n
    BY <1>1
  <1>3. At(g, t) = At(h, t) \cup (IF e.type = t THEN {n} ELSE {})
    BY <1>1, <1>2 DEF At
  <1> QED BY <1>3 DEF g

\* and which of a block.
LEMMA ExtendedOf ==
  ASSUME NEW h \in Seq(Events), NEW e \in Events, NEW i
  PROVE  Of(Append(h, e), i) = Of(h, i) \cup (IF Touches(e, i) THEN {Len(h) + 1} ELSE {})
  <1> DEFINE g == Append(h, e)
             n == Len(h) + 1
  <1>1. /\ DOMAIN h = 1 .. Len(h) /\ Len(h) \in Nat /\ DOMAIN g = 1 .. n /\ g[n] = e
        /\ \A j \in 1 .. Len(h) : g[j] = h[j]
    BY Extended
  <1> HIDE DEF g
  <1>2. \A j : j \in 1 .. n <=> j \in 1 .. Len(h) \/ j = n
    BY <1>1
  <1>3. Of(g, i) = Of(h, i) \cup (IF Touches(e, i) THEN {n} ELSE {})
    BY <1>1, <1>2 DEF Of, Touches
  <1> QED BY <1>3 DEF g

\* The pieces of a tool's JSON, one by one.
LEMMA ExtendedHalves ==
  ASSUME NEW h \in Seq(Events), NEW e \in Events, NEW i
  PROVE  /\ Halves(h, i) \in Nat
         /\ Halves(Append(h, e), i) =
              Halves(h, i)
                + (IF Touches(e, i) /\ e.type = "delta" /\ e.kind = "input" THEN 1 ELSE 0)
  <1> DEFINE g == Append(h, e)
             n == Len(h) + 1
             Pieces(f) == {j \in Of(f, i) : f[j].type = "delta" /\ f[j].kind = "input"}
             more == Touches(e, i) /\ e.type = "delta" /\ e.kind = "input"
  <1>1. /\ DOMAIN h = 1 .. Len(h) /\ Len(h) \in Nat /\ g[n] = e
        /\ \A j \in 1 .. Len(h) : g[j] = h[j]
    BY Extended
  <1>2. Of(g, i) = Of(h, i) \cup (IF Touches(e, i) THEN {n} ELSE {})
    BY ExtendedOf
  <1>3. Of(h, i) \subseteq 1 .. Len(h)
    BY <1>1 DEF Of
  <1> HIDE DEF g
  <1>4. Pieces(g) = IF more THEN Pieces(h) \cup {n} ELSE Pieces(h)
    BY <1>1, <1>2, <1>3
  <1>5. Pieces(h) \subseteq 1 .. Len(h) /\ n \notin Pieces(h)
    BY <1>1, <1>3
  <1> HIDE DEF Pieces
  <1>6. IsFiniteSet(Pieces(h))
    <2>1. IsFiniteSet(1 .. Len(h))
      BY <1>1, FS_Interval
    <2> QED BY <1>5, <2>1, FS_Subset
  <1>7. Cardinality(Pieces(h)) \in Nat
    BY <1>6, FS_CardinalityType
  <1>8. Cardinality(Pieces(h) \cup {n}) = Cardinality(Pieces(h)) + 1
    BY <1>5, <1>6, FS_AddElement
  <1>9. Cardinality(Pieces(g)) = Cardinality(Pieces(h)) + (IF more THEN 1 ELSE 0)
    BY <1>4, <1>7, <1>8
  <1> QED BY <1>7, <1>9 DEF g, Halves, Pieces

-----------------------------------------------------------------------------
(* What the events that follow each other say of one block.                *)

\* An event of another block changes nothing about this one.
LEMMA SameBegun ==
  ASSUME NEW h \in Seq(Events), NEW e \in Events, NEW i, ~Touches(e, i), NEW o \in DOMAIN h
  PROVE  /\ Of(Append(h, e), i) = Of(h, i)
         /\ Halves(Append(h, e), i) = Halves(h, i)
         /\ Begun(h, i, o) => Begun(Append(h, e), i, o)
         /\ \A c \in DOMAIN h : Ended(h, i, o, c) => Ended(Append(h, e), i, o, c)
         /\ Append(h, e)[o] = h[o] /\ o \in DOMAIN Append(h, e)
  <1> DEFINE g == Append(h, e)
  <1>1. /\ DOMAIN h = 1 .. Len(h) /\ Len(h) \in Nat /\ DOMAIN g = 1 .. Len(h) + 1
        /\ \A j \in 1 .. Len(h) : g[j] = h[j]
    BY Extended
  <1>2. Of(g, i) = Of(h, i)
    BY ExtendedOf
  <1>3. Halves(g, i) = Halves(h, i)
    BY ExtendedHalves
  <1>4. Of(h, i) \subseteq 1 .. Len(h)
    BY <1>1 DEF Of
  <1> HIDE DEF g
  <1>5. Begun(h, i, o) => Begun(g, i, o)
    BY <1>1, <1>2, <1>4 DEF Begun, IsOpening
  <1>6. ASSUME NEW c \in DOMAIN h, Ended(h, i, o, c) PROVE Ended(g, i, o, c)
    BY <1>1, <1>2, <1>3, <1>4, <1>6 DEF Ended, IsOpening
  <1>7. o \in DOMAIN g /\ g[o] = h[o]
    BY <1>1
  <1> QED BY <1>2, <1>3, <1>5, <1>6, <1>7 DEF g

\* An event of another block leaves this one as it is.
LEMMA SameBlock ==
  ASSUME NEW h \in Seq(Events), NEW e \in Events, NEW i, ~Touches(e, i),
         NEW m, NEW a, NEW m2, NEW a2, BlockOK(h, m, a, i),
         i \in DOMAIN m2.tools <=> i \in DOMAIN m.tools,
         i \in DOMAIN m.tools => m2.tools[i] = m.tools[i],
         i \in DOMAIN a2.blocks <=> i \in DOMAIN a.blocks,
         i \in DOMAIN a.blocks => a2.blocks[i] = a.blocks[i],
         i \in a2.invalid <=> i \in a.invalid
  PROVE  BlockOK(Append(h, e), m2, a2, i)
  <1> DEFINE g == Append(h, e)
  <1>1. /\ DOMAIN h = 1 .. Len(h) /\ Len(h) \in Nat /\ DOMAIN g = 1 .. Len(h) + 1
        /\ \A j \in 1 .. Len(h) : g[j] = h[j]
    BY Extended
  <1>2. Of(g, i) = Of(h, i) /\ Halves(g, i) = Halves(h, i)
    <2>1. Of(g, i) = Of(h, i)
      BY ExtendedOf
    <2>2. Halves(g, i) = Halves(h, i)
      BY ExtendedHalves
    <2> QED BY <2>1, <2>2
  <1>3. \A o \in DOMAIN h :
          /\ Begun(h, i, o) => Begun(g, i, o)
          /\ \A c \in DOMAIN h : Ended(h, i, o, c) => Ended(g, i, o, c)
    BY SameBegun
  <1>4. /\ DOMAIN h \subseteq DOMAIN g /\ Of(h, i) \subseteq DOMAIN h
        /\ \A o \in DOMAIN h : g[o] = h[o]
    BY <1>1 DEF Of
  <1>5. At(h, "open") \subseteq DOMAIN h /\ At(h, "open") \subseteq At(g, "open")
    BY <1>4 DEF At
  <1> HIDE DEF g
  <1>6. OpenedTwice(h, i) => OpenedTwice(g, i)
    BY <1>2, <1>4 DEF OpenedTwice
  <1>7. i \in DOMAIN a.blocks /\ Collected(h, i, a) => Collected(g, i, a2)
    <2> SUFFICES ASSUME i \in DOMAIN a.blocks, Collected(h, i, a) PROVE Collected(g, i, a2)
      OBVIOUS
    <2> DEFINE b == a.blocks[i]
    <2>1. PICK o \in At(h, "open") :
            /\ b.kind = h[o].kind
            /\ b.kind = "tool" => b.halves = Halves(h, i)
            /\ b.closed => \E c \in DOMAIN h : Ended(h, i, o, c)
            /\ ~b.closed => Begun(h, i, o) /\ b.kind # "server"
            /\ i \in a.invalid <=> b.closed /\ b.kind = "tool" /\ ~Parses(Halves(h, i))
      BY DEF Collected
    <2>2. b = a2.blocks[i] /\ o \in At(g, "open") /\ o \in DOMAIN h /\ g[o] = h[o]
      BY <1>4, <1>5
    <2> HIDE DEF b
    <2>3. /\ b.closed => \E c \in DOMAIN g : Ended(g, i, o, c)
          /\ ~b.closed => Begun(g, i, o)
      BY <1>3, <1>4, <2>1, <2>2
    <2> QED BY <1>2, <2>1, <2>2, <2>3 DEF Collected
  <1>8. (\E o \in At(h, "open") : Begun(h, i, o) /\ h[o].kind = "server") =>
          \E o \in At(g, "open") : Begun(g, i, o) /\ g[o].kind = "server"
    BY <1>3, <1>4, <1>5
  <1>9. BlockOK(g, m2, a2, i)
    BY <1>2, <1>6, <1>7, <1>8 DEF BlockOK
  <1> QED BY <1>9 DEF g

\* An event of this block is the last one of it.
LEMMA TouchedBlock ==
  ASSUME NEW h \in Seq(Events), NEW e \in Events, NEW i, Touches(e, i)
  PROVE  /\ Of(Append(h, e), i) = Of(h, i) \cup {Len(h) + 1}
         /\ Of(h, i) \subseteq 1 .. Len(h) /\ Len(h) \in Nat /\ DOMAIN h = 1 .. Len(h)
         /\ DOMAIN Append(h, e) = 1 .. Len(h) + 1
         /\ Append(h, e)[Len(h) + 1] = e
         /\ \A j \in 1 .. Len(h) : Append(h, e)[j] = h[j]
         /\ Halves(h, i) \in Nat
         /\ Of(h, i) = {} => Halves(h, i) = 0
         /\ Halves(Append(h, e), i) =
              Halves(h, i) + (IF e.type = "delta" /\ e.kind = "input" THEN 1 ELSE 0)
         /\ e.type = "open" => Len(h) + 1 \in At(Append(h, e), "open")
         /\ At(h, "open") \subseteq At(Append(h, e), "open") \cap (1 .. Len(h))
  <1> DEFINE g == Append(h, e)
  <1>1. /\ DOMAIN h = 1 .. Len(h) /\ Len(h) \in Nat /\ DOMAIN g = 1 .. Len(h) + 1
        /\ g[Len(h) + 1] = e /\ \A j \in 1 .. Len(h) : g[j] = h[j]
    BY Extended
  <1>2. Of(g, i) = Of(h, i) \cup {Len(h) + 1}
    BY ExtendedOf
  <1>3. /\ Halves(h, i) \in Nat
        /\ Halves(g, i) = Halves(h, i) + (IF e.type = "delta" /\ e.kind = "input" THEN 1 ELSE 0)
    BY ExtendedHalves
  <1>4. Of(h, i) = {} => Halves(h, i) = 0
    <2>1. SUFFICES ASSUME Of(h, i) = {} PROVE Halves(h, i) = 0
      OBVIOUS
    <2>2. {j \in Of(h, i) : h[j].type = "delta" /\ h[j].kind = "input"} = {}
      BY <2>1
    <2> QED BY <2>2, FS_EmptySet DEF Halves
  <1> HIDE DEF g
  <1>5. Of(h, i) \subseteq 1 .. Len(h)
    BY <1>1 DEF Of
  <1>6. e.type = "open" => Len(h) + 1 \in At(g, "open")
    BY <1>1 DEF At
  <1>7. At(h, "open") \subseteq At(g, "open") \cap (1 .. Len(h))
    BY <1>1 DEF At
  <1> QED BY <1>1, <1>2, <1>3, <1>4, <1>5, <1>6, <1>7 DEF g

\* A block that was opened twice stays so.
LEMMA StillTwice ==
  ASSUME NEW h \in Seq(Events), NEW e \in Events, NEW i, OpenedTwice(h, i)
  PROVE  OpenedTwice(Append(h, e), i)
  <1> DEFINE g == Append(h, e)
  <1>1. /\ DOMAIN h = 1 .. Len(h) /\ \A j \in 1 .. Len(h) : g[j] = h[j]
    BY Extended
  <1>2. Of(h, i) \subseteq Of(g, i)
    BY ExtendedOf
  <1>3. Of(h, i) \subseteq 1 .. Len(h)
    BY <1>1 DEF Of
  <1> HIDE DEF g
  <1>4. OpenedTwice(g, i)
    BY <1>1, <1>2, <1>3 DEF OpenedTwice
  <1> QED BY <1>4 DEF g

\* A second opening, of whatever kind.
LEMMA SecondOpening ==
  ASSUME NEW h \in Seq(Events), NEW e \in Events, NEW i, Touches(e, i), e.type = "open",
         NEW o, IsOpening(h, i, o)
  PROVE  OpenedTwice(Append(h, e), i)
  <1> DEFINE g == Append(h, e)
             n == Len(h) + 1
  <1>1. /\ Of(g, i) = Of(h, i) \cup {n} /\ Of(h, i) \subseteq 1 .. Len(h)
        /\ Len(h) \in Nat /\ g[n] = e /\ \A j \in 1 .. Len(h) : g[j] = h[j]
    BY TouchedBlock
  <1> HIDE DEF g
  <1>2. o \in Of(g, i) /\ n \in Of(g, i) /\ o # n /\ g[o].type = "open" /\ g[n].type = "open"
    BY <1>1 DEF IsOpening
  <1>3. OpenedTwice(g, i)
    BY <1>2 DEF OpenedTwice
  <1> QED BY <1>3 DEF g

\* The first opening of a block.
LEMMA FirstOpening ==
  ASSUME NEW h \in Seq(Events), NEW e \in Events, NEW i, Touches(e, i), e.type = "open",
         Of(h, i) = {}
  PROVE  /\ Len(h) + 1 \in At(Append(h, e), "open") /\ Begun(Append(h, e), i, Len(h) + 1)
         /\ Append(h, e)[Len(h) + 1] = e /\ Halves(Append(h, e), i) = 0
  <1> DEFINE g == Append(h, e)
             n == Len(h) + 1
  <1>1. Of(g, i) = {n} /\ g[n] = e /\ n \in At(g, "open")
    BY TouchedBlock
  <1>2. Halves(g, i) = 0
    BY TouchedBlock
  <1> HIDE DEF g
  <1>3. Begun(g, i, n)
    BY <1>1 DEF Begun, IsOpening
  <1> QED BY <1>1, <1>2, <1>3 DEF g

\* One more delta.
LEMMA MoreDelta ==
  ASSUME NEW h \in Seq(Events), NEW e \in Events, NEW i, Touches(e, i), e.type = "delta",
         NEW o \in At(h, "open"), Begun(h, i, o), h[o].kind \in {"server", KindOf[e.kind]}
  PROVE  /\ o \in At(Append(h, e), "open") /\ Append(h, e)[o] = h[o]
         /\ Begun(Append(h, e), i, o)
  <1> DEFINE g == Append(h, e)
             n == Len(h) + 1
  <1>1. /\ Of(g, i) = Of(h, i) \cup {n} /\ Of(h, i) \subseteq 1 .. Len(h)
        /\ Len(h) \in Nat /\ g[n] = e /\ \A j \in 1 .. Len(h) : g[j] = h[j]
        /\ o \in At(g, "open") /\ o \in 1 .. Len(h)
    BY TouchedBlock
  <1> HIDE DEF g
  <1>2. \A j \in Of(g, i) \ {o} : j = n \/ j \in Of(h, i) \ {o}
    BY <1>1
  <1>3. IsOpening(g, i, o)
    BY <1>1 DEF Begun, IsOpening
  <1>4. Begun(g, i, o)
    BY <1>1, <1>2, <1>3 DEF Begun
  <1> QED BY <1>1, <1>4 DEF g

\* The end of a block.
LEMMA LastEvent ==
  ASSUME NEW h \in Seq(Events), NEW e \in Events, NEW i, Touches(e, i), e.type = "close",
         NEW o \in At(h, "open"), Begun(h, i, o), h[o].kind = "server" => Parses(Halves(h, i))
  PROVE  /\ o \in At(Append(h, e), "open") /\ Append(h, e)[o] = h[o]
         /\ Len(h) + 1 \in DOMAIN Append(h, e)
         /\ Ended(Append(h, e), i, o, Len(h) + 1)
         /\ Halves(Append(h, e), i) = Halves(h, i)
  <1> DEFINE g == Append(h, e)
             n == Len(h) + 1
  <1>1. /\ Of(g, i) = Of(h, i) \cup {n} /\ Of(h, i) \subseteq 1 .. Len(h)
        /\ Len(h) \in Nat /\ g[n] = e /\ \A j \in 1 .. Len(h) : g[j] = h[j]
        /\ o \in At(g, "open") /\ o \in 1 .. Len(h) /\ n \in DOMAIN g
    BY TouchedBlock
  <1>2. Halves(g, i) = Halves(h, i)
    BY TouchedBlock
  <1> HIDE DEF g
  <1>3. \A j \in Of(g, i) \ {o, n} : j \in Of(h, i) \ {o} /\ j < n
    BY <1>1
  <1>4. IsOpening(g, i, o) /\ n \in Of(g, i) /\ g[n].type = "close"
    BY <1>1 DEF Begun, IsOpening
  <1>5. Ended(g, i, o, n)
    BY <1>1, <1>2, <1>3, <1>4 DEF Begun, Ended
  <1> QED BY <1>1, <1>2, <1>5 DEF g

\* Every block that is known has an opening in the history.
LEMMA HasOpening ==
  ASSUME NEW h, NEW m, NEW a, NEW i, BlockOK(h, m, a, i),
         i \in DOMAIN m.tools \/ i \in DOMAIN a.blocks,
         \A j \in DOMAIN a.blocks : a.blocks[j] \in Block
  PROVE  \E o : IsOpening(h, i, o)
  <1>1. CASE i \in DOMAIN m.tools /\ i \in DOMAIN a.blocks
    BY <1>1 DEF BlockOK, OpenedTwice, IsOpening
  <1>2. CASE i \in DOMAIN m.tools /\ i \notin DOMAIN a.blocks
    BY <1>2 DEF BlockOK, Begun
  <1>3. CASE i \notin DOMAIN m.tools /\ i \in DOMAIN a.blocks
    <2>1. Collected(h, i, a) /\ a.blocks[i].closed \in BOOLEAN
      BY <1>3 DEF BlockOK, Block
    <2> QED BY <2>1 DEF Collected, Begun, Ended
  <1> QED BY <1>1, <1>2, <1>3

-----------------------------------------------------------------------------
(* The block that an event is about.                                       *)

\* A server tool starts: it is held back.
LEMMA HoldBlock ==
  ASSUME NEW h \in Seq(Events), NEW e \in Events, NEW i, Touches(e, i),
         NEW m, NEW a, NEW m2, BlockOK(h, m, a, i),
         \A j \in DOMAIN a.blocks : a.blocks[j] \in Block,
         e.type = "open", e.kind = "server", i \notin DOMAIN m.tools,
         i \in DOMAIN m2.tools, m2.tools[i] = 0
  PROVE  BlockOK(Append(h, e), m2, a, i)
  <1>1. CASE i \in DOMAIN a.blocks
    <2>1. PICK o : IsOpening(h, i, o)
      BY <1>1, HasOpening
    <2>2. OpenedTwice(Append(h, e), i)
      BY <2>1, SecondOpening
    <2> QED BY <1>1, <2>2 DEF BlockOK
  <1>2. CASE i \notin DOMAIN a.blocks
    <2>1. Of(h, i) = {}
      BY <1>2 DEF BlockOK
    <2>2. /\ Len(h) + 1 \in At(Append(h, e), "open") /\ Begun(Append(h, e), i, Len(h) + 1)
          /\ Append(h, e)[Len(h) + 1] = e /\ Halves(Append(h, e), i) = 0
      BY <2>1, FirstOpening
    <2> QED BY <1>2, <2>2 DEF BlockOK
  <1> QED BY <1>1, <1>2

\* Any other block starts in the accumulator.
LEMMA OpenBlockStep ==
  ASSUME NEW h \in Seq(Events), NEW e \in Events, NEW i, Touches(e, i),
         NEW m, NEW a, NEW a2, BlockOK(h, m, a, i),
         \A j \in DOMAIN a.blocks : a.blocks[j] \in Block, a.invalid \subseteq DOMAIN a.blocks,
         e.type = "open", e.kind # "server", i \notin DOMAIN a.blocks,
         i \in DOMAIN a2.blocks, a2.blocks[i] = NewBlock(e.kind), a2.invalid = a.invalid
  PROVE  BlockOK(Append(h, e), m, a2, i)
  <1>1. CASE i \in DOMAIN m.tools
    <2>1. PICK o : IsOpening(h, i, o)
      BY <1>1, HasOpening
    <2>2. OpenedTwice(Append(h, e), i)
      BY <2>1, SecondOpening
    <2> QED BY <1>1, <2>2 DEF BlockOK
  <1>2. CASE i \notin DOMAIN m.tools
    <2>1. Of(h, i) = {}
      BY <1>2 DEF BlockOK
    <2>2. /\ Len(h) + 1 \in At(Append(h, e), "open") /\ Begun(Append(h, e), i, Len(h) + 1)
          /\ Append(h, e)[Len(h) + 1] = e /\ Halves(Append(h, e), i) = 0
      BY <2>1, FirstOpening
    <2>3. /\ a2.blocks[i].kind = e.kind /\ a2.blocks[i].halves = 0
          /\ a2.blocks[i].closed = FALSE
      BY DEF NewBlock
    <2>4. Collected(Append(h, e), i, a2)
      BY <2>2, <2>3 DEF Collected
    <2> QED BY <1>2, <2>4 DEF BlockOK
  <1> QED BY <1>1, <1>2

\* A delta of a server tool.
LEMMA HeldDelta ==
  ASSUME NEW h \in Seq(Events), NEW e \in Events, NEW i, Touches(e, i),
         NEW m, NEW a, NEW m2, BlockOK(h, m, a, i),
         e.type = "delta", i \in DOMAIN m.tools, i \in DOMAIN m2.tools,
         m2.tools[i] = m.tools[i] + (IF e.kind = "input" THEN 1 ELSE 0)
  PROVE  BlockOK(Append(h, e), m2, a, i)
  <1>1. CASE i \in DOMAIN a.blocks
    <2>1. OpenedTwice(Append(h, e), i)
      BY <1>1, StillTwice DEF BlockOK
    <2> QED BY <1>1, <2>1 DEF BlockOK
  <1>2. CASE i \notin DOMAIN a.blocks
    <2>1. PICK o \in At(h, "open") : Begun(h, i, o) /\ h[o].kind = "server"
      BY <1>2 DEF BlockOK
    <2>2. /\ o \in At(Append(h, e), "open") /\ Append(h, e)[o] = h[o]
          /\ Begun(Append(h, e), i, o)
      BY <2>1, MoreDelta
    <2>3. m2.tools[i] = Halves(Append(h, e), i)
      BY <1>2, TouchedBlock DEF BlockOK
    <2> QED BY <1>2, <2>1, <2>2, <2>3 DEF BlockOK
  <1> QED BY <1>1, <1>2

\* A delta of an open block of the accumulator.
LEMMA BlockDelta ==
  ASSUME NEW h \in Seq(Events), NEW e \in Events, NEW i, Touches(e, i),
         NEW m, NEW a, NEW a2, BlockOK(h, m, a, i),
         e.type = "delta", i \notin DOMAIN m.tools, i \in DOMAIN a.blocks, i \in DOMAIN a2.blocks,
         a.blocks[i].closed = FALSE, a2.blocks[i].closed = FALSE,
         a.blocks[i].kind = KindOf[e.kind], a2.blocks[i].kind = a.blocks[i].kind,
         a2.blocks[i].halves = a.blocks[i].halves + (IF e.kind = "input" THEN 1 ELSE 0),
         a2.invalid = a.invalid
  PROVE  BlockOK(Append(h, e), m, a2, i)
  <1>1. PICK o \in At(h, "open") :
          /\ a.blocks[i].kind = h[o].kind
          /\ a.blocks[i].kind = "tool" => a.blocks[i].halves = Halves(h, i)
          /\ Begun(h, i, o) /\ a.blocks[i].kind # "server" /\ i \notin a.invalid
    BY DEF BlockOK, Collected
  <1>2. /\ o \in At(Append(h, e), "open") /\ Append(h, e)[o] = h[o]
        /\ Begun(Append(h, e), i, o)
    BY <1>1, MoreDelta
  <1>3. Halves(Append(h, e), i) = Halves(h, i) + (IF e.kind = "input" THEN 1 ELSE 0)
    BY TouchedBlock
  <1>4. Collected(Append(h, e), i, a2)
    BY <1>1, <1>2, <1>3 DEF Collected
  <1> QED BY <1>4 DEF BlockOK

\* A server tool ends and becomes a block at once.
LEMMA HeldEnds ==
  ASSUME NEW h \in Seq(Events), NEW e \in Events, NEW i, Touches(e, i),
         NEW m, NEW a, NEW m2, NEW a2, BlockOK(h, m, a, i), a.invalid \subseteq DOMAIN a.blocks,
         e.type = "close", i \in DOMAIN m.tools, Parses(m.tools[i]), i \notin DOMAIN m2.tools,
         i \notin DOMAIN a.blocks, i \in DOMAIN a2.blocks,
         a2.blocks[i].kind = "server", a2.blocks[i].closed = TRUE, i \notin a2.invalid
  PROVE  BlockOK(Append(h, e), m2, a2, i)
  <1>1. PICK o \in At(h, "open") : Begun(h, i, o) /\ h[o].kind = "server"
    BY DEF BlockOK
  <1>2. Parses(Halves(h, i))
    BY DEF BlockOK
  <1>3. /\ o \in At(Append(h, e), "open") /\ Append(h, e)[o] = h[o]
        /\ Len(h) + 1 \in DOMAIN Append(h, e)
        /\ Ended(Append(h, e), i, o, Len(h) + 1)
        /\ Halves(Append(h, e), i) = Halves(h, i)
    <2>1. h[o].kind = "server" => Parses(Halves(h, i))
      BY <1>2
    <2>2. o \in At(h, "open") /\ Begun(h, i, o)
      BY <1>1
    <2> QED BY <2>1, <2>2, LastEvent
  <1>4. Collected(Append(h, e), i, a2)
    BY <1>1, <1>3 DEF Collected
  <1> QED BY <1>4 DEF BlockOK

\* A block of the accumulator ends, and its input is judged.
LEMMA BlockEnds ==
  ASSUME NEW h \in Seq(Events), NEW e \in Events, NEW i, Touches(e, i),
         NEW m, NEW a, NEW a2, BlockOK(h, m, a, i),
         e.type = "close", i \notin DOMAIN m.tools, i \in DOMAIN a.blocks, i \in DOMAIN a2.blocks,
         a.blocks[i].closed = FALSE, a2.blocks[i].closed = TRUE,
         a2.blocks[i].kind = a.blocks[i].kind, a2.blocks[i].halves = a.blocks[i].halves,
         i \in a2.invalid <=> i \in a.invalid \/ Malformed(a, e)
  PROVE  BlockOK(Append(h, e), m, a2, i)
  <1>1. PICK o \in At(h, "open") :
          /\ a.blocks[i].kind = h[o].kind
          /\ a.blocks[i].kind = "tool" => a.blocks[i].halves = Halves(h, i)
          /\ Begun(h, i, o) /\ a.blocks[i].kind # "server" /\ i \notin a.invalid
    BY DEF BlockOK, Collected
  <1>2. /\ o \in At(Append(h, e), "open") /\ Append(h, e)[o] = h[o]
        /\ Len(h) + 1 \in DOMAIN Append(h, e)
        /\ Ended(Append(h, e), i, o, Len(h) + 1)
        /\ Halves(Append(h, e), i) = Halves(h, i)
    BY <1>1, LastEvent
  <1>3. Malformed(a, e) <=> a.blocks[i].kind = "tool" /\ ~Parses(a.blocks[i].halves)
    BY DEF Malformed, Touches
  <1>4. Collected(Append(h, e), i, a2)
    BY <1>1, <1>2, <1>3 DEF Collected
  <1> QED BY <1>4 DEF BlockOK

-----------------------------------------------------------------------------
(* What the other parts of the invariant make of an event.                 *)

\* A piece of a block says nothing of the header, the usage or the model.
LEMMA PieceCarries ==
  ASSUME NEW h \in Seq(Events), NEW e \in Events, e.type \in {"open", "delta", "close"}
  PROVE  /\ At(Append(h, e), "start") = At(h, "start")
         /\ At(Append(h, e), "update") = At(h, "update")
         /\ \A j \in DOMAIN h : Append(h, e)[j] = h[j]
         /\ At(h, "start") \cup At(h, "update") \subseteq DOMAIN h
         /\ \A u : UsageOK(h, u) => UsageOK(Append(h, e), u)
  <1> DEFINE g == Append(h, e)
  <1>1. /\ At(g, "start") = At(h, "start") /\ At(g, "update") = At(h, "update")
    <2>1. /\ At(g, "start") = At(h, "start") \cup (IF e.type = "start" THEN {Len(h) + 1} ELSE {})
          /\ At(g, "update") = At(h, "update") \cup (IF e.type = "update" THEN {Len(h) + 1} ELSE {})
      BY ExtendedAt
    <2> QED BY <2>1
  <1>2. \A j \in DOMAIN h : g[j] = h[j]
    BY Extended
  <1>3. At(h, "start") \cup At(h, "update") \subseteq DOMAIN h
    BY DEF At
  <1> HIDE DEF g
  <1>4. Reports(g) = Reports(h) /\ Reports(h) \subseteq DOMAIN h
    BY <1>1, <1>2, <1>3 DEF Reports, Usages
  <1>5. ASSUME NEW u, UsageOK(h, u) PROVE UsageOK(g, u)
    BY <1>2, <1>4, <1>5 DEF UsageOK
  <1> QED BY <1>1, <1>2, <1>3, <1>5 DEF g

\* What came before the message does not change.
LEMMA BeforehandKept ==
  ASSUME NEW h \in Seq(Events), NEW e \in Events, NEW n \in 0 .. Len(h), Beforehand(h, n)
  PROVE  Beforehand(Append(h, e), n)
  <1>1. \A j \in 1 .. n : j \in 1 .. Len(h)
    OBVIOUS
  <1> QED BY <1>1, Extended DEF Beforehand

\* A piece of a block before the message starts is one of a server tool.
LEMMA PieceHeader ==
  ASSUME NEW h \in Seq(Events), NEW e \in Events, e.type \in {"open", "delta", "close"},
         NEW a, NEW a2, a.header \in BOOLEAN, HeaderOK(h, a), a2.header = a.header,
         ~a.header => e.type # "close" /\ (e.type = "open" => e.kind = "server")
  PROVE  HeaderOK(Append(h, e), a2)
  <1> DEFINE g == Append(h, e)
  <1>1. /\ DOMAIN h = 1 .. Len(h) /\ Len(h) \in Nat /\ DOMAIN g = 1 .. Len(h) + 1
        /\ Len(g) = Len(h) + 1 /\ g[Len(h) + 1] = e /\ \A j \in 1 .. Len(h) : g[j] = h[j]
    BY Extended
  <1>2. At(g, "start") = At(h, "start")
    BY PieceCarries
  <1>3. \A n \in 0 .. Len(h) : Beforehand(h, n) => Beforehand(g, n)
    BY BeforehandKept
  <1> HIDE DEF g
  <1>4. CASE a.header
    <2>1. PICK s \in DOMAIN h : At(h, "start") = {s} /\ Beforehand(h, s - 1)
      BY <1>4 DEF HeaderOK
    <2>2. s \in DOMAIN g /\ s - 1 \in 0 .. Len(h)
      BY <1>1
    <2>3. Beforehand(g, s - 1)
      BY <1>3, <2>1, <2>2
    <2> QED BY <1>2, <1>4, <2>1, <2>2, <2>3 DEF HeaderOK, g
  <1>5. CASE ~a.header
    <2>1. At(g, "start") = {} /\ Beforehand(h, Len(h))
      BY <1>2, <1>5 DEF HeaderOK
    <2>2. \A j \in 1 .. Len(g) : j \in 1 .. Len(h) \/ j = Len(h) + 1
      BY <1>1
    <2>3. Beforehand(g, Len(g))
      BY <1>1, <1>5, <2>1, <2>2 DEF Beforehand
    <2> QED BY <1>5, <2>1, <2>3 DEF HeaderOK, g
  <1> QED BY <1>4, <1>5

\* Only events that mean something are kept.
LEMMA HeardMore ==
  ASSUME NEW h, Heard(h), NEW e \in Events, e.type \notin {"noise", "error", "stop"}
  PROVE  Heard(Append(h, e))
  <1>1. h \in Seq(Events)
    BY DEF Heard
  <1>2. \A j \in 1 .. Len(h) + 1 : j \in 1 .. Len(h) \/ j = Len(h) + 1
    BY <1>1
  <1> QED BY <1>1, <1>2, Extended DEF Heard

\* A piece of a block, given what it does to the block it belongs to.
LEMMA PieceStep ==
  ASSUME NEW h, NEW m, NEW a, NEW m2, NEW a2, InStep(h, m, a), Shapes(m2, a2),
         NEW e \in Events, e.type \in {"open", "delta", "close"},
         ~a.header => e.type # "close" /\ (e.type = "open" => e.kind = "server"),
         a2.header = a.header, a2.usage = a.usage, a2.reason = a.reason,
         a2.fallback = a.fallback, m2.usage = m.usage,
         \A i \in Indexes : i # e.index =>
            /\ i \in DOMAIN m2.tools <=> i \in DOMAIN m.tools
            /\ i \in DOMAIN m.tools => m2.tools[i] = m.tools[i]
            /\ i \in DOMAIN a2.blocks <=> i \in DOMAIN a.blocks
            /\ i \in DOMAIN a.blocks => a2.blocks[i] = a.blocks[i]
            /\ i \in a2.invalid <=> i \in a.invalid,
         BlockOK(Append(h, e), m2, a2, e.index)
  PROVE  InStep(Append(h, e), m2, a2)
  <1> DEFINE g == Append(h, e)
  <1>1. h \in Seq(Events) /\ Heard(g)
    BY HeardMore DEF InStep, Heard
  <1>2. HeaderOK(g, a2)
    BY <1>1, PieceHeader DEF InStep, Shapes
  <1>3. \A i \in Indexes : BlockOK(g, m2, a2, i)
    <2> SUFFICES ASSUME NEW i \in Indexes PROVE BlockOK(g, m2, a2, i)
      OBVIOUS
    <2>1. CASE i = e.index
      BY <2>1
    <2>2. CASE i # e.index
      <3>1. ~Touches(e, i) /\ BlockOK(h, m, a, i)
        BY <2>2 DEF Touches, InStep
      <3> QED BY <1>1, <2>2, <3>1, SameBlock
    <2> QED BY <2>1, <2>2
  <1>4. /\ At(g, "update") = At(h, "update") /\ Usages(g) = Usages(h)
        /\ At(h, "update") \subseteq DOMAIN h /\ Usages(h) \subseteq DOMAIN h
        /\ \A j \in DOMAIN h : g[j] = h[j]
        /\ UsageOK(h, a.usage) => UsageOK(g, a.usage)
    BY <1>1, PieceCarries DEF Usages
  <1> HIDE DEF g
  <1>5. /\ m2.usage = a2.usage /\ UsageOK(g, a2.usage)
        /\ a2.reason <=> \E j \in At(g, "update") : g[j].reason
        /\ a2.fallback <=> \E j \in Usages(g) : g[j].serving # 0
    BY <1>4 DEF InStep
  <1>6. InStep(g, m2, a2)
    BY <1>1, <1>2, <1>3, <1>5 DEF InStep
  <1> QED BY <1>6 DEF g

-----------------------------------------------------------------------------
(* What the mapper yields and the accumulator takes.                       *)

\* The mapper yields nothing, one event
LEMMA Yielded ==
  ASSUME NEW a, NEW e
  PROVE  PushAll(a, <<>>) = a /\ PushAll(a, <<e>>) = Push(a, e)
  BY DEF PushAll

\* or two.
LEMMA YieldedTwo ==
  ASSUME NEW a, NEW e, NEW f
  PROVE  PushAll(a, <<e, f>>) = Push(Push(a, e), f)
  BY DEF PushAll

\* A push that is accepted is what it does.
LEMMA AcceptedPush ==
  ASSUME NEW a, NEW e, "ok" \in DOMAIN a, Push(a, e).ok = TRUE
  PROVE  a.ok = TRUE /\ CanPush(a, e) /\ Push(a, e) = Pushed(a, e)
  BY DEF Push

\* A server tool is opened in the mapper.
LEMMA StepHold ==
  ASSUME NEW h, NEW m, NEW a, InStep(h, m, a), NEW e \in Events,
         e.type = "open", e.kind = "server", CanMap(m, e)
  PROVE  InStep(Append(h, e), NextMapper(m, e), PushAll(a, Mapped(m, e)))
  <1> DEFINE m2 == NextMapper(m, e)
  <1>1. PushAll(a, Mapped(m, e)) = a
    BY Yielded DEF Mapped
  <1>2. e.index \notin DOMAIN m.tools /\ e.index \in Indexes
    BY EventShape DEF CanMap, ServerTool
  <1>3. m2 = [m EXCEPT !.tools = With(m.tools, e.index, 0)]
    BY DEF NextMapper
  <1>4. Shapes(m, a) /\ h \in Seq(Events)
    BY DEF InStep, Heard
  <1>5. /\ DOMAIN m2 = {"tools", "usage"} /\ m2.usage = m.usage
        /\ DOMAIN m2.tools = DOMAIN m.tools \cup {e.index}
        /\ m2.tools[e.index] = 0
        /\ \A i \in DOMAIN m.tools : m2.tools[i] = m.tools[i]
        /\ m2.tools = [i \in DOMAIN m2.tools |-> m2.tools[i]]
    <2> DEFINE t == With(m.tools, e.index, 0)
    <2>1. /\ DOMAIN t = DOMAIN m.tools \cup {e.index} /\ t[e.index] = 0
          /\ \A i \in DOMAIN m.tools : t[i] = m.tools[i]
          /\ t = [i \in DOMAIN t |-> t[i]]
      BY <1>2 DEF With
    <2>2. m2 = [m EXCEPT !.tools = t]
      BY <1>3
    <2> HIDE DEF t, m2
    <2> QED BY <1>4, <2>1, <2>2 DEF Shapes
  <1> HIDE DEF m2
  <1>6. Shapes(m2, a)
    BY <1>2, <1>4, <1>5 DEF Shapes
  <1>7. BlockOK(Append(h, e), m2, a, e.index)
    BY <1>2, <1>4, <1>5, HoldBlock DEF InStep, Touches, Shapes
  <1>8. InStep(Append(h, e), m2, a)
    BY <1>2, <1>5, <1>6, <1>7, PieceStep
  <1> QED BY <1>1, <1>8 DEF m2

\* Any other block is opened in the accumulator.
LEMMA StepOpen ==
  ASSUME NEW h, NEW m, NEW a, InStep(h, m, a), NEW e \in Events,
         e.type = "open", e.kind # "server", PushAll(a, Mapped(m, e)).ok
  PROVE  InStep(Append(h, e), NextMapper(m, e), PushAll(a, Mapped(m, e)))
  <1> DEFINE a2 == Pushed(a, e)
  <1>1. Shapes(m, a) /\ h \in Seq(Events) /\ e.index \in Indexes /\ e.kind \in BlockKinds
    BY EventShape DEF InStep, Heard
  <1>2. PushAll(a, Mapped(m, e)) = Push(a, e)
    BY Yielded DEF Mapped
  <1>3. CanPush(a, e) /\ Push(a, e) = a2
    BY <1>1, <1>2, AcceptedPush DEF Shapes, Push
  <1>4. NextMapper(m, e) = m
    BY DEF NextMapper
  <1>5. a2 = [a EXCEPT !.blocks = With(a.blocks, e.index, NewBlock(e.kind))]
    BY DEF Pushed
  <1>6. e.index \notin DOMAIN a.blocks /\ a.header
    BY <1>3 DEF CanPush
  <1>7. /\ DOMAIN a2 = DOMAIN a
        /\ a2.header = a.header /\ a2.usage = a.usage /\ a2.reason = a.reason
        /\ a2.fallback = a.fallback /\ a2.stopped = a.stopped /\ a2.ok = a.ok
        /\ a2.invalid = a.invalid
        /\ DOMAIN a2.blocks = DOMAIN a.blocks \cup {e.index}
        /\ a2.blocks[e.index] = NewBlock(e.kind)
        /\ \A i \in DOMAIN a.blocks : a2.blocks[i] = a.blocks[i]
    <2> DEFINE b == With(a.blocks, e.index, NewBlock(e.kind))
    <2>1. /\ DOMAIN b = DOMAIN a.blocks \cup {e.index} /\ b[e.index] = NewBlock(e.kind)
          /\ \A i \in DOMAIN a.blocks : b[i] = a.blocks[i]
      BY <1>6 DEF With
    <2>2. a2 = [a EXCEPT !.blocks = b]
      BY <1>5
    <2> HIDE DEF b, a2
    <2> QED BY <1>1, <2>1, <2>2 DEF Shapes
  <1>8. NewBlock(e.kind) \in Block
    BY <1>1 DEF NewBlock, Block
  <1> HIDE DEF a2
  <1>9. Shapes(m, a2)
    BY <1>1, <1>7, <1>8 DEF Shapes
  <1>10. BlockOK(Append(h, e), m, a2, e.index)
    BY <1>1, <1>6, <1>7, OpenBlockStep DEF InStep, Touches, Shapes
  <1>11. InStep(Append(h, e), m, a2)
    BY <1>6, <1>7, <1>9, <1>10, PieceStep
  <1> QED BY <1>2, <1>3, <1>4, <1>11

\* A delta of a server tool stays in the mapper.
LEMMA StepHeldDelta ==
  ASSUME NEW h, NEW m, NEW a, InStep(h, m, a), NEW e \in Events,
         e.type = "delta", ServerTool(m, e)
  PROVE  InStep(Append(h, e), NextMapper(m, e), PushAll(a, Mapped(m, e)))
  <1> DEFINE m2 == NextMapper(m, e)
             more == IF e.kind = "input" THEN 1 ELSE 0
  <1>1. PushAll(a, Mapped(m, e)) = a
    BY Yielded DEF Mapped
  <1>2. e.index \in DOMAIN m.tools /\ e.index \in Indexes
    BY EventShape DEF ServerTool
  <1>3. m2 = [m EXCEPT !.tools[e.index] = m.tools[e.index] + more]
    BY DEF NextMapper
  <1>4. Shapes(m, a) /\ h \in Seq(Events)
    BY DEF InStep, Heard
  <1>5. /\ DOMAIN m2 = {"tools", "usage"} /\ m2.usage = m.usage
        /\ DOMAIN m2.tools = DOMAIN m.tools
        /\ m2.tools[e.index] = m.tools[e.index] + more
        /\ \A i \in DOMAIN m.tools : i # e.index => m2.tools[i] = m.tools[i]
        /\ m2.tools = [i \in DOMAIN m2.tools |-> m2.tools[i]]
    <2> DEFINE t == [m.tools EXCEPT ![e.index] = m.tools[e.index] + more]
    <2>1. /\ DOMAIN t = DOMAIN m.tools /\ t[e.index] = m.tools[e.index] + more
          /\ \A i \in DOMAIN m.tools : i # e.index => t[i] = m.tools[i]
          /\ t = [i \in DOMAIN t |-> t[i]]
      BY <1>2
    <2>2. m2 = [m EXCEPT !.tools = t]
      BY <1>3
    <2> HIDE DEF t, m2
    <2> QED BY <1>4, <2>1, <2>2 DEF Shapes
  <1> HIDE DEF m2
  <1>6. Shapes(m2, a)
    BY <1>2, <1>4, <1>5 DEF Shapes
  <1>7. BlockOK(Append(h, e), m2, a, e.index)
    BY <1>2, <1>4, <1>5, HeldDelta DEF InStep, Touches
  <1>8. InStep(Append(h, e), m2, a)
    BY <1>2, <1>5, <1>6, <1>7, PieceStep
  <1> QED BY <1>1, <1>8 DEF m2

\* Any other delta belongs to an open block of its kind.
LEMMA StepDelta ==
  ASSUME NEW h, NEW m, NEW a, InStep(h, m, a), NEW e \in Events,
         e.type = "delta", ~ServerTool(m, e), PushAll(a, Mapped(m, e)).ok
  PROVE  InStep(Append(h, e), NextMapper(m, e), PushAll(a, Mapped(m, e)))
  <1> DEFINE a2 == Pushed(a, e)
             more == IF e.kind = "input" THEN 1 ELSE 0
             i == e.index
  <1>1. Shapes(m, a) /\ h \in Seq(Events) /\ i \in Indexes
    BY EventShape DEF InStep, Heard
  <1>2. PushAll(a, Mapped(m, e)) = Push(a, e)
    BY Yielded DEF Mapped
  <1>3. CanPush(a, e) /\ Push(a, e) = a2
    BY <1>1, <1>2, AcceptedPush DEF Shapes, Push
  <1>4. NextMapper(m, e) = m
    BY DEF NextMapper
  <1>5. a2 = [a EXCEPT !.blocks[i].halves = a.blocks[i].halves + more]
    BY DEF Pushed
  <1>6. /\ i \notin DOMAIN m.tools /\ i \in DOMAIN a.blocks /\ a.header
        /\ a.blocks[i].closed = FALSE /\ a.blocks[i].kind = KindOf[e.kind]
    <2>1. i \in DOMAIN a.blocks /\ ~a.blocks[i].closed /\ a.header
          /\ a.blocks[i].kind = KindOf[e.kind]
      BY <1>3 DEF CanPush, OpenBlock
    <2>2. a.blocks[i].closed \in BOOLEAN
      BY <1>1, <2>1 DEF Shapes, Block
    <2> QED BY <2>1, <2>2 DEF ServerTool
  <1>7. a.blocks[i] \in Block
    BY <1>1, <1>6 DEF Shapes
  <1>8. /\ DOMAIN a2 = DOMAIN a
        /\ a2.header = a.header /\ a2.usage = a.usage /\ a2.reason = a.reason
        /\ a2.fallback = a.fallback /\ a2.stopped = a.stopped /\ a2.ok = a.ok
        /\ a2.invalid = a.invalid
        /\ DOMAIN a2.blocks = DOMAIN a.blocks
        /\ a2.blocks[i] = [a.blocks[i] EXCEPT !.halves = a.blocks[i].halves + more]
        /\ \A j \in DOMAIN a.blocks : j # i => a2.blocks[j] = a.blocks[j]
    <2> DEFINE b == [a.blocks EXCEPT ![i] =
                       [a.blocks[i] EXCEPT !.halves = a.blocks[i].halves + more]]
    <2>1. a2 = [a EXCEPT !.blocks = b]
      BY <1>1, <1>5, <1>6 DEF Shapes
    <2>2. /\ DOMAIN b = DOMAIN a.blocks
          /\ b[i] = [a.blocks[i] EXCEPT !.halves = a.blocks[i].halves + more]
          /\ \A j \in DOMAIN a.blocks : j # i => b[j] = a.blocks[j]
      BY <1>6
    <2> HIDE DEF b, a2
    <2> QED BY <1>1, <2>1, <2>2 DEF Shapes
  <1>9. /\ a2.blocks[i] \in Block /\ a2.blocks[i].closed = a.blocks[i].closed
        /\ a2.blocks[i].kind = a.blocks[i].kind
        /\ a2.blocks[i].halves = a.blocks[i].halves + more
    BY <1>7, <1>8 DEF Block
  <1> HIDE DEF a2
  <1>10. Shapes(m, a2)
    BY <1>1, <1>8, <1>9 DEF Shapes
  <1>11. BlockOK(Append(h, e), m, a2, i)
    BY <1>1, <1>6, <1>8, <1>9, BlockDelta DEF InStep, Touches
  <1>12. InStep(Append(h, e), m, a2)
    BY <1>6, <1>8, <1>10, <1>11, PieceStep
  <1> QED BY <1>2, <1>3, <1>4, <1>12

\* A server tool that ends is yielded as two events.
LEMMA WholeTool ==
  ASSUME NEW m, NEW e, e.type = "close", ServerTool(m, e)
  PROVE  Mapped(m, e) = <<[type |-> "open", index |-> e.index, kind |-> "server"], e>>
  BY DEF Mapped

\* A server tool is whole: it becomes a block that is opened and closed at once.
LEMMA StepHeldEnds ==
  ASSUME NEW h, NEW m, NEW a, InStep(h, m, a), NEW e \in Events,
         e.type = "close", ServerTool(m, e), CanMap(m, e), PushAll(a, Mapped(m, e)).ok
  PROVE  InStep(Append(h, e), NextMapper(m, e), PushAll(a, Mapped(m, e)))
  <1> DEFINE m2 == NextMapper(m, e)
             i == e.index
             first == [type |-> "open", index |-> i, kind |-> "server"]
             a1 == Pushed(a, first)
             a2 == Pushed(a1, e)
  <1>1. Shapes(m, a) /\ h \in Seq(Events) /\ i \in Indexes
    BY EventShape DEF InStep, Heard
  <1>2. i \in DOMAIN m.tools /\ Parses(m.tools[i])
    BY DEF ServerTool, CanMap
  <1>3. PushAll(a, Mapped(m, e)) = Push(Push(a, first), e)
    <2>1. Mapped(m, e) = <<first, e>>
      BY WholeTool
    <2> HIDE DEF first
    <2>2. PushAll(a, <<first, e>>) = Push(Push(a, first), e)
      BY YieldedTwo
    <2> QED BY <2>1, <2>2
  <1>4. CanPush(a, first) /\ Push(a, first) = a1
    <2>1. "ok" \in DOMAIN a /\ a.ok = TRUE
      BY <1>1 DEF Shapes
    <2>2. "ok" \in DOMAIN Push(a, first)
      BY <2>1 DEF Push, Pushed
    <2>3. Push(a, first).ok
      <3>1. CASE CanPush(a, first)
        <4>1. Push(a, first) = [a EXCEPT !.blocks = With(a.blocks, i, NewBlock("server"))]
          BY <2>1, <3>1 DEF Push, Pushed
        <4> QED BY <2>1, <4>1
      <3>2. CASE ~CanPush(a, first)
        <4>1. Push(a, first) = [a EXCEPT !.ok = FALSE]
          BY <2>1, <3>2 DEF Push
        <4>2. Push(a, first).ok = FALSE
          BY <2>1, <4>1
        <4>3. Push(Push(a, first), e).ok = FALSE
          BY <2>2, <4>2 DEF Push
        <4> QED BY <1>3, <4>3
      <3> QED BY <3>1, <3>2
    <2>4. CanPush(a, first)
      <3>1. SUFFICES ASSUME ~CanPush(a, first) PROVE FALSE
        OBVIOUS
      <3>2. Push(a, first) = [a EXCEPT !.ok = FALSE]
        BY <3>1 DEF Push
      <3> QED BY <2>1, <2>3, <3>2
    <2> QED BY <2>1, <2>4 DEF Push
  <1>5. a1 = [a EXCEPT !.blocks = With(a.blocks, i, NewBlock("server"))]
    BY DEF Pushed
  <1>6. i \notin DOMAIN a.blocks /\ a.header
    BY <1>4 DEF CanPush
  <1>7. /\ DOMAIN a1 = DOMAIN a
        /\ a1.header = a.header /\ a1.usage = a.usage /\ a1.reason = a.reason
        /\ a1.fallback = a.fallback /\ a1.stopped = a.stopped /\ a1.ok = a.ok
        /\ a1.invalid = a.invalid
        /\ DOMAIN a1.blocks = DOMAIN a.blocks \cup {i}
        /\ a1.blocks[i] = NewBlock("server")
        /\ \A j \in DOMAIN a.blocks : a1.blocks[j] = a.blocks[j]
    <2> DEFINE b == With(a.blocks, i, NewBlock("server"))
    <2>1. /\ DOMAIN b = DOMAIN a.blocks \cup {i} /\ b[i] = NewBlock("server")
          /\ \A j \in DOMAIN a.blocks : b[j] = a.blocks[j]
      BY <1>6 DEF With
    <2>2. a1 = [a EXCEPT !.blocks = b]
      BY <1>5
    <2> HIDE DEF b, a1
    <2> QED BY <1>1, <2>1, <2>2 DEF Shapes
  <1> HIDE DEF a1
  <1>8. Push(a1, e) = a2 /\ PushAll(a, Mapped(m, e)) = a2
    <2>1. Push(a1, e).ok
      BY <1>3, <1>4
    <2>2. a1.ok = TRUE /\ "ok" \in DOMAIN a1
      BY <1>1, <1>7 DEF Shapes
    <2>3. Push(a1, e) = a2
      BY <2>1, <2>2 DEF Push
    <2> QED BY <1>3, <1>4, <2>3
  <1>9. ~Malformed(a1, e)
    BY <1>7 DEF Malformed, NewBlock
  <1>10. a2 = [a1 EXCEPT !.blocks[i].closed = TRUE, !.invalid = a1.invalid]
    <2>1. a2 = [a1 EXCEPT !.blocks[i].closed = TRUE, !.invalid = a1.invalid \cup {}]
      BY <1>9 DEF Pushed
    <2>2. a1.invalid \cup {} = a1.invalid
      OBVIOUS
    <2> QED BY <2>1, <2>2
  <1>11. /\ DOMAIN a2 = DOMAIN a
         /\ a2.header = a.header /\ a2.usage = a.usage /\ a2.reason = a.reason
         /\ a2.fallback = a.fallback /\ a2.stopped = a.stopped /\ a2.ok = a.ok
         /\ a2.invalid = a.invalid
         /\ DOMAIN a2.blocks = DOMAIN a.blocks \cup {i}
         /\ a2.blocks[i] = [NewBlock("server") EXCEPT !.closed = TRUE]
         /\ \A j \in DOMAIN a.blocks : a2.blocks[j] = a.blocks[j]
    <2> DEFINE b == [a1.blocks EXCEPT ![i] = [a1.blocks[i] EXCEPT !.closed = TRUE]]
    <2>1. a2 = [a1 EXCEPT !.blocks = b, !.invalid = a1.invalid]
      BY <1>10
    <2>2. /\ DOMAIN b = DOMAIN a1.blocks
          /\ b[i] = [a1.blocks[i] EXCEPT !.closed = TRUE]
          /\ \A j \in DOMAIN a1.blocks : j # i => b[j] = a1.blocks[j]
      BY <1>7
    <2> HIDE DEF b, a2
    <2>3. /\ DOMAIN a2 = DOMAIN a
          /\ a2.header = a.header /\ a2.usage = a.usage /\ a2.reason = a.reason
          /\ a2.fallback = a.fallback /\ a2.stopped = a.stopped /\ a2.ok = a.ok
          /\ a2.invalid = a.invalid /\ a2.blocks = b
      BY <1>1, <1>7, <2>1 DEF Shapes
    <2> QED BY <1>6, <1>7, <2>2, <2>3
  <1> HIDE DEF a2
  <1>12. m2 = [m EXCEPT !.tools = Restrict(m.tools, DOMAIN m.tools \ {i})]
    BY <1>2 DEF NextMapper, ServerTool
  <1>13. /\ DOMAIN m2 = {"tools", "usage"} /\ m2.usage = m.usage
         /\ DOMAIN m2.tools = DOMAIN m.tools \ {i}
         /\ \A j \in DOMAIN m.tools \ {i} : m2.tools[j] = m.tools[j]
         /\ m2.tools = [j \in DOMAIN m2.tools |-> m2.tools[j]]
    <2> DEFINE t == Restrict(m.tools, DOMAIN m.tools \ {i})
    <2>1. /\ DOMAIN t = DOMAIN m.tools \ {i}
          /\ \A j \in DOMAIN m.tools \ {i} : t[j] = m.tools[j]
          /\ t = [j \in DOMAIN t |-> t[j]]
      BY DEF Restrict
    <2>2. m2 = [m EXCEPT !.tools = t]
      BY <1>12
    <2> HIDE DEF t, m2
    <2> QED BY <1>1, <2>1, <2>2 DEF Shapes
  <1> HIDE DEF m2
  <1>14. "server" \in BlockKinds
    <2>1. BlockOK(h, m, a, i)
      BY <1>1 DEF InStep
    <2>2. PICK o \in At(h, "open") : h[o].kind = "server"
      BY <1>2, <1>6, <2>1 DEF BlockOK
    <2>3. h[o] \in Events /\ h[o].type = "open"
      BY <1>1 DEF At
    <2> QED BY <2>2, <2>3, EventShape
  <1>15. Shapes(m2, a2)
    <2>1. NewBlock("server") \in Block
      BY <1>14 DEF NewBlock, Block
    <2>2. a2.blocks[i] \in Block
      BY <1>11, <2>1 DEF Block
    <2> QED BY <1>1, <1>11, <1>13, <2>2 DEF Shapes
  <1>16. BlockOK(Append(h, e), m2, a2, i)
    <2>1. BlockOK(h, m, a, i) /\ Touches(e, i)
      BY <1>1 DEF InStep, Touches
    <2>2. /\ i \notin DOMAIN m2.tools /\ i \in DOMAIN a2.blocks
          /\ a2.blocks[i].kind = "server" /\ a2.blocks[i].closed = TRUE
          /\ i \notin a2.invalid /\ a.invalid \subseteq DOMAIN a.blocks
      BY <1>1, <1>6, <1>11, <1>13 DEF Shapes, NewBlock
    <2> QED BY <1>1, <1>2, <1>6, <2>1, <2>2, HeldEnds
  <1>17. InStep(Append(h, e), m2, a2)
    <2>1. \A j \in Indexes : j # i =>
            /\ j \in DOMAIN m2.tools <=> j \in DOMAIN m.tools
            /\ j \in DOMAIN m.tools => m2.tools[j] = m.tools[j]
            /\ j \in DOMAIN a2.blocks <=> j \in DOMAIN a.blocks
            /\ j \in DOMAIN a.blocks => a2.blocks[j] = a.blocks[j]
            /\ j \in a2.invalid <=> j \in a.invalid
      BY <1>11, <1>13
    <2> QED BY <1>6, <1>11, <1>13, <1>15, <1>16, <2>1, PieceStep
  <1> QED BY <1>8, <1>17 DEF m2

\* A block of the accumulator ends.
LEMMA StepClose ==
  ASSUME NEW h, NEW m, NEW a, InStep(h, m, a), NEW e \in Events,
         e.type = "close", ~ServerTool(m, e), PushAll(a, Mapped(m, e)).ok
  PROVE  InStep(Append(h, e), NextMapper(m, e), PushAll(a, Mapped(m, e)))
  <1> DEFINE a2 == Pushed(a, e)
             i == e.index
  <1>1. Shapes(m, a) /\ h \in Seq(Events) /\ i \in Indexes
    BY EventShape DEF InStep, Heard
  <1>2. PushAll(a, Mapped(m, e)) = Push(a, e)
    BY Yielded DEF Mapped
  <1>3. CanPush(a, e) /\ Push(a, e) = a2
    BY <1>1, <1>2, AcceptedPush DEF Shapes, Push
  <1>4. NextMapper(m, e) = m
    BY DEF NextMapper
  <1>5. a2 = [a EXCEPT !.blocks[i].closed = TRUE,
                       !.invalid = a.invalid \cup (IF Malformed(a, e) THEN {i} ELSE {})]
    BY DEF Pushed
  <1>6. i \notin DOMAIN m.tools /\ i \in DOMAIN a.blocks /\ a.header /\ a.blocks[i].closed = FALSE
    <2>1. i \in DOMAIN a.blocks /\ ~a.blocks[i].closed /\ a.header
      BY <1>3 DEF CanPush, OpenBlock
    <2>2. a.blocks[i].closed \in BOOLEAN
      BY <1>1, <2>1 DEF Shapes, Block
    <2> QED BY <2>1, <2>2 DEF ServerTool
  <1>7. a.blocks[i] \in Block
    BY <1>1, <1>6 DEF Shapes
  <1>8. /\ DOMAIN a2 = DOMAIN a
        /\ a2.header = a.header /\ a2.usage = a.usage /\ a2.reason = a.reason
        /\ a2.fallback = a.fallback /\ a2.stopped = a.stopped /\ a2.ok = a.ok
        /\ a2.invalid = a.invalid \cup (IF Malformed(a, e) THEN {i} ELSE {})
        /\ DOMAIN a2.blocks = DOMAIN a.blocks
        /\ a2.blocks[i] = [a.blocks[i] EXCEPT !.closed = TRUE]
        /\ \A j \in DOMAIN a.blocks : j # i => a2.blocks[j] = a.blocks[j]
    <2> DEFINE b == [a.blocks EXCEPT ![i] = [a.blocks[i] EXCEPT !.closed = TRUE]]
               bad == a.invalid \cup (IF Malformed(a, e) THEN {i} ELSE {})
    <2>1. a2 = [a EXCEPT !.blocks = b, !.invalid = bad]
      BY <1>5
    <2>2. /\ DOMAIN b = DOMAIN a.blocks
          /\ b[i] = [a.blocks[i] EXCEPT !.closed = TRUE]
          /\ \A j \in DOMAIN a.blocks : j # i => b[j] = a.blocks[j]
      BY <1>6
    <2> HIDE DEF b, a2, bad
    <2>3. /\ DOMAIN a2 = DOMAIN a
          /\ a2.header = a.header /\ a2.usage = a.usage /\ a2.reason = a.reason
          /\ a2.fallback = a.fallback /\ a2.stopped = a.stopped /\ a2.ok = a.ok
          /\ a2.invalid = bad /\ a2.blocks = b
      BY <1>1, <2>1 DEF Shapes
    <2> QED BY <2>2, <2>3 DEF bad
  <1>9. /\ a2.blocks[i] \in Block /\ a2.blocks[i].closed = TRUE
        /\ a2.blocks[i].kind = a.blocks[i].kind /\ a2.blocks[i].halves = a.blocks[i].halves
    BY <1>7, <1>8 DEF Block
  <1> HIDE DEF a2
  <1>10. Shapes(m, a2)
    BY <1>1, <1>6, <1>8, <1>9 DEF Shapes
  <1>11. BlockOK(Append(h, e), m, a2, i)
    <2>1. BlockOK(h, m, a, i) /\ Touches(e, i)
      BY <1>1 DEF InStep, Touches
    <2>2. i \in a2.invalid <=> i \in a.invalid \/ Malformed(a, e)
      BY <1>8
    <2> QED BY <1>1, <1>6, <1>8, <1>9, <2>1, <2>2, BlockEnds
  <1>12. InStep(Append(h, e), m, a2)
    <2>1. \A j \in Indexes : j # i => (j \in a2.invalid <=> j \in a.invalid)
      BY <1>8
    <2> QED BY <1>6, <1>8, <1>10, <1>11, <2>1, PieceStep
  <1> QED BY <1>2, <1>3, <1>4, <1>12

-----------------------------------------------------------------------------
(* The start of the message and its updates.                               *)

\* The counter that is reported last.
LEMMA MoreUsage ==
  ASSUME NEW h \in Seq(Events), NEW e \in Events, e.type \in {"start", "update"},
         NEW u, UsageOK(h, u)
  PROVE  UsageOK(Append(h, e), IF e.usage # 0 THEN e.usage
                               ELSE IF e.serving # 0 THEN e.serving ELSE u)
  <1> DEFINE g == Append(h, e)
             n == Len(h) + 1
             reports == e.usage # 0 \/ e.serving # 0
  <1>1. /\ DOMAIN h = 1 .. Len(h) /\ Len(h) \in Nat /\ g[n] = e
        /\ \A j \in 1 .. Len(h) : g[j] = h[j]
    BY Extended
  <1>2. /\ At(g, "start") = At(h, "start") \cup (IF e.type = "start" THEN {n} ELSE {})
        /\ At(g, "update") = At(h, "update") \cup (IF e.type = "update" THEN {n} ELSE {})
    BY ExtendedAt
  <1>3. At(h, "start") \cup At(h, "update") \subseteq 1 .. Len(h)
    BY <1>1 DEF At
  <1> HIDE DEF g
  <1>4. Reports(g) = Reports(h) \cup (IF reports THEN {n} ELSE {})
    <2>1. \A j \in Usages(h) : g[j] = h[j]
      BY <1>1, <1>3 DEF Usages
    <2>2. Usages(g) = Usages(h) \cup {n}
      BY <1>2 DEF Usages
    <2> QED BY <1>1, <2>1, <2>2 DEF Reports
  <1>5. Reports(h) \subseteq 1 .. Len(h) /\ \A j \in Reports(h) : g[j] = h[j]
    BY <1>1, <1>3 DEF Reports, Usages
  <1>6. CASE reports
    <2>1. n \in Reports(g) /\ \A k \in Reports(g) : k <= n
      BY <1>1, <1>4, <1>5, <1>6
    <2>2. UsageOK(g, IF e.usage # 0 THEN e.usage ELSE e.serving)
      BY <1>1, <2>1 DEF UsageOK
    <2> QED BY <1>6, <2>2 DEF g
  <1>7. CASE ~reports
    <2>1. Reports(g) = Reports(h)
      BY <1>4, <1>7
    <2>2. UsageOK(g, u)
      BY <1>5, <2>1 DEF UsageOK
    <2> QED BY <1>7, <2>2 DEF g
  <1> QED BY <1>6, <1>7

\* An event that is no piece of a block leaves every block as it is.
LEMMA BlocksKept ==
  ASSUME NEW h, NEW m, NEW a, NEW m2, NEW a2, InStep(h, m, a), NEW e \in Events,
         e.type \notin {"open", "delta", "close"},
         m2.tools = m.tools, a2.blocks = a.blocks, a2.invalid = a.invalid
  PROVE  \A i \in Indexes : BlockOK(Append(h, e), m2, a2, i)
  <1> SUFFICES ASSUME NEW i \in Indexes PROVE BlockOK(Append(h, e), m2, a2, i)
    OBVIOUS
  <1>1. h \in Seq(Events) /\ BlockOK(h, m, a, i) /\ ~Touches(e, i)
    BY DEF InStep, Heard, Touches
  <1> QED BY <1>1, SameBlock

\* What the accumulator accepts of a start or of an update.
LEMMA UsageAccepted ==
  ASSUME NEW m, NEW a, Shapes(m, a), NEW e \in Events, e.type \in {"start", "update"},
         PushAll(a, Mapped(m, e)).ok
  PROVE  /\ CanPush(a, e) /\ Push(a, e) = Pushed(a, e)
         /\ IF e.serving = 0 THEN PushAll(a, Mapped(m, e)) = Push(a, e)
            ELSE PushAll(a, Mapped(m, e)) = Push(Push(a, e), Snapshot(m, e))
  <1> DEFINE s == Snapshot(m, e)
  <1>1. a.ok = TRUE /\ "ok" \in DOMAIN a
    BY DEF Shapes
  <1>2. CASE e.serving = 0
    <2>1. PushAll(a, Mapped(m, e)) = Push(a, e)
      BY <1>2, Yielded DEF Mapped
    <2>2. CanPush(a, e) /\ Push(a, e) = Pushed(a, e)
      BY <1>1, <2>1, AcceptedPush DEF Push
    <2> QED BY <1>2, <2>1, <2>2
  <1>3. CASE e.serving # 0
    <2>1. Mapped(m, e) = <<e, s>>
      BY <1>3 DEF Mapped
    <2> HIDE DEF s
    <2>2. PushAll(a, <<e, s>>) = Push(Push(a, e), s)
      BY YieldedTwo
    <2>3. CanPush(a, e) /\ Push(a, e) = Pushed(a, e)
      <3>1. SUFFICES ASSUME ~CanPush(a, e) PROVE FALSE
        BY <1>1 DEF Push
      <3>2. Push(a, e) = [a EXCEPT !.ok = FALSE]
        BY <3>1 DEF Push
      <3>3. Push(a, e).ok = FALSE /\ "ok" \in DOMAIN Push(a, e)
        BY <1>1, <3>2
      <3>4. Push(Push(a, e), s).ok = FALSE
        BY <3>3 DEF Push
      <3> QED BY <2>1, <2>2, <3>4
    <2> QED BY <1>3, <2>1, <2>2, <2>3 DEF s
  <1> QED BY <1>2, <1>3

\* Nothing has been counted yet.
Uncounted(a) == a.usage = 0

\* What a start or an update makes of the accumulator, whether or not it names another
\* model.
LEMMA UsagePushed ==
  ASSUME NEW m, NEW a, Shapes(m, a), m.usage = a.usage, NEW e \in Events,
         e.type \in {"start", "update"}, e.type = "update" \/ Uncounted(a),
         NEW a2, a2 = PushAll(a, Mapped(m, e)), a2.ok
  PROVE  /\ Shapes(m, a2) /\ a2.header /\ a2.blocks = a.blocks
         /\ a2.usage = Latest(m, e)
         /\ e.type = "start" => (a2.reason <=> a.reason)
         /\ e.type = "update" => (a2.reason <=> a.reason \/ e.reason)
         /\ (a2.fallback <=> a.fallback \/ e.serving # 0)
         /\ a2.invalid = a.invalid
  <1> DEFINE a1 == Pushed(a, e)
             s == Snapshot(m, e)
             a3 == Pushed(a1, s)
  <1>0. /\ a.ok = TRUE /\ a.reason \in BOOLEAN /\ a.fallback \in BOOLEAN /\ a.header \in BOOLEAN
        /\ e.type = "update" => e.reason \in BOOLEAN
    BY EventShape DEF Shapes
  <1>1. /\ CanPush(a, e) /\ Push(a, e) = a1
        /\ e.serving = 0 => PushAll(a, Mapped(m, e)) = a1
        /\ e.serving # 0 => PushAll(a, Mapped(m, e)) = Push(a1, s)
    BY UsageAccepted
  <1>2. e.type = "update" => a.header
    BY <1>0, <1>1 DEF CanPush
  <1>3. /\ DOMAIN a1 = DOMAIN a /\ a1.header = TRUE /\ a1.blocks = a.blocks
        /\ a1.usage = (IF e.usage # 0 THEN e.usage ELSE a.usage)
        /\ (a1.reason <=> a.reason \/ (e.type = "update" /\ e.reason)) /\ a1.reason \in BOOLEAN
        /\ a1.fallback = a.fallback
        /\ a1.stopped = a.stopped /\ a1.invalid = a.invalid /\ a1.ok = TRUE
    <2>1. CASE e.type = "start"
      <3>1. a1 = [a EXCEPT !.header = TRUE, !.usage = e.usage]
        BY <2>1 DEF Pushed
      <3> QED BY <1>0, <2>1, <3>1 DEF Shapes, Uncounted
    <2>2. CASE e.type = "update"
      <3>1. a1 = [a EXCEPT !.reason = a.reason \/ e.reason,
                           !.usage = IF e.usage # 0 THEN e.usage ELSE a.usage]
        BY <2>2 DEF Pushed
      <3> QED BY <1>0, <1>2, <2>2, <3>1 DEF Shapes
    <2> QED BY <2>1, <2>2
  <1>4. Shapes(m, a1)
    BY <1>3 DEF Shapes
  <1>5. CASE e.serving = 0
    <2>1. Latest(m, e) = IF e.usage # 0 THEN e.usage ELSE a.usage
      BY <1>5 DEF Latest
    <2> HIDE DEF a1
    <2> QED BY <1>0, <1>1, <1>3, <1>4, <1>5, <2>1
  <1>6. CASE e.serving # 0
    <2>1. a3 = [a1 EXCEPT !.usage = Latest(m, e), !.fallback = TRUE]
      BY DEF Pushed, Snapshot
    <2> HIDE DEF a1, s
    <2>2. Push(a1, s) = a3
      <3>1. Push(a1, s).ok /\ "ok" \in DOMAIN a1
        BY <1>0, <1>1, <1>3, <1>6 DEF Shapes
      <3> QED BY <1>3, <3>1 DEF Push
    <2> HIDE DEF a3
    <2>3. /\ DOMAIN a3 = DOMAIN a1 /\ a3.header = a1.header /\ a3.blocks = a1.blocks
          /\ a3.usage = Latest(m, e) /\ a3.reason = a1.reason /\ a3.fallback = TRUE
          /\ a3.stopped = a1.stopped /\ a3.invalid = a1.invalid /\ a3.ok = a1.ok
      BY <1>3, <2>1 DEF Shapes
    <2>4. Shapes(m, a3)
      BY <1>4, <2>3 DEF Shapes
    <2> QED BY <1>1, <1>3, <1>6, <2>2, <2>3, <2>4
  <1> QED BY <1>5, <1>6

\* The message starts.
LEMMA StepStart ==
  ASSUME NEW h, NEW m, NEW a, InStep(h, m, a), NEW e \in Events,
         e.type = "start", PushAll(a, Mapped(m, e)).ok
  PROVE  InStep(Append(h, e), NextMapper(m, e), PushAll(a, Mapped(m, e)))
  <1> DEFINE g == Append(h, e)
             n == Len(h) + 1
             m2 == NextMapper(m, e)
             a2 == PushAll(a, Mapped(m, e))
  <1>1. /\ Shapes(m, a) /\ h \in Seq(Events) /\ Heard(h) /\ HeaderOK(h, a)
        /\ UsageOK(h, a.usage) /\ m.usage = a.usage
    BY DEF InStep, Heard
  <1>2. ~a.header
    BY <1>1, UsageAccepted DEF CanPush
  <1>3. /\ DOMAIN h = 1 .. Len(h) /\ Len(h) \in Nat /\ DOMAIN g = 1 .. n /\ Len(g) = n
        /\ g[n] = e /\ \A j \in 1 .. Len(h) : g[j] = h[j]
    BY <1>1, Extended
  <1>4. At(h, "start") = {} /\ Beforehand(h, Len(h))
    BY <1>1, <1>2 DEF HeaderOK
  <1>5. At(h, "update") = {} /\ Usages(h) = {} /\ Reports(h) = {}
    BY <1>3, <1>4 DEF At, Beforehand, Usages, Reports
  <1>6. Uncounted(a)
    BY <1>1, <1>5 DEF UsageOK, Uncounted
  <1>7. m2 = [m EXCEPT !.usage = Latest(m, e)]
    BY DEF NextMapper
  <1>8. DOMAIN m2 = DOMAIN m /\ m2.usage = Latest(m, e) /\ m2.tools = m.tools
    BY <1>1, <1>7 DEF Shapes
  <1>9. /\ Shapes(m, a2) /\ a2.header /\ a2.blocks = a.blocks
        /\ a2.usage = Latest(m, e) /\ (a2.reason <=> a.reason)
        /\ (a2.fallback <=> a.fallback \/ e.serving # 0)
        /\ a2.invalid = a.invalid
    <2>1. /\ Shapes(m, a2) /\ a2.header /\ a2.blocks = a.blocks /\ a2.usage = Latest(m, e)
          /\ e.type = "start" => (a2.reason <=> a.reason)
          /\ e.type = "update" => (a2.reason <=> a.reason \/ e.reason)
          /\ (a2.fallback <=> a.fallback \/ e.serving # 0)
          /\ a2.invalid = a.invalid
      <3>1. a2 = PushAll(a, Mapped(m, e)) /\ a2.ok
        OBVIOUS
      <3> HIDE DEF a2
      <3> QED BY <1>1, <1>6, <3>1, UsagePushed
    <2> HIDE DEF a2
    <2> QED BY <1>1, <2>1 DEF Shapes
  <1> HIDE DEF a2, m2
  <1>10. Shapes(m2, a2)
    BY <1>1, <1>8, <1>9 DEF Shapes
  <1>11. \A i \in Indexes : BlockOK(g, m2, a2, i)
    BY <1>8, <1>9, BlocksKept
  <1>12. At(g, "start") = {n} /\ At(g, "update") = {} /\ Usages(g) = {n}
    <2>1. At(g, "start") = At(h, "start") \cup (IF e.type = "start" THEN {n} ELSE {})
      BY <1>1, ExtendedAt
    <2>2. At(g, "update") = At(h, "update") \cup (IF e.type = "update" THEN {n} ELSE {})
      BY <1>1, ExtendedAt
    <2> QED BY <1>4, <1>5, <2>1, <2>2 DEF Usages
  <1>13. UsageOK(g, a2.usage)
    <2>1. UsageOK(g, IF e.usage # 0 THEN e.usage
                     ELSE IF e.serving # 0 THEN e.serving ELSE a.usage)
      BY <1>1, MoreUsage
    <2>2. (IF e.usage # 0 THEN e.usage
           ELSE IF e.serving # 0 THEN e.serving ELSE a.usage) = Latest(m, e)
      BY <1>1 DEF Latest
    <2> QED BY <1>9, <2>1, <2>2
  <1>14. HeaderOK(g, a2)
    <2>1. Beforehand(g, Len(h))
      BY <1>1, <1>3, <1>4, BeforehandKept
    <2>2. n \in DOMAIN g /\ n - 1 = Len(h)
      BY <1>3
    <2> HIDE DEF g
    <2> QED BY <1>9, <1>12, <2>1, <2>2 DEF HeaderOK
  <1>15. Heard(g)
    BY <1>1, HeardMore
  <1>16. /\ a2.reason <=> \E j \in At(g, "update") : g[j].reason
         /\ a2.fallback <=> \E j \in Usages(g) : g[j].serving # 0
    <2>1. ~a.reason /\ ~a.fallback
      BY <1>5 DEF InStep
    <2> HIDE DEF g
    <2> QED BY <1>3, <1>9, <1>12, <2>1
  <1> HIDE DEF g
  <1>17. InStep(g, m2, a2)
    BY <1>8, <1>9, <1>10, <1>11, <1>13, <1>14, <1>15, <1>16 DEF InStep
  <1> QED BY <1>17 DEF g, m2, a2

\* An update of the usage, of the stop reason or of the model.
LEMMA StepUpdate ==
  ASSUME NEW h, NEW m, NEW a, InStep(h, m, a), NEW e \in Events,
         e.type = "update", PushAll(a, Mapped(m, e)).ok
  PROVE  InStep(Append(h, e), NextMapper(m, e), PushAll(a, Mapped(m, e)))
  <1> DEFINE g == Append(h, e)
             n == Len(h) + 1
             m2 == NextMapper(m, e)
             a2 == PushAll(a, Mapped(m, e))
  <1>1. /\ Shapes(m, a) /\ h \in Seq(Events) /\ Heard(h) /\ HeaderOK(h, a)
        /\ UsageOK(h, a.usage) /\ m.usage = a.usage
    BY DEF InStep, Heard
  <1>2. m2 = [m EXCEPT !.usage = Latest(m, e)]
    BY DEF NextMapper
  <1>3. DOMAIN m2 = DOMAIN m /\ m2.usage = Latest(m, e) /\ m2.tools = m.tools
    BY <1>1, <1>2 DEF Shapes
  <1>4. /\ a.header
        /\ Shapes(m, a2) /\ a2.header = a.header /\ a2.blocks = a.blocks
        /\ a2.usage = Latest(m, e) /\ (a2.reason <=> a.reason \/ e.reason)
        /\ (a2.fallback <=> a.fallback \/ e.serving # 0)
        /\ a2.invalid = a.invalid
    <2>1. a.header
      BY <1>1, UsageAccepted DEF CanPush
    <2>2. e.type \in {"start", "update"} /\ (e.type = "update" \/ Uncounted(a))
      OBVIOUS
    <2>3. /\ Shapes(m, a2) /\ a2.header /\ a2.blocks = a.blocks /\ a2.usage = Latest(m, e)
          /\ e.type = "start" => (a2.reason <=> a.reason)
          /\ e.type = "update" => (a2.reason <=> a.reason \/ e.reason)
          /\ (a2.fallback <=> a.fallback \/ e.serving # 0)
          /\ a2.invalid = a.invalid
      <3>1. a2 = PushAll(a, Mapped(m, e)) /\ a2.ok
        OBVIOUS
      <3> HIDE DEF a2
      <3> QED BY <1>1, <2>2, <3>1, UsagePushed
    <2> HIDE DEF a2
    <2> QED BY <1>1, <2>1, <2>3 DEF Shapes
  <1> HIDE DEF a2, m2
  <1>5. Shapes(m2, a2)
    BY <1>1, <1>3, <1>4 DEF Shapes
  <1>6. \A i \in Indexes : BlockOK(g, m2, a2, i)
    BY <1>3, <1>4, BlocksKept
  <1>7. /\ DOMAIN h = 1 .. Len(h) /\ Len(h) \in Nat /\ DOMAIN g = 1 .. n
        /\ g[n] = e /\ \A j \in 1 .. Len(h) : g[j] = h[j]
    BY <1>1, Extended
  <1>8. At(g, "start") = At(h, "start")
    <2>1. At(g, "start") = At(h, "start") \cup (IF e.type = "start" THEN {n} ELSE {})
      BY <1>1, ExtendedAt
    <2> QED BY <2>1
  <1>9. /\ At(g, "update") = At(h, "update") \cup {n} /\ At(h, "update") \subseteq 1 .. Len(h)
        /\ Usages(g) = Usages(h) \cup {n} /\ Usages(h) \subseteq 1 .. Len(h)
    <2>1. At(g, "update") = At(h, "update") \cup (IF e.type = "update" THEN {n} ELSE {})
      BY <1>1, ExtendedAt
    <2>2. At(h, "update") \subseteq DOMAIN h /\ At(h, "start") \subseteq DOMAIN h
      BY DEF At
    <2> QED BY <1>7, <1>8, <2>1, <2>2 DEF Usages
  <1>10. UsageOK(g, a2.usage)
    <2>1. UsageOK(g, IF e.usage # 0 THEN e.usage
                     ELSE IF e.serving # 0 THEN e.serving ELSE a.usage)
      BY <1>1, MoreUsage
    <2>2. (IF e.usage # 0 THEN e.usage
           ELSE IF e.serving # 0 THEN e.serving ELSE a.usage) = Latest(m, e)
      BY <1>1 DEF Latest
    <2> QED BY <1>4, <2>1, <2>2
  <1>11. HeaderOK(g, a2)
    <2>1. PICK s \in DOMAIN h : At(h, "start") = {s} /\ Beforehand(h, s - 1)
      BY <1>1, <1>4 DEF HeaderOK
    <2>2. s \in DOMAIN g /\ s - 1 \in 0 .. Len(h)
      BY <1>7
    <2>3. Beforehand(g, s - 1)
      BY <1>1, <2>1, <2>2, BeforehandKept
    <2> HIDE DEF g
    <2> QED BY <1>4, <1>8, <2>1, <2>2, <2>3 DEF HeaderOK
  <1>12. Heard(g)
    BY <1>1, HeardMore
  <1> HIDE DEF g
  <1>13. /\ a2.reason <=> \E j \in At(g, "update") : g[j].reason
         /\ a2.fallback <=> \E j \in Usages(g) : g[j].serving # 0
    BY <1>4, <1>7, <1>9 DEF InStep
  <1>14. InStep(g, m2, a2)
    BY <1>3, <1>4, <1>5, <1>6, <1>10, <1>11, <1>12, <1>13 DEF InStep
  <1> QED BY <1>14 DEF g, m2, a2

\* Whatever event is accepted, the invariant follows it.
LEMMA StepAny ==
  ASSUME NEW h, NEW m, NEW a, InStep(h, m, a), NEW e \in Events,
         e.type \notin {"stop", "error"}, CanMap(m, e), PushAll(a, Mapped(m, e)).ok
  PROVE  InStep(IF e.type = "noise" THEN h ELSE Append(h, e),
                NextMapper(m, e), PushAll(a, Mapped(m, e)))
  <1> DEFINE done == InStep(Append(h, e), NextMapper(m, e), PushAll(a, Mapped(m, e)))
  <1>1. CASE e.type = "noise"
    <2>1. NextMapper(m, e) = m
      BY <1>1 DEF NextMapper
    <2>2. PushAll(a, Mapped(m, e)) = a
      BY <1>1, Yielded DEF Mapped
    <2> QED BY <1>1, <2>1, <2>2
  <1>2. CASE e.type = "start"
    <2>1. done
      BY <1>2, StepStart
    <2> QED BY <1>2, <2>1
  <1>3. CASE e.type = "open"
    <2>1. CASE e.kind = "server"
      <3>1. done
        BY <1>3, <2>1, StepHold
      <3> QED BY <1>3, <3>1
    <2>2. CASE e.kind # "server"
      <3>1. done
        BY <1>3, <2>2, StepOpen
      <3> QED BY <1>3, <3>1
    <2> QED BY <2>1, <2>2
  <1>4. CASE e.type = "delta"
    <2>1. CASE ServerTool(m, e)
      <3>1. done
        BY <1>4, <2>1, StepHeldDelta
      <3> QED BY <1>4, <3>1
    <2>2. CASE ~ServerTool(m, e)
      <3>1. done
        BY <1>4, <2>2, StepDelta
      <3> QED BY <1>4, <3>1
    <2> QED BY <2>1, <2>2
  <1>5. CASE e.type = "close"
    <2>1. CASE ServerTool(m, e)
      <3>1. done
        BY <1>5, <2>1, StepHeldEnds
      <3> QED BY <1>5, <3>1
    <2>2. CASE ~ServerTool(m, e)
      <3>1. done
        BY <1>5, <2>2, StepClose
      <3> QED BY <1>5, <3>1
    <2> QED BY <2>1, <2>2
  <1>6. CASE e.type = "update"
    <2>1. done
      BY <1>6, StepUpdate
    <2> QED BY <1>6, <2>1
  <1> QED BY <1>1, <1>2, <1>3, <1>4, <1>5, <1>6, EventShape

-----------------------------------------------------------------------------
(* What the stream knows at the end is what a whole message is.            *)

\* The opening of a block that is begun, or closed, is the only one.
LEMMA OneOpening ==
  ASSUME NEW h, NEW i, NEW o, IsOpening(h, i, o),
         \A j \in Of(h, i) \ {o} : h[j].type # "open"
  PROVE  Opening(h, i) = o
  <1>1. \A j : j \in Of(h, i) /\ h[j].type = "open" <=> j = o
    BY DEF IsOpening
  <1> QED BY <1>1 DEF Opening

\* A closed block is a whole one, and the accumulator has judged its input.
LEMMA ClosedBlock ==
  ASSUME NEW h, NEW a, NEW i, Collected(h, i, a), a.blocks[i].closed = TRUE
  PROVE  /\ WholeBlock(h, i) /\ i \in Opened(h)
         /\ Opening(h, i) \in Of(h, i)
         /\ a.blocks[i].kind = h[Opening(h, i)].kind
         /\ h[Opening(h, i)].type = "open"
         /\ \A j \in Of(h, i) : h[j].type # "close" /\ j # Opening(h, i) => Opening(h, i) < j
         /\ i \in a.invalid <=> a.blocks[i].kind = "tool" /\ ~Parses(Halves(h, i))
  <1>1. PICK o \in At(h, "open"), c \in DOMAIN h :
          /\ a.blocks[i].kind = h[o].kind
          /\ Ended(h, i, o, c)
          /\ i \in a.invalid <=> a.blocks[i].kind = "tool" /\ ~Parses(Halves(h, i))
    BY DEF Collected
  <1>2. /\ o \in Of(h, i) /\ h[o].type = "open" /\ c \in Of(h, i) /\ h[c].type = "close"
        /\ \A j \in Of(h, i) \ {o, c} :
             /\ o < j /\ j < c /\ h[j].type = "delta"
             /\ h[o].kind \in {"server", KindOf[h[j].kind]}
        /\ h[o].kind = "server" => Parses(Halves(h, i))
    BY <1>1 DEF Ended, IsOpening
  <1>3. WholeBlock(h, i)
    BY <1>2 DEF WholeBlock
  <1>4. Opening(h, i) = o
    <2>1. \A j \in Of(h, i) \ {o} : h[j].type # "open"
      BY <1>2
    <2> QED BY <1>2, <2>1, OneOpening DEF IsOpening
  <1>5. i \in Opened(h)
    BY <1>1, <1>2 DEF Opened, Of
  <1> QED BY <1>1, <1>2, <1>3, <1>4, <1>5

\* A block that is not closed, or that was opened twice, is not whole.
LEMMA NotWhole ==
  ASSUME NEW h, NEW i, WholeBlock(h, i)
  PROVE  ~OpenedTwice(h, i) /\ \A o : ~Begun(h, i, o)
  <1>1. PICK o \in Of(h, i), c \in Of(h, i) :
          /\ h[o].type = "open" /\ h[c].type = "close"
          /\ \A j \in Of(h, i) \ {o, c} : h[j].type = "delta"
    BY DEF WholeBlock
  <1>2. ~OpenedTwice(h, i)
    BY <1>1 DEF OpenedTwice
  <1>3. ASSUME NEW p, Begun(h, i, p) PROVE FALSE
    <2>1. h[p].type = "open" /\ \A j \in Of(h, i) \ {p} : h[j].type = "delta"
      BY <1>3 DEF Begun, IsOpening
    <2> QED BY <1>1, <2>1
  <1> QED BY <1>2, <1>3

\* The end of the message adds nothing but itself.
LEMMA Stopped ==
  ASSUME NEW h, NEW m, NEW a, NEW a2, InStep(h, m, a), NEW e \in Events, e.type = "stop",
         a2.blocks = a.blocks, a2.invalid = a.invalid
  PROVE  LET g == Append(h, e)
         IN  /\ h \in Seq(Events) /\ g \in Seq(Events) /\ Len(g) = Len(h) + 1
             /\ DOMAIN h = 1 .. Len(h) /\ Len(h) \in Nat /\ DOMAIN g = 1 .. Len(g)
             /\ \A j \in 1 .. Len(h) : g[j] = h[j]
             /\ At(g, "stop") = {Len(g)} /\ At(g, "error") = {}
             /\ At(g, "start") = At(h, "start") /\ At(g, "update") = At(h, "update")
             /\ At(h, "update") \subseteq 1 .. Len(h) /\ At(h, "start") \subseteq 1 .. Len(h)
             /\ \A i \in Indexes : BlockOK(g, m, a2, i)
  <1> DEFINE g == Append(h, e)
  <1>1. h \in Seq(Events) /\ \A j \in DOMAIN h : h[j].type \notin {"noise", "error", "stop"}
    BY DEF InStep, Heard
  <1>2. /\ g \in Seq(Events) /\ Len(g) = Len(h) + 1 /\ DOMAIN h = 1 .. Len(h) /\ Len(h) \in Nat
        /\ DOMAIN g = 1 .. Len(g) /\ \A j \in 1 .. Len(h) : g[j] = h[j]
    BY <1>1, Extended
  <1>3. At(g, "stop") = {Len(g)}
    <2>1. At(g, "stop") = At(h, "stop") \cup (IF e.type = "stop" THEN {Len(h) + 1} ELSE {})
      BY <1>1, ExtendedAt
    <2>2. At(h, "stop") = {}
      BY <1>1 DEF At
    <2> QED BY <1>2, <2>1, <2>2
  <1>4. At(g, "error") = {}
    <2>1. At(g, "error") = At(h, "error") \cup (IF e.type = "error" THEN {Len(h) + 1} ELSE {})
      BY <1>1, ExtendedAt
    <2>2. At(h, "error") = {}
      BY <1>1 DEF At
    <2> QED BY <2>1, <2>2
  <1>5. At(g, "start") = At(h, "start")
    <2>1. At(g, "start") = At(h, "start") \cup (IF e.type = "start" THEN {Len(h) + 1} ELSE {})
      BY <1>1, ExtendedAt
    <2> QED BY <2>1
  <1>6. At(g, "update") = At(h, "update")
    <2>1. At(g, "update") = At(h, "update") \cup (IF e.type = "update" THEN {Len(h) + 1} ELSE {})
      BY <1>1, ExtendedAt
    <2> QED BY <2>1
  <1>7. At(h, "update") \subseteq 1 .. Len(h) /\ At(h, "start") \subseteq 1 .. Len(h)
    BY <1>2 DEF At
  <1>8. \A i \in Indexes : BlockOK(g, m, a2, i)
    BY BlocksKept
  <1> QED BY <1>1, <1>2, <1>3, <1>4, <1>5, <1>6, <1>7, <1>8

\* The last report is the one the node is charged.
LEMMA LastReport ==
  ASSUME NEW h, NEW u, UsageOK(h, u), Reports(h) \subseteq Nat
  PROVE  u = Reported(h)
  <1>1. CASE Reports(h) = {}
    <2>1. u = 0
      BY <1>1 DEF UsageOK
    <2> QED BY <1>1, <2>1 DEF Reported
  <1>2. CASE Reports(h) # {}
    <2>1. PICK j \in Reports(h) :
            /\ \A k \in Reports(h) : k <= j
            /\ u = IF h[j].usage # 0 THEN h[j].usage ELSE h[j].serving
      BY <1>2 DEF UsageOK
    <2> DEFINE last == CHOOSE i \in Reports(h) : \A k \in Reports(h) : k <= i
    <2>2. last \in Reports(h) /\ \A k \in Reports(h) : k <= last
      BY <2>1
    <2>3. last = j
      <3> HIDE DEF last
      <3>1. last <= j /\ j <= last
        BY <2>1, <2>2
      <3> QED BY <2>1, <2>2, <3>1
    <2>4. Reported(h) = LET e == h[last] IN IF e.usage # 0 THEN e.usage ELSE e.serving
      BY <1>2 DEF Reported
    <2> HIDE DEF last
    <2> QED BY <2>1, <2>3, <2>4
  <1> QED BY <1>1, <1>2

\* A message that may stop is whole, and it is the response.
LEMMA FinishedIsWhole ==
  ASSUME NEW h, NEW m, NEW a, InStep(h, m, a), NEW e \in Events, e.type = "stop",
         CanMap(m, e), PushAll(a, Mapped(m, e)).ok, a.reason
  PROVE  Matches(Append(h, e), Response(PushAll(a, Mapped(m, e))))
  <1> DEFINE g == Append(h, e)
             a2 == Pushed(a, e)
             r == Response(a2)
  <1>1. Shapes(m, a)
    BY DEF InStep
  <1>2. PushAll(a, Mapped(m, e)) = Push(a, e)
    BY Yielded DEF Mapped
  <1>3. CanPush(a, e) /\ Push(a, e) = a2
    BY <1>1, <1>2, AcceptedPush DEF Shapes, Push
  <1>4. a2 = [a EXCEPT !.stopped = TRUE]
    BY DEF Pushed
  <1>5. a2.blocks = a.blocks /\ a2.invalid = a.invalid /\ a2.usage = a.usage
        /\ a2.fallback = a.fallback
    BY <1>1, <1>4 DEF Shapes
  <1>6. r.blocks = a.blocks /\ r.invalid = a.invalid /\ r.usage = a.usage
        /\ r.fallback = a.fallback
    BY <1>5 DEF Response
  <1> HIDE DEF a2, r
  <1>7. /\ h \in Seq(Events) /\ g \in Seq(Events) /\ Len(g) = Len(h) + 1
        /\ DOMAIN h = 1 .. Len(h) /\ Len(h) \in Nat /\ DOMAIN g = 1 .. Len(g)
        /\ \A j \in 1 .. Len(h) : g[j] = h[j]
        /\ At(g, "stop") = {Len(g)} /\ At(g, "error") = {}
        /\ At(g, "start") = At(h, "start") /\ At(g, "update") = At(h, "update")
        /\ At(h, "update") \subseteq 1 .. Len(h) /\ At(h, "start") \subseteq 1 .. Len(h)
        /\ \A i \in Indexes : BlockOK(g, m, a2, i)
    BY <1>5, Stopped
  <1>8. m.tools = <<>> /\ a.header /\ \A i \in DOMAIN a.blocks : a.blocks[i].closed = TRUE
    <2>1. m.tools = <<>>
      BY DEF CanMap
    <2>2. a.header /\ \A i \in DOMAIN a.blocks : a.blocks[i].closed
      BY <1>3 DEF CanPush
    <2>3. \A i \in DOMAIN a.blocks : a.blocks[i].closed \in BOOLEAN
      BY <1>1 DEF Shapes, Block
    <2> QED BY <2>1, <2>2, <2>3
  <1> HIDE DEF g
  <1>9. \A i \in Indexes : i \notin DOMAIN a.blocks => Of(g, i) = {}
    BY <1>5, <1>7, <1>8 DEF BlockOK
  <1>10. ASSUME NEW i \in DOMAIN a.blocks
         PROVE  /\ WholeBlock(g, i) /\ i \in Opened(g)
                /\ Opening(g, i) \in Of(g, i)
                /\ a.blocks[i].kind = g[Opening(g, i)].kind
                /\ g[Opening(g, i)].type = "open"
                /\ \A j \in Of(g, i) :
                     g[j].type # "close" /\ j # Opening(g, i) => Opening(g, i) < j
                /\ i \in a.invalid <=> a.blocks[i].kind = "tool" /\ ~Parses(Halves(g, i))
    <2>1. i \in Indexes
      BY <1>1 DEF Shapes
    <2>2. Collected(g, i, a2) /\ a2.blocks[i].closed = TRUE
      BY <1>5, <1>7, <1>8, <2>1 DEF BlockOK
    <2>3. /\ WholeBlock(g, i) /\ i \in Opened(g)
          /\ Opening(g, i) \in Of(g, i)
          /\ a2.blocks[i].kind = g[Opening(g, i)].kind
          /\ g[Opening(g, i)].type = "open"
          /\ \A j \in Of(g, i) :
               g[j].type # "close" /\ j # Opening(g, i) => Opening(g, i) < j
          /\ i \in a2.invalid <=> a2.blocks[i].kind = "tool" /\ ~Parses(Halves(g, i))
      BY <2>2, ClosedBlock, ZenonT(40)
    <2> QED BY <1>5, <2>3
  <1>11. \A i \in Indexes : Of(g, i) # {} => i \in DOMAIN a.blocks /\ WholeBlock(g, i)
    BY <1>9, <1>10
  <1>12. \A j \in DOMAIN g : g[j].type \in {"open", "delta", "close"} =>
           j \in Of(g, g[j].index) /\ g[j].index \in DOMAIN a.blocks
    <2> SUFFICES ASSUME NEW j \in DOMAIN g, g[j].type \in {"open", "delta", "close"}
                 PROVE  j \in Of(g, g[j].index) /\ g[j].index \in DOMAIN a.blocks
      OBVIOUS
    <2>1. g[j] \in Events
      BY <1>7
    <2>2. g[j].index \in Indexes
      BY <2>1, EventShape
    <2>3. j \in Of(g, g[j].index)
      BY DEF Of
    <2> QED BY <1>11, <2>2, <2>3
  <1>13. DOMAIN r.blocks = Opened(g)
    <2>1. Opened(g) \subseteq DOMAIN a.blocks
      BY <1>12 DEF Opened, At
    <2> QED BY <1>6, <1>10, <2>1
  <1>14. r.invalid = {i \in {j \in Opened(g) : g[Opening(g, j)].kind = "tool"} :
                        ~Parses(Halves(g, i))}
    <2>1. a.invalid \subseteq DOMAIN a.blocks
      BY <1>1 DEF Shapes
    <2> QED BY <1>6, <1>10, <1>13, <2>1
  <1>15. r.usage = Reported(g)
    <2>1. UsageOK(h, a.usage)
      BY DEF InStep
    <2>2. Reports(g) = Reports(h) /\ Reports(h) \subseteq 1 .. Len(h)
      BY <1>7 DEF Reports, Usages
    <2>3. UsageOK(g, a.usage)
      BY <1>7, <2>1, <2>2 DEF UsageOK
    <2>4. Reports(g) \subseteq Nat
      BY <1>7, <2>2
    <2> QED BY <1>6, <2>3, <2>4, LastReport
  <1>16. r.fallback = (\E j \in Usages(g) : g[j].serving # 0)
    <2>1. a.fallback \in BOOLEAN
      BY <1>1 DEF Shapes
    <2>2. Usages(g) = Usages(h) /\ Usages(h) \subseteq 1 .. Len(h)
      BY <1>7 DEF Usages
    <2>3. a.fallback <=> \E j \in Usages(g) : g[j].serving # 0
      BY <1>7, <2>2 DEF InStep
    <2> QED BY <1>6, <2>1, <2>3, Zenon
  <1>17. \E j \in At(g, "update") : g[j].reason
    BY <1>7 DEF InStep
  <1>18. PICK s \in DOMAIN h : At(h, "start") = {s} /\ Beforehand(h, s - 1)
    BY <1>8 DEF InStep, HeaderOK
  <1>19. ASSUME NEW j \in 1 .. (s - 1)
         PROVE  g[j].type \in {"open", "delta"} /\ g[Opening(g, g[j].index)].kind = "server"
    <2> DEFINE i == g[j].index
               o == Opening(g, i)
    <2>1. s \in 1 .. Len(h) /\ j \in 1 .. Len(h) /\ j \in DOMAIN g
      BY <1>7
    <2>2. g[j].type \in {"open", "delta"}
      BY <1>7, <1>18, <2>1 DEF Beforehand
    <2>3. j \in Of(g, i) /\ i \in DOMAIN a.blocks
      BY <1>12, <2>1, <2>2
    <2>4. o \in Of(g, i) /\ g[o].type = "open" /\ (j # o => o < j)
      BY <1>10, <2>2, <2>3
    <2>5. o \in 1 .. (s - 1)
      <3> HIDE DEF o, i
      <3>1. o \in 1 .. Len(g)
        BY <1>7, <2>4 DEF Of
      <3> QED BY <1>7, <2>1, <2>4, <3>1
    <2> HIDE DEF o
    <2>6. g[o].kind = "server"
      <3>1. o \in 1 .. Len(h)
        BY <1>7, <2>1, <2>5
      <3>2. g[o] = h[o]
        BY <1>7, <3>1
      <3> QED BY <1>18, <2>4, <2>5, <3>2 DEF Beforehand
    <2> QED BY <2>2, <2>6 DEF o
  <1>20. WholeMessage(g)
    <2>1. s \in DOMAIN g /\ At(g, "start") = {s}
      BY <1>7, <1>18
    <2> QED BY <1>7, <1>11, <1>17, <1>19, <2>1 DEF WholeMessage
  <1>21. Matches(g, r)
    BY <1>13, <1>14, <1>15, <1>16, <1>20, Zenon DEF Matches
  <1> QED BY <1>2, <1>3, <1>21 DEF g, r

\* The end of a whole message is never refused.
LEMMA WholeIsAccepted ==
  ASSUME NEW h, NEW m, NEW a, InStep(h, m, a), NEW e \in Events, e.type = "stop",
         WholeMessage(Append(h, e))
  PROVE  CanMap(m, e) /\ PushAll(a, Mapped(m, e)).ok /\ a.reason
  <1> DEFINE g == Append(h, e)
  <1>1. Shapes(m, a)
    BY DEF InStep
  <1>2. /\ At(g, "start") = At(h, "start") /\ At(g, "update") = At(h, "update")
        /\ \A j \in 1 .. Len(h) : g[j] = h[j]
        /\ At(h, "update") \subseteq 1 .. Len(h)
        /\ \A i \in Indexes : BlockOK(g, m, a, i)
    BY Stopped
  <1> HIDE DEF g
  <1>3. /\ At(g, "start") # {} /\ \E j \in At(g, "update") : g[j].reason
        /\ \A i \in Indexes : Of(g, i) # {} => WholeBlock(g, i)
    BY DEF WholeMessage, g
  <1>4. a.header
    BY <1>2, <1>3 DEF InStep, HeaderOK
  <1>5. a.reason
    BY <1>2, <1>3 DEF InStep
  <1>6. DOMAIN m.tools = {}
    <2> SUFFICES ASSUME NEW i \in DOMAIN m.tools PROVE FALSE
      OBVIOUS
    <2>1. i \in Indexes
      BY <1>1 DEF Shapes
    <2>2. CASE i \in DOMAIN a.blocks
      <3>1. OpenedTwice(g, i)
        BY <1>2, <2>1, <2>2 DEF BlockOK
      <3>2. Of(g, i) # {}
        BY <3>1 DEF OpenedTwice
      <3> QED BY <1>3, <2>1, <3>1, <3>2, NotWhole
    <2>3. CASE i \notin DOMAIN a.blocks
      <3>1. PICK o : Begun(g, i, o)
        BY <1>2, <2>1, <2>3 DEF BlockOK
      <3>2. Of(g, i) # {}
        BY <3>1 DEF Begun, IsOpening
      <3> QED BY <1>3, <2>1, <3>1, <3>2, NotWhole
    <2> QED BY <2>2, <2>3
  <1>7. m.tools = <<>>
    BY <1>1, <1>6 DEF Shapes
  <1>8. ASSUME NEW i \in DOMAIN a.blocks PROVE a.blocks[i].closed
    <2>1. i \in Indexes /\ a.blocks[i].closed \in BOOLEAN
      BY <1>1 DEF Shapes, Block
    <2>2. Collected(g, i, a)
      BY <1>2, <1>6, <2>1 DEF BlockOK
    <2>3. SUFFICES ASSUME ~a.blocks[i].closed PROVE FALSE
      OBVIOUS
    <2>4. PICK o : Begun(g, i, o)
      BY <2>2, <2>3 DEF Collected
    <2>5. Of(g, i) # {}
      BY <2>4 DEF Begun, IsOpening
    <2> QED BY <1>3, <2>1, <2>4, <2>5, NotWhole
  <1>9. CanPush(a, e)
    BY <1>1, <1>4, <1>8 DEF CanPush, Shapes
  <1>10. PushAll(a, Mapped(m, e)) = Pushed(a, e)
    <2>1. PushAll(a, Mapped(m, e)) = Push(a, e)
      BY Yielded DEF Mapped
    <2> QED BY <1>1, <1>9, <2>1 DEF Push, Shapes
  <1>11. Pushed(a, e).ok = TRUE
    <2>1. Pushed(a, e) = [a EXCEPT !.stopped = TRUE]
      BY DEF Pushed
    <2> QED BY <1>1, <2>1 DEF Shapes
  <1>12. CanMap(m, e)
    BY <1>7 DEF CanMap
  <1> QED BY <1>5, <1>10, <1>11, <1>12

-----------------------------------------------------------------------------
(* The theorem.                                                            *)

LEMMA StreamInit == Init => StreamInv
  <1> SUFFICES ASSUME Init PROVE StreamInv
    OBVIOUS
  <1>1. /\ consumed = <<>> /\ mapper = NewMapper /\ acc = NewAccumulator
        /\ request = "idle" /\ result = NoResult
    BY DEF Init
  <1>2. Heard(<<>>) /\ HeaderOK(<<>>, NewAccumulator)
    BY DEF Heard, HeaderOK, NewAccumulator, At, Beforehand
  <1>3. Shapes(NewMapper, NewAccumulator)
    BY DEF Shapes, NewMapper, NewAccumulator
  <1>4. \A i \in Indexes : BlockOK(<<>>, NewMapper, NewAccumulator, i)
    BY DEF BlockOK, NewMapper, NewAccumulator, Of
  <1>5. UsageOK(<<>>, NewAccumulator.usage) /\ NewMapper.usage = NewAccumulator.usage
    BY DEF UsageOK, Reports, Usages, At, NewAccumulator, NewMapper
  <1>6. /\ At(<<>>, "update") = {} /\ Usages(<<>>) = {}
        /\ NewAccumulator.reason = FALSE /\ NewAccumulator.fallback = FALSE
    BY DEF At, Usages, NewAccumulator
  <1>7. InStep(<<>>, NewMapper, NewAccumulator)
    BY <1>2, <1>3, <1>4, <1>5, <1>6 DEF InStep
  <1>8. NoResult.end # "ok"
    BY DEF NoResult
  <1> QED BY <1>1, <1>7, <1>8 DEF StreamInv

\* An attempt that fails has no response.
LEMMA FailureIsNoResponse ==
  ASSUME NEW error, error # "ok", Fails(error)
  PROVE  StreamInv'
  <1>1. request' = "over" /\ result'.end = error
    BY DEF Fails
  <1> QED BY <1>1 DEF StreamInv

\* Before the response streams, and between its events, nothing is collected.
LEMMA NothingCollected ==
  ASSUME StreamInv, UNCHANGED <<consumed, mapper, acc, result>>,
         request' # "over" => request # "over"
  PROVE  StreamInv'
  BY DEF StreamInv

LEMMA StreamNext == StreamInv /\ [Next]_vars => StreamInv'
  <1> SUFFICES ASSUME StreamInv, [Next]_vars PROVE StreamInv'
    OBVIOUS
  <1>1. CASE Connect \/ MarkStarted \/ Write \/ Responds \/ Cancel \/ Decide \/ UNCHANGED vars
    <2>1. UNCHANGED <<consumed, mapper, acc, result>> /\ (request' # "over" => request # "over")
      BY <1>1 DEF Connect, MarkStarted, Write, Responds, Cancel, Decide, vars
    <2> QED BY <2>1, NothingCollected
  <1>2. CASE NotDispatched
    BY <1>2, FailureIsNoResponse DEF NotDispatched
  <1>3. CASE SendFails
    <2>1. PICK error \in {"transport"} \cup (IF cancel THEN {"cancelled"} ELSE {}) :
            Fails(Classified(error))
      BY <1>3 DEF SendFails
    <2>2. Classified(error) # "ok"
      BY DEF Classified
    <2> QED BY <2>1, <2>2, FailureIsNoResponse
  <1>4. CASE Rejected
    <2>1. HttpError # "ok" /\ Fails(HttpError)
      BY <1>4 DEF Rejected, HttpError
    <2> QED BY <2>1, FailureIsNoResponse
  <1>5. CASE GivenUp
    <2>1. Fails(IF cancel THEN "cancelled" ELSE "idle")
      BY <1>5 DEF GivenUp
    <2> QED BY <2>1, FailureIsNoResponse
  <1>6. CASE StreamStops
    BY <1>6, FailureIsNoResponse DEF StreamStops
  <1>7. CASE StreamBreaks
    BY <1>7, FailureIsNoResponse DEF StreamBreaks
  <1>8. ASSUME NEW e \in Events, Consume(e) PROVE StreamInv'
    <2>1. /\ request = "streaming" /\ e.type \notin {"stop", "error"} /\ CanMap(mapper, e)
          /\ PushAll(acc, Mapped(mapper, e)).ok
      BY <1>8 DEF Consume, Acceptable, Listening
    <2>2. InStep(consumed, mapper, acc) /\ result = NoResult
      BY <2>1 DEF StreamInv
    <2>3. InStep(IF e.type = "noise" THEN consumed ELSE Append(consumed, e),
                 NextMapper(mapper, e), PushAll(acc, Mapped(mapper, e)))
      BY <2>1, <2>2, StepAny
    <2>4. /\ consumed' = (IF e.type = "noise" THEN consumed ELSE Append(consumed, e))
          /\ mapper' = NextMapper(mapper, e) /\ acc' = PushAll(acc, Mapped(mapper, e))
          /\ result' = result
      BY <1>8 DEF Consume
    <2>5. InStep(consumed', mapper', acc')
      BY <2>3, <2>4
    <2>6. result'.end # "ok" /\ result' = NoResult
      BY <2>2, <2>4 DEF NoResult
    <2> QED BY <2>5, <2>6 DEF StreamInv
  <1>9. ASSUME NEW e \in Events, Finish(e) PROVE StreamInv'
    <2>1. /\ request = "streaming" /\ e.type = "stop" /\ CanMap(mapper, e)
          /\ PushAll(acc, Mapped(mapper, e)).ok /\ acc.reason
      BY <1>9 DEF Finish, Acceptable, Listening
    <2>2. InStep(consumed, mapper, acc)
      BY <2>1 DEF StreamInv
    <2>3. Matches(Append(consumed, e), Response(PushAll(acc, Mapped(mapper, e))))
      BY <2>1, <2>2, FinishedIsWhole
    <2>4. /\ consumed' = Append(consumed, e) /\ request' = "over"
          /\ result' = Response(PushAll(acc, Mapped(mapper, e)))
      BY <1>9 DEF Finish
    <2>5. Matches(consumed', result')
      BY <2>3, <2>4
    <2> QED BY <2>4, <2>5 DEF StreamInv
  <1>10. ASSUME NEW e \in Events, Refuse(e) PROVE StreamInv'
    BY <1>10, FailureIsNoResponse DEF Refuse
  <1> QED BY <1>1, <1>2, <1>3, <1>4, <1>5, <1>6, <1>7, <1>8, <1>9, <1>10 DEF Next

LEMMA StreamInvLeads == StreamInv => ResponseIsTheMessage
  <1> SUFFICES ASSUME StreamInv PROVE ResponseIsTheMessage
    OBVIOUS
  <1> DEFINE stop == [type |-> "stop"]
  <1>1. stop \in Events /\ stop.type = "stop"
    BY DEF Events
  <1> HIDE DEF stop
  <1>2. ASSUME Listening, WholeMessage(Append(consumed, stop)) PROVE Acceptable(stop)
    <2>1. InStep(consumed, mapper, acc)
      BY <1>2 DEF StreamInv, Listening
    <2>2. CanMap(mapper, stop) /\ PushAll(acc, Mapped(mapper, stop)).ok /\ acc.reason
      BY <1>1, <1>2, <2>1, WholeIsAccepted
    <2> QED BY <1>1, <2>2 DEF Acceptable
  <1>3. result.end = "ok" => Matches(consumed, result)
    BY DEF StreamInv
  <1> QED BY <1>2, <1>3, Zenon DEF ResponseIsTheMessage, Matches, stop

(* An attempt that succeeds has consumed a whole message and its response  *)
(* is that message - its blocks, its unusable tool inputs, the usage that  *)
(* is charged, the model that took over - and the end of a whole message   *)
(* is never refused (`Mapper::map_event`, `Accumulator::push`, `finish`),  *)
(* however the server orders, cuts or repeats its events.                  *)
THEOREM ResponsesAreMessages == Spec => []ResponseIsTheMessage
  <1>1. Init => StreamInv
    BY StreamInit
  <1>2. StreamInv /\ [Next]_vars => StreamInv'
    BY StreamNext
  <1>3. StreamInv => ResponseIsTheMessage
    BY StreamInvLeads
  <1> QED BY <1>1, <1>2, <1>3, PTL DEF Spec
=============================================================================
