------------------------------- MODULE Stream --------------------------------
(***************************************************************************)
(* One attempt at a model call, from the wire to its settlement: the       *)
(* request and the response stream of the Anthropic client                 *)
(* (providers/src/anthropic: `stream`, `send_request`, `response_stream`,  *)
(* `Mapper::map_event`), the `Accumulator` the runtime feeds with what it  *)
(* yields (`Runtime::stream`), and the charge of an attempt that fails     *)
(* (`ProviderError::charge`).                                              *)
(*                                                                         *)
(* The server sends any events in any order, in chunks of any size, stops  *)
(* at any point, and only it knows whether it took the request up.  The    *)
(* attempt may be cancelled, and may run into a timeout, at any time.      *)
(*                                                                         *)
(* Texts are left out; of a tool's JSON it matters how many halves have    *)
(* arrived, since none and two of them parse.  Usage is one counter, zero  *)
(* where an event leaves it out.                                           *)
(***************************************************************************)
EXTENDS Integers, Sequences, FiniteSets, SequencesExt

CONSTANTS
    Indexes,     \* content block indexes
    BlockKinds,  \* a set of "text", "thinking", "tool", "server"
    DeltaKinds,  \* a set of "text", "thinking", "signature", "input"
    Initial,     \* usage counters a start may carry,
    Updated,     \* an update,
    Serving,     \* and the entry of the serving model; 0 where it is left out
    MaxEvents    \* bound: events the server sends

ASSUME StreamAssumption ==
    /\ Initial \cup Updated \cup Serving \subseteq Nat
    /\ MaxEvents \in Nat

VARIABLES
    request,   \* where the request is
    started,   \* SendTrackedBody::send_started
    server,    \* what the server made of the request
    cancel,    \* the attempt's token
    consumed,  \* history: the events consumed while the stream lasts
    mapper,    \* Mapper: open server tools, usage, model
    acc,       \* the runtime's Accumulator
    result     \* the response, or the error the attempt ends with

vars == <<request, started, server, cancel, consumed, mapper, acc, result>>

NoResult == [end |-> "none"]

(* What an SSE event says.  The start and an update may name the model     *)
(* that took over and its usage (`serving`).  Pings and unknown events are *)
(* "noise".                                                                *)
Events ==
    [type : {"start"}, usage : Initial, serving : Serving]
    \cup [type : {"open"}, index : Indexes, kind : BlockKinds]
    \cup [type : {"delta"}, index : Indexes, kind : DeltaKinds]
    \cup [type : {"close"}, index : Indexes]
    \cup [type : {"update"}, reason : BOOLEAN, usage : Updated, serving : Serving]
    \cup [type : {"stop", "error", "noise"}]

(* Errors by what they are charged and by how they are told apart below.   *)
Zero == {"not_sent", "rejected"}  \* NotSent; 4xx, 529, ContextTooLarge
Reserved == {"http", "transport", "stream", "idle", "protocol", "cancelled", "other"}

Block == [kind : BlockKinds, halves : Nat, closed : BOOLEAN]

TypeOK ==
    /\ request \in {"idle", "connecting", "writing", "waiting", "streaming", "over"}
    /\ started \in BOOLEAN
    /\ server \in {"unreached", "received", "processing", "refused", "broken"}
    /\ cancel \in BOOLEAN
    /\ consumed \in Seq(Events) /\ Len(consumed) <= MaxEvents
    /\ DOMAIN mapper.tools \subseteq Indexes /\ mapper.usage \in Nat
    /\ DOMAIN acc.blocks \subseteq Indexes
    /\ \A i \in DOMAIN acc.blocks : acc.blocks[i] \in Block
    /\ result.end \in {"none", "ok"} \cup Zero \cup Reserved

NewMapper == [tools |-> <<>>, usage |-> 0]

NewAccumulator ==
    [header |-> FALSE, blocks |-> <<>>, usage |-> 0, fallback |-> FALSE,
     reason |-> FALSE, stopped |-> FALSE, invalid |-> {}, ok |-> TRUE]

Init ==
    /\ request = "idle"
    /\ started = FALSE
    /\ server = "unreached"
    /\ cancel = FALSE
    /\ consumed = <<>>
    /\ mapper = NewMapper
    /\ acc = NewAccumulator
    /\ result = NoResult

(* The attempt ends: the stream is dropped, with the connection and all    *)
(* that was collected.                                                     *)
Fails(error) ==
    /\ request' = "over"
    /\ result' = [end |-> error]
    /\ consumed' = <<>> /\ mapper' = NewMapper /\ acc' = NewAccumulator

(* `classify_dispatch`: what an error before a response is called depends  *)
(* on the flag only.                                                       *)
Classified(error) == IF started THEN error ELSE "not_sent"

-----------------------------------------------------------------------------
(* The request.                                                            *)

(* The node was stopped, or the token fired, before anything was done.     *)
NotDispatched ==
    /\ request = "idle" /\ cancel
    /\ Fails("not_sent")
    /\ UNCHANGED <<started, server, cancel>>

Connect ==
    /\ request = "idle" /\ ~cancel
    /\ request' = "connecting"
    /\ UNCHANGED <<started, server, cancel, consumed, mapper, acc, result>>

\* Faulty variant: the flag is set only when the body is read.
WriteUnmarked ==
    /\ request = "connecting"
    /\ request' = "writing"
    /\ server' = "received"
    /\ UNCHANGED <<started, cancel, consumed, mapper, acc, result>>

(* The body is asked whether it has ended when the request is dispatched   *)
(* on a connection: the flag is set before the first byte is written.      *)
MarkStarted ==
    /\ request = "connecting"
    /\ request' = "writing"
    /\ started' = TRUE
    /\ UNCHANGED <<server, cancel, consumed, mapper, acc, result>>

Write ==
    /\ request = "writing"
    /\ request' = "waiting"
    /\ server' = "received"
    /\ started' = TRUE
    /\ UNCHANGED <<cancel, consumed, mapper, acc, result>>

(* DNS, connect, TLS, a reset, the deadline, or the token: all of them are *)
(* told apart by what was sent.                                            *)
SendFails ==
    /\ request \in {"connecting", "writing", "waiting"}
    /\ \E error \in {"transport"} \cup (IF cancel THEN {"cancelled"} ELSE {}) :
          Fails(Classified(error))
    /\ UNCHANGED <<started, server, cancel>>

(* `error::http`: the status decides; the body only tells a prompt that is *)
(* too long from the other refusals, which are charged alike.              *)
HttpError == IF server = "refused" THEN "rejected" ELSE "http"

(* A response with an error status.                                        *)
Rejected ==
    /\ request = "waiting" /\ server \in {"refused", "broken"}
    /\ Fails(HttpError)
    /\ UNCHANGED <<started, server, cancel>>

Responds ==
    /\ request = "waiting" /\ server = "processing"
    /\ request' = "streaming"
    /\ UNCHANGED <<started, server, cancel, consumed, mapper, acc, result>>

(* The runtime waits for an answer, or for the next event, no longer than  *)
(* `request_idle`; a provider that does not react to the token is given up *)
(* after PROVIDER_CANCEL_GRACE.  Neither asks how far the request got.     *)
GivenUp ==
    /\ request \in {"connecting", "writing", "waiting", "streaming"}
    /\ Fails(IF cancel THEN "cancelled" ELSE "idle")
    /\ UNCHANGED <<started, server, cancel>>

(* While the stream lasts, a token that fires is seen before the next event:*)
(* `StreamStops`.                                                          *)
Cancel ==
    /\ request \notin {"streaming", "over"} /\ ~cancel
    /\ cancel' = TRUE
    /\ UNCHANGED <<request, started, server, consumed, mapper, acc, result>>

-----------------------------------------------------------------------------
(* `Mapper::map_event`: what one SSE event becomes.                        *)

Parses(halves) == halves \in {0, 2}

\* A map with one more entry.
With(f, x, v) == [y \in DOMAIN f \cup {x} |-> IF y = x THEN v ELSE f[y]]

ServerTool(m, e) == e.index \in DOMAIN m.tools

CanMap(m, e) ==
    CASE e.type = "open" /\ e.kind = "server" -> ~ServerTool(m, e)
      [] e.type = "close" /\ ServerTool(m, e) -> Parses(m.tools[e.index])
      [] e.type = "stop" -> m.tools = <<>>
      [] OTHER -> TRUE

(* The counter a start or an update stands for: what it leaves out comes   *)
(* from the model that serves, never from the one before a handoff.        *)
Latest(m, e) ==
    IF e.usage # 0 THEN e.usage ELSE IF e.serving # 0 THEN e.serving ELSE m.usage

Snapshot(m, e) == [type |-> "snapshot", usage |-> Latest(m, e)]

(* A server tool is held back until it is whole, then it is one block.     *)
Mapped(m, e) ==
    CASE e.type = "noise" -> <<>>
      [] e.type = "open" /\ e.kind = "server" -> <<>>
      [] e.type = "delta" /\ ServerTool(m, e) -> <<>>
      [] e.type = "close" /\ ServerTool(m, e) ->
           <<[type |-> "open", index |-> e.index, kind |-> "server"], e>>
      [] e.type \in {"start", "update"} /\ e.serving # 0 -> <<e, Snapshot(m, e)>>
      [] OTHER -> <<e>>

NextMapper(m, e) ==
    CASE e.type \in {"start", "update"} -> [m EXCEPT !.usage = Latest(m, e)]
      [] e.type = "open" /\ e.kind = "server" -> [m EXCEPT !.tools = With(@, e.index, 0)]
      [] e.type = "delta" /\ ServerTool(m, e) ->
           [m EXCEPT !.tools[e.index] = @ + IF e.kind = "input" THEN 1 ELSE 0]
      [] e.type = "close" /\ ServerTool(m, e) ->
           [m EXCEPT !.tools = Restrict(@, DOMAIN @ \ {e.index})]
      [] OTHER -> m

-----------------------------------------------------------------------------
(* `Accumulator::push` and `finish`.                                       *)

KindOf == [text |-> "text", thinking |-> "thinking", signature |-> "thinking",
           input |-> "tool"]

OpenBlock(a, e) == e.index \in DOMAIN a.blocks /\ ~a.blocks[e.index].closed

\* Faulty variant: a message may stop while a block is open.
CanPushEarlyStop(a, e) ==
    /\ ~a.stopped
    /\ a.header = (e.type # "start")
    /\ e.type = "open" => e.index \notin DOMAIN a.blocks
    /\ e.type = "delta" => OpenBlock(a, e) /\ a.blocks[e.index].kind = KindOf[e.kind]
    /\ e.type = "close" => OpenBlock(a, e)

CanPush(a, e) ==
    /\ ~a.stopped
    /\ a.header = (e.type # "start")
    /\ e.type = "open" => e.index \notin DOMAIN a.blocks
    /\ e.type = "delta" => OpenBlock(a, e) /\ a.blocks[e.index].kind = KindOf[e.kind]
    /\ e.type = "close" => OpenBlock(a, e)
    /\ e.type = "stop" => \A i \in DOMAIN a.blocks : a.blocks[i].closed

NewBlock(kind) == [kind |-> kind, halves |-> 0, closed |-> FALSE]

Malformed(a, e) == a.blocks[e.index].kind = "tool" /\ ~Parses(a.blocks[e.index].halves)

Pushed(a, e) ==
    CASE e.type = "start" -> [a EXCEPT !.header = TRUE, !.usage = e.usage]
      [] e.type = "open" -> [a EXCEPT !.blocks = With(@, e.index, NewBlock(e.kind))]
      [] e.type = "delta" ->
           [a EXCEPT !.blocks[e.index].halves = @ + IF e.kind = "input" THEN 1 ELSE 0]
      [] e.type = "close" ->
           [a EXCEPT !.blocks[e.index].closed = TRUE,
                     !.invalid = @ \cup IF Malformed(a, e) THEN {e.index} ELSE {}]
      [] e.type = "update" ->
           [a EXCEPT !.reason = @ \/ e.reason, !.usage = IF e.usage # 0 THEN e.usage ELSE @]
      [] e.type = "snapshot" -> [a EXCEPT !.usage = e.usage, !.fallback = TRUE]
      [] e.type = "stop" -> [a EXCEPT !.stopped = TRUE]

(* The runtime pushes what it is given, stops at the first refusal, and is *)
(* given at most two at a time.                                            *)
Push(a, e) == IF a.ok /\ CanPush(a, e) THEN Pushed(a, e) ELSE [a EXCEPT !.ok = FALSE]

PushAll(a, events) ==
    CASE Len(events) = 0 -> a
      [] Len(events) = 1 -> Push(a, events[1])
      [] Len(events) = 2 -> Push(Push(a, events[1]), events[2])

Response(a) == [end |-> "ok", blocks |-> a.blocks, invalid |-> a.invalid,
                usage |-> a.usage, fallback |-> a.fallback]

-----------------------------------------------------------------------------
(* The response stream.                                                    *)

(* The stream looks at the token and at the deadline before every event.   *)
Listening == request = "streaming" /\ ~cancel

Acceptable(e) ==
    /\ e.type # "error" /\ CanMap(mapper, e)
    /\ PushAll(acc, Mapped(mapper, e)).ok
    /\ e.type = "stop" => acc.reason

(* An event arrives, in whatever chunk, is mapped, yielded and pushed; a   *)
(* delta is recorded in the trace first.                                   *)
Consume(e) ==
    /\ Listening /\ e.type # "stop" /\ Acceptable(e)
    /\ consumed' = IF e.type = "noise" THEN consumed ELSE Append(consumed, e)
    /\ mapper' = NextMapper(mapper, e)
    /\ acc' = PushAll(acc, Mapped(mapper, e))
    /\ UNCHANGED <<request, started, server, cancel, result>>

(* message_stop ends the stream, and `finish` makes the response.          *)
Finish(e) ==
    /\ Listening /\ e.type = "stop" /\ Acceptable(e)
    /\ consumed' = Append(consumed, e)
    /\ mapper' = NextMapper(mapper, e)
    /\ acc' = PushAll(acc, Mapped(mapper, e))
    /\ request' = "over"
    /\ result' = Response(acc')
    /\ UNCHANGED <<started, server, cancel>>

(* An error event, one the mapper, the accumulator or `finish` refuses, or *)
(* a delta the trace could not record.                                     *)
Refuse(e) ==
    /\ Listening
    /\ \/ e.type = "error" /\ Fails("stream")
       \/ e.type # "error" /\ ~Acceptable(e) /\ Fails("protocol")
       \/ e.type = "delta" /\ ~ServerTool(mapper, e) /\ Fails("other")
    /\ UNCHANGED <<started, server, cancel>>

(* Cancelled, the deadline, or a transport error.                          *)
StreamStops ==
    /\ request = "streaming"
    /\ Fails("cancelled") \/ (~cancel /\ Fails("transport"))
    /\ UNCHANGED <<started, server, cancel>>

(* The body ends before message_stop, or is not UTF-8.                     *)
StreamBreaks ==
    /\ Listening
    /\ Fails("protocol")
    /\ UNCHANGED <<started, server, cancel>>

-----------------------------------------------------------------------------
(* The server: it takes the request up, refuses it (4xx, 529, a prompt     *)
(* that is too long) or breaks (5xx).                                      *)
Decide ==
    /\ server = "received"
    /\ server' \in {"processing", "refused", "broken"}
    /\ UNCHANGED <<request, started, cancel, consumed, mapper, acc, result>>

Next ==
    \/ NotDispatched \/ Connect \/ MarkStarted \/ Write \/ SendFails \/ Rejected
    \/ Responds \/ GivenUp \/ Cancel \/ StreamStops \/ StreamBreaks \/ Decide
    \/ \E e \in Events :
          Len(consumed) < MaxEvents /\ (Consume(e) \/ Finish(e) \/ Refuse(e))

Spec == Init /\ [][Next]_vars

-----------------------------------------------------------------------------
(* What a whole message is, said of the events themselves.                 *)

At(h, type) == {j \in DOMAIN h : h[j].type = type}
Of(h, i) == {j \in DOMAIN h : h[j].type \in {"open", "delta", "close"} /\ h[j].index = i}
Opened(h) == {h[j].index : j \in At(h, "open")}
Opening(h, i) == CHOOSE j \in Of(h, i) : h[j].type = "open"
Halves(h, i) == Cardinality({j \in Of(h, i) : h[j].type = "delta" /\ h[j].kind = "input"})

(* A block is opened once, first, and closed once, last; its deltas fit.   *)
WholeBlock(h, i) ==
    \E o, c \in Of(h, i) :
        /\ h[o].type = "open" /\ h[c].type = "close"
        /\ \A j \in Of(h, i) \ {o, c} :
             /\ o < j /\ j < c /\ h[j].type = "delta"
             /\ h[o].kind \in {"server", KindOf[h[j].kind]}
        /\ h[o].kind = "server" => Parses(Halves(h, i))

WholeMessage(h) ==
    /\ At(h, "stop") = {Len(h)} /\ At(h, "error") = {}
    /\ \E s \in DOMAIN h :
         /\ At(h, "start") = {s}
         /\ \A j \in 1..(s - 1) :  \* server tools are held back until they are whole
              \/ h[j].type = "noise"
              \/ h[j].type \in {"open", "delta"} /\ h[Opening(h, h[j].index)].kind = "server"
    /\ \A i \in Indexes : Of(h, i) # {} => WholeBlock(h, i)
    /\ \E j \in At(h, "update") : h[j].reason

(* The last counter the server named, its own or the serving model's.      *)
Usages(h) == At(h, "start") \cup At(h, "update")
Reports(h) == {j \in Usages(h) : h[j].usage # 0 \/ h[j].serving # 0}
Reported(h) ==
    IF Reports(h) = {} THEN 0
    ELSE LET e == h[CHOOSE j \in Reports(h) : \A k \in Reports(h) : k <= j]
         IN  IF e.usage # 0 THEN e.usage ELSE e.serving

(* An attempt that succeeds has consumed a whole message and nothing else, *)
(* and its response is that message: its blocks, its unusable tool inputs, *)
(* the usage the node is charged and whether another model took over       *)
(* (accumulator.rs:17, `rejecting inconsistent stream structure`).  A      *)
(* truncated, reordered or interleaved stream never becomes a response,    *)
(* and the end of a whole message is never refused.                        *)
ResponseIsTheMessage ==
    LET h == consumed
        tools == {i \in Opened(h) : h[Opening(h, i)].kind = "tool"}
        stop == [type |-> "stop"]
    IN  /\ Listening /\ WholeMessage(Append(h, stop)) => Acceptable(stop)
        /\ result.end = "ok" =>
             /\ WholeMessage(h)
             /\ DOMAIN result.blocks = Opened(h)
             /\ result.invalid = {i \in tools : ~Parses(Halves(h, i))}
             /\ result.usage = Reported(h)
             /\ result.fallback = (\E j \in Usages(h) : h[j].serving # 0)

(* An attempt that is settled at zero was not processed (lib.rs `charge`,  *)
(* `classify_dispatch`): the server was never reached, or has refused it,  *)
(* whatever the cancellation, timeout or transport error raced with.       *)
ZeroChargeIsUnprocessed ==
    result.end \in Zero => server \in {"unreached", "refused"}
=============================================================================
