-------------------------------- MODULE Mailbox --------------------------------
(***************************************************************************)
(* One agent's mailbox (core/src/messages.rs): the operations of struct    *)
(* Mailbox as functions on its State.  Each runs under one mutex, so each  *)
(* is one atomic step of whoever calls it.                                 *)
(*                                                                         *)
(* The queue is the set of queued envelopes; `at` is the arrival number    *)
(* that push gives each of them, so arrival order is the order of `at`.    *)
(* A notice stands for the result, error and cancelled kinds.  Bodies are  *)
(* abstracted to the size that counts against the delivery budget.         *)
(***************************************************************************)
EXTENDS Integers, FiniteSets

CONSTANTS
  Capacity,        \* limits.mailbox_capacity
  DeliveryChars    \* limits.delivery_chars

ASSUME MailboxAssumption == Capacity \in Nat \ {0} /\ DeliveryChars \in Nat \ {0}

Plain(envelopes) == {e \in envelopes : e.kind = "message"}
Notices(envelopes) == {e \in envelopes : e.kind # "message"}
SendersOf(envelopes) == {e.from : e \in envelopes}

\* The size of a set of envelopes as delivered: one pair per character.
Size(envelopes) == Cardinality(UNION {{e} \X (1 .. e.size) : e \in envelopes})

EmptyMailbox ==
  [queue |-> {}, arrivals |-> 0, plain |-> 0, reserved |-> 0, awaiting |-> {},
   closed |-> FALSE, turn |-> 0, concluded |-> {}, seen |-> {}]

-----------------------------------------------------------------------------
\* Faulty variant: accepted sends that are not queued yet do not count.
QueueHasRoom(box) == ~box.closed /\ box.plain < Capacity
\* Mailbox::reserve
HasRoom(box) == ~box.closed /\ box.plain + box.reserved < Capacity
Reserved(box) == [box EXCEPT !.reserved = @ + 1]

\* Mailbox::expect
Expecting(box, child) == [box EXCEPT !.awaiting = @ \cup {child}]

\* The bookkeeping that push does whether or not the mailbox is closed.
Announced(box, e) ==
  IF e.kind = "message"
  THEN [box EXCEPT !.reserved = @ - 1]
  ELSE [box EXCEPT !.awaiting = @ \ {e.from}, !.concluded = @ \cup {e.from}]

\* The envelope as it sits in the queue.
Arrived(box, e) == [e EXCEPT !.at = box.arrivals + 1]

\* Faulty variant: a closed mailbox swallows the envelope into its queue.
PushedAnyway(box, e) ==
  [Announced(box, e) EXCEPT !.queue = @ \cup {Arrived(box, e)}, !.arrivals = @ + 1]

\* Mailbox::push; a closed mailbox returns the envelope to the caller.
Pushed(box, e) ==
  IF box.closed
  THEN Announced(box, e)
  ELSE [Announced(box, e) EXCEPT
          !.queue = @ \cup {Arrived(box, e)},
          !.arrivals = @ + 1,
          !.plain = @ + (IF e.kind = "message" THEN 1 ELSE 0)]

\* Faulty variant: a child that was not announced here is staged every time.
CanStageAgain(box, agent) == ~box.closed /\ agent \notin box.awaiting
\* Mailbox::stage
CanStage(box, agent) ==
  ~box.closed /\ agent \notin box.awaiting /\ agent \notin box.concluded
Staged(box, agent) ==
  [box EXCEPT !.concluded = @ \cup {agent}, !.awaiting = @ \cup {agent}]

\* Faulty variants: smaller envelopes overtake one that does not fit; every
\* delivery, not only the first of a turn, takes at least one.
TakenIfFits(box, picked) == {e \in picked : box.turn + e.size <= DeliveryChars}
TakenAtLeastOne(box, picked) ==
  {e \in picked :
     \/ \A f \in picked : e.at <= f.at
     \/ box.turn + Size({f \in picked : f.at <= e.at}) <= DeliveryChars}

\* What one delivery takes of the selected envelopes: in arrival order as long as
\* they fit what is left of the turn's budget; the first of a turn always goes.
Taken(box, picked) ==
  {e \in picked :
     \/ box.turn = 0 /\ \A f \in picked : e.at <= f.at
     \/ box.turn + Size({f \in picked : f.at <= e.at}) <= DeliveryChars}

\* Mailbox::take
AfterTake(box, taken) ==
  [box EXCEPT !.queue = @ \ taken,
              !.turn = @ + Size(taken),
              !.seen = @ \cup SendersOf(Notices(taken)),
              !.plain = @ - Cardinality(Plain(taken))]

\* Faulty variant: an agent with an accepted send on its way is done.
IdleDoneEarly(box) == box.queue = {} /\ box.awaiting = {}

\* Mailbox::idle answers Deliver while anything is queued, Done when nothing can
\* arrive any more, and Wait otherwise.
IdleDone(box) == box.queue = {} /\ box.awaiting = {} /\ box.reserved = 0

\* Mailbox::close
Closed(box) == [box EXCEPT !.closed = TRUE, !.plain = 0, !.queue = {}]

\* Mailbox::charge and Mailbox::saw
CanCharge(box, cost) == box.turn = 0 \/ box.turn + cost <= DeliveryChars
Charged(box, cost) == [box EXCEPT !.turn = @ + cost]
Saw(box, agent) == [box EXCEPT !.seen = @ \cup {agent}]

\* Mailbox::new_turn
NewTurn(box) == [box EXCEPT !.turn = 0]
=============================================================================
