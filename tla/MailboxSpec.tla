------------------------------ MODULE MailboxSpec ------------------------------
(***************************************************************************)
(* One agent's mailbox and everybody who uses it: senders whose accepted   *)
(* sends are recorded and queued by background tasks, children that end    *)
(* and report, and the owning agent, which takes deliveries, waits, idles  *)
(* and shuts down (core/src/runtime.rs around core/src/messages.rs).       *)
(*                                                                         *)
(* Every emit of a trace record is an await: what follows it is a step of  *)
(* its own.  The owner may do anything its API allows in any order.        *)
(***************************************************************************)
EXTENDS Mailbox

CONSTANTS
  Senders,         \* agents that may send here: parent, siblings and children
  Children,        \* those the owner may spawn
  Sizes,           \* sizes of plain messages as delivered
  NoticeSize,      \* size of a terminal notice as delivered
  MaxSize,         \* largest size: a header and limits.message_chars
  MaxMessages      \* bound: envelopes created in one behaviour

ASSUME ClientsAssumption ==
  /\ Children \subseteq Senders
  /\ MaxSize \in Nat \ {0}
  /\ Sizes \subseteq 1 .. MaxSize
  /\ NoticeSize \in 1 .. MaxSize
  /\ MaxMessages \in Nat

VARIABLES
  box,             \* the owner's Mailbox
  sending,         \* accepted plain messages that are not queued yet
  posting,         \* notices that are not queued yet
  spawned,         \* children that exist
  noted,           \* those that post their own notice here
  published,       \* those whose outcome is published
  nextId,          \* Inner.messages: the next message identifier
  recorded,        \* identifiers with a message_sent record
  delivered,       \* history: envelopes handed to the owner
  lost,            \* history: envelopes nobody will deliver (message_undelivered)
  promised,        \* history: noted children spawned before the mailbox closed
  closedBy,        \* history: "open", or what closed the mailbox first
  handed           \* history: envelopes and reports handed over in this turn

clientVars == <<spawned, noted, published, promised>>
historyVars == <<recorded, delivered, lost, closedBy, handed>>
mailboxVars == <<box, sending, posting, nextId, clientVars, historyVars>>

Envelope == [id : Nat, from : Senders, kind : {"message", "notice"},
             size : 1 .. MaxSize, at : Nat]
Box == [queue : SUBSET Envelope, arrivals : Nat, plain : Nat, reserved : Nat,
        awaiting : SUBSET Senders, closed : BOOLEAN, turn : Nat,
        concluded : SUBSET Senders, seen : SUBSET Senders]
NewEnvelope(sender, kind, size) ==
  [id |-> nextId, from |-> sender, kind |-> kind, size |-> size, at |-> 0]

Ids(envelopes) == {e.id : e \in envelopes}
InFlight == sending \cup posting

\* Sends of one agent queue in the order they were accepted (Work.sent).
NextOfSender(e) == \A f \in sending : f.from = e.from => e.id <= f.id

-----------------------------------------------------------------------------
MailboxInit ==
  /\ box = EmptyMailbox
  /\ sending = {} /\ posting = {}
  /\ spawned = {} /\ noted = {} /\ published = {}
  /\ nextId = 0
  /\ recorded = {} /\ delivered = {} /\ lost = {}
  /\ promised = {}
  /\ closedBy = "open"
  /\ handed = 0

\* NodeCtx::send up to the point where the message is accepted.
Send(s, size) ==
  /\ s \in Children => s \in spawned \ published
  /\ nextId < MaxMessages
  /\ HasRoom(box)
  /\ box' = Reserved(box)
  /\ sending' = sending \cup {NewEnvelope(s, "message", size)}
  /\ nextId' = nextId + 1
  /\ UNCHANGED <<posting, clientVars, historyVars>>

\* The task behind a send, or behind a notice, has written its message_sent record.
RecordSent(e) ==
  /\ e.id \notin recorded
  /\ e \in sending => NextOfSender(e)
  /\ recorded' = recorded \cup {e.id}
  /\ UNCHANGED <<box, sending, posting, nextId, clientVars,
                 delivered, lost, closedBy, handed>>

\* That task hands the envelope over, and records it as undelivered if refused.
PushEnvelope(e) ==
  /\ e.id \in recorded
  /\ e \in sending => NextOfSender(e)
  /\ box' = Pushed(box, e)
  /\ lost' = IF box.closed THEN lost \cup {e} ELSE lost
  /\ sending' = sending \ {e}
  /\ posting' = posting \ {e}
  /\ UNCHANGED <<nextId, clientVars, recorded, delivered, closedBy, handed>>

\* NodeCtx::spawn_agent: a node-owned child is expected, a cell-owned one is not.
Spawn(c, nodeOwned) ==
  /\ c \notin spawned
  /\ spawned' = spawned \cup {c}
  /\ IF nodeOwned
     THEN /\ noted' = noted \cup {c}
          /\ box' = Expecting(box, c)
          /\ promised' = IF box.closed THEN promised ELSE promised \cup {c}
     ELSE UNCHANGED <<noted, box, promised>>
  /\ UNCHANGED <<sending, posting, nextId, published, historyVars>>

\* A child's task publishes its outcome after run_node joined the child's sends.
Publish(c) ==
  /\ c \in spawned \ published
  /\ c \notin SendersOf(sending)
  /\ published' = published \cup {c}
  /\ UNCHANGED <<box, sending, posting, nextId, spawned, noted, promised, historyVars>>

\* Runtime::notify, once per node-owned child; it skips the record when the
\* mailbox is closed, and then the notice is undelivered at once.
Notify(c) ==
  LET e == NewEnvelope(c, "notice", NoticeSize) IN
  /\ c \in noted \cap published
  /\ nextId < MaxMessages
  /\ noted' = noted \ {c}
  /\ nextId' = nextId + 1
  /\ IF box.closed
     THEN /\ box' = Pushed(box, e)
          /\ lost' = lost \cup {e}
          /\ UNCHANGED posting
     ELSE /\ posting' = posting \cup {e}
          /\ UNCHANGED <<box, lost>>
  /\ UNCHANGED <<sending, spawned, published, promised,
                 recorded, delivered, closedBy, handed>>

\* NodeCtx::stage_notice, from wait or report, for any agent with an outcome.
StageNotice(c) ==
  /\ c \in published
  /\ nextId < MaxMessages
  /\ CanStage(box, c)
  /\ box' = Staged(box, c)
  /\ posting' = posting \cup {NewEnvelope(c, "notice", NoticeSize)}
  /\ nextId' = nextId + 1
  /\ UNCHANGED <<sending, clientVars, historyVars>>

\* One delivery of the picked envelopes.
Deliver(picked) ==
  LET taken == Taken(box, picked) IN
  /\ taken # {}
  /\ box' = AfterTake(box, taken)
  /\ delivered' = delivered \cup taken
  /\ handed' = handed + Cardinality(taken)
  /\ UNCHANGED <<sending, posting, nextId, clientVars, recorded, lost, closedBy>>

\* NodeCtx::wait takes what finished children queued: their outcome is published
\* and no notice of theirs is still on its way.
FinishedChildren == {c \in published : c \notin box.awaiting}
WaitFor(children) == Deliver({e \in box.queue : e.from \in children})

\* The agent's next model request starts (new_turn).
StartTurn ==
  /\ box.turn > 0
  /\ box' = NewTurn(box)
  /\ handed' = 0
  /\ UNCHANGED <<sending, posting, nextId, clientVars,
                 recorded, delivered, lost, closedBy>>

\* NodeCtx::report of an outcome in full: it fits what is left of the turn.
Report(c) ==
  /\ c \in published
  /\ c \in box.seen \/ c \notin box.concluded
  /\ CanCharge(box, NoticeSize)
  /\ box' = Saw(Charged(box, NoticeSize), c)
  /\ handed' = handed + 1
  /\ UNCHANGED <<sending, posting, nextId, clientVars,
                 recorded, delivered, lost, closedBy>>

\* The idle decision of an agent with nothing left to do, which closes the mailbox.
CloseIdle ==
  /\ ~box.closed
  /\ IdleDone(box)
  /\ box' = [box EXCEPT !.closed = TRUE]
  /\ closedBy' = "idle"
  /\ UNCHANGED <<sending, posting, nextId, clientVars,
                 recorded, delivered, lost, handed>>

\* run_node's shutdown closes the mailbox and records what it drains.
CloseMailbox ==
  /\ box' = Closed(box)
  /\ lost' = lost \cup box.queue
  /\ closedBy' = IF box.closed THEN closedBy ELSE "shutdown"
  /\ UNCHANGED <<sending, posting, nextId, clientVars, recorded, delivered, handed>>

MailboxNext ==
  \/ \E s \in Senders, size \in Sizes : Send(s, size)
  \/ \E e \in InFlight : RecordSent(e) \/ PushEnvelope(e)
  \/ \E c \in Children, nodeOwned \in BOOLEAN : Spawn(c, nodeOwned)
  \/ \E c \in Children : Publish(c) \/ Notify(c) \/ StageNotice(c) \/ Report(c)
  \/ Deliver(box.queue)
  \/ \E children \in SUBSET FinishedChildren : WaitFor(children)
  \/ StartTurn \/ CloseIdle \/ CloseMailbox

MailboxBehaviour == MailboxInit /\ [][MailboxNext]_mailboxVars

-----------------------------------------------------------------------------
\* Types; neither `reserved -= 1` in push nor `plain -=` in take can underflow.
MailboxTypeOK ==
  /\ box \in Box
  /\ sending \subseteq Envelope /\ posting \subseteq Envelope
  /\ spawned \subseteq Children /\ noted \subseteq spawned
  /\ published \subseteq spawned /\ promised \subseteq spawned
  /\ nextId \in Nat
  /\ recorded \subseteq Nat
  /\ delivered \subseteq Envelope /\ lost \subseteq Envelope
  /\ closedBy \in {"open", "idle", "shutdown"}
  /\ handed \in Nat

\* The capacity bounds queued and accepted plain messages together, however sends,
\* deliveries and the shutdown interleave: `plain` and `reserved` are what they
\* count, and a closed mailbox holds nothing (messages.rs reserve, push, take, close).
CapacityKept ==
  /\ box.plain = Cardinality(Plain(box.queue))
  /\ box.reserved = Cardinality(sending)
  /\ box.plain + box.reserved <= Capacity
  /\ box.closed => box.queue = {}

\* "Accepted and dropped" never happens (messages.rs:361): an envelope is at any
\* time either on its way, queued, delivered or reported as undelivered, and only
\* one of these.
ExactlyOnce ==
  LET places == <<sending, posting, box.queue, delivered, lost>> IN
  /\ \A i, j \in DOMAIN places : i # j => Ids(places[i]) \cap Ids(places[j]) = {}
  /\ UNION {Ids(places[i]) : i \in DOMAIN places} = 0 .. nextId - 1

\* The messages of one sender, its notice last, are queued and delivered in the
\* order they were accepted, whether a turn, a receive or a wait takes them and
\* whatever fits (Work.sent; "later envelopes stay behind", messages.rs:161).
SenderOrder ==
  /\ \A e, f \in box.queue : e.from = f.from /\ e.id < f.id => e.at < f.at
  /\ \A e \in delivered : \A f \in InFlight \cup box.queue \cup lost :
       f.from = e.from => e.id < f.id
  /\ \A e \in box.queue : \A f \in InFlight : f.from = e.from => e.id < f.id

\* An agent that closes its mailbox because nothing can arrive any more is right:
\* no accepted message is left on its way or lost afterwards, and the notice of
\* every child it promised to hear from was delivered (messages.rs idle).
IdleLosesNothing ==
  closedBy = "idle" =>
    /\ sending = {} /\ Plain(lost) = {}
    /\ promised \subseteq SendersOf(Notices(delivered))

\* An envelope is on record as sent before a recipient can see it (send, notify and
\* stage_notice emit first and queue after).
RecordedFirst == Ids(box.queue \cup delivered) \subseteq recorded

\* A child's outcome is queued at most once, whichever of its own notice, a wait
\* and a report get there first (stage, push and the concluded set).
OneNotice ==
  \A e, f \in Notices(posting \cup box.queue \cup delivered \cup lost) :
    e.from = f.from => e.id = f.id

\* Between two model requests an agent is handed no more than the delivery budget,
\* except that the first envelope or report of a turn always goes.
TurnBudget == handed > 1 => box.turn <= DeliveryChars
=============================================================================
