--------------------------- MODULE AgentLoopProofs ---------------------------
(***************************************************************************)
(* One agent's loop, for every set of children, turn limit, capacity and   *)
(* number of tool uses and messages.                                       *)
(*                                                                         *)
(* What makes the conversation well formed at a request is what the loop   *)
(* owes it between requests: a response that uses tools leads to a user    *)
(* message with one answer per use, built one by one, and only when that   *)
(* message is recorded can anything else follow (Owed).  Mail joins the    *)
(* same message, and the loop then turns to another request; when the      *)
(* turns are used up or an answer is accepted nothing is delivered, and    *)
(* only what tools had taken before goes unread (CarriedOK).               *)
(***************************************************************************)
EXTENDS AgentLoop, TLAPS

\* What a message of the conversation may carry.
MailIds == Nat \cup Children

Message == [role : {"user", "assistant"}, ids : Seq(Nat), mail : SUBSET MailIds]

Stages == {"task", "recording", "top", "asked", "tools", "running", "decide", "idle", "done"}

\* The types the argument needs; of the mailbox, that what is queued can be named.
TalkTypes ==
  /\ stage \in Stages /\ after \in {"top", "decide"}
  /\ history \in Seq(Message)
  /\ draft \in Message /\ draft.role = "user"
  /\ turns \in Nat /\ previous \in Nat /\ sent \in Nat
  /\ response \in [stop : StopReasons, uses : Seq(Kinds)]
  /\ results \in Seq(Nat)
  /\ committed \in BOOLEAN
  /\ handed \subseteq MailIds

BoxTypes ==
  /\ mails \in Nat
  /\ DOMAIN box = {"queue", "arrivals", "plain", "reserved", "awaiting", "closed", "turn",
                   "concluded", "seen"}
  /\ box.reserved \in 0 .. mails
  /\ box.awaiting \subseteq Children
  /\ box.concluded \subseteq Children
  /\ \A e \in box.queue : e.id \in MailIds

LoopTypes == TalkTypes /\ BoxTypes

\* The answers that the next user message has to bring.
Owed == IF history # <<>> /\ history[Len(history)].role = "assistant"
        THEN history[Len(history)].ids ELSE <<>>

\* What is settled at each stage of the loop.
StageOK ==
  /\ stage = "done" <=> status # "running"
  /\ stage \notin {"recording", "done"} => draft = NoDraft
  /\ stage = "task" => history = <<>> /\ turns = 0
  /\ stage = "asked" => sent = Len(history) /\ turns < MaxTurns
  /\ stage \in {"tools", "running"} =>
       /\ history # <<>> /\ history[Len(history)] = Assistant(response.uses)
       /\ results = [k \in 1 .. Len(results) |-> k]
       /\ Len(results) <= Len(response.uses)
  /\ stage = "running" => Len(results) < Len(response.uses) /\ response.stop = "tool_use"
  /\ stage = "idle" => turns < MaxTurns /\ response.stop = "end_turn"
  /\ turns <= MaxTurns

\* Every message of the conversation but the last one is followed by its answer.
AnswersOK ==
  /\ \A i \in DOMAIN history :
       /\ history[i].role = "user" =>
            history[i].ids = IF i > 1 /\ history[i - 1].role = "assistant"
                             THEN history[i - 1].ids ELSE <<>>
       /\ history[i].role = "assistant" /\ history[i].ids # <<>> /\ i < Len(history) =>
            history[i + 1].role = "user"
  /\ stage = "recording" => draft.ids = Owed
  /\ stage \in {"task", "top", "asked", "decide", "idle"} => Owed = <<>>

\* The mail that is part of the conversation, or of the message being recorded.
Said == MailIn(history) \cup draft.mail

\* Mail that no model has responded to yet is part of the request under way, or of the
\* next one, or the agent is stopped, its trace or its request has failed.  Only what
\* tools took may be left over, by an accepted answer or the last turn.
CarriedOK ==
  \/ Said \subseteq carried
  \/ status \in {"stopped", "error"}
  \/ stage = "done" /\ Unanswered
  \/ /\ turns < MaxTurns
     /\ stage \in {"top", "asked"} \/ (stage = "recording" /\ after = "top")
  \/ /\ turns < MaxTurns /\ ~committed
     /\ response.stop \in {"tool_use", "pause_turn", "max_tokens"}
     /\ stage = "decide" \/ (stage = "recording" /\ after = "decide")
  \/ /\ stage \in {"recording", "decide", "top", "done"}
     /\ Said \subseteq carried \cup handed
     /\ committed \/ turns = MaxTurns

\* What tools took goes into the message with their results.
HandedOK ==
  /\ handed # {} => response.stop = "tool_use"
  /\ stage \notin {"tools", "running"} /\ status # "error" => handed \subseteq Said

\* Nothing that arrived disappears.
PlacedOK ==
  /\ box.closed => stage = "done"
  /\ \A id \in Arrivals : id \in Said \cup handed \/ \E e \in box.queue : e.id = id

MailOK == CarriedOK /\ HandedOK /\ PlacedOK

\* An accepted answer goes nowhere but to the verdict.
AnswerOK ==
  /\ stage \in {"task", "top", "asked", "idle", "running"} => ~committed
  /\ stage = "recording" /\ after = "top" => ~committed
  /\ AcceptedAnswerDecides

LoopInv == LoopTypes /\ StageOK /\ AnswersOK /\ MailOK /\ AnswerOK /\ EstimateInStep

-----------------------------------------------------------------------------
(* What the operators of the loop give.                                    *)

LEMMA Appended ==
  ASSUME NEW S, NEW h \in Seq(S), NEW m \in S
  PROVE  /\ Append(h, m) \in Seq(S) /\ Len(Append(h, m)) = Len(h) + 1
         /\ Append(h, m)[Len(h) + 1] = m
         /\ \A i \in 1 .. Len(h) : Append(h, m)[i] = h[i]
  OBVIOUS

LEMMA MailOfAppended ==
  ASSUME NEW h \in Seq(Message), NEW m \in Message
  PROVE  MailIn(Append(h, m)) = MailIn(h) \cup m.mail
  <1> DEFINE g == Append(h, m)
  <1>1. /\ DOMAIN g = 1 .. Len(h) + 1 /\ g[Len(h) + 1] = m
        /\ \A i \in 1 .. Len(h) : g[i] = h[i]
    BY Appended
  <1>2. DOMAIN h = 1 .. Len(h) /\ Len(h) \in Nat
    OBVIOUS
  <1> HIDE DEF g
  <1>3. MailIn(g) = MailIn(h) \cup m.mail
    <2>1. ASSUME NEW x \in MailIn(g) PROVE x \in MailIn(h) \cup m.mail
      <3>1. PICK i \in DOMAIN g : x \in g[i].mail
        BY <2>1 DEF MailIn
      <3>2. i \in 1 .. Len(h) \/ i = Len(h) + 1
        BY <1>1, <1>2
      <3> QED BY <1>1, <1>2, <3>1, <3>2 DEF MailIn
    <2>2. ASSUME NEW x \in MailIn(h) PROVE x \in MailIn(g)
      <3>1. PICK i \in DOMAIN h : x \in h[i].mail
        BY <2>2 DEF MailIn
      <3>2. i \in DOMAIN g /\ g[i] = h[i]
        BY <1>1, <1>2
      <3> QED BY <3>1, <3>2 DEF MailIn
    <2>3. m.mail \subseteq MailIn(g)
      <3>1. Len(h) + 1 \in DOMAIN g
        BY <1>1, <1>2
      <3> QED BY <1>1, <3>1 DEF MailIn
    <2> QED BY <2>1, <2>2, <2>3
  <1> QED BY <1>3 DEF g

\* A response that is accepted, and the message it becomes.
LEMMA ResponseType ==
  ASSUME NEW r \in Responses
  PROVE  r \in [stop : StopReasons, uses : Seq(Kinds)]
  <1>1. r = [stop |-> r.stop, uses |-> r.uses] /\ r.stop \in StopReasons
        /\ r.uses \in SeqOf(Kinds, MaxUses)
    BY DEF Responses
  <1>2. r.uses \in Seq(Kinds)
    BY <1>1, LoopAssumption DEF SeqOf
  <1> QED BY <1>1, <1>2

LEMMA AssistantMessage ==
  ASSUME NEW uses \in Seq(Kinds)
  PROVE  /\ Assistant(uses) \in Message /\ Assistant(uses).role = "assistant"
         /\ Assistant(uses).mail = {}
         /\ Assistant(uses).ids = [k \in 1 .. Len(uses) |-> k]
         /\ uses = <<>> => Assistant(uses).ids = <<>>
  <1>1. [k \in 1 .. Len(uses) |-> k] \in Seq(Nat)
    OBVIOUS
  <1> QED BY <1>1 DEF Assistant, Message

LEMMA UserMessage ==
  ASSUME NEW ids \in Seq(Nat), NEW mail \in SUBSET MailIds
  PROVE  /\ User(ids, mail) \in Message /\ User(ids, mail).role = "user"
         /\ User(ids, mail).ids = ids /\ User(ids, mail).mail = mail
  BY DEF User, Message

\* A delivery takes from the queue and leaves the rest of the mailbox as it counts here.
LEMMA Delivered ==
  ASSUME LoopTypes, NEW taken, taken \subseteq box.queue, box' = AfterTake(box, taken),
         mails' = mails
  PROVE  /\ DOMAIN box' = DOMAIN box /\ box'.reserved = box.reserved
         /\ box'.awaiting = box.awaiting /\ box'.queue = box.queue \ taken
         /\ box'.concluded = box.concluded /\ box'.closed = box.closed
         /\ Arrivals' = Arrivals
         /\ {e.id : e \in taken} \subseteq MailIds
  <1>1. /\ DOMAIN box' = DOMAIN box /\ box'.reserved = box.reserved
        /\ box'.awaiting = box.awaiting /\ box'.queue = box.queue \ taken
        /\ box'.concluded = box.concluded /\ box'.closed = box.closed
    BY DEF AfterTake, LoopTypes, BoxTypes
  <1> QED BY <1>1 DEF LoopTypes, BoxTypes, Arrivals

\* A user message takes its mail from the queue, if it takes any.
LEMMA TurnTaken ==
  ASSUME LoopTypes, NEW ids \in Seq(Nat), NEW given \in SUBSET MailIds, NEW delivers \in BOOLEAN,
         NEW next, UserTurn(ids, given, delivers, next), mails' = mails
  PROVE  /\ draft' \in Message /\ draft'.role = "user" /\ draft'.ids = ids
         /\ given \subseteq draft'.mail /\ (~delivers => draft'.mail = given)
         /\ DOMAIN box' = DOMAIN box /\ box'.reserved = box.reserved
         /\ box'.awaiting = box.awaiting /\ box'.queue \subseteq box.queue
         /\ box'.concluded = box.concluded /\ box'.closed = box.closed
         /\ Arrivals' = Arrivals
         /\ \A e \in box.queue : e \in box'.queue \/ e.id \in draft'.mail
  <1> DEFINE taken == IF delivers THEN Taken(box, box.queue) ELSE {}
             mail == {e.id : e \in taken}
  <1>1. taken \subseteq box.queue
    BY DEF Taken
  <1>2. draft' = User(ids, given \cup mail)
    BY DEF UserTurn
  <1>3. (delivers /\ box' = AfterTake(box, taken)) \/ (~delivers /\ box' = box)
    BY DEF UserTurn
  <1>4. (~delivers => taken = {} /\ mail = {}) /\ \A e \in taken : e.id \in mail
    OBVIOUS
  <1> HIDE DEF taken
  <1>5. mail \subseteq MailIds
    BY <1>1 DEF LoopTypes, BoxTypes
  <1>6. /\ DOMAIN box' = DOMAIN box /\ box'.reserved = box.reserved
        /\ box'.awaiting = box.awaiting /\ box'.queue = box.queue \ taken
        /\ box'.concluded = box.concluded /\ box'.closed = box.closed
        /\ Arrivals' = Arrivals
    <2>1. CASE delivers
      BY <1>1, <1>3, <2>1, Delivered
    <2>2. CASE ~delivers
      BY <1>3, <1>4, <2>2 DEF Arrivals
    <2> QED BY <2>1, <2>2
  <1> HIDE DEF mail
  <1>7. given \cup mail \in SUBSET MailIds
    BY <1>5
  <1>8. /\ draft' \in Message /\ draft'.role = "user" /\ draft'.ids = ids
        /\ draft'.mail = given \cup mail
    BY <1>2, <1>7, UserMessage
  <1> QED BY <1>4, <1>6, <1>8

\* A message that is not being recorded carries nothing.
LEMMA NoDraftCarries ==
  NoDraft \in Message /\ NoDraft.mail = {} /\ NoDraft.role = "user" /\ <<>> \in Seq(Nat)
  <1>1. <<>> \in Seq(Nat)
    OBVIOUS
  <1> QED BY <1>1, UserMessage DEF NoDraft

\* A user message is opened: the answers that are owed, or what comes of its own.
LEMMA TurnStep ==
  ASSUME LoopInv, NEW ids \in Seq(Nat), NEW given \in SUBSET MailIds, NEW delivers \in BOOLEAN,
         NEW next \in {"top", "decide"}, UserTurn(ids, given, delivers, next),
         stage \notin {"recording", "top", "asked", "done"}, ids = Owed,
         UNCHANGED <<contract, history, turns, doubled, retried, previous, sent, response,
                     turnVars, status, mails, carried>>,
         next = "top" => ~committed,
         handed \subseteq MailIn(history) \cup given,
         \/ /\ turns < MaxTurns
            /\ next = "decide" =>
                 ~committed /\ response.stop \in {"tool_use", "pause_turn", "max_tokens"}
         \/ ~delivers /\ MailIn(history) \subseteq carried /\ given = {}
         \/ /\ ~delivers /\ MailIn(history) \subseteq carried \cup handed /\ given \subseteq handed
            /\ committed \/ turns = MaxTurns
  PROVE  LoopInv'
  <1> USE DEF LoopInv, LoopTypes, turnVars
  <1>1. /\ draft' \in Message /\ draft'.role = "user" /\ draft'.ids = ids
        /\ given \subseteq draft'.mail /\ (~delivers => draft'.mail = given)
        /\ DOMAIN box' = DOMAIN box /\ box'.reserved = box.reserved
        /\ box'.awaiting = box.awaiting /\ box'.queue \subseteq box.queue
        /\ box'.concluded = box.concluded /\ box'.closed = box.closed
        /\ Arrivals' = Arrivals
        /\ \A e \in box.queue : e \in box'.queue \/ e.id \in draft'.mail
    BY TurnTaken
  <1>2. stage' = "recording" /\ after' = next
    BY DEF UserTurn
  <1>3. LoopTypes'
    BY <1>1, <1>2 DEF TalkTypes, BoxTypes, Stages
  <1>4. StageOK'
    BY <1>2 DEF StageOK
  <1>5. AnswersOK'
    BY <1>1, <1>2 DEF AnswersOK, Owed
  <1>6. MailOK'
    <2>1. draft = NoDraft /\ draft.mail = {} /\ MailIn(history)' = MailIn(history)
      BY NoDraftCarries DEF StageOK
    <2>2. CarriedOK'
      BY <1>1, <1>2, <2>1 DEF CarriedOK, Said
    <2>3. HandedOK'
      BY <1>1, <2>1 DEF HandedOK, Said, MailOK
    <2>4. ~box.closed
      BY DEF MailOK, PlacedOK
    <2>5. PlacedOK'
      BY <1>1, <2>1, <2>4 DEF PlacedOK, Said, MailOK
    <2> QED BY <2>2, <2>3, <2>5 DEF MailOK
  <1>7. AnswerOK'
    BY <1>2 DEF AnswerOK, AcceptedAnswerDecides, StageOK
  <1>8. EstimateInStep'
    BY <1>2 DEF EstimateInStep
  <1> QED BY <1>3, <1>4, <1>5, <1>6, <1>7, <1>8

\* A step that takes or says no mail.
LEMMA MailStays ==
  ASSUME MailOK, UNCHANGED <<history, draft, handed, box, mails, response>>,
         stage \in {"tools", "running"} => stage' \in {"tools", "running"} \/ status' = "error",
         status = "error" => status' = "error",
         box.closed => stage' = "done"
  PROVE  HandedOK' /\ PlacedOK'
  BY DEF MailOK, HandedOK, PlacedOK, Said, MailIn, Arrivals

\* At rest the mail of the conversation is all there is.
LEMMA MailCarried ==
  ASSUME LoopInv, stage \notin {"recording", "done", "top", "asked", "decide"}
  PROVE  Said \subseteq carried /\ MailIn(history) \subseteq carried
  BY DEF LoopInv, StageOK, MailOK, CarriedOK, Said


-----------------------------------------------------------------------------
LEMMA InitLoopInv == LoopInit => LoopInv
  <1> SUFFICES ASSUME LoopInit PROVE LoopInv
    OBVIOUS
  <1> USE LoopAssumption DEF LoopInit
  <1>0. <<>> \in Seq(Nat) /\ <<>> \in Seq(Message) /\ <<>> \in Seq(Kinds)
    OBVIOUS
  <1>1. LoopTypes
    <2>1. NoDraft \in Message /\ NoDraft.role = "user"
      BY <1>0, UserMessage DEF NoDraft
    <2>2. response \in [stop : StopReasons, uses : Seq(Kinds)]
      BY <1>0 DEF StopReasons
    <2>3. TalkTypes
      BY <1>0, <2>1, <2>2 DEF TalkTypes, Stages
    <2> QED BY <2>3 DEF LoopTypes, BoxTypes, EmptyMailbox
  <1>2. Said = {}
    BY DEF NoDraft, User, MailIn, Said
  <1>3. StageOK /\ AnswersOK
    BY DEF StageOK, AnswersOK, Owed
  <1>4. Arrivals = {}
    BY DEF Arrivals, EmptyMailbox
  <1>6. MailOK
    BY <1>2, <1>4 DEF MailOK, CarriedOK, HandedOK, PlacedOK, EmptyMailbox
  <1>7. AnswerOK
    BY DEF AnswerOK, AcceptedAnswerDecides
  <1>5. EstimateInStep
    BY DEF EstimateInStep
  <1> QED BY <1>1, <1>3, <1>5, <1>6, <1>7 DEF LoopInv

\* The steps of everybody else: they change the mailbox, or stop the node.
Elsewhere ==
  \/ Stop \/ SendMail \/ MailArrives \/ ToolReports
  \/ \E c \in Children : SpawnChild(c) \/ ChildEnds(c)

LEMMA ElsewhereUntouched ==
  ASSUME Elsewhere
  PROVE  UNCHANGED <<contract, stage, history, loopVars, turnVars, draft, after, status, carried>>
  BY DEF Elsewhere, Stop, SendMail, MailArrives, ToolReports, SpawnChild, ChildEnds

LEMMA ElsewhereTypes == ASSUME LoopInv, Elsewhere PROVE LoopTypes'
  <1>1. TalkTypes /\ BoxTypes
    BY DEF LoopInv, LoopTypes
  <1>2. TalkTypes'
    BY <1>1, ElsewhereUntouched DEF TalkTypes, loopVars, turnVars
  <1>3. BoxTypes'
    <2> USE <1>1, LoopAssumption DEF BoxTypes, MailIds
    <2>1. CASE Stop
      BY <2>1 DEF Stop
    <2>2. CASE SendMail
      BY <2>2 DEF SendMail, Reserved
    <2>3. CASE MailArrives
      BY <2>3 DEF MailArrives, Pushed, Announced, Arrived, Envelope
    <2>4. ASSUME NEW c \in Children, SpawnChild(c) PROVE BoxTypes'
      BY <2>4 DEF SpawnChild, Expecting
    <2>5. ASSUME NEW c \in Children, ChildEnds(c) PROVE BoxTypes'
      BY <2>5 DEF ChildEnds, Pushed, Announced, Arrived, Envelope
    <2>6. CASE ToolReports
      BY <2>6 DEF ToolReports, Charged
    <2> QED BY <2>1, <2>2, <2>3, <2>4, <2>5, <2>6 DEF Elsewhere
  <1> QED BY <1>2, <1>3 DEF LoopTypes

\* What arrives is queued, since the mailbox is open.
LEMMA ElsewherePlaced == ASSUME LoopInv, Elsewhere PROVE PlacedOK'
  <1> USE LoopAssumption DEF LoopInv, LoopTypes, BoxTypes
  <1>1. Said' = Said /\ UNCHANGED <<handed, stage>>
    BY ElsewhereUntouched DEF Said, MailIn, turnVars
  <1>2. PlacedOK
    BY DEF MailOK
  <1>3. ASSUME box'.closed = box.closed, box'.queue = box.queue, Arrivals' = Arrivals
        PROVE  PlacedOK'
    BY <1>1, <1>2, <1>3 DEF PlacedOK
  <1>4. ASSUME NEW e, stage # "done", box' = Pushed(box, e), Arrivals' \subseteq Arrivals \cup {e.id}, DOMAIN e = {"id", "from", "kind", "size", "at"}
        PROVE  PlacedOK'
    <2>1. ~box.closed
      BY <1>2, <1>4 DEF PlacedOK
    <2>2. /\ box'.queue = box.queue \cup {Arrived(box, e)} /\ box'.closed = box.closed
          /\ Arrived(box, e).id = e.id
      BY <1>4, <2>1 DEF Pushed, Announced, Arrived
    <2> QED BY <1>1, <1>2, <1>4, <2>1, <2>2 DEF PlacedOK
  <1>5. CASE Stop
    BY <1>3, <1>5 DEF Stop, Arrivals
  <1>6. CASE SendMail
    <2>1. mails' - box'.reserved = mails - box.reserved
      BY <1>6 DEF SendMail, Reserved
    <2> QED BY <1>3, <1>6, <2>1 DEF SendMail, Reserved, Arrivals
  <1>7. CASE MailArrives
    <2> DEFINE e == Envelope(mails - box.reserved + 1, "peer", "message")
    <2>1. /\ stage # "done" /\ box' = Pushed(box, e) /\ mails' = mails /\ box.reserved > 0
          /\ e.id = mails - box.reserved + 1 /\ e.kind = "message"
          /\ DOMAIN e = {"id", "from", "kind", "size", "at"}
      BY <1>7 DEF MailArrives, Envelope
    <2> HIDE DEF e
    <2>2. box'.reserved = box.reserved - 1 /\ box'.concluded = box.concluded
      BY <2>1 DEF Pushed, Announced
    <2>3. 1 .. mails - box'.reserved \subseteq 1 .. mails - box.reserved \cup {e.id}
      BY <2>1, <2>2
    <2>4. Arrivals' \subseteq Arrivals \cup {e.id}
      BY <2>1, <2>2, <2>3 DEF Arrivals
    <2> QED BY <1>4, <2>1, <2>4
  <1>8. ASSUME ToolReports \/ \E c \in Children : SpawnChild(c) PROVE PlacedOK'
    <2>1. /\ box'.closed = box.closed /\ box'.queue = box.queue /\ box'.reserved = box.reserved
          /\ box'.concluded = box.concluded /\ mails' = mails
      BY <1>8 DEF ToolReports, SpawnChild, Charged, Expecting
    <2> QED BY <1>3, <2>1 DEF Arrivals
  <1>9. ASSUME NEW c \in Children, ChildEnds(c) PROVE PlacedOK'
    <2> DEFINE e == Envelope(c, c, "notice")
    <2>1. /\ stage # "done" /\ box' = Pushed(box, e) /\ mails' = mails
          /\ e.id = c /\ e.from = c /\ e.kind = "notice"
          /\ DOMAIN e = {"id", "from", "kind", "size", "at"}
      BY <1>9 DEF ChildEnds, Envelope
    <2> HIDE DEF e
    <2>2. box'.reserved = box.reserved /\ box'.concluded = box.concluded \cup {c}
      BY <2>1 DEF Pushed, Announced
    <2>3. Arrivals' \subseteq Arrivals \cup {e.id}
      BY <2>1, <2>2 DEF Arrivals
    <2> QED BY <1>4, <2>1, <2>3
  <1> QED BY <1>5, <1>6, <1>7, <1>8, <1>9 DEF Elsewhere

LEMMA ElsewhereStep == ASSUME LoopInv, Elsewhere PROVE LoopInv'
  <1> USE ElsewhereUntouched DEF LoopInv, loopVars, turnVars
  <1>1. StageOK' /\ AnswersOK'
    BY DEF StageOK, AnswersOK, Owed
  <1>2. CarriedOK' /\ HandedOK'
    BY DEF MailOK, CarriedOK, HandedOK, Said, MailIn, Unanswered
  <1>3. AnswerOK' /\ EstimateInStep'
    BY DEF AnswerOK, AcceptedAnswerDecides, EstimateInStep
  <1> QED BY <1>1, <1>2, <1>3, ElsewhereTypes, ElsewherePlaced DEF MailOK

\* At rest what tools took is part of the conversation.
LEMMA HandedSaid ==
  ASSUME LoopInv, stage \in {"task", "decide", "idle", "top", "asked"}
  PROVE  handed \subseteq MailIn(history) \cup {} /\ handed \subseteq MailIn(history)
  <1>1. draft.mail = {} /\ status # "error"
    BY NoDraftCarries DEF LoopInv, StageOK
  <1> QED BY <1>1 DEF LoopInv, MailOK, HandedOK, Said

\* The task opens the conversation.
LEMMA TaskStep == ASSUME LoopInv, Task PROVE LoopInv'
  <1>1. stage = "task" /\ UserTurn(<<>>, {}, TRUE, "top")
    BY DEF Task
  <1>2. Owed = <<>> /\ turns < MaxTurns /\ ~committed
    BY <1>1, LoopAssumption DEF LoopInv, StageOK, AnswersOK, AnswerOK
  <1> QED BY <1>1, <1>2, HandedSaid, TurnStep, NoDraftCarries DEF Task, loopVars

\* The message under way becomes part of the conversation.
LEMMA RecordStep == ASSUME LoopInv, Record PROVE LoopInv'
  <1> USE DEF LoopInv, LoopTypes, loopVars, turnVars, outside
  <1>1. stage = "recording" /\ stage' = after /\ draft' = NoDraft /\ history' = Append(history, draft)
        /\ UNCHANGED <<contract, loopVars, turnVars, after, status, outside, carried>>
    BY DEF Record
  <1>2. /\ history' \in Seq(Message) /\ Len(history') = Len(history) + 1
        /\ history'[Len(history) + 1] = draft
        /\ \A i \in 1 .. Len(history) : history'[i] = history[i]
    BY <1>1, Appended DEF TalkTypes
  <1>3. history \in Seq(Message) /\ draft \in Message /\ draft.role = "user" /\ draft.ids = Owed
        /\ after \in {"top", "decide"}
    BY <1>1 DEF TalkTypes, AnswersOK
  <1>4. DOMAIN history' = 1 .. Len(history) + 1 /\ DOMAIN history = 1 .. Len(history)
    BY <1>2, <1>3
  <1>5. LoopTypes'
    BY <1>1, <1>2, <1>3, NoDraftCarries DEF TalkTypes, BoxTypes, Stages
  <1>6. StageOK'
    BY <1>1, <1>3 DEF StageOK
  <1>7. Owed' = <<>>
    BY <1>2, <1>3 DEF Owed
  <1>8. AnswersOK'
    BY <1>1, <1>2, <1>3, <1>4, <1>7 DEF AnswersOK, Owed
  <1>9. MailIn(history') = MailIn(history) \cup draft.mail
    BY <1>1, <1>3, MailOfAppended
  <1>10. MailOK'
    <2>1. Said' = Said
      BY <1>1, <1>9, NoDraftCarries DEF Said
    <2>2. CarriedOK' /\ HandedOK' /\ PlacedOK'
      BY <1>1, <1>3, <2>1 DEF MailOK, CarriedOK, HandedOK, PlacedOK, Arrivals, StageOK
    <2> QED BY <2>2 DEF MailOK
  <1>11. AnswerOK'
    BY <1>1, <1>3 DEF AnswerOK, AcceptedAnswerDecides, StageOK
  <1>12. EstimateInStep'
    BY <1>1, <1>2, <1>3 DEF EstimateInStep, TalkTypes
  <1> QED BY <1>5, <1>6, <1>8, <1>10, <1>11, <1>12

\* A record is refused.
LEMMA TraceFailsStep == ASSUME LoopInv, TraceFails PROVE LoopInv'
  <1> USE LoopAssumption DEF LoopInv, LoopTypes, loopVars, turnVars, outside
  <1>1. LoopTypes'
    BY DEF TraceFails, Finish, TalkTypes, BoxTypes, Stages
  <1>2. StageOK'
    BY DEF TraceFails, Finish, StageOK
  <1>3. AnswersOK'
    BY DEF TraceFails, Finish, AnswersOK, Owed
  <1>4. MailOK'
    <2>1. CarriedOK'
      BY DEF TraceFails, Finish, CarriedOK
    <2>2. HandedOK' /\ PlacedOK'
      BY MailStays DEF TraceFails, Finish, MailOK, PlacedOK
    <2> QED BY <2>1, <2>2 DEF MailOK
  <1>5. AnswerOK'
    BY DEF TraceFails, Finish, AnswerOK, AcceptedAnswerDecides
  <1>6. EstimateInStep'
    BY DEF TraceFails, Finish, EstimateInStep
  <1> QED BY <1>1, <1>2, <1>3, <1>4, <1>5, <1>6

\* The loop is over at its top.
LEMMA GiveUpStep == ASSUME LoopInv, GiveUp PROVE LoopInv'
  <1> USE LoopAssumption DEF LoopInv, LoopTypes, loopVars, turnVars, outside
  <1>1. LoopTypes'
    BY DEF GiveUp, Finish, TalkTypes, BoxTypes, Stages
  <1>2. StageOK'
    BY DEF GiveUp, Finish, StageOK
  <1>3. AnswersOK'
    BY DEF GiveUp, Finish, AnswersOK, Owed
  <1>4. MailOK'
    <2>1. CarriedOK'
      <3>1. stage = "top" /\ draft = NoDraft /\ status = "running" /\ (stopped \/ ~(turns < MaxTurns))
        BY DEF GiveUp, StageOK, TalkTypes
      <3>2. Said' = Said
        BY DEF GiveUp, Said, MailIn
      <3> QED BY <3>1, <3>2 DEF GiveUp, Finish, MailOK, CarriedOK
    <2>2. HandedOK' /\ PlacedOK'
      BY MailStays DEF GiveUp, Finish, MailOK, PlacedOK, StageOK
    <2> QED BY <2>1, <2>2 DEF MailOK
  <1>5. AnswerOK'
    BY DEF GiveUp, Finish, AnswerOK, AcceptedAnswerDecides, StageOK
  <1>6. EstimateInStep'
    BY DEF GiveUp, Finish, EstimateInStep
  <1> QED BY <1>1, <1>2, <1>3, <1>4, <1>5, <1>6

\* A request carries the conversation.
LEMMA RequestStep == ASSUME LoopInv, Request PROVE LoopInv'
  <1> USE LoopAssumption DEF LoopInv, LoopTypes, loopVars, turnVars, outside
  <1>1. LoopTypes'
    BY DEF Request, NewTurn, TalkTypes, BoxTypes, Stages
  <1>2. StageOK'
    BY DEF Request, NewTurn, StageOK
  <1>3. AnswersOK'
    BY DEF Request, NewTurn, AnswersOK, Owed
  <1>4. MailOK'
    <2>1. /\ Said' = Said /\ Arrivals' = Arrivals /\ box'.queue = box.queue
          /\ box'.closed = box.closed
      BY DEF Request, NewTurn, Said, MailIn, Arrivals, BoxTypes
    <2>2. CarriedOK'
      BY DEF Request, CarriedOK
    <2>3. HandedOK' /\ PlacedOK'
      BY <2>1 DEF Request, HandedOK, PlacedOK, MailOK, StageOK
    <2> QED BY <2>2, <2>3 DEF MailOK
  <1>5. AnswerOK'
    BY DEF Request, NewTurn, AnswerOK, AcceptedAnswerDecides, StageOK
  <1>6. EstimateInStep'
    BY DEF Request, NewTurn, EstimateInStep
  <1> QED BY <1>1, <1>2, <1>3, <1>4, <1>5, <1>6

\* A request fails.
LEMMA RequestFailsStep == ASSUME LoopInv, RequestFails PROVE LoopInv'
  <1> USE LoopAssumption DEF LoopInv, LoopTypes, loopVars, turnVars, outside
  <1>1. LoopTypes'
    BY DEF RequestFails, Finish, TalkTypes, BoxTypes, Stages
  <1>2. StageOK'
    BY DEF RequestFails, Finish, StageOK
  <1>3. AnswersOK'
    BY DEF RequestFails, Finish, AnswersOK, Owed
  <1>4. MailOK'
    <2>1. CarriedOK'
      BY DEF RequestFails, Finish, CarriedOK, StageOK, Unanswered
    <2>2. HandedOK' /\ PlacedOK'
      BY MailStays DEF RequestFails, Finish, MailOK, PlacedOK, StageOK
    <2> QED BY <2>1, <2>2 DEF MailOK
  <1>5. AnswerOK'
    BY DEF RequestFails, Finish, AnswerOK, AcceptedAnswerDecides, StageOK
  <1>6. EstimateInStep'
    BY DEF RequestFails, Finish, EstimateInStep
  <1> QED BY <1>1, <1>2, <1>3, <1>4, <1>5, <1>6

\* A response that was cut off is asked for again.
LEMMA RetryCutOffStep == ASSUME LoopInv, RetryCutOff PROVE LoopInv'
  <1> USE LoopAssumption DEF LoopInv, LoopTypes, loopVars, turnVars, outside
  <1>1. LoopTypes'
    BY DEF RetryCutOff, TalkTypes, BoxTypes, Stages
  <1>2. StageOK'
    BY DEF RetryCutOff, StageOK
  <1>3. AnswersOK'
    BY DEF RetryCutOff, AnswersOK, Owed
  <1>4. MailOK'
    <2>1. CarriedOK'
      BY NoDraftCarries DEF RetryCutOff, CarriedOK, StageOK, Said, MailIn
    <2>2. HandedOK' /\ PlacedOK'
      BY MailStays DEF RetryCutOff, MailOK, PlacedOK, StageOK
    <2> QED BY <2>1, <2>2 DEF MailOK
  <1>5. AnswerOK'
    BY DEF RetryCutOff, AnswerOK, AcceptedAnswerDecides, StageOK
  <1>6. EstimateInStep'
    BY DEF RetryCutOff, EstimateInStep
  <1> QED BY <1>1, <1>2, <1>3, <1>4, <1>5, <1>6

\* A response becomes part of the conversation.
LEMMA RespondStep == ASSUME LoopInv, Respond PROVE LoopInv'
  <1> USE DEF LoopInv, LoopTypes, loopVars, turnVars, outside
  <1>1. PICK r \in Responses :
          /\ response' = r /\ history' = Append(history, Assistant(r.uses))
          /\ stage' = IF r.uses = <<>> THEN "decide" ELSE "tools"
    BY DEF Respond
  <1>2. /\ stage = "asked" /\ retried' = FALSE /\ doubled' = FALSE /\ previous' = sent
        /\ turns' = turns + 1 /\ results' = <<>> /\ committed' = FALSE /\ handed' = {}
        /\ carried' = MailIn(history)
        /\ UNCHANGED <<contract, sent, reminded, draft, after, status, outside>>
    BY DEF Respond
  <1>3. r \in [stop : StopReasons, uses : Seq(Kinds)]
    BY ResponseType
  <1> DEFINE m == Assistant(r.uses)
  <1>4. /\ m \in Message /\ m.role = "assistant" /\ m.mail = {}
        /\ m.ids = [k \in 1 .. Len(r.uses) |-> k] /\ (r.uses = <<>> => m.ids = <<>>)
    BY <1>3, AssistantMessage
  <1> HIDE DEF m
  <1>5. /\ history \in Seq(Message) /\ history' = Append(history, m)
        /\ DOMAIN history = 1 .. Len(history)
    BY <1>1 DEF TalkTypes, m
  <1>6. /\ history' \in Seq(Message) /\ Len(history') = Len(history) + 1
        /\ history'[Len(history) + 1] = m
        /\ \A i \in 1 .. Len(history) : history'[i] = history[i]
    BY <1>4, <1>5, Appended
  <1>7. /\ sent = Len(history) /\ draft = NoDraft /\ Owed = <<>>
        /\ status = "running" /\ turns < MaxTurns
    BY <1>2 DEF StageOK, AnswersOK
  <1>8. LoopTypes'
    <2>4. turns \in Nat /\ sent \in Nat
      BY DEF TalkTypes
    <2>5. /\ turns' = turns + 1 /\ previous' = sent /\ sent' = sent /\ committed' = FALSE
      BY <1>2
    <2>6. committed' \in BOOLEAN
      BY <2>5, Zenon
    <2>1. turns' \in Nat /\ previous' \in Nat /\ sent' \in Nat
      BY <2>4, <2>5
    <2>3. results' \in Seq(Nat)
      BY <1>2, NoDraftCarries
    <2>2. response' \in [stop : StopReasons, uses : Seq(Kinds)] /\ stage' \in Stages
      BY <1>1, <1>3 DEF Stages
    <2> QED BY <1>2, <1>6, <2>1, <2>2, <2>3, <2>6 DEF TalkTypes, BoxTypes
  <1>9. StageOK'
    <2>1. history' # <<>> /\ history'[Len(history')] = Assistant(response'.uses)
      BY <1>1, <1>6, <1>5 DEF m
    <2>2. results' = [k \in 1 .. Len(results') |-> k] /\ Len(results') <= Len(response'.uses)
      BY <1>1, <1>2, <1>3
    <2>3. turns' <= MaxTurns
      BY <1>2, <1>7, LoopAssumption DEF TalkTypes
    <2> QED BY <1>1, <1>2, <1>7, <2>1, <2>2, <2>3 DEF StageOK
  <1>10. AnswersOK'
    <2>1. Owed' = m.ids
      BY <1>4, <1>5, <1>6 DEF Owed
    <2>2. \A i \in 1 .. Len(history) :
             /\ history[i].role = "user" =>
                  history[i].ids = IF i > 1 /\ history[i - 1].role = "assistant"
                                   THEN history[i - 1].ids ELSE <<>>
             /\ history[i].role = "assistant" /\ history[i].ids # <<>> /\ i < Len(history) =>
                  history[i + 1].role = "user"
      BY <1>5 DEF AnswersOK
    <2>3. history # <<>> /\ history[Len(history)].role = "assistant" =>
            history[Len(history)].ids = <<>>
      BY <1>7 DEF Owed
    <2>4. \A i \in 1 .. Len(history) + 1 :
             /\ history'[i].role = "user" =>
                  history'[i].ids = IF i > 1 /\ history'[i - 1].role = "assistant"
                                   THEN history'[i - 1].ids ELSE <<>>
             /\ history'[i].role = "assistant" /\ history'[i].ids # <<>> /\ i < Len(history) + 1 =>
                  history'[i + 1].role = "user"
      BY <1>4, <1>5, <1>6, <2>2, <2>3
    <2> QED BY <1>1, <1>4, <1>6, <2>1, <2>4 DEF AnswersOK
  <1>11. MailOK'
    <2>1. MailIn(history)' = MailIn(history) /\ draft.mail = {} /\ Said' = Said
      <3>1. MailIn(Append(history, m)) = MailIn(history) \cup m.mail
        BY <1>4, <1>5, MailOfAppended
      <3>2. MailIn(history') = MailIn(history)
        BY <1>1, <1>4, <1>6, <3>1
      <3>3. MailIn(history)' = MailIn(history')
        BY DEF MailIn
      <3>4. draft.mail = {} /\ draft'.mail = {}
        BY <1>2, <1>7, NoDraftCarries
      <3> QED BY <3>2, <3>3, <3>4 DEF Said
    <2>2. Said' \subseteq carried' /\ handed \subseteq Said
      BY <1>2, <1>7, <2>1 DEF MailOK, HandedOK, Said
    <2>3. CarriedOK' /\ HandedOK'
      BY <1>2, <2>2 DEF CarriedOK, HandedOK
    <2>4. PlacedOK'
      BY <1>2, <1>7, <2>1, <2>2 DEF MailOK, PlacedOK, Arrivals
    <2> QED BY <2>3, <2>4 DEF MailOK
  <1>12. AnswerOK'
    BY <1>1, <1>2, <1>7 DEF AnswerOK, AcceptedAnswerDecides
  <1>13. EstimateInStep'
    BY <1>2, <1>4, <1>5, <1>6, <1>7 DEF EstimateInStep, TalkTypes
  <1> QED BY <1>8, <1>9, <1>10, <1>11, <1>12, <1>13

\* A tool use is answered without a call.
LEMMA SkipToolStep == ASSUME LoopInv, SkipTool PROVE LoopInv'
  <1> USE LoopAssumption DEF LoopInv, LoopTypes, loopVars, turnVars, outside
  <1>1. LoopTypes'
    BY DEF SkipTool, Pending, Answered, Runs, Accepts, TalkTypes, BoxTypes, Stages
  <1>2. StageOK'
    BY DEF SkipTool, Pending, Answered, Runs, Accepts, StageOK
  <1>3. AnswersOK'
    BY DEF SkipTool, Pending, Answered, Runs, Accepts, AnswersOK, Owed
  <1>4. MailOK'
    <2>1. CarriedOK'
      BY MailCarried DEF SkipTool, Pending, CarriedOK, Said, MailIn
    <2>2. HandedOK' /\ PlacedOK'
      BY MailStays DEF SkipTool, Pending, MailOK, PlacedOK, StageOK
    <2> QED BY <2>1, <2>2 DEF MailOK
  <1>5. AnswerOK'
    BY DEF SkipTool, Pending, Answered, Runs, Accepts, AnswerOK, AcceptedAnswerDecides
  <1>6. EstimateInStep'
    BY DEF SkipTool, Pending, Answered, Runs, Accepts, EstimateInStep
  <1> QED BY <1>1, <1>2, <1>3, <1>4, <1>5, <1>6

\* A tool runs.
LEMMA CallToolStep == ASSUME LoopInv, CallTool PROVE LoopInv'
  <1> USE LoopAssumption DEF LoopInv, LoopTypes, loopVars, turnVars, outside
  <1>1. LoopTypes'
    BY DEF CallTool, Pending, Answered, Runs, Accepts, TalkTypes, BoxTypes, Stages
  <1>2. StageOK'
    BY DEF CallTool, Pending, Answered, Runs, Accepts, StageOK
  <1>3. AnswersOK'
    BY DEF CallTool, Pending, Answered, Runs, Accepts, AnswersOK, Owed
  <1>4. MailOK'
    <2>1. CarriedOK'
      BY MailCarried DEF CallTool, Pending, CarriedOK, Said, MailIn
    <2>2. HandedOK' /\ PlacedOK'
      BY MailStays DEF CallTool, Pending, MailOK, PlacedOK, StageOK
    <2> QED BY <2>1, <2>2 DEF MailOK
  <1>5. AnswerOK'
    BY DEF CallTool, Pending, Answered, Runs, Accepts, AnswerOK, AcceptedAnswerDecides
  <1>6. EstimateInStep'
    BY DEF CallTool, Pending, Answered, Runs, Accepts, EstimateInStep
  <1> QED BY <1>1, <1>2, <1>3, <1>4, <1>5, <1>6

\* A tool takes mail.
LEMMA ToolTakesStep == ASSUME LoopInv, ToolTakes PROVE LoopInv'
  <1> USE LoopAssumption DEF LoopInv, LoopTypes, loopVars, turnVars
  <1>1. PICK from : LET taken == Taken(box, {e \in box.queue : e.from \in from})
                    IN  box' = AfterTake(box, taken) /\ handed' = handed \cup {e.id : e \in taken}
    BY DEF ToolTakes
  <1> DEFINE taken == Taken(box, {e \in box.queue : e.from \in from})
             mail == {e.id : e \in taken}
  <1>2. taken \subseteq box.queue
    BY DEF Taken
  <1>3. box' = AfterTake(box, taken) /\ handed' = handed \cup mail
    BY <1>1
  <1>4. /\ stage = "running" /\ response.stop = "tool_use"
        /\ UNCHANGED <<contract, stage, history, turns, doubled, retried, previous, sent, response,
                       reminded, results, committed, draft, after, status, stopped, mails, carried>>
    BY DEF ToolTakes, Open, StageOK
  <1>5. \A e \in taken : e.id \in mail
    OBVIOUS
  <1> HIDE DEF taken
  <1>6. /\ DOMAIN box' = DOMAIN box /\ box'.reserved = box.reserved
        /\ box'.awaiting = box.awaiting /\ box'.queue = box.queue \ taken
        /\ box'.concluded = box.concluded /\ box'.closed = box.closed
        /\ Arrivals' = Arrivals /\ mail \subseteq MailIds
    BY <1>2, <1>3, <1>4, Delivered
  <1> HIDE DEF mail
  <1>7. LoopTypes'
    BY <1>3, <1>4, <1>6 DEF TalkTypes, BoxTypes
  <1>8. StageOK' /\ AnswersOK'
    BY <1>4 DEF StageOK, AnswersOK, Owed
  <1>9. Said' = Said
    BY <1>4 DEF Said, MailIn
  <1>10. CarriedOK'
    BY <1>4, <1>9, MailCarried DEF CarriedOK
  <1>11. HandedOK'
    BY <1>4 DEF HandedOK
  <1>12. PlacedOK'
    BY <1>3, <1>4, <1>5, <1>6, <1>9 DEF MailOK, PlacedOK
  <1>13. AnswerOK' /\ EstimateInStep'
    BY <1>4 DEF AnswerOK, AcceptedAnswerDecides, EstimateInStep
  <1> QED BY <1>7, <1>8, <1>10, <1>11, <1>12, <1>13 DEF MailOK

\* A tool has returned.
LEMMA ToolReturnsStep == ASSUME LoopInv, ToolReturns PROVE LoopInv'
  <1> USE LoopAssumption DEF LoopInv, LoopTypes, loopVars, turnVars, outside
  <1>1. LoopTypes'
    BY DEF ToolReturns, Pending, Answered, Runs, Accepts, TalkTypes, BoxTypes, Stages
  <1>2. StageOK'
    BY DEF ToolReturns, Pending, Answered, Runs, Accepts, StageOK
  <1>3. AnswersOK'
    BY DEF ToolReturns, Pending, Answered, Runs, Accepts, AnswersOK, Owed
  <1>4. MailOK'
    <2>1. CarriedOK'
      BY MailCarried DEF ToolReturns, CarriedOK, Said, MailIn
    <2>2. HandedOK' /\ PlacedOK'
      BY MailStays DEF ToolReturns, MailOK, PlacedOK, StageOK
    <2> QED BY <2>1, <2>2 DEF MailOK
  <1>5. AnswerOK'
    BY DEF ToolReturns, Accepts, AnswerOK, AcceptedAnswerDecides, StageOK
  <1>6. EstimateInStep'
    BY DEF ToolReturns, Pending, Answered, Runs, Accepts, EstimateInStep
  <1> QED BY <1>1, <1>2, <1>3, <1>4, <1>5, <1>6

\* The answers of a response go into one message.
LEMMA ToolResultsStep == ASSUME LoopInv, ToolResults PROVE LoopInv'
  <1>1. stage = "tools" /\ Len(results) = Len(response.uses)
        /\ UserTurn(results, handed, Continues, "decide")
        /\ UNCHANGED <<contract, history, loopVars, turnVars, status, stopped, mails, carried>>
    BY DEF ToolResults
  <1>2. /\ results \in Seq(Nat) /\ response.uses \in Seq(Kinds) /\ Continues \in BOOLEAN
        /\ handed \in SUBSET MailIds /\ turns \in Nat /\ turns <= MaxTurns
    BY DEF LoopInv, LoopTypes, TalkTypes, Continues, StageOK
  <1>3. results = Owed
    BY <1>1, <1>2, AssistantMessage DEF LoopInv, StageOK, Owed
  <1>4. MailIn(history) \subseteq carried /\ (handed # {} => response.stop = "tool_use")
    BY <1>1, MailCarried DEF LoopInv, MailOK, HandedOK
  <1>5. Continues =>
          turns < MaxTurns /\ ~committed /\ response.stop \in {"tool_use", "pause_turn", "max_tokens"}
    BY DEF Continues
  <1>6. turns < MaxTurns \/ turns = MaxTurns
    BY <1>2, LoopAssumption
  <1> QED BY <1>1, <1>2, <1>3, <1>4, <1>5, <1>6, TurnStep DEF loopVars

\* The agent ends.
LEMMA DecideStep == ASSUME LoopInv, Decide PROVE LoopInv'
  <1> USE LoopAssumption DEF LoopInv, LoopTypes, loopVars, turnVars, outside
  <1>1. LoopTypes'
    BY DEF Decide, Finish, Verdict, TalkTypes, BoxTypes, Stages
  <1>2. StageOK'
    BY DEF Decide, Finish, Verdict, StageOK
  <1>3. AnswersOK'
    BY DEF Decide, Finish, Verdict, AnswersOK, Owed
  <1>4. MailOK'
    <2>1. CarriedOK'
      <3>1. Said' = Said /\ stage = "decide" /\ Verdict # "running" /\ status' = Verdict /\ stage' = "done"
        BY DEF Decide, Finish, Said, MailIn
      <3>2. Verdict # "stopped" => committed \/ response.stop \notin {"tool_use", "pause_turn", "max_tokens"}
        BY <3>1 DEF Verdict
      <3> QED BY <3>1, <3>2 DEF Decide, Finish, MailOK, CarriedOK, StageOK, loopVars
    <2>2. HandedOK' /\ PlacedOK'
      BY MailStays DEF Decide, Finish, MailOK, PlacedOK, StageOK
    <2> QED BY <2>1, <2>2 DEF MailOK
  <1>5. AnswerOK'
    BY DEF Decide, Finish, Verdict, AnswerOK, AcceptedAnswerDecides, StageOK
  <1>6. EstimateInStep'
    BY DEF Decide, Finish, Verdict, EstimateInStep
  <1> QED BY <1>1, <1>2, <1>3, <1>4, <1>5, <1>6

\* The agent goes on.
LEMMA GoOnStep == ASSUME LoopInv, GoOn PROVE LoopInv'
  <1> USE DEF LoopInv, LoopTypes, loopVars, turnVars
  <1>1. /\ stage = "decide" /\ ~committed /\ ~stopped /\ Owed = <<>> /\ draft = NoDraft
        /\ status = "running" /\ draft.mail = {}
    BY NoDraftCarries DEF GoOn, Verdict, AnswersOK, StageOK
  <1>2. response.stop = "end_turn" => turns < MaxTurns
    BY LoopAssumption DEF GoOn, Verdict, TalkTypes
  <1>3. UNCHANGED <<contract, history, loopVars, turnVars, status, stopped, mails, carried>>
    BY DEF GoOn
  <1>4. \/ MailIn(history) \subseteq carried
        \/ turns < MaxTurns /\ response.stop \in {"tool_use", "pause_turn", "max_tokens"}
        \/ MailIn(history) \subseteq carried \cup handed /\ turns = MaxTurns
    BY <1>1 DEF MailOK, CarriedOK, Said
  <1>5. CASE response.stop = "max_tokens" /\ UserTurn(<<>>, {}, turns < MaxTurns, "top")
    <2>1. (turns < MaxTurns) \in BOOLEAN /\ (turns < MaxTurns => ~(turns = MaxTurns))
      BY LoopAssumption DEF TalkTypes
    <2> QED BY <1>1, <1>4, <1>5, <1>3, <2>1, HandedSaid, TurnStep, NoDraftCarries
  <1>6. CASE stage' \in {"top", "idle"} /\ UNCHANGED <<draft, after, box>>
             /\ (stage' = "idle" => response.stop = "end_turn")
             /\ (stage' = "top" => response.stop \in {"tool_use", "pause_turn", "max_tokens"})
    <2>1. LoopTypes'
      BY <1>1, <1>6, <1>2, <1>3 DEF TalkTypes, BoxTypes, Stages
    <2>2. StageOK'
      BY <1>1, <1>6, <1>2, <1>3 DEF StageOK
    <2>3. AnswersOK'
      BY <1>1, <1>6, <1>2, <1>3 DEF AnswersOK, Owed
    <2>4. MailOK'
      <3>1. Said' = Said /\ Said = MailIn(history)
        BY <1>1, <1>3, <1>6 DEF Said, MailIn
      <3>2. stage' = "idle" => handed = {}
        BY <1>6 DEF MailOK, HandedOK
      <3>3. CarriedOK'
        BY <1>1, <1>2, <1>3, <1>4, <1>6, <3>1, <3>2 DEF CarriedOK
      <3>4. HandedOK' /\ PlacedOK'
        BY <1>1, <1>3, <1>6, MailStays DEF MailOK, PlacedOK
      <3> QED BY <3>3, <3>4 DEF MailOK
    <2>5. AnswerOK'
      BY <1>1, <1>6, <1>2, <1>3 DEF AnswerOK, AcceptedAnswerDecides, StageOK
    <2>6. EstimateInStep'
      BY <1>1, <1>6, <1>2, <1>3 DEF EstimateInStep
    <2> QED BY <2>1, <2>2, <2>3, <2>4, <2>5, <2>6
  <1> QED BY <1>5, <1>6 DEF GoOn

\* Mail opens the next turn.
LEMMA IdleDeliverStep == ASSUME LoopInv, IdleDeliver PROVE LoopInv'
  <1>1. stage = "idle" /\ UserTurn(<<>>, {}, TRUE, "top")
    BY DEF IdleDeliver
  <1>2. Owed = <<>> /\ turns < MaxTurns /\ ~committed
    BY <1>1 DEF LoopInv, StageOK, AnswersOK, AnswerOK
  <1> QED BY <1>1, <1>2, HandedSaid, TurnStep, NoDraftCarries DEF IdleDeliver, loopVars

\* An agent that is idle ends.
LEMMA IdleEndsStep == ASSUME LoopInv, IdleEnds PROVE LoopInv'
  <1> USE LoopAssumption DEF LoopInv, LoopTypes, loopVars, turnVars, outside
  <1>1. LoopTypes'
    BY DEF IdleEnds, Finish, TalkTypes, BoxTypes, Stages
  <1>2. StageOK'
    BY DEF IdleEnds, Finish, StageOK
  <1>3. AnswersOK'
    BY DEF IdleEnds, Finish, AnswersOK, Owed
  <1>4. MailOK'
    <2>1. CarriedOK'
      BY MailCarried DEF IdleEnds, Finish, CarriedOK, Said, MailIn
    <2>2. HandedOK' /\ PlacedOK'
      <3>1. Said' = Said /\ Arrivals' = Arrivals /\ box'.queue = box.queue /\ stage' = "done"
        BY DEF IdleEnds, Finish, Said, MailIn, Arrivals, BoxTypes
      <3> QED BY <3>1 DEF IdleEnds, Finish, HandedOK, PlacedOK, MailOK, StageOK
    <2> QED BY <2>1, <2>2 DEF MailOK
  <1>5. AnswerOK'
    BY DEF IdleEnds, Finish, AnswerOK, AcceptedAnswerDecides, StageOK
  <1>6. EstimateInStep'
    BY DEF IdleEnds, Finish, EstimateInStep
  <1> QED BY <1>1, <1>2, <1>3, <1>4, <1>5, <1>6

\* An agent that owes an answer is reminded.
LEMMA IdleRemindsStep == ASSUME LoopInv, IdleReminds PROVE LoopInv'
  <1>1. stage = "idle" /\ UserTurn(<<>>, {}, TRUE, "top")
    BY DEF IdleReminds
  <1>2. Owed = <<>> /\ turns < MaxTurns /\ ~committed
    BY <1>1 DEF LoopInv, StageOK, AnswersOK, AnswerOK
  <1> QED BY <1>1, <1>2, HandedSaid, TurnStep, NoDraftCarries DEF IdleReminds

\* An idle agent is stopped.
LEMMA IdleStoppedStep == ASSUME LoopInv, IdleStopped PROVE LoopInv'
  <1> USE LoopAssumption DEF LoopInv, LoopTypes, loopVars, turnVars, outside
  <1>1. LoopTypes'
    BY DEF IdleStopped, Finish, TalkTypes, BoxTypes, Stages
  <1>2. StageOK'
    BY DEF IdleStopped, Finish, StageOK
  <1>3. AnswersOK'
    BY DEF IdleStopped, Finish, AnswersOK, Owed
  <1>4. MailOK'
    <2>1. CarriedOK'
      BY DEF IdleStopped, Finish, CarriedOK
    <2>2. HandedOK' /\ PlacedOK'
      BY MailStays DEF IdleStopped, Finish, MailOK, PlacedOK, StageOK
    <2> QED BY <2>1, <2>2 DEF MailOK
  <1>5. AnswerOK'
    BY DEF IdleStopped, Finish, AnswerOK, AcceptedAnswerDecides, StageOK
  <1>6. EstimateInStep'
    BY DEF IdleStopped, Finish, EstimateInStep
  <1> QED BY <1>1, <1>2, <1>3, <1>4, <1>5, <1>6

-----------------------------------------------------------------------------
LEMMA LoopStep == LoopInv /\ [LoopNext]_agentVars => LoopInv'
  <1> SUFFICES ASSUME LoopInv, [LoopNext]_agentVars PROVE LoopInv'
    OBVIOUS
  <1>1. CASE UNCHANGED agentVars
    <2> USE <1>1 DEF agentVars, loopVars, turnVars, outside, LoopInv
    <2>1. LoopTypes'
      BY DEF LoopTypes, TalkTypes, BoxTypes
    <2>2. StageOK' /\ AnswersOK'
      BY DEF StageOK, AnswersOK, Owed
    <2>3. CarriedOK' /\ HandedOK' /\ PlacedOK'
      BY DEF MailOK, CarriedOK, HandedOK, PlacedOK, Said, MailIn, Arrivals, Unanswered
    <2>4. AnswerOK' /\ EstimateInStep'
      BY DEF AnswerOK, AcceptedAnswerDecides, EstimateInStep
    <2> QED BY <2>1, <2>2, <2>3, <2>4 DEF MailOK
  <1>2. CASE LoopNext
    BY <1>2, TaskStep, RecordStep, TraceFailsStep, GiveUpStep, RequestStep, RequestFailsStep,
       RetryCutOffStep, RespondStep, SkipToolStep, CallToolStep, ToolTakesStep,
       ToolReturnsStep,       ToolResultsStep, DecideStep, GoOnStep, IdleDeliverStep, IdleEndsStep, IdleRemindsStep,
       IdleStoppedStep, ElsewhereStep DEF LoopNext, Elsewhere
  <1> QED BY <1>1, <1>2

\* The invariant of the loop.
THEOREM LoopInvariant == LoopSpec => []LoopInv
  <1> QED BY InitLoopInv, LoopStep, PTL DEF LoopSpec

\* Every request has each tool use of each response answered, once and in order, by the
\* message after it, whatever was retried, refused, cancelled or delivered in between
\* (runtime.rs Runtime::agent).
THEOREM RequestsAnswerToolUses == LoopSpec => []ToolUsesAnswered
  <1>1. LoopInv => ToolUsesAnswered
    <2> SUFFICES ASSUME LoopInv, stage = "asked", NEW i \in DOMAIN history
                 PROVE  LET m == history[i]
                            before == IF i = 1 THEN NoDraft ELSE history[i - 1]
                        IN /\ m.role = "user" =>
                                m.ids = (IF before.role = "assistant" THEN before.ids ELSE <<>>)
                           /\ m.role = "assistant" /\ m.ids # <<>> =>
                                i < Len(history) /\ history[i + 1].role = "user"
      BY DEF ToolUsesAnswered
    <2>1. history \in Seq(Message) /\ DOMAIN history = 1 .. Len(history) /\ Owed = <<>>
      BY DEF LoopInv, LoopTypes, TalkTypes, AnswersOK
    <2>2. i \in Nat /\ i >= 1 /\ i <= Len(history)
      BY <2>1
    <2>3. /\ history[i].role = "user" =>
               history[i].ids = IF i > 1 /\ history[i - 1].role = "assistant"
                                THEN history[i - 1].ids ELSE <<>>
          /\ history[i].role = "assistant" /\ history[i].ids # <<>> /\ i < Len(history) =>
               history[i + 1].role = "user"
      BY DEF LoopInv, AnswersOK
    <2>4. history[i].role = "assistant" /\ history[i].ids # <<>> => i # Len(history)
      BY <2>1, <2>2 DEF Owed
    <2> QED BY <2>1, <2>2, <2>3, <2>4, NoDraftCarries
  <1> QED BY <1>1, LoopInvariant, PTL

\* Mail that arrived before the agent ended is still in its mailbox or a model has responded
\* to it, unless the agent was stopped, its trace or its request failed, or a tool took it in
\* a response that completes the agent or is its last (runtime.rs Runtime::user_turn,
\* deliver, NodeCtx::receive, wait_via).
THEOREM MailIsNotLost == LoopSpec => []MailReachesModel
  <1>1. LoopInv => MailReachesModel
    <2> SUFFICES ASSUME LoopInv, status \notin {"running", "stopped", "error"}, ~Unanswered,
                        NEW id \in Arrivals, ~\E e \in box.queue : e.id = id
                 PROVE  id \in carried \/ (id \in handed /\ (committed \/ turns = MaxTurns))
      BY DEF MailReachesModel
    <2>1. stage = "done" /\ handed \subseteq Said
      BY DEF LoopInv, StageOK, MailOK, HandedOK
    <2>2. id \in Said
      BY <2>1 DEF LoopInv, MailOK, PlacedOK
    <2> QED BY <2>1, <2>2 DEF LoopInv, MailOK, CarriedOK
  <1> QED BY <1>1, LoopInvariant, PTL

\* An accepted answer completes the agent, and under a contract nothing else does
\* (runtime.rs Runtime::accept).
THEOREM AnswerDecides == LoopSpec => []AcceptedAnswerDecides
  <1>1. LoopInv => AcceptedAnswerDecides
    BY DEF LoopInv, AnswerOK
  <1> QED BY <1>1, LoopInvariant, PTL

\* The estimator measured the conversation before the response that follows it, and a
\* doubled output cap is only that of the retry (runtime.rs Runtime::agent).
THEOREM EstimateKept == LoopSpec => []EstimateInStep
  <1>1. LoopInv => EstimateInStep
    BY DEF LoopInv
  <1> QED BY <1>1, LoopInvariant, PTL
==============================================================================
