----------------------------- MODULE MailboxProofs -----------------------------
(***************************************************************************)
(* Proofs about one mailbox and its clients, for every number of senders,  *)
(* messages and sizes.  The properties are not inductive on their own: the *)
(* invariant adds that identifiers are unique and old, that arrival        *)
(* numbers are, what the life of a child implies for its notice, and what  *)
(* the two histories of closing mean.                                      *)
(***************************************************************************)
EXTENDS MailboxSpec, FiniteSetTheorems, TLAPS

All == sending \cup posting \cup box.queue \cup delivered \cup lost
Noticed == SendersOf(Notices(All))

\* An envelope has one place; sends are plain messages, and posts are notices.
PlacesOK ==
  /\ \A e \in All : e.id < nextId
  /\ \A e, f \in All : e.id = f.id => e = f
  /\ \A i \in 0 .. nextId - 1 : \E e \in All : e.id = i
  /\ sending \cap (posting \cup box.queue \cup delivered \cup lost) = {}
  /\ posting \cap (box.queue \cup delivered \cup lost) = {}
  /\ box.queue \cap (delivered \cup lost) = {}
  /\ delivered \cap lost = {}
  /\ \A e \in sending : e.kind = "message"
  /\ \A e \in posting : e.kind = "notice"

\* Arrival numbers are distinct and not in the future.
ArrivalsOK ==
  /\ \A e \in box.queue : e.at <= box.arrivals
  /\ \A e, f \in box.queue : e.at = f.at => e = f

\* The life of a child: it sends, its outcome is published, and only then can a
\* notice of it exist, announced by `awaiting` until it is queued.
ChildrenOK ==
  /\ SendersOf(sending) \cap published = {}
  /\ Noticed \subseteq published
  /\ noted \subseteq box.awaiting
  /\ noted \cap (Noticed \cup box.concluded) = {}
  /\ Noticed \subseteq box.awaiting \cup box.concluded
  /\ SendersOf(posting) \subseteq box.awaiting
  /\ box.concluded \subseteq published
  /\ promised \subseteq noted \cup Noticed

\* Nothing is lost before the mailbox closes, and nothing is queued after.
ClosingOK ==
  /\ closedBy = "open" <=> ~box.closed
  /\ lost # {} => box.closed

FiniteQueue == IsFiniteSet(box.queue) /\ IsFiniteSet(sending)

MailboxInv ==
  /\ MailboxTypeOK /\ PlacesOK /\ ArrivalsOK /\ ChildrenOK /\ ClosingOK /\ FiniteQueue
  /\ CapacityKept /\ SenderOrder /\ IdleLosesNothing /\ RecordedFirst /\ OneNotice

\* Taking a part of a finite set away takes its number away.
LEMMA RemovePart ==
  ASSUME NEW S, IsFiniteSet(S), NEW T, T \subseteq S
  PROVE  Cardinality(S \ T) = Cardinality(S) - Cardinality(T)
<1>1. S \cap T = T
  OBVIOUS
<1>2. Cardinality(S \ T) = Cardinality(S) - Cardinality(S \cap T)
  BY FS_Difference
<1>3. QED
  BY <1>1, <1>2

-----------------------------------------------------------------------------
\* The empty mailbox satisfies the invariant.
LEMMA MailboxInitInv == MailboxInit => MailboxInv
<1> SUFFICES ASSUME MailboxInit PROVE MailboxInv
  OBVIOUS
<1>1. /\ box \in Box /\ box.queue = {} /\ box.arrivals = 0 /\ box.plain = 0
      /\ box.reserved = 0 /\ box.awaiting = {} /\ box.closed = FALSE
      /\ box.turn = 0 /\ box.concluded = {} /\ box.seen = {}
  BY DEF MailboxInit, EmptyMailbox, Box
<1>2. All = {} /\ Noticed = {}
  BY <1>1 DEF MailboxInit, All, Noticed, Notices, SendersOf
<1>3. MailboxTypeOK
  BY <1>1 DEF MailboxInit, MailboxTypeOK
<1>4. PlacesOK /\ ArrivalsOK /\ ChildrenOK /\ ClosingOK
  BY <1>1, <1>2 DEF MailboxInit, PlacesOK, ArrivalsOK, ChildrenOK, ClosingOK, SendersOf
<1>5. Plain(box.queue) = {}
  BY <1>1 DEF Plain
<1>6. FiniteQueue /\ CapacityKept
  BY <1>1, <1>5, FS_EmptySet, MailboxAssumption
     DEF MailboxInit, FiniteQueue, CapacityKept
<1>7. SenderOrder /\ IdleLosesNothing /\ RecordedFirst /\ OneNotice
  BY <1>1 DEF MailboxInit, SenderOrder, IdleLosesNothing, RecordedFirst, OneNotice,
              InFlight, Ids, Notices
<1>8. QED
  BY <1>3, <1>4, <1>6, <1>7 DEF MailboxInv

\* An accepted message is the newest of its sender and has a reservation.
LEMMA SendStep ==
  ASSUME MailboxInv, NEW s \in Senders, NEW size \in Sizes, Send(s, size)
  PROVE  MailboxInv'
<1> DEFINE new == NewEnvelope(s, "message", size)
<1>1. /\ new \in Envelope /\ new.id = nextId /\ new.from = s /\ new.kind = "message"
      /\ sending' = sending \cup {new} /\ nextId' = nextId + 1
      /\ s \notin published
      /\ UNCHANGED <<posting, spawned, noted, published, promised,
                     recorded, delivered, lost, closedBy, handed>>
  BY ClientsAssumption DEF Send, NewEnvelope, Envelope, MailboxInv, MailboxTypeOK,
     ChildrenOK, clientVars, historyVars
<1>2. /\ box' \in Box /\ ~box.closed /\ box'.reserved = box.reserved + 1
      /\ box.plain + box.reserved < Capacity
      /\ box'.queue = box.queue /\ box'.arrivals = box.arrivals
      /\ box'.plain = box.plain /\ box'.awaiting = box.awaiting
      /\ box'.closed = box.closed /\ box'.concluded = box.concluded
  BY DEF Send, HasRoom, Reserved, MailboxInv, MailboxTypeOK, Box
<1>3. new \notin All
  BY <1>1 DEF MailboxInv, MailboxTypeOK, PlacesOK
<1> HIDE DEF new
<1>4. All' = All \cup {new} /\ Noticed' = Noticed
  BY <1>1, <1>2 DEF All, Noticed, Notices, SendersOf
<1>5. MailboxTypeOK'
  BY <1>1, <1>2 DEF MailboxInv, MailboxTypeOK
<1>6. PlacesOK'
  <2>1. \A i \in 0 .. nextId' - 1 : i \in 0 .. nextId - 1 \/ i = nextId
    BY <1>1 DEF MailboxInv, MailboxTypeOK
  <2>2. \A i \in 0 .. nextId' - 1 : \E e \in All' : e.id = i
    BY <1>1, <1>4, <2>1 DEF MailboxInv, PlacesOK
  <2>3. \A e \in All : e.id < nextId /\ e.id \in Nat
    BY DEF MailboxInv, MailboxTypeOK, PlacesOK, All, Box, Envelope
  <2>4. /\ \A e \in All' : e.id < nextId'
        /\ \A e, f \in All' : e.id = f.id => e = f
    BY <1>1, <1>4, <2>3 DEF MailboxInv, MailboxTypeOK, PlacesOK
  <2>5. QED
    BY <1>1, <1>2, <1>3, <2>2, <2>4 DEF MailboxInv, PlacesOK, All
<1>7. ArrivalsOK' /\ ClosingOK'
  BY <1>1, <1>2 DEF MailboxInv, ArrivalsOK, ClosingOK
<1>8. ChildrenOK'
  BY <1>1, <1>2, <1>4 DEF MailboxInv, ChildrenOK, SendersOf
<1>9. FiniteQueue' /\ Cardinality(sending') = Cardinality(sending) + 1
  BY <1>1, <1>2, <1>3, FS_AddElement DEF MailboxInv, FiniteQueue, All
<1>10. CapacityKept'
  BY <1>2, <1>9, MailboxAssumption DEF MailboxInv, MailboxTypeOK, Box, CapacityKept
<1>11. SenderOrder'
  BY <1>1, <1>2, <1>4 DEF MailboxInv, MailboxTypeOK, PlacesOK, SenderOrder, InFlight, All
<1>12. IdleLosesNothing' /\ RecordedFirst' /\ OneNotice'
  <2>1. IdleLosesNothing'
    BY <1>1, <1>2 DEF MailboxInv, ClosingOK, IdleLosesNothing
  <2>2. RecordedFirst'
    BY <1>1, <1>2 DEF MailboxInv, RecordedFirst
  <2>3. OneNotice'
    BY <1>1, <1>2 DEF MailboxInv, OneNotice, Notices
  <2>4. QED
    BY <2>1, <2>2, <2>3
<1>13. QED
  BY <1>5, <1>6, <1>7, <1>8, <1>9, <1>10, <1>11, <1>12 DEF MailboxInv

\* Writing a record changes nothing but the record.
LEMMA RecordStep ==
  ASSUME MailboxInv, NEW e \in InFlight, RecordSent(e)
  PROVE  MailboxInv'
<1>1. /\ recorded' = recorded \cup {e.id} /\ e \in Envelope
      /\ UNCHANGED <<box, sending, posting, nextId, spawned, noted, published,
                     promised, delivered, lost, closedBy, handed>>
  BY DEF RecordSent, clientVars, MailboxInv, MailboxTypeOK, InFlight
<1>2. MailboxTypeOK' /\ RecordedFirst'
  BY <1>1 DEF MailboxInv, MailboxTypeOK, RecordedFirst, Envelope
<1>3. All' = All /\ Noticed' = Noticed
  BY <1>1 DEF All, Noticed
<1>4. PlacesOK' /\ ArrivalsOK' /\ ChildrenOK' /\ ClosingOK'
  BY <1>1, <1>3 DEF MailboxInv, PlacesOK, ArrivalsOK, ChildrenOK, ClosingOK
<1>5. /\ FiniteQueue' /\ CapacityKept' /\ SenderOrder'
      /\ IdleLosesNothing' /\ OneNotice'
  BY <1>1 DEF MailboxInv, FiniteQueue, CapacityKept, SenderOrder, IdleLosesNothing,
              OneNotice, InFlight
<1>6. QED
  BY <1>2, <1>4, <1>5 DEF MailboxInv

\* Handing an envelope over moves it to the queue, or to the undelivered ones.
LEMMA PushStep ==
  ASSUME MailboxInv, NEW e \in InFlight, PushEnvelope(e)
  PROVE  MailboxInv'
<1> DEFINE moved == IF box.closed THEN e ELSE Arrived(box, e)
           plain == e.kind = "message"
<1>1. /\ e \in Envelope /\ e \in All /\ e.id \in recorded
      /\ e \in sending => \A f \in sending : f.from = e.from => e.id <= f.id
      /\ plain <=> e \in sending
      /\ ~plain <=> e \in posting
  BY DEF PushEnvelope, NextOfSender, MailboxInv, MailboxTypeOK, PlacesOK, InFlight,
         All, Envelope
<1>2. /\ sending' = sending \ {e} /\ posting' = posting \ {e}
      /\ lost' = IF box.closed THEN lost \cup {e} ELSE lost
      /\ UNCHANGED <<nextId, spawned, noted, published, promised,
                     recorded, delivered, closedBy, handed>>
  BY DEF PushEnvelope, clientVars
<1>3. /\ moved \in Envelope /\ moved.id = e.id /\ moved.from = e.from
      /\ moved.kind = e.kind
      /\ ~box.closed => moved.at = box.arrivals + 1
      /\ box.closed => moved = e
  BY <1>1 DEF MailboxInv, MailboxTypeOK, Box, Envelope, Arrived
<1>4. /\ IsFiniteSet(sending')
      /\ Cardinality(sending') = IF plain THEN Cardinality(sending) - 1
                                 ELSE Cardinality(sending)
      /\ Cardinality(sending') \in Nat
  <2>1. IsFiniteSet(sending)
    BY DEF MailboxInv, FiniteQueue
  <2>2. QED
    BY <1>1, <1>2, <2>1, FS_RemoveElement, FS_CardinalityType
<1>5. /\ box'.reserved = IF plain THEN box.reserved - 1 ELSE box.reserved
      /\ box'.awaiting = IF plain THEN box.awaiting ELSE box.awaiting \ {e.from}
      /\ box'.concluded = IF plain THEN box.concluded ELSE box.concluded \cup {e.from}
      /\ box'.closed = box.closed
      /\ box'.turn = box.turn /\ box'.seen = box.seen
      /\ box'.queue = IF box.closed THEN box.queue ELSE box.queue \cup {moved}
      /\ box'.plain = IF plain /\ ~box.closed THEN box.plain + 1 ELSE box.plain
      /\ box'.arrivals = IF box.closed THEN box.arrivals ELSE box.arrivals + 1
  BY DEF PushEnvelope, Pushed, Announced, MailboxInv, MailboxTypeOK, Box
<1> HIDE DEF moved
<1>6. box' \in Box
  <2>1. box'.reserved \in Nat
    BY <1>4, <1>5 DEF MailboxInv, CapacityKept
  <2>2. /\ box'.queue \subseteq Envelope /\ box'.plain \in Nat
        /\ box'.arrivals \in Nat /\ box'.awaiting \subseteq Senders
        /\ box'.concluded \subseteq Senders
    BY <1>1, <1>3, <1>5 DEF MailboxInv, MailboxTypeOK, Box, Envelope
  <2>3. QED
    BY <2>1, <2>2, <1>1
       DEF PushEnvelope, Pushed, Announced, MailboxInv, MailboxTypeOK, Box
<1>7. /\ All' = (All \ {e}) \cup {moved}
      /\ moved \notin All \ {e}
      /\ Noticed' = Noticed
  <2>1. e \notin box.queue \cup delivered \cup lost
    BY DEF MailboxInv, PlacesOK, InFlight
  <2>2. All' = (All \ {e}) \cup {moved}
    BY <1>2, <1>3, <1>5, <2>1 DEF All
  <2>3. moved \notin All \ {e}
    BY <1>1, <1>3 DEF MailboxInv, PlacesOK
  <2>4. Noticed' = Noticed
    BY <1>1, <1>3, <2>2 DEF Noticed, Notices, SendersOf
  <2>5. QED
    BY <2>2, <2>3, <2>4
<1>8. MailboxTypeOK'
  BY <1>1, <1>2, <1>6 DEF MailboxInv, MailboxTypeOK
<1>9. PlacesOK'
  <2>1. /\ \A x \in All' : x.id < nextId'
        /\ \A x, y \in All' : x.id = y.id => x = y
    BY <1>1, <1>2, <1>3, <1>7 DEF MailboxInv, PlacesOK
  <2>2. \A i \in 0 .. nextId' - 1 : \E x \in All' : x.id = i
    <3> SUFFICES ASSUME NEW i \in 0 .. nextId - 1 PROVE \E x \in All' : x.id = i
      BY <1>2
    <3>1. PICK x \in All : x.id = i
      BY DEF MailboxInv, PlacesOK
    <3>2. QED
      BY <1>1, <1>3, <1>7, <3>1
  <2>3. moved \notin (sending \cup posting \cup box.queue \cup delivered \cup lost) \ {e}
    BY <1>7 DEF All
  <2>4. QED
    BY <1>1, <1>2, <1>3, <1>5, <2>1, <2>2, <2>3 DEF MailboxInv, PlacesOK, InFlight
<1>10. ArrivalsOK' /\ ClosingOK'
  <2>1. ArrivalsOK'
    BY <1>3, <1>5 DEF MailboxInv, MailboxTypeOK, Box, Envelope, ArrivalsOK
  <2>2. ClosingOK'
    BY <1>2, <1>5 DEF MailboxInv, ClosingOK
  <2>3. QED
    BY <2>1, <2>2
<1>11. ChildrenOK'
  <2>1. e \in posting => /\ e.from \in Noticed /\ e.from \in SendersOf(posting)
                        /\ e.from \notin SendersOf(posting')
    BY <1>1, <1>2 DEF MailboxInv, PlacesOK, OneNotice, Noticed, Notices, SendersOf, All
  <2>2. /\ SendersOf(sending') \subseteq SendersOf(sending)
        /\ SendersOf(posting') \subseteq SendersOf(posting)
    BY <1>2 DEF SendersOf
  <2>3. CASE plain
    BY <1>1, <1>2, <1>5, <1>7, <2>2, <2>3 DEF MailboxInv, ChildrenOK
  <2>4. CASE ~plain
    <3>1. /\ box'.awaiting = box.awaiting \ {e.from}
          /\ box'.concluded = box.concluded \cup {e.from}
          /\ e.from \in published /\ e.from \notin noted
      BY <1>1, <1>5, <2>1, <2>4 DEF MailboxInv, ChildrenOK
    <3>2. QED
      BY <1>1, <1>2, <1>7, <2>1, <2>2, <2>4, <3>1 DEF MailboxInv, ChildrenOK
  <2>5. QED
    BY <2>3, <2>4
<1>12. FiniteQueue' /\ CapacityKept'
  <2>1. CASE box.closed
    <3>1. box'.queue = box.queue /\ box'.plain = box.plain
      BY <1>5, <2>1
    <3>2. FiniteQueue'
      BY <1>4, <3>1 DEF MailboxInv, FiniteQueue
    <3>3. CapacityKept'
      BY <1>4, <1>5, <3>1, MailboxAssumption
         DEF MailboxInv, MailboxTypeOK, Box, CapacityKept
    <3>4. QED
      BY <3>2, <3>3
  <2>2. CASE ~box.closed
    <3>1. moved \notin box.queue
      BY <1>1, <1>3, <1>7, <2>2
         DEF MailboxInv, MailboxTypeOK, Box, ArrivalsOK, Envelope
    <3>2. Plain(box.queue)' = IF plain THEN Plain(box.queue) \cup {moved}
                              ELSE Plain(box.queue)
      BY <1>3, <1>5, <2>2 DEF Plain
    <3>3. /\ IsFiniteSet(Plain(box.queue)) /\ IsFiniteSet(box.queue)
          /\ moved \notin Plain(box.queue)
      BY <3>1, FS_Subset DEF MailboxInv, FiniteQueue, Plain
    <3>4. /\ IsFiniteSet(box.queue \cup {moved})
          /\ Cardinality(Plain(box.queue) \cup {moved})
               = Cardinality(Plain(box.queue)) + 1
      BY <3>3, FS_AddElement
    <3>5. Cardinality(Plain(box.queue))' = IF plain THEN Cardinality(Plain(box.queue)) + 1
                                           ELSE Cardinality(Plain(box.queue))
      BY <3>2, <3>4
    <3>6. QED
      BY <1>4, <1>5, <2>2, <3>4, <3>5
         DEF MailboxInv, MailboxTypeOK, Box, FiniteQueue, CapacityKept
  <2>3. QED
    BY <2>1, <2>2
<1>13. SenderOrder'
  <2>1. \A f \in InFlight : f.from = e.from /\ f # e => e.id < f.id
    <3> SUFFICES ASSUME NEW f \in InFlight, f.from = e.from, f # e
                 PROVE  e.id < f.id
      OBVIOUS
    <3>1. f \in All /\ f \in Envelope /\ e.id # f.id
      BY <1>1 DEF MailboxInv, MailboxTypeOK, PlacesOK, InFlight, All
    <3>2. CASE e \in sending
      <4>1. f \in sending
        BY <3>2 DEF MailboxInv, PlacesOK, ChildrenOK, Noticed, Notices, SendersOf,
                    InFlight, All
      <4>2. QED
        BY <1>1, <3>1, <3>2, <4>1 DEF Envelope
    <3>3. CASE e \in posting
      <4>1. f \in posting
        BY <3>3 DEF MailboxInv, PlacesOK, ChildrenOK, Noticed, Notices, SendersOf,
                    InFlight, All
      <4>2. QED
        BY <3>1, <3>3, <4>1 DEF MailboxInv, PlacesOK, OneNotice, Notices
    <3>4. QED
      BY <3>2, <3>3 DEF InFlight
  <2>2. InFlight' = InFlight \ {e}
    BY <1>2 DEF InFlight
  <2>3. \A x \in box.queue : x.at < moved.at \/ box.closed
    BY <1>3 DEF MailboxInv, MailboxTypeOK, Box, Envelope, ArrivalsOK
  <2>4. \A x \in box.queue \cup delivered : x.from = e.from => x.id < e.id
    BY DEF MailboxInv, SenderOrder
  <2>5. \A x, y \in box'.queue : x.from = y.from /\ x.id < y.id => x.at < y.at
    <3>1. CASE box.closed
      BY <1>5, <3>1 DEF MailboxInv, SenderOrder
    <3>2. CASE ~box.closed
      <4> SUFFICES ASSUME NEW x \in box'.queue, NEW y \in box'.queue,
                          x.from = y.from, x.id < y.id
                   PROVE  x.at < y.at
        OBVIOUS
      <4>1. CASE x = moved
        BY <1>1, <1>3, <1>5, <2>4, <3>2, <4>1
           DEF Envelope, MailboxInv, MailboxTypeOK, Box
      <4>2. CASE x \in box.queue /\ y = moved
        BY <2>3, <3>2, <4>2
      <4>3. CASE x \in box.queue /\ y \in box.queue
        BY <4>3 DEF MailboxInv, SenderOrder
      <4>4. QED
        BY <1>5, <3>2, <4>1, <4>2, <4>3
    <3>3. QED
      BY <3>1, <3>2
  <2>6. \A x \in delivered' : \A y \in InFlight' \cup box'.queue \cup lost' :
          y.from = x.from => x.id < y.id
    BY <1>2, <1>3, <1>5, <2>2, <2>4 DEF MailboxInv, SenderOrder
  <2>7. \A x \in box'.queue : \A y \in InFlight' : y.from = x.from => x.id < y.id
    BY <1>3, <1>5, <2>1, <2>2 DEF MailboxInv, SenderOrder
  <2>8. QED
    BY <2>5, <2>6, <2>7 DEF SenderOrder
<1>14. IdleLosesNothing'
  <2> SUFFICES ASSUME closedBy = "idle"
               PROVE  /\ sending' = {} /\ Plain(lost)' = {}
                      /\ promised' \subseteq SendersOf(Notices(delivered))'
    BY <1>2 DEF IdleLosesNothing
  <2>1. sending = {} /\ Plain(lost) = {}
    BY DEF MailboxInv, IdleLosesNothing
  <2>2. e.kind # "message"
    BY <1>1, <2>1
  <2>3. QED
    BY <1>2, <2>1, <2>2 DEF MailboxInv, IdleLosesNothing, Plain
<1>15. RecordedFirst'
  BY <1>1, <1>2, <1>3, <1>5 DEF MailboxInv, RecordedFirst, Ids
<1>16. OneNotice'
  <2>1. OneNotice <=> \A x, y \in Notices(All) : x.from = y.from => x.id = y.id
    BY DEF MailboxInv, PlacesOK, OneNotice, Notices, All
  <2>2. OneNotice' <=> \A x, y \in Notices(All)' : x.from = y.from => x.id = y.id
    BY <1>9 DEF PlacesOK, OneNotice, Notices, All
  <2>3. QED
    BY <1>1, <1>3, <1>7, <2>1, <2>2 DEF MailboxInv, Notices
<1>17. QED
  BY <1>8, <1>9, <1>10, <1>11, <1>12, <1>13, <1>14, <1>15, <1>16 DEF MailboxInv

\* A step that moves no envelope keeps everything that is said of envelopes.
LEMMA SameTraffic ==
  ASSUME MailboxInv, box'.queue = box.queue, box'.arrivals = box.arrivals,
         UNCHANGED <<sending, posting, nextId, recorded, delivered, lost>>
  PROVE  /\ All' = All /\ Noticed' = Noticed
         /\ PlacesOK' /\ ArrivalsOK' /\ SenderOrder' /\ RecordedFirst' /\ OneNotice'
         /\ FiniteQueue'
<1>1. All' = All /\ Noticed' = Noticed
  BY DEF All, Noticed, Notices, SendersOf
<1>2. PlacesOK' /\ ArrivalsOK'
  BY <1>1 DEF MailboxInv, PlacesOK, ArrivalsOK
<1>3. SenderOrder'
  BY DEF MailboxInv, SenderOrder, InFlight
<1>4. RecordedFirst'
  BY DEF MailboxInv, RecordedFirst, Ids
<1>5. OneNotice' /\ FiniteQueue'
  BY DEF MailboxInv, OneNotice, FiniteQueue, Notices
<1>6. QED
  BY <1>1, <1>2, <1>3, <1>4, <1>5

\* A step that also leaves counters and closing alone keeps the capacity.
LEMMA SameCounters ==
  ASSUME MailboxInv, box'.queue = box.queue, box'.plain = box.plain,
         box'.reserved = box.reserved, box'.closed = box.closed,
         UNCHANGED <<sending, closedBy, lost>>
  PROVE  CapacityKept' /\ ClosingOK'
BY DEF MailboxInv, CapacityKept, ClosingOK, Plain

\* A new child has no past here; a promised one is expected.
LEMMA SpawnStep ==
  ASSUME MailboxInv, NEW c \in Children, NEW nodeOwned \in BOOLEAN, Spawn(c, nodeOwned)
  PROVE  MailboxInv'
<1>1. /\ c \in Senders /\ c \notin spawned /\ spawned' = spawned \cup {c}
      /\ noted' = IF nodeOwned THEN noted \cup {c} ELSE noted
      /\ promised' = IF nodeOwned /\ ~box.closed THEN promised \cup {c} ELSE promised
      /\ UNCHANGED <<sending, posting, nextId, published,
                     recorded, delivered, lost, closedBy, handed>>
  BY ClientsAssumption DEF Spawn, historyVars
<1>2. /\ box' \in Box
      /\ box'.awaiting = IF nodeOwned THEN box.awaiting \cup {c} ELSE box.awaiting
      /\ box'.queue = box.queue /\ box'.arrivals = box.arrivals
      /\ box'.plain = box.plain /\ box'.reserved = box.reserved
      /\ box'.closed = box.closed /\ box'.concluded = box.concluded
  BY <1>1 DEF Spawn, Expecting, MailboxInv, MailboxTypeOK, Box
<1>3. /\ All' = All /\ Noticed' = Noticed
      /\ PlacesOK' /\ ArrivalsOK' /\ SenderOrder' /\ RecordedFirst' /\ OneNotice'
      /\ FiniteQueue' /\ CapacityKept' /\ ClosingOK'
  BY <1>1, <1>2, SameTraffic, SameCounters
<1>4. MailboxTypeOK'
  BY <1>1, <1>2 DEF MailboxInv, MailboxTypeOK
<1>5. ChildrenOK'
  <2>1. c \notin published
    BY <1>1 DEF MailboxInv, MailboxTypeOK
  <2>2. QED
    BY <1>1, <1>2, <1>3, <2>1 DEF MailboxInv, ChildrenOK, SendersOf
<1>6. IdleLosesNothing'
  BY <1>1, <1>2 DEF MailboxInv, ClosingOK, IdleLosesNothing, Plain, Notices, SendersOf
<1>7. QED
  BY <1>3, <1>4, <1>5, <1>6 DEF MailboxInv

\* A child's outcome is published once its sends are joined.
LEMMA PublishStep ==
  ASSUME MailboxInv, NEW c \in Children, Publish(c)
  PROVE  MailboxInv'
<1>1. /\ c \in spawned /\ published' = published \cup {c} /\ c \notin SendersOf(sending)
      /\ UNCHANGED <<box, sending, posting, nextId, spawned, noted, promised,
                     recorded, delivered, lost, closedBy, handed>>
  BY DEF Publish, historyVars
<1>2. /\ All' = All /\ Noticed' = Noticed
      /\ PlacesOK' /\ ArrivalsOK' /\ SenderOrder' /\ RecordedFirst' /\ OneNotice'
      /\ FiniteQueue' /\ CapacityKept' /\ ClosingOK'
  BY <1>1, SameTraffic, SameCounters
<1>3. MailboxTypeOK' /\ IdleLosesNothing'
  BY <1>1 DEF MailboxInv, MailboxTypeOK, IdleLosesNothing
<1>4. ChildrenOK'
  BY <1>1, <1>2 DEF MailboxInv, ChildrenOK, SendersOf
<1>5. QED
  BY <1>2, <1>3, <1>4 DEF MailboxInv

\* A new notice of an agent that had none is the newest envelope of its sender.
LEMMA NewNotice ==
  ASSUME MailboxInv, NEW c \in Senders, c \notin Noticed,
         NEW e, e = NewEnvelope(c, "notice", NoticeSize), nextId' = nextId + 1,
         box'.queue = box.queue, box'.arrivals = box.arrivals,
         UNCHANGED <<sending, recorded, delivered>>,
         \/ posting' = posting \cup {e} /\ lost' = lost
         \/ posting' = posting /\ lost' = lost \cup {e}
  PROVE  /\ e \in Envelope /\ e \notin All /\ e.from = c /\ e.kind = "notice"
         /\ All' = All \cup {e} /\ Noticed' = Noticed \cup {c}
         /\ PlacesOK' /\ ArrivalsOK' /\ SenderOrder' /\ RecordedFirst' /\ OneNotice'
         /\ FiniteQueue'
<1>1. /\ e \in Envelope /\ e.id = nextId /\ e.from = c /\ e.kind = "notice"
  BY ClientsAssumption DEF NewEnvelope, Envelope, MailboxInv, MailboxTypeOK
<1>2. /\ e \notin All
      /\ \A x \in All : x.id < nextId /\ x.id \in Nat
  BY <1>1 DEF MailboxInv, MailboxTypeOK, PlacesOK, All, Box, Envelope
<1>3. All' = All \cup {e} /\ Noticed' = Noticed \cup {c}
  <2>1. All' = All \cup {e}
    BY DEF All
  <2>2. QED
    BY <1>1, <2>1 DEF Noticed, Notices, SendersOf
<1>4. PlacesOK'
  <2>1. \A i \in 0 .. nextId' - 1 : i \in 0 .. nextId - 1 \/ i = nextId
    BY DEF MailboxInv, MailboxTypeOK
  <2>2. \A i \in 0 .. nextId' - 1 : \E x \in All' : x.id = i
    BY <1>1, <1>3, <2>1 DEF MailboxInv, PlacesOK
  <2>3. /\ \A x \in All' : x.id < nextId'
        /\ \A x, y \in All' : x.id = y.id => x = y
    BY <1>1, <1>2, <1>3 DEF MailboxInv, MailboxTypeOK, PlacesOK
  <2>4. QED
    BY <1>1, <1>2, <2>2, <2>3 DEF MailboxInv, PlacesOK, All
<1>5. ArrivalsOK' /\ FiniteQueue' /\ RecordedFirst'
  BY DEF MailboxInv, ArrivalsOK, FiniteQueue, RecordedFirst, Ids
<1>6. SenderOrder'
  <2>1. InFlight' \cup box'.queue \cup lost' = (InFlight \cup box.queue \cup lost) \cup {e}
    BY DEF InFlight
  <2>2. InFlight' \subseteq InFlight \cup {e}
    BY DEF InFlight
  <2>3. \A x \in delivered \cup box.queue : x.id < e.id
    BY <1>1, <1>2 DEF All
  <2>4. QED
    BY <2>1, <2>2, <2>3 DEF MailboxInv, SenderOrder
<1>7. OneNotice'
  <2>1. \A x \in Notices(posting \cup box.queue \cup delivered \cup lost) : x.from # c
    BY DEF Noticed, Notices, SendersOf, All
  <2>2. Notices(posting \cup box.queue \cup delivered \cup lost)'
          \subseteq Notices(posting \cup box.queue \cup delivered \cup lost) \cup {e}
    BY DEF Notices
  <2>3. OneNotice
    BY DEF MailboxInv
  <2> DEFINE old == Notices(posting \cup box.queue \cup delivered \cup lost)
             new == Notices(posting \cup box.queue \cup delivered \cup lost)'
  <2>4. /\ \A x \in old : x.from # c
        /\ \A x, y \in old : x.from = y.from => x.id = y.id
        /\ new \subseteq old \cup {e}
    BY <2>1, <2>2, <2>3 DEF OneNotice
  <2>5. OneNotice' <=> \A x, y \in new : x.from = y.from => x.id = y.id
    BY DEF OneNotice
  <2> HIDE DEF old, new
  <2>6. QED
    BY <1>1, <2>4, <2>5
<1>8. QED
  BY <1>1, <1>2, <1>3, <1>4, <1>5, <1>6, <1>7

\* A node-owned child posts its one notice, or finds the mailbox closed.
LEMMA NotifyStep ==
  ASSUME MailboxInv, NEW c \in Children, Notify(c)
  PROVE  MailboxInv'
<1> DEFINE e == NewEnvelope(c, "notice", NoticeSize)
<1>1. /\ c \in Senders /\ c \in noted /\ c \in published /\ noted' = noted \ {c}
      /\ nextId' = nextId + 1
      /\ UNCHANGED <<sending, spawned, published, promised,
                     recorded, delivered, closedBy, handed>>
      /\ c \notin Noticed /\ c \in box.awaiting /\ c \notin box.concluded
  BY ClientsAssumption DEF Notify, MailboxInv, ChildrenOK
<1>2. /\ box' \in Box
      /\ box'.queue = box.queue /\ box'.arrivals = box.arrivals
      /\ box'.plain = box.plain /\ box'.reserved = box.reserved
      /\ box'.closed = box.closed
      /\ box'.awaiting = IF box.closed THEN box.awaiting \ {c} ELSE box.awaiting
      /\ box'.concluded = IF box.closed THEN box.concluded \cup {c} ELSE box.concluded
  <2>1. e.from = c /\ e.kind = "notice"
    BY DEF NewEnvelope
  <2>2. box \in Box
    BY DEF MailboxInv, MailboxTypeOK
  <2> HIDE DEF e
  <2>3. CASE box.closed
    <3>1. box' = [box EXCEPT !.awaiting = @ \ {e.from}, !.concluded = @ \cup {e.from}]
      BY <2>1, <2>3 DEF Notify, Pushed, Announced, e
    <3>2. QED
      BY <1>1, <2>1, <2>2, <2>3, <3>1 DEF Box
  <2>4. CASE ~box.closed
    BY <2>2, <2>4 DEF Notify
  <2>5. QED
    BY <2>3, <2>4
<1>3. \/ box.closed /\ posting' = posting /\ lost' = lost \cup {e}
      \/ ~box.closed /\ posting' = posting \cup {e} /\ lost' = lost
  BY DEF Notify
<1> HIDE DEF e
<1>4. /\ e \in Envelope /\ e \notin All /\ e.from = c /\ e.kind = "notice"
      /\ All' = All \cup {e} /\ Noticed' = Noticed \cup {c}
      /\ PlacesOK' /\ ArrivalsOK' /\ SenderOrder' /\ RecordedFirst' /\ OneNotice'
      /\ FiniteQueue'
  BY <1>1, <1>2, <1>3, NewNotice DEF e
<1>5. MailboxTypeOK'
  BY <1>1, <1>2, <1>3, <1>4 DEF MailboxInv, MailboxTypeOK
<1>6. CapacityKept' /\ ClosingOK'
  BY <1>1, <1>2, <1>3 DEF MailboxInv, CapacityKept, ClosingOK, Plain
<1>7. ChildrenOK'
  <2>1. SendersOf(posting') \subseteq box'.awaiting
    <3>1. CASE box.closed
      <4>1. c \notin SendersOf(posting)
        BY <1>1 DEF MailboxInv, PlacesOK, Noticed, Notices, SendersOf, All
      <4>2. QED
        BY <1>2, <1>3, <3>1, <4>1 DEF MailboxInv, ChildrenOK
    <3>2. CASE ~box.closed
      BY <1>1, <1>2, <1>3, <1>4, <3>2 DEF MailboxInv, ChildrenOK, SendersOf
    <3>3. QED
      BY <3>1, <3>2
  <2>2. QED
    BY <1>1, <1>2, <1>4, <2>1 DEF MailboxInv, ChildrenOK
<1>8. IdleLosesNothing'
  <2>1. Plain(lost') = Plain(lost)
    BY <1>3, <1>4 DEF Plain
  <2>2. QED
    BY <1>1, <2>1 DEF MailboxInv, IdleLosesNothing, Notices, SendersOf
<1>9. QED
  BY <1>4, <1>5, <1>6, <1>7, <1>8 DEF MailboxInv

\* Staging a notice announces an agent that has none and is not expected.
LEMMA StageStep ==
  ASSUME MailboxInv, NEW c \in Children, StageNotice(c)
  PROVE  MailboxInv'
<1> DEFINE e == NewEnvelope(c, "notice", NoticeSize)
<1>1. /\ c \in Senders /\ c \in published /\ ~box.closed
      /\ nextId' = nextId + 1 /\ posting' = posting \cup {e}
      /\ UNCHANGED <<sending, spawned, noted, published, promised,
                     recorded, delivered, lost, closedBy, handed>>
      /\ c \notin Noticed /\ c \notin noted
  BY ClientsAssumption
     DEF StageNotice, CanStage, clientVars, historyVars, MailboxInv, ChildrenOK
<1>2. /\ box' \in Box
      /\ box'.queue = box.queue /\ box'.arrivals = box.arrivals
      /\ box'.plain = box.plain /\ box'.reserved = box.reserved
      /\ box'.closed = box.closed
      /\ box'.awaiting = box.awaiting \cup {c}
      /\ box'.concluded = box.concluded \cup {c}
  BY <1>1 DEF StageNotice, Staged, MailboxInv, MailboxTypeOK, Box
<1> HIDE DEF e
<1>3. /\ e \in Envelope /\ e.from = c /\ Noticed' = Noticed \cup {c}
      /\ PlacesOK' /\ ArrivalsOK' /\ SenderOrder' /\ RecordedFirst' /\ OneNotice'
      /\ FiniteQueue'
  BY <1>1, <1>2, NewNotice DEF e
<1>4. MailboxTypeOK'
  BY <1>1, <1>2, <1>3 DEF MailboxInv, MailboxTypeOK
<1>5. CapacityKept' /\ ClosingOK'
  BY <1>1, <1>2, SameCounters
<1>6. ChildrenOK'
  <2>1. SendersOf(posting') = SendersOf(posting) \cup {c}
    BY <1>1, <1>3 DEF SendersOf
  <2>2. noted' \cap (Noticed' \cup box'.concluded) = {}
    BY <1>1, <1>2, <1>3 DEF MailboxInv, ChildrenOK
  <2>3. SendersOf(sending') \cap published' = {}
    BY <1>1 DEF MailboxInv, ChildrenOK, SendersOf
  <2>4. QED
    BY <1>1, <1>2, <1>3, <2>1, <2>2, <2>3 DEF MailboxInv, ChildrenOK
<1>7. IdleLosesNothing'
  BY <1>1 DEF MailboxInv, ClosingOK, IdleLosesNothing
<1>8. QED
  BY <1>3, <1>4, <1>5, <1>6, <1>7 DEF MailboxInv

\* The size of a finite set of envelopes is a number and grows with the set.
LEMMA SizeMonotone ==
  ASSUME NEW S, NEW T, S \subseteq T, T \subseteq Envelope, IsFiniteSet(T)
  PROVE  Size(S) \in Nat /\ Size(T) \in Nat /\ Size(S) <= Size(T)
<1> DEFINE Chars(X) == UNION {{e} \X (1 .. e.size) : e \in X}
<1>1. Chars(S) \subseteq Chars(T) /\ Chars(T) \subseteq T \X (1 .. MaxSize)
  <2>1. \A e \in T : e.size \in 1 .. MaxSize
    BY DEF Envelope
  <2>2. \A e \in T : 1 .. e.size \subseteq 1 .. MaxSize
    BY <2>1, ClientsAssumption
  <2>3. QED
    BY <2>2
<1> HIDE DEF Chars
<1>2. IsFiniteSet(1 .. MaxSize)
  BY FS_Interval, ClientsAssumption
<1>3. IsFiniteSet(T \X (1 .. MaxSize))
  BY <1>2, FS_Product
<1>4. IsFiniteSet(Chars(T))
  BY <1>1, <1>3, FS_Subset
<1>5. IsFiniteSet(Chars(S)) /\ Cardinality(Chars(S)) <= Cardinality(Chars(T))
  BY <1>1, <1>4, FS_Subset
<1>6. Cardinality(Chars(S)) \in Nat /\ Cardinality(Chars(T)) \in Nat
  BY <1>4, <1>5, FS_CardinalityType
<1>7. QED
  BY <1>5, <1>6 DEF Size, Chars

\* What a delivery takes is a prefix, in arrival order, of what it picks from.
LEMMA TakenPrefix ==
  ASSUME MailboxInv, NEW picked, picked \subseteq box.queue,
         NEW e \in Taken(box, picked), NEW f \in picked, f.at <= e.at
  PROVE  f \in Taken(box, picked)
<1>1. /\ picked \subseteq Envelope /\ IsFiniteSet(picked)
      /\ box.turn \in Nat /\ e \in picked
  <2>1. picked \subseteq Envelope /\ box.turn \in Nat
    BY DEF MailboxInv, MailboxTypeOK, Box
  <2>2. IsFiniteSet(picked)
    BY FS_Subset DEF MailboxInv, FiniteQueue
  <2>3. QED
    BY <2>1, <2>2 DEF Taken
<1> DEFINE upTo(x) == {y \in picked : y.at <= x.at}
<1>2. CASE box.turn = 0 /\ \A x \in picked : e.at <= x.at
  <2>1. f.at = e.at
    BY <1>1, <1>2 DEF Envelope
  <2>2. f = e
    BY <1>1, <2>1 DEF MailboxInv, ArrivalsOK
  <2>3. QED
    BY <2>2
<1>3. CASE box.turn + Size(upTo(e)) <= DeliveryChars
  <2>1. upTo(f) \subseteq upTo(e) /\ upTo(e) \subseteq Envelope
    BY <1>1 DEF Envelope
  <2>2. IsFiniteSet(upTo(e))
    BY <1>1, FS_Subset
  <2> HIDE DEF upTo
  <2>3. /\ Size(upTo(f)) \in Nat /\ Size(upTo(e)) \in Nat
        /\ Size(upTo(f)) <= Size(upTo(e))
    BY <2>1, <2>2, SizeMonotone
  <2>4. box.turn + Size(upTo(f)) <= DeliveryChars
    BY <1>1, <1>3, <2>3, MailboxAssumption
  <2>5. QED
    BY <2>4 DEF Taken, upTo
<1>4. QED
  BY <1>2, <1>3 DEF Taken

\* A delivery of whole senders, from one of them or from all, keeps the invariant.
LEMMA DeliverStep ==
  ASSUME MailboxInv, NEW picked, picked \subseteq box.queue,
         \A e \in picked : \A f \in box.queue : f.from = e.from => f \in picked,
         Deliver(picked)
  PROVE  MailboxInv'
<1> DEFINE taken == Taken(box, picked)
<1>1. /\ taken \subseteq box.queue /\ taken # {}
      /\ delivered' = delivered \cup taken
      /\ UNCHANGED <<sending, posting, nextId, spawned, noted, published, promised,
                     recorded, lost, closedBy>>
      /\ handed' = handed + Cardinality(taken)
      /\ box' = AfterTake(box, taken)
  BY DEF Deliver, clientVars, Taken
<1>2. /\ box.queue \subseteq Envelope /\ taken \subseteq Envelope
      /\ IsFiniteSet(box.queue) /\ IsFiniteSet(taken)
  <2>1. box.queue \subseteq Envelope /\ IsFiniteSet(box.queue)
    BY DEF MailboxInv, MailboxTypeOK, Box, FiniteQueue
  <2>2. QED
    BY <1>1, <2>1, FS_Subset
<1>3. Size(taken) \in Nat /\ Cardinality(taken) \in Nat
  BY <1>2, SizeMonotone, FS_CardinalityType
<1>4. \A e \in taken, f \in box.queue \ taken : f.from = e.from => e.id < f.id
  <2> SUFFICES ASSUME NEW e \in taken, NEW f \in box.queue \ taken, f.from = e.from
               PROVE  e.id < f.id
    OBVIOUS
  <2>1. f \in picked /\ e \in picked
    BY DEF Taken
  <2>2. ~(f.at <= e.at)
    BY <2>1, TakenPrefix
  <2>3. e.at < f.at
    BY <1>1, <1>2, <2>2 DEF Envelope
  <2>4. e.id # f.id
    BY <1>1 DEF MailboxInv, PlacesOK, All
  <2>5. ~(f.id < e.id)
    BY <1>1, <1>2, <2>3 DEF MailboxInv, SenderOrder, Envelope
  <2>6. QED
    BY <1>1, <1>2, <2>4, <2>5 DEF Envelope
<1> HIDE DEF taken
<1>5. /\ IsFiniteSet(Plain(taken)) /\ IsFiniteSet(Plain(box.queue))
      /\ Cardinality(Plain(taken)) \in Nat
      /\ box.plain - Cardinality(Plain(taken)) \in Nat
      /\ Cardinality(Plain(box.queue \ taken))
           = box.plain - Cardinality(Plain(taken))
  <2>1. IsFiniteSet(Plain(taken)) /\ IsFiniteSet(Plain(box.queue))
    BY <1>2, FS_Subset DEF Plain
  <2>2. Plain(taken) \subseteq Plain(box.queue)
    BY <1>1 DEF Plain
  <2>3. Plain(box.queue \ taken) = Plain(box.queue) \ Plain(taken)
    BY <1>1 DEF Plain
  <2>4. Cardinality(Plain(box.queue) \ Plain(taken))
          = Cardinality(Plain(box.queue)) - Cardinality(Plain(taken))
    BY <2>1, <2>2, RemovePart
  <2>5. Cardinality(Plain(taken)) <= Cardinality(Plain(box.queue))
    BY <2>1, <2>2, FS_Subset
  <2>6. Cardinality(Plain(taken)) \in Nat /\ Cardinality(Plain(box.queue)) \in Nat
    BY <2>1, FS_CardinalityType
  <2>7. box.plain = Cardinality(Plain(box.queue))
    BY DEF MailboxInv, CapacityKept
  <2>8. box.plain - Cardinality(Plain(taken)) \in Nat
    BY <2>5, <2>6, <2>7
  <2>9. Cardinality(Plain(box.queue \ taken)) = box.plain - Cardinality(Plain(taken))
    BY <2>3, <2>4, <2>7
  <2>10. QED
    BY <2>1, <2>6, <2>8, <2>9
<1>6. /\ box' \in Box
      /\ box'.queue = box.queue \ taken /\ box'.arrivals = box.arrivals
      /\ box'.plain = box.plain - Cardinality(Plain(taken))
      /\ box'.reserved = box.reserved /\ box'.awaiting = box.awaiting
      /\ box'.closed = box.closed /\ box'.concluded = box.concluded
  <2>1. SendersOf(Notices(taken)) \subseteq Senders
    BY <1>2 DEF SendersOf, Notices, Envelope
  <2>2. box \in Box
    BY DEF MailboxInv, MailboxTypeOK
  <2>3. /\ box'.queue = box.queue \ taken /\ box'.arrivals = box.arrivals
        /\ box'.plain = box.plain - Cardinality(Plain(taken))
        /\ box'.turn = box.turn + Size(taken)
        /\ box'.seen = box.seen \cup SendersOf(Notices(taken))
        /\ box'.reserved = box.reserved /\ box'.awaiting = box.awaiting
        /\ box'.closed = box.closed /\ box'.concluded = box.concluded
    BY <1>1, <2>2 DEF AfterTake, Box
  <2>4. /\ box'.queue \in SUBSET Envelope /\ box'.plain \in Nat /\ box'.turn \in Nat
        /\ box'.seen \in SUBSET Senders
    BY <1>2, <1>3, <1>5, <2>1, <2>2, <2>3 DEF Box
  <2>5. QED
    BY <1>1, <2>2, <2>3, <2>4 DEF AfterTake, Box
<1>7. All' = All /\ Noticed' = Noticed
  <2>1. All' = All
    BY <1>1, <1>6 DEF All
  <2>2. QED
    BY <2>1 DEF Noticed
<1>8. MailboxTypeOK'
  BY <1>1, <1>2, <1>3, <1>6 DEF MailboxInv, MailboxTypeOK
<1>9. PlacesOK'
  BY <1>1, <1>6, <1>7 DEF MailboxInv, PlacesOK
<1>10. ArrivalsOK' /\ ChildrenOK' /\ ClosingOK'
  <2>1. ArrivalsOK' /\ ClosingOK'
    BY <1>1, <1>6 DEF MailboxInv, ArrivalsOK, ClosingOK
  <2>2. ChildrenOK'
    BY <1>1, <1>6, <1>7 DEF MailboxInv, ChildrenOK, SendersOf
  <2>3. QED
    BY <2>1, <2>2
<1>11. FiniteQueue' /\ CapacityKept'
  <2>1. FiniteQueue'
    BY <1>1, <1>2, <1>6, FS_Subset DEF MailboxInv, FiniteQueue
  <2>2. CapacityKept'
    BY <1>1, <1>5, <1>6, MailboxAssumption
       DEF MailboxInv, MailboxTypeOK, Box, CapacityKept
  <2>3. QED
    BY <2>1, <2>2
<1>12. lost = {}
  BY <1>1 DEF MailboxInv, CapacityKept, ClosingOK
<1>13. SenderOrder'
  <2>1. InFlight' = InFlight
    BY <1>1 DEF InFlight
  <2>2. QED
    BY <1>1, <1>4, <1>6, <1>12, <2>1 DEF MailboxInv, SenderOrder
<1>14. IdleLosesNothing'
  BY <1>1 DEF MailboxInv, CapacityKept, ClosingOK, IdleLosesNothing
<1>15. RecordedFirst' /\ OneNotice'
  <2>1. box'.queue \cup delivered' = box.queue \cup delivered
    BY <1>1, <1>6
  <2>2. posting' \cup box'.queue \cup delivered' \cup lost'
          = posting \cup box.queue \cup delivered \cup lost
    BY <1>1, <1>6
  <2>3. QED
    BY <1>1, <2>1, <2>2 DEF MailboxInv, RecordedFirst, OneNotice, Ids, Notices
<1>16. QED
  BY <1>8, <1>9, <1>10, <1>11, <1>13, <1>14, <1>15 DEF MailboxInv

\* A new turn and a report change the turn's budget only.
LEMMA BudgetStep ==
  ASSUME MailboxInv, \/ StartTurn
                     \/ \E c \in Children : Report(c)
  PROVE  MailboxInv'
<1>1. /\ UNCHANGED <<sending, posting, nextId, spawned, noted, published, promised,
                    recorded, delivered, lost, closedBy>>
      /\ handed' \in Nat
  BY DEF StartTurn, Report, clientVars, MailboxInv, MailboxTypeOK
<1>2. /\ box' \in Box
      /\ box'.queue = box.queue /\ box'.arrivals = box.arrivals
      /\ box'.plain = box.plain /\ box'.reserved = box.reserved
      /\ box'.awaiting = box.awaiting
      /\ box'.closed = box.closed /\ box'.concluded = box.concluded
  <2>1. CASE StartTurn
    BY <2>1 DEF StartTurn, NewTurn, MailboxInv, MailboxTypeOK, Box
  <2>2. CASE \E c \in Children : Report(c)
    <3>1. PICK c \in Children : box' = Saw(Charged(box, NoticeSize), c)
      BY <2>2 DEF Report
    <3>2. c \in Senders /\ NoticeSize \in Nat /\ box \in Box
      BY ClientsAssumption DEF MailboxInv, MailboxTypeOK
    <3>3. box' = [box EXCEPT !.turn = box.turn + NoticeSize, !.seen = box.seen \cup {c}]
      BY <3>1, <3>2 DEF Saw, Charged, Box
    <3>4. /\ box'.queue = box.queue /\ box'.arrivals = box.arrivals
          /\ box'.plain = box.plain /\ box'.reserved = box.reserved
          /\ box'.awaiting = box.awaiting
          /\ box'.closed = box.closed /\ box'.concluded = box.concluded
          /\ box'.turn = box.turn + NoticeSize /\ box'.seen = box.seen \cup {c}
      BY <3>2, <3>3 DEF Box
    <3>5. box.turn + NoticeSize \in Nat /\ box.seen \cup {c} \in SUBSET Senders
      BY <3>2 DEF Box
    <3>6. box' \in Box
      BY <3>2, <3>3, <3>5 DEF Box
    <3>7. QED
      BY <3>4, <3>6
  <2>3. QED
    BY <2>1, <2>2
<1>3. /\ All' = All /\ Noticed' = Noticed
      /\ PlacesOK' /\ ArrivalsOK' /\ SenderOrder' /\ RecordedFirst' /\ OneNotice'
      /\ FiniteQueue' /\ CapacityKept' /\ ClosingOK'
  BY <1>1, <1>2, SameTraffic, SameCounters
<1>4. MailboxTypeOK' /\ ChildrenOK' /\ IdleLosesNothing'
  BY <1>1, <1>2, <1>3 DEF MailboxInv, MailboxTypeOK, ChildrenOK, IdleLosesNothing
<1>5. QED
  BY <1>3, <1>4 DEF MailboxInv

\* An idle close finds nothing on its way: no send, no notice, no promise open.
LEMMA CloseIdleStep ==
  ASSUME MailboxInv, CloseIdle
  PROVE  MailboxInv'
<1>1. /\ ~box.closed /\ box.queue = {} /\ box.awaiting = {} /\ box.reserved = 0
      /\ box' = [box EXCEPT !.closed = TRUE] /\ closedBy' = "idle"
      /\ UNCHANGED <<sending, posting, nextId, spawned, noted, published, promised,
                    recorded, delivered, lost, handed>>
  BY DEF CloseIdle, IdleDone, clientVars
<1>2. /\ box' \in Box
      /\ box'.queue = box.queue /\ box'.arrivals = box.arrivals
      /\ box'.plain = box.plain /\ box'.reserved = box.reserved
      /\ box'.awaiting = box.awaiting
      /\ box'.closed /\ box'.concluded = box.concluded
  BY <1>1 DEF MailboxInv, MailboxTypeOK, Box
<1>3. /\ All' = All /\ Noticed' = Noticed
      /\ PlacesOK' /\ ArrivalsOK' /\ SenderOrder' /\ RecordedFirst' /\ OneNotice'
      /\ FiniteQueue'
  BY <1>1, <1>2, SameTraffic
<1>4. sending = {} /\ lost = {} /\ posting = {}
  <2>1. sending = {}
    BY <1>1, FS_EmptySet DEF MailboxInv, CapacityKept, FiniteQueue
  <2>2. SendersOf(posting) = {}
    BY <1>1 DEF MailboxInv, ChildrenOK
  <2>3. posting = {}
    BY <2>2 DEF SendersOf
  <2>4. QED
    BY <1>1, <2>1, <2>3 DEF MailboxInv, ClosingOK
<1>5. promised \subseteq SendersOf(Notices(delivered))
  <2>1. noted = {}
    BY <1>1 DEF MailboxInv, ChildrenOK
  <2>2. All = delivered
    BY <1>1, <1>4 DEF All
  <2>3. QED
    BY <2>1, <2>2 DEF MailboxInv, ChildrenOK, Noticed
<1>6. MailboxTypeOK' /\ ChildrenOK'
  BY <1>1, <1>2, <1>3 DEF MailboxInv, MailboxTypeOK, ChildrenOK
<1>7. ClosingOK' /\ CapacityKept'
  BY <1>1, <1>2 DEF MailboxInv, ClosingOK, CapacityKept, Plain
<1>8. IdleLosesNothing'
  BY <1>1, <1>4, <1>5 DEF IdleLosesNothing, Plain
<1>9. QED
  BY <1>3, <1>6, <1>7, <1>8 DEF MailboxInv

\* The shutdown close reports whatever was still queued.
LEMMA CloseStep ==
  ASSUME MailboxInv, CloseMailbox
  PROVE  MailboxInv'
<1>1. /\ lost' = lost \cup box.queue
      /\ closedBy' = IF box.closed THEN closedBy ELSE "shutdown"
      /\ UNCHANGED <<sending, posting, nextId, spawned, noted, published, promised,
                    recorded, delivered, handed>>
  BY DEF CloseMailbox, clientVars
<1>2. /\ box' \in Box
      /\ box'.queue = {} /\ box'.arrivals = box.arrivals
      /\ box'.plain = 0 /\ box'.reserved = box.reserved
      /\ box'.awaiting = box.awaiting
      /\ box'.closed /\ box'.concluded = box.concluded
  BY DEF CloseMailbox, Closed, MailboxInv, MailboxTypeOK, Box
<1>3. All' = All /\ Noticed' = Noticed
  <2>1. All' = All
    BY <1>1, <1>2 DEF All
  <2>2. QED
    BY <2>1 DEF Noticed
<1>4. MailboxTypeOK' /\ ChildrenOK'
  BY <1>1, <1>2, <1>3
     DEF MailboxInv, MailboxTypeOK, ChildrenOK, Box, SendersOf
<1>5. PlacesOK'
  BY <1>1, <1>2, <1>3 DEF MailboxInv, PlacesOK
<1>6. ArrivalsOK' /\ ClosingOK' /\ FiniteQueue'
  BY <1>1, <1>2, FS_EmptySet DEF MailboxInv, MailboxTypeOK, ArrivalsOK, ClosingOK, FiniteQueue
<1>7. CapacityKept'
  <2>1. Plain(box.queue)' = {}
    BY <1>2 DEF Plain
  <2>2. Cardinality({}) = 0
    BY FS_EmptySet
  <2>3. box.reserved <= Capacity /\ box.reserved \in Nat
    BY MailboxAssumption DEF MailboxInv, MailboxTypeOK, Box, CapacityKept
  <2>4. QED
    BY <1>1, <1>2, <2>1, <2>2, <2>3 DEF MailboxInv, CapacityKept
<1>8. SenderOrder'
  <2>1. InFlight' = InFlight
    BY <1>1 DEF InFlight
  <2>2. QED
    BY <1>1, <1>2, <2>1 DEF MailboxInv, SenderOrder
<1>9. IdleLosesNothing'
  <2>1. closedBy' = "idle" => closedBy = "idle" /\ box.queue = {}
    BY <1>1 DEF MailboxInv, ClosingOK, CapacityKept
  <2>2. QED
    BY <1>1, <2>1 DEF MailboxInv, IdleLosesNothing, Plain, Notices, SendersOf
<1>10. RecordedFirst' /\ OneNotice'
  BY <1>1, <1>2 DEF MailboxInv, RecordedFirst, OneNotice, Ids, Notices
<1>11. QED
  BY <1>4, <1>5, <1>6, <1>7, <1>8, <1>9, <1>10 DEF MailboxInv

\* Every step of the mailbox and its clients preserves the invariant.
LEMMA MailboxNextInv == MailboxInv /\ [MailboxNext]_mailboxVars => MailboxInv'
<1> SUFFICES ASSUME MailboxInv, [MailboxNext]_mailboxVars PROVE MailboxInv'
  OBVIOUS
<1>1. CASE \E s \in Senders, size \in Sizes : Send(s, size)
  BY <1>1, SendStep
<1>2. CASE \E e \in InFlight : RecordSent(e) \/ PushEnvelope(e)
  BY <1>2, RecordStep, PushStep
<1>3. CASE \E c \in Children, nodeOwned \in BOOLEAN : Spawn(c, nodeOwned)
  BY <1>3, SpawnStep
<1>4. CASE \E c \in Children : Publish(c) \/ Notify(c) \/ StageNotice(c) \/ Report(c)
  BY <1>4, PublishStep, NotifyStep, StageStep, BudgetStep
<1>5. CASE Deliver(box.queue)
  BY <1>5, DeliverStep
<1>6. CASE \E children \in SUBSET FinishedChildren : WaitFor(children)
  <2>1. PICK children \in SUBSET FinishedChildren : WaitFor(children)
    BY <1>6
  <2> DEFINE picked == {e \in box.queue : e.from \in children}
  <2>2. /\ picked \subseteq box.queue
        /\ \A e \in picked : \A f \in box.queue : f.from = e.from => f \in picked
        /\ Deliver(picked)
    BY <2>1 DEF WaitFor
  <2>3. QED
    BY <2>2, DeliverStep
<1>7. CASE StartTurn \/ CloseIdle \/ CloseMailbox
  BY <1>7, BudgetStep, CloseIdleStep, CloseStep
<1>8. CASE UNCHANGED mailboxVars
  <2>1. UNCHANGED <<box, sending, posting, nextId, spawned, noted, published, promised,
                    recorded, delivered, lost, closedBy, handed>>
    BY <1>8 DEF mailboxVars, clientVars, historyVars
  <2>2. /\ All' = All /\ Noticed' = Noticed
        /\ PlacesOK' /\ ArrivalsOK' /\ SenderOrder' /\ RecordedFirst' /\ OneNotice'
        /\ FiniteQueue' /\ CapacityKept' /\ ClosingOK'
    BY <2>1, SameTraffic, SameCounters
  <2>3. MailboxTypeOK' /\ ChildrenOK' /\ IdleLosesNothing'
    BY <2>1, <2>2 DEF MailboxInv, MailboxTypeOK, ChildrenOK, IdleLosesNothing
  <2>4. QED
    BY <2>2, <2>3 DEF MailboxInv
<1>9. QED
  BY <1>1, <1>2, <1>3, <1>4, <1>5, <1>6, <1>7, <1>8 DEF MailboxNext

-----------------------------------------------------------------------------
\* The invariant holds in every reachable state of a mailbox and its clients.
THEOREM MailboxInvariant == MailboxBehaviour => []MailboxInv
<1>1. MailboxInit => MailboxInv
  BY MailboxInitInv
<1>2. MailboxInv /\ [MailboxNext]_mailboxVars => MailboxInv'
  BY MailboxNextInv
<1>3. QED
  BY <1>1, <1>2, PTL DEF MailboxBehaviour

\* The counters of a mailbox stay natural numbers (push, take).
THEOREM MailboxTypes == MailboxBehaviour => []MailboxTypeOK
<1>1. MailboxInv => MailboxTypeOK
  BY DEF MailboxInv
<1>2. QED
  BY <1>1, MailboxInvariant, PTL

\* Queued and accepted messages together never exceed the capacity, and a closed
\* mailbox is empty (reserve, push, take, close).
THEOREM MailboxCapacity == MailboxBehaviour => []CapacityKept
<1>1. MailboxInv => CapacityKept
  BY DEF MailboxInv
<1>2. QED
  BY <1>1, MailboxInvariant, PTL

\* An envelope is in exactly one place: no send is accepted and dropped, no delivery
\* happens twice (push, take, close).
THEOREM MailboxExactlyOnce == MailboxBehaviour => []ExactlyOnce
<1>1. MailboxInv => ExactlyOnce
  <2> SUFFICES ASSUME MailboxInv PROVE ExactlyOnce
    OBVIOUS
  <2> DEFINE places == <<sending, posting, box.queue, delivered, lost>>
  <2>1. \A i, j \in 1 .. 5 : i # j => Ids(places[i]) \cap Ids(places[j]) = {}
    BY DEF MailboxInv, PlacesOK, All, Ids
  <2>2. UNION {Ids(places[i]) : i \in 1 .. 5} = Ids(All)
    BY DEF Ids, All
  <2>3. Ids(All) = 0 .. nextId - 1
    BY DEF MailboxInv, MailboxTypeOK, Box, Envelope, PlacesOK, Ids, All
  <2>4. QED
    BY <2>1, <2>2, <2>3 DEF ExactlyOnce
<1>2. QED
  BY <1>1, MailboxInvariant, PTL

\* The messages of one sender, its notice last, keep their order (Work.sent, take).
THEOREM MailboxOrder == MailboxBehaviour => []SenderOrder
<1>1. MailboxInv => SenderOrder
  BY DEF MailboxInv
<1>2. QED
  BY <1>1, MailboxInvariant, PTL

\* An agent that ends because it is idle misses no message and no child (idle).
THEOREM MailboxIdle == MailboxBehaviour => []IdleLosesNothing
<1>1. MailboxInv => IdleLosesNothing
  BY DEF MailboxInv
<1>2. QED
  BY <1>1, MailboxInvariant, PTL

\* No envelope can be seen before it is on record (send, notify, stage_notice).
THEOREM MailboxRecords == MailboxBehaviour => []RecordedFirst
<1>1. MailboxInv => RecordedFirst
  BY DEF MailboxInv
<1>2. QED
  BY <1>1, MailboxInvariant, PTL

\* A child's outcome is queued at most once (expect, stage, push).
THEOREM MailboxOneNotice == MailboxBehaviour => []OneNotice
<1>1. MailboxInv => OneNotice
  BY DEF MailboxInv
<1>2. QED
  BY <1>1, MailboxInvariant, PTL

-----------------------------------------------------------------------------
(* The delivery budget of a turn.                                          *)

\* What was handed over in this turn, and its size: the first may be of any size.
BudgetOK ==
  /\ handed = 0 <=> box.turn = 0
  /\ TurnBudget

\* A non-empty set of natural numbers has a least element.
LEMMA LeastNatural ==
  ASSUME NEW S \in SUBSET Nat, S # {}
  PROVE  \E x \in S : \A y \in S : x <= y
<1> DEFINE R == OpToRel(<, Nat)
<1>1. IsWellFoundedOn(R, Nat)
  BY NatLessThanWellFounded
<1>2. \A x, y \in Nat : y < x => <<y, x>> \in R
  BY DEF OpToRel
<1> HIDE DEF R
<1>3. PICK x \in S : \A y \in S : ~(<<y, x>> \in R)
  BY <1>1, WFMin
<1>4. ASSUME NEW y \in S PROVE x <= y
  <2>1. x \in Nat /\ y \in Nat
    OBVIOUS
  <2>2. ~(y < x)
    BY <1>2, <1>3, <2>1
  <2>3. QED
    BY <2>1, <2>2
<1>5. QED
  BY <1>4

\* Some of the queued envelopes arrived last.
LEMMA LastArrival ==
  ASSUME MailboxInv, NEW S, S \subseteq box.queue, S # {}
  PROVE  \E e \in S : \A f \in S : f.at <= e.at
<1> DEFINE ago(e) == box.arrivals - e.at
           Ages == {ago(e) : e \in S}
<1>1. \A e \in S : e.at \in Nat /\ ago(e) \in Nat
  BY DEF MailboxInv, MailboxTypeOK, ArrivalsOK, Box, Envelope
<1>2. Ages \in SUBSET Nat /\ Ages # {}
  BY <1>1
<1>3. PICK a \in Ages : \A b \in Ages : a <= b
  BY <1>2, LeastNatural
<1>4. PICK e \in S : a = ago(e)
  OBVIOUS
<1>5. ASSUME NEW f \in S PROVE f.at <= e.at
  <2>1. ago(e) <= ago(f)
    BY <1>3, <1>4
  <2>2. box.arrivals \in Nat /\ e.at \in Nat /\ f.at \in Nat
    BY <1>1 DEF MailboxInv, MailboxTypeOK, Box
  <2>3. QED
    BY <2>1, <2>2
<1>6. QED
  BY <1>5

\* A delivery that takes something takes at least one character.
LEMMA SomethingHasSize ==
  ASSUME NEW S, S \subseteq Envelope, IsFiniteSet(S), NEW e \in S
  PROVE  Size(S) \in Nat \ {0}
<1>1. {e} \subseteq S /\ IsFiniteSet({e})
  BY FS_Singleton
<1>2. Size({e}) <= Size(S) /\ Size({e}) \in Nat /\ Size(S) \in Nat
  BY <1>1, SizeMonotone
<1>3. UNION {{x} \X (1 .. x.size) : x \in {e}} = {e} \X (1 .. e.size)
  OBVIOUS
<1>4. e.size \in Nat \ {0}
  BY ClientsAssumption DEF Envelope
<1> DEFINE chars == {e} \X (1 .. e.size)
<1>5. IsFiniteSet(1 .. e.size)
  BY <1>4, FS_Interval
<1>6. IsFiniteSet(chars)
  BY <1>1, <1>5, FS_Product
<1>7. chars # {}
  <2>1. <<e, 1>> \in chars
    BY <1>4
  <2>2. QED
    BY <2>1
<1>8. Size({e}) = Cardinality(chars)
  BY <1>3 DEF Size
<1> HIDE DEF chars
<1>9. Size({e}) # 0
  BY <1>6, <1>7, <1>8, FS_EmptySet
<1>10. QED
  BY <1>2, <1>9

\* What is taken beyond the first envelope of a turn fits its budget.
LEMMA TakenFits ==
  ASSUME MailboxInv, NEW picked, picked \subseteq box.queue, Taken(box, picked) # {}
  PROVE  \/ box.turn = 0 /\ Cardinality(Taken(box, picked)) = 1
         \/ box.turn + Size(Taken(box, picked)) <= DeliveryChars
<1> DEFINE taken == Taken(box, picked)
           upTo(x) == {f \in picked : f.at <= x.at}
<1>1. /\ taken \subseteq picked /\ picked \subseteq Envelope /\ IsFiniteSet(picked)
      /\ box.turn \in Nat
  <2>1. picked \subseteq Envelope /\ box.turn \in Nat
    BY DEF MailboxInv, MailboxTypeOK, Box
  <2>2. IsFiniteSet(picked)
    BY FS_Subset DEF MailboxInv, FiniteQueue
  <2>3. QED
    BY <2>1, <2>2 DEF Taken
<1>2. PICK e \in taken : \A f \in taken : f.at <= e.at
  BY <1>1, LastArrival
<1>3. CASE box.turn = 0 /\ \A f \in picked : e.at <= f.at
  <2>1. ASSUME NEW f \in taken PROVE f = e
    <3>1. f.at <= e.at /\ e.at <= f.at
      BY <1>1, <1>2, <1>3
    <3>2. f.at = e.at
      BY <1>1, <3>1 DEF Envelope
    <3>3. QED
      BY <1>1, <3>2 DEF MailboxInv, ArrivalsOK
  <2>2. taken = {e}
    BY <2>1
  <2>3. QED
    BY <1>3, <2>2, FS_Singleton
<1>4. CASE box.turn + Size(upTo(e)) <= DeliveryChars
  <2>1. taken \subseteq upTo(e) /\ upTo(e) \subseteq Envelope
    BY <1>1, <1>2
  <2>2. IsFiniteSet(upTo(e))
    BY <1>1, FS_Subset
  <2> HIDE DEF upTo, taken
  <2>3. Size(taken) \in Nat /\ Size(upTo(e)) \in Nat /\ Size(taken) <= Size(upTo(e))
    BY <2>1, <2>2, SizeMonotone
  <2>4. box.turn + Size(taken) <= DeliveryChars
    BY <1>1, <1>4, <2>3, MailboxAssumption
  <2>5. QED
    BY <2>4 DEF taken
<1>5. QED
  BY <1>2, <1>3, <1>4 DEF Taken

\* A delivery keeps the budget.
LEMMA DeliverBudget ==
  ASSUME MailboxInv, BudgetOK, NEW picked, picked \subseteq box.queue, Deliver(picked)
  PROVE  BudgetOK'
<1> DEFINE taken == Taken(box, picked)
<1>1. /\ taken \subseteq Envelope /\ IsFiniteSet(taken) /\ taken # {}
      /\ box.turn \in Nat /\ handed \in Nat
  <2>1. taken \subseteq box.queue /\ taken # {}
    BY DEF Deliver, Taken
  <2>2. QED
    BY <2>1, FS_Subset DEF MailboxInv, FiniteQueue, MailboxTypeOK, Box
<1>2. Size(taken) \in Nat \ {0}
  BY <1>1, SomethingHasSize
<1>3. Cardinality(taken) \in Nat \ {0}
  BY <1>1, FS_CardinalityType, FS_EmptySet
<1>4. handed' = handed + Cardinality(taken) /\ box' = AfterTake(box, taken)
  BY DEF Deliver
<1>5. \/ box.turn = 0 /\ Cardinality(taken) = 1
      \/ box.turn + Size(taken) <= DeliveryChars
  BY <1>1, TakenFits
<1> HIDE DEF taken
<1>6. box'.turn = box.turn + Size(taken)
  BY <1>4 DEF AfterTake, MailboxInv, MailboxTypeOK, Box
<1>7. QED
  BY <1>1, <1>2, <1>3, <1>4, <1>5, <1>6, MailboxAssumption DEF BudgetOK, TurnBudget

\* Every step keeps the budget.
LEMMA BudgetNext ==
  ASSUME MailboxInv, BudgetOK, [MailboxNext]_mailboxVars
  PROVE  BudgetOK'
<1>1. box \in Box /\ handed \in Nat
  BY DEF MailboxInv, MailboxTypeOK
<1>2. CASE UNCHANGED <<box.turn, handed>>
  BY <1>2 DEF BudgetOK, TurnBudget
<1>3. CASE \E s \in Senders, size \in Sizes : Send(s, size)
  <2>1. UNCHANGED <<box.turn, handed>>
    BY <1>1, <1>3 DEF Send, Reserved, historyVars, Box
  <2>2. QED
    BY <1>2, <2>1
<1>4. CASE \E e \in InFlight : RecordSent(e) \/ PushEnvelope(e)
  <2>1. CASE \E e \in InFlight : RecordSent(e)
    BY <1>2, <2>1 DEF RecordSent
  <2>2. CASE \E e \in InFlight : PushEnvelope(e)
    <3>1. UNCHANGED <<box.turn, handed>>
      BY <1>1, <2>2 DEF PushEnvelope, Pushed, Announced, Box
    <3>2. QED
      BY <1>2, <3>1
  <2>3. QED
    BY <1>4, <2>1, <2>2
<1>5. CASE \E c \in Children, nodeOwned \in BOOLEAN : Spawn(c, nodeOwned)
  <2>1. UNCHANGED <<box.turn, handed>>
    BY <1>1, <1>5 DEF Spawn, Expecting, historyVars, Box
  <2>2. QED
    BY <1>2, <2>1
<1>6. CASE \E c \in Children : Publish(c) \/ Notify(c) \/ StageNotice(c)
  <2>1. UNCHANGED <<box.turn, handed>>
    BY <1>1, <1>6
       DEF Publish, Notify, StageNotice, Pushed, Announced, Staged, NewEnvelope,
           historyVars, Box
  <2>2. QED
    BY <1>2, <2>1
<1>7. CASE \E c \in Children : Report(c)
  <2>1. /\ handed' = handed + 1
        /\ box'.turn = box.turn + NoticeSize
        /\ box.turn = 0 \/ box.turn + NoticeSize <= DeliveryChars
    BY <1>1, <1>7 DEF Report, CanCharge, Saw, Charged, Box
  <2>2. box.turn \in Nat /\ NoticeSize \in Nat \ {0}
    BY <1>1, ClientsAssumption DEF Box
  <2>3. QED
    BY <1>1, <2>1, <2>2, MailboxAssumption DEF BudgetOK, TurnBudget
<1>8. CASE Deliver(box.queue)
  BY <1>8, DeliverBudget
<1>9. CASE \E children \in SUBSET FinishedChildren : WaitFor(children)
  <2>1. PICK children \in SUBSET FinishedChildren : WaitFor(children)
    BY <1>9
  <2> DEFINE picked == {e \in box.queue : e.from \in children}
  <2>2. picked \subseteq box.queue /\ Deliver(picked)
    BY <2>1 DEF WaitFor
  <2>3. QED
    BY <2>2, DeliverBudget
<1>10. CASE StartTurn
  BY <1>1, <1>10 DEF StartTurn, NewTurn, Box, BudgetOK, TurnBudget
<1>11. CASE CloseIdle \/ CloseMailbox
  <2>1. UNCHANGED <<box.turn, handed>>
    BY <1>1, <1>11 DEF CloseIdle, CloseMailbox, Closed, Box
  <2>2. QED
    BY <1>2, <2>1
<1>12. CASE UNCHANGED mailboxVars
  BY <1>2, <1>12 DEF mailboxVars, historyVars
<1>13. QED
  BY <1>3, <1>4, <1>5, <1>6, <1>7, <1>8, <1>9, <1>10, <1>11, <1>12 DEF MailboxNext

\* Whatever a turn takes from the mailbox and reads in full, in any order and with any
\* sizes, only the first of it may exceed the budget (messages.rs take, charge).
THEOREM MailboxTurnBudget == MailboxBehaviour => []TurnBudget
<1>1. MailboxInit => BudgetOK
  BY DEF MailboxInit, EmptyMailbox, BudgetOK, TurnBudget
<1>2. MailboxInv /\ BudgetOK /\ [MailboxNext]_mailboxVars => BudgetOK'
  BY BudgetNext
<1>3. BudgetOK => TurnBudget
  BY DEF BudgetOK
<1>4. QED
  BY <1>1, <1>2, <1>3, MailboxInvariant, PTL DEF MailboxBehaviour
=============================================================================
