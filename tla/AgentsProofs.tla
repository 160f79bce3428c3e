---------------------------- MODULE AgentsProofs ----------------------------
(***************************************************************************)
(* Agents and their mailboxes, for every number of agents and messages.    *)
(*                                                                         *)
(* An outcome comes last because the tree ends from the leaves up: whoever *)
(* has an outcome has only ended agents below it and owns no work.  And no *)
(* wake-up is lost because whoever changes what a sleeping agent looks at  *)
(* is, after that step, one of those that WakeDue names: owned work that   *)
(* queued an envelope, a child that published its outcome, a spawner.      *)
(*                                                                         *)
(* Waiting ends because what is waited for is on its way (PromisesOK) and  *)
(* because those that wait for each other are ordered by their numbers:    *)
(* somebody below a cancelled agent can always take a step.                *)
(***************************************************************************)
EXTENDS Agents, FiniteSetTheorems, WellFoundedInduction, TLAPS

Ended == {"posting", "waking", "done"}
Ending == {"draining", "joining"} \cup Ended
Sleeping == {"staged", "settling", "asleep"}

\* An agent is spawned after those above it, and one of them is its parent.
TreeOK ==
  /\ path \in [AgentId -> SUBSET AgentId] /\ Root \in Spawned
  /\ \A n \in Spawned : \A m \in AgentId : m < n => m \in Spawned
  /\ \A n \in Spawned :
       /\ n \in path[n]
       /\ \A m \in path[n] :
            /\ m <= n /\ m \in Spawned
            /\ m # n => \E c \in ChildrenOf(m) : c \in path[n]
  /\ \A n \in Spawned \ {Root} : \E m \in Spawned : n \in ChildrenOf(m)

\* An agent that has an outcome has only ended agents below it.
PhasesOK ==
  /\ phase \in [AgentId -> Phase]
  /\ \A n \in AgentId : n \in Spawned <=> phase[n] # "absent"
  /\ outcome = {n \in AgentId : phase[n] \in Ended}
  /\ phase[Root] \notin {"posting", "waking"}
  /\ \A n \in AgentId : phase[n] \in Ended => \A m \in Below(n) : phase[m] = "done"

CallsOK ==
  /\ call \in [AgentId -> Calls] /\ targets \in [AgentId -> SUBSET AgentId]
  /\ \A n \in AgentId : /\ phase[n] \in Sleeping => call[n] \in {"idle", "receive", "wait"}
                        /\ call[n] = "wait" => targets[n] \subseteq ChildrenOf(n)
                        /\ phase[n] = "absent" => call[n] = "none"

FlagsOK == noted \subseteq AgentId /\ stopped \subseteq AgentId /\ changed \subseteq AgentId

Box == [queue : SUBSET Envelope, arrivals : Nat, plain : Nat, reserved : Nat,
        awaiting : SUBSET AgentId, closed : BOOLEAN, turn : {0},
        concluded : SUBSET AgentId, seen : {{}}]

\* The mailbox in the middle of a step, before Tidy.
Loose == [queue : SUBSET Envelope, arrivals : Nat, plain : Nat, reserved : Nat,
          awaiting : SUBSET AgentId, closed : BOOLEAN, turn : {0},
          concluded : SUBSET AgentId, seen : SUBSET AgentId]

\* Its counts are right, its notices come from `ended`, and a closed one is empty.
Counted(b, ended) ==
  /\ IsFiniteSet(b.queue) /\ b.plain = Cardinality(Plain(b.queue))
  /\ \A e \in b.queue : e.at <= b.arrivals /\ (e.kind = "notice" => e.from \in ended)
  /\ b.closed => b.queue = {}
Sound(b, ended) == b \in Box /\ Counted(b, ended)

BoxesOK ==
  /\ box \in [AgentId -> Box]
  /\ \A n \in AgentId : Sound(box[n], outcome) /\ (box[n].closed <=> phase[n] \in Ending)

\* Sends under way to an agent.
Due(n) == {t \in tasks : t.envelope.to = n /\ t.step = "queue" /\ t.envelope.kind = "message"}

TasksOK ==
  /\ tasks \subseteq Task /\ IsFiniteSet(tasks) /\ messages \in 0 .. MaxMessages
  /\ \A t \in tasks :
       /\ phase[t.owner] \notin Ended
       /\ IF t.envelope.kind = "message" THEN t.envelope.id < messages
          ELSE t.envelope.from \in outcome
  /\ \A n \in AgentId : box[n].reserved = Cardinality(Due(n))

\* A call that found nothing still has nothing to return, or will be woken; a wait that
\* has staged its notices has none left to stage.
NothingToReturn(n) ==
  /\ call[n] = "idle" => box[n].queue = {} /\ ~IdleDone(box[n])
  /\ call[n] = "receive" => box[n].queue = {} /\ ~box[n].closed
  /\ call[n] = "wait" => /\ Unreported(n) = {}
                         /\ phase[n] = "staged" \/ \E c \in targets[n] : ~Finished(n, c)
AwakeOK(n) == phase[n] \in Sleeping => WakeDue(n) \/ NothingToReturn(n)

AgentsInv ==
  /\ TreeOK /\ PhasesOK /\ CallsOK /\ FlagsOK /\ BoxesOK /\ TasksOK
  /\ \A n \in AgentId : AwakeOK(n)

-----------------------------------------------------------------------------
(* The tree of agents.                                                     *)

\* The root is agent 0; agents are numbered from there.
LEMMA AgentNumbers == Root \in AgentId /\ AgentId \subseteq Nat
BY AgentsAssumption DEF AgentId, Root

\* Nothing about the tree changes unless a path does.
LEMMA SameTree ==
  ASSUME UNCHANGED path
  PROVE  /\ Spawned' = Spawned
         /\ \A n : ChildrenOf(n)' = ChildrenOf(n) /\ Below(n)' = Below(n)
BY DEF Spawned, ChildrenOf, Below

\* ... and its shape stays.
LEMMA SameTreeOK ==
  ASSUME TreeOK, UNCHANGED path
  PROVE  TreeOK'
<1>1. Spawned' = Spawned /\ \A n : ChildrenOf(n)' = ChildrenOf(n)
  BY SameTree
<1>2. QED
  BY <1>1 DEF TreeOK

\* An agent has one parent, which came before it.
LEMMA OneParent ==
  ASSUME TreeOK, NEW n \in Spawned, NEW m \in Spawned, n \in ChildrenOf(m)
  PROVE  /\ m < n /\ m \in path[n] /\ n # Root
         /\ \A k \in Spawned : n \in ChildrenOf(k) => k = m
<1>1. Spawned \subseteq Nat /\ Root = 0
  BY AgentNumbers DEF Spawned, Root
<1>2. ASSUME NEW k \in Spawned, n \in ChildrenOf(k)
      PROVE  k < n /\ path[n] = path[k] \cup {n} /\ n \notin path[k] /\ k \in path[k]
  <2>1. n # k /\ path[n] = path[k] \cup {n} /\ k \in path[k]
    BY <1>2 DEF ChildrenOf, TreeOK
  <2>2. k \in Nat /\ n \in Nat /\ k \in path[n]
    BY <1>1, <2>1
  <2>3. k <= n
    BY <2>2 DEF TreeOK
  <2>4. ASSUME n \in path[k] PROVE FALSE
    <3>1. n <= k
      BY <2>4 DEF TreeOK
    <3>2. QED
      BY <2>1, <2>2, <2>3, <3>1
  <2>5. QED
    BY <2>1, <2>2, <2>3, <2>4
<1>3. /\ m < n /\ path[n] = path[m] \cup {n} /\ n \notin path[m] /\ m \in path[m]
  BY <1>2
<1>4. ASSUME NEW k \in Spawned, n \in ChildrenOf(k) PROVE k = m
  <2>1. /\ path[n] = path[k] \cup {n} /\ n \notin path[k] /\ k \in path[k]
    BY <1>2, <1>4
  <2>2. k \in path[m] /\ m \in path[k]
    BY <1>3, <2>1
  <2>3. k <= m /\ m <= k
    BY <2>2 DEF TreeOK
  <2>4. k \in Nat /\ m \in Nat
    BY <1>1
  <2>5. QED
    BY <2>3, <2>4
<1>5. n # Root
  <2>1. m \in Nat /\ n \in Nat
    BY <1>1
  <2>2. QED
    BY <1>1, <1>3, <2>1
<1>6. QED
  BY <1>3, <1>4, <1>5

\* Every agent but the root has the parent that ParentOf chooses.
LEMMA ParentKnown ==
  ASSUME TreeOK, NEW n \in Spawned, n # Root
  PROVE  /\ ParentOf(n) \in Spawned /\ ParentOf(n) # n /\ n \in ChildrenOf(ParentOf(n))
         /\ \A k \in Spawned : n \in ChildrenOf(k) => k = ParentOf(n)
<1>1. PICK m \in Spawned : n \in ChildrenOf(m)
  BY DEF TreeOK
<1>2. m \in path[n] /\ m # n
  BY <1>1, OneParent DEF ChildrenOf
<1>3. ParentOf(n) \in path[n] /\ ParentOf(n) # n /\ n \in ChildrenOf(ParentOf(n))
  BY <1>1, <1>2 DEF ParentOf
<1>4. ParentOf(n) \in Spawned
  BY <1>3 DEF TreeOK
<1>5. \A k \in Spawned : n \in ChildrenOf(k) => k = ParentOf(n)
  <2> DEFINE p == ParentOf(n)
  <2>1. p \in Spawned /\ n \in ChildrenOf(p)
    BY <1>3, <1>4
  <2> HIDE DEF p
  <2>2. \A k \in Spawned : n \in ChildrenOf(k) => k = p
    BY <2>1, OneParent
  <2>3. QED
    BY <2>2 DEF p
<1>6. QED
  BY <1>3, <1>4, <1>5

-----------------------------------------------------------------------------
(* What the operations on a mailbox make of a sound one.                   *)

\* Tidy forgets only what a sound mailbox does not rest on.
LEMMA Tidied ==
  ASSUME NEW b \in Loose, NEW S, Counted(b, S)
  PROVE  /\ Sound(Tidy(b), S)
         /\ Tidy(b).queue = b.queue /\ Tidy(b).reserved = b.reserved
         /\ Tidy(b).closed = b.closed
         /\ ~b.closed => Tidy(b).awaiting = b.awaiting /\ Tidy(b).concluded = b.concluded
<1> DEFINE c == Tidy(b)
<1>1. /\ c \in Box /\ c.queue = b.queue /\ c.plain = b.plain
      /\ c.reserved = b.reserved /\ c.closed = b.closed
      /\ b.queue # {} => c.arrivals = b.arrivals
      /\ ~b.closed => c.awaiting = b.awaiting /\ c.concluded = b.concluded
  <2> DEFINE r == IF b.queue = {} THEN 0 ELSE b.arrivals
             w == IF b.closed THEN {} ELSE b.awaiting
             d == IF b.closed THEN {} ELSE b.concluded
  <2>1. c = [b EXCEPT !.arrivals = r, !.seen = {}, !.awaiting = w, !.concluded = d]
    BY DEF Tidy
  <2>2. r \in Nat /\ w \in SUBSET AgentId /\ d \in SUBSET AgentId
    BY DEF Loose
  <2>3. /\ b.queue # {} => r = b.arrivals
        /\ ~b.closed => w = b.awaiting /\ d = b.concluded
    OBVIOUS
  <2> HIDE DEF c, r, w, d
  <2>4. c \in Box
    BY <2>1, <2>2 DEF Box, Loose
  <2>5. /\ c.queue = b.queue /\ c.plain = b.plain /\ c.reserved = b.reserved
        /\ c.closed = b.closed /\ c.arrivals = r /\ c.awaiting = w /\ c.concluded = d
    BY <2>1 DEF Loose
  <2>6. QED
    BY <2>3, <2>4, <2>5
<1> HIDE DEF c
<1>2. Counted(c, S)
  BY <1>1, Zenon DEF Counted
<1>3. QED
  BY <1>1, <1>2 DEF c, Sound

\* A sound mailbox is one in the middle of a step, too.
LEMMA SoundIsLoose ==
  ASSUME NEW b, NEW S, Sound(b, S)
  PROVE  b \in Loose /\ Counted(b, S)
BY DEF Sound, Box, Loose

\* A delivery, after which a new turn begins.
LEMMA TakenSound ==
  ASSUME NEW b, NEW S, Sound(b, S), NEW taken \in SUBSET b.queue
  PROVE  LET c == Tidy(NewTurn(AfterTake(b, taken))) IN
         /\ Sound(c, S) /\ c.reserved = b.reserved /\ c.closed = b.closed
         /\ ~b.closed => c.awaiting = b.awaiting
<1> DEFINE d == NewTurn(AfterTake(b, taken))
<1>1. b \in Loose /\ Counted(b, S) /\ IsFiniteSet(b.queue)
  BY SoundIsLoose DEF Counted
<1>2. /\ IsFiniteSet(b.queue \ taken) /\ IsFiniteSet(Plain(b.queue))
      /\ Plain(taken) \subseteq Plain(b.queue)
      /\ Plain(b.queue \ taken) = Plain(b.queue) \ Plain(taken)
  BY <1>1, FS_Subset DEF Plain
<1>3. Plain(b.queue) \cap Plain(taken) = Plain(taken) /\ IsFiniteSet(Plain(taken))
  BY <1>2, FS_Subset
<1>4. Cardinality(Plain(b.queue) \ Plain(taken))
        = Cardinality(Plain(b.queue)) - Cardinality(Plain(b.queue) \cap Plain(taken))
  BY <1>2, <1>3, FS_Difference
<1>5. Cardinality(Plain(b.queue \ taken)) = b.plain - Cardinality(Plain(taken))
  <2>1. b.plain = Cardinality(Plain(b.queue))
    BY <1>1, Zenon DEF Counted
  <2>2. QED
    BY <1>2, <1>3, <1>4, <2>1
<1>6. Cardinality(Plain(b.queue \ taken)) \in Nat
  <2>1. IsFiniteSet(Plain(b.queue) \ Plain(taken))
    BY <1>2, FS_Subset
  <2>2. QED
    BY <1>2, <2>1, FS_CardinalityType
<1>7. SendersOf(Notices(taken)) \subseteq AgentId
  BY <1>1 DEF Loose, SendersOf, Notices, Envelope
<1>8. /\ d \in Loose /\ d.queue = b.queue \ taken /\ d.arrivals = b.arrivals
      /\ d.plain = b.plain - Cardinality(Plain(taken))
      /\ d.reserved = b.reserved /\ d.closed = b.closed /\ d.awaiting = b.awaiting
  <2> DEFINE k == Cardinality(Plain(taken))
             s == SendersOf(Notices(taken))
             z == Size(taken)
  <2>1. d = [[b EXCEPT !.queue = @ \ taken, !.turn = @ + z, !.seen = @ \cup s, !.plain = @ - k]
               EXCEPT !.turn = 0]
    BY DEF NewTurn, AfterTake
  <2>2. b.plain - k \in Nat /\ s \subseteq AgentId
    BY <1>5, <1>6, <1>7
  <2> HIDE DEF k, s, z, d
  <2>3. /\ d \in Loose /\ d.queue = b.queue \ taken /\ d.arrivals = b.arrivals
        /\ d.plain = b.plain - k /\ d.reserved = b.reserved /\ d.closed = b.closed
        /\ d.awaiting = b.awaiting
    BY <1>1, <2>1, <2>2 DEF Loose
  <2>4. QED
    BY <2>3 DEF k
<1> HIDE DEF d
<1>9. Counted(d, S)
  <2>1. IsFiniteSet(d.queue)
    BY <1>2, <1>8
  <2>2. d.plain = Cardinality(Plain(d.queue))
    BY <1>5, <1>8
  <2>3. \A e \in d.queue : e.at <= d.arrivals /\ (e.kind = "notice" => e.from \in S)
    BY <1>1, <1>8 DEF Counted
  <2>4. d.closed => d.queue = {}
    BY <1>1, <1>8 DEF Counted
  <2>5. QED
    BY <2>1, <2>2, <2>3, <2>4 DEF Counted
<1>10. /\ Sound(Tidy(d), S) /\ Tidy(d).reserved = d.reserved /\ Tidy(d).closed = d.closed
       /\ ~d.closed => Tidy(d).awaiting = d.awaiting
  BY <1>8, <1>9, Tidied
<1>11. QED
  BY <1>8, <1>10 DEF d

\* Mailbox::close empties it and leaves the sends under way counted.
LEMMA ClosedSound ==
  ASSUME NEW b, NEW S, Sound(b, S)
  PROVE  /\ Sound(Tidy(Closed(b)), S)
         /\ Tidy(Closed(b)).reserved = b.reserved /\ Tidy(Closed(b)).closed
<1> DEFINE d == Closed(b)
<1>1. b \in Loose
  BY SoundIsLoose
<1>2. /\ d \in Loose /\ d.queue = {} /\ d.plain = 0 /\ d.closed
      /\ d.reserved = b.reserved
  BY <1>1 DEF Loose, Closed
<1> HIDE DEF d
<1>3. Counted(d, S)
  BY <1>2, FS_EmptySet DEF Counted, Plain
<1>4. Sound(Tidy(d), S) /\ Tidy(d).reserved = d.reserved /\ Tidy(d).closed = d.closed
  BY <1>2, <1>3, Tidied
<1>5. QED
  BY <1>2, <1>4 DEF d

\* The bookkeeping of places and expectations leaves the queue alone.
LEMMA NotedSound ==
  ASSUME NEW b, NEW S, Sound(b, S), NEW d \in Loose, d.queue = b.queue, d.plain = b.plain,
         d.arrivals = b.arrivals, d.closed = b.closed
  PROVE  /\ Sound(Tidy(d), S)
         /\ Tidy(d).queue = b.queue /\ Tidy(d).reserved = d.reserved
         /\ Tidy(d).closed = b.closed
         /\ ~b.closed => Tidy(d).awaiting = d.awaiting /\ Tidy(d).concluded = d.concluded
<1>1. Counted(d, S)
  BY Zenon DEF Sound, Counted
<1>2. /\ Sound(Tidy(d), S)
      /\ Tidy(d).queue = d.queue /\ Tidy(d).reserved = d.reserved
      /\ Tidy(d).closed = d.closed
      /\ ~d.closed => Tidy(d).awaiting = d.awaiting /\ Tidy(d).concluded = d.concluded
  BY <1>1, Tidied
<1>3. QED
  BY <1>2

\* Whom a mailbox expects after an envelope has arrived.
StillAwaiting(b, e) == IF e.kind = "message" THEN b.awaiting ELSE b.awaiting \ {e.from}

\* An envelope arrives, or is turned away by a closed mailbox.
LEMMA PushedSound ==
  ASSUME NEW b, NEW S, Sound(b, S), NEW e \in Envelope,
         IF e.kind = "message" THEN b.reserved > 0 ELSE e.from \in S
  PROVE  LET c == Tidy(Pushed(b, e)) IN
         /\ Sound(c, S) /\ c.closed = b.closed
         /\ c.reserved = IF e.kind = "message" THEN b.reserved - 1 ELSE b.reserved
         /\ ~b.closed => c.awaiting = StillAwaiting(b, e)
<1> DEFINE announced == Announced(b, e)
           r == IF e.kind = "message" THEN b.reserved - 1 ELSE b.reserved
           w == IF e.kind = "message" THEN b.awaiting ELSE b.awaiting \ {e.from}
           a == [e EXCEPT !.at = b.arrivals + 1]
<1>1. b \in Loose /\ Counted(b, S)
  BY SoundIsLoose
<1>2. /\ announced \in Loose /\ announced.queue = b.queue /\ announced.plain = b.plain
      /\ announced.arrivals = b.arrivals /\ announced.closed = b.closed
      /\ announced.reserved = r /\ announced.awaiting = w
  <2>1. e.from \in AgentId
    BY DEF Envelope
  <2>2. CASE e.kind = "message"
    <3>1. /\ announced = [b EXCEPT !.reserved = @ - 1] /\ r = b.reserved - 1 /\ b.reserved > 0
          /\ w = b.awaiting
      BY <2>2 DEF Announced
    <3> HIDE DEF announced, r, w
    <3>2. QED
      BY <1>1, <3>1 DEF Loose
  <2>3. CASE e.kind # "message"
    <3>1. /\ announced = [b EXCEPT !.awaiting = @ \ {e.from}, !.concluded = @ \cup {e.from}]
          /\ r = b.reserved /\ w = b.awaiting \ {e.from}
      BY <2>3 DEF Announced
    <3> HIDE DEF announced, r, w
    <3>2. QED
      BY <1>1, <2>1, <3>1 DEF Loose
  <2>4. QED
    BY <2>2, <2>3
<1>3. a \in Envelope /\ a.at = b.arrivals + 1 /\ a.kind = e.kind /\ a.from = e.from
  BY <1>1 DEF Envelope, Loose
<1>4. Pushed(b, e) = IF b.closed THEN announced
                     ELSE [announced EXCEPT !.queue = @ \cup {a}, !.arrivals = @ + 1,
                             !.plain = @ + (IF e.kind = "message" THEN 1 ELSE 0)]
  BY <1>2 DEF Pushed, Arrived
<1> HIDE DEF announced, r, w, a
<1>5. CASE b.closed
  <2>1. Sound(Tidy(announced), S) /\ Tidy(announced).reserved = announced.reserved
        /\ Tidy(announced).closed = b.closed
    BY <1>2, NotedSound
  <2>2. QED
    BY <1>2, <1>4, <1>5, <2>1 DEF r
<1>6. CASE ~b.closed
  <2> DEFINE k == IF e.kind = "message" THEN 1 ELSE 0
             d == [announced EXCEPT !.queue = @ \cup {a}, !.arrivals = @ + 1, !.plain = @ + k]
  <2>1. k \in Nat
    OBVIOUS
  <2> HIDE DEF k
  <2>2. /\ d \in Loose /\ d.queue = b.queue \cup {a} /\ d.arrivals = b.arrivals + 1
        /\ d.plain = b.plain + k /\ d.closed = b.closed /\ d.reserved = r
        /\ d.awaiting = w
    <3>1. announced.queue \cup {a} \in SUBSET Envelope
      BY <1>2, <1>3 DEF Loose
    <3>2. announced.arrivals + 1 \in Nat /\ announced.plain + k \in Nat
      BY <1>2, <2>1 DEF Loose
    <3> HIDE DEF Envelope
    <3>3. d \in Loose
      BY <1>2, <3>1, <3>2 DEF Loose
    <3>4. QED
      BY <1>2, <3>3 DEF Loose
  <2>3. Pushed(b, e) = d
    BY <1>4, <1>6 DEF k
  <2> HIDE DEF d
  <2>4. IsFiniteSet(b.queue) /\ IsFiniteSet(d.queue)
    BY <1>1, <2>2, FS_AddElement DEF Counted
  <2>5. a \notin b.queue
    <3>1. \A f \in b.queue : f.at <= b.arrivals
      BY <1>1 DEF Counted
    <3>2. b.arrivals \in Nat
      BY <1>1 DEF Loose
    <3>3. QED
      BY <1>3, <3>1, <3>2
  <2>6. d.plain = Cardinality(Plain(d.queue))
    <3>1. b.plain = Cardinality(Plain(b.queue))
      BY <1>1, Zenon DEF Counted
    <3>2. CASE e.kind = "message"
      <4>1. Plain(d.queue) = Plain(b.queue) \cup {a} /\ a \notin Plain(b.queue)
        BY <1>3, <2>2, <2>5, <3>2 DEF Plain
      <4>2. IsFiniteSet(Plain(b.queue))
        BY <2>4, FS_Subset DEF Plain
      <4>3. Cardinality(Plain(b.queue) \cup {a}) = Cardinality(Plain(b.queue)) + 1
        BY <4>1, <4>2, FS_AddElement
      <4>4. QED
        BY <2>2, <3>1, <3>2, <4>1, <4>3 DEF k
    <3>3. CASE e.kind # "message"
      <4>1. Plain(d.queue) = Plain(b.queue)
        BY <1>3, <2>2, <3>3 DEF Plain
      <4>2. b.plain \in Nat
        BY <1>1 DEF Loose
      <4>3. QED
        BY <2>2, <3>1, <3>3, <4>1, <4>2 DEF k
    <3>4. QED
      BY <3>2, <3>3
  <2>7. \A f \in d.queue : f.at <= d.arrivals /\ (f.kind = "notice" => f.from \in S)
    <3>1. \A f \in b.queue : f.at <= b.arrivals /\ (f.kind = "notice" => f.from \in S)
      BY <1>1 DEF Counted
    <3>2. b.arrivals \in Nat /\ \A f \in b.queue : f.at \in Nat
      BY <1>1 DEF Loose, Envelope
    <3>3. e.kind = "notice" => e.from \in S
      OBVIOUS
    <3>4. QED
      BY <1>3, <2>2, <3>1, <3>2, <3>3
  <2>8. Counted(d, S)
    BY <1>6, <2>2, <2>4, <2>6, <2>7 DEF Counted
  <2>9. /\ Sound(Tidy(d), S) /\ Tidy(d).reserved = d.reserved /\ Tidy(d).closed = d.closed
        /\ ~d.closed => Tidy(d).awaiting = d.awaiting
    BY <2>2, <2>8, Tidied
  <2>10. QED
    BY <1>6, <2>2, <2>3, <2>9 DEF r, w, StillAwaiting
<1>7. QED
  BY <1>5, <1>6

-----------------------------------------------------------------------------
(* What a step leaves alone.                                               *)

\* The agents spawned so far are those that have a phase.
LEMMA SpawnedAre ==
  ASSUME TreeOK, PhasesOK
  PROVE  /\ Spawned \subseteq AgentId
         /\ \A n \in AgentId : n \in Spawned <=> phase[n] # "absent"
BY DEF Spawned, PhasesOK

\* An agent that nothing changed for may sleep on as before.
LEMMA AwakeKept ==
  ASSUME NEW m \in AgentId, AwakeOK(m),
         phase'[m] = phase[m], call'[m] = call[m], targets'[m] = targets[m],
         box'[m] = box[m], WakeDue(m) => WakeDue(m)',
         call[m] = "wait" => targets[m] \cap outcome' = targets[m] \cap outcome
  PROVE  AwakeOK(m)'
<1>1. ASSUME phase[m] \in Sleeping, NothingToReturn(m)
      PROVE  NothingToReturn(m)'
  <2>1. call'[m] = "idle" => box'[m].queue = {} /\ ~IdleDone(box'[m])
    BY <1>1 DEF NothingToReturn
  <2>2. call'[m] = "receive" => box'[m].queue = {} /\ ~box'[m].closed
    BY <1>1 DEF NothingToReturn
  <2>3. ASSUME call[m] = "wait"
        PROVE  /\ Unreported(m)' = {}
               /\ phase'[m] = "staged" \/ \E c \in targets'[m] : ~Finished(m, c)'
    <3>1. Unreported(m)' = Unreported(m)
      BY <2>3 DEF Unreported
    <3>2. ASSUME NEW c \in targets[m], ~Finished(m, c) PROVE ~Finished(m, c)'
      <4>1. c \in outcome' <=> c \in outcome
        BY <2>3
      <4>2. QED
        BY <3>2, <4>1 DEF Finished
    <3>3. QED
      BY <1>1, <2>3, <3>1, <3>2 DEF NothingToReturn
  <2>4. QED
    BY <2>1, <2>2, <2>3 DEF NothingToReturn
<1>2. QED
  BY <1>1 DEF AwakeOK

\* Wake-ups that are due stay due while the work and the children that will give
\* them are still there.
LEMMA DueStays ==
  ASSUME NEW m \in AgentId, m \in changed => m \in changed',
         \A t \in tasks : t.envelope.to = m /\ t.step = "wake" => t \in tasks',
         \A c \in ChildrenOf(m) : phase[c] \in {"posting", "waking"} =>
            c \in ChildrenOf(m)' /\ phase'[c] \in {"posting", "waking"},
         WakeDue(m)
  PROVE  WakeDue(m)'
BY DEF WakeDue

\* Sends under way are counted as before when only notices and wake-ups are added.
LEMMA DueSame ==
  ASSUME NEW N, tasks' = tasks \cup N, \A t \in N : t.envelope.kind = "notice"
  PROVE  \A m : Due(m)' = Due(m)
BY DEF Due

\* A step of n's own task that neither ends it nor reaches another mailbox: it goes to
\* w, makes b of its mailbox and starts the work N.
Own(n, w, b, N) ==
  /\ UNCHANGED <<path, noted, outcome, messages>>
  /\ phase' = [phase EXCEPT ![n] = w]
  /\ w \in Phase \ (Ended \cup {"absent"}) /\ phase[n] \notin Ended
  /\ call' \in [AgentId -> Calls] /\ targets' \in [AgentId -> SUBSET AgentId]
  /\ \A m \in AgentId \ {n} : call'[m] = call[m] /\ targets'[m] = targets[m]
  /\ w \in Sleeping => call'[n] \in {"idle", "receive", "wait"}
  /\ call'[n] = "wait" => targets'[n] \subseteq ChildrenOf(n)
  /\ box' = [box EXCEPT ![n] = b] /\ Sound(b, outcome)
  /\ b.closed <=> w \in Ending
  /\ b.reserved = box[n].reserved
  /\ changed' \subseteq AgentId /\ changed \ {n} \subseteq changed'
  /\ stopped' \subseteq AgentId
  /\ N \in SUBSET Task /\ IsFiniteSet(N) /\ tasks' = tasks \cup N
  /\ \A t \in N : t.owner = n /\ t.envelope.kind = "notice" /\ t.envelope.from \in outcome

\* Such a step keeps the invariant when the agent itself may sleep on.
LEMMA OwnStep ==
  ASSUME AgentsInv, NEW n \in Spawned, NEW w, NEW b, NEW N, Own(n, w, b, N), AwakeOK(n)'
  PROVE  AgentsInv'
<1> USE DEF Own
<1>1. n \in AgentId /\ phase[n] # "absent" /\ phase \in [AgentId -> Phase]
  BY SpawnedAre DEF AgentsInv, PhasesOK
<1>2. phase'[n] = w /\ \A m \in AgentId \ {n} : phase'[m] = phase[m]
  BY <1>1
<1>3. /\ Spawned' = Spawned
      /\ \A m : ChildrenOf(m)' = ChildrenOf(m) /\ Below(m)' = Below(m)
  BY SameTree
<1>4. box \in [AgentId -> Box] /\ b \in Box
  BY DEF AgentsInv, BoxesOK, Sound
<1>5. box'[n] = b /\ \A m \in AgentId \ {n} : box'[m] = box[m]
  BY <1>1, <1>4
<1>6. TreeOK'
  BY SameTreeOK DEF AgentsInv
<1>7. PhasesOK'
  <2>1. phase' \in [AgentId -> Phase]
    BY <1>1
  <2>2. \A m \in AgentId : m \in Spawned' <=> phase'[m] # "absent"
    BY <1>1, <1>2, <1>3 DEF AgentsInv, PhasesOK
  <2>3. \A m \in AgentId : phase'[m] \in Ended <=> phase[m] \in Ended
    BY <1>2
  <2>4. outcome' = {m \in AgentId : phase'[m] \in Ended}
    BY <2>3 DEF AgentsInv, PhasesOK
  <2>5. phase'[Root] \notin {"posting", "waking"}
    BY <1>2, AgentNumbers DEF AgentsInv, PhasesOK, Ended
  <2>6. ASSUME NEW m \in AgentId, phase'[m] \in Ended, NEW k \in Below(m)'
        PROVE  phase'[k] = "done"
    <3>1. phase[m] \in Ended /\ k \in Below(m) /\ k \in AgentId
      BY <1>3, <2>3, <2>6 DEF Below, Spawned
    <3>2. phase[k] = "done"
      BY <3>1 DEF AgentsInv, PhasesOK
    <3>3. k # n
      BY <3>2 DEF Ended
    <3>4. QED
      BY <1>2, <3>1, <3>2, <3>3
  <2>7. QED
    BY <2>1, <2>2, <2>4, <2>5, <2>6 DEF PhasesOK
<1>8. CallsOK'
  <2>1. ASSUME NEW m \in AgentId
        PROVE  /\ phase'[m] \in Sleeping => call'[m] \in {"idle", "receive", "wait"}
               /\ call'[m] = "wait" => targets'[m] \subseteq ChildrenOf(m)'
               /\ phase'[m] = "absent" => call'[m] = "none"
    <3>1. CASE m = n
      BY <1>2, <1>3, <3>1
    <3>2. CASE m # n
      BY <1>2, <1>3, <3>2 DEF AgentsInv, CallsOK
    <3>3. QED
      BY <3>1, <3>2
  <2>2. QED
    BY <2>1 DEF CallsOK
<1>9. FlagsOK'
  BY DEF AgentsInv, FlagsOK
<1>10. BoxesOK'
  <2>1. box' \in [AgentId -> Box]
    BY <1>4
  <2>2. ASSUME NEW m \in AgentId
        PROVE  Sound(box'[m], outcome') /\ (box'[m].closed <=> phase'[m] \in Ending)
    <3>1. CASE m = n
      BY <1>2, <1>5, <3>1
    <3>2. CASE m # n
      BY <1>2, <1>5, <3>2 DEF AgentsInv, BoxesOK
    <3>3. QED
      BY <3>1, <3>2
  <2>3. QED
    BY <2>1, <2>2 DEF BoxesOK
<1>11. TasksOK'
  <2>1. tasks' \subseteq Task /\ messages' \in 0 .. MaxMessages
    BY DEF AgentsInv, TasksOK
  <2>2. IsFiniteSet(tasks')
    BY FS_Union DEF AgentsInv, TasksOK
  <2>3. ASSUME NEW t \in tasks'
        PROVE  /\ phase'[t.owner] \notin Ended
               /\ IF t.envelope.kind = "message" THEN t.envelope.id < messages'
                  ELSE t.envelope.from \in outcome'
    <3>1. CASE t \in N
      BY <1>2, <3>1
    <3>2. CASE t \in tasks
      <4>1. t.owner \in AgentId /\ phase[t.owner] \notin Ended
        BY <3>2 DEF AgentsInv, TasksOK, Task
      <4>2. phase'[t.owner] \notin Ended
        BY <1>2, <4>1
      <4>3. QED
        BY <3>2, <4>2 DEF AgentsInv, TasksOK
    <3>3. QED
      BY <3>1, <3>2
  <2>4. ASSUME NEW m \in AgentId PROVE box'[m].reserved = Cardinality(Due(m)')
    <3>1. Due(m)' = Due(m)
      BY DueSame
    <3>2. box'[m].reserved = box[m].reserved
      BY <1>5
    <3>3. QED
      BY <3>1, <3>2 DEF AgentsInv, TasksOK
  <2>5. QED
    BY <2>1, <2>2, <2>3, <2>4 DEF TasksOK
<1>12. ASSUME NEW m \in AgentId \ {n} PROVE AwakeOK(m)'
  <2>1. ASSUME NEW c \in ChildrenOf(m), phase[c] \in {"posting", "waking"}
        PROVE  phase'[c] \in {"posting", "waking"}
    BY <1>2, <2>1 DEF Ended, ChildrenOf, Spawned
  <2>2. WakeDue(m) => WakeDue(m)'
    BY <1>3, <2>1, DueStays
  <2>3. QED
    BY <1>2, <1>5, <2>2, AwakeKept DEF AgentsInv
<1>13. \A m \in AgentId : AwakeOK(m)'
  BY <1>12
<1>14. QED
  BY <1>6, <1>7, <1>8, <1>9, <1>10, <1>11, <1>13 DEF AgentsInv

-----------------------------------------------------------------------------
(* The calls of an agent.                                                  *)

\* What the invariant says of one agent.
LEMMA OwnFacts ==
  ASSUME AgentsInv, NEW n \in Spawned
  PROVE  /\ n \in AgentId /\ phase \in [AgentId -> Phase] /\ phase[n] \in Phase \ {"absent"}
         /\ call \in [AgentId -> Calls] /\ targets \in [AgentId -> SUBSET AgentId]
         /\ box \in [AgentId -> Box] /\ Sound(box[n], outcome)
         /\ box[n].closed <=> phase[n] \in Ending
         /\ changed \subseteq AgentId /\ stopped \subseteq AgentId
         /\ call[n] = "wait" => targets[n] \subseteq ChildrenOf(n)
         /\ phase[n] \in Sleeping => call[n] \in {"idle", "receive", "wait"}
<1>1. n \in AgentId /\ phase[n] # "absent"
  BY SpawnedAre DEF AgentsInv
<1>2. QED
  BY <1>1 DEF AgentsInv, PhasesOK, CallsOK, FlagsOK, BoxesOK

\* A step that leaves every mailbox and all work alone.
Quiet(n, w) ==
  /\ UNCHANGED <<path, noted, outcome, messages, box, tasks>>
  /\ phase' = [phase EXCEPT ![n] = w]
  /\ w \in Phase \ (Ended \cup {"absent"}) /\ phase[n] \notin Ended
  /\ w \in Ending <=> phase[n] \in Ending
  /\ call' \in [AgentId -> Calls] /\ targets' \in [AgentId -> SUBSET AgentId]
  /\ \A m \in AgentId \ {n} : call'[m] = call[m] /\ targets'[m] = targets[m]
  /\ w \in Sleeping => call'[n] \in {"idle", "receive", "wait"}
  /\ call'[n] = "wait" => targets'[n] \subseteq ChildrenOf(n)
  /\ changed' \subseteq AgentId /\ changed \ {n} \subseteq changed'
  /\ stopped' \subseteq AgentId

\* Such a step keeps the invariant, too.
LEMMA QuietStep ==
  ASSUME AgentsInv, NEW n \in Spawned, NEW w, Quiet(n, w), AwakeOK(n)'
  PROVE  AgentsInv'
<1> DEFINE b == box[n]
           N == {}
<1>1. /\ box' = [box EXCEPT ![n] = b] /\ Sound(b, outcome)
      /\ b.closed <=> w \in Ending
      /\ b.reserved = box[n].reserved
  BY OwnFacts DEF Quiet
<1>2. /\ N \in SUBSET Task /\ IsFiniteSet(N) /\ tasks' = tasks \cup N
      /\ \A t \in N : t.owner = n /\ t.envelope.kind = "notice" /\ t.envelope.from \in outcome
  BY FS_EmptySet DEF Quiet
<1> HIDE DEF b, N
<1>3. Own(n, w, b, N)
  BY <1>1, <1>2 DEF Own, Quiet
<1>4. QED
  BY <1>3, OwnStep

\* Whoever is not asleep need not be woken.
LEMMA NotSleeping ==
  ASSUME AgentsInv, NEW n \in Spawned, phase'[n] \notin Sleeping
  PROVE  AwakeOK(n)'
BY OwnFacts DEF AwakeOK

\* Leaving a call ends its subscription and nothing else.
LEMMA LeaveFacts ==
  ASSUME AgentsInv, NEW n \in Spawned, NEW w, Leave(n, w)
  PROVE  /\ phase' = [phase EXCEPT ![n] = w]
         /\ call' \in [AgentId -> Calls] /\ targets' \in [AgentId -> SUBSET AgentId]
         /\ call'[n] = "none" /\ targets'[n] = {}
         /\ \A m \in AgentId \ {n} : call'[m] = call[m] /\ targets'[m] = targets[m]
         /\ changed' \subseteq AgentId /\ changed \ {n} \subseteq changed'
BY OwnFacts DEF Leave, Go, Calls

\* A call begins.
LEMMA BeginKeeps ==
  ASSUME AgentsInv, NEW n \in Spawned, NEW what \in {"idle", "receive", "wait", "watch"},
         NEW whom \in SUBSET AgentId, Begin(n, what, whom), stopped' \subseteq AgentId,
         what = "wait" => whom \subseteq ChildrenOf(n)
  PROVE  AgentsInv'
<1>1. /\ phase' = [phase EXCEPT ![n] = "checking"] /\ phase[n] = "running"
      /\ call' = [call EXCEPT ![n] = what] /\ targets' = [targets EXCEPT ![n] = whom]
      /\ changed' = changed \ {n}
      /\ UNCHANGED <<path, noted, outcome, messages, box, tasks>>
  BY DEF Begin, Go, treeVars
<1>2. /\ call' \in [AgentId -> Calls] /\ targets' \in [AgentId -> SUBSET AgentId]
      /\ call'[n] = what /\ targets'[n] = whom
      /\ \A m \in AgentId \ {n} : call'[m] = call[m] /\ targets'[m] = targets[m]
      /\ changed' \subseteq AgentId /\ changed \ {n} \subseteq changed'
  BY <1>1, OwnFacts DEF Calls
<1>3. AwakeOK(n)'
  <2>1. phase'[n] = "checking"
    BY <1>1, OwnFacts
  <2>2. QED
    BY <2>1, NotSleeping DEF Sleeping
<1>4. "checking" \in Phase \ (Ended \cup {"absent"}) /\ "checking" \notin Ending \cup Sleeping
      /\ phase[n] \notin Ended \cup Ending
  BY <1>1 DEF Phase, Ended, Ending, Sleeping
<1>5. Quiet(n, "checking")
  BY <1>1, <1>2, <1>3, <1>4 DEF Quiet
<1>6. QED
  BY <1>3, <1>5, QuietStep

\* Cancelling covers agents only.
LEMMA WithStoppedType ==
  ASSUME stopped \subseteq AgentId, NEW n \in AgentId
  PROVE  WithStopped(n) \subseteq AgentId
BY DEF WithStopped

\* Idle, receive, wait and cancel_agent begin.
LEMMA BeginsKeep ==
  ASSUME AgentsInv, NEW n \in Spawned, NEW m \in Spawned,
         BeginIdle(n) \/ BeginReceive(n) \/ BeginWait(n) \/ CancelAgent(n, m)
  PROVE  AgentsInv'
<1>1. stopped \subseteq AgentId /\ m \in AgentId
  BY OwnFacts
<1>2. CASE BeginIdle(n)
  BY <1>1, <1>2, BeginKeeps DEF BeginIdle
<1>3. CASE BeginReceive(n)
  BY <1>1, <1>3, BeginKeeps DEF BeginReceive
<1>4. CASE BeginWait(n)
  <2>1. PICK whom \in SUBSET ChildrenOf(n) \ {{}} : Begin(n, "wait", whom)
    BY <1>4 DEF BeginWait
  <2>2. whom \in SUBSET AgentId /\ whom \subseteq ChildrenOf(n) /\ stopped' \subseteq AgentId
    BY <1>1, <1>4, <2>1 DEF BeginWait, ChildrenOf, Spawned
  <2>3. QED
    BY <2>1, <2>2, BeginKeeps
<1>5. CASE CancelAgent(n, m)
  <2> DEFINE what == IF m \in ChildrenOf(n) THEN "wait" ELSE "watch"
  <2>1. /\ Begin(n, what, {m}) /\ stopped' = WithStopped(m)
        /\ what \in {"idle", "receive", "wait", "watch"} /\ {m} \in SUBSET AgentId
        /\ what = "wait" => {m} \subseteq ChildrenOf(n)
    BY <1>1, <1>5 DEF CancelAgent
  <2>2. stopped' \subseteq AgentId
    BY <1>1, <2>1, WithStoppedType
  <2> HIDE DEF what
  <2>3. QED
    BY <2>1, <2>2, BeginKeeps
<1>6. QED
  BY <1>2, <1>3, <1>4, <1>5

\* The call returns, with the mailbox as it was.
LEMMA ReturnKeeps ==
  ASSUME AgentsInv, NEW n \in Spawned, Return(n), phase[n] \notin Ending,
         UNCHANGED <<path, noted, outcome, messages, box, tasks, stopped>>
  PROVE  AgentsInv'
<1>1. /\ phase' = [phase EXCEPT ![n] = "running"]
      /\ call' \in [AgentId -> Calls] /\ targets' \in [AgentId -> SUBSET AgentId]
      /\ call'[n] = "none" /\ targets'[n] = {}
      /\ \A m \in AgentId \ {n} : call'[m] = call[m] /\ targets'[m] = targets[m]
      /\ changed' \subseteq AgentId /\ changed \ {n} \subseteq changed'
  BY LeaveFacts DEF Return
<1>2. AwakeOK(n)'
  <2>1. phase'[n] = "running"
    BY <1>1, OwnFacts
  <2>2. QED
    BY <2>1, NotSleeping DEF Sleeping
<1>3. stopped' \subseteq AgentId
  BY OwnFacts
<1>4. "running" \in Phase \ (Ended \cup {"absent"}) /\ "running" \notin Ending \cup Sleeping
      /\ phase[n] \notin Ended
  BY DEF Phase, Ended, Ending, Sleeping
<1>5. Quiet(n, "running")
  BY <1>1, <1>3, <1>4 DEF Quiet
<1>6. QED
  BY <1>2, <1>5, QuietStep

\* The call returns what it took.
LEMMA TakeKeeps ==
  ASSUME AgentsInv, NEW n \in Spawned, Return(n), phase[n] \notin Ending,
         Into(n, box[n]) \/ \E taken \in SUBSET box[n].queue :
                               Into(n, NewTurn(AfterTake(box[n], taken))),
         UNCHANGED <<path, noted, outcome, messages, tasks, stopped>>
  PROVE  AgentsInv'
<1> DEFINE N == {}
<1>1. /\ phase' = [phase EXCEPT ![n] = "running"]
      /\ call' \in [AgentId -> Calls] /\ targets' \in [AgentId -> SUBSET AgentId]
      /\ call'[n] = "none" /\ targets'[n] = {}
      /\ \A m \in AgentId \ {n} : call'[m] = call[m] /\ targets'[m] = targets[m]
      /\ changed' \subseteq AgentId /\ changed \ {n} \subseteq changed'
  BY LeaveFacts DEF Return
<1>2. AwakeOK(n)'
  <2>1. phase'[n] = "running"
    BY <1>1, OwnFacts
  <2>2. QED
    BY <2>1, NotSleeping DEF Sleeping
<1>3. stopped' \subseteq AgentId
  BY OwnFacts
<1>4. "running" \in Phase \ (Ended \cup {"absent"}) /\ "running" \notin Ending \cup Sleeping
      /\ phase[n] \notin Ended
  BY DEF Phase, Ended, Ending, Sleeping
<1>5. PICK b : /\ box' = [box EXCEPT ![n] = b] /\ Sound(b, outcome)
               /\ b.reserved = box[n].reserved /\ b.closed = box[n].closed
  <2>1. CASE Into(n, box[n])
    <3>1. box[n] \in Loose
      BY OwnFacts, SoundIsLoose
    <3>2. /\ Sound(Tidy(box[n]), outcome) /\ Tidy(box[n]).reserved = box[n].reserved
          /\ Tidy(box[n]).closed = box[n].closed
      BY <3>1, OwnFacts, NotedSound
    <3>3. QED
      BY <2>1, <3>2 DEF Into
  <2>2. CASE \E taken \in SUBSET box[n].queue : Into(n, NewTurn(AfterTake(box[n], taken)))
    <3>1. PICK taken \in SUBSET box[n].queue : Into(n, NewTurn(AfterTake(box[n], taken)))
      BY <2>2
    <3> DEFINE d == Tidy(NewTurn(AfterTake(box[n], taken)))
    <3>2. Sound(d, outcome) /\ d.reserved = box[n].reserved /\ d.closed = box[n].closed
      BY OwnFacts, TakenSound
    <3>3. box' = [box EXCEPT ![n] = d]
      BY <3>1 DEF Into
    <3> HIDE DEF d
    <3>4. QED
      BY <3>2, <3>3
  <2>3. QED
    BY <2>1, <2>2
<1>6. b.closed <=> "running" \in Ending
  BY <1>4, <1>5, OwnFacts
<1>7. /\ N \in SUBSET Task /\ IsFiniteSet(N) /\ tasks' = tasks \cup N
      /\ \A t \in N : t.owner = n /\ t.envelope.kind = "notice" /\ t.envelope.from \in outcome
  BY FS_EmptySet
<1> HIDE DEF N
<1>8. Own(n, "running", b, N)
  BY <1>1, <1>3, <1>4, <1>5, <1>6, <1>7 DEF Own
<1>9. QED
  BY <1>2, <1>8, OwnStep

\* The mailbox is closed as the agent leaves its loop.
LEMMA CloseKeeps ==
  ASSUME AgentsInv, NEW n \in Spawned, Into(n, Closed(box[n])), phase[n] \notin Ending,
         phase' = [phase EXCEPT ![n] = "draining"],
         call' \in [AgentId -> Calls], targets' \in [AgentId -> SUBSET AgentId],
         \A m \in AgentId \ {n} : call'[m] = call[m] /\ targets'[m] = targets[m],
         call'[n] = "wait" => targets'[n] \subseteq ChildrenOf(n),
         changed' \subseteq AgentId, changed \ {n} \subseteq changed',
         UNCHANGED <<path, noted, outcome, messages, tasks, stopped>>
  PROVE  AgentsInv'
<1> DEFINE b == Tidy(Closed(box[n]))
           N == {}
<1>1. /\ "draining" \in Phase \ (Ended \cup {"absent"})
      /\ "draining" \in Ending /\ "draining" \notin Sleeping /\ phase[n] \notin Ended
  BY DEF Phase, Ended, Ending, Sleeping
<1>2. AwakeOK(n)'
  <2>1. phase'[n] = "draining"
    BY OwnFacts
  <2>2. QED
    BY <1>1, <2>1, NotSleeping
<1>3. box' = [box EXCEPT ![n] = b]
  BY DEF Into
<1>4. Sound(b, outcome) /\ b.reserved = box[n].reserved /\ b.closed
  BY OwnFacts, ClosedSound
<1>5. stopped' \subseteq AgentId
  BY OwnFacts
<1>6. /\ N \in SUBSET Task /\ IsFiniteSet(N) /\ tasks' = tasks \cup N
      /\ \A t \in N : t.owner = n /\ t.envelope.kind = "notice" /\ t.envelope.from \in outcome
  BY FS_EmptySet
<1> HIDE DEF b, N
<1>7. Own(n, "draining", b, N)
  BY <1>1, <1>3, <1>4, <1>5, <1>6 DEF Own
<1>8. QED
  BY <1>2, <1>7, OwnStep

\* An agent that goes on waiting with its mailbox and its call as they are.
LEMMA WaitsOn ==
  ASSUME AgentsInv, NEW n \in Spawned, NEW w \in Sleeping,
         phase' = [phase EXCEPT ![n] = w], phase[n] \notin Ending,
         call[n] \in {"idle", "receive", "wait"}, WakeDue(n)' \/ NothingToReturn(n)',
         UNCHANGED <<path, noted, outcome, messages, box, tasks, stopped, call, targets, changed>>
  PROVE  AgentsInv'
<1>1. AwakeOK(n)'
  BY DEF AwakeOK
<1>2. /\ w \in Phase \ (Ended \cup {"absent"}) /\ w \notin Ending /\ phase[n] \notin Ended
  BY DEF Phase, Ended, Ending, Sleeping
<1>3. Quiet(n, w)
  BY <1>2, OwnFacts DEF Quiet
<1>4. QED
  BY <1>1, <1>3, QuietStep

\* Nothing to return stays nothing to return while nothing changes.
LEMMA SameNothing ==
  ASSUME NEW n \in AgentId, NothingToReturn(n), phase[n] # "staged",
         UNCHANGED <<call, targets, box, outcome>>
  PROVE  NothingToReturn(n)'
BY DEF NothingToReturn, Unreported, Finished

\* The two looks that take a delivery, close or go on to sleep.
LEMMA LooksKeep ==
  ASSUME AgentsInv, NEW n \in Spawned, CheckIdle(n) \/ CheckReceive(n) \/ CheckWatch(n)
  PROVE  AgentsInv'
<1>1. /\ phase[n] = "checking" /\ phase[n] \notin Ending
      /\ UNCHANGED <<path, noted, outcome, messages, tasks, stopped>>
  BY DEF CheckIdle, CheckReceive, CheckWatch, Ending, Ended, treeVars
<1> DEFINE taken == Taken(box[n], box[n].queue)
<1>2. taken \in SUBSET box[n].queue
  BY DEF Taken
<1> HIDE DEF taken
<1>3. CASE Return(n) /\ UNCHANGED box
  BY <1>1, <1>3, ReturnKeeps
<1>4. CASE Return(n) /\ Into(n, NewTurn(AfterTake(box[n], taken)))
  BY <1>1, <1>2, <1>4, TakeKeeps
<1>5. CASE Leave(n, "draining") /\ Into(n, Closed(box[n]))
  <2>1. /\ phase' = [phase EXCEPT ![n] = "draining"]
        /\ call' \in [AgentId -> Calls] /\ targets' \in [AgentId -> SUBSET AgentId]
        /\ call'[n] = "none"
        /\ \A m \in AgentId \ {n} : call'[m] = call[m] /\ targets'[m] = targets[m]
        /\ changed' \subseteq AgentId /\ changed \ {n} \subseteq changed'
    BY <1>5, LeaveFacts
  <2>2. QED
    BY <1>1, <1>5, <2>1, CloseKeeps
<1>6. CASE /\ Go(n, "settling") /\ UNCHANGED <<callVars, box, changed>>
           /\ NothingToReturn(n) /\ call[n] \in {"idle", "receive", "wait"}
  <2>1. NothingToReturn(n)'
    BY <1>1, <1>6, SameNothing, OwnFacts DEF callVars
  <2>2. "settling" \in Sleeping
    BY DEF Sleeping
  <2>3. QED
    BY <1>1, <1>6, <2>1, <2>2, WaitsOn DEF Go, callVars
<1>7. CASE Into(n, box[n]) /\ Return(n)
  BY <1>1, <1>7, TakeKeeps
<1>8. QED
  <2>1. CASE CheckIdle(n)
    <3>1. \/ Into(n, NewTurn(AfterTake(box[n], taken))) /\ Return(n)
          \/ Into(n, Closed(box[n])) /\ Leave(n, "draining")
          \/ UNCHANGED box /\ Return(n)
          \/ /\ box[n].queue = {} /\ ~IdleDone(box[n]) /\ call[n] = "idle"
             /\ Go(n, "settling") /\ UNCHANGED <<callVars, box, changed>>
      BY <2>1 DEF CheckIdle, taken
    <3>2. QED
      BY <1>3, <1>4, <1>5, <1>6, <3>1 DEF NothingToReturn
  <2>2. CASE CheckReceive(n)
    <3>1. \/ Into(n, box[n]) /\ Return(n)
          \/ Into(n, NewTurn(AfterTake(box[n], taken))) /\ Return(n)
          \/ /\ box[n].queue = {} /\ ~box[n].closed /\ call[n] = "receive"
             /\ Go(n, "settling") /\ UNCHANGED <<callVars, box, changed>>
      BY <2>2 DEF CheckReceive, taken
    <3>2. QED
      BY <1>4, <1>6, <1>7, <3>1 DEF NothingToReturn
  <2>3. CASE CheckWatch(n)
    BY <1>3, <2>3 DEF CheckWatch
  <2>4. QED
    BY <2>1, <2>2, <2>3

\* A wait stages what its finished targets did not report.
LEMMA StagingKeeps ==
  ASSUME AgentsInv, NEW n \in Spawned, StageNotices(n)
  PROVE  AgentsInv'
<1> DEFINE staged == [box[n] EXCEPT !.concluded = @ \cup Unreported(n),
                                    !.awaiting = @ \cup Unreported(n)]
           b == Tidy(staged)
           N == {Work(n, Notice(c, n)) : c \in Unreported(n)}
<1>1. /\ phase[n] = "checking" /\ call[n] = "wait" /\ phase[n] \notin Ending
      /\ UNCHANGED <<path, noted, outcome, messages, stopped>>
  BY DEF StageNotices, Ending, Ended, treeVars
<1>2. \/ Return(n) /\ UNCHANGED <<box, tasks>>
      \/ /\ Into(n, staged) /\ tasks' = tasks \cup N
         /\ Go(n, "staged") /\ UNCHANGED <<callVars, changed>>
  BY DEF StageNotices
<1>3. CASE Return(n) /\ UNCHANGED <<box, tasks>>
  BY <1>1, <1>3, ReturnKeeps
<1>4. CASE /\ Into(n, staged) /\ tasks' = tasks \cup N
           /\ Go(n, "staged") /\ UNCHANGED <<callVars, changed>>
  <2>1. Unreported(n) \subseteq AgentId /\ box[n] \in Box /\ ~box[n].closed
    BY <1>1, OwnFacts DEF Unreported
  <2>2. /\ staged \in Loose /\ staged.queue = box[n].queue /\ staged.plain = box[n].plain
        /\ staged.arrivals = box[n].arrivals /\ staged.closed = box[n].closed
        /\ staged.reserved = box[n].reserved
        /\ staged.awaiting = box[n].awaiting \cup Unreported(n)
        /\ staged.concluded = box[n].concluded \cup Unreported(n)
    BY <2>1 DEF Box, Loose
  <2>3. Unreported(n) = {c \in targets[n] \cap outcome : CanStage(box[n], c)}
    BY DEF Unreported
  <2>4. \A c \in Unreported(n) : c \in outcome
    BY <2>3
  <2>5. N \in SUBSET Task
    <3>1. \A c \in Unreported(n) : Notice(c, n) \in Envelope
      BY <2>1, OwnFacts DEF Notice, Envelope
    <3>2. QED
      BY <3>1, OwnFacts DEF Work, Task
  <2>6. \A t \in N : t.owner = n /\ t.envelope.kind = "notice" /\ t.envelope.from \in outcome
    BY <2>4 DEF Work, Notice
  <2>7. IsFiniteSet(N)
    <3>1. IsFiniteSet(AgentId)
      BY AgentsAssumption, FS_Interval DEF AgentId
    <3>2. IsFiniteSet(Unreported(n))
      BY <2>1, <3>1, FS_Subset
    <3> DEFINE f == [c \in Unreported(n) |-> Work(n, Notice(c, n))]
    <3>3. f \in Surjection(Unreported(n), N)
      BY DEF Surjection
    <3>4. QED
      BY <3>2, <3>3, FS_Surjection
  <2> HIDE DEF staged, N
  <2>8. /\ Sound(b, outcome) /\ b.reserved = box[n].reserved /\ b.closed = FALSE
        /\ b.awaiting = box[n].awaiting \cup Unreported(n)
        /\ b.concluded = box[n].concluded \cup Unreported(n)
    <3>1. /\ Sound(Tidy(staged), outcome)
          /\ Tidy(staged).reserved = staged.reserved /\ Tidy(staged).closed = box[n].closed
          /\ ~box[n].closed => /\ Tidy(staged).awaiting = staged.awaiting
                               /\ Tidy(staged).concluded = staged.concluded
      BY <2>2, OwnFacts, NotedSound
    <3>2. QED
      BY <2>1, <2>2, <3>1
  <2> HIDE DEF b
  <2>9. /\ box' = [box EXCEPT ![n] = b] /\ phase' = [phase EXCEPT ![n] = "staged"]
        /\ UNCHANGED <<call, targets, changed>>
    BY <1>4 DEF Into, b, Go, callVars
  <2>10. box'[n] = b /\ phase'[n] = "staged"
    BY <2>9, OwnFacts
  <2>11. /\ "staged" \in Phase \ (Ended \cup {"absent"}) /\ "staged" \notin Ending
         /\ phase[n] \notin Ended
    BY <1>1 DEF Phase, Ended, Ending
  <2>12. AwakeOK(n)'
    <3>1. ASSUME NEW c \in targets[n], c \in outcome, CanStage(b, c) PROVE FALSE
      <4>1. c \notin b.awaiting /\ c \notin b.concluded
        BY <3>1 DEF CanStage
      <4>2. CanStage(box[n], c)
        BY <2>1, <2>8, <4>1 DEF CanStage
      <4>3. c \in Unreported(n)
        BY <2>3, <3>1, <4>2
      <4>4. QED
        BY <2>8, <4>1, <4>3
    <3>2. Unreported(n)' = {}
      BY <1>1, <2>9, <2>10, <3>1 DEF Unreported
    <3>3. NothingToReturn(n)'
      BY <1>1, <2>9, <2>10, <3>2 DEF NothingToReturn
    <3>4. QED
      BY <3>3 DEF AwakeOK
  <2>13. Own(n, "staged", b, N)
    BY <1>1, <1>4, <2>5, <2>6, <2>7, <2>8, <2>9, <2>11, OwnFacts DEF Own
  <2>14. QED
    BY <2>12, <2>13, OwnStep
<1>5. QED
  BY <1>2, <1>3, <1>4

\* A wait that has staged its notices goes on to take, or to sleep.
LEMMA FinishedLookKeeps ==
  ASSUME AgentsInv, NEW n \in Spawned, CheckFinished(n)
  PROVE  AgentsInv'
<1>1. /\ phase[n] = "staged" /\ phase[n] \notin Ending /\ phase[n] \notin Ended
      /\ UNCHANGED <<path, noted, outcome, messages, box, tasks, stopped, call, targets, changed>>
  BY DEF CheckFinished, Ending, Ended, treeVars, callVars
<1>2. \/ Go(n, "taking")
      \/ Go(n, "settling") /\ \E c \in targets[n] : ~Finished(n, c)
  BY DEF CheckFinished
<1>3. n \in AgentId /\ phase[n] \in Sleeping /\ call[n] \in {"idle", "receive", "wait"}
  BY <1>1, OwnFacts DEF Sleeping
<1>4. CASE Go(n, "taking")
  <2>1. phase' = [phase EXCEPT ![n] = "taking"] /\ phase'[n] = "taking"
    BY <1>4, OwnFacts DEF Go
  <2>2. /\ "taking" \in Phase \ (Ended \cup {"absent"}) /\ "taking" \notin Ending \cup Sleeping
    BY DEF Phase, Ended, Ending, Sleeping
  <2>3. AwakeOK(n)'
    BY <2>1, <2>2, NotSleeping
  <2>4. Quiet(n, "taking")
    BY <1>1, <2>1, <2>2, OwnFacts DEF Quiet
  <2>5. QED
    BY <2>3, <2>4, QuietStep
<1>5. CASE Go(n, "settling") /\ \E c \in targets[n] : ~Finished(n, c)
  <2>1. phase' = [phase EXCEPT ![n] = "settling"] /\ "settling" \in Sleeping
    BY <1>5 DEF Go, Sleeping
  <2>2. WakeDue(n) \/ NothingToReturn(n)
    BY <1>3 DEF AgentsInv, AwakeOK
  <2>3. WakeDue(n) => WakeDue(n)'
    <3>1. ChildrenOf(n)' = ChildrenOf(n)
      BY <1>1, SameTree
    <3>2. \A c \in ChildrenOf(n) : phase[c] \in {"posting", "waking"} =>
             phase'[c] \in {"posting", "waking"}
      BY <1>1, <2>1, OwnFacts DEF ChildrenOf, Spawned
    <3>3. QED
      BY <1>1, <1>3, <3>1, <3>2, DueStays
  <2>4. NothingToReturn(n) => NothingToReturn(n)'
    <3>1. /\ Unreported(n)' = Unreported(n)
          /\ \A c \in targets[n] : Finished(n, c)' <=> Finished(n, c)
      BY <1>1 DEF Unreported, Finished
    <3>2. QED
      BY <1>1, <1>5, <3>1 DEF NothingToReturn
  <2>5. QED
    BY <1>1, <1>3, <2>1, <2>2, <2>3, <2>4, WaitsOn
<1>6. QED
  BY <1>2, <1>4, <1>5

\* Falling asleep, being woken, interrupted or timed out, and taking.
LEMMA SleepsKeep ==
  ASSUME AgentsInv, NEW n \in Spawned,
         Settle(n) \/ Resume(n) \/ Interrupt(n) \/ TimeOut(n) \/ TakeWaited(n)
  PROVE  AgentsInv'
<1>1. /\ phase[n] \in Sleeping \cup {"taking"} /\ phase[n] \notin Ending
      /\ UNCHANGED <<path, noted, outcome, messages, tasks, stopped>>
  BY DEF Settle, Resume, Interrupt, TimeOut, TakeWaited, Sleeping, Ending, Ended, treeVars
<1>2. ASSUME NEW w \in {"checking", "taking"}, Go(n, w), UNCHANGED <<callVars, box>>,
             changed' \subseteq changed, changed \ {n} \subseteq changed'
      PROVE  AgentsInv'
  <2>1. /\ phase' = [phase EXCEPT ![n] = w] /\ UNCHANGED <<call, targets>>
        /\ changed' \subseteq AgentId
    BY <1>2, OwnFacts DEF Go, callVars
  <2>2. /\ w \in Phase \ (Ended \cup {"absent"}) /\ w \notin Ending \cup Sleeping
        /\ phase[n] \notin Ended
    BY <1>1 DEF Phase, Ended, Ending, Sleeping
  <2>3. AwakeOK(n)'
    <3>1. phase'[n] = w
      BY <2>1, OwnFacts
    <3>2. QED
      BY <2>2, <3>1, NotSleeping
  <2>4. Quiet(n, w)
    BY <1>1, <1>2, <2>1, <2>2, OwnFacts DEF Quiet
  <2>5. QED
    BY <2>3, <2>4, QuietStep
<1>3. CASE Settle(n)
  <2>1. /\ phase[n] = "settling" /\ phase' = [phase EXCEPT ![n] = "asleep"]
        /\ UNCHANGED <<path, call, targets, box, changed>>
    BY <1>3 DEF Settle, Go, callVars, treeVars
  <2>2. call[n] \in {"idle", "receive", "wait"} /\ "asleep" \in Sleeping /\ n \in AgentId
    BY <2>1, OwnFacts DEF Sleeping
  <2>3. WakeDue(n) \/ NothingToReturn(n)
    BY <2>1, <2>2 DEF AgentsInv, AwakeOK, Sleeping
  <2>4. WakeDue(n) => WakeDue(n)'
    <3>1. ChildrenOf(n)' = ChildrenOf(n)
      BY <2>1, SameTree
    <3>2. \A c \in ChildrenOf(n) : phase[c] \in {"posting", "waking"} =>
             phase'[c] \in {"posting", "waking"}
      BY <2>1, OwnFacts DEF ChildrenOf, Spawned
    <3>3. QED
      BY <1>1, <2>1, <2>2, <3>1, <3>2, DueStays
  <2>5. NothingToReturn(n) => NothingToReturn(n)'
    BY <1>1, <2>1, <2>2, SameNothing
  <2>6. QED
    BY <1>1, <2>1, <2>2, <2>3, <2>4, <2>5, WaitsOn
<1>4. CASE Resume(n)
  BY <1>2, <1>4 DEF Resume
<1>5. CASE Interrupt(n)
  BY <1>1, <1>5, ReturnKeeps DEF Interrupt
<1>6. CASE TimeOut(n)
  <2>1. \/ Go(n, "taking") /\ UNCHANGED <<callVars, changed, box>>
        \/ Return(n) /\ UNCHANGED box
    BY <1>6 DEF TimeOut
  <2>2. CASE Go(n, "taking") /\ UNCHANGED <<callVars, changed, box>>
    BY <1>2, <2>2
  <2>3. CASE Return(n) /\ UNCHANGED box
    BY <1>1, <2>3, ReturnKeeps
  <2>4. QED
    BY <2>1, <2>2, <2>3
<1>7. CASE TakeWaited(n)
  <2> DEFINE from == {c \in targets[n] : Finished(n, c)}
             taken == Taken(box[n], {e \in box[n].queue : e.from \in from})
  <2>1. taken \in SUBSET box[n].queue
    BY DEF Taken
  <2>2. Return(n) /\ (Into(n, box[n]) \/ Into(n, NewTurn(AfterTake(box[n], taken))))
    BY <1>7 DEF TakeWaited
  <2> HIDE DEF taken
  <2>3. QED
    BY <1>1, <2>1, <2>2, TakeKeeps
<1>8. QED
  BY <1>3, <1>4, <1>5, <1>6, <1>7

\* The end of an agent's loop, and its cancellation.
LEMMA ShutdownKeeps ==
  ASSUME AgentsInv, NEW n \in Spawned, EndLoop(n) \/ CloseWork(n) \/ Stop(n)
  PROVE  AgentsInv'
<1>1. CASE EndLoop(n)
  <2>1. /\ Into(n, Closed(box[n])) /\ phase[n] = "running"
        /\ phase' = [phase EXCEPT ![n] = "draining"]
        /\ UNCHANGED <<path, noted, outcome, messages, tasks, stopped, call, targets, changed>>
    BY <1>1 DEF EndLoop, Go, callVars, treeVars
  <2>2. phase[n] \notin Ending
    BY <2>1 DEF Ending, Ended
  <2>3. QED
    BY <2>1, <2>2, OwnFacts, CloseKeeps
<1>2. CASE CloseWork(n)
  <2>1. /\ phase[n] = "draining" /\ phase' = [phase EXCEPT ![n] = "joining"]
        /\ stopped' = WithStopped(n)
        /\ UNCHANGED <<path, noted, outcome, messages, tasks, box, call, targets, changed>>
    BY <1>2 DEF CloseWork, Go, callVars, treeVars
  <2>2. /\ "joining" \in Phase \ (Ended \cup {"absent"}) /\ "joining" \notin Sleeping
        /\ "joining" \in Ending /\ phase[n] \in Ending /\ phase[n] \notin Ended
    BY <2>1 DEF Phase, Ended, Ending, Sleeping
  <2>3. AwakeOK(n)'
    <3>1. phase'[n] = "joining"
      BY <2>1, OwnFacts
    <3>2. QED
      BY <2>2, <3>1, NotSleeping
  <2>4. stopped' \subseteq AgentId
    BY <2>1, OwnFacts, WithStoppedType
  <2>5. Quiet(n, "joining")
    BY <2>1, <2>2, <2>4, OwnFacts DEF Quiet
  <2>6. QED
    BY <2>3, <2>5, QuietStep
<1>3. CASE Stop(n)
  <2>1. /\ stopped' = WithStopped(n)
        /\ UNCHANGED <<path, noted, phase, call, targets, box, changed, tasks, outcome, messages>>
    BY <1>3 DEF Stop, callVars, treeVars
  <2>2. FlagsOK'
    BY <2>1, OwnFacts, WithStoppedType DEF AgentsInv, FlagsOK
  <2>3. /\ TreeOK' /\ Spawned' = Spawned
        /\ \A m : ChildrenOf(m)' = ChildrenOf(m) /\ Below(m)' = Below(m)
    BY <2>1, SameTree, SameTreeOK DEF AgentsInv
  <2>4. PhasesOK' /\ CallsOK' /\ BoxesOK'
    BY <2>1, <2>3 DEF AgentsInv, PhasesOK, CallsOK, BoxesOK
  <2>5. TasksOK'
    BY <2>1 DEF AgentsInv, TasksOK, Due
  <2>6. ASSUME NEW m \in AgentId PROVE AwakeOK(m)'
    <3>1. WakeDue(m) => WakeDue(m)'
      BY <2>1, <2>3, DueStays
    <3>2. QED
      BY <2>1, <3>1, AwakeKept DEF AgentsInv
  <2>7. QED
    BY <2>2, <2>3, <2>4, <2>5, <2>6 DEF AgentsInv
<1>4. QED
  BY <1>1, <1>2, <1>3

-----------------------------------------------------------------------------
(* Spawning and sending.                                                   *)

\* A new agent comes after every other and has nobody below it.
LEMMA Grown ==
  ASSUME TreeOK, NEW n \in Spawned, NEW c \in AgentId, path[c] = {},
         \A m \in AgentId : m < c => path[m] # {},
         path' = [path EXCEPT ![c] = path[n] \cup {c}]
  PROVE  /\ TreeOK' /\ Spawned' = Spawned \cup {c} /\ c \notin Spawned /\ c # Root
         /\ \A m \in AgentId \ {c} : ChildrenOf(m) \subseteq ChildrenOf(m)'
         /\ \A m \in Spawned : Below(m)' \subseteq Below(m) \cup {c}
         /\ \A m \in Spawned : c \in Below(m)' => m = n \/ n \in Below(m)
         /\ Below(c)' = {}
<1>1. /\ n \in AgentId /\ n # c /\ c \notin Spawned /\ c # Root /\ Spawned \subseteq AgentId
      /\ path \in [AgentId -> SUBSET AgentId] /\ AgentId \subseteq Nat
  BY AgentNumbers DEF TreeOK, Spawned
<1>2. path'[c] = path[n] \cup {c} /\ \A m \in AgentId \ {c} : path'[m] = path[m]
  BY <1>1
<1>3. path' \in [AgentId -> SUBSET AgentId]
  BY <1>1
<1>4. Spawned' = Spawned \cup {c}
  BY <1>1, <1>2 DEF Spawned
<1>5. \A m \in Spawned : m < c
  <2> SUFFICES ASSUME NEW m \in Spawned, ~(m < c) PROVE FALSE
    OBVIOUS
  <2>1. m \in Nat /\ c \in Nat /\ m # c
    BY <1>1
  <2>2. c < m
    BY <2>1
  <2>3. c \in Spawned
    BY <2>2 DEF TreeOK
  <2>4. QED
    BY <1>1, <2>3
<1>6. \A m \in AgentId \ {c} : ChildrenOf(m) \subseteq ChildrenOf(m)'
  <2> SUFFICES ASSUME NEW m \in AgentId \ {c}, NEW k \in ChildrenOf(m)
               PROVE  k \in ChildrenOf(m)'
    OBVIOUS
  <2>1. k \in Spawned /\ k # m /\ path[k] = path[m] \cup {k}
    BY DEF ChildrenOf
  <2>2. path'[k] = path[k] /\ path'[m] = path[m] /\ k \in Spawned'
    BY <1>1, <1>2, <1>4, <2>1
  <2>3. QED
    BY <2>1, <2>2 DEF ChildrenOf
<1>7. c \in ChildrenOf(n)'
  BY <1>1, <1>2, <1>4 DEF ChildrenOf
<1>8. \A m \in Spawned : n \in path[n] /\ m \in path[m] /\ c \notin path[m] /\ path[m] \subseteq Spawned
  BY <1>1 DEF TreeOK
<1>9. \A m \in Spawned' : \A k \in AgentId : k < m => k \in Spawned'
  <2>1. ASSUME NEW k \in AgentId, k < c PROVE k \in Spawned
    BY <2>1 DEF Spawned
  <2>2. ASSUME NEW m \in Spawned, NEW k \in AgentId, k < m PROVE k \in Spawned
    BY <2>2 DEF TreeOK
  <2>3. QED
    BY <1>4, <2>1, <2>2
<1>10. ASSUME NEW m \in Spawned', NEW k \in path'[m]
       PROVE  /\ k <= m /\ k \in Spawned'
              /\ k # m => \E d \in ChildrenOf(k)' : d \in path'[m]
  <2>1. CASE m # c
    <3>1. m \in Spawned /\ path'[m] = path[m] /\ k \in path[m]
      BY <1>1, <1>2, <1>4, <1>10, <2>1
    <3>2. k <= m /\ k \in Spawned /\ (k # m => \E d \in ChildrenOf(k) : d \in path[m])
      BY <3>1 DEF TreeOK
    <3>3. k \in AgentId \ {c}
      BY <1>1, <3>2
    <3>4. QED
      BY <1>4, <1>6, <3>1, <3>2, <3>3
  <2>2. CASE m = c /\ k = c
    <3>1. c <= c
      BY <1>1
    <3>2. QED
      BY <1>4, <2>2, <3>1
  <2>3. CASE m = c /\ k # c
    <3>1. k \in path[n] /\ k \in Spawned
      BY <1>2, <1>8, <1>10, <2>3
    <3>2. k <= m
      BY <1>1, <1>5, <2>3, <3>1
    <3>3. CASE k = n
      BY <1>2, <1>4, <1>7, <2>3, <3>1, <3>2, <3>3
    <3>4. CASE k # n
      <4>1. PICK d \in ChildrenOf(k) : d \in path[n]
        BY <3>1, <3>4 DEF TreeOK
      <4>2. d \in ChildrenOf(k)' /\ d \in path'[m]
        BY <1>1, <1>2, <1>6, <2>3, <3>1, <4>1
      <4>3. QED
        BY <1>4, <3>1, <3>2, <4>2
    <3>5. QED
      BY <3>3, <3>4
  <2>4. QED
    BY <2>1, <2>2, <2>3
<1>11. ASSUME NEW m \in Spawned' \ {Root} PROVE \E k \in Spawned' : m \in ChildrenOf(k)'
  <2>1. CASE m = c
    BY <1>4, <1>7, <2>1
  <2>2. CASE m # c
    <3>1. PICK k \in Spawned : m \in ChildrenOf(k)
      BY <1>4, <1>11, <2>2 DEF TreeOK
    <3>2. QED
      BY <1>1, <1>4, <1>6, <3>1
  <2>3. QED
    BY <2>1, <2>2
<1>12. \A m \in Spawned' : m \in path'[m]
  BY <1>1, <1>2, <1>4, <1>8
<1>13. TreeOK'
  <2>1. Root \in Spawned'
    BY <1>4 DEF TreeOK
  <2>2. QED
    BY <1>3, <1>9, <1>10, <1>11, <1>12, <2>1 DEF TreeOK
<1>14. \A m \in Spawned : Below(m)' \subseteq Below(m) \cup {c}
  BY <1>1, <1>2, <1>4 DEF Below
<1>15. \A m \in Spawned : c \in Below(m)' => m = n \/ n \in Below(m)
  BY <1>1, <1>2 DEF Below
<1>16. Below(c)' = {}
  BY <1>1, <1>2, <1>4, <1>8 DEF Below
<1>17. QED
  BY <1>1, <1>4, <1>6, <1>13, <1>14, <1>15, <1>16

\* NodeCtx::spawn_agent.
LEMMA SpawnKeeps ==
  ASSUME AgentsInv, NEW n \in Spawned, NEW c \in AgentId, NEW nodeOwned \in BOOLEAN,
         Spawn(n, c, nodeOwned)
  PROVE  AgentsInv'
<1>1. /\ path[c] = {} /\ \A m \in AgentId : m < c => path[m] # {}
      /\ path' = [path EXCEPT ![c] = path[n] \cup {c}]
      /\ phase' = [phase EXCEPT ![c] = "running"]
      /\ UNCHANGED <<call, targets, tasks, stopped, outcome, messages>>
  BY DEF Spawn, Go, callVars
<1>2. \/ /\ noted' = noted \cup {c}
         /\ box' = [box EXCEPT ![n] = Tidy(Expecting(box[n], c))]
         /\ changed' = changed \cup (IF phase[n] \in Sleeping THEN {n} ELSE {})
      \/ UNCHANGED <<noted, box, changed>>
  BY DEF Spawn, Into, Woken, Sleeping
<1>3. phase[n] \notin Ended
  BY DEF Spawn, Open, Ended
<1>4. /\ TreeOK' /\ Spawned' = Spawned \cup {c} /\ c \notin Spawned /\ c # Root
      /\ \A m \in AgentId \ {c} : ChildrenOf(m) \subseteq ChildrenOf(m)'
      /\ \A m \in Spawned : Below(m)' \subseteq Below(m) \cup {c}
      /\ \A m \in Spawned : c \in Below(m)' => m = n \/ n \in Below(m)
      /\ Below(c)' = {}
  BY <1>1, Grown DEF AgentsInv
<1>5. /\ n \in AgentId /\ n # c /\ phase[c] = "absent" /\ phase'[c] = "running"
      /\ \A m \in AgentId \ {c} : phase'[m] = phase[m]
  BY <1>1, <1>4, OwnFacts, SpawnedAre DEF AgentsInv
<1>6. /\ "running" \in Phase /\ "running" \notin Ended \cup Ending \cup Sleeping
      /\ "absent" \notin Ended \cup Ending \cup Sleeping
  BY DEF Phase, Ended, Ending, Sleeping
<1>7. PhasesOK'
  <2>1. phase' \in [AgentId -> Phase]
    BY <1>1, <1>6, OwnFacts
  <2>2. \A m \in AgentId : m \in Spawned' <=> phase'[m] # "absent"
    BY <1>4, <1>5, SpawnedAre DEF AgentsInv
  <2>3. \A m \in AgentId : phase'[m] \in Ended <=> phase[m] \in Ended
    BY <1>5, <1>6
  <2>4. outcome' = {m \in AgentId : phase'[m] \in Ended}
    BY <1>1, <2>3 DEF AgentsInv, PhasesOK
  <2>5. phase'[Root] \notin {"posting", "waking"}
    BY <1>4, <1>5, AgentNumbers DEF AgentsInv, PhasesOK
  <2>6. ASSUME NEW m \in AgentId, phase'[m] \in Ended, NEW k \in Below(m)'
        PROVE  phase'[k] = "done"
    <3>1. phase[m] \in Ended /\ m # c /\ m \in Spawned
      BY <1>5, <1>6, <2>3, <2>6, SpawnedAre DEF AgentsInv
    <3>2. \A j \in Below(m) : phase[j] = "done"
      BY <3>1 DEF AgentsInv, PhasesOK
    <3>3. m # n /\ n \notin Below(m)
      BY <1>3, <3>1, <3>2 DEF Ended
    <3>4. k \in Below(m) /\ k # c
      BY <1>4, <2>6, <3>1, <3>3
    <3>5. k \in AgentId
      BY <3>4 DEF Below, Spawned
    <3>6. QED
      BY <1>5, <3>2, <3>4, <3>5
  <2>7. QED
    BY <2>1, <2>2, <2>4, <2>5, <2>6 DEF PhasesOK
<1>8. CallsOK'
  <2>1. ASSUME NEW m \in AgentId
        PROVE  /\ phase'[m] \in Sleeping => call'[m] \in {"idle", "receive", "wait"}
               /\ call'[m] = "wait" => targets'[m] \subseteq ChildrenOf(m)'
               /\ phase'[m] = "absent" => call'[m] = "none"
    <3>1. CASE m = c
      <4>1. call'[m] = "none"
        BY <1>1, <1>5, <3>1 DEF AgentsInv, CallsOK
      <4>2. QED
        BY <1>5, <1>6, <3>1, <4>1
    <3>2. CASE m # c
      <4>1. phase'[m] = phase[m] /\ ChildrenOf(m) \subseteq ChildrenOf(m)'
        BY <1>4, <1>5, <3>2
      <4>2. QED
        BY <1>1, <4>1 DEF AgentsInv, CallsOK
    <3>3. QED
      BY <3>1, <3>2
  <2>2. QED
    BY <1>1, <2>1 DEF AgentsInv, CallsOK
<1>9. FlagsOK'
  BY <1>1, <1>2, <1>5 DEF AgentsInv, FlagsOK
<1>10. \A m \in AgentId : Sound(box[m], outcome) /\ (box[m].closed <=> phase[m] \in Ending)
  BY DEF AgentsInv, BoxesOK
<1>11. /\ box' \in [AgentId -> Box]
       /\ \A m \in AgentId : /\ Sound(box'[m], outcome) /\ box'[m].closed = box[m].closed
                             /\ box'[m].reserved = box[m].reserved
       /\ \A m \in AgentId \ {n} : box'[m] = box[m]
       /\ box'[n] = box[n] \/ (phase[n] \in Sleeping => n \in changed')
  <2>1. box \in [AgentId -> Box]
    BY DEF AgentsInv, BoxesOK
  <2>2. CASE UNCHANGED <<noted, box, changed>>
    BY <1>10, <2>1, <2>2
  <2>3. CASE /\ noted' = noted \cup {c}
             /\ box' = [box EXCEPT ![n] = Tidy(Expecting(box[n], c))]
             /\ changed' = changed \cup (IF phase[n] \in Sleeping THEN {n} ELSE {})
    <3> DEFINE d == Expecting(box[n], c)
               b == Tidy(d)
    <3>1. box[n] \in Box
      BY <1>5, <2>1
    <3>2. /\ d \in Loose /\ d.queue = box[n].queue /\ d.plain = box[n].plain
          /\ d.arrivals = box[n].arrivals /\ d.closed = box[n].closed
          /\ d.reserved = box[n].reserved
      BY <3>1 DEF Box, Loose, Expecting
    <3> HIDE DEF d
    <3>3. Sound(b, outcome) /\ b.closed = box[n].closed /\ b.reserved = box[n].reserved
      BY <1>5, <1>10, <3>2, NotedSound
    <3>4. box' = [box EXCEPT ![n] = b]
      BY <2>3 DEF d
    <3> HIDE DEF b
    <3>5. b \in Box
      BY <3>3 DEF Sound
    <3>6. box'[n] = b /\ box' \in [AgentId -> Box] /\ \A m \in AgentId \ {n} : box'[m] = box[m]
      BY <1>5, <2>1, <3>4, <3>5
    <3>7. phase[n] \in Sleeping => n \in changed'
      BY <2>3
    <3>8. QED
      BY <1>10, <3>3, <3>6, <3>7
  <2>4. QED
    BY <1>2, <2>2, <2>3
<1>12. BoxesOK'
  <2>1. \A m \in AgentId : box'[m].closed <=> phase'[m] \in Ending
    BY <1>5, <1>6, <1>10, <1>11
  <2>2. QED
    BY <1>1, <1>11, <2>1 DEF BoxesOK
<1>13. TasksOK'
  <2>1. \A m \in AgentId : phase'[m] \in Ended <=> phase[m] \in Ended
    BY <1>5, <1>6
  <2>2. \A t \in tasks : t.owner \in AgentId
    BY DEF AgentsInv, TasksOK, Task
  <2>3. ASSUME NEW m \in AgentId PROVE box'[m].reserved = Cardinality(Due(m)')
    <3>1. Due(m)' = Due(m)
      BY <1>1 DEF Due
    <3>2. box[m].reserved = Cardinality(Due(m))
      BY DEF AgentsInv, TasksOK
    <3>3. QED
      BY <1>11, <3>1, <3>2
  <2>4. QED
    BY <1>1, <2>1, <2>2, <2>3 DEF AgentsInv, TasksOK
<1>14. ASSUME NEW m \in AgentId PROVE AwakeOK(m)'
  <2>1. CASE m = c
    BY <1>5, <1>6, <2>1 DEF AwakeOK
  <2>2. CASE m # c /\ box'[m] = box[m]
    <3>1. \A k \in ChildrenOf(m) : phase[k] \in {"posting", "waking"} =>
             k \in ChildrenOf(m)' /\ phase'[k] \in {"posting", "waking"}
      BY <1>4, <1>5, <2>2 DEF ChildrenOf, Spawned
    <3>2. m \in changed => m \in changed'
      BY <1>2
    <3>3. WakeDue(m) => WakeDue(m)'
      BY <1>1, <3>1, <3>2, DueStays
    <3>4. QED
      BY <1>1, <1>5, <2>2, <3>3, AwakeKept DEF AgentsInv
  <2>3. CASE m = n /\ (phase[n] \in Sleeping => n \in changed')
    BY <1>5, <2>3 DEF AwakeOK, WakeDue
  <2>4. QED
    BY <1>11, <2>1, <2>2, <2>3
<1>15. QED
  BY <1>4, <1>7, <1>8, <1>9, <1>12, <1>13, <1>14 DEF AgentsInv

\* A step of the owned work leaves the tree, the phases and the calls alone.
LEMMA StillOK ==
  ASSUME AgentsInv, UNCHANGED <<path, noted, phase, call, targets, outcome, stopped>>,
         changed' \subseteq AgentId
  PROVE  /\ TreeOK' /\ PhasesOK' /\ CallsOK' /\ FlagsOK' /\ Spawned' = Spawned
         /\ \A m : ChildrenOf(m)' = ChildrenOf(m)
<1>1. /\ TreeOK' /\ Spawned' = Spawned
      /\ \A m : ChildrenOf(m)' = ChildrenOf(m) /\ Below(m)' = Below(m)
  BY SameTree, SameTreeOK DEF AgentsInv
<1>2. PhasesOK'
  BY <1>1 DEF AgentsInv, PhasesOK
<1>3. CallsOK' /\ FlagsOK'
  BY <1>1 DEF AgentsInv, CallsOK, FlagsOK
<1>4. QED
  BY <1>1, <1>2, <1>3

\* One mailbox becomes b, and nothing else that BoxesOK speaks about changes.
LEMMA OneBox ==
  ASSUME AgentsInv, UNCHANGED <<phase, outcome>>, NEW m \in AgentId, NEW b,
         box' = [box EXCEPT ![m] = b], Sound(b, outcome), b.closed = box[m].closed
  PROVE  /\ BoxesOK' /\ box'[m] = b /\ \A k \in AgentId \ {m} : box'[k] = box[k]
<1>1. box \in [AgentId -> Box] /\ b \in Box
  BY DEF AgentsInv, BoxesOK, Sound
<1>2. box' \in [AgentId -> Box] /\ box'[m] = b /\ \A k \in AgentId \ {m} : box'[k] = box[k]
  BY <1>1
<1>3. ASSUME NEW k \in AgentId
      PROVE  Sound(box'[k], outcome') /\ (box'[k].closed <=> phase'[k] \in Ending)
  <2>1. Sound(box[k], outcome) /\ (box[k].closed <=> phase[k] \in Ending)
    BY DEF AgentsInv, BoxesOK
  <2>2. CASE k = m
    BY <1>2, <2>1, <2>2
  <2>3. CASE k # m
    BY <1>2, <2>1, <2>3
  <2>4. QED
    BY <2>2, <2>3
<1>4. QED
  BY <1>2, <1>3 DEF BoxesOK

\* NodeCtx::send: the place reserved is the send that is now under way.
LEMMA SendKeeps ==
  ASSUME AgentsInv, NEW n \in Spawned, NEW m \in Spawned, Send(n, m)
  PROVE  AgentsInv'
<1> DEFINE d == Reserved(box[m])
           b == Tidy(d)
           t == Work(n, Message(n, m))
<1>1. /\ messages < MaxMessages /\ ~box[m].closed /\ phase[n] \notin Ended
      /\ tasks' = tasks \cup {t} /\ messages' = messages + 1
      /\ box' = [box EXCEPT ![m] = b]
      /\ UNCHANGED <<path, noted, phase, call, targets, changed, stopped, outcome>>
  BY DEF Send, Open, HasRoom, Into, Ended, treeVars, callVars
<1>2. /\ n \in AgentId /\ m \in AgentId /\ box[m] \in Box /\ Sound(box[m], outcome)
      /\ changed \subseteq AgentId
  BY OwnFacts
<1>3. messages \in Nat /\ MaxMessages \in Nat /\ messages + 1 \in 0 .. MaxMessages
  BY <1>1, AgentsAssumption DEF AgentsInv, TasksOK
<1>4. /\ t \in Task /\ t.owner = n /\ t.step = "queue" /\ t.envelope.to = m
      /\ t.envelope.kind = "message" /\ t.envelope.id = messages
  BY <1>2, <1>3 DEF Work, Message, Task, Envelope
<1>5. /\ d \in Loose /\ d.queue = box[m].queue /\ d.plain = box[m].plain
      /\ d.arrivals = box[m].arrivals /\ d.closed = box[m].closed
      /\ d.reserved = box[m].reserved + 1
      /\ d.awaiting = box[m].awaiting /\ d.concluded = box[m].concluded
  BY <1>2 DEF Box, Loose, Reserved
<1> HIDE DEF d, t
<1>6. /\ Sound(b, outcome) /\ b.queue = box[m].queue /\ b.closed = box[m].closed
      /\ b.reserved = box[m].reserved + 1
      /\ b.awaiting = box[m].awaiting /\ b.concluded = box[m].concluded
  <2>1. /\ Sound(Tidy(d), outcome)
        /\ Tidy(d).queue = box[m].queue /\ Tidy(d).reserved = d.reserved
        /\ Tidy(d).closed = box[m].closed
        /\ ~box[m].closed => /\ Tidy(d).awaiting = d.awaiting
                             /\ Tidy(d).concluded = d.concluded
    BY <1>2, <1>5, NotedSound
  <2>2. QED
    BY <1>1, <1>5, <2>1
<1> HIDE DEF b
<1>7. BoxesOK' /\ box'[m] = b /\ \A k \in AgentId \ {m} : box'[k] = box[k]
  BY <1>1, <1>2, <1>6, OneBox
<1>8. /\ TreeOK' /\ PhasesOK' /\ CallsOK' /\ FlagsOK' /\ Spawned' = Spawned
      /\ \A k : ChildrenOf(k)' = ChildrenOf(k)
  BY <1>1, <1>2, StillOK
<1>9. /\ tasks \subseteq Task /\ IsFiniteSet(tasks)
      /\ \A u \in tasks : /\ phase[u.owner] \notin Ended
                          /\ IF u.envelope.kind = "message" THEN u.envelope.id < messages
                             ELSE u.envelope.from \in outcome
      /\ \A k \in AgentId : box[k].reserved = Cardinality(Due(k))
  BY DEF AgentsInv, TasksOK
<1>10. t \notin tasks
  BY <1>3, <1>4, <1>9
<1>11. TasksOK'
  <2>1. tasks' \subseteq Task /\ messages' \in 0 .. MaxMessages
    BY <1>1, <1>3, <1>4, <1>9
  <2>2. IsFiniteSet(tasks')
    BY <1>1, <1>9, FS_AddElement
  <2>3. ASSUME NEW u \in tasks'
        PROVE  /\ phase'[u.owner] \notin Ended
               /\ IF u.envelope.kind = "message" THEN u.envelope.id < messages'
                  ELSE u.envelope.from \in outcome'
    <3>1. CASE u = t
      BY <1>1, <1>3, <1>4, <3>1
    <3>2. CASE u \in tasks
      <4>1. u.envelope.id \in Nat
        BY <1>9, <3>2 DEF Task, Envelope
      <4>2. u.envelope.id < messages => u.envelope.id < messages'
        BY <1>1, <1>3, <4>1
      <4>3. QED
        BY <1>1, <1>9, <3>2, <4>2
    <3>3. QED
      BY <1>1, <3>1, <3>2
  <2>4. ASSUME NEW k \in AgentId PROVE box'[k].reserved = Cardinality(Due(k)')
    <3>1. CASE k = m
      <4>1. Due(m)' = Due(m) \cup {t}
        BY <1>1, <1>4 DEF Due
      <4>2. t \notin Due(m) /\ IsFiniteSet(Due(m))
        BY <1>9, <1>10, FS_Subset DEF Due
      <4>3. Cardinality(Due(m) \cup {t}) = Cardinality(Due(m)) + 1
        BY <4>2, FS_AddElement
      <4>4. box[m].reserved = Cardinality(Due(m))
        BY <1>2, <1>9
      <4>5. QED
        BY <1>6, <1>7, <3>1, <4>1, <4>3, <4>4
    <3>2. CASE k # m
      <4>1. Due(k)' = Due(k)
        BY <1>1, <1>4, <3>2 DEF Due
      <4>2. box'[k] = box[k]
        BY <1>7, <3>2
      <4>3. QED
        BY <1>9, <4>1, <4>2
    <3>3. QED
      BY <3>1, <3>2
  <2>5. QED
    BY <2>1, <2>2, <2>3, <2>4 DEF TasksOK
<1>12. ASSUME NEW k \in AgentId PROVE AwakeOK(k)'
  <2>1. WakeDue(k) => WakeDue(k)'
    BY <1>1, <1>8, DueStays
  <2>2. CASE k # m
    <3>1. box'[k] = box[k]
      BY <1>7, <2>2
    <3>2. QED
      BY <1>1, <2>1, <3>1, AwakeKept DEF AgentsInv
  <2>3. CASE k = m
    <3>1. AwakeOK(m)
      BY <1>2 DEF AgentsInv
    <3>2. ASSUME NothingToReturn(m) PROVE NothingToReturn(m)'
      <4>1. b.reserved # 0
        BY <1>2, <1>6 DEF Box
      <4>2. Unreported(m)' = Unreported(m)
        BY <1>1, <1>6, <1>7 DEF Unreported, CanStage
      <4>3. \A c : Finished(m, c)' <=> Finished(m, c)
        BY <1>1, <1>6, <1>7 DEF Finished
      <4>4. call[m] = "idle" => box'[m].queue = {} /\ ~IdleDone(box'[m])
        BY <1>6, <1>7, <3>2, <4>1 DEF NothingToReturn, IdleDone
      <4>5. call[m] = "receive" => box'[m].queue = {} /\ ~box'[m].closed
        BY <1>6, <1>7, <3>2 DEF NothingToReturn
      <4>6. call[m] = "wait" =>
              /\ Unreported(m)' = {}
              /\ phase'[m] = "staged" \/ \E c \in targets[m] : ~Finished(m, c)'
        BY <1>1, <3>2, <4>2, <4>3 DEF NothingToReturn
      <4>7. QED
        BY <1>1, <4>4, <4>5, <4>6 DEF NothingToReturn
    <3>3. QED
      BY <1>1, <2>1, <2>3, <3>1, <3>2 DEF AwakeOK
  <2>4. QED
    BY <2>2, <2>3
<1>13. QED
  BY <1>7, <1>8, <1>11, <1>12 DEF AgentsInv

\* Owned work queues its envelope: its recipient is to be woken from now on.
LEMMA QueueKeeps ==
  ASSUME AgentsInv, NEW t, Queue(t)
  PROVE  AgentsInv'
<1> DEFINE e == t.envelope
           m == e.to
           b == Tidy(Pushed(box[m], e))
           u == [t EXCEPT !.step = "wake"]
<1>1. /\ t \in tasks /\ t.step = "queue" /\ box' = [box EXCEPT ![m] = b]
      /\ tasks' = (tasks \ {t}) \cup {u}
      /\ UNCHANGED <<path, noted, phase, call, targets, changed, stopped, outcome, messages>>
  BY DEF Queue, Into, treeVars, callVars
<1>2. /\ tasks \subseteq Task /\ IsFiniteSet(tasks)
      /\ \A v \in tasks : /\ phase[v.owner] \notin Ended
                          /\ IF v.envelope.kind = "message" THEN v.envelope.id < messages
                             ELSE v.envelope.from \in outcome
      /\ \A k \in AgentId : box[k].reserved = Cardinality(Due(k))
      /\ messages \in 0 .. MaxMessages
  BY DEF AgentsInv, TasksOK
<1>3. /\ t \in Task /\ e \in Envelope /\ m \in AgentId
      /\ u \in Task /\ u.owner = t.owner /\ u.step = "wake" /\ u.envelope = e
  BY <1>1, <1>2 DEF Task, Envelope
<1>4. Sound(box[m], outcome) /\ box[m] \in Box /\ changed \subseteq AgentId
  BY <1>3 DEF AgentsInv, BoxesOK, FlagsOK
<1>5. IsFiniteSet(Due(m)) /\ box[m].reserved = Cardinality(Due(m))
  BY <1>2, <1>3, FS_Subset DEF Due
<1>6. e.kind = "message" => t \in Due(m)
  BY <1>1 DEF Due
<1>7. e.kind = "message" => box[m].reserved > 0
  <2> SUFFICES ASSUME e.kind = "message" PROVE box[m].reserved > 0
    OBVIOUS
  <2>1. Cardinality(Due(m)) # 0
    BY <1>5, <1>6, FS_EmptySet
  <2>2. box[m].reserved \in Nat
    BY <1>4 DEF Box
  <2>3. QED
    BY <1>5, <2>1, <2>2
<1>8. e.kind # "message" => e.from \in outcome
  BY <1>1, <1>2
<1> HIDE DEF u
<1>9. /\ Sound(b, outcome) /\ b.closed = box[m].closed
      /\ b.reserved = IF e.kind = "message" THEN box[m].reserved - 1 ELSE box[m].reserved
  <2> HIDE DEF e
  <2>1. IF e.kind = "message" THEN box[m].reserved > 0 ELSE e.from \in outcome
    BY <1>7, <1>8
  <2>2. QED
    BY <1>3, <1>4, <2>1, PushedSound
<1> HIDE DEF b
<1>10. BoxesOK' /\ box'[m] = b /\ \A k \in AgentId \ {m} : box'[k] = box[k]
  BY <1>1, <1>3, <1>9, OneBox
<1>11. /\ TreeOK' /\ PhasesOK' /\ CallsOK' /\ FlagsOK'
       /\ \A k : ChildrenOf(k)' = ChildrenOf(k)
  BY <1>1, <1>4, StillOK
<1>12. TasksOK'
  <2>1. tasks' \subseteq Task /\ messages' \in 0 .. MaxMessages
    BY <1>1, <1>2, <1>3
  <2>2. IsFiniteSet(tasks')
    <3>1. IsFiniteSet(tasks \ {t})
      BY <1>2, FS_Subset
    <3>2. QED
      BY <1>1, <3>1, FS_AddElement
  <2>3. ASSUME NEW v \in tasks'
        PROVE  /\ phase'[v.owner] \notin Ended
               /\ IF v.envelope.kind = "message" THEN v.envelope.id < messages'
                  ELSE v.envelope.from \in outcome'
    BY <1>1, <1>2, <1>3
  <2>4. ASSUME NEW k \in AgentId PROVE box'[k].reserved = Cardinality(Due(k)')
    <3>1. CASE k = m /\ e.kind = "message"
      <4>1. Due(m)' = Due(m) \ {t}
        BY <1>1, <1>3 DEF Due
      <4>2. Cardinality(Due(m) \ {t}) = Cardinality(Due(m)) - 1
        BY <1>5, <1>6, <3>1, FS_RemoveElement
      <4>3. QED
        BY <1>5, <1>9, <1>10, <3>1, <4>1, <4>2
    <3>2. CASE ~(k = m /\ e.kind = "message")
      <4>1. Due(k)' = Due(k)
        BY <1>1, <1>3, <3>2 DEF Due
      <4>2. box'[k].reserved = box[k].reserved
        BY <1>9, <1>10, <3>2
      <4>3. QED
        BY <1>2, <4>1, <4>2
    <3>3. QED
      BY <3>1, <3>2
  <2>5. QED
    BY <2>1, <2>2, <2>3, <2>4 DEF TasksOK
<1>13. ASSUME NEW k \in AgentId PROVE AwakeOK(k)'
  <2>1. CASE k = m
    <3>1. u \in tasks' /\ u.envelope.to = k /\ u.step = "wake"
      BY <1>1, <1>3, <2>1
    <3>2. QED
      BY <3>1 DEF AwakeOK, WakeDue
  <2>2. CASE k # m
    <3>1. \A v \in tasks : v.envelope.to = k /\ v.step = "wake" => v \in tasks'
      BY <1>1
    <3>2. WakeDue(k) => WakeDue(k)'
      BY <1>1, <1>11, <3>1, DueStays
    <3>3. box'[k] = box[k]
      BY <1>10, <2>2
    <3>4. QED
      BY <1>1, <3>2, <3>3, AwakeKept DEF AgentsInv
  <2>3. QED
    BY <2>1, <2>2
<1>14. QED
  BY <1>10, <1>11, <1>12, <1>13 DEF AgentsInv

\* Owned work wakes its recipient.
LEMMA WakeKeeps ==
  ASSUME AgentsInv, NEW t, Wake(t)
  PROVE  AgentsInv'
<1> DEFINE m == t.envelope.to
<1>1. /\ t \in tasks /\ t.step = "wake" /\ tasks' = tasks \ {t}
      /\ changed' = changed \cup (IF phase[m] \in Sleeping THEN {m} ELSE {})
      /\ UNCHANGED <<path, noted, phase, call, targets, box, stopped, outcome, messages>>
  BY DEF Wake, Woken, Sleeping, treeVars, callVars
<1>2. tasks \subseteq Task /\ IsFiniteSet(tasks)
  BY DEF AgentsInv, TasksOK
<1>3. m \in AgentId /\ changed' \subseteq AgentId
  BY <1>1, <1>2 DEF Task, Envelope, AgentsInv, FlagsOK
<1>4. /\ TreeOK' /\ PhasesOK' /\ CallsOK' /\ FlagsOK'
      /\ \A k : ChildrenOf(k)' = ChildrenOf(k)
  BY <1>1, <1>3, StillOK
<1>5. BoxesOK'
  BY <1>1 DEF AgentsInv, BoxesOK
<1>6. TasksOK'
  <2>1. IsFiniteSet(tasks')
    BY <1>1, <1>2, FS_Subset
  <2>2. \A k : Due(k)' = Due(k)
    BY <1>1 DEF Due
  <2>3. QED
    BY <1>1, <2>1, <2>2 DEF AgentsInv, TasksOK
<1>7. ASSUME NEW k \in AgentId PROVE AwakeOK(k)'
  <2>1. CASE k = m
    BY <1>1, <2>1 DEF AwakeOK, WakeDue
  <2>2. CASE k # m
    <3>1. \A v \in tasks : v.envelope.to = k /\ v.step = "wake" => v \in tasks'
      BY <1>1, <2>2
    <3>2. WakeDue(k) => WakeDue(k)'
      BY <1>1, <1>4, <3>1, DueStays
    <3>3. QED
      BY <1>1, <3>2, AwakeKept DEF AgentsInv
  <2>3. QED
    BY <2>1, <2>2
<1>8. QED
  BY <1>4, <1>5, <1>6, <1>7 DEF AgentsInv

-----------------------------------------------------------------------------
(* The end of an agent.                                                    *)

\* An outcome is published: whoever waits for it will be woken by the child itself.
LEMMA PublishKeeps ==
  ASSUME AgentsInv, NEW n \in Spawned, Publish(n)
  PROVE  AgentsInv'
<1> DEFINE w == IF n = Root THEN "done" ELSE IF n \in noted THEN "posting" ELSE "waking"
<1>1. /\ phase[n] = "joining" /\ \A t \in tasks : t.owner # n
      /\ \A c \in ChildrenOf(n) : phase[c] = "done"
      /\ outcome' = outcome \cup {n} /\ phase' = [phase EXCEPT ![n] = w]
      /\ UNCHANGED <<path, noted, call, targets, box, changed, tasks, stopped, messages>>
  BY DEF Publish, Go, treeVars, callVars
<1>2. /\ n \in AgentId /\ phase \in [AgentId -> Phase] /\ w \in Ended \cap Phase
      /\ phase[n] \notin Ended /\ phase[n] \in Ending
      /\ n # Root => w \in {"posting", "waking"}
      /\ n = Root => w = "done"
  BY <1>1, OwnFacts DEF Ended, Ending, Phase
<1> HIDE DEF w
<1>3. phase'[n] = w /\ \A m \in AgentId \ {n} : phase'[m] = phase[m]
  BY <1>1, <1>2
<1>4. /\ TreeOK' /\ Spawned' = Spawned
      /\ \A m : ChildrenOf(m)' = ChildrenOf(m) /\ Below(m)' = Below(m)
  BY <1>1, SameTree, SameTreeOK DEF AgentsInv
<1>5. ASSUME NEW m \in Below(n) PROVE phase[m] = "done" /\ m # n
  <2>1. m \in Spawned /\ m # n /\ n \in path[m]
    BY <1>5 DEF Below
  <2>2. PICK c \in ChildrenOf(n) : c \in path[m]
    BY <2>1 DEF AgentsInv, TreeOK
  <2>3. phase[c] = "done" /\ c \in AgentId
    BY <1>1, <2>2 DEF ChildrenOf, Spawned
  <2>4. CASE m = c
    BY <2>1, <2>3, <2>4
  <2>5. CASE m # c
    <3>1. m \in Below(c)
      BY <2>1, <2>2, <2>5 DEF Below
    <3>2. phase[c] \in Ended
      BY <2>3 DEF Ended
    <3>3. QED
      BY <2>1, <2>3, <3>1, <3>2 DEF AgentsInv, PhasesOK
  <2>6. QED
    BY <2>4, <2>5
<1>6. PhasesOK'
  <2>1. phase' \in [AgentId -> Phase]
    BY <1>1, <1>2
  <2>2. \A m \in AgentId : m \in Spawned' <=> phase'[m] # "absent"
    <3>1. w # "absent"
      BY <1>2 DEF Ended
    <3>2. QED
      BY <1>3, <1>4, <3>1 DEF AgentsInv, PhasesOK
  <2>3. outcome' = {m \in AgentId : phase'[m] \in Ended}
    BY <1>1, <1>2, <1>3 DEF AgentsInv, PhasesOK
  <2>4. phase'[Root] \notin {"posting", "waking"}
    <3>1. CASE n = Root
      BY <1>2, <1>3, <3>1
    <3>2. CASE n # Root
      BY <1>3, <3>2, AgentNumbers DEF AgentsInv, PhasesOK
    <3>3. QED
      BY <3>1, <3>2
  <2>5. ASSUME NEW m \in AgentId, phase'[m] \in Ended, NEW k \in Below(m)'
        PROVE  phase'[k] = "done"
    <3>1. k \in Below(m) /\ k \in AgentId
      BY <1>4, <2>5 DEF Below, Spawned
    <3>2. CASE m = n
      BY <1>3, <1>5, <3>1, <3>2
    <3>3. CASE m # n
      <4>1. phase[k] = "done"
        BY <1>3, <2>5, <3>1, <3>3 DEF AgentsInv, PhasesOK
      <4>2. k # n
        BY <1>1, <4>1
      <4>3. QED
        BY <1>3, <3>1, <4>1, <4>2
    <3>4. QED
      BY <3>2, <3>3
  <2>6. QED
    BY <2>1, <2>2, <2>3, <2>4, <2>5 DEF PhasesOK
<1>7. CallsOK'
  <2>1. \A m \in AgentId : /\ phase'[m] \in Sleeping => phase[m] \in Sleeping
                           /\ phase'[m] = "absent" => phase[m] = "absent"
    BY <1>2, <1>3 DEF Ended, Sleeping
  <2>2. QED
    BY <1>1, <1>4, <2>1 DEF AgentsInv, CallsOK
<1>8. FlagsOK'
  BY <1>1 DEF AgentsInv, FlagsOK
<1>9. BoxesOK'
  <2>1. ASSUME NEW m \in AgentId
        PROVE  Sound(box'[m], outcome') /\ (box'[m].closed <=> phase'[m] \in Ending)
    <3>1. Sound(box[m], outcome) /\ (box[m].closed <=> phase[m] \in Ending)
      BY DEF AgentsInv, BoxesOK
    <3>2. Sound(box[m], outcome')
      BY <1>1, <3>1 DEF Sound, Counted
    <3>3. phase'[m] \in Ending <=> phase[m] \in Ending
      BY <1>2, <1>3 DEF Ending
    <3>4. QED
      BY <1>1, <3>1, <3>2, <3>3
  <2>2. QED
    BY <1>1, <2>1 DEF AgentsInv, BoxesOK
<1>10. TasksOK'
  <2>1. ASSUME NEW t \in tasks PROVE phase'[t.owner] \notin Ended
    <3>1. t.owner \in AgentId /\ phase[t.owner] \notin Ended /\ t.owner # n
      BY <1>1 DEF AgentsInv, TasksOK, Task
    <3>2. QED
      BY <1>3, <3>1
  <2>2. \A k : Due(k)' = Due(k)
    BY <1>1 DEF Due
  <2>3. QED
    BY <1>1, <2>1, <2>2 DEF AgentsInv, TasksOK
<1>11. ASSUME NEW m \in AgentId PROVE AwakeOK(m)'
  <2>1. CASE n \in targets[m] /\ call[m] = "wait"
    <3>1. n \in ChildrenOf(m)
      BY <2>1 DEF AgentsInv, CallsOK
    <3>2. CASE phase'[m] \in Sleeping
      <4>1. m # n /\ phase[m] \in Sleeping
        BY <1>2, <1>3, <3>2 DEF Ended, Sleeping
      <4>2. m \in Spawned
        BY <4>1, SpawnedAre DEF AgentsInv, Sleeping
      <4>3. n # Root
        BY <3>1, <4>2, OneParent DEF AgentsInv
      <4>4. n \in ChildrenOf(m)' /\ phase'[n] \in {"posting", "waking"}
        BY <1>2, <1>3, <1>4, <3>1, <4>3
      <4>5. QED
        BY <4>4 DEF AwakeOK, WakeDue
    <3>3. QED
      BY <3>2 DEF AwakeOK
  <2>2. CASE m = n
    <3>1. phase'[m] \notin Sleeping
      BY <1>2, <1>3, <2>2 DEF Ended, Sleeping
    <3>2. QED
      BY <3>1 DEF AwakeOK
  <2>3. CASE m # n /\ ~(n \in targets[m] /\ call[m] = "wait")
    <3>1. ASSUME NEW c \in ChildrenOf(m), phase[c] \in {"posting", "waking"}
          PROVE  c \in ChildrenOf(m)' /\ phase'[c] \in {"posting", "waking"}
      <4>1. c # n /\ c \in AgentId
        BY <1>1, <3>1 DEF ChildrenOf, Spawned
      <4>2. QED
        BY <1>3, <1>4, <3>1, <4>1
    <3>2. WakeDue(m) => WakeDue(m)'
      BY <1>1, <3>1, DueStays
    <3>3. call[m] = "wait" => targets[m] \cap outcome' = targets[m] \cap outcome
      BY <1>1, <2>3
    <3>4. phase'[m] = phase[m]
      BY <1>3, <2>3
    <3>5. QED
      BY <1>1, <3>2, <3>3, <3>4, AwakeKept DEF AgentsInv
  <2>4. QED
    BY <2>1, <2>2, <2>3
<1>12. QED
  BY <1>4, <1>6, <1>7, <1>8, <1>9, <1>10, <1>11 DEF AgentsInv

\* From its outcome on an agent only reports and wakes its parent.
LEMMA ReportStep ==
  ASSUME AgentsInv, NEW n \in Spawned, phase[n] \in {"posting", "waking"},
         NEW w \in {"waking", "done"}, phase' = [phase EXCEPT ![n] = w],
         UNCHANGED <<path, noted, call, targets, tasks, stopped, outcome, messages>>,
         changed' \subseteq AgentId
  PROVE  /\ TreeOK' /\ PhasesOK' /\ CallsOK' /\ FlagsOK'
         /\ \A m : ChildrenOf(m)' = ChildrenOf(m)
         /\ n \in AgentId /\ n # Root /\ phase'[n] = w
         /\ \A m \in AgentId \ {n} : phase'[m] = phase[m]
         /\ \A m \in AgentId : /\ phase'[m] \in Ended <=> phase[m] \in Ended
                               /\ phase'[m] \in Sleeping => m # n
                               /\ phase'[m] \in Ending <=> phase[m] \in Ending
<1>1. /\ n \in AgentId /\ phase \in [AgentId -> Phase]
      /\ w \in Phase \cap Ended /\ phase[n] \in Ended /\ w \in Ending /\ phase[n] \in Ending
      /\ w # "absent" /\ phase[n] # "absent" /\ phase[n] # "done" /\ w \notin Sleeping
  BY OwnFacts DEF Ended, Ending, Phase, Sleeping
<1>2. phase'[n] = w /\ \A m \in AgentId \ {n} : phase'[m] = phase[m]
  BY <1>1
<1>3. n # Root
  BY DEF AgentsInv, PhasesOK
<1>4. /\ TreeOK' /\ Spawned' = Spawned
      /\ \A m : ChildrenOf(m)' = ChildrenOf(m) /\ Below(m)' = Below(m)
  BY SameTree, SameTreeOK DEF AgentsInv
<1>5. \A m \in AgentId : /\ phase'[m] \in Ended <=> phase[m] \in Ended
                         /\ phase'[m] \in Sleeping => m # n
                         /\ phase'[m] \in Ending <=> phase[m] \in Ending
                         /\ phase'[m] = "absent" <=> phase[m] = "absent"
  BY <1>1, <1>2
<1>6. PhasesOK'
  <2>1. phase' \in [AgentId -> Phase]
    BY <1>1
  <2>2. \A m \in AgentId : m \in Spawned' <=> phase'[m] # "absent"
    BY <1>4, <1>5 DEF AgentsInv, PhasesOK
  <2>3. outcome' = {m \in AgentId : phase'[m] \in Ended}
    BY <1>5 DEF AgentsInv, PhasesOK
  <2>4. phase'[Root] \notin {"posting", "waking"}
    BY <1>2, <1>3, AgentNumbers DEF AgentsInv, PhasesOK
  <2>5. ASSUME NEW m \in AgentId, phase'[m] \in Ended, NEW k \in Below(m)'
        PROVE  phase'[k] = "done"
    <3>1. phase[m] \in Ended /\ k \in Below(m) /\ k \in AgentId
      BY <1>4, <1>5, <2>5 DEF Below, Spawned
    <3>2. phase[k] = "done"
      BY <3>1 DEF AgentsInv, PhasesOK
    <3>3. k # n
      BY <1>1, <3>2
    <3>4. QED
      BY <1>2, <3>1, <3>2, <3>3
  <2>6. QED
    BY <2>1, <2>2, <2>3, <2>4, <2>5 DEF PhasesOK
<1>7. CallsOK'
  <2>1. \A m \in AgentId : phase'[m] \in Sleeping => phase[m] \in Sleeping
    BY <1>2, <1>5
  <2>2. QED
    BY <1>4, <1>5, <2>1 DEF AgentsInv, CallsOK
<1>8. FlagsOK'
  BY DEF AgentsInv, FlagsOK
<1>9. QED
  BY <1>1, <1>2, <1>3, <1>4, <1>5, <1>6, <1>7, <1>8

\* A report changes no send under way.
LEMMA ReportTasks ==
  ASSUME AgentsInv, UNCHANGED <<tasks, outcome, messages>>,
         \A m \in AgentId : phase'[m] \in Ended <=> phase[m] \in Ended,
         \A m \in AgentId : box'[m].reserved = box[m].reserved
  PROVE  TasksOK'
<1>1. \A k : Due(k)' = Due(k)
  BY DEF Due
<1>2. \A t \in tasks : t.owner \in AgentId
  BY DEF AgentsInv, TasksOK, Task
<1>3. QED
  BY <1>1, <1>2 DEF AgentsInv, TasksOK

\* Runtime::notify: the notice is queued, and its poster will wake the parent.
LEMMA PostNoticeKeeps ==
  ASSUME AgentsInv, NEW n \in Spawned, PostNotice(n)
  PROVE  AgentsInv'
<1> DEFINE q == ParentOf(n)
<1>1. PICK p : p = q
  OBVIOUS
<1> DEFINE e == Notice(n, p)
           b == Tidy(Pushed(box[p], e))
<1>2. /\ phase[n] = "posting" /\ phase' = [phase EXCEPT ![n] = "waking"]
      /\ box' = [box EXCEPT ![p] = b]
      /\ UNCHANGED <<path, noted, call, targets, tasks, stopped, outcome, messages, changed>>
  BY <1>1 DEF PostNotice, Into, Go, treeVars, callVars
<1>3. changed' \subseteq AgentId
  BY <1>2, OwnFacts
<1>4. /\ TreeOK' /\ PhasesOK' /\ CallsOK' /\ FlagsOK'
      /\ \A m : ChildrenOf(m)' = ChildrenOf(m)
      /\ n \in AgentId /\ n # Root /\ phase'[n] = "waking"
      /\ \A m \in AgentId \ {n} : phase'[m] = phase[m]
      /\ \A m \in AgentId : /\ phase'[m] \in Ended <=> phase[m] \in Ended
                            /\ phase'[m] \in Sleeping => m # n
                            /\ phase'[m] \in Ending <=> phase[m] \in Ending
  BY <1>2, <1>3, ReportStep
<1>5. p \in Spawned /\ n \in ChildrenOf(p) /\ p \in AgentId
  BY <1>1, <1>4, ParentKnown DEF AgentsInv, Spawned
<1>6. Sound(box[p], outcome)
  BY <1>5, OwnFacts
<1>7. e \in Envelope /\ e.kind = "notice" /\ e.from = n
  BY <1>4, <1>5 DEF Notice, Envelope
<1>8. n \in outcome
  BY <1>2, <1>4 DEF AgentsInv, PhasesOK, Ended
<1> HIDE DEF e, q
<1>9. Sound(b, outcome) /\ b.closed = box[p].closed /\ b.reserved = box[p].reserved
  BY <1>6, <1>7, <1>8, PushedSound
<1> HIDE DEF b
<1>10. box \in [AgentId -> Box] /\ b \in Box
  BY <1>9 DEF AgentsInv, BoxesOK, Sound
<1>11. /\ box' \in [AgentId -> Box] /\ box'[p] = b
       /\ \A m \in AgentId \ {p} : box'[m] = box[m]
  BY <1>2, <1>5, <1>10
<1>12. BoxesOK'
  <2>1. ASSUME NEW m \in AgentId
        PROVE  Sound(box'[m], outcome') /\ (box'[m].closed <=> phase'[m] \in Ending)
    <3>1. Sound(box[m], outcome) /\ (box[m].closed <=> phase[m] \in Ending)
      BY DEF AgentsInv, BoxesOK
    <3>2. CASE m = p
      BY <1>2, <1>4, <1>9, <1>11, <3>1, <3>2
    <3>3. CASE m # p
      BY <1>2, <1>4, <1>11, <3>1, <3>3
    <3>4. QED
      BY <3>2, <3>3
  <2>2. QED
    BY <1>11, <2>1 DEF BoxesOK
<1>13. TasksOK'
  <2>1. \A m \in AgentId : box'[m].reserved = box[m].reserved
    BY <1>9, <1>11
  <2>2. QED
    BY <1>2, <1>4, <2>1, ReportTasks
<1>14. ASSUME NEW m \in AgentId PROVE AwakeOK(m)'
  <2>1. CASE m = p
    <3>1. n \in ChildrenOf(m)' /\ phase'[n] \in {"posting", "waking"}
      BY <1>4, <1>5, <2>1
    <3>2. QED
      BY <3>1 DEF AwakeOK, WakeDue
  <2>2. CASE m = n
    BY <1>4, <2>2 DEF AwakeOK
  <2>3. CASE m # p /\ m # n
    <3>1. ASSUME NEW c \in ChildrenOf(m), phase[c] \in {"posting", "waking"}
          PROVE  c \in ChildrenOf(m)' /\ phase'[c] \in {"posting", "waking"}
      BY <1>4, <3>1 DEF ChildrenOf, Spawned
    <3>2. WakeDue(m) => WakeDue(m)'
      BY <1>2, <3>1, DueStays
    <3>3. phase'[m] = phase[m] /\ box'[m] = box[m]
      BY <1>4, <1>11, <2>3
    <3>4. QED
      BY <1>2, <3>2, <3>3, AwakeKept DEF AgentsInv
  <2>4. QED
    BY <2>1, <2>2, <2>3
<1>15. QED
  BY <1>4, <1>12, <1>13, <1>14 DEF AgentsInv

\* The parent, which is the only one waiting for it, is woken.
LEMMA WakeParentKeeps ==
  ASSUME AgentsInv, NEW n \in Spawned, WakeParent(n)
  PROVE  AgentsInv'
<1>1. PICK p : p = ParentOf(n)
  OBVIOUS
<1>2. /\ phase[n] = "waking" /\ phase' = [phase EXCEPT ![n] = "done"]
      /\ changed' = changed \cup (IF phase[p] \in Sleeping THEN {p} ELSE {})
      /\ UNCHANGED <<path, noted, call, targets, box, tasks, stopped, outcome, messages>>
  BY <1>1 DEF WakeParent, Woken, Go, Sleeping, treeVars, callVars
<1>3. n \in Spawned /\ n # Root
  BY <1>2 DEF AgentsInv, PhasesOK
<1>4. /\ p \in Spawned /\ n \in ChildrenOf(p) /\ p \in AgentId
      /\ \A k \in Spawned : n \in ChildrenOf(k) => k = p
  BY <1>1, <1>3, ParentKnown DEF AgentsInv, Spawned
<1>5. changed' \subseteq AgentId
  BY <1>2, <1>4, OwnFacts
<1>6. /\ TreeOK' /\ PhasesOK' /\ CallsOK' /\ FlagsOK'
      /\ \A m : ChildrenOf(m)' = ChildrenOf(m)
      /\ n \in AgentId /\ phase'[n] = "done"
      /\ \A m \in AgentId \ {n} : phase'[m] = phase[m]
      /\ \A m \in AgentId : /\ phase'[m] \in Ended <=> phase[m] \in Ended
                            /\ phase'[m] \in Sleeping => m # n
                            /\ phase'[m] \in Ending <=> phase[m] \in Ending
  BY <1>2, <1>5, ReportStep
<1>7. BoxesOK'
  BY <1>2, <1>6 DEF AgentsInv, BoxesOK
<1>8. TasksOK'
  BY <1>2, <1>6, ReportTasks
<1>9. ASSUME NEW m \in AgentId PROVE AwakeOK(m)'
  <2>1. CASE phase'[m] \notin Sleeping
    BY <2>1 DEF AwakeOK
  <2>2. CASE phase'[m] \in Sleeping /\ m = p
    <3>1. m # n /\ phase[p] \in Sleeping
      BY <1>6, <2>2
    <3>2. m \in changed'
      BY <1>2, <2>2, <3>1
    <3>3. QED
      BY <3>2 DEF AwakeOK, WakeDue
  <2>3. CASE phase'[m] \in Sleeping /\ m # p
    <3>1. m # n /\ phase'[m] = phase[m]
      BY <1>6, <2>3
    <3>2. m \in Spawned
      BY <2>3, <3>1, SpawnedAre DEF AgentsInv, Sleeping
    <3>3. n \notin ChildrenOf(m)
      BY <1>4, <2>3, <3>2
    <3>4. ASSUME NEW c \in ChildrenOf(m), phase[c] \in {"posting", "waking"}
          PROVE  c \in ChildrenOf(m)' /\ phase'[c] \in {"posting", "waking"}
      BY <1>6, <3>3, <3>4 DEF ChildrenOf, Spawned
    <3>5. WakeDue(m) => WakeDue(m)'
      BY <1>2, <3>4, DueStays
    <3>6. QED
      BY <1>2, <3>1, <3>5, AwakeKept DEF AgentsInv
  <2>4. QED
    BY <2>1, <2>2, <2>3
<1>10. QED
  BY <1>6, <1>7, <1>8, <1>9 DEF AgentsInv

-----------------------------------------------------------------------------
(* The invariant of every behaviour, and what it says.                     *)

\* The invariant holds of the root alone,
LEMMA AgentsInvInit ==
  ASSUME AgentsInit
  PROVE  AgentsInv
<1>1. Root \in AgentId /\ AgentId \subseteq Nat
  BY AgentNumbers
<1>2. /\ path \in [AgentId -> SUBSET AgentId] /\ path[Root] = {Root}
      /\ \A n \in AgentId \ {Root} : path[n] = {}
  BY <1>1 DEF AgentsInit
<1>3. Spawned = {Root}
  BY <1>1, <1>2 DEF Spawned
<1>4. \A m \in AgentId : m < Root => m \in Spawned
  BY <1>1 DEF Root
<1>5. TreeOK
  <2>1. Root <= Root
    BY <1>1
  <2>2. QED
    BY <1>2, <1>3, <1>4, <2>1 DEF TreeOK
<1>6. /\ phase \in [AgentId -> Phase] /\ phase[Root] = "running"
      /\ \A n \in AgentId \ {Root} : phase[n] = "absent"
  BY <1>1 DEF AgentsInit, Phase
<1>7. \A n \in AgentId : phase[n] \notin Ended \cup Ending \cup Sleeping
  BY <1>6 DEF Ended, Ending, Sleeping
<1>8. PhasesOK
  <2>1. outcome = {n \in AgentId : phase[n] \in Ended}
    BY <1>7 DEF AgentsInit
  <2>2. QED
    BY <1>3, <1>6, <1>7, <2>1 DEF PhasesOK
<1>9. CallsOK
  BY <1>7 DEF AgentsInit, CallsOK, Calls
<1>10. FlagsOK
  BY DEF AgentsInit, FlagsOK
<1>11. EmptyMailbox \in Box /\ EmptyMailbox.closed = FALSE /\ EmptyMailbox.reserved = 0
       /\ EmptyMailbox.queue = {} /\ EmptyMailbox.plain = 0
  BY DEF EmptyMailbox, Box
<1>12. Sound(EmptyMailbox, outcome)
  BY <1>11, FS_EmptySet DEF Sound, Counted, Plain
<1>13. box \in [AgentId -> Box] /\ \A n \in AgentId : box[n] = EmptyMailbox
  BY <1>11 DEF AgentsInit
<1>14. BoxesOK
  BY <1>7, <1>11, <1>12, <1>13 DEF BoxesOK
<1>15. TasksOK
  <2>1. \A n : Due(n) = {}
    BY DEF Due, AgentsInit
  <2>2. messages \in 0 .. MaxMessages
    BY AgentsAssumption DEF AgentsInit
  <2>3. tasks = {}
    BY DEF AgentsInit
  <2>4. QED
    BY <1>11, <1>13, <2>1, <2>2, <2>3, FS_EmptySet DEF TasksOK
<1>16. \A n \in AgentId : AwakeOK(n)
  BY <1>7 DEF AwakeOK
<1>17. QED
  BY <1>5, <1>8, <1>9, <1>10, <1>14, <1>15, <1>16 DEF AgentsInv

\* and every step of every agent keeps it.
LEMMA AgentsInvNext ==
  ASSUME AgentsInv, [AgentsNext]_agentsVars
  PROVE  AgentsInv'
<1>1. ASSUME NEW n \in Spawned, NEW c \in AgentId, NEW nodeOwned \in BOOLEAN,
             Spawn(n, c, nodeOwned)
      PROVE  AgentsInv'
  BY <1>1, SpawnKeeps
<1>2. ASSUME NEW n \in Spawned, NEW m \in Spawned, Send(n, m) PROVE AgentsInv'
  BY <1>2, SendKeeps
<1>3. ASSUME NEW n \in Spawned, NEW m \in Spawned, CancelAgent(n, m) PROVE AgentsInv'
  BY <1>3, BeginsKeep
<1>4. ASSUME NEW n \in Spawned, BeginIdle(n) \/ BeginReceive(n) \/ BeginWait(n)
      PROVE  AgentsInv'
  BY <1>4, BeginsKeep
<1>5. ASSUME NEW n \in Spawned,
             \/ CheckIdle(n) \/ CheckReceive(n) \/ CheckWatch(n)
             \/ StageNotices(n) \/ CheckFinished(n)
      PROVE  AgentsInv'
  BY <1>5, LooksKeep, StagingKeeps, FinishedLookKeeps
<1>6. ASSUME NEW n \in Spawned,
             Settle(n) \/ Resume(n) \/ Interrupt(n) \/ TimeOut(n) \/ TakeWaited(n)
      PROVE  AgentsInv'
  BY <1>6, SleepsKeep
<1>7. ASSUME NEW n \in Spawned, EndLoop(n) \/ CloseWork(n) \/ Stop(n) PROVE AgentsInv'
  BY <1>7, ShutdownKeeps
<1>8. ASSUME NEW n \in Spawned, Publish(n) \/ PostNotice(n) \/ WakeParent(n)
      PROVE  AgentsInv'
  BY <1>8, PublishKeeps, PostNoticeKeeps, WakeParentKeeps
<1>9. ASSUME NEW n \in Spawned, TaskStep(n) PROVE AgentsInv'
  BY <1>9, QueueKeeps, WakeKeeps DEF TaskStep
<1>10. ASSUME NEW n \in Spawned, Machinery(n) PROVE AgentsInv'
  BY <1>5, <1>6, <1>7, <1>8, <1>10 DEF Machinery
<1>11. CASE AgentsNext
  BY <1>1, <1>2, <1>3, <1>4, <1>6, <1>7, <1>9, <1>10, <1>11 DEF AgentsNext
<1>12. CASE UNCHANGED agentsVars
  <2>1. UNCHANGED <<path, noted, phase, call, targets, box, changed, tasks, stopped, outcome,
                    messages>>
    BY <1>12 DEF agentsVars, treeVars, callVars
  <2>2. /\ TreeOK' /\ PhasesOK' /\ CallsOK' /\ FlagsOK'
        /\ \A m : ChildrenOf(m)' = ChildrenOf(m)
    BY <2>1, StillOK DEF AgentsInv, FlagsOK
  <2>3. BoxesOK' /\ TasksOK'
    BY <2>1 DEF AgentsInv, BoxesOK, TasksOK, Due
  <2>4. ASSUME NEW m \in AgentId PROVE AwakeOK(m)'
    <3>1. WakeDue(m) => WakeDue(m)'
      BY <2>1, <2>2, DueStays
    <3>2. QED
      BY <2>1, <3>1, AwakeKept DEF AgentsInv
  <2>5. QED
    BY <2>2, <2>3, <2>4 DEF AgentsInv
<1>13. QED
  BY <1>11, <1>12

\* The tree, the phases, the calls, the mailboxes and the owned work fit each other in
\* every state of every run: Agents' inductive invariant.
THEOREM AgentsInvariant == AgentsSpec => []AgentsInv
<1>1. AgentsInit => AgentsInv
  BY AgentsInvInit
<1>2. AgentsInv /\ [AgentsNext]_agentsVars => AgentsInv'
  BY AgentsInvNext
<1>3. QED
  BY <1>1, <1>2, PTL DEF AgentsSpec

\* The variables keep their types, and every mailbox counts what it holds and what is
\* still on its way (Mailbox's plain and reserved).
THEOREM AgentsTypes == AgentsSpec => []AgentsTypeOK
<1>1. AgentsInv => AgentsTypeOK
  <2> SUFFICES ASSUME AgentsInv PROVE AgentsTypeOK
    OBVIOUS
  <2>1. path \in [AgentId -> SUBSET AgentId] /\ noted \subseteq AgentId
    BY DEF AgentsInv, TreeOK, FlagsOK
  <2>2. phase \in [AgentId -> Phase] /\ outcome \subseteq AgentId
    BY DEF AgentsInv, PhasesOK
  <2>3. call \in [AgentId -> Calls] /\ targets \in [AgentId -> SUBSET AgentId]
    BY DEF AgentsInv, CallsOK
  <2>4. tasks \subseteq Task /\ messages \in 0 .. MaxMessages
    BY DEF AgentsInv, TasksOK
  <2>5. stopped \subseteq AgentId /\ changed \subseteq AgentId
    BY DEF AgentsInv, FlagsOK
  <2>6. ASSUME NEW n \in AgentId
        PROVE  /\ box[n].plain = Cardinality(Plain(box[n].queue))
               /\ box[n].reserved = Cardinality({t \in tasks : t.envelope.to = n
                                       /\ t.step = "queue" /\ t.envelope.kind = "message"})
    <3>1. Sound(box[n], outcome)
      BY DEF AgentsInv, BoxesOK
    <3>2. box[n].plain = Cardinality(Plain(box[n].queue))
      BY <3>1 DEF Sound, Counted
    <3>3. box[n].reserved = Cardinality(Due(n))
      BY DEF AgentsInv, TasksOK
    <3>4. QED
      BY <3>2, <3>3 DEF Due
  <2>7. QED
    BY <2>1, <2>2, <2>3, <2>4, <2>5, <2>6 DEF AgentsTypeOK
<1>2. QED
  BY <1>1, AgentsInvariant, PTL

\* However agents spawn, send, wait and cancel, an outcome is the last thing: nothing
\* below it runs, nothing it started is on its way, its mailbox is closed and empty, and
\* no notice came before it (join_descendants, run_node).
THEOREM OutcomesAreLast == AgentsSpec => []PublishedLast
<1>1. AgentsInv => PublishedLast
  <2> SUFFICES ASSUME AgentsInv PROVE PublishedLast
    OBVIOUS
  <2>1. \A n \in outcome : n \in AgentId /\ phase[n] \in Ended
    BY DEF AgentsInv, PhasesOK
  <2>2. ASSUME NEW n \in outcome
        PROVE  /\ \A m \in Below(n) : phase[m] = "done"
               /\ \A t \in tasks : t.owner # n
               /\ box[n].closed /\ box[n].queue = {}
    <3>1. \A m \in Below(n) : phase[m] = "done"
      BY <2>1 DEF AgentsInv, PhasesOK
    <3>2. \A t \in tasks : t.owner # n
      BY <2>1 DEF AgentsInv, TasksOK
    <3>3. phase[n] \in Ending
      BY <2>1 DEF Ending
    <3>4. box[n].closed /\ Sound(box[n], outcome)
      BY <2>1, <3>3 DEF AgentsInv, BoxesOK
    <3>5. box[n].queue = {}
      BY <3>4 DEF Sound, Counted
    <3>6. QED
      BY <3>1, <3>2, <3>4, <3>5
  <2>3. \A n \in AgentId : \A e \in box[n].queue : e.kind = "notice" => e.from \in outcome
    BY DEF AgentsInv, BoxesOK, Sound, Counted
  <2>4. QED
    BY <2>2, <2>3 DEF PublishedLast
<1>2. QED
  BY <1>1, AgentsInvariant, PTL

\* Whatever happens between an agent's look and its sleep, it sleeps on only while its
\* call has nothing to return or somebody is about to wake it (idle, receive, wait_via).
THEOREM NoWakeupIsLost == AgentsSpec => []NoLostWakeup
<1>1. AgentsInv => NoLostWakeup
  <2> SUFFICES ASSUME AgentsInv, NEW n \in AgentId, phase[n] = "asleep", ~WakeDue(n)
               PROVE  CASE call[n] = "idle" -> box[n].queue = {} /\ ~IdleDone(box[n])
                        [] call[n] = "receive" -> box[n].queue = {} /\ ~box[n].closed
                        [] call[n] = "wait" -> /\ Unreported(n) = {}
                                               /\ \E c \in targets[n] : ~Finished(n, c)
    BY DEF NoLostWakeup
  <2>1. phase[n] \in Sleeping
    BY DEF Sleeping
  <2>2. NothingToReturn(n)
    BY <2>1 DEF AgentsInv, AwakeOK
  <2>3. call[n] \in {"idle", "receive", "wait"}
    BY <2>1 DEF AgentsInv, CallsOK
  <2>4. QED
    BY <2>2, <2>3 DEF NothingToReturn
<1>2. QED
  BY <1>1, AgentsInvariant, PTL

-----------------------------------------------------------------------------
(* What is promised arrives.                                               *)

\* The notice of c that n's own wait staged, on its way into n's mailbox.
Staging(t, n, c) ==
  /\ t.step = "queue" /\ t.owner = n
  /\ t.envelope.kind = "notice" /\ t.envelope.from = c /\ t.envelope.to = n

\* A notice that an open mailbox expects will be posted by the child, is being posted,
\* or is on its way.
Promised(n, c) ==
  /\ n \in Spawned /\ c \in ChildrenOf(n)
  /\ c \notin outcome => c \in noted
  /\ c \in outcome => phase[c] = "posting" \/ \E t \in tasks : Staging(t, n, c)

PromisesOK == \A n \in AgentId : ~box[n].closed => \A c \in box[n].awaiting : Promised(n, c)

\* Whoever is in a call is in one of its phases.
Calling == {"checking", "taking"} \cup Sleeping
InCallsOK == \A n \in AgentId : phase[n] \in Calling <=> call[n] # "none"

PromiseInv == PromisesOK /\ InCallsOK

\* Promises stay promises while nobody finishes and no notice is queued.
LEMMA PromisesStay ==
  ASSUME PromisesOK, UNCHANGED outcome, noted \subseteq noted', Spawned \subseteq Spawned',
         \A m \in AgentId : ChildrenOf(m) \subseteq ChildrenOf(m)',
         \A m \in Spawned : phase[m] = "posting" => phase'[m] = "posting",
         \A t \in tasks : t.step = "queue" /\ t.envelope.kind = "notice" => t \in tasks',
         \A m \in AgentId : ~box'[m].closed =>
            ~box[m].closed /\ box'[m].awaiting \subseteq box[m].awaiting
  PROVE  PromisesOK'
<1>1. ASSUME NEW n \in AgentId, ~box'[n].closed, NEW c \in box'[n].awaiting
      PROVE  Promised(n, c)'
  <2>1. Promised(n, c) /\ c \in Spawned
    BY <1>1 DEF PromisesOK, Promised, ChildrenOf
  <2>2. ASSUME NEW t \in tasks, Staging(t, n, c) PROVE t \in tasks' /\ Staging(t, n, c)'
    BY <2>2 DEF Staging
  <2>3. QED
    BY <1>1, <2>1, <2>2 DEF Promised
<1>2. QED
  BY <1>1 DEF PromisesOK

\* An open mailbox after the step was open before and expects no more.
ExpectsNoMore(n) ==
  ~box'[n].closed => ~box[n].closed /\ box'[n].awaiting \subseteq box[n].awaiting

\* Places reserved, deliveries and the end of a loop promise nothing.
LEMMA NoMoreExpected ==
  ASSUME AgentsInv, NEW n \in AgentId,
         \/ Into(n, box[n]) \/ Into(n, Reserved(box[n])) \/ Into(n, Closed(box[n]))
         \/ \E taken \in SUBSET box[n].queue : Into(n, NewTurn(AfterTake(box[n], taken)))
         \/ UNCHANGED box
  PROVE  \A m \in AgentId : ExpectsNoMore(m)
<1>1. box \in [AgentId -> Box] /\ Sound(box[n], outcome) /\ box[n] \in Loose
  BY SoundIsLoose DEF AgentsInv, BoxesOK
<1>2. ASSUME NEW b, Into(n, b), Tidy(b).closed \/ Tidy(b).closed = box[n].closed,
             ~box[n].closed => Tidy(b).closed \/ Tidy(b).awaiting = box[n].awaiting
      PROVE  \A m \in AgentId : ExpectsNoMore(m)
  <2>1. box'[n] = Tidy(b) /\ \A m \in AgentId \ {n} : box'[m] = box[m]
    BY <1>1, <1>2 DEF Into
  <2>2. QED
    BY <1>2, <2>1 DEF ExpectsNoMore
<1>3. CASE Into(n, box[n])
  BY <1>1, <1>2, <1>3, NotedSound
<1>4. CASE Into(n, Reserved(box[n]))
  <2> DEFINE d == Reserved(box[n])
  <2>1. /\ d \in Loose /\ d.queue = box[n].queue /\ d.plain = box[n].plain
        /\ d.arrivals = box[n].arrivals /\ d.closed = box[n].closed
        /\ d.awaiting = box[n].awaiting
    BY <1>1 DEF Loose, Reserved
  <2> HIDE DEF d
  <2>2. Tidy(d).closed = box[n].closed /\ (~box[n].closed => Tidy(d).awaiting = box[n].awaiting)
    BY <1>1, <2>1, NotedSound
  <2>3. QED
    BY <1>2, <1>4, <2>2 DEF d
<1>5. CASE Into(n, Closed(box[n]))
  BY <1>1, <1>2, <1>5, ClosedSound
<1>6. CASE \E taken \in SUBSET box[n].queue : Into(n, NewTurn(AfterTake(box[n], taken)))
  <2>1. PICK taken \in SUBSET box[n].queue : Into(n, NewTurn(AfterTake(box[n], taken)))
    BY <1>6
  <2> DEFINE d == NewTurn(AfterTake(box[n], taken))
  <2>2. Tidy(d).closed = box[n].closed /\ (~box[n].closed => Tidy(d).awaiting = box[n].awaiting)
    BY <1>1, TakenSound
  <2> HIDE DEF d
  <2>3. QED
    BY <1>2, <2>1, <2>2 DEF d
<1>7. CASE UNCHANGED box
  BY <1>7 DEF ExpectsNoMore
<1>8. QED
  BY <1>3, <1>4, <1>5, <1>6, <1>7

\* A step of one agent that promises nothing and posts nothing, and leaves it in a call
\* exactly if its phase says so.
LEMMA PlainStep ==
  ASSUME AgentsInv, PromiseInv, NEW n \in Spawned, UNCHANGED <<path, noted, outcome>>,
         \A m \in AgentId \ {n} : phase'[m] = phase[m] /\ call'[m] = call[m],
         phase[n] # "posting",
         phase'[n] \in Calling <=> call'[n] # "none",
         \A t \in tasks : t.step = "queue" /\ t.envelope.kind = "notice" => t \in tasks',
         \A m \in AgentId : ExpectsNoMore(m)
  PROVE  PromiseInv'
<1>1. PromisesOK'
  <2>1. Spawned' = Spawned /\ \A m \in AgentId : ChildrenOf(m)' = ChildrenOf(m)
    BY SameTree
  <2>2. \A m \in Spawned : phase[m] = "posting" => phase'[m] = "posting"
    BY DEF Spawned
  <2>3. QED
    BY <2>1, <2>2, PromisesStay DEF PromiseInv, ExpectsNoMore
<1>2. InCallsOK'
  BY DEF PromiseInv, InCallsOK
<1>3. QED
  BY <1>1, <1>2 DEF PromiseInv

\* An agent whose phase and call are as they were.
LEMMA SameCall ==
  ASSUME AgentsInv, PromiseInv, NEW n \in Spawned, UNCHANGED <<phase, call>>
  PROVE  phase'[n] \in Calling <=> call'[n] # "none"
BY OwnFacts DEF PromiseInv, InCallsOK

\* Calls that begin, look, sleep, wake up and return, and agents that are told to end.
LEMMA CallsPromise ==
  ASSUME AgentsInv, PromiseInv, NEW n \in Spawned, NEW m \in Spawned,
         \/ BeginIdle(n) \/ BeginReceive(n) \/ BeginWait(n) \/ CancelAgent(n, m)
         \/ CheckIdle(n) \/ CheckReceive(n) \/ CheckWatch(n)
         \/ (StageNotices(n) /\ Stopped(n)) \/ CheckFinished(n)
         \/ Settle(n) \/ Resume(n) \/ Interrupt(n) \/ TimeOut(n) \/ TakeWaited(n)
         \/ EndLoop(n) \/ CloseWork(n)
  PROVE  PromiseInv'
<1>1. /\ n \in AgentId /\ phase \in [AgentId -> Phase] /\ call \in [AgentId -> Calls]
      /\ phase[n] \in Calling <=> call[n] # "none"
  BY OwnFacts DEF PromiseInv, InCallsOK
<1>2. /\ UNCHANGED <<path, noted, outcome, tasks>> /\ phase[n] # "posting"
      /\ \A k \in AgentId : ExpectsNoMore(k)
  <2>1. UNCHANGED <<path, noted, outcome, tasks>> /\ phase[n] # "posting"
    BY DEF BeginIdle, BeginReceive, BeginWait, CancelAgent, Begin, CheckIdle, CheckReceive,
       CheckWatch, StageNotices, CheckFinished, Settle, Resume, Interrupt, TimeOut, TakeWaited, EndLoop, CloseWork,
       treeVars
  <2>2. \/ Into(n, box[n]) \/ Into(n, Closed(box[n]))
        \/ \E taken \in SUBSET box[n].queue : Into(n, NewTurn(AfterTake(box[n], taken)))
        \/ UNCHANGED box
    <3>1. CASE CheckIdle(n) \/ CheckReceive(n)
      <4> DEFINE taken == Taken(box[n], box[n].queue)
      <4>1. taken \in SUBSET box[n].queue
        BY DEF Taken
      <4>2. \/ Into(n, box[n]) \/ Into(n, Closed(box[n]))
            \/ Into(n, NewTurn(AfterTake(box[n], taken))) \/ UNCHANGED box
        BY <3>1 DEF CheckIdle, CheckReceive
      <4> HIDE DEF taken
      <4>3. QED
        BY <4>1, <4>2
    <3>2. CASE TakeWaited(n)
      <4> DEFINE from == {c \in targets[n] : Finished(n, c)}
                 taken == Taken(box[n], {e \in box[n].queue : e.from \in from})
      <4>1. taken \in SUBSET box[n].queue
        BY DEF Taken
      <4>2. Into(n, box[n]) \/ Into(n, NewTurn(AfterTake(box[n], taken)))
        BY <3>2 DEF TakeWaited
      <4> HIDE DEF taken
      <4>3. QED
        BY <4>1, <4>2
    <3>3. CASE \/ BeginIdle(n) \/ BeginReceive(n) \/ BeginWait(n) \/ CancelAgent(n, m)
               \/ CheckWatch(n) \/ (StageNotices(n) /\ Stopped(n)) \/ CheckFinished(n)
               \/ Settle(n) \/ Resume(n) \/ Interrupt(n) \/ TimeOut(n)
               \/ EndLoop(n) \/ CloseWork(n)
      BY <3>3 DEF BeginIdle, BeginReceive, BeginWait, CancelAgent, Begin, CheckWatch, StageNotices,
         CheckFinished, Settle, Resume, Interrupt, TimeOut, EndLoop, CloseWork
    <3>4. QED
      BY <3>1, <3>2, <3>3, Zenon
  <2>3. QED
    BY <1>1, <2>1, <2>2, NoMoreExpected
<1> DEFINE CallKept ==
             /\ phase'[n] \in Calling <=> call'[n] # "none"
             /\ \A k \in AgentId \ {n} : phase'[k] = phase[k] /\ call'[k] = call[k]
<1>3. CallKept
  <2>1. ASSUME NEW what \in {"idle", "receive", "wait", "watch"}, NEW whom, Begin(n, what, whom)
        PROVE  CallKept
    BY <1>1, <2>1 DEF Begin, Go, Calling
  <2>2. ASSUME NEW w \in {"running", "draining"}, Leave(n, w) PROVE CallKept
    BY <1>1, <2>2 DEF Leave, Go, Calling, Sleeping
  <2>3. ASSUME NEW w \in Calling, phase[n] \in Calling, Go(n, w), UNCHANGED callVars PROVE CallKept
    BY <1>1, <2>3 DEF Go, callVars
  <2>4. ASSUME NEW w \in {"draining", "joining"}, phase[n] \notin Calling, Go(n, w),
               UNCHANGED callVars
        PROVE  CallKept
    BY <1>1, <2>4 DEF Go, callVars, Calling, Sleeping
  <2>5. CASE BeginIdle(n) \/ BeginReceive(n) \/ BeginWait(n) \/ CancelAgent(n, m)
    BY <2>1, <2>5 DEF BeginIdle, BeginReceive, BeginWait, CancelAgent
  <2>6. CASE \/ CheckIdle(n) \/ CheckReceive(n) \/ CheckWatch(n)
             \/ (StageNotices(n) /\ Stopped(n)) \/ Interrupt(n) \/ TakeWaited(n)
    <3>1. \/ Return(n) \/ Leave(n, "draining")
          \/ phase[n] = "checking" /\ Go(n, "settling") /\ UNCHANGED callVars
      BY <2>6 DEF CheckIdle, CheckReceive, CheckWatch, StageNotices, Interrupt, TakeWaited
    <3>2. QED
      BY <2>2, <2>3, <3>1 DEF Return, Calling, Sleeping
  <2>7. CASE Settle(n) \/ Resume(n) \/ TimeOut(n) \/ CheckFinished(n)
    <3>1. \/ Return(n)
          \/ /\ phase[n] \in Calling /\ UNCHANGED callVars
             /\ \E w \in Calling : Go(n, w)
      BY <2>7 DEF Settle, Resume, TimeOut, CheckFinished, Calling, Sleeping
    <3>2. QED
      BY <2>2, <2>3, <3>1 DEF Return
  <2>8. CASE EndLoop(n) \/ CloseWork(n)
    BY <2>4, <2>8 DEF EndLoop, CloseWork, Calling, Sleeping
  <2>9. QED
    BY <2>5, <2>6, <2>7, <2>8
<1>4. QED
  BY <1>2, <1>3, PlainStep

\* A wait that goes on stages a notice for each target that posted none.
LEMMA StagingPromises ==
  ASSUME AgentsInv, PromiseInv, NEW n \in Spawned, StageNotices(n), ~Stopped(n)
  PROVE  PromiseInv'
<1> DEFINE staged == [box[n] EXCEPT !.concluded = @ \cup Unreported(n),
                                    !.awaiting = @ \cup Unreported(n)]
           N == {Work(n, Notice(c, n)) : c \in Unreported(n)}
<1>1. /\ phase[n] = "checking" /\ call[n] = "wait"
      /\ Into(n, staged) /\ tasks' = tasks \cup N
      /\ Go(n, "staged")
      /\ UNCHANGED <<path, noted, outcome, call>>
  BY DEF StageNotices, treeVars, callVars
<1>2. /\ n \in AgentId /\ box \in [AgentId -> Box] /\ Sound(box[n], outcome)
      /\ phase \in [AgentId -> Phase] /\ targets[n] \subseteq ChildrenOf(n)
      /\ Unreported(n) \subseteq outcome \cap targets[n] /\ targets[n] \subseteq AgentId
  BY <1>1, OwnFacts DEF Unreported
<1>3. Spawned' = Spawned /\ \A m : ChildrenOf(m)' = ChildrenOf(m)
  BY <1>1, SameTree
<1>4. /\ \A m \in AgentId \ {n} : phase'[m] = phase[m]
      /\ phase'[n] = "staged"
  BY <1>1, <1>2 DEF Go
<1>5. /\ \A m \in AgentId \ {n} : box'[m] = box[m]
      /\ ~box'[n].closed =>
           ~box[n].closed /\ box'[n].awaiting = box[n].awaiting \cup Unreported(n)
  <2>1. /\ staged \in Loose /\ staged.queue = box[n].queue /\ staged.plain = box[n].plain
        /\ staged.arrivals = box[n].arrivals /\ staged.closed = box[n].closed
        /\ staged.awaiting = box[n].awaiting \cup Unreported(n)
    <3>1. Unreported(n) \subseteq AgentId /\ box[n] \in Box
      BY <1>2
    <3>2. QED
      BY <3>1 DEF Box, Loose
  <2> HIDE DEF staged
  <2>2. /\ Tidy(staged).closed = box[n].closed
        /\ ~box[n].closed => Tidy(staged).awaiting = staged.awaiting
    BY <1>2, <2>1, NotedSound
  <2>3. box'[n] = Tidy(staged) /\ \A m \in AgentId \ {n} : box'[m] = box[m]
    BY <1>1, <1>2 DEF Into
  <2>4. QED
    BY <2>1, <2>2, <2>3
<1>6. ASSUME NEW m \in AgentId, ~box'[m].closed, NEW c \in box'[m].awaiting
      PROVE  Promised(m, c)'
  <2>1. CASE m = n /\ c \in Unreported(n)
    <3>1. Staging(Work(n, Notice(c, n)), n, c) /\ Work(n, Notice(c, n)) \in tasks'
      BY <1>1, <2>1 DEF Staging, Work, Notice
    <3>2. QED
      BY <1>1, <1>2, <1>3, <2>1, <3>1 DEF Promised, Staging
  <2>2. CASE ~(m = n /\ c \in Unreported(n))
    <3>1. ~box[m].closed /\ c \in box[m].awaiting
      BY <1>5, <1>6, <2>2
    <3>2. Promised(m, c) /\ c \in AgentId
      BY <3>1 DEF PromiseInv, PromisesOK, Promised, ChildrenOf, Spawned
    <3>3. phase[c] = "posting" => phase'[c] = "posting"
      BY <1>1, <1>4, <3>2
    <3>4. \A t \in tasks : Staging(t, m, c) => t \in tasks' /\ Staging(t, m, c)'
      BY <1>1 DEF Staging
    <3>5. QED
      BY <1>1, <1>3, <3>2, <3>3, <3>4 DEF Promised
  <2>3. QED
    BY <2>1, <2>2
<1>7. InCallsOK'
  BY <1>1, <1>4 DEF PromiseInv, InCallsOK, Calling, Sleeping
<1>8. QED
  BY <1>6, <1>7 DEF PromiseInv, PromisesOK

\* NodeCtx::spawn_agent: the notice of a node-owned child is expected from the start.
LEMMA SpawnPromises ==
  ASSUME AgentsInv, PromiseInv, NEW n \in Spawned, NEW c \in AgentId, NEW nodeOwned \in BOOLEAN,
         Spawn(n, c, nodeOwned)
  PROVE  PromiseInv'
<1>1. /\ path[c] = {} /\ \A m \in AgentId : m < c => path[m] # {}
      /\ path' = [path EXCEPT ![c] = path[n] \cup {c}]
      /\ phase' = [phase EXCEPT ![c] = "running"]
      /\ UNCHANGED <<call, tasks, outcome>>
  BY DEF Spawn, Go, callVars
<1>2. \/ noted' = noted \cup {c} /\ Into(n, Expecting(box[n], c))
      \/ UNCHANGED <<noted, box>>
  BY DEF Spawn
<1>3. /\ Spawned' = Spawned \cup {c} /\ c \notin Spawned
      /\ \A m \in AgentId \ {c} : ChildrenOf(m) \subseteq ChildrenOf(m)'
  BY <1>1, Grown DEF AgentsInv
<1>4. /\ n \in AgentId /\ n # c /\ phase \in [AgentId -> Phase] /\ call[c] = "none"
      /\ path \in [AgentId -> SUBSET AgentId] /\ n \in path[n]
      /\ phase[c] = "absent" /\ c \notin outcome
  BY <1>3, OwnFacts, SpawnedAre DEF AgentsInv, CallsOK, TreeOK, PhasesOK, Ended
<1>5. /\ phase'[c] = "running" /\ \A m \in AgentId \ {c} : phase'[m] = phase[m]
      /\ path'[c] = path[n] \cup {c} /\ path'[n] = path[n]
  BY <1>1, <1>4
<1>6. c \in ChildrenOf(n)'
  BY <1>3, <1>4, <1>5 DEF ChildrenOf
<1>7. /\ \A m \in AgentId \ {n} : box'[m] = box[m]
      /\ ~box'[n].closed =>
           ~box[n].closed /\ (\/ box'[n].awaiting = box[n].awaiting
                              \/ c \in noted' /\ box'[n].awaiting = box[n].awaiting \cup {c})
      /\ noted \subseteq noted'
  <2> DEFINE d == Expecting(box[n], c)
  <2>1. box \in [AgentId -> Box] /\ Sound(box[n], outcome)
    BY <1>4 DEF AgentsInv, BoxesOK
  <2>2. /\ d \in Loose /\ d.queue = box[n].queue /\ d.plain = box[n].plain
        /\ d.arrivals = box[n].arrivals /\ d.closed = box[n].closed
        /\ d.awaiting = box[n].awaiting \cup {c}
    BY <1>4, <2>1 DEF Box, Loose, Expecting
  <2> HIDE DEF d
  <2>3. /\ Tidy(d).closed = box[n].closed
        /\ ~box[n].closed => Tidy(d).awaiting = d.awaiting
    BY <2>1, <2>2, NotedSound
  <2>4. CASE noted' = noted \cup {c} /\ Into(n, Expecting(box[n], c))
    <3>1. box'[n] = Tidy(d) /\ \A m \in AgentId \ {n} : box'[m] = box[m]
      BY <1>4, <2>1, <2>4 DEF Into, d
    <3>2. QED
      BY <2>2, <2>3, <2>4, <3>1
  <2>5. QED
    BY <1>2, <2>4
<1>8. ASSUME NEW m \in AgentId, ~box'[m].closed, NEW k \in box'[m].awaiting
      PROVE  Promised(m, k)'
  <2>1. CASE m = n /\ k = c /\ c \in noted'
    BY <1>1, <1>3, <1>4, <1>6, <2>1 DEF Promised
  <2>2. CASE ~(m = n /\ k = c /\ c \in noted')
    <3>1. ~box[m].closed /\ k \in box[m].awaiting
      BY <1>7, <1>8, <2>2
    <3>2. Promised(m, k) /\ k \in Spawned /\ k \in ChildrenOf(m)
      BY <3>1 DEF PromiseInv, PromisesOK, Promised, ChildrenOf
    <3>3. m # c /\ k # c /\ k \in AgentId
      BY <1>3, <3>2 DEF Promised, Spawned
    <3>4. k \in ChildrenOf(m)' /\ phase'[k] = phase[k]
      BY <1>3, <1>5, <3>2, <3>3
    <3>5. QED
      BY <1>1, <1>3, <1>7, <3>2, <3>4 DEF Promised, Staging
  <2>3. QED
    BY <2>1, <2>2
<1>9. InCallsOK'
  BY <1>1, <1>4, <1>5 DEF PromiseInv, InCallsOK, Calling, Sleeping
<1>10. QED
  BY <1>8, <1>9 DEF PromiseInv, PromisesOK

\* NodeCtx::send, Runtime::cancel, and a wake-up by owned work or by a child without a
\* notice.
LEMMA OthersPromise ==
  ASSUME AgentsInv, PromiseInv, NEW n \in Spawned,
         \/ \E m \in Spawned : Send(n, m)
         \/ Stop(n) \/ WakeParent(n) \/ \E t \in tasks : Wake(t)
  PROVE  PromiseInv'
<1>1. n \in AgentId /\ phase \in [AgentId -> Phase] /\ (phase[n] \in Calling <=> call[n] # "none")
  BY OwnFacts DEF PromiseInv, InCallsOK
<1>2. /\ UNCHANGED <<path, noted, outcome, call>>
      /\ \A t \in tasks : t.step = "queue" => t \in tasks'
      /\ \A m \in AgentId : ExpectsNoMore(m)
  <2>1. CASE \E m \in Spawned : Send(n, m)
    <3>1. PICK m \in Spawned : Send(n, m)
      BY <2>1
    <3>2. \A k \in AgentId : ExpectsNoMore(k)
      BY <3>1, NoMoreExpected DEF Send, Spawned
    <3>3. QED
      BY <3>1, <3>2 DEF Send, treeVars, callVars
  <2>2. CASE Stop(n) \/ WakeParent(n) \/ \E t \in tasks : Wake(t)
    <3>1. UNCHANGED box
      BY <2>2 DEF Stop, WakeParent, Wake
    <3>2. \A k \in AgentId : ExpectsNoMore(k)
      BY <3>1 DEF ExpectsNoMore
    <3>3. QED
      BY <2>2, <3>2 DEF Stop, WakeParent, Wake, treeVars, callVars
  <2>3. QED
    BY <2>1, <2>2
<1>3. CASE UNCHANGED phase
  <2>1. \A m \in AgentId : ChildrenOf(m)' = ChildrenOf(m)
    BY <1>2, SameTree
  <2>2. Spawned' = Spawned
    BY <1>2, SameTree
  <2>3. PromisesOK'
    BY <1>2, <1>3, <2>1, <2>2, PromisesStay DEF PromiseInv, ExpectsNoMore
  <2>4. InCallsOK'
    BY <1>2, <1>3 DEF PromiseInv, InCallsOK
  <2>5. QED
    BY <2>3, <2>4 DEF PromiseInv
<1>4. CASE WakeParent(n)
  <2>1. /\ phase[n] = "waking" /\ phase'[n] = "done"
        /\ \A m \in AgentId \ {n} : phase'[m] = phase[m]
    BY <1>1, <1>4 DEF WakeParent, Go
  <2>2. phase'[n] \in Calling <=> call'[n] # "none"
    BY <1>1, <1>2, <2>1 DEF Calling, Sleeping
  <2>3. QED
    BY <1>2, <2>1, <2>2, PlainStep
<1>5. QED
  <2>1. UNCHANGED phase \/ WakeParent(n)
    BY DEF Send, Stop, Wake
  <2>2. QED
    BY <1>3, <1>4, <2>1

\* run_node publishes before it notifies: a child whose notice is expected posts it next.
LEMMA PublishPromises ==
  ASSUME AgentsInv, PromiseInv, NEW n \in Spawned, Publish(n)
  PROVE  PromiseInv'
<1>1. /\ phase[n] = "joining" /\ outcome' = outcome \cup {n}
      /\ Go(n, IF n = Root THEN "done" ELSE IF n \in noted THEN "posting" ELSE "waking")
      /\ UNCHANGED <<path, noted, call, box, tasks>>
  BY DEF Publish, treeVars, callVars
<1>2. /\ n \in AgentId /\ phase \in [AgentId -> Phase]
      /\ phase[n] \in Calling <=> call[n] # "none"
  BY OwnFacts DEF PromiseInv, InCallsOK
<1>3. /\ \A m \in AgentId \ {n} : phase'[m] = phase[m]
      /\ phase'[n] \in {"posting", "waking", "done"}
      /\ n # Root /\ n \in noted => phase'[n] = "posting"
  BY <1>1, <1>2 DEF Go
<1>4. Spawned' = Spawned /\ \A m : ChildrenOf(m)' = ChildrenOf(m)
  BY <1>1, SameTree
<1>5. n \notin outcome
  BY <1>1 DEF AgentsInv, PhasesOK, Ended
<1>6. ASSUME NEW m \in AgentId, ~box'[m].closed, NEW c \in box'[m].awaiting
      PROVE  Promised(m, c)'
  <2>1. Promised(m, c) /\ c \in AgentId /\ m \in Spawned /\ c \in Spawned /\ c \in ChildrenOf(m)
    BY <1>1, <1>6 DEF PromiseInv, PromisesOK, Promised, ChildrenOf, Spawned
  <2>2. CASE c = n
    <3>1. c # Root
      BY <2>1, OneParent DEF AgentsInv
    <3>2. c \in noted
      BY <1>5, <2>1, <2>2 DEF Promised
    <3>3. QED
      BY <1>1, <1>3, <1>4, <2>1, <2>2, <3>1, <3>2 DEF Promised
  <2>3. CASE c # n
    BY <1>1, <1>3, <1>4, <2>1, <2>3 DEF Promised, Staging
  <2>4. QED
    BY <2>2, <2>3
<1>7. InCallsOK'
  BY <1>1, <1>2, <1>3 DEF PromiseInv, InCallsOK, Calling, Sleeping
<1>8. QED
  BY <1>6, <1>7 DEF PromiseInv, PromisesOK

\* A notice in the mailbox of p is no longer expected there.
LEMMA NoticeArrives ==
  ASSUME AgentsInv, NEW p \in AgentId, NEW e \in Envelope, Into(p, Pushed(box[p], e)),
         IF e.kind = "message" THEN box[p].reserved > 0 ELSE e.from \in outcome
  PROVE  /\ \A m \in AgentId : ExpectsNoMore(m)
         /\ e.kind = "notice" /\ ~box'[p].closed => e.from \notin box'[p].awaiting
<1> DEFINE d == Pushed(box[p], e)
<1>1. box \in [AgentId -> Box] /\ Sound(box[p], outcome)
  BY DEF AgentsInv, BoxesOK
<1>2. /\ Tidy(d).closed = box[p].closed
      /\ ~box[p].closed => Tidy(d).awaiting = StillAwaiting(box[p], e)
  BY <1>1, PushedSound
<1> HIDE DEF d
<1>3. box'[p] = Tidy(d) /\ \A m \in AgentId \ {p} : box'[m] = box[m]
  BY <1>1 DEF Into, d
<1>4. QED
  BY <1>2, <1>3 DEF ExpectsNoMore, StillAwaiting

\* Runtime::notify keeps the promise.
LEMMA PostPromises ==
  ASSUME AgentsInv, PromiseInv, NEW n \in Spawned, PostNotice(n)
  PROVE  PromiseInv'
<1> DEFINE q == ParentOf(n)
<1>1. PICK p : p = q
  OBVIOUS
<1> DEFINE e == Notice(n, p)
<1>2. /\ phase[n] = "posting" /\ Go(n, "waking") /\ Into(p, Pushed(box[p], e))
      /\ UNCHANGED <<path, noted, call, tasks, outcome>>
  BY <1>1 DEF PostNotice, treeVars, callVars
<1>3. /\ n \in AgentId /\ phase \in [AgentId -> Phase] /\ n # Root /\ n \in outcome
      /\ phase[n] \in Calling <=> call[n] # "none"
  BY <1>2, OwnFacts DEF PromiseInv, InCallsOK, AgentsInv, PhasesOK, Ended
<1>4. /\ p \in Spawned /\ p \in AgentId
      /\ \A k \in Spawned : n \in ChildrenOf(k) => k = p
  BY <1>1, <1>3, ParentKnown DEF AgentsInv, Spawned
<1>5. e \in Envelope /\ e.kind = "notice" /\ e.from = n
  BY <1>3, <1>4 DEF Notice, Envelope
<1> HIDE DEF e
<1>6. /\ \A m \in AgentId : ExpectsNoMore(m)
      /\ ~box'[p].closed => n \notin box'[p].awaiting
  BY <1>2, <1>3, <1>4, <1>5, NoticeArrives
<1>7. Spawned' = Spawned /\ \A m : ChildrenOf(m)' = ChildrenOf(m)
  BY <1>2, SameTree
<1>8. phase'[n] = "waking" /\ \A m \in AgentId \ {n} : phase'[m] = phase[m]
  BY <1>2, <1>3 DEF Go
<1>9. ASSUME NEW m \in AgentId, ~box'[m].closed, NEW c \in box'[m].awaiting
      PROVE  Promised(m, c)'
  <2>1. ~box[m].closed /\ c \in box[m].awaiting
    BY <1>6, <1>9 DEF ExpectsNoMore
  <2>2. Promised(m, c) /\ c \in AgentId /\ m \in Spawned /\ c \in ChildrenOf(m)
    BY <2>1 DEF PromiseInv, PromisesOK, Promised, ChildrenOf, Spawned
  <2>3. c # n
    BY <1>4, <1>6, <1>9, <2>2
  <2>4. QED
    BY <1>2, <1>7, <1>8, <2>2, <2>3 DEF Promised, Staging
<1>10. InCallsOK'
  BY <1>2, <1>3, <1>8 DEF PromiseInv, InCallsOK, Calling, Sleeping
<1>11. QED
  BY <1>9, <1>10 DEF PromiseInv, PromisesOK

\* and so does owned work that queues a staged notice.
LEMMA QueuePromises ==
  ASSUME AgentsInv, PromiseInv, NEW t, Queue(t)
  PROVE  PromiseInv'
<1> DEFINE e == t.envelope
           p == e.to
           u == [t EXCEPT !.step = "wake"]
<1>1. /\ t \in tasks /\ t.step = "queue" /\ Into(p, Pushed(box[p], e))
      /\ tasks' = (tasks \ {t}) \cup {u}
      /\ UNCHANGED <<path, noted, phase, call, outcome>>
  BY DEF Queue, treeVars, callVars
<1>2. e \in Envelope /\ p \in AgentId /\ t \in Task
  BY <1>1 DEF AgentsInv, TasksOK, Task, Envelope
<1>3. IF e.kind = "message" THEN box[p].reserved > 0 ELSE e.from \in outcome
  <2>1. CASE e.kind = "message"
    <3>1. t \in Due(p) /\ IsFiniteSet(Due(p)) /\ box[p].reserved = Cardinality(Due(p))
      BY <1>1, <1>2, <2>1, FS_Subset DEF Due, AgentsInv, TasksOK
    <3>2. Cardinality(Due(p)) # 0 /\ Cardinality(Due(p)) \in Nat
      BY <3>1, FS_EmptySet, FS_CardinalityType
    <3>3. QED
      BY <2>1, <3>1, <3>2
  <2>2. CASE e.kind # "message"
    BY <1>1, <2>2 DEF AgentsInv, TasksOK
  <2>3. QED
    BY <2>1, <2>2
<1>4. /\ \A m \in AgentId : ExpectsNoMore(m)
      /\ e.kind = "notice" /\ ~box'[p].closed => e.from \notin box'[p].awaiting
  <2> HIDE DEF e
  <2>1. QED
    BY <1>1, <1>2, <1>3, NoticeArrives
<1>5. Spawned' = Spawned /\ \A m : ChildrenOf(m)' = ChildrenOf(m)
  BY <1>1, SameTree
<1>6. ASSUME NEW m \in AgentId, ~box'[m].closed, NEW c \in box'[m].awaiting
      PROVE  Promised(m, c)'
  <2>1. Promised(m, c)
    BY <1>4, <1>6 DEF ExpectsNoMore, PromiseInv, PromisesOK
  <2>2. ~Staging(t, m, c)
    BY <1>4, <1>6 DEF Staging
  <2>3. \A v \in tasks : Staging(v, m, c) => v \in tasks' /\ Staging(v, m, c)'
    BY <1>1, <2>2 DEF Staging
  <2>4. QED
    BY <1>1, <1>5, <2>1, <2>3 DEF Promised
<1>7. InCallsOK'
  BY <1>1 DEF PromiseInv, InCallsOK
<1>8. QED
  BY <1>6, <1>7 DEF PromiseInv, PromisesOK

LEMMA PromiseInit ==
  ASSUME AgentsInit
  PROVE  PromiseInv
<1>1. \A n \in AgentId : box[n].awaiting = {} /\ call[n] = "none" /\ phase[n] \notin Calling
  BY DEF AgentsInit, EmptyMailbox, Calling, Sleeping
<1>2. QED
  BY <1>1 DEF PromiseInv, PromisesOK, InCallsOK

LEMMA PromiseNext ==
  ASSUME AgentsInv, PromiseInv, [AgentsNext]_agentsVars
  PROVE  PromiseInv'
<1>1. ASSUME NEW n \in Spawned, NEW c \in AgentId, NEW nodeOwned \in BOOLEAN,
             Spawn(n, c, nodeOwned)
      PROVE  PromiseInv'
  BY <1>1, SpawnPromises
<1>2. ASSUME NEW n \in Spawned, NEW m \in Spawned, Send(n, m) \/ CancelAgent(n, m)
      PROVE  PromiseInv'
  BY <1>2, OthersPromise, CallsPromise
<1>3. ASSUME NEW n \in Spawned,
             \/ BeginIdle(n) \/ BeginReceive(n) \/ BeginWait(n)
             \/ CheckIdle(n) \/ CheckReceive(n) \/ CheckWatch(n)
             \/ StageNotices(n) \/ CheckFinished(n)
             \/ Settle(n) \/ Resume(n) \/ Interrupt(n) \/ TimeOut(n) \/ TakeWaited(n)
             \/ EndLoop(n) \/ CloseWork(n)
      PROVE  PromiseInv'
  BY <1>3, CallsPromise, StagingPromises
<1>4. ASSUME NEW n \in Spawned, Publish(n) \/ PostNotice(n) \/ WakeParent(n) \/ Stop(n)
      PROVE  PromiseInv'
  BY <1>4, PublishPromises, PostPromises, OthersPromise
<1>5. ASSUME NEW n \in Spawned, TaskStep(n) PROVE PromiseInv'
  BY <1>5, QueuePromises, OthersPromise DEF TaskStep
<1>6. ASSUME NEW n \in Spawned, Machinery(n) PROVE PromiseInv'
  BY <1>3, <1>4, <1>6 DEF Machinery
<1>7. CASE AgentsNext
  BY <1>1, <1>2, <1>3, <1>4, <1>5, <1>6, <1>7 DEF AgentsNext
<1>8. CASE UNCHANGED agentsVars
  <2>1. /\ UNCHANGED <<path, noted, outcome, tasks, phase, call, box>>
    BY <1>8 DEF agentsVars, treeVars, callVars
  <2>2. Spawned' = Spawned /\ \A m \in AgentId : ChildrenOf(m)' = ChildrenOf(m)
    BY <2>1, SameTree
  <2>3. PromisesOK' /\ InCallsOK'
    BY <2>1, <2>2, PromisesStay DEF PromiseInv, InCallsOK
  <2>4. QED
    BY <2>3 DEF PromiseInv
<1>9. QED
  BY <1>7, <1>8

\* Every notice that an open mailbox expects is on its way or will be posted: it comes
\* from a child that posts one, whose outcome is published first (expect, stage, notify).
THEOREM PromisesAreKept == AgentsSpec => []PromiseInv
<1>1. AgentsInit => PromiseInv
  BY PromiseInit
<1>2. AgentsInv /\ PromiseInv /\ [AgentsNext]_agentsVars => PromiseInv'
  BY PromiseNext
<1>3. QED
  BY <1>1, <1>2, AgentsInvariant, PTL DEF AgentsSpec

-----------------------------------------------------------------------------
(* Nobody is stuck.                                                        *)

\* Owned work may queue its envelope: the oldest of its owner's messages, and any notice.
CanQueue(t) ==
  \A u \in tasks : t.envelope.kind = "message" /\ u.envelope.kind = "message" /\ u.owner = t.owner
                     => t.envelope.id <= u.envelope.id

\* An agent, or the work it owns, can take a step of its own: the guards of Machinery and
\* TaskStep, as the phases have them.
CanMove(n) ==
  \/ phase[n] \in {"staged", "settling", "taking", "draining", "posting", "waking"}
  \/ phase[n] = "running" /\ Stopped(n)
  \/ phase[n] = "asleep" /\ (Stopped(n) \/ n \in changed)
  \/ /\ phase[n] = "checking"
     /\ call[n] = "watch" => targets[n] \subseteq outcome \/ Stopped(n)
  \/ /\ phase[n] = "joining"
     /\ \A t \in tasks : t.owner # n
     /\ \A c \in ChildrenOf(n) : phase[c] = "done"
  \/ \E t \in tasks : t.owner = n /\ (t.step = "wake" \/ CanQueue(t))

\* A set of numbers has a least one.
LEMMA LeastNumber ==
  ASSUME NEW S \in SUBSET Nat, S # {}
  PROVE  \E x \in S : \A y \in S : x <= y
<1> DEFINE R == OpToRel(<, Nat)
<1>1. IsWellFoundedOn(R, Nat)
  BY NatLessThanWellFounded
<1>2. \A x, y \in Nat : y < x => <<y, x>> \in R
  BY DEF OpToRel
<1> HIDE DEF R
<1>3. PICK x \in S : \A y \in S : ~(<<y, x>> \in R)
  BY <1>1, WFMin
<1>4. ASSUME NEW y \in S PROVE x <= y
  <2>1. x \in Nat /\ y \in Nat
    OBVIOUS
  <2>2. ~(y < x)
    BY <1>2, <1>3, <2>1
  <2>3. QED
    BY <2>1, <2>2
<1>5. QED
  BY <1>4

\* Whoever owns work has some that can be done.
LEMMA WorkCanMove ==
  ASSUME AgentsInv, NEW n \in AgentId, NEW t \in tasks, t.owner = n
  PROVE  CanMove(n)
<1>1. \A u \in tasks : u.envelope.id \in Nat
  BY DEF AgentsInv, TasksOK, Task, Envelope
<1> DEFINE Sends == {u \in tasks : u.owner = n /\ u.envelope.kind = "message"}
           ids == {u.envelope.id : u \in Sends}
<1>2. CASE t.envelope.kind # "message"
  BY <1>2 DEF CanMove, CanQueue
<1>3. CASE t.envelope.kind = "message"
  <2>1. ids \in SUBSET Nat /\ ids # {}
    BY <1>1, <1>3
  <2>2. PICK i \in ids : \A j \in ids : i <= j
    BY <2>1, LeastNumber
  <2>3. PICK u \in Sends : u.envelope.id = i
    BY <2>2
  <2>4. CanQueue(u)
    BY <2>2, <2>3 DEF CanQueue
  <2>5. QED
    BY <2>3, <2>4 DEF CanMove
<1>4. QED
  BY <1>2, <1>3

\* Whoever is below an agent has all of that agent's ancestors.
LEMMA PathsNest ==
  ASSUME TreeOK, NEW n \in Spawned, NEW m \in Spawned, n \in path[m]
  PROVE  path[n] \subseteq path[m]
<1> DEFINE Wrong == {k \in Spawned : \E j \in path[k] : ~(path[j] \subseteq path[k])}
<1>1. Spawned \subseteq AgentId /\ AgentId \subseteq Nat
  BY AgentNumbers DEF Spawned
<1>2. SUFFICES ASSUME Wrong # {} PROVE FALSE
  OBVIOUS
<1>3. PICK k \in Wrong : \A j \in Wrong : k <= j
  BY <1>1, <1>2, LeastNumber
<1>4. PICK j \in path[k] : ~(path[j] \subseteq path[k])
  BY <1>3
<1>5. j # k /\ k \in Spawned
  BY <1>4
<1>6. k # Root
  <2>1. ASSUME k = Root PROVE FALSE
    <3>1. j \in Spawned /\ j <= k /\ j \in Nat
      BY <1>1, <1>4, <1>5 DEF TreeOK
    <3>2. QED
      BY <1>5, <2>1, <3>1 DEF Root
  <2>2. QED
    BY <2>1
<1>7. PICK p \in Spawned : k \in ChildrenOf(p)
  BY <1>5, <1>6 DEF TreeOK
<1>8. path[k] = path[p] \cup {k} /\ p < k /\ p \in Nat /\ k \in Nat
  BY <1>1, <1>5, <1>7, OneParent DEF ChildrenOf
<1>9. p \notin Wrong
  BY <1>3, <1>8
<1>10. path[j] \subseteq path[p]
  BY <1>4, <1>5, <1>7, <1>8, <1>9
<1>11. QED
  BY <1>4, <1>8, <1>10

\* A cancelled agent that has not ended waits for nobody outside its own subtree, and
\* somebody there can take a step, whatever all of them were doing: the sleepers are woken
\* by their own token, joins wait for younger agents, and owned work needs nobody.
THEOREM CancellationNeverStuck ==
  AgentsSpec => [](\A n \in Spawned : Stopped(n) /\ n \notin outcome =>
                      \E m \in {n} \cup Below(n) : CanMove(m))
<1>1. ASSUME AgentsInv, NEW n \in Spawned, Stopped(n), n \notin outcome
      PROVE  \E m \in {n} \cup Below(n) : CanMove(m)
  <2> DEFINE Left == {m \in {n} \cup Below(n) : phase[m] # "done"}
             Ages == {MaxAgents - m : m \in Left}
  <2>1. /\ Spawned \subseteq AgentId /\ AgentId \subseteq Nat /\ MaxAgents \in Nat
        /\ \A m \in AgentId : m < MaxAgents
    BY AgentNumbers, AgentsAssumption DEF Spawned, AgentId
  <2>2. n \in Left
    BY <1>1, <2>1 DEF AgentsInv, PhasesOK, Ended
  <2>3. Left \subseteq Spawned
    BY DEF Below
  <2>4. Ages \in SUBSET Nat /\ Ages # {}
    <3>1. \A m \in Left : MaxAgents - m \in Nat
      BY <2>1, <2>3
    <3>2. QED
      BY <2>2, <3>1
  <2>5. PICK a \in Ages : \A b \in Ages : a <= b
    BY <2>4, LeastNumber
  <2>6. PICK m \in Left : a = MaxAgents - m
    BY <2>5
  <2>7. \A k \in Left : k <= m
    <3>1. ASSUME NEW k \in Left PROVE k <= m
      <4>1. MaxAgents - m <= MaxAgents - k
        BY <2>5, <2>6
      <4>2. k \in Nat /\ m \in Nat
        BY <2>1, <2>3
      <4>3. QED
        BY <2>1, <4>1, <4>2
    <3>2. QED
      BY <3>1
  <2>8. m \in Spawned /\ n \in path[m] /\ phase[m] # "done" /\ m \in {n} \cup Below(n)
    BY <1>1, <2>3 DEF Below, AgentsInv, TreeOK
  <2>9. Stopped(m)
    BY <1>1, <2>8, PathsNest DEF Stopped, AgentsInv
  <2>10. ASSUME NEW c \in ChildrenOf(m) PROVE phase[c] = "done"
    <3>1. c \in Spawned /\ m < c /\ m \in path[c] /\ path[c] = path[m] \cup {c}
      BY <1>1, <2>8, OneParent DEF AgentsInv, ChildrenOf
    <3>2. c \in Nat /\ m \in Nat /\ n \in Nat
      BY <2>1, <2>8, <3>1
    <3>3. n <= m
      BY <1>1, <2>8 DEF AgentsInv, TreeOK
    <3>4. c \in Below(n)
      BY <2>8, <3>1, <3>2, <3>3 DEF Below
    <3>5. c \notin Left
      BY <2>7, <3>1, <3>2
    <3>6. QED
      BY <3>4, <3>5
  <2>11. phase[m] \in Phase \ {"absent", "done"}
    BY <1>1, <2>8, OwnFacts
  <2>12. CASE \E t \in tasks : t.owner = m
    BY <1>1, <2>1, <2>8, <2>12, WorkCanMove
  <2>13. CASE \A t \in tasks : t.owner # m
    BY <2>8, <2>9, <2>10, <2>11, <2>13 DEF CanMove, Phase
  <2>14. QED
    BY <2>12, <2>13
<1>2. AgentsInv => \A n \in Spawned : Stopped(n) /\ n \notin outcome =>
                      \E m \in {n} \cup Below(n) : CanMove(m)
  BY <1>1
<1>3. QED
  BY <1>2, AgentsInvariant, PTL

\* A wait whose targets have all ended is never left alone: the agent or its owned work
\* can take a step, or a wake-up for it is on its way, although outcome, notice and
\* wake-up are three steps and the notice may be one that the wait stages itself.
THEOREM WaitsAreAnswered ==
  AgentsSpec => [](\A n \in AgentId : call[n] = "wait" /\ targets[n] \subseteq outcome =>
                      CanMove(n) \/ WakeDue(n))
<1>1. ASSUME AgentsInv, PromiseInv, NEW n \in AgentId, call[n] = "wait",
             targets[n] \subseteq outcome, ~WakeDue(n)
      PROVE  CanMove(n)
  <2>1. phase[n] \in Calling
    BY <1>1 DEF PromiseInv, InCallsOK
  <2>2. CASE phase[n] # "asleep"
    BY <1>1, <2>1, <2>2 DEF CanMove, Calling, Sleeping
  <2>3. CASE phase[n] = "asleep"
    <3>1. NothingToReturn(n)
      BY <1>1, <2>3 DEF AgentsInv, AwakeOK, Sleeping
    <3>2. PICK c \in targets[n] : c \in box[n].awaiting
      BY <1>1, <2>3, <3>1 DEF NothingToReturn, Finished
    <3>3. ~box[n].closed
      BY <1>1, <2>3 DEF AgentsInv, BoxesOK, Ending, Ended
    <3>4. Promised(n, c) /\ c \in outcome
      BY <1>1, <3>2, <3>3 DEF PromiseInv, PromisesOK
    <3>5. phase[c] # "posting"
      BY <1>1, <3>4 DEF WakeDue, Promised
    <3>6. PICK t \in tasks : Staging(t, n, c)
      BY <3>4, <3>5 DEF Promised
    <3>7. QED
      BY <1>1, <3>6, WorkCanMove DEF Staging
  <2>4. QED
    BY <2>2, <2>3
<1>2. AgentsInv /\ PromiseInv =>
        \A n \in AgentId : call[n] = "wait" /\ targets[n] \subseteq outcome =>
           CanMove(n) \/ WakeDue(n)
  BY <1>1
<1>3. QED
  BY <1>2, AgentsInvariant, PromisesAreKept, PTL
=============================================================================
