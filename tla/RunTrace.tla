------------------------------- MODULE RunTrace -------------------------------
(***************************************************************************)
(* The transcript of a run (crates/core/src/trace.rs): the records that    *)
(* the tasks of Attempts leave behind at their emits, and the tree that    *)
(* `reconstruct_tree` makes of them later, perhaps after a crash.          *)
(*                                                                         *)
(* A process that dies leaves what was recorded so far, so a property of   *)
(* `records` that holds in every state holds after a crash at any moment.  *)
(* The reconstruction goes by kind and node, never by the order of the     *)
(* file, and no two records of a run are equal: the file is a set, that of *)
(* its complete lines.  What happens to a line cut off is in TraceSink;    *)
(* `reconstruct_jsonl`, which only parses, refuses a text that ends in one.*)
(***************************************************************************)
EXTENDS Attempts

VARIABLES
  records,     \* what the session file holds
  settlement,  \* settlement[n]: the attempt that was settled last, and its charge
  inHand,      \* inHand[n]: an agent has a "response", or one that is counted as a
               \* "turn", which is not on record yet; or "none"
  turns        \* turns[n]: NodeState::turns

traceVars == <<records, settlement, inHand, turns>>
runTraceVars == <<attemptsVars, traceVars>>

NoParent == -1
NoSettlement == [attempt |-> 0, charged |-> 0]
ParentOf(n) == IF n = Root THEN NoParent ELSE CHOOSE m \in Admitted : n \in ChildrenOf(m)

(* The events a tree is made of.                                           *)
NodeStart(n) == [type |-> "node_start", node |-> n, parent |-> ParentOf(n)]
TurnMessage(n, turn) == [type |-> "message", node |-> n, turn |-> turn]
AttemptEnd(n) == [type |-> "attempt_end", node |-> n, attempt |-> settlement[n].attempt,
                  charged |-> settlement[n].charged]
(* A leaf is said to have had one turn, whatever came of it.               *)
NodeEnd(n) == [type |-> "node_end", node |-> n, self |-> report[n].self,
               turns |-> IF agent[n] THEN turns[n] ELSE 1]

(* An emit: the session file takes the record, or refuses it, as it does   *)
(* with every one after the first that failed (TraceSink).                 *)
Recorded(ok, event) == /\ ok => ~broken
                       /\ Emits(ok)
                       /\ records' = IF ok THEN records \cup {event} ELSE records

-----------------------------------------------------------------------------
(* reconstruct_tree.                                                       *)

OfType(log, type) == {r \in log : r.type = type}
Nodes(log) == {r.node : r \in OfType(log, "node_start")}
ParentIn(log, n) == (CHOOSE r \in OfType(log, "node_start") : r.node = n).parent
ChildrenIn(log, n) == {m \in Nodes(log) : ParentIn(log, m) = n}
EndsOf(log, n) == {r \in OfType(log, "node_end") : r.node = n}

(* What it refuses.                                                        *)
DuplicateStart(log) ==
  \E r, s \in OfType(log, "node_start") : r # s /\ r.node = s.node
MissingParent(log) ==
  \E n \in Nodes(log) : ParentIn(log, n) \notin Nodes(log) \cup {NoParent}
Cyclic(log) ==
  \E S \in SUBSET Nodes(log) : S # {} /\ \A n \in S : ParentIn(log, n) \in S
Readable(log) == ~DuplicateStart(log) /\ ~MissingParent(log) /\ ~Cyclic(log)

(* The sum of f over S, counted token by token as in TokensSpent.          *)
Tokens(f, S) == UNION {{x} \X (1 .. f[x]) : x \in S}
Total(f, S) == Cardinality(Tokens(f, S))

(* The attempts of a node, each counted once.                              *)
ChargesOf(log, n) == {r \in OfType(log, "attempt_end") : r.node = n}
Charged(log, n) ==
  LET charges == ChargesOf(log, n) IN Total([r \in charges |-> r.charged], charges)

(* A node that ended says itself what it used and how many turns it took;  *)
(* of one that did not, the records are counted.                           *)
\* Faulty variant: only what ended nodes say is counted.
SelfUsageOfEnded(log, n) ==
  IF EndsOf(log, n) # {} THEN (CHOOSE r \in EndsOf(log, n) : TRUE).self ELSE 0

SelfUsage(log, n) ==
  IF EndsOf(log, n) # {} THEN (CHOOSE r \in EndsOf(log, n) : TRUE).self
  ELSE Charged(log, n)

MessagesOf(log, n) == {r \in OfType(log, "message") : r.node = n}
TurnsIn(log, n) ==
  IF EndsOf(log, n) # {} THEN (CHOOSE r \in EndsOf(log, n) : TRUE).turns
  ELSE Cardinality(MessagesOf(log, n))

(* `build`: the usage of a subtree, from the leaves up.                    *)
SubtreeUsage(log) ==
  LET usage[n \in Nodes(log)] ==
        SelfUsage(log, n) + Total(usage, ChildrenIn(log, n))
  IN  usage

-----------------------------------------------------------------------------
(* The tasks of Attempts and what they record.                             *)

RunTraceInit ==
  /\ AttemptsInit
  /\ records = {}
  /\ settlement = [n \in NodeId |-> NoSettlement]
  /\ inHand = [n \in NodeId |-> "none"]
  /\ turns = [n \in NodeId |-> 0]

(* Agents and leaves are started by the tools of an agent, and a tool by   *)
(* what a model answered.                                                  *)
Spawns(parent) ==
  /\ calls[parent] > 0
  /\ SpawnAgent(parent) \/ SpawnLeaf(parent)
  /\ UNCHANGED traceVars

\* Faulty variant: a node goes on although its start could not be recorded.
NodeStartsAnyway(n) ==
  /\ Start(n)
  /\ records' \in {records, records \cup {NodeStart(n)}}
  /\ UNCHANGED <<settlement, inHand, turns>>

NodeStarts(n) ==
  /\ Start(n)
  /\ Recorded(pc'[n] = "working", NodeStart(n))
  /\ UNCHANGED <<settlement, inHand, turns>>

(* `reservation.settle`: what the attempt_end record will say.             *)
Settles(n) ==
  /\ Withdraw(n) \/ Answer(n) \/ GraceOver(n)
  /\ settlement' = [settlement EXCEPT ![n] =
       [attempt |-> (CHOOSE a \in attempts : a.node = n).id, charged |-> own'[n] - own[n]]]
  /\ UNCHANGED <<records, inHand, turns>>

(* The attempt_end record; an agent whose attempt succeeded has a response *)
(* in hand.                                                                *)
AttemptRecorded(n) ==
  /\ RecordEnd(n)
  /\ Recorded(TRUE, AttemptEnd(n))
  /\ settlement' = [settlement EXCEPT ![n] = NoSettlement]
  /\ inHand' = [inHand EXCEPT ![n] =
       IF agent[n] /\ call[n].verdict = "ok" THEN "response" ELSE "none"]
  /\ UNCHANGED turns

AttemptLost(n) ==
  /\ LoseEnd(n)
  /\ settlement' = [settlement EXCEPT ![n] = NoSettlement]
  /\ UNCHANGED <<records, inHand, turns>>

(* The response is accepted, which counts as a turn before it is recorded; *)
(* without the record the loop ends.                                       *)
TurnCounted(n) ==
  /\ pc[n] = "working" /\ inHand[n] = "response"
  /\ turns' = [turns EXCEPT ![n] = @ + 1]
  /\ inHand' = [inHand EXCEPT ![n] = "turn"]
  /\ UNCHANGED <<attemptsVars, records, settlement>>

TurnRecorded(n) ==
  /\ pc[n] = "working" /\ inHand[n] = "turn"
  /\ inHand' = [inHand EXCEPT ![n] = "none"]
  /\ \E ok \in BOOLEAN :
       /\ Recorded(ok, TurnMessage(n, turns[n]))
       /\ Go(n, IF ok THEN "working" ELSE "ended")
  /\ UNCHANGED <<ledgerVars, callVars, free, stopped, panicked, panics, failed, report,
                 settlement, turns>>

(* Tool input cut off by the output cap: the response is dropped.          *)
ResponseDropped(n) ==
  /\ pc[n] = "working" /\ inHand[n] = "response"
  /\ inHand' = [inHand EXCEPT ![n] = "none"]
  /\ UNCHANGED <<attemptsVars, records, settlement, turns>>

NodeEnds(n) ==
  /\ End(n)
  /\ \E ok \in BOOLEAN : Recorded(ok, NodeEnd(n))
  /\ UNCHANGED <<settlement, inHand, turns>>

(* Everything else leaves no record that the tree is made of.              *)
Silent(n) ==
  /\ \/ inHand[n] = "none" /\ (Call(n) \/ Finish(n))
     \/ Acquire(n) \/ GiveUp(n) \/ ReserveAttempt(n) \/ Refuse(n) \/ Dispatch(n)
     \/ SignalProvider(n) \/ BackoffOver(n) \/ CloseWork(n) \/ ReadUsage(n) \/ Stop(n)
  /\ UNCHANGED traceVars

RunTraceNext ==
  \/ \E parent \in Admitted : Spawns(parent)
  \/ \E n \in Admitted :
       \/ NodeStarts(n) \/ Settles(n) \/ AttemptRecorded(n) \/ AttemptLost(n)
       \/ TurnCounted(n) \/ TurnRecorded(n) \/ ResponseDropped(n)
       \/ NodeEnds(n) \/ Silent(n)

RunTraceSpec == RunTraceInit /\ [][RunTraceNext]_runTraceVars

-----------------------------------------------------------------------------
RunTraceTypeOK ==
  /\ AttemptsTypeOK
  /\ OfType(records, "node_start") \subseteq
       [type : {"node_start"}, node : NodeId, parent : NodeId \cup {NoParent}]
  /\ settlement \in [NodeId -> [attempt : Nat, charged : Nat]]
  /\ inHand \in [NodeId -> {"none", "response", "turn"}]
  /\ turns \in [NodeId -> 0 .. MaxCalls]

(* The transcript of a run can be read back after a crash at any moment,   *)
(* and after the trace has failed in the middle of it: it is one tree      *)
(* below the root, and no record is about a node it does not know          *)
(* (reconstruct_tree bails out on a missing parent and passes over a       *)
(* record of an unknown node in silence).                                  *)
TreeReadable ==
  /\ Readable(records)
  /\ records # {} => ChildrenIn(records, NoParent) = {Root}
  /\ \A r \in records : r.node \in Nodes(records)

(* The charge of an attempt, and the turn, that is counted but not on      *)
(* record.                                                                 *)
Unrecorded(S) == Total([n \in S |-> settlement[n].charged], S)
Unwritten(n) == IF inHand[n] = "turn" THEN 1 ELSE 0

(* The reconstructed tree and the ledger agree at every moment, for every  *)
(* node and every subtree: a crash loses no more than the charges and      *)
(* turns whose records were being written.  A failed trace may miss        *)
(* charges, but never counts one twice or invents one.                     *)
TreeMatchesLedger ==
  LET usage == SubtreeUsage(records) IN
  \A n \in Nodes(records) :
    /\ SelfUsage(records, n) <= own[n] /\ usage[n] <= used[n]
    /\ ~broken =>
         /\ SelfUsage(records, n) + Unrecorded({n}) = own[n]
         /\ usage[n] + Unrecorded(Subtree(n)) = used[n]
         /\ agent[n] => TurnsIn(records, n) + Unwritten(n) = turns[n]
=============================================================================
