---------------------------- MODULE AttemptsProofs ----------------------------
(***************************************************************************)
(* Proofs about the ledger, the model calls of a run and the transcript    *)
(* they leave, for every value of the constants.                           *)
(*                                                                         *)
(* The ledger's inductive invariant adds to its properties what they rest  *)
(* on: the shape of the tree, that a scope not yet admitted is blank, that *)
(* attempts sit on admitted scopes under fresh identifiers, and that the   *)
(* sets of tokens are finite, so that their cardinalities are sums.        *)
(* The ledger's step lemmas then carry that invariant through every step   *)
(* of every task; on top of it come the life of a scope, what has ended    *)
(* below a scope that reports, and which scopes' starts are on record.     *)
(* Then the books of the transcript: the charges on record and in hand add *)
(* up to what the ledger says of a scope, and the usage of a reconstructed *)
(* subtree, a sum from the leaves up, to what it says of the subtree.      *)
(***************************************************************************)
EXTENDS RunTrace, FiniteSetTheorems, WellFoundedInduction, TLAPS

\* Paths stay inside the admitted tree and end at the scope itself, which is
\* younger than all of its ancestors.
TreeOK ==
  /\ Root \in Admitted
  /\ \A n \in Admitted : /\ n \in path[n] /\ path[n] \subseteq Admitted
                         /\ \A m \in path[n] : m <= n

\* A scope that is not admitted yet has no past.
Blank ==
  \A n \in NodeId \ Admitted :
    /\ path[n] = {} /\ ~agent[n] /\ ~alive[n] /\ ~closed[n]
    /\ used[n] = 0 /\ reserved[n] = 0 /\ own[n] = 0 /\ excess[n] = 0

\* Outstanding attempts belong to admitted scopes and have identifiers already used.
AttemptsOK ==
  \A a \in attempts : a.node \in Admitted /\ a.id < nextAttempt

FiniteTokens ==
  \A n \in NodeId : IsFiniteSet(TokensHeld(n)) /\ IsFiniteSet(TokensSpent(n))

LedgerInv ==
  /\ LedgerTypeOK /\ TreeOK /\ Blank /\ AttemptsOK /\ FiniteTokens
  /\ SubtreeAccounting /\ NoOvercommit /\ OvershootBounded /\ AgentLimits

-----------------------------------------------------------------------------
\* A block of unit tokens of x, numbered from lo to hi.
LEMMA UnitTokens ==
  ASSUME NEW x, NEW lo \in Int, NEW hi \in Int, lo <= hi + 1
  PROVE  /\ IsFiniteSet({x} \X (lo .. hi))
         /\ Cardinality({x} \X (lo .. hi)) = hi - lo + 1
<1>1. IsFiniteSet({x}) /\ Cardinality({x}) = 1
  BY FS_Singleton
<1>2. IsFiniteSet(lo .. hi) /\ Cardinality(lo .. hi) = hi - lo + 1
  BY FS_Interval
<1>3. /\ IsFiniteSet({x} \X (lo .. hi))
      /\ Cardinality({x} \X (lo .. hi)) = Cardinality({x}) * Cardinality(lo .. hi)
  BY <1>1, <1>2, FS_Product
<1>4. 1 * (hi - lo + 1) = hi - lo + 1
  OBVIOUS
<1>5. QED
  BY <1>1, <1>2, <1>3, <1>4

\* The same for a block of k tokens numbered from one.
LEMMA FirstTokens ==
  ASSUME NEW x, NEW k \in Nat
  PROVE  /\ IsFiniteSet({x} \X (1 .. k))
         /\ Cardinality({x} \X (1 .. k)) = k
<1>1. 1 \in Int /\ k \in Int /\ 1 <= k + 1 /\ k - 1 + 1 = k
  OBVIOUS
<1>2. /\ IsFiniteSet({x} \X (1 .. k))
      /\ Cardinality({x} \X (1 .. k)) = k - 1 + 1
  BY <1>1, UnitTokens, Zenon
<1>3. QED
  BY <1>1, <1>2

\* Sets of scopes are finite.
LEMMA FiniteScopes ==
  ASSUME NEW S, S \subseteq NodeId
  PROVE  IsFiniteSet(S)
<1>1. IsFiniteSet(NodeId)
  BY FS_Interval, LimitsAssumption DEF NodeId
<1>2. QED
  BY <1>1, FS_Subset

\* Adding tokens that are not in a set yet adds their number to its size.
LEMMA AddTokens ==
  ASSUME NEW S, IsFiniteSet(S), NEW T, IsFiniteSet(T), S \cap T = {}
  PROVE  /\ IsFiniteSet(S \cup T)
         /\ Cardinality(S \cup T) = Cardinality(S) + Cardinality(T)
<1>1. Cardinality(S \cap T) = 0
  BY FS_EmptySet
<1>2. Cardinality(S) \in Nat /\ Cardinality(T) \in Nat
  BY FS_CardinalityType
<1>3. /\ IsFiniteSet(S \cup T)
      /\ Cardinality(S \cup T) =
           Cardinality(S) + Cardinality(T) - Cardinality(S \cap T)
  BY FS_Union
<1>4. QED
  BY <1>1, <1>2, <1>3

\* Removing tokens that are in a set takes their number from its size.
LEMMA RemoveTokens ==
  ASSUME NEW S, IsFiniteSet(S), NEW T, T \subseteq S
  PROVE  /\ IsFiniteSet(S \ T)
         /\ Cardinality(T) <= Cardinality(S)
         /\ Cardinality(S \ T) = Cardinality(S) - Cardinality(T)
<1>1. S \cap T = T
  OBVIOUS
<1>2. /\ IsFiniteSet(S \ T)
      /\ Cardinality(S \ T) = Cardinality(S) - Cardinality(S \cap T)
  BY FS_Difference
<1>3. Cardinality(T) <= Cardinality(S)
  BY FS_Subset
<1>4. QED
  BY <1>1, <1>2, <1>3

-----------------------------------------------------------------------------
\* The root scope alone satisfies the invariant.
LEMMA LedgerInitInv == LedgerInit => LedgerInv
<1> SUFFICES ASSUME LedgerInit PROVE LedgerInv
  OBVIOUS
<1> USE LimitsAssumption
<1>1. LedgerTypeOK
  BY DEF LedgerInit, LedgerTypeOK, NodeId, Root
<1>2. Admitted = {Root} /\ Root \in NodeId
  BY DEF LedgerInit, Admitted, NodeId, Root
<1>3. TreeOK /\ Blank /\ AttemptsOK
  <2>1. path[Root] = {Root} /\ \A m \in {Root} : m <= Root
    BY <1>2 DEF LedgerInit, Root
  <2>2. TreeOK
    BY <1>2, <2>1 DEF TreeOK
  <2>3. Blank /\ AttemptsOK
    BY <1>2 DEF LedgerInit, Blank, AttemptsOK
  <2>4. QED
    BY <2>2, <2>3
<1>4. \A n \in NodeId : TokensHeld(n) = {} /\ TokensSpent(n) = {}
  BY DEF LedgerInit, TokensHeld, TokensSpent, Subtree, NodeId
<1>5. FiniteTokens /\ SubtreeAccounting
  BY <1>4, FS_EmptySet DEF FiniteTokens, SubtreeAccounting, LedgerInit
<1>6. NoOvercommit /\ OvershootBounded
  BY <1>2 DEF LedgerInit, NoOvercommit, OvershootBounded
<1>7. AgentLimits
  <2>1. /\ {n \in Admitted : agent[n] /\ alive[n]} = {Root}
        /\ {n \in Admitted : agent[n]} = {Root}
        /\ {n \in Admitted : ~agent[n]} = {}
    BY <1>2 DEF LedgerInit
  <2>2. Cardinality({Root}) = 1 /\ Cardinality({}) = 0
    BY FS_Singleton, FS_EmptySet
  <2>3. live = 1 /\ total = 1 /\ llm = 0 /\ \A n \in Admitted : depth[n] = 0
    BY <1>2 DEF LedgerInit
  <2>4. QED
    BY <2>1, <2>2, <2>3 DEF AgentLimits
<1>8. QED
  BY <1>1, <1>3, <1>5, <1>6, <1>7 DEF LedgerInv

-----------------------------------------------------------------------------
\* A step that leaves paths, attempts and counters alone keeps the accounting.
LEMMA SameTokens ==
  ASSUME LedgerInv, UNCHANGED <<path, attempts, own, reserved, used>>
  PROVE  FiniteTokens' /\ SubtreeAccounting'
<1>1. \A n \in NodeId : Subtree(n)' = Subtree(n)
  BY DEF Subtree
<1>2. \A n \in NodeId :
        TokensHeld(n)' = TokensHeld(n) /\ TokensSpent(n)' = TokensSpent(n)
  BY <1>1 DEF TokensHeld, TokensSpent
<1>3. QED
  BY <1>2 DEF LedgerInv, FiniteTokens, SubtreeAccounting

\* Admitting a scope moves no tokens: a new leaf of the tree has none.
LEMMA AdmitStep ==
  ASSUME LedgerInv, NEW parent \in Admitted, NEW isAgent \in BOOLEAN,
         NEW requestedLimit \in Nat, Admit(parent, isAgent, requestedLimit)
  PROVE  LedgerInv'
<1> USE LimitsAssumption
<1> DEFINE id == scopes
<1>1. /\ id \in NodeId /\ id \notin Admitted /\ parent \in NodeId
      /\ Admitted' = Admitted \cup {id}
  <2>1. scopes \in 1 .. MaxNodes /\ scopes < MaxNodes /\ scopes' = scopes + 1
    BY DEF Admit, CanAdmit, LedgerInv, LedgerTypeOK
  <2>2. QED
    BY <2>1 DEF Admitted, NodeId
<1>2. /\ path' = [path EXCEPT ![id] = path[parent] \cup {id}]
      /\ path[parent] \subseteq Admitted
      /\ parent \in path[parent]
  BY <1>1 DEF Admit, LedgerInv, TreeOK
<1>3. LedgerTypeOK'
  <2>1. scopes' \in 1 .. MaxNodes
    BY DEF Admit, CanAdmit, LedgerInv, LedgerTypeOK
  <2>7. path' \in [NodeId -> SUBSET NodeId]
    BY <1>1, <1>2 DEF LedgerInv, LedgerTypeOK
  <2>2. depth' \in [NodeId -> Nat]
    BY <1>1 DEF Admit, LedgerInv, LedgerTypeOK
  <2>3. limit' \in [NodeId -> Nat]
    BY <1>1 DEF Admit, LedgerInv, LedgerTypeOK, Smaller
  <2>4. agent' \in [NodeId -> BOOLEAN] /\ alive' \in [NodeId -> BOOLEAN]
    BY <1>1 DEF Admit, LedgerInv, LedgerTypeOK
  <2>5. total' \in Nat /\ live' \in Nat /\ llm' \in Nat
    BY DEF Admit, LedgerInv, LedgerTypeOK
  <2>6. QED
    BY <2>1, <2>2, <2>3, <2>4, <2>5, <2>7 DEF Admit, LedgerInv, LedgerTypeOK, budgetVars
<1>4. TreeOK'
  <2>1. \A m \in Admitted \cup {id} : m <= id
    BY <1>1 DEF Admitted, NodeId
  <2>2. QED
    BY <1>1, <1>2, <2>1 DEF LedgerInv, LedgerTypeOK, TreeOK
<1>5. Blank'
  BY <1>1, <1>2 DEF Admit, LedgerInv, LedgerTypeOK, Blank, budgetVars
<1>6. AttemptsOK'
  BY <1>1 DEF Admit, LedgerInv, AttemptsOK, budgetVars
<1>7. \A n \in NodeId :
        /\ Subtree(n) \subseteq Subtree(n)'
        /\ Subtree(n)' \subseteq Subtree(n) \cup {id}
        /\ id \notin Subtree(n)
  BY <1>1, <1>2 DEF LedgerInv, LedgerTypeOK, Blank, Subtree
<1>8. \A n \in NodeId :
        {b \in attempts : b.node \in Subtree(n)}'
          = {b \in attempts : b.node \in Subtree(n)}
  BY <1>1, <1>7 DEF Admit, LedgerInv, AttemptsOK, budgetVars
<1>9. \A n \in NodeId :
        TokensHeld(n)' = TokensHeld(n) /\ TokensSpent(n)' = TokensSpent(n)
  <2> SUFFICES ASSUME NEW n \in NodeId
               PROVE  /\ TokensHeld(n)' = TokensHeld(n)
                      /\ TokensSpent(n)' = TokensSpent(n)
    OBVIOUS
  <2>1. TokensHeld(n)' = TokensHeld(n)
    BY <1>8 DEF TokensHeld
  <2>2. own' = own /\ own[id] = 0
    BY <1>1 DEF Admit, LedgerInv, Blank, budgetVars
  <2>3. {id} \X (1 .. own[id]) = {}
    BY <2>2
  <2>4. QED
    BY <1>7, <2>1, <2>2, <2>3 DEF TokensSpent
<1>10. FiniteTokens' /\ SubtreeAccounting'
  BY <1>9 DEF Admit, LedgerInv, FiniteTokens, SubtreeAccounting, budgetVars
<1>11. NoOvercommit' /\ OvershootBounded'
  <2> SUFFICES ASSUME NEW n \in Admitted'
               PROVE  /\ (~closed[n] => used[n] + reserved[n] <= limit[n])'
                      /\ (used[n] + reserved[n] <= limit[n] + excess[n])'
    BY DEF NoOvercommit, OvershootBounded
  <2>1. CASE n = id
    BY <1>1, <1>3, <2>1
       DEF Admit, LedgerInv, LedgerTypeOK, Blank, budgetVars, Smaller
  <2>2. CASE n \in Admitted
    BY <1>1, <2>2 DEF Admit, LedgerInv, LedgerTypeOK, NoOvercommit,
                      OvershootBounded, budgetVars, Admitted
  <2>3. QED
    BY <1>1, <2>1, <2>2
<1>12. AgentLimits'
  <2> DEFINE Running == {n \in Admitted : agent[n] /\ alive[n]}
             Agents == {n \in Admitted : agent[n]}
             Leaves == {n \in Admitted : ~agent[n]}
  <2>1. /\ IsFiniteSet(Running) /\ IsFiniteSet(Agents) /\ IsFiniteSet(Leaves)
        /\ id \notin Running /\ id \notin Agents /\ id \notin Leaves
    BY <1>1, FiniteScopes DEF Admitted
  <2>2. /\ Running' = IF isAgent THEN Running \cup {id} ELSE Running
        /\ Agents' = IF isAgent THEN Agents \cup {id} ELSE Agents
        /\ Leaves' = IF isAgent THEN Leaves ELSE Leaves \cup {id}
    BY <1>1 DEF Admit, LedgerInv, LedgerTypeOK
  <2>3. /\ Cardinality(Running \cup {id}) = Cardinality(Running) + 1
        /\ Cardinality(Agents \cup {id}) = Cardinality(Agents) + 1
        /\ Cardinality(Leaves \cup {id}) = Cardinality(Leaves) + 1
    BY <2>1, FS_AddElement
  <2>4. /\ live = Cardinality(Running) /\ total = Cardinality(Agents)
        /\ llm = Cardinality(Leaves)
    BY DEF LedgerInv, AgentLimits
  <2>5. /\ live' = Cardinality(Running)' /\ total' = Cardinality(Agents)'
        /\ llm' = Cardinality(Leaves)'
    <3> HIDE DEF Running, Agents, Leaves
    <3>1. CASE isAgent
      BY <2>2, <2>3, <2>4, <3>1 DEF Admit
    <3>2. CASE ~isAgent
      BY <2>2, <2>3, <2>4, <3>2 DEF Admit
    <3>3. QED
      BY <3>1, <3>2
  <2>6. live' <= MaxAgentsLive /\ total' <= MaxAgentsTotal /\ llm' <= MaxLlmCalls
    BY DEF Admit, CanAdmit, Admissible, LedgerInv, LedgerTypeOK, AgentLimits
  <2>7. \A n \in Admitted' : depth'[n] <= MaxDepth
    <3>1. depth' = [depth EXCEPT ![id] = depth[parent] + (IF isAgent THEN 1 ELSE 0)]
      BY DEF Admit
    <3>2. depth[parent] + (IF isAgent THEN 1 ELSE 0) <= MaxDepth
      BY <1>1 DEF Admit, CanAdmit, Admissible, LedgerInv, LedgerTypeOK, AgentLimits
    <3>3. QED
      BY <1>1, <3>1, <3>2 DEF LedgerInv, LedgerTypeOK, AgentLimits
  <2>8. QED
    BY <2>5, <2>6, <2>7 DEF AgentLimits
<1>13. QED
  BY <1>3, <1>4, <1>5, <1>6, <1>10, <1>11, <1>12 DEF LedgerInv

\* A reservation adds its tokens to every scope on its path, and to no other.
LEMMA ReserveStep ==
  ASSUME LedgerInv, NEW node \in Admitted, NEW prompt \in Nat,
         NEW requested \in Nat, Reserve(node, prompt, requested)
  PROVE  LedgerInv'
<1> USE LimitsAssumption
<1>1. PICK headroom \in {Remaining(m) : m \in path[node]} :
        /\ \A m \in path[node] : headroom <= Remaining(m)
        /\ Grant(node, prompt + Smaller(requested, headroom - prompt))
  BY DEF Reserve
<1> DEFINE tokens == prompt + Smaller(requested, headroom - prompt)
           new == [id |-> nextAttempt, node |-> node, tokens |-> tokens]
           block == {new} \X (1 .. tokens)
<1>2. /\ node \in NodeId /\ path[node] \subseteq Admitted
      /\ Admitted \subseteq NodeId
  BY DEF LedgerInv, TreeOK, Admitted
<1>3. \A m \in NodeId : /\ Remaining(m) \in Nat
                        /\ ~closed[m] => Remaining(m) <= limit[m]
                        /\ closed[m] => Remaining(m) = 0
                        /\ Remaining(m) > 0 =>
                             used[m] + reserved[m] + Remaining(m) = limit[m]
  BY DEF LedgerInv, LedgerTypeOK, Remaining, Monus
<1>4. headroom \in Nat /\ headroom >= prompt /\ tokens \in Nat /\ tokens <= headroom
      /\ tokens > 0
  BY <1>2, <1>3 DEF Reserve, CanReserve, Smaller
<1>5. /\ attempts' = attempts \cup {new}
      /\ new \in Attempt /\ new \notin attempts
      /\ nextAttempt' = nextAttempt + 1
      /\ reserved' = [n \in NodeId |->
                       IF n \in path[node] THEN reserved[n] + tokens ELSE reserved[n]]
      /\ UNCHANGED <<scopes, path, depth, agent, limit, total, llm, alive,
                     admissionClosed, live, used, closed, own, excess>>
      /\ Admitted' = Admitted
  BY <1>1, <1>2, <1>4 DEF Grant, treeVars, lifeVars, LedgerInv, LedgerTypeOK,
                          AttemptsOK, Attempt, Admitted
<1> HIDE DEF tokens, new
<1>6. LedgerTypeOK'
  BY <1>4, <1>5 DEF LedgerInv, LedgerTypeOK
<1>7. TreeOK' /\ Blank'
  BY <1>2, <1>4, <1>5 DEF LedgerInv, TreeOK, Blank
<1>8. AttemptsOK'
  BY <1>5 DEF LedgerInv, LedgerTypeOK, AttemptsOK, Attempt, new
<1>9. \A n \in NodeId :
        /\ TokensSpent(n)' = TokensSpent(n)
        /\ Subtree(n)' = Subtree(n)
        /\ node \in Subtree(n) <=> n \in path[node]
  BY <1>2, <1>5 DEF TokensSpent, Subtree
<1>10. ASSUME NEW n \in NodeId, n \notin path[node]
       PROVE  TokensHeld(n)' = TokensHeld(n)
  <2>1. {b \in attempts : b.node \in Subtree(n)}'
          = {b \in attempts : b.node \in Subtree(n)}
    BY <1>5, <1>9, <1>10 DEF new
  <2>2. QED
    BY <2>1 DEF TokensHeld
<1>11. ASSUME NEW n \in NodeId, n \in path[node]
       PROVE  TokensHeld(n)' = TokensHeld(n) \cup block
  <2>1. {b \in attempts : b.node \in Subtree(n)}'
          = {b \in attempts : b.node \in Subtree(n)} \cup {new}
    BY <1>5, <1>9, <1>11 DEF new
  <2>2. QED
    BY <1>4, <2>1 DEF TokensHeld, new
<1>12. \A n \in NodeId : TokensHeld(n) \cap block = {}
  BY <1>5 DEF TokensHeld
<1>13. IsFiniteSet(block) /\ Cardinality(block) = tokens
  BY <1>4, FirstTokens
<1> HIDE DEF block
<1>14. \A n \in NodeId :
         /\ IsFiniteSet(TokensHeld(n)')
         /\ Cardinality(TokensHeld(n)') =
              IF n \in path[node] THEN Cardinality(TokensHeld(n)) + tokens
              ELSE Cardinality(TokensHeld(n))
  BY <1>10, <1>11, <1>12, <1>13, AddTokens DEF LedgerInv, FiniteTokens
<1>15. FiniteTokens' /\ SubtreeAccounting'
  BY <1>5, <1>9, <1>14 DEF LedgerInv, LedgerTypeOK, FiniteTokens, SubtreeAccounting
<1>16. NoOvercommit' /\ OvershootBounded'
  BY <1>1, <1>2, <1>3, <1>4, <1>5
     DEF LedgerInv, LedgerTypeOK, NoOvercommit, OvershootBounded
<1>17. AgentLimits'
  BY <1>5 DEF LedgerInv, AgentLimits
<1>18. QED
  BY <1>6, <1>7, <1>8, <1>15, <1>16, <1>17 DEF LedgerInv

\* A settlement takes the attempt's tokens from the scopes that held them and
\* adds the charge to the same scopes.
LEMMA SettleStep ==
  ASSUME LedgerInv, NEW a \in attempts, NEW charged \in Nat, Settle(a, charged)
  PROVE  LedgerInv'
<1> USE LimitsAssumption
<1> DEFINE node == a.node
           block == {a} \X (1 .. a.tokens)
           spent == {node} \X ((own[node] + 1) .. (own[node] + charged))
<1>1. /\ node \in Admitted /\ node \in NodeId /\ a.tokens \in Nat
      /\ path[node] \subseteq Admitted /\ Admitted \subseteq NodeId
      /\ own[node] \in Nat
  BY DEF LedgerInv, LedgerTypeOK, Attempt, AttemptsOK, TreeOK, Admitted
<1>2. /\ attempts' = attempts \ {a}
      /\ reserved' = [n \in NodeId |-> IF n \in path[node]
                                       THEN reserved[n] - a.tokens ELSE reserved[n]]
      /\ used' = [n \in NodeId |-> IF n \in path[node]
                                   THEN used[n] + charged ELSE used[n]]
      /\ closed' = [n \in NodeId |->
                     \/ closed[n]
                     \/ /\ n \in path[node]
                        /\ (used[n] + charged) + (reserved[n] - a.tokens) > limit[n]]
      /\ own' = [own EXCEPT ![node] = own[node] + charged]
      /\ excess' = [n \in NodeId |-> IF n \in path[node]
                                     THEN excess[n] + Monus(charged, a.tokens)
                                     ELSE excess[n]]
  BY DEF Settle
<1>3. /\ UNCHANGED <<scopes, path, depth, agent, limit, total, llm, alive,
                     admissionClosed, live, nextAttempt>>
      /\ Admitted' = Admitted
  BY DEF Settle, treeVars, lifeVars, Admitted
<1>4. \A n \in NodeId : /\ Subtree(n)' = Subtree(n)
                        /\ node \in Subtree(n) <=> n \in path[node]
  BY <1>1, <1>3 DEF Subtree
<1>5. IsFiniteSet(block) /\ Cardinality(block) = a.tokens
  BY <1>1, FirstTokens
<1>6. IsFiniteSet(spent) /\ Cardinality(spent) = charged
  <2> DEFINE lo == own[node] + 1
             hi == own[node] + charged
  <2>1. lo \in Int /\ hi \in Int /\ lo <= hi + 1 /\ hi - lo + 1 = charged
    BY <1>1
  <2> HIDE DEF lo, hi
  <2>2. /\ IsFiniteSet({node} \X (lo .. hi))
        /\ Cardinality({node} \X (lo .. hi)) = hi - lo + 1
    BY <2>1, UnitTokens, Zenon
  <2>3. QED
    BY <2>1, <2>2 DEF lo, hi
<1>7. \A n \in NodeId : IsFiniteSet(TokensHeld(n)) /\ IsFiniteSet(TokensSpent(n))
  BY DEF LedgerInv, FiniteTokens
<1> HIDE DEF node
<1>8. ASSUME NEW n \in NodeId, n \notin path[node]
      PROVE  TokensHeld(n)' = TokensHeld(n) /\ TokensSpent(n)' = TokensSpent(n)
  <2>1. {b \in attempts : b.node \in Subtree(n)}'
          = {b \in attempts : b.node \in Subtree(n)}
    BY <1>2, <1>4, <1>8 DEF node
  <2>2. \A m \in Subtree(n) : own'[m] = own[m]
    BY <1>2, <1>4, <1>8 DEF LedgerInv, LedgerTypeOK, Subtree
  <2>3. QED
    BY <1>4, <2>1, <2>2 DEF TokensHeld, TokensSpent
<1>9. ASSUME NEW n \in NodeId, n \in path[node]
      PROVE  /\ block \subseteq TokensHeld(n)
             /\ TokensHeld(n)' = TokensHeld(n) \ block
  <2>1. {b \in attempts : b.node \in Subtree(n)}'
          = {b \in attempts : b.node \in Subtree(n)} \ {a}
    BY <1>2, <1>4
  <2>2. a \in {b \in attempts : b.node \in Subtree(n)}
    BY <1>4, <1>9 DEF node
  <2>3. QED
    BY <2>1, <2>2 DEF TokensHeld
<1>10. ASSUME NEW n \in NodeId, n \in path[node]
       PROVE  /\ spent \cap TokensSpent(n) = {}
              /\ TokensSpent(n)' = TokensSpent(n) \cup spent
  <2>1. spent \cap TokensSpent(n) = {}
    BY <1>1 DEF TokensSpent
  <2>2. \A m \in Subtree(n) : m # node => own'[m] = own[m]
    BY <1>1, <1>2 DEF LedgerInv, LedgerTypeOK, Subtree
  <2>3. own'[node] = own[node] + charged
    BY <1>1, <1>2 DEF LedgerInv, LedgerTypeOK
  <2>4. 1 .. own'[node] = (1 .. own[node])
                            \cup ((own[node] + 1) .. (own[node] + charged))
    BY <1>1, <2>3
  <2>5. {node} \X (1 .. own'[node]) = ({node} \X (1 .. own[node])) \cup spent
    BY <2>4
  <2>6. node \in Subtree(n)
    BY <1>4, <1>10
  <2>7. QED
    BY <1>4, <2>1, <2>2, <2>5, <2>6 DEF TokensSpent
<1> HIDE DEF block, spent
<1>11. ASSUME NEW n \in NodeId
       PROVE  /\ IsFiniteSet(TokensHeld(n)') /\ IsFiniteSet(TokensSpent(n)')
              /\ reserved'[n] = Cardinality(TokensHeld(n)')
              /\ used'[n] = Cardinality(TokensSpent(n)')
              /\ n \in path[node] => a.tokens <= reserved[n]
  <2>1. CASE n \notin path[node]
    BY <1>2, <1>7, <1>8, <2>1 DEF LedgerInv, SubtreeAccounting
  <2>2. CASE n \in path[node]
    <3>1. /\ IsFiniteSet(TokensHeld(n) \ block)
          /\ a.tokens <= Cardinality(TokensHeld(n))
          /\ Cardinality(TokensHeld(n) \ block) = Cardinality(TokensHeld(n)) - a.tokens
      BY <1>5, <1>7, <1>9, <2>2, RemoveTokens
    <3>2. /\ IsFiniteSet(TokensSpent(n) \cup spent)
          /\ Cardinality(TokensSpent(n) \cup spent) = Cardinality(TokensSpent(n)) + charged
      BY <1>6, <1>7, <1>10, <2>2, AddTokens
    <3>3. QED
      BY <1>2, <1>9, <1>10, <2>2, <3>1, <3>2 DEF LedgerInv, SubtreeAccounting
  <2>3. QED
    BY <2>1, <2>2
<1>12. LedgerTypeOK'
  BY <1>1, <1>2, <1>3, <1>11 DEF LedgerInv, LedgerTypeOK, Monus
<1>13. TreeOK' /\ Blank' /\ AttemptsOK'
  BY <1>1, <1>2, <1>3 DEF LedgerInv, LedgerTypeOK, TreeOK, Blank, AttemptsOK
<1>14. FiniteTokens' /\ SubtreeAccounting'
  BY <1>11 DEF FiniteTokens, SubtreeAccounting
<1>15. NoOvercommit'
  BY <1>1, <1>2, <1>3, <1>11 DEF LedgerInv, LedgerTypeOK, NoOvercommit
<1>16. OvershootBounded'
  BY <1>1, <1>2, <1>3, <1>11 DEF LedgerInv, LedgerTypeOK, OvershootBounded, Monus
<1>17. AgentLimits'
  BY <1>3 DEF LedgerInv, AgentLimits
<1>18. QED
  BY <1>12, <1>13, <1>14, <1>15, <1>16, <1>17 DEF LedgerInv

\* Closing a scope's admission moves no tokens and no agent.
LEMMA CloseAdmissionStep ==
  ASSUME LedgerInv, NEW n \in Admitted, CloseAdmission(n)
  PROVE  LedgerInv'
<1>1. /\ admissionClosed' = [admissionClosed EXCEPT ![n] = TRUE]
      /\ UNCHANGED <<treeVars, budgetVars, alive, live>>
  BY DEF CloseAdmission
<1>2. LedgerTypeOK'
  BY <1>1 DEF LedgerInv, LedgerTypeOK, treeVars, budgetVars
<1>3. TreeOK' /\ Blank' /\ AttemptsOK'
  BY <1>1 DEF LedgerInv, TreeOK, Blank, AttemptsOK, Admitted, treeVars, budgetVars
<1>4. FiniteTokens' /\ SubtreeAccounting' /\ NoOvercommit' /\ OvershootBounded'
  BY <1>1 DEF LedgerInv, FiniteTokens, SubtreeAccounting, NoOvercommit,
              OvershootBounded, TokensHeld, TokensSpent, Subtree, Admitted,
              treeVars, budgetVars
<1>5. AgentLimits'
  BY <1>1 DEF LedgerInv, AgentLimits, Admitted, treeVars
<1>6. QED
  BY <1>2, <1>3, <1>4, <1>5 DEF LedgerInv

\* Shutting a scope down releases its live slot exactly when it held one.
LEMMA ShutdownStep ==
  ASSUME LedgerInv, NEW n \in Admitted, Shutdown(n)
  PROVE  LedgerInv'
<1>1. /\ alive[n] /\ n \in NodeId
      /\ alive' = [alive EXCEPT ![n] = FALSE]
      /\ live' = IF agent[n] THEN live - 1 ELSE live
      /\ UNCHANGED <<treeVars, budgetVars, admissionClosed>>
      /\ Admitted' = Admitted
  BY DEF Shutdown, Admitted, treeVars
<1> DEFINE Running == {m \in Admitted : agent[m] /\ alive[m]}
<1>2. Running' = IF agent[n] THEN Running \ {n} ELSE Running
  BY <1>1 DEF LedgerInv, LedgerTypeOK, treeVars, Admitted
<1>3. IsFiniteSet(Running) /\ (agent[n] => n \in Running)
  BY <1>1, FiniteScopes DEF Admitted
<1>4. agent[n] => Cardinality(Running \ {n}) = Cardinality(Running) - 1
  BY <1>3, FS_RemoveElement
<1>5. live = Cardinality(Running) /\ live <= MaxAgentsLive
  BY DEF LedgerInv, AgentLimits
<1>6. Cardinality(Running)' \in Nat
  <2>1. IsFiniteSet(Running)'
    BY <1>2, <1>3, FS_RemoveElement
  <2>2. QED
    BY <2>1, FS_CardinalityType
<1>7. live' = Cardinality(Running)' /\ live' \in Nat /\ live' <= MaxAgentsLive
  <2> HIDE DEF Running
  <2>1. CASE agent[n]
    BY <1>1, <1>2, <1>4, <1>5, <1>6, <2>1, LimitsAssumption DEF LedgerInv, LedgerTypeOK
  <2>2. CASE ~agent[n]
    BY <1>1, <1>2, <1>5, <1>6, <2>2 DEF LedgerInv, LedgerTypeOK
  <2>3. QED
    BY <2>1, <2>2
<1>8. LedgerTypeOK'
  BY <1>1, <1>7 DEF LedgerInv, LedgerTypeOK, treeVars, budgetVars
<1>9. TreeOK' /\ Blank' /\ AttemptsOK'
  BY <1>1 DEF LedgerInv, LedgerTypeOK, TreeOK, Blank, AttemptsOK, treeVars, budgetVars
<1>10. FiniteTokens' /\ SubtreeAccounting' /\ NoOvercommit' /\ OvershootBounded'
  <2>1. FiniteTokens' /\ SubtreeAccounting'
    BY <1>1, SameTokens DEF treeVars, budgetVars
  <2>2. NoOvercommit' /\ OvershootBounded'
    BY <1>1 DEF LedgerInv, NoOvercommit, OvershootBounded, treeVars, budgetVars
  <2>3. QED
    BY <2>1, <2>2
<1>11. AgentLimits'
  BY <1>1, <1>7 DEF LedgerInv, AgentLimits, treeVars
<1>12. QED
  BY <1>8, <1>9, <1>10, <1>11 DEF LedgerInv

\* Every operation of the ledger preserves the invariant.
LEMMA LedgerNextInv == LedgerInv /\ [LedgerNext]_ledgerVars => LedgerInv'
<1> SUFFICES ASSUME LedgerInv, [LedgerNext]_ledgerVars PROVE LedgerInv'
  OBVIOUS
<1> USE LimitsAssumption
<1>1. CASE \E parent \in Admitted, isAgent \in BOOLEAN,
              requestedLimit \in ScopeLimits \cup {BudgetTokens} :
             Admit(parent, isAgent, requestedLimit)
  BY <1>1, AdmitStep
<1>2. CASE \E node \in Admitted, prompt \in Prompts, requested \in Requests :
             Reserve(node, prompt, requested)
  BY <1>2, ReserveStep
<1>3. CASE \E a \in attempts : \E charged \in Charges(a) : Settle(a, charged)
  <2>1. ASSUME NEW a \in attempts, NEW charged \in Charges(a) PROVE charged \in Nat
    <3>1. a.tokens \in Nat
      BY DEF LedgerInv, LedgerTypeOK, Attempt
    <3>2. charged \in {0, a.tokens} \cup Usages
      BY DEF Charges
    <3>3. QED
      BY <3>1, <3>2
  <2>2. QED
    BY <1>3, <2>1, SettleStep
<1>4. CASE \E n \in Admitted : CloseAdmission(n)
  BY <1>4, CloseAdmissionStep
<1>5. CASE \E n \in Admitted : Shutdown(n)
  BY <1>5, ShutdownStep
<1>6. CASE UNCHANGED ledgerVars
  <2>1. UNCHANGED <<treeVars, lifeVars, budgetVars>>
    BY <1>6 DEF ledgerVars
  <2>2. LedgerTypeOK'
    BY <2>1 DEF LedgerInv, LedgerTypeOK, treeVars, lifeVars, budgetVars
  <2>3. TreeOK' /\ Blank' /\ AttemptsOK'
    BY <2>1 DEF LedgerInv, TreeOK, Blank, AttemptsOK, Admitted,
                treeVars, lifeVars, budgetVars
  <2>4. FiniteTokens' /\ SubtreeAccounting'
    BY <2>1, SameTokens DEF treeVars, budgetVars
  <2>5. NoOvercommit' /\ OvershootBounded' /\ AgentLimits'
    BY <2>1 DEF LedgerInv, NoOvercommit, OvershootBounded, AgentLimits, Admitted,
                treeVars, lifeVars, budgetVars
  <2>6. QED
    BY <2>2, <2>3, <2>4, <2>5 DEF LedgerInv
<1>7. QED
  BY <1>1, <1>2, <1>3, <1>4, <1>5, <1>6 DEF LedgerNext

-----------------------------------------------------------------------------
\* The invariant holds in every reachable state (all of ledger.rs).
THEOREM LedgerInvariant == LedgerSpec => []LedgerInv
<1>1. LedgerInit => LedgerInv
  BY LedgerInitInv
<1>2. LedgerInv /\ [LedgerNext]_ledgerVars => LedgerInv'
  BY LedgerNextInv
<1>3. QED
  BY <1>1, <1>2, PTL DEF LedgerSpec

\* No counter of the ledger leaves the naturals: neither `reserved -= tokens` in
\* settle nor `live -= 1` in shutdown can underflow.
THEOREM LedgerTypes == LedgerSpec => []LedgerTypeOK
<1>1. LedgerInv => LedgerTypeOK
  BY DEF LedgerInv
<1>2. QED
  BY <1>1, LedgerInvariant, PTL

\* Every scope's `reserved` and `used` are those of its subtree (reserve, settle).
THEOREM LedgerAccounting == LedgerSpec => []SubtreeAccounting
<1>1. LedgerInv => SubtreeAccounting
  BY DEF LedgerInv
<1>2. QED
  BY <1>1, LedgerInvariant, PTL

\* An open budget is never overcommitted, at any level of the tree (reserve, settle).
THEOREM LedgerNoOvercommit == LedgerSpec => []NoOvercommit
<1>1. LedgerInv => NoOvercommit
  BY DEF LedgerInv
<1>2. QED
  BY <1>1, LedgerInvariant, PTL

\* A budget is overshot by estimates only (settle's reported excess).
THEOREM LedgerOvershoot == LedgerSpec => []OvershootBounded
<1>1. LedgerInv => OvershootBounded
  BY DEF LedgerInv
<1>2. QED
  BY <1>1, LedgerInvariant, PTL

\* The agent and leaf counters are exact and their limits hold (admit, shutdown).
THEOREM LedgerLimits == LedgerSpec => []AgentLimits
<1>1. LedgerInv => AgentLimits
  BY DEF LedgerInv
<1>2. QED
  BY <1>1, LedgerInvariant, PTL

\* What one step may do below a closed scope: nothing.
ClosedStep ==
  \A n \in Admitted :
    /\ closed[n] =>
         /\ closed'[n]
         /\ Subtree(n)' = Subtree(n)
         /\ \A a \in attempts' \ attempts : a.node \notin Subtree(n)
    /\ admissionClosed[n] \/ ~alive[n] =>
         /\ \A m \in Admitted' \ Admitted : path'[m] # path[n] \cup {m}
         /\ \A a \in attempts' \ attempts : a.node # n

\* Admission refuses a parent that is closed, dead or below an exhausted budget.
LEMMA AdmitClosed ==
  ASSUME LedgerInv, NEW parent \in Admitted, NEW isAgent \in BOOLEAN,
         NEW requestedLimit \in Nat, Admit(parent, isAgent, requestedLimit)
  PROVE  ClosedStep
<1> DEFINE id == scopes
<1>1. /\ id \in NodeId /\ id \notin Admitted /\ Admitted \subseteq NodeId
      /\ Admitted' = Admitted \cup {id}
  <2>1. scopes \in 1 .. MaxNodes /\ scopes < MaxNodes /\ scopes' = scopes + 1
    BY DEF Admit, CanAdmit, LedgerInv, LedgerTypeOK
  <2>2. QED
    BY <2>1, LimitsAssumption DEF Admitted, NodeId
<1>2. /\ path' = [path EXCEPT ![id] = path[parent] \cup {id}]
      /\ path \in [NodeId -> SUBSET NodeId]
      /\ path[id] = {} /\ attempts' = attempts /\ closed' = closed
      /\ alive[parent] /\ ~admissionClosed[parent]
  BY <1>1 DEF Admit, CanAdmit, LedgerInv, LedgerTypeOK, Blank, budgetVars
<1>3. \A m \in path[parent] : ~closed[m]
  <2>1. \A m \in path[parent] : Remaining(m) > 0
    BY DEF Admit, CanAdmit
  <2>2. QED
    BY <2>1 DEF Remaining
<1>4. ASSUME NEW n \in Admitted, closed[n] PROVE Subtree(n)' = Subtree(n)
  BY <1>1, <1>2, <1>3, <1>4 DEF Subtree
<1>5. ASSUME NEW n \in Admitted, n # parent
      PROVE  path'[id] # path[n] \cup {id}
  <2>1. /\ n \in path[n] /\ parent \in path[parent]
        /\ id \notin path[n] /\ id \notin path[parent]
        /\ \A m \in path[n] : m <= n
        /\ \A m \in path[parent] : m <= parent
    BY <1>1, <1>5 DEF LedgerInv, TreeOK
  <2>2. path[n] # path[parent]
    BY <1>1, <1>5, <2>1 DEF NodeId, Admitted
  <2>3. QED
    BY <1>1, <1>2, <2>1, <2>2
<1>6. QED
  BY <1>1, <1>2, <1>4, <1>5 DEF ClosedStep

\* A reservation needs headroom on its whole path, so no closed scope is on it.
LEMMA ReserveClosed ==
  ASSUME LedgerInv, NEW node \in Admitted, NEW prompt \in Nat,
         NEW requested \in Nat, Reserve(node, prompt, requested)
  PROVE  ClosedStep
<1>1. /\ UNCHANGED <<path, closed>> /\ Admitted' = Admitted
      /\ \A a \in attempts' \ attempts : a.node = node
      /\ alive[node] /\ ~admissionClosed[node]
  BY DEF Reserve, CanReserve, Grant, treeVars, Admitted
<1>2. Smaller(MinOutputTokens, requested) > 0 /\ MinOutputTokens \in Nat
  BY LimitsAssumption DEF Reserve, CanReserve, Smaller
<1>3. \A m \in path[node] : ~closed[m]
  <2>1. \A m \in path[node] : Remaining(m) >= prompt + Smaller(MinOutputTokens, requested)
    BY DEF Reserve, CanReserve
  <2>2. ASSUME NEW m \in path[node], closed[m] PROVE FALSE
    <3>1. Remaining(m) = 0
      BY <2>2 DEF Remaining
    <3>2. Smaller(MinOutputTokens, requested) \in Nat
      BY <1>2 DEF Smaller
    <3>3. QED
      BY <1>2, <2>1, <3>1, <3>2
  <2>3. QED
    BY <2>2
<1>4. \A n \in Admitted : Subtree(n)' = Subtree(n)
  BY <1>1 DEF Subtree
<1>5. \A n \in Admitted : closed[n] => node \notin Subtree(n)
  BY <1>3 DEF Subtree
<1>6. QED
  BY <1>1, <1>4, <1>5 DEF ClosedStep

\* A settlement, a closed admission and a shutdown open nothing.
LEMMA SettleClosed ==
  ASSUME LedgerInv, NEW a \in attempts, NEW charged, Settle(a, charged)
  PROVE  ClosedStep
<1>1. /\ UNCHANGED <<path, scopes>> /\ attempts' \subseteq attempts
      /\ \A n \in NodeId : closed[n] => closed'[n]
  BY DEF Settle, treeVars
<1>2. QED
  BY <1>1 DEF ClosedStep, Subtree, Admitted

LEMMA LifeClosed ==
  ASSUME NEW n \in Admitted, CloseAdmission(n) \/ Shutdown(n)
  PROVE  ClosedStep
<1>1. UNCHANGED <<path, scopes, closed, attempts>>
  BY DEF CloseAdmission, Shutdown, treeVars, budgetVars
<1>2. QED
  BY <1>1 DEF ClosedStep, Subtree, Admitted

\* Once closed, a scope admits nothing (admit and reserve check the whole path).
THEOREM LedgerClosed == LedgerSpec => ClosedScopesAdmitNothing
<1>1. ASSUME LedgerInv, LedgerNext PROVE ClosedStep
  <2> USE LimitsAssumption
  <2>1. CASE \E parent \in Admitted, isAgent \in BOOLEAN,
                requestedLimit \in ScopeLimits \cup {BudgetTokens} :
               Admit(parent, isAgent, requestedLimit)
    BY <1>1, <2>1, AdmitClosed
  <2>2. CASE \E node \in Admitted, prompt \in Prompts, requested \in Requests :
               Reserve(node, prompt, requested)
    BY <1>1, <2>2, ReserveClosed
  <2>3. CASE \E a \in attempts : \E charged \in Charges(a) : Settle(a, charged)
    BY <1>1, <2>3, SettleClosed
  <2>4. CASE (\E n \in Admitted : CloseAdmission(n)) \/ \E n \in Admitted : Shutdown(n)
    BY <2>4, LifeClosed
  <2>5. QED
    BY <1>1, <2>1, <2>2, <2>3, <2>4 DEF LedgerNext
<1>2. LedgerInv /\ [LedgerNext]_ledgerVars => [ClosedStep]_ledgerVars
  BY <1>1
<1>3. QED
  BY <1>2, LedgerInvariant, PTL DEF LedgerSpec, ClosedScopesAdmitNothing, ClosedStep

-----------------------------------------------------------------------------
(* Model calls: the tasks that use the ledger.                             *)

Over == {"reporting", "done"}
Holding == {"granted", "announced", "sent", "grace"}
Sending == {"announced", "sent", "grace"}

\* Between a scope and any ancestor of it there is a child of the ancestor.
Ancestry ==
  \A n \in Admitted :
    /\ Root \in path[n]
    /\ \A m \in path[n] : m # n => \E c \in ChildrenOf(m) : c \in path[n]

\* A scope has a task once it is admitted, and its slot until the task is done.
Lifecycle ==
  \A n \in NodeId : /\ n \in Admitted <=> pc[n] # "absent"
                    /\ alive[n] <=> pc[n] \notin {"absent", "done"}

\* Everything below a scope that reports has ended.
BelowEnded ==
  \A n \in NodeId : pc[n] \in Over => \A m \in Subtree(n) \ {n} : pc[m] = "done"

\* A panic is noted, or about to be, or the trace has failed; the root accounts for it.
PanicNoted ==
  /\ panics => \/ panicked \/ broken
               \/ \E n \in NodeId : pc[n] = "settled" /\ call[n].verdict = "panic"
  /\ pc[Root] \in Over /\ panicked => failed

AttemptsInv ==
  /\ LedgerInv /\ AttemptsTypeOK /\ HeldOnlyInFlight
  /\ Ancestry /\ Lifecycle /\ BelowEnded /\ ReportFinal /\ PanicNoted

-----------------------------------------------------------------------------
\* A scope whose task is not done has no ancestor that reports.
LEMMA AboveActive ==
  ASSUME AttemptsInv, NEW n \in Admitted, pc[n] # "done", NEW r \in path[n], r # n
  PROVE  pc[r] \notin Over
<1>1. r \in NodeId /\ n \in NodeId /\ n \in Subtree(r) \ {r}
  BY DEF AttemptsInv, LedgerInv, LedgerTypeOK, Subtree, Admitted
<1>2. QED
  BY <1>1 DEF AttemptsInv, BelowEnded

\* A task that moves between two phases before its report keeps what is said about
\* lives and endings, and the root has not reported.
LEMMA PhaseStep ==
  ASSUME AttemptsInv, NEW n \in Admitted, NEW q \in Phase \ ({"absent"} \cup Over),
         pc[n] \notin Over, pc' = [pc EXCEPT ![n] = q],
         UNCHANGED <<path, scopes, alive>>
  PROVE  /\ pc' \in [NodeId -> Phase] /\ pc'[n] = q
         /\ \A m \in NodeId : m # n => pc'[m] = pc[m]
         /\ Ancestry' /\ Lifecycle' /\ BelowEnded'
         /\ pc'[Root] \notin Over
<1>1. /\ pc \in [NodeId -> Phase] /\ n \in NodeId /\ Root \in NodeId
      /\ pc[n] # "absent" /\ Root \in path[n]
  BY DEF AttemptsInv, AttemptsTypeOK, Lifecycle, Ancestry, LedgerInv, TreeOK, Admitted
<1>2. /\ pc' \in [NodeId -> Phase] /\ pc'[n] = q
      /\ \A m \in NodeId : m # n => pc'[m] = pc[m]
  BY <1>1
<1>3. Admitted' = Admitted /\ \A m \in NodeId : Subtree(m)' = Subtree(m)
  BY DEF Admitted, Subtree
<1>4. Ancestry'
  <2>1. \A m \in NodeId : ChildrenOf(m)' = ChildrenOf(m)
    BY <1>3 DEF ChildrenOf
  <2>2. \A m \in Admitted : path[m] \subseteq NodeId
    BY DEF AttemptsInv, LedgerInv, TreeOK, Admitted
  <2>3. QED
    BY <1>3, <2>1, <2>2 DEF AttemptsInv, Ancestry
<1>5. Lifecycle'
  BY <1>1, <1>2, <1>3 DEF AttemptsInv, Lifecycle, Over
<1>6. BelowEnded'
  BY <1>1, <1>2, <1>3 DEF AttemptsInv, BelowEnded, Subtree, Over
<1>7. pc'[Root] \notin Over
  BY <1>1, <1>2, AboveActive DEF Over
<1>8. QED
  BY <1>2, <1>4, <1>5, <1>6, <1>7

\* What is charged to a scope before its report leaves all reports final.
LEMMA ReportsKept ==
  ASSUME AttemptsInv, NEW n \in Admitted, pc[n] \notin Over, pc'[n] \notin Over,
         \A m \in NodeId : m # n => pc'[m] = pc[m],
         UNCHANGED report,
         \A m \in NodeId : m \notin path[n] => used'[m] = used[m] /\ own'[m] = own[m],
         \A m \in NodeId : m # n => own'[m] = own[m]
  PROVE  ReportFinal'
<1>1. ASSUME NEW r \in NodeId, pc'[r] \in Over
      PROVE  report'[r] = [self |-> own'[r], subtree |-> used'[r]]
  <2>1. r # n /\ pc[r] \in Over
    BY <1>1
  <2>2. r \notin path[n]
    BY <2>1, AboveActive DEF Over
  <2>3. QED
    BY <1>1, <2>1, <2>2 DEF AttemptsInv, ReportFinal, Over
<1>2. QED
  BY <1>1 DEF ReportFinal, Over

\* The permits and reservations held, seen from one task's phase.
LEMMA HoldersStep ==
  ASSUME AttemptsInv, NEW n \in Admitted,
         \A m \in NodeId : m # n => pc'[m] = pc[m]
  PROVE  /\ IsFiniteSet(Holders) /\ n \in NodeId
         /\ Holders' = IF pc'[n] \in Holding THEN Holders \cup {n} ELSE Holders \ {n}
         /\ Reserving' = IF pc'[n] \in Sending THEN Reserving \cup {n} ELSE Reserving \ {n}
         /\ n \in Holders <=> pc[n] \in Holding
         /\ n \in Reserving <=> pc[n] \in Sending
<1>1. n \in NodeId
  BY DEF Admitted
<1>2. IsFiniteSet(Holders)
  BY FiniteScopes DEF Holders
<1>3. QED
  BY <1>1, <1>2 DEF Holders, Reserving, Holding, Sending

\* A step that leaves the ledger alone leaves its invariant alone.
LEMMA LedgerKept ==
  ASSUME LedgerInv, UNCHANGED ledgerVars
  PROVE  LedgerInv'
BY LedgerNextInv

-----------------------------------------------------------------------------
\* The root alone, about to start.
LEMMA AttemptsInitInv == AttemptsInit => AttemptsInv
<1> SUFFICES ASSUME AttemptsInit PROVE AttemptsInv
  OBVIOUS
<1>1. LedgerInv
  BY LedgerInitInv DEF AttemptsInit
<1>2. Root \in NodeId /\ Admitted = {Root} /\ path[Root] = {Root} /\ attempts = {}
      /\ \A n \in NodeId : alive[n] <=> n = Root
  <2>1. Root \in NodeId
    BY LimitsAssumption DEF NodeId, Root
  <2>2. LedgerInit
    BY DEF AttemptsInit
  <2>3. Admitted = {Root}
    BY <2>1, <2>2, LimitsAssumption DEF LedgerInit, Admitted, NodeId, Root
  <2>4. path[Root] = {Root} /\ attempts = {} /\ \A n \in NodeId : alive[n] <=> n = Root
    BY <2>1, <2>2 DEF LedgerInit
  <2>5. QED
    BY <2>1, <2>3, <2>4
<1>3. /\ pc = [n \in NodeId |-> IF n = Root THEN "starting" ELSE "absent"]
      /\ free = Slots /\ panics = FALSE
  BY DEF AttemptsInit
<1>4. AttemptsTypeOK
  <2>1. NoCall \in Locals /\ [self |-> 0, subtree |-> 0] \in Usage /\ free \in 0 .. Slots
    BY SlotsAssumption DEF AttemptsInit, NoCall, Locals, Verdict, Usage
  <2>2. pc \in [NodeId -> Phase]
    BY <1>3 DEF Phase
  <2>3. QED
    BY <2>1, <2>2 DEF AttemptsInit, AttemptsTypeOK
<1>5. HeldOnlyInFlight
  <2>1. Holders = {} /\ Reserving = {}
    BY <1>3 DEF Holders, Reserving
  <2>2. Cardinality({}) = 0
    BY FS_EmptySet
  <2>3. QED
    BY <1>2, <1>3, <2>1, <2>2, SlotsAssumption DEF HeldOnlyInFlight
<1>6. Ancestry /\ Lifecycle /\ BelowEnded /\ ReportFinal /\ PanicNoted
  BY <1>2, <1>3 DEF Ancestry, Lifecycle, BelowEnded, ReportFinal, PanicNoted, Over
<1>7. QED
  BY <1>1, <1>4, <1>5, <1>6 DEF AttemptsInv

-----------------------------------------------------------------------------
\* Steps in which neither a permit nor a reservation changes hands.
LocalStep(n) ==
  \/ Start(n) \/ Call(n) \/ Finish(n) \/ GiveUp(n) \/ Dispatch(n)
  \/ SignalProvider(n) \/ RecordEnd(n) \/ LoseEnd(n) \/ BackoffOver(n)

\* What these steps do to the locals of the calls and to the flags.
LEMMA LocalData ==
  ASSUME AttemptsInv, NEW n \in Admitted, LocalStep(n)
  PROVE  /\ calls' \in [NodeId -> Nat] /\ call' \in [NodeId -> Locals]
         /\ \A m \in NodeId : m # n => call'[m] = call[m]
         /\ panicked' \in BOOLEAN /\ panics' \in BOOLEAN /\ broken' \in BOOLEAN
<1>1. /\ calls \in [NodeId -> Nat] /\ call \in [NodeId -> Locals] /\ n \in NodeId
      /\ panicked \in BOOLEAN /\ panics \in BOOLEAN /\ broken \in BOOLEAN
  BY DEF AttemptsInv, AttemptsTypeOK, Admitted
<1>2. NoCall \in Locals
  BY SlotsAssumption DEF NoCall, Locals, Verdict
<1>3. CASE UNCHANGED call /\ UNCHANGED calls
  BY <1>1, <1>3 DEF LocalStep, Start, Call, Finish, GiveUp, Dispatch, SignalProvider,
       RecordEnd, LoseEnd, BackoffOver, Emits, runVars
<1>4. CASE Call(n)
  <2>1. PICK prompt \in Prompts, requested \in Requests :
          call' = [call EXCEPT ![n].prompt = prompt, ![n].output = requested]
    BY <1>4 DEF Call
  <2>2. prompt \in Nat /\ requested \in Nat
    BY LimitsAssumption
  <2>3. call' = [call EXCEPT ![n] = [call[n] EXCEPT !.prompt = prompt, !.output = requested]]
    BY <1>1, <2>1
  <2>4. [call[n] EXCEPT !.prompt = prompt, !.output = requested] \in Locals
    BY <1>1, <2>2 DEF Locals
  <2>5. calls' \in [NodeId -> Nat] /\ UNCHANGED <<panicked, panics, broken>>
    BY <1>1, <1>4 DEF Call, runVars
  <2>6. call' \in [NodeId -> Locals] /\ \A m \in NodeId : m # n => call'[m] = call[m]
    BY <1>1, <2>3, <2>4
  <2>7. QED
    BY <1>1, <2>5, <2>6
<1>5. CASE call' = [call EXCEPT ![n] = NoCall] /\ ~Call(n)
  BY <1>1, <1>2, <1>5 DEF LocalStep, Start, Finish, GiveUp, Dispatch, SignalProvider,
       RecordEnd, LoseEnd, BackoffOver, Emits, callVars, runVars
<1>6. CASE RecordEnd(n) /\ pc'[n] = "backoff"
  <2>1. /\ call[n].failures < MaxRetries
        /\ call' = [call EXCEPT ![n].failures = @ + 1, ![n].verdict = "none"]
    BY <1>1, <1>6 DEF RecordEnd, Return, Go, AttemptsInv, AttemptsTypeOK
  <2>2. call' = [call EXCEPT ![n] = [call[n] EXCEPT !.failures = call[n].failures + 1,
                                                   !.verdict = "none"]]
    BY <1>1, <2>1
  <2>3. [call[n] EXCEPT !.failures = call[n].failures + 1, !.verdict = "none"] \in Locals
    <3>1. call[n] \in Locals /\ call[n].failures \in 0 .. MaxRetries
      BY <1>1 DEF Locals
    <3>2. call[n].failures + 1 \in 0 .. MaxRetries /\ "none" \in Verdict
      BY <2>1, <3>1, SlotsAssumption DEF Verdict
    <3>3. QED
      BY <3>1, <3>2 DEF Locals
  <2>4. QED
    BY <1>1, <1>6, <2>2, <2>3 DEF RecordEnd
<1>7. QED
  <2>1. CASE GiveUp(n) \/ LoseEnd(n)
    BY <2>1, <1>4, <1>5 DEF GiveUp, LoseEnd, Return
  <2>2. CASE Start(n) \/ Finish(n) \/ Dispatch(n) \/ SignalProvider(n) \/ BackoffOver(n)
    BY <2>2, <1>3 DEF Start, Finish, Dispatch, SignalProvider, BackoffOver, callVars
  <2>3. CASE RecordEnd(n)
    <3>1. pc[n] = "settled" /\ pc \in [NodeId -> Phase]
      BY <2>3 DEF RecordEnd, AttemptsInv, AttemptsTypeOK
    <3>2. ~Call(n)
      BY <3>1 DEF Call
    <3>3. pc'[n] = "backoff" \/ call' = [call EXCEPT ![n] = NoCall]
      BY <1>1, <2>3, <3>1 DEF RecordEnd, Return, Go
    <3>4. QED
      BY <2>3, <3>2, <3>3, <1>5, <1>6
  <2>4. QED
    BY <2>1, <2>2, <2>3, <1>4 DEF LocalStep

LEMMA LocalStepInv ==
  ASSUME AttemptsInv, NEW n \in Admitted, LocalStep(n)
  PROVE  AttemptsInv'
<1>1. /\ pc \in [NodeId -> Phase] /\ n \in NodeId
      /\ UNCHANGED <<ledgerVars, free, stopped, failed, report>>
  BY DEF AttemptsInv, AttemptsTypeOK, Admitted, LocalStep, Start, Call, Finish, GiveUp,
       Dispatch, SignalProvider, RecordEnd, LoseEnd, BackoffOver, runVars
<1>2. PICK q \in Phase \ ({"absent", "joining"} \cup Over) :
        /\ pc' = [pc EXCEPT ![n] = q]
        /\ q \in Holding <=> pc[n] \in Holding
        /\ q \in Sending <=> pc[n] \in Sending
        /\ pc[n] \notin Over
  <2>1. CASE Start(n)
    BY <2>1 DEF Start, Go, Phase, Over, Holding, Sending
  <2>2. CASE Call(n)
    BY <2>2 DEF Call, Go, Phase, Over, Holding, Sending
  <2>3. CASE Finish(n)
    BY <2>3 DEF Finish, Go, Phase, Over, Holding, Sending
  <2>4. CASE GiveUp(n)
    BY <2>4 DEF GiveUp, Return, Go, Phase, Over, Holding, Sending
  <2>5. CASE Dispatch(n)
    BY <2>5 DEF Dispatch, Go, Phase, Over, Holding, Sending
  <2>6. CASE SignalProvider(n)
    BY <2>6 DEF SignalProvider, Go, Phase, Over, Holding, Sending
  <2>7. CASE RecordEnd(n)
    BY <2>7 DEF RecordEnd, Return, Go, Phase, Over, Holding, Sending
  <2>8. CASE LoseEnd(n)
    BY <2>8 DEF LoseEnd, Return, Go, Phase, Over, Holding, Sending
  <2>9. CASE BackoffOver(n)
    BY <2>9 DEF BackoffOver, Go, Phase, Over, Holding, Sending
  <2>10. QED
    BY <2>1, <2>2, <2>3, <2>4, <2>5, <2>6, <2>7, <2>8, <2>9 DEF LocalStep
<1>3. UNCHANGED <<path, scopes, alive, own, used, attempts>>
  BY <1>1 DEF ledgerVars, treeVars, lifeVars, budgetVars
<1>4. /\ pc' \in [NodeId -> Phase] /\ pc'[n] = q
      /\ \A m \in NodeId : m # n => pc'[m] = pc[m]
      /\ Ancestry' /\ Lifecycle' /\ BelowEnded'
      /\ pc'[Root] \notin Over
  BY <1>2, <1>3, PhaseStep
<1>5. LedgerInv'
  BY <1>1, LedgerKept DEF AttemptsInv
<1>6. AttemptsTypeOK'
  BY <1>1, <1>4, LocalData DEF AttemptsInv, AttemptsTypeOK
<1>7. HeldOnlyInFlight'
  <2>1. Holders' = Holders /\ Reserving' = Reserving
    BY <1>2, <1>4, HoldersStep
  <2>2. QED
    BY <1>1, <1>3, <2>1 DEF AttemptsInv, HeldOnlyInFlight
<1>8. ReportFinal'
  BY <1>1, <1>2, <1>3, <1>4, ReportsKept
<1>9. PanicNoted'
  <2>1. CASE RecordEnd(n)
    BY <2>1, <1>4, LocalData DEF RecordEnd, AttemptsInv, PanicNoted
  <2>2. CASE LoseEnd(n)
    BY <2>2, <1>4 DEF LoseEnd, Emits, AttemptsInv, PanicNoted
  <2>3. CASE Start(n) \/ Call(n) \/ Finish(n) \/ GiveUp(n) \/ Dispatch(n)
             \/ SignalProvider(n) \/ BackoffOver(n)
    <3>1. pc[n] # "settled" /\ (panicked => panicked') /\ (broken => broken')
          /\ (panics' => panics \/ panicked')
      BY <2>3 DEF Start, Call, Finish, GiveUp, Dispatch, SignalProvider, BackoffOver,
           Emits, runVars, AttemptsInv, AttemptsTypeOK
    <3>2. QED
      BY <1>4, <3>1, LocalData DEF AttemptsInv, PanicNoted
  <2>4. QED
    BY <2>1, <2>2, <2>3 DEF LocalStep
<1>10. QED
  BY <1>4, <1>5, <1>6, <1>7, <1>8, <1>9 DEF AttemptsInv

-----------------------------------------------------------------------------
\* A permit is taken by a task that held none, or returned by one that held it.
LEMMA PermitStep ==
  ASSUME AttemptsInv, NEW n \in Admitted,
         \A m \in NodeId : m # n => pc'[m] = pc[m],
         \/ pc[n] \notin Holding /\ pc'[n] \in Holding /\ free > 0 /\ free' = free - 1
         \/ pc[n] \in Holding /\ pc'[n] \notin Holding /\ free' = free + 1
  PROVE  free' \in 0 .. Slots /\ free' + Cardinality(Holders') = Slots
<1>1. /\ IsFiniteSet(Holders) /\ Cardinality(Holders) \in Nat
      /\ free \in 0 .. Slots /\ free + Cardinality(Holders) = Slots
  BY HoldersStep, FS_CardinalityType DEF AttemptsInv, AttemptsTypeOK, HeldOnlyInFlight
<1>2. CASE pc[n] \notin Holding /\ pc'[n] \in Holding /\ free > 0 /\ free' = free - 1
  <2>1. n \notin Holders /\ Holders' = Holders \cup {n}
    BY <1>2, HoldersStep
  <2>2. Cardinality(Holders') = Cardinality(Holders) + 1
    BY <1>1, <2>1, FS_AddElement
  <2>3. QED
    BY <1>1, <1>2, <2>2, SlotsAssumption
<1>3. CASE pc[n] \in Holding /\ pc'[n] \notin Holding /\ free' = free + 1
  <2>1. n \in Holders /\ Holders' = Holders \ {n}
    BY <1>3, HoldersStep
  <2>2. Cardinality(Holders') = Cardinality(Holders) - 1 /\ Cardinality(Holders') \in Nat
    BY <1>1, <2>1, FS_RemoveElement, FS_CardinalityType
  <2>3. QED
    BY <1>1, <1>3, <2>2, SlotsAssumption
<1>4. QED
  BY <1>2, <1>3

\* The loss of a panic's trace while a task moves: nobody else's verdict is touched.
LEMMA PanicKept ==
  ASSUME AttemptsInv, NEW n \in Admitted, pc[n] # "settled", pc'[Root] \notin Over,
         \A m \in NodeId : m # n => pc'[m] = pc[m] /\ call'[m] = call[m],
         panicked' = panicked, broken => broken',
         panics' => panics \/ (pc'[n] = "settled" /\ call'[n].verdict = "panic")
  PROVE  PanicNoted'
<1>1. n \in NodeId
  BY DEF Admitted
<1>2. QED
  BY <1>1 DEF AttemptsInv, PanicNoted

\* Getting a permit, and giving it back unused.
LEMMA SlotStepInv ==
  ASSUME AttemptsInv, NEW n \in Admitted, Acquire(n) \/ Refuse(n)
  PROVE  AttemptsInv'
<1>1. /\ pc \in [NodeId -> Phase] /\ n \in NodeId
      /\ call \in [NodeId -> Locals]
      /\ UNCHANGED <<ledgerVars, calls, runVars>>
  BY DEF AttemptsInv, AttemptsTypeOK, Admitted, Acquire, Refuse, callVars
<1>2. PICK q \in {"granted", "ended"} :
        /\ pc' = [pc EXCEPT ![n] = q]
        /\ \/ pc[n] = "queued" /\ q = "granted" /\ free > 0 /\ free' = free - 1
           \/ pc[n] = "granted" /\ q = "ended" /\ free' = free + 1
  BY DEF Acquire, Refuse, Go, Return
<1>3. UNCHANGED <<path, scopes, alive, own, used, attempts>>
  BY <1>1 DEF ledgerVars, treeVars, lifeVars, budgetVars
<1>4. pc[n] \notin Over /\ q \in Phase \ ({"absent"} \cup Over) /\ pc[n] # "settled"
  BY <1>2 DEF Over, Phase
<1>5. /\ pc' \in [NodeId -> Phase] /\ pc'[n] = q
      /\ \A m \in NodeId : m # n => pc'[m] = pc[m]
      /\ Ancestry' /\ Lifecycle' /\ BelowEnded'
      /\ pc'[Root] \notin Over
  BY <1>2, <1>3, <1>4, PhaseStep
<1>6. LedgerInv'
  BY <1>1, LedgerKept DEF AttemptsInv
<1>7. call' \in [NodeId -> Locals] /\ \A m \in NodeId : m # n => call'[m] = call[m]
  <2>1. NoCall \in Locals
    BY SlotsAssumption DEF NoCall, Locals, Verdict
  <2>2. call' = call \/ call' = [call EXCEPT ![n] = NoCall]
    BY DEF Acquire, Refuse, Return, callVars
  <2>3. QED
    BY <1>1, <2>1, <2>2
<1>8. free' \in 0 .. Slots /\ free' + Cardinality(Holders') = Slots
  BY <1>2, <1>5, PermitStep DEF Holding
<1>9. AttemptsTypeOK'
  BY <1>1, <1>5, <1>7, <1>8 DEF AttemptsInv, AttemptsTypeOK, runVars
<1>10. HeldOnlyInFlight'
  <2>1. Reserving' = Reserving
    BY <1>2, <1>5, HoldersStep DEF Sending
  <2>2. QED
    BY <1>3, <1>8, <2>1 DEF AttemptsInv, HeldOnlyInFlight
<1>11. ReportFinal'
  BY <1>1, <1>3, <1>4, <1>5, ReportsKept DEF runVars, Over
<1>12. PanicNoted'
  <2>1. panicked' = panicked /\ panics' = panics /\ broken' = broken
    BY <1>1 DEF runVars
  <2>2. /\ broken => broken'
        /\ panics' => panics \/ (pc'[n] = "settled" /\ call'[n].verdict = "panic")
    BY <2>1, Zenon
  <2>3. \A m \in NodeId : m # n => pc'[m] = pc[m] /\ call'[m] = call[m]
    BY <1>5, <1>7
  <2>4. QED
    BY <1>4, <1>5, <2>1, <2>2, <2>3, PanicKept, Zenon
<1>13. QED
  BY <1>5, <1>6, <1>9, <1>10, <1>11, <1>12 DEF AttemptsInv

\* A reservation is made by a task that has a permit and no reservation yet.
LEMMA ReserveAttemptInv ==
  ASSUME AttemptsInv, NEW n \in Admitted, ReserveAttempt(n)
  PROVE  AttemptsInv'
<1>1. /\ pc \in [NodeId -> Phase] /\ n \in NodeId
      /\ call \in [NodeId -> Locals]
      /\ UNCHANGED <<calls, free, runVars>>
      /\ pc[n] = "granted" /\ pc' = [pc EXCEPT ![n] = "announced"]
  BY DEF AttemptsInv, AttemptsTypeOK, Admitted, ReserveAttempt, Go
<1>2. call[n].prompt \in Nat /\ call[n].output \in Nat
  BY <1>1 DEF Locals
<1>3. Reserve(n, call[n].prompt, call[n].output)
  BY DEF ReserveAttempt
<1>4. LedgerInv'
  BY <1>2, <1>3, ReserveStep DEF AttemptsInv
<1>5. PICK tokens :
        /\ attempts' = attempts \cup {[id |-> nextAttempt, node |-> n, tokens |-> tokens]}
        /\ UNCHANGED <<path, scopes, alive, own, used>>
  BY <1>3 DEF Reserve, Grant, treeVars, lifeVars
<1>6. /\ pc' \in [NodeId -> Phase] /\ pc'[n] = "announced"
      /\ \A m \in NodeId : m # n => pc'[m] = pc[m]
      /\ Ancestry' /\ Lifecycle' /\ BelowEnded'
      /\ pc'[Root] \notin Over
  BY <1>1, <1>5, PhaseStep DEF Over, Phase
<1>7. {a.node : a \in attempts} = Reserving /\ n \notin Reserving
  BY <1>1 DEF AttemptsInv, HeldOnlyInFlight, Reserving
<1>8. HeldOnlyInFlight'
  <2>1. Holders' = Holders /\ Reserving' = Reserving \cup {n}
    BY <1>1, <1>6, HoldersStep DEF Holding, Sending
  <2>2. {a.node : a \in attempts'} = Reserving'
    <3>1. PICK new : new.node = n /\ attempts' = attempts \cup {new}
      BY <1>5
    <3>2. {a.node : a \in attempts'} = {a.node : a \in attempts} \cup {n}
      BY <3>1
    <3>3. QED
      BY <1>7, <2>1, <3>2
  <2>3. \A a, b \in attempts' : a.node = b.node => a = b
    BY <1>5, <1>7 DEF AttemptsInv, HeldOnlyInFlight
  <2>4. QED
    BY <1>1, <2>1, <2>2, <2>3 DEF AttemptsInv, HeldOnlyInFlight
<1>9. call' \in [NodeId -> Locals] /\ \A m \in NodeId : m # n => call'[m] = call[m]
  <2>1. \E a \in attempts' \ attempts :
          call' = [call EXCEPT ![n].output = a.tokens - call[n].prompt]
    BY DEF ReserveAttempt
  <2>2. PICK granted \in Nat : call' = [call EXCEPT ![n].output = granted]
    <3>1. PICK headroom \in {Remaining(m) : m \in path[n]} :
            Grant(n, call[n].prompt + Smaller(call[n].output, headroom - call[n].prompt))
      BY <1>3 DEF Reserve
    <3>2. headroom >= call[n].prompt /\ headroom \in Int
      <4>1. PICK m \in path[n] : headroom = Remaining(m)
        OBVIOUS
      <4>2. headroom >= call[n].prompt + Smaller(MinOutputTokens, call[n].output)
        BY <1>3, <4>1 DEF Reserve, CanReserve
      <4>3. m \in NodeId /\ headroom \in Nat
        BY <1>1, <4>1 DEF AttemptsInv, LedgerInv, LedgerTypeOK, Remaining, Monus
      <4>4. Smaller(MinOutputTokens, call[n].output) \in Nat
        BY <1>2, LimitsAssumption DEF Smaller
      <4>5. QED
        BY <1>2, <4>2, <4>3, <4>4
    <3>3. Smaller(call[n].output, headroom - call[n].prompt) \in Nat
      BY <1>2, <3>2 DEF Smaller
    <3>4. \A a \in attempts' \ attempts :
            a.tokens = call[n].prompt + Smaller(call[n].output, headroom - call[n].prompt)
      BY <3>1 DEF Grant
    <3>5. \A a \in attempts' \ attempts : a.tokens - call[n].prompt \in Nat
      BY <1>2, <3>3, <3>4
    <3>6. QED
      BY <2>1, <3>5
  <2>3. call' = [call EXCEPT ![n] = [call[n] EXCEPT !.output = granted]]
    BY <1>1, <2>2
  <2>4. [call[n] EXCEPT !.output = granted] \in Locals
    BY <1>1 DEF Locals
  <2>5. QED
    BY <1>1, <2>3, <2>4
<1>10. AttemptsTypeOK'
  BY <1>1, <1>6, <1>9 DEF AttemptsInv, AttemptsTypeOK, runVars
<1>11. ReportFinal'
  BY <1>1, <1>5, <1>6, ReportsKept DEF runVars, Over
<1>12. PanicNoted'
  <2>1. /\ panicked' = panicked /\ panics' = panics /\ broken' = broken
        /\ pc[n] # "settled"
    BY <1>1 DEF runVars
  <2>2. /\ broken => broken'
        /\ panics' => panics \/ (pc'[n] = "settled" /\ call'[n].verdict = "panic")
    BY <2>1, Zenon
  <2>3. \A m \in NodeId : m # n => pc'[m] = pc[m] /\ call'[m] = call[m]
    BY <1>6, <1>9
  <2>4. QED
    BY <1>6, <2>1, <2>2, <2>3, PanicKept, Zenon
<1>13. QED
  BY <1>4, <1>6, <1>8, <1>10, <1>11, <1>12 DEF AttemptsInv

\* The end of an attempt: its reservation is settled, its permit returned.
LEMMA EndAttemptInv ==
  ASSUME AttemptsInv, NEW n \in Admitted, NEW q \in {"settled", "ended"},
         NEW charged \in Nat, EndAttempt(n, charged),
         pc[n] \in Sending, pc' = [pc EXCEPT ![n] = q],
         UNCHANGED <<calls, stopped, panicked, failed, report>>,
         call' \in [NodeId -> Locals],
         \A m \in NodeId : m # n => call'[m] = call[m],
         panics' \in BOOLEAN, broken' \in BOOLEAN, broken => broken',
         panics' => panics \/ (pc'[n] = "settled" /\ call'[n].verdict = "panic")
  PROVE  AttemptsInv'
<1>1. pc \in [NodeId -> Phase] /\ n \in NodeId
  BY DEF AttemptsInv, AttemptsTypeOK, Admitted
<1>2. PICK a \in attempts : a.node = n /\ Settle(a, charged)
  BY DEF EndAttempt
<1>3. LedgerInv'
  BY <1>2, SettleStep DEF AttemptsInv
<1>4. /\ attempts' = attempts \ {a}
      /\ UNCHANGED <<path, scopes, alive>>
      /\ own' = [own EXCEPT ![n] = @ + charged]
      /\ used' = [m \in NodeId |-> IF m \in path[n] THEN used[m] + charged ELSE used[m]]
      /\ own \in [NodeId -> Nat] /\ used \in [NodeId -> Nat] /\ n \in path[n]
  BY <1>2 DEF Settle, treeVars, lifeVars, AttemptsInv, LedgerInv, LedgerTypeOK, TreeOK
<1>5. /\ pc' \in [NodeId -> Phase] /\ pc'[n] = q
      /\ \A m \in NodeId : m # n => pc'[m] = pc[m]
      /\ Ancestry' /\ Lifecycle' /\ BelowEnded'
      /\ pc'[Root] \notin Over
  <2>1. q \in Phase \ ({"absent"} \cup Over) /\ pc[n] \notin Over
    BY DEF Phase, Over, Sending
  <2>2. QED
    BY <1>4, <2>1, PhaseStep
<1>6. free' \in 0 .. Slots /\ free' + Cardinality(Holders') = Slots
  <2>1. pc[n] \in Holding /\ pc'[n] \notin Holding /\ free' = free + 1
    BY <1>5 DEF Holding, Sending, EndAttempt
  <2>2. QED
    BY <1>5, <2>1, PermitStep
<1>7. HeldOnlyInFlight'
  <2>1. Reserving' = Reserving \ {n}
    BY <1>5, HoldersStep DEF Sending
  <2>2. /\ {b.node : b \in attempts} = Reserving
        /\ \A b, c \in attempts : b.node = c.node => b = c
    BY DEF AttemptsInv, HeldOnlyInFlight
  <2>3. {b.node : b \in attempts'} = Reserving'
    BY <1>2, <1>4, <2>1, <2>2
  <2>4. QED
    BY <1>4, <1>6, <2>2, <2>3 DEF HeldOnlyInFlight
<1>8. AttemptsTypeOK'
  BY <1>1, <1>5, <1>6 DEF AttemptsInv, AttemptsTypeOK
<1>9. ReportFinal'
  <2>1. \A m \in NodeId : m \notin path[n] => used'[m] = used[m] /\ own'[m] = own[m]
    BY <1>4
  <2>2. \A m \in NodeId : m # n => own'[m] = own[m]
    BY <1>4
  <2>3. pc[n] \notin Over /\ pc'[n] \notin Over
    BY <1>5 DEF Over, Sending
  <2>4. QED
    BY <1>5, <2>1, <2>2, <2>3, ReportsKept
<1>10. PanicNoted'
  <2>1. pc[n] # "settled"
    BY DEF Sending
  <2>2. QED
    BY <1>5, <2>1, PanicKept, Zenon
<1>11. QED
  BY <1>3, <1>5, <1>7, <1>8, <1>9, <1>10 DEF AttemptsInv

\* A withdrawn attempt, an answer, and a provider that did not react in time.
LEMMA SettlingStepInv ==
  ASSUME AttemptsInv, NEW n \in Admitted, Withdraw(n) \/ Answer(n) \/ GraceOver(n)
  PROVE  AttemptsInv'
<1>1. /\ call \in [NodeId -> Locals] /\ n \in NodeId
      /\ panics \in BOOLEAN /\ broken \in BOOLEAN
      /\ \A a \in attempts : a.tokens \in Nat
  BY DEF AttemptsInv, AttemptsTypeOK, Admitted, LedgerInv, LedgerTypeOK, Attempt
<1>2. ASSUME NEW v \in Verdict, call' = [call EXCEPT ![n].verdict = v]
      PROVE  /\ call' \in [NodeId -> Locals] /\ call'[n].verdict = v
             /\ \A m \in NodeId : m # n => call'[m] = call[m]
  <2>1. call' = [call EXCEPT ![n] = [call[n] EXCEPT !.verdict = v]]
    BY <1>1, <1>2
  <2>2. [call[n] EXCEPT !.verdict = v] \in Locals /\ [call[n] EXCEPT !.verdict = v].verdict = v
    BY <1>1 DEF Locals
  <2>3. QED
    BY <1>1, <2>1, <2>2
<1>3. CASE Withdraw(n)
  <2>1. EndAttempt(n, 0) /\ pc[n] \in Sending
    BY <1>3 DEF Withdraw, Sending
  <2>2. UNCHANGED <<calls, stopped, panicked, failed, report>> /\ panics' = panics
    BY <1>3 DEF Withdraw
  <2>3. /\ call' \in [NodeId -> Locals]
        /\ \A m \in NodeId : m # n => call'[m] = call[m]
    <3>1. NoCall \in Locals /\ "retry" \in Verdict
      BY SlotsAssumption DEF NoCall, Locals, Verdict
    <3>2. CASE call' = [call EXCEPT ![n] = NoCall]
      BY <1>1, <3>1, <3>2
    <3>3. CASE call' = [call EXCEPT ![n].verdict = "retry"]
      BY <1>2, <3>1, <3>3
    <3>4. QED
      BY <1>3, <3>2, <3>3 DEF Withdraw, Return
  <2>4. broken' \in BOOLEAN /\ (broken => broken')
    <3>1. CASE UNCHANGED broken
      BY <1>1, <3>1
    <3>2. CASE broken' = (broken \/ ~FALSE)
      BY <3>2
    <3>3. QED
      BY <1>3, <3>1, <3>2 DEF Withdraw, Emits
  <2>5. \E q \in {"settled", "ended"} : pc' = [pc EXCEPT ![n] = q]
    BY <1>3 DEF Withdraw, Return, Go
  <2>6. /\ 0 \in Nat /\ panics' \in BOOLEAN
        /\ panics' => panics \/ (pc'[n] = "settled" /\ call'[n].verdict = "panic")
    BY <1>1, <2>2, Zenon
  <2>7. QED
    BY <2>1, <2>2, <2>3, <2>4, <2>5, <2>6, EndAttemptInv, Zenon
<1>4. CASE Answer(n)
  <2>1. PICK outcome \in Outcomes(n) :
          /\ EndAttempt(n, outcome.charged)
          /\ call' = [call EXCEPT ![n].verdict = outcome.as]
          /\ panics' = (panics \/ outcome.as = "panic")
    BY <1>4 DEF Answer
  <2>2. outcome.charged \in Nat /\ outcome.as \in Verdict
    <3>1. CASE outcome \in [charged : Usages, as : {"ok"}]
      BY <3>1, LimitsAssumption DEF Verdict
    <3>2. CASE outcome \in [charged : {0}, as : {"retry", "fail"}]
      BY <3>2 DEF Verdict
    <3>3. CASE outcome \in [charged : {a.tokens : a \in {b \in attempts : b.node = n}},
                            as : {"retry", "fail", "panic"}]
      BY <1>1, <3>3 DEF Verdict
    <3>4. QED
      BY <3>1, <3>2, <3>3 DEF Outcomes
  <2>3. /\ call' \in [NodeId -> Locals] /\ call'[n].verdict = outcome.as
        /\ \A m \in NodeId : m # n => call'[m] = call[m]
    BY <1>2, <2>1, <2>2
  <2>4. /\ UNCHANGED <<calls, stopped, panicked, failed, report>> /\ broken' = broken
        /\ pc[n] \in Sending /\ pc' = [pc EXCEPT ![n] = "settled"]
    BY <1>4 DEF Answer, Go, Sending
  <2>5. /\ pc'[n] = "settled" /\ panics' \in BOOLEAN /\ broken' \in BOOLEAN
        /\ (panics' => panics \/ (pc'[n] = "settled" /\ call'[n].verdict = "panic"))
    <3>1. pc'[n] = "settled"
      BY <1>1, <2>4 DEF AttemptsInv, AttemptsTypeOK
    <3>2. panics' \in BOOLEAN /\ broken' \in BOOLEAN
      BY <1>1, <2>1, <2>4, Zenon
    <3>3. panics' => panics \/ call'[n].verdict = "panic"
      BY <2>1, <2>3
    <3>4. QED
      BY <3>1, <3>2, <3>3, Zenon
  <2>6. "settled" \in {"settled", "ended"} /\ (broken => broken')
    BY <2>4
  <2>7. QED
    BY <2>1, <2>2, <2>3, <2>4, <2>5, <2>6, EndAttemptInv, Zenon
<1>5. CASE GraceOver(n)
  <2>1. PICK charged \in Nat : EndAttempt(n, charged)
    BY <1>1, <1>5 DEF GraceOver
  <2>2. /\ UNCHANGED <<calls, stopped, panicked, failed, report>>
        /\ broken' = broken /\ panics' = panics
        /\ pc[n] \in Sending /\ pc' = [pc EXCEPT ![n] = "settled"]
        /\ call' = [call EXCEPT ![n].verdict = "retry"]
    BY <1>5 DEF GraceOver, Go, Sending, runVars
  <2>3. /\ call' \in [NodeId -> Locals]
        /\ \A m \in NodeId : m # n => call'[m] = call[m]
    BY <1>2, <2>2 DEF Verdict
  <2>4. /\ "settled" \in {"settled", "ended"} /\ panics' \in BOOLEAN /\ broken' \in BOOLEAN
        /\ broken => broken'
        /\ panics' => panics \/ (pc'[n] = "settled" /\ call'[n].verdict = "panic")
    BY <1>1, <2>2, Zenon
  <2>5. QED
    BY <2>1, <2>2, <2>3, <2>4, EndAttemptInv, Zenon
<1>6. QED
  BY <1>3, <1>4, <1>5

-----------------------------------------------------------------------------
\* Shutdown: the work closes, the usage is read after the join, the slot goes back.
LEMMA CloseWorkInv ==
  ASSUME AttemptsInv, NEW n \in Admitted, CloseWork(n)
  PROVE  AttemptsInv'
<1>1. /\ pc[n] = "ended" /\ pc' = [pc EXCEPT ![n] = "joining"]
      /\ CloseAdmission(n)
      /\ UNCHANGED <<callVars, free, panicked, panics, broken, failed, report>>
      /\ stopped' = stopped \cup {n} /\ n \in NodeId
  BY DEF CloseWork, Go, Admitted
<1>2. UNCHANGED <<path, scopes, alive, own, used, attempts>>
  BY <1>1 DEF CloseAdmission, treeVars, budgetVars
<1>3. LedgerInv'
  BY <1>1, CloseAdmissionStep DEF AttemptsInv
<1>4. /\ pc' \in [NodeId -> Phase] /\ pc'[n] = "joining"
      /\ \A m \in NodeId : m # n => pc'[m] = pc[m]
      /\ Ancestry' /\ Lifecycle' /\ BelowEnded'
      /\ pc'[Root] \notin Over
  BY <1>1, <1>2, PhaseStep DEF Phase, Over
<1>5. AttemptsTypeOK'
  BY <1>1, <1>4 DEF AttemptsInv, AttemptsTypeOK, callVars
<1>6. HeldOnlyInFlight'
  <2>1. Holders' = Holders /\ Reserving' = Reserving
    BY <1>1, <1>4, HoldersStep DEF Holding, Sending
  <2>2. QED
    BY <1>1, <1>2, <2>1 DEF AttemptsInv, HeldOnlyInFlight
<1>7. ReportFinal'
  BY <1>1, <1>2, <1>4, ReportsKept DEF Over
<1>8. PanicNoted'
  BY <1>1, <1>4 DEF AttemptsInv, PanicNoted, callVars
<1>9. QED
  BY <1>3, <1>4, <1>5, <1>6, <1>7, <1>8 DEF AttemptsInv

LEMMA ReadUsageInv ==
  ASSUME AttemptsInv, NEW n \in Admitted, ReadUsage(n)
  PROVE  AttemptsInv'
<1>1. /\ pc[n] = "joining" /\ pc' = [pc EXCEPT ![n] = "reporting"]
      /\ \A m \in ChildrenOf(n) : pc[m] = "done"
      /\ report' = [report EXCEPT ![n] = [self |-> own[n], subtree |-> used[n]]]
      /\ failed' = IF n = Root THEN panicked ELSE failed
      /\ UNCHANGED <<ledgerVars, callVars, free, stopped, panicked, panics, broken>>
      /\ n \in NodeId
  BY DEF ReadUsage, Go, Admitted
<1>2. UNCHANGED <<path, scopes, alive, own, used, attempts>>
  BY <1>1 DEF ledgerVars, treeVars, lifeVars, budgetVars
<1>3. /\ pc \in [NodeId -> Phase] /\ pc' \in [NodeId -> Phase] /\ pc'[n] = "reporting"
      /\ \A m \in NodeId : m # n => pc'[m] = pc[m]
  BY <1>1 DEF AttemptsInv, AttemptsTypeOK, Phase
<1>4. LedgerInv'
  BY <1>1, LedgerKept DEF AttemptsInv
<1>5. Admitted' = Admitted /\ \A m \in NodeId : Subtree(m)' = Subtree(m)
  BY <1>2 DEF Admitted, Subtree
<1>6. Ancestry'
  <2>1. \A m \in NodeId : ChildrenOf(m)' = ChildrenOf(m)
    BY <1>2, <1>5 DEF ChildrenOf
  <2>2. \A m \in Admitted : path[m] \subseteq NodeId
    BY DEF AttemptsInv, LedgerInv, TreeOK, Admitted
  <2>3. QED
    BY <1>2, <1>5, <2>1, <2>2 DEF AttemptsInv, Ancestry
<1>7. Lifecycle'
  BY <1>1, <1>2, <1>3, <1>5 DEF AttemptsInv, Lifecycle
<1>8. \A m \in Subtree(n) \ {n} : pc[m] = "done"
  <2>1. TAKE m \in Subtree(n) \ {n}
  <2>2. m \in NodeId /\ n \in path[m] /\ m \in Admitted
    BY DEF Subtree, AttemptsInv, LedgerInv, Blank
  <2>3. PICK c \in ChildrenOf(n) : c \in path[m]
    BY <2>2 DEF AttemptsInv, Ancestry
  <2>4. c \in NodeId /\ pc[c] = "done" /\ m \in Subtree(c)
    BY <1>1, <2>2, <2>3 DEF ChildrenOf, Admitted, Subtree
  <2>5. QED
    BY <2>4 DEF AttemptsInv, BelowEnded, Over
<1>9. BelowEnded'
  <2>1. ASSUME NEW r \in NodeId, pc'[r] \in Over, NEW m \in Subtree(r) \ {r}
        PROVE  pc'[m] = "done"
    <3>1. pc[m] = "done"
      BY <1>3, <1>8, <2>1 DEF AttemptsInv, BelowEnded
    <3>2. m \in NodeId /\ m # n
      BY <1>1, <3>1 DEF Subtree
    <3>3. QED
      BY <1>3, <3>1, <3>2
  <2>2. QED
    BY <1>5, <2>1 DEF BelowEnded, Over
<1>10. /\ report \in [NodeId -> Usage] /\ own[n] \in Nat /\ used[n] \in Nat
       /\ failed \in BOOLEAN /\ panicked \in BOOLEAN
  BY <1>1 DEF AttemptsInv, AttemptsTypeOK, LedgerInv, LedgerTypeOK
<1>11. report' \in [NodeId -> Usage] /\ failed' \in BOOLEAN
  <2>1. [self |-> own[n], subtree |-> used[n]] \in Usage
    BY <1>10 DEF Usage
  <2>2. report' \in [NodeId -> Usage]
    BY <1>1, <1>10, <2>1
  <2>3. failed' \in BOOLEAN
    BY <1>1, <1>10, Zenon
  <2>4. QED
    BY <2>2, <2>3
<1>12. AttemptsTypeOK'
  BY <1>1, <1>3, <1>11 DEF AttemptsInv, AttemptsTypeOK, callVars
<1>13. HeldOnlyInFlight'
  <2>1. Holders' = Holders /\ Reserving' = Reserving
    <3>1. pc[n] \notin Holding \cup Sending /\ pc'[n] \notin Holding \cup Sending
      BY <1>1, <1>3 DEF Holding, Sending
    <3>2. QED
      BY <1>3, <3>1, HoldersStep
  <2>2. QED
    BY <1>1, <1>2, <2>1 DEF AttemptsInv, HeldOnlyInFlight
<1>14. ReportFinal'
  BY <1>1, <1>2, <1>3, <1>10 DEF AttemptsInv, ReportFinal
<1>15. PanicNoted'
  <2>1. \A m \in NodeId : pc[m] = "settled" => pc'[m] = "settled" /\ call'[m] = call[m]
    BY <1>1, <1>3 DEF callVars
  <2>2. pc'[Root] \in Over /\ panicked' => failed'
    <3>1. CASE n = Root
      BY <1>1, <3>1
    <3>2. CASE n # Root
      <4>1. Root \in path[n] /\ Root \in NodeId
        BY DEF AttemptsInv, Ancestry, LedgerInv, TreeOK, Admitted
      <4>2. pc[Root] \notin Over
        BY <1>1, <3>2, <4>1, AboveActive
      <4>3. QED
        BY <1>3, <3>2, <4>1, <4>2
    <3>3. QED
      BY <3>1, <3>2
  <2>3. panics' => \/ panicked' \/ broken'
                  \/ \E m \in NodeId : pc'[m] = "settled" /\ call'[m].verdict = "panic"
    BY <1>1, <2>1 DEF AttemptsInv, PanicNoted
  <2>4. QED
    BY <2>2, <2>3 DEF PanicNoted, Over
<1>16. QED
  BY <1>4, <1>6, <1>7, <1>9, <1>12, <1>13, <1>14, <1>15 DEF AttemptsInv

LEMMA EndInv ==
  ASSUME AttemptsInv, NEW n \in Admitted, End(n)
  PROVE  AttemptsInv'
<1>1. /\ pc[n] = "reporting" /\ pc' = [pc EXCEPT ![n] = "done"]
      /\ Shutdown(n) /\ n \in NodeId
      /\ UNCHANGED <<callVars, free, stopped, panicked, panics, failed, report>>
      /\ \E ok \in BOOLEAN : Emits(ok)
  BY DEF End, Go, Admitted
<1>2. UNCHANGED <<path, scopes, own, used, attempts>> /\ alive' = [alive EXCEPT ![n] = FALSE]
  BY <1>1 DEF Shutdown, treeVars, budgetVars
<1>3. /\ pc \in [NodeId -> Phase] /\ pc' \in [NodeId -> Phase] /\ pc'[n] = "done"
      /\ \A m \in NodeId : m # n => pc'[m] = pc[m]
      /\ alive \in [NodeId -> BOOLEAN]
  BY <1>1 DEF AttemptsInv, AttemptsTypeOK, LedgerInv, LedgerTypeOK, Phase
<1>4. LedgerInv'
  BY <1>1, ShutdownStep DEF AttemptsInv
<1>5. Admitted' = Admitted /\ \A m \in NodeId : Subtree(m)' = Subtree(m)
  BY <1>2 DEF Admitted, Subtree
<1>6. Ancestry'
  <2>1. \A m \in NodeId : ChildrenOf(m)' = ChildrenOf(m)
    BY <1>2, <1>5 DEF ChildrenOf
  <2>2. \A m \in Admitted : path[m] \subseteq NodeId
    BY DEF AttemptsInv, LedgerInv, TreeOK, Admitted
  <2>3. QED
    BY <1>2, <1>5, <2>1, <2>2 DEF AttemptsInv, Ancestry
<1>7. Lifecycle'
  BY <1>1, <1>2, <1>3, <1>5 DEF AttemptsInv, Lifecycle
<1>8. BelowEnded'
  BY <1>1, <1>3, <1>5 DEF AttemptsInv, BelowEnded, Over, Subtree
<1>9. broken' \in BOOLEAN /\ (broken => broken')
  <2>1. broken \in BOOLEAN
    BY DEF AttemptsInv, AttemptsTypeOK
  <2>2. PICK ok \in BOOLEAN : broken' = (broken \/ ~ok)
    BY <1>1 DEF Emits
  <2>3. QED
    BY <2>1, <2>2
<1>10. AttemptsTypeOK'
  BY <1>1, <1>3, <1>9 DEF AttemptsInv, AttemptsTypeOK, callVars
<1>11. HeldOnlyInFlight'
  <2>1. Holders' = Holders /\ Reserving' = Reserving
    <3>1. pc[n] \notin Holding \cup Sending /\ pc'[n] \notin Holding \cup Sending
      BY <1>1, <1>3 DEF Holding, Sending
    <3>2. \A m \in NodeId : /\ pc'[m] \in Holding <=> pc[m] \in Holding
                            /\ pc'[m] \in Sending <=> pc[m] \in Sending
      BY <1>3, <3>1
    <3>3. QED
      BY <3>2 DEF Holders, Reserving, Holding, Sending
  <2>2. QED
    BY <1>1, <1>2, <2>1 DEF AttemptsInv, HeldOnlyInFlight
<1>12. ReportFinal'
  BY <1>1, <1>2, <1>3 DEF AttemptsInv, ReportFinal
<1>13. PanicNoted'
  <2>1. Root \in NodeId /\ (pc'[Root] \in Over => pc[Root] \in Over)
    BY <1>1, <1>3 DEF AttemptsInv, LedgerInv, TreeOK, Admitted, Over
  <2>2. \A m \in NodeId : pc[m] = "settled" => pc'[m] = "settled" /\ call'[m] = call[m]
    BY <1>1, <1>3 DEF callVars
  <2>3. pc'[Root] \in Over /\ panicked' => failed'
    BY <1>1, <2>1 DEF AttemptsInv, PanicNoted
  <2>4. panics' => \/ panicked' \/ broken'
                  \/ \E m \in NodeId : pc'[m] = "settled" /\ call'[m].verdict = "panic"
    BY <1>1, <1>9, <2>2 DEF AttemptsInv, PanicNoted
  <2>5. QED
    BY <2>3, <2>4 DEF PanicNoted, Over
<1>14. QED
  BY <1>4, <1>6, <1>7, <1>8, <1>10, <1>11, <1>12, <1>13 DEF AttemptsInv

\* A cancellation changes nothing but who is stopped.
LEMMA StopInv ==
  ASSUME AttemptsInv, NEW n \in Admitted, Stop(n)
  PROVE  AttemptsInv'
<1>1. /\ stopped' = stopped \cup {n} /\ n \in NodeId
      /\ UNCHANGED <<ledgerVars, pc, calls, call, free, panicked, panics, broken, failed, report>>
  BY DEF Stop, Admitted, callVars
<1>2. UNCHANGED <<path, scopes, alive, own, used, attempts>>
  BY <1>1 DEF ledgerVars, treeVars, lifeVars, budgetVars
<1>3. LedgerInv'
  BY <1>1, LedgerKept DEF AttemptsInv
<1>4. AttemptsTypeOK'
  BY <1>1 DEF AttemptsInv, AttemptsTypeOK
<1>5. Admitted' = Admitted /\ Holders' = Holders /\ Reserving' = Reserving
  BY <1>1, <1>2 DEF Admitted, Holders, Reserving
<1>6. \A m : Subtree(m)' = Subtree(m) /\ ChildrenOf(m)' = ChildrenOf(m)
  BY <1>2, <1>5 DEF Subtree, ChildrenOf
<1>7. HeldOnlyInFlight' /\ ReportFinal' /\ PanicNoted'
  BY <1>1, <1>2, <1>5 DEF AttemptsInv, HeldOnlyInFlight, ReportFinal, PanicNoted, Over
<1>8. Ancestry' /\ Lifecycle' /\ BelowEnded'
  BY <1>1, <1>2, <1>5, <1>6 DEF AttemptsInv, Ancestry, Lifecycle, BelowEnded, Over
<1>9. QED
  BY <1>3, <1>4, <1>7, <1>8 DEF AttemptsInv

-----------------------------------------------------------------------------
\* A new scope starts below an agent that has not closed its work.
LEMMA SpawnInv ==
  ASSUME AttemptsInv, NEW parent \in Admitted, NEW isAgent \in BOOLEAN,
         NEW requestedLimit \in Nat, Spawn(parent, isAgent, requestedLimit)
  PROVE  AttemptsInv'
<1> DEFINE id == scopes
<1>1. /\ pc[parent] \notin {"absent", "starting", "joining", "reporting", "done"}
      /\ Admit(parent, isAgent, requestedLimit)
      /\ pc' = [pc EXCEPT ![id] = "starting"]
      /\ UNCHANGED <<callVars, free, runVars>>
  BY DEF Spawn, Go
<1>2. LedgerInv'
  BY <1>1, AdmitStep DEF AttemptsInv
<1>3. /\ id \in NodeId /\ id \notin Admitted /\ Admitted \subseteq NodeId
      /\ Admitted' = Admitted \cup {id} /\ parent \in NodeId
  <2>1. scopes \in 1 .. MaxNodes /\ scopes < MaxNodes /\ scopes' = scopes + 1
    BY <1>1 DEF Admit, CanAdmit, AttemptsInv, LedgerInv, LedgerTypeOK
  <2>2. QED
    BY <2>1, LimitsAssumption DEF Admitted, NodeId
<1>4. /\ path' = [path EXCEPT ![id] = path[parent] \cup {id}]
      /\ path \in [NodeId -> SUBSET NodeId] /\ path[id] = {}
      /\ alive' = [alive EXCEPT ![id] = TRUE] /\ alive \in [NodeId -> BOOLEAN]
      /\ UNCHANGED <<own, used, attempts>>
  BY <1>1, <1>3 DEF Admit, AttemptsInv, LedgerInv, LedgerTypeOK, Blank, budgetVars
<1>5. /\ pc \in [NodeId -> Phase] /\ pc' \in [NodeId -> Phase]
      /\ pc[id] = "absent" /\ pc'[id] = "starting"
      /\ \A m \in NodeId : m # id => pc'[m] = pc[m]
  BY <1>1, <1>3 DEF AttemptsInv, AttemptsTypeOK, Lifecycle, Phase
<1>6. /\ path'[id] = path[parent] \cup {id} /\ \A m \in NodeId : m # id => path'[m] = path[m]
      /\ alive'[id] /\ \A m \in NodeId : m # id => alive'[m] = alive[m]
  BY <1>3, <1>4
<1>7. /\ \A m \in Admitted : m # id /\ path[m] \subseteq Admitted
      /\ Root \in Admitted /\ Root \in path[parent] /\ parent \in path[parent]
  BY <1>3 DEF AttemptsInv, LedgerInv, TreeOK, Ancestry
<1>8. Ancestry'
  <2>1. \A m \in Admitted : ChildrenOf(m) \subseteq ChildrenOf(m)'
    BY <1>3, <1>6, <1>7 DEF ChildrenOf
  <2>2. id \in ChildrenOf(parent)'
    BY <1>3, <1>6, <1>7 DEF ChildrenOf
  <2>3. ASSUME NEW n \in Admitted, NEW m \in path'[n], m # n
        PROVE  \E c \in ChildrenOf(m)' : c \in path'[n]
    <3>1. m \in path[n] /\ m \in Admitted /\ path'[n] = path[n]
      BY <1>3, <1>6, <1>7, <2>3
    <3>2. QED
      BY <2>1, <2>3, <3>1 DEF AttemptsInv, Ancestry
  <2>4. ASSUME NEW m \in path'[id], m # id
        PROVE  \E c \in ChildrenOf(m)' : c \in path'[id]
    <3>1. m \in path[parent] /\ m \in Admitted
      BY <1>6, <1>7, <2>4
    <3>2. CASE m = parent
      BY <1>6, <2>2, <3>2
    <3>3. CASE m # parent
      BY <1>6, <2>1, <3>1, <3>3 DEF AttemptsInv, Ancestry
    <3>4. QED
      BY <3>2, <3>3
  <2>5. \A n \in Admitted' : Root \in path'[n]
    BY <1>3, <1>6, <1>7 DEF AttemptsInv, Ancestry
  <2>6. QED
    BY <1>3, <2>3, <2>4, <2>5 DEF Ancestry, Root
<1>9. Lifecycle'
  BY <1>3, <1>5, <1>6 DEF AttemptsInv, Lifecycle
<1>10. \A r \in path[parent] : pc[r] \notin Over
  BY <1>1, AboveActive DEF Over
<1>11. BelowEnded'
  <2>1. ASSUME NEW r \in NodeId, pc'[r] \in Over, NEW m \in NodeId, r \in path'[m], m # r
        PROVE  pc'[m] = "done"
    <3>1. r # id /\ pc[r] \in Over
      BY <1>5, <2>1 DEF Over
    <3>2. m # id
      BY <1>6, <1>10, <2>1, <3>1
    <3>3. pc[m] = "done"
      BY <1>6, <2>1, <3>1, <3>2 DEF AttemptsInv, BelowEnded, Subtree
    <3>4. QED
      BY <1>5, <3>2, <3>3
  <2>2. QED
    BY <2>1 DEF BelowEnded, Subtree, Over
<1>12. AttemptsTypeOK'
  BY <1>1, <1>5 DEF AttemptsInv, AttemptsTypeOK, callVars, runVars
<1>13. HeldOnlyInFlight'
  <2>1. Holders' = Holders /\ Reserving' = Reserving
    BY <1>3, <1>5 DEF Holders, Reserving
  <2>2. QED
    BY <1>1, <1>4, <2>1 DEF AttemptsInv, HeldOnlyInFlight
<1>14. ReportFinal'
  BY <1>1, <1>4, <1>5 DEF AttemptsInv, ReportFinal, runVars
<1>15. PanicNoted'
  <2>1. /\ Root \in NodeId /\ pc'[Root] = pc[Root]
        /\ \A m \in NodeId : pc[m] = "settled" => pc'[m] = "settled"
    BY <1>3, <1>5, <1>7
  <2>2. UNCHANGED <<call, panicked, panics, broken, failed>>
    BY <1>1 DEF callVars, runVars
  <2>3. QED
    BY <2>1, <2>2 DEF AttemptsInv, PanicNoted, Over
<1>16. QED
  BY <1>2, <1>8, <1>9, <1>11, <1>12, <1>13, <1>14, <1>15 DEF AttemptsInv

-----------------------------------------------------------------------------
LEMMA AttemptsNextInv == AttemptsInv /\ [AttemptsNext]_attemptsVars => AttemptsInv'
<1> SUFFICES ASSUME AttemptsInv, [AttemptsNext]_attemptsVars PROVE AttemptsInv'
  OBVIOUS
<1>1. CASE \E parent \in Admitted : SpawnAgent(parent)
  BY <1>1, LimitsAssumption, SpawnInv DEF SpawnAgent
<1>2. CASE \E parent \in Admitted : SpawnLeaf(parent)
  BY <1>2, LimitsAssumption, SpawnInv DEF SpawnLeaf
<1>3. CASE \E n \in Admitted : Progress(n) \/ Answer(n) \/ Stop(n)
  <2>1. PICK n \in Admitted : Progress(n) \/ Answer(n) \/ Stop(n)
    BY <1>3
  <2>2. CASE LocalStep(n)
    BY <2>2, LocalStepInv
  <2>3. CASE Acquire(n) \/ Refuse(n)
    BY <2>3, SlotStepInv
  <2>4. CASE ReserveAttempt(n)
    BY <2>4, ReserveAttemptInv
  <2>5. CASE Withdraw(n) \/ Answer(n) \/ GraceOver(n)
    BY <2>5, SettlingStepInv
  <2>6. CASE CloseWork(n)
    BY <2>6, CloseWorkInv
  <2>7. CASE ReadUsage(n)
    BY <2>7, ReadUsageInv
  <2>8. CASE End(n)
    BY <2>8, EndInv
  <2>9. CASE Stop(n)
    BY <2>9, StopInv
  <2>10. QED
    BY <2>1, <2>2, <2>3, <2>4, <2>5, <2>6, <2>7, <2>8, <2>9 DEF Progress, LocalStep
<1>4. CASE UNCHANGED attemptsVars
  <2>1. /\ UNCHANGED <<ledgerVars, pc, calls, call, free, stopped, panicked, panics, broken,
                      failed, report>>
        /\ UNCHANGED <<path, scopes, alive, own, used, attempts>>
    BY <1>4 DEF attemptsVars, callVars, runVars, ledgerVars, treeVars, lifeVars, budgetVars
  <2>2. LedgerInv' /\ AttemptsTypeOK'
    BY <2>1, LedgerKept DEF AttemptsInv, AttemptsTypeOK
  <2>3. Admitted' = Admitted /\ Holders' = Holders /\ Reserving' = Reserving
    BY <2>1 DEF Admitted, Holders, Reserving
  <2>4. \A m : Subtree(m)' = Subtree(m) /\ ChildrenOf(m)' = ChildrenOf(m)
    BY <2>1, <2>3 DEF Subtree, ChildrenOf
  <2>5. HeldOnlyInFlight' /\ ReportFinal' /\ PanicNoted'
    BY <2>1, <2>3 DEF AttemptsInv, HeldOnlyInFlight, ReportFinal, PanicNoted, Over
  <2>6. Ancestry' /\ Lifecycle' /\ BelowEnded'
    BY <2>1, <2>3, <2>4 DEF AttemptsInv, Ancestry, Lifecycle, BelowEnded, Over
  <2>7. QED
    BY <2>2, <2>5, <2>6 DEF AttemptsInv
<1>5. QED
  BY <1>1, <1>2, <1>3, <1>4 DEF AttemptsNext

\* The inductive invariant holds throughout a run.
THEOREM AttemptsInvariant == AttemptsSpec => []AttemptsInv
<1>1. AttemptsInit => AttemptsInv
  BY AttemptsInitInv
<1>2. AttemptsInv /\ [AttemptsNext]_attemptsVars => AttemptsInv'
  BY AttemptsNextInv
<1>3. QED
  BY <1>1, <1>2, PTL DEF AttemptsSpec

\* Phases, permits and flags keep their types; no permit is returned twice.
THEOREM AttemptsTypes == AttemptsSpec => []AttemptsTypeOK
<1>1. AttemptsInv => AttemptsTypeOK
  BY DEF AttemptsInv
<1>2. QED
  BY <1>1, AttemptsInvariant, PTL

\* Permits and reservations are held by attempts under way and by nobody else.
THEOREM AttemptsHeld == AttemptsSpec => []HeldOnlyInFlight
<1>1. AttemptsInv => HeldOnlyInFlight
  BY DEF AttemptsInv
<1>2. QED
  BY <1>1, AttemptsInvariant, PTL

\* The usage in a node_end record never changes afterwards.
THEOREM AttemptsReports == AttemptsSpec => []ReportFinal
<1>1. AttemptsInv => ReportFinal
  BY DEF AttemptsInv
<1>2. QED
  BY <1>1, AttemptsInvariant, PTL

\* Below a scope that reports nothing is reserved, and below the root nobody lives.
LEMMA EndsInOrder ==
  ASSUME AttemptsInv
  PROVE  OrderlyEnd
<1>1. ASSUME NEW n \in NodeId, pc[n] \in Over PROVE reserved[n] = 0
  <2>1. \A m \in Subtree(n) : pc[m] \in Over
    BY <1>1 DEF AttemptsInv, BelowEnded, Over
  <2>2. \A a \in attempts : a.node \notin Subtree(n)
    <3>1. \A a \in attempts : pc[a.node] \in Sending
      BY DEF AttemptsInv, HeldOnlyInFlight, Reserving, Sending
    <3>2. QED
      BY <2>1, <3>1 DEF Over, Sending
  <2>3. TokensHeld(n) = {}
    BY <2>2 DEF TokensHeld
  <2>4. QED
    BY <2>3, FS_EmptySet DEF AttemptsInv, LedgerInv, SubtreeAccounting
<1>2. ASSUME pc[Root] = "done" PROVE live = 0
  <2>1. \A n \in Admitted : pc[n] = "done"
    <3>1. \A n \in Admitted : Root \in path[n] /\ n \in NodeId
      BY DEF AttemptsInv, Ancestry, Admitted
    <3>2. Root \in NodeId
      BY DEF AttemptsInv, LedgerInv, TreeOK, Admitted
    <3>3. QED
      BY <1>2, <3>1, <3>2 DEF AttemptsInv, BelowEnded, Over, Subtree
  <2>2. {n \in Admitted : agent[n] /\ alive[n]} = {}
    BY <2>1 DEF AttemptsInv, Lifecycle, Admitted
  <2>3. QED
    BY <2>2, FS_EmptySet DEF AttemptsInv, LedgerInv, AgentLimits
<1>3. QED
  BY <1>1, <1>2 DEF AttemptsInv, BelowEnded, OrderlyEnd, Over

\* A scope ends after everything below it, with nothing reserved and, for the root,
\* no agent left live: what is below has settled its attempts and left its slot.
THEOREM AttemptsOrderlyEnd == AttemptsSpec => []OrderlyEnd
<1>1. AttemptsInv => OrderlyEnd
  BY EndsInOrder
<1>2. QED
  BY <1>1, AttemptsInvariant, PTL

\* When the root reports, no attempt is left whose panic is not noted.
LEMMA PanicsCount ==
  ASSUME AttemptsInv
  PROVE  PanicFailsRun
<1>1. SUFFICES ASSUME panics, pc[Root] \in Over PROVE failed \/ broken
  BY DEF PanicFailsRun, Over
<1>2. \A n \in NodeId : pc[n] # "settled"
  <2>1. ASSUME NEW n \in NodeId, pc[n] = "settled" PROVE FALSE
    <3>1. n \in Admitted /\ Root \in path[n] /\ Root \in NodeId
      BY <2>1 DEF AttemptsInv, Lifecycle, Ancestry, LedgerInv, TreeOK, Admitted
    <3>2. n # Root
      BY <1>1, <2>1 DEF Over
    <3>3. QED
      BY <1>1, <2>1, <3>1, <3>2 DEF AttemptsInv, BelowEnded, Subtree
  <2>2. QED
    BY <2>1
<1>3. QED
  BY <1>1, <1>2 DEF AttemptsInv, PanicNoted

\* A run in which a provider or an agent panicked does not end well.
THEOREM AttemptsPanics == AttemptsSpec => []PanicFailsRun
<1>1. AttemptsInv => PanicFailsRun
  BY PanicsCount
<1>2. QED
  BY <1>1, AttemptsInvariant, PTL

\* The run never promises more than an open budget allows, at any level of the tree:
\* the ledger's guarantee, carried over to the only client it has.
THEOREM AttemptsNoOvercommit == AttemptsSpec => []NoOvercommit
<1>1. AttemptsInv => NoOvercommit
  BY DEF AttemptsInv, LedgerInv
<1>2. QED
  BY <1>1, AttemptsInvariant, PTL

\* The runtime, too, gets nothing from a closed scope: not with a retry whose request is
\* the cap the attempt before was granted, and not in an agent it is just starting.
THEOREM AttemptsClosed == AttemptsSpec => ClosedScopesAdmitNothing
<1>1. ASSUME AttemptsInv, AttemptsNext PROVE [ClosedStep]_ledgerVars
  <2> USE LimitsAssumption
  <2>1. LedgerInv
    BY <1>1 DEF AttemptsInv
  <2>2. ASSUME NEW parent \in Admitted, SpawnAgent(parent) \/ SpawnLeaf(parent) PROVE ClosedStep
    <3>1. PICK isAgent \in BOOLEAN, requestedLimit \in Nat : Spawn(parent, isAgent, requestedLimit)
      BY <2>2 DEF SpawnAgent, SpawnLeaf
    <3>2. QED
      BY <2>1, <3>1, AdmitClosed DEF Spawn
  <2>3. ASSUME NEW n \in Admitted, ReserveAttempt(n) PROVE ClosedStep
    <3>1. call[n].prompt \in Nat /\ call[n].output \in Nat
      BY <1>1 DEF AttemptsInv, AttemptsTypeOK, Locals, Admitted
    <3>2. Reserve(n, call[n].prompt, call[n].output)
      BY <2>3 DEF ReserveAttempt
    <3>3. QED
      BY <2>1, <3>1, <3>2, ReserveClosed
  <2>4. ASSUME NEW n \in Admitted, Withdraw(n) \/ Answer(n) \/ GraceOver(n) PROVE ClosedStep
    <3>1. \E a \in attempts : \E charged : Settle(a, charged)
      BY <2>4 DEF Withdraw, Answer, GraceOver, EndAttempt
    <3>2. QED
      BY <2>1, <3>1, SettleClosed
  <2>5. ASSUME NEW n \in Admitted, CloseWork(n) \/ End(n) PROVE ClosedStep
    BY <2>5, LifeClosed DEF CloseWork, End
  <2>6. ASSUME NEW n \in Admitted,
               \/ Start(n) \/ Call(n) \/ Finish(n) \/ Acquire(n) \/ GiveUp(n) \/ Refuse(n)
               \/ Dispatch(n) \/ SignalProvider(n) \/ RecordEnd(n) \/ LoseEnd(n)
               \/ BackoffOver(n) \/ ReadUsage(n) \/ Stop(n)
        PROVE  UNCHANGED ledgerVars
    BY <2>6 DEF Start, Call, Finish, Acquire, GiveUp, Refuse, Dispatch, SignalProvider, RecordEnd,
                LoseEnd, BackoffOver, ReadUsage, Stop
  <2>7. QED
    BY <1>1, <2>2, <2>3, <2>4, <2>5, <2>6 DEF AttemptsNext, Progress
<1>2. AttemptsInv /\ [AttemptsNext]_attemptsVars => [ClosedStep]_ledgerVars
  BY <1>1 DEF attemptsVars
<1>3. QED
  BY <1>2, AttemptsInvariant, PTL DEF AttemptsSpec, ClosedScopesAdmitNothing, ClosedStep


-----------------------------------------------------------------------------
(* The transcript of a run (RunTrace): what was recorded and is read back. *)

\* The phases of a scope that will do no more work of its own.
Ending == {"ended", "joining", "reporting", "done"}

\* Every scope but the root was admitted as somebody's child.
HasParent == \A n \in Admitted \ {Root} : \E m \in Admitted : n \in ChildrenOf(m)

\* What is known of the records: a scope has children, calls or records only after
\* its start was recorded.
RecordsOK ==
  /\ \A r \in records : r.node \in Nodes(records)
  /\ \A r \in OfType(records, "node_start") : r.node \in Admitted /\ r = NodeStart(r.node)
  /\ \A n \in Admitted \ {Root} : ParentOf(n) \in Nodes(records)
  /\ \A n \in NodeId \ Nodes(records) :
       /\ calls[n] = 0
       /\ pc[n] \in {"absent", "starting"} \/ (broken /\ pc[n] \in Ending)
  /\ records # {} => Root \in Nodes(records)

RunTraceInv == AttemptsInv /\ HasParent /\ RecordsOK

\* The scope that admitted another is the one its start names, and came before it.
LEMMA ParentIsKnown ==
  ASSUME AttemptsInv, NEW n \in Admitted, NEW m \in Admitted, n \in ChildrenOf(m)
  PROVE  /\ m < n /\ n # Root /\ ParentOf(n) = m
         /\ \A k \in Admitted : n \in ChildrenOf(k) => k = m
<1>1. /\ Admitted \subseteq NodeId /\ NodeId \subseteq Nat /\ Root = 0
      /\ \A k \in Admitted : k \in path[k] /\ \A l \in path[k] : l <= k
  BY LimitsAssumption DEF AttemptsInv, LedgerInv, TreeOK, Admitted, NodeId, Root
<1>2. ASSUME NEW k \in Admitted, n \in ChildrenOf(k)
      PROVE  k < n /\ path[n] = path[k] \cup {n} /\ n \notin path[k]
  <2>1. n # k /\ path[n] = path[k] \cup {n}
    BY <1>2 DEF ChildrenOf
  <2>2. k \in Nat /\ n \in Nat /\ k \in path[n]
    BY <1>1, <2>1
  <2>3. k <= n
    BY <1>1, <2>2
  <2>4. ASSUME n \in path[k] PROVE FALSE
    <3>1. n <= k
      BY <1>1, <2>4
    <3>2. QED
      BY <2>1, <2>2, <2>3, <3>1
  <2>5. QED
    BY <2>1, <2>2, <2>3, <2>4
<1>3. m < n /\ n # Root
  <2>1. m \in Nat /\ n \in Nat /\ m < n
    BY <1>1, <1>2
  <2>2. QED
    BY <1>1, <2>1
<1>4. ASSUME NEW k \in Admitted, n \in ChildrenOf(k) PROVE k = m
  <2>1. /\ path[n] = path[k] \cup {n} /\ n \notin path[k]
        /\ path[n] = path[m] \cup {n} /\ n \notin path[m]
    BY <1>2, <1>4
  <2>2. k \in path[m] /\ m \in path[k]
    BY <1>1, <2>1
  <2>3. k <= m /\ m <= k
    BY <1>1, <2>2
  <2>4. k \in Nat /\ m \in Nat
    BY <1>1
  <2>5. QED
    BY <2>3, <2>4
<1>5. ParentOf(n) = m
  BY <1>3, <1>4 DEF ParentOf
<1>6. QED
  BY <1>3, <1>4, <1>5

\* The tree of scopes, while nobody is admitted.
LEMMA TreeKept ==
  ASSUME AttemptsInv, HasParent, UNCHANGED <<path, scopes>>
  PROVE  /\ HasParent' /\ Admitted' = Admitted
         /\ \A n \in Admitted : NodeStart(n)' = NodeStart(n) /\ ParentOf(n)' = ParentOf(n)
<1>1. Admitted' = Admitted
  BY DEF Admitted
<1>2. \A m : ChildrenOf(m)' = ChildrenOf(m)
  BY <1>1 DEF ChildrenOf
<1>3. ASSUME NEW n \in Admitted PROVE ParentOf(n)' = ParentOf(n)
  <2>1. CASE n = Root
    BY <2>1 DEF ParentOf
  <2>2. CASE n # Root
    <3>1. PICK m \in Admitted : n \in ChildrenOf(m)
      BY <2>2 DEF HasParent
    <3>2. ParentOf(n) = m /\ \A k \in Admitted : n \in ChildrenOf(k) => k = m
      BY <3>1, ParentIsKnown
    <3>3. m \in Admitted' /\ n \in ChildrenOf(m)'
      BY <1>1, <1>2, <3>1
    <3>4. \A k \in Admitted' : n \in ChildrenOf(k)' => k = m
      BY <1>1, <1>2, <3>2
    <3>5. ParentOf(n)' = m
      BY <2>2, <3>3, <3>4 DEF ParentOf
    <3>6. QED
      BY <3>2, <3>5
  <2>3. QED
    BY <2>1, <2>2
<1>4. QED
  BY <1>1, <1>2, <1>3 DEF HasParent, NodeStart

\* What a step of one task leaves alone, whether or not its start was recorded.
Onward(n) ==
  /\ UNCHANGED <<path, scopes>> /\ (broken => broken')
  /\ \A m \in NodeId \ {n} : pc'[m] = pc[m] /\ calls'[m] = calls[m]
  /\ pc[n] \in {"absent", "starting"} => pc'[n] = pc[n] /\ calls'[n] = calls[n]
  /\ pc[n] \in Ending => pc'[n] \in Ending /\ calls'[n] = calls[n]

\* A record that is not a start is about a scope whose start is on record.
LEMMA RecordsGrow ==
  ASSUME RunTraceInv, NEW n \in NodeId, Onward(n), records \subseteq records',
         \A r \in records' \ records : r.type # "node_start" /\ r.node \in Nodes(records)
  PROVE  HasParent' /\ RecordsOK'
<1>1. /\ HasParent' /\ Admitted' = Admitted
      /\ \A m \in Admitted : NodeStart(m)' = NodeStart(m) /\ ParentOf(m)' = ParentOf(m)
  BY TreeKept DEF RunTraceInv, Onward
<1>2. OfType(records', "node_start") = OfType(records, "node_start")
  BY DEF OfType
<1>3. Nodes(records') = Nodes(records)
  BY <1>2 DEF Nodes
<1>4. \A r \in records' : r.node \in Nodes(records')
  BY <1>3 DEF RunTraceInv, RecordsOK
<1>5. \A r \in OfType(records', "node_start") : r.node \in Admitted' /\ r = NodeStart(r.node)'
  BY <1>1, <1>2 DEF RunTraceInv, RecordsOK
<1>6. \A m \in Admitted' \ {Root} : ParentOf(m)' \in Nodes(records')
  BY <1>1, <1>3 DEF RunTraceInv, RecordsOK
<1>7. ASSUME NEW m \in NodeId \ Nodes(records')
      PROVE  /\ calls'[m] = 0
             /\ pc'[m] \in {"absent", "starting"} \/ (broken' /\ pc'[m] \in Ending)
  <2>1. /\ calls[m] = 0
        /\ pc[m] \in {"absent", "starting"} \/ (broken /\ pc[m] \in Ending)
    BY <1>3, <1>7 DEF RunTraceInv, RecordsOK
  <2>2. CASE m = n
    BY <2>1, <2>2 DEF Onward
  <2>3. CASE m # n
    BY <2>1, <2>3 DEF Onward
  <2>4. QED
    BY <2>2, <2>3
<1>8. records' # {} => Root \in Nodes(records')
  <2>1. records' # {} => Nodes(records) # {}
    BY <1>3, <1>4
  <2>2. Nodes(records) # {} => records # {}
    BY DEF Nodes, OfType
  <2>3. QED
    BY <1>3, <2>1, <2>2 DEF RunTraceInv, RecordsOK
<1>9. RecordsOK'
  BY <1>4, <1>5, <1>6, <1>7, <1>8 DEF RecordsOK
<1>10. QED
  BY <1>1, <1>9

\* The steps that leave no record of their own, seen from the scope that takes them.
LEMMA TasksMoveOn ==
  ASSUME AttemptsInv, NEW n \in Admitted,
         \/ Call(n) \/ Finish(n) \/ Acquire(n) \/ GiveUp(n) \/ ReserveAttempt(n) \/ Refuse(n)
         \/ Dispatch(n) \/ SignalProvider(n) \/ BackoffOver(n) \/ CloseWork(n) \/ ReadUsage(n)
         \/ Stop(n) \/ RecordEnd(n) \/ LoseEnd(n) \/ End(n)
         \/ Withdraw(n) \/ Answer(n) \/ GraceOver(n)
  PROVE  Onward(n)
<1>1. pc \in [NodeId -> Phase] /\ calls \in [NodeId -> Nat] /\ n \in NodeId
      /\ broken \in BOOLEAN
  BY DEF AttemptsInv, AttemptsTypeOK, Admitted
<1>2. CASE Call(n)
  <2>1. /\ pc[n] = "working" /\ pc' = [pc EXCEPT ![n] = "queued"]
        /\ calls' = [calls EXCEPT ![n] = @ + 1] /\ UNCHANGED <<path, scopes, broken>>
    BY <1>2 DEF Call, Go, ledgerVars, treeVars, runVars
  <2>2. QED
    BY <1>1, <2>1 DEF Onward, Ending
<1>3. ASSUME UNCHANGED <<path, scopes, calls>>, broken => broken',
             NEW q, pc' = [pc EXCEPT ![n] = q],
             \/ pc[n] \notin {"absent", "starting"} \cup Ending
             \/ pc[n] \in Ending /\ q \in Ending
      PROVE  Onward(n)
  BY <1>1, <1>3 DEF Onward, Ending
<1>4. CASE Finish(n)
  BY <1>3, <1>4 DEF Finish, Go, Ending, ledgerVars, treeVars, callVars
<1>5. CASE Acquire(n)
  BY <1>3, <1>5 DEF Acquire, Go, Ending, ledgerVars, treeVars, callVars, runVars
<1>6. CASE GiveUp(n)
  BY <1>3, <1>6 DEF GiveUp, Return, Go, Ending, ledgerVars, treeVars, runVars
<1>7. CASE ReserveAttempt(n)
  <2>1. UNCHANGED <<path, scopes>>
    BY <1>7 DEF ReserveAttempt, Reserve, Grant, treeVars
  <2>2. /\ UNCHANGED <<calls, broken>> /\ pc[n] = "granted"
        /\ pc' = [pc EXCEPT ![n] = "announced"]
    BY <1>7 DEF ReserveAttempt, Go, runVars
  <2>3. QED
    BY <1>3, <2>1, <2>2 DEF Ending
<1>8. CASE Refuse(n)
  BY <1>3, <1>8 DEF Refuse, Return, Go, Ending, ledgerVars, treeVars, runVars
<1>9. CASE Dispatch(n)
  BY <1>3, <1>9 DEF Dispatch, Go, Ending, ledgerVars, treeVars, callVars, runVars
<1>10. CASE SignalProvider(n)
  BY <1>3, <1>10 DEF SignalProvider, Go, Ending, ledgerVars, treeVars, callVars, runVars
<1>11. CASE BackoffOver(n)
  BY <1>3, <1>11 DEF BackoffOver, Go, Ending, ledgerVars, treeVars, callVars, runVars
<1>12. CASE CloseWork(n)
  BY <1>3, <1>12 DEF CloseWork, CloseAdmission, Go, Ending, treeVars, callVars
<1>13. CASE ReadUsage(n)
  BY <1>3, <1>13 DEF ReadUsage, Go, Ending, ledgerVars, treeVars, callVars
<1>14. CASE Stop(n)
  <2>1. UNCHANGED <<path, scopes, pc, calls, broken>>
    BY <1>14 DEF Stop, ledgerVars, treeVars, callVars
  <2>2. QED
    BY <2>1 DEF Onward
<1>15. CASE RecordEnd(n)
  <2>1. /\ UNCHANGED <<path, scopes, calls, broken>> /\ pc[n] = "settled"
        /\ \E q : pc' = [pc EXCEPT ![n] = q]
    BY <1>15 DEF RecordEnd, Return, Go, ledgerVars, treeVars
  <2>2. QED
    BY <1>3, <2>1 DEF Ending
<1>16. CASE LoseEnd(n)
  BY <1>3, <1>16 DEF LoseEnd, Return, Go, Emits, Ending, ledgerVars, treeVars
<1>17. CASE End(n)
  <2>1. UNCHANGED <<path, scopes, calls>> /\ pc[n] = "reporting" /\ (broken => broken')
        /\ pc' = [pc EXCEPT ![n] = "done"]
    BY <1>1, <1>17 DEF End, Shutdown, Go, Emits, treeVars, callVars
  <2>2. QED
    BY <1>3, <2>1 DEF Ending
<1>18. CASE Withdraw(n) \/ Answer(n) \/ GraceOver(n)
  <2>1. UNCHANGED <<path, scopes>>
    BY <1>18 DEF Withdraw, Answer, GraceOver, EndAttempt, Settle, treeVars
  <2>2. UNCHANGED calls /\ pc[n] \in Sending /\ (broken => broken')
    <3>1. CASE Withdraw(n)
      <4>1. UNCHANGED calls /\ pc[n] = "announced"
        BY <3>1 DEF Withdraw
      <4>2. UNCHANGED broken \/ Emits(FALSE)
        BY <3>1 DEF Withdraw
      <4>3. broken => broken'
        BY <4>2 DEF Emits
      <4>4. QED
        BY <4>1, <4>3 DEF Sending
    <3>2. CASE Answer(n)
      <4>1. UNCHANGED <<calls, broken>> /\ pc[n] \in {"sent", "grace"}
        BY <3>2 DEF Answer
      <4>2. QED
        BY <4>1 DEF Sending
    <3>3. CASE GraceOver(n)
      <4>1. UNCHANGED <<calls, broken>> /\ pc[n] = "grace"
        BY <3>3 DEF GraceOver, runVars
      <4>2. QED
        BY <4>1 DEF Sending
    <3>4. QED
      BY <1>18, <3>1, <3>2, <3>3
  <2>3. \E q : pc' = [pc EXCEPT ![n] = q]
    BY <1>18 DEF Withdraw, Answer, GraceOver, Return, Go
  <2>4. QED
    BY <1>3, <2>1, <2>2, <2>3 DEF Sending, Ending
<1>19. QED
  BY <1>2, <1>4, <1>5, <1>6, <1>7, <1>8, <1>9, <1>10, <1>11, <1>12, <1>13, <1>14, <1>15,
     <1>16, <1>17, <1>18

\* Of a scope whose start is not on record, none of these phases is possible.
LEMMA WorksOnceRecorded ==
  ASSUME RunTraceInv, NEW n \in Admitted,
         \/ pc[n] \notin {"absent", "starting"} \cup Ending
         \/ pc[n] \in Ending /\ ~broken
         \/ calls[n] > 0
  PROVE  n \in Nodes(records)
<1>1. n \in NodeId
  BY DEF Admitted
<1>2. SUFFICES ASSUME n \notin Nodes(records) PROVE FALSE
  OBVIOUS
<1>3. /\ calls[n] = 0
      /\ pc[n] \in {"absent", "starting"} \/ (broken /\ pc[n] \in Ending)
  BY <1>1, <1>2 DEF RunTraceInv, RecordsOK
<1>4. ~(calls[n] > 0)
  BY <1>3
<1>5. CASE pc[n] \notin {"absent", "starting"} \cup Ending
  <2>1. pc[n] \in {"absent", "starting"} \/ pc[n] \in Ending
    BY <1>3
  <2>2. QED
    BY <1>5, <2>1
<1>6. CASE pc[n] \in Ending /\ ~broken
  <2>1. pc[n] \in {"absent", "starting"}
    BY <1>3, <1>6
  <2>2. QED
    BY <1>6, <2>1 DEF Ending
<1>7. QED
  BY <1>4, <1>5, <1>6

\* A turn that could not be recorded ends the loop.
LEMMA TurnLostInv ==
  ASSUME AttemptsInv, NEW n \in Admitted, pc[n] = "working",
         pc' = [pc EXCEPT ![n] = "ended"], broken' = TRUE,
         UNCHANGED <<ledgerVars, callVars, free, stopped, panicked, panics, failed, report>>
  PROVE  AttemptsInv'
<1>1. UNCHANGED <<path, scopes, alive, own, used, attempts, calls, call>> /\ n \in NodeId
  BY DEF ledgerVars, treeVars, lifeVars, budgetVars, callVars, Admitted
<1>2. LedgerInv'
  BY LedgerKept DEF AttemptsInv
<1>3. /\ pc' \in [NodeId -> Phase] /\ pc'[n] = "ended"
      /\ \A m \in NodeId : m # n => pc'[m] = pc[m]
      /\ Ancestry' /\ Lifecycle' /\ BelowEnded'
      /\ pc'[Root] \notin Over
  BY <1>1, PhaseStep DEF Phase, Over
<1>4. AttemptsTypeOK'
  BY <1>1, <1>3 DEF AttemptsInv, AttemptsTypeOK
<1>5. HeldOnlyInFlight'
  <2>1. Holders' = Holders /\ Reserving' = Reserving
    BY <1>3, HoldersStep DEF Holding, Sending
  <2>2. QED
    BY <1>1, <2>1 DEF AttemptsInv, HeldOnlyInFlight
<1>6. ReportFinal'
  BY <1>1, <1>3, ReportsKept DEF Over
<1>7. PanicNoted'
  BY <1>3 DEF PanicNoted
<1>8. QED
  BY <1>2, <1>3, <1>4, <1>5, <1>6, <1>7 DEF AttemptsInv

\* Whoever admitted a scope is the parent its start names, before and after a step.
ParentFacts == \A n, m \in Admitted : n \in ChildrenOf(m) => ParentOf(n) = m

LEMMA ParentsKnown == AttemptsInv => ParentFacts
BY ParentIsKnown DEF ParentFacts

LEMMA ParentsKnownNext == AttemptsInv' => ParentFacts'
BY ParentsKnown, PTL

\* An admission: the new scope's parent has made a call, so its own start is on record.
LEMMA SpawnRecorded ==
  ASSUME RunTraceInv, NEW parent \in Admitted, NEW isAgent \in BOOLEAN,
         NEW requestedLimit \in Nat, Spawn(parent, isAgent, requestedLimit),
         calls[parent] > 0, UNCHANGED records
  PROVE  RunTraceInv'
<1>0. PICK id : id = scopes
  OBVIOUS
<1>1. AttemptsInv' /\ ParentFacts'
  BY SpawnInv, ParentsKnownNext DEF RunTraceInv
<1>2. /\ pc' = [pc EXCEPT ![id] = "starting"] /\ UNCHANGED <<calls, broken>>
      /\ Admit(parent, isAgent, requestedLimit)
  BY <1>0 DEF Spawn, Go, callVars, runVars
<1>3. /\ id \in NodeId /\ id \notin Admitted /\ id # Root
      /\ Admitted' = Admitted \cup {id} /\ parent \in NodeId /\ parent # id
  <2>1. scopes \in 1 .. MaxNodes /\ scopes < MaxNodes /\ scopes' = scopes + 1
    BY <1>2 DEF Admit, CanAdmit, RunTraceInv, AttemptsInv, LedgerInv, LedgerTypeOK
  <2>2. QED
    BY <1>0, <2>1, LimitsAssumption DEF Admitted, NodeId, Root
<1>4. /\ path'[id] = path[parent] \cup {id}
      /\ \A n \in Admitted : path'[n] = path[n]
  <2>1. path' = [path EXCEPT ![id] = path[parent] \cup {id}] /\ path \in [NodeId -> SUBSET NodeId]
    BY <1>0, <1>2 DEF Admit, RunTraceInv, AttemptsInv, LedgerInv, LedgerTypeOK
  <2>2. QED
    BY <1>3, <2>1 DEF Admitted
<1>5. \A n, m \in Admitted : n \in ChildrenOf(m) => n \in ChildrenOf(m)'
  BY <1>3, <1>4 DEF ChildrenOf
<1>6. id \in ChildrenOf(parent)'
  BY <1>3, <1>4 DEF ChildrenOf
<1>7. HasParent'
  BY <1>3, <1>5, <1>6 DEF RunTraceInv, HasParent
<1>8. ASSUME NEW n \in Admitted PROVE ParentOf(n)' = ParentOf(n) /\ NodeStart(n)' = NodeStart(n)
  <2>1. ParentOf(n)' = ParentOf(n)
    <3>1. CASE n = Root
      BY <3>1 DEF ParentOf
    <3>2. CASE n # Root
      <4>1. PICK m \in Admitted : n \in ChildrenOf(m)
        BY <3>2 DEF RunTraceInv, HasParent
      <4>2. ParentOf(n) = m
        BY <4>1, ParentIsKnown DEF RunTraceInv
      <4>3. ParentOf(n)' = m
        BY <1>1, <1>3, <1>5, <4>1 DEF ParentFacts
      <4>4. QED
        BY <4>2, <4>3
    <3>3. QED
      BY <3>1, <3>2
  <2>2. QED
    BY <2>1 DEF NodeStart
<1>9. ParentOf(id)' = parent
  BY <1>1, <1>3, <1>6 DEF ParentFacts
<1>10. parent \in Nodes(records)
  BY WorksOnceRecorded
<1>11. RecordsOK'
  <2>1. Nodes(records)' = Nodes(records)
        /\ OfType(records, "node_start")' = OfType(records, "node_start")
    BY DEF Nodes, OfType
  <2>2. \A r \in records' : r.node \in Nodes(records)'
    BY <2>1 DEF RunTraceInv, RecordsOK
  <2>3. \A r \in OfType(records, "node_start")' : r.node \in Admitted' /\ r = NodeStart(r.node)'
    BY <1>3, <1>8, <2>1 DEF RunTraceInv, RecordsOK
  <2>4. \A n \in Admitted' \ {Root} : ParentOf(n)' \in Nodes(records)'
    BY <1>3, <1>8, <1>9, <1>10, <2>1 DEF RunTraceInv, RecordsOK
  <2>5. ASSUME NEW n \in NodeId \ Nodes(records)'
        PROVE  /\ calls'[n] = 0
               /\ pc'[n] \in {"absent", "starting"} \/ (broken' /\ pc'[n] \in Ending)
    <3>1. /\ calls[n] = 0
          /\ pc[n] \in {"absent", "starting"} \/ (broken /\ pc[n] \in Ending)
      BY <2>1, <2>5 DEF RunTraceInv, RecordsOK
    <3>2. pc \in [NodeId -> Phase]
      BY DEF RunTraceInv, AttemptsInv, AttemptsTypeOK
    <3>3. pc'[n] = pc[n] \/ pc'[n] = "starting"
      BY <1>2, <3>2
    <3>4. QED
      BY <1>2, <3>1, <3>3
  <2>6. records' # {} => Root \in Nodes(records)'
    BY <2>1 DEF RunTraceInv, RecordsOK
  <2>7. QED
    BY <2>2, <2>3, <2>4, <2>5, <2>6 DEF RecordsOK
<1>12. QED
  BY <1>1, <1>7, <1>11 DEF RunTraceInv

\* A start, recorded or refused.
LEMMA StartRecorded ==
  ASSUME RunTraceInv, NEW n \in Admitted, NodeStarts(n)
  PROVE  HasParent' /\ RecordsOK'
<1>1. /\ pc \in [NodeId -> Phase] /\ n \in NodeId /\ pc[n] = "starting"
      /\ UNCHANGED <<path, scopes, calls>> /\ broken \in BOOLEAN
  BY DEF RunTraceInv, AttemptsInv, AttemptsTypeOK, Admitted, NodeStarts, Start, ledgerVars, treeVars,
         callVars
<1>2. PICK ok \in BOOLEAN : Emits(ok) /\ pc' = [pc EXCEPT ![n] = IF ok THEN "working" ELSE "ended"]
  BY DEF NodeStarts, Start, Go
<1>3. /\ HasParent' /\ Admitted' = Admitted
      /\ \A m \in Admitted : NodeStart(m)' = NodeStart(m) /\ ParentOf(m)' = ParentOf(m)
  BY <1>1, TreeKept DEF RunTraceInv
<1>4. (pc'[n] = "working") = ok
  BY <1>1, <1>2
<1>5. CASE ok
  <2> DEFINE start == NodeStart(n)
  <2>1. records' = records \cup {start} /\ pc' = [pc EXCEPT ![n] = "working"] /\ (broken => broken')
    BY <1>2, <1>4, <1>5 DEF NodeStarts, Recorded, Emits
  <2>2. start.type = "node_start" /\ start.node = n /\ start = NodeStart(n)'
    BY <1>3 DEF NodeStart
  <2> HIDE DEF start
  <2>3. OfType(records', "node_start") = OfType(records, "node_start") \cup {start}
    BY <2>1, <2>2 DEF OfType
  <2>4. Nodes(records') = Nodes(records) \cup {n}
    BY <2>2, <2>3 DEF Nodes
  <2>5. \A r \in records' : r.node \in Nodes(records')
    BY <2>1, <2>2, <2>4 DEF RunTraceInv, RecordsOK
  <2>6. \A r \in OfType(records', "node_start") : r.node \in Admitted' /\ r = NodeStart(r.node)'
    BY <1>3, <2>2, <2>3 DEF RunTraceInv, RecordsOK
  <2>7. \A m \in Admitted' \ {Root} : ParentOf(m)' \in Nodes(records')
    BY <1>3, <2>4 DEF RunTraceInv, RecordsOK
  <2>8. ASSUME NEW m \in NodeId \ Nodes(records')
        PROVE  /\ calls'[m] = 0
               /\ pc'[m] \in {"absent", "starting"} \/ (broken' /\ pc'[m] \in Ending)
    <3>1. m # n /\ m \in NodeId \ Nodes(records)
      BY <2>4, <2>8
    <3>2. /\ calls[m] = 0
          /\ pc[m] \in {"absent", "starting"} \/ (broken /\ pc[m] \in Ending)
      BY <3>1 DEF RunTraceInv, RecordsOK
    <3>3. pc'[m] = pc[m] /\ calls'[m] = calls[m]
      BY <1>1, <2>1, <3>1
    <3>4. QED
      BY <2>1, <3>2, <3>3
  <2>9. Root \in Nodes(records')
    <3>1. CASE n = Root
      BY <2>4, <3>1
    <3>2. CASE n # Root
      <4>1. ParentOf(n) \in Nodes(records)
        BY <3>2 DEF RunTraceInv, RecordsOK
      <4>2. records # {}
        BY <4>1 DEF Nodes, OfType
      <4>3. QED
        BY <2>4, <4>2 DEF RunTraceInv, RecordsOK
    <3>3. QED
      BY <3>1, <3>2
  <2>10. QED
    BY <1>3, <2>5, <2>6, <2>7, <2>8, <2>9 DEF RecordsOK
<1>6. CASE ~ok
  <2>1. UNCHANGED records /\ pc' = [pc EXCEPT ![n] = "ended"] /\ broken' = TRUE
    BY <1>2, <1>4, <1>6 DEF NodeStarts, Recorded, Emits
  <2>2. Nodes(records') = Nodes(records)
        /\ OfType(records', "node_start") = OfType(records, "node_start")
    BY <2>1
  <2>3. \A r \in records' : r.node \in Nodes(records')
    BY <2>1 DEF RunTraceInv, RecordsOK
  <2>4. \A r \in OfType(records', "node_start") : r.node \in Admitted' /\ r = NodeStart(r.node)'
    BY <1>3, <2>2 DEF RunTraceInv, RecordsOK
  <2>5. \A m \in Admitted' \ {Root} : ParentOf(m)' \in Nodes(records')
    BY <1>3, <2>2 DEF RunTraceInv, RecordsOK
  <2>6. ASSUME NEW m \in NodeId \ Nodes(records')
        PROVE  /\ calls'[m] = 0
               /\ pc'[m] \in {"absent", "starting"} \/ (broken' /\ pc'[m] \in Ending)
    <3>1. /\ calls[m] = 0
          /\ pc[m] \in {"absent", "starting"} \/ (broken /\ pc[m] \in Ending)
      BY <2>2, <2>6 DEF RunTraceInv, RecordsOK
    <3>2. calls'[m] = calls[m] /\ (pc'[m] = pc[m] \/ pc'[m] = "ended")
      BY <1>1, <2>1
    <3>3. QED
      BY <2>1, <3>1, <3>2 DEF Ending
  <2>7. records' # {} => Root \in Nodes(records')
    BY <2>1 DEF RunTraceInv, RecordsOK
  <2>8. QED
    BY <1>3, <2>3, <2>4, <2>5, <2>6, <2>7 DEF RecordsOK
<1>7. QED
  BY <1>5, <1>6

\* The loop's last message, recorded or lost.
LEMMA TurnRecordedInv ==
  ASSUME RunTraceInv, NEW n \in Admitted, TurnRecorded(n)
  PROVE  RunTraceInv'
<1>1. /\ pc \in [NodeId -> Phase] /\ n \in NodeId /\ pc[n] = "working" /\ broken \in BOOLEAN
      /\ UNCHANGED <<ledgerVars, callVars, free, stopped, panicked, panics, failed, report>>
      /\ UNCHANGED <<path, scopes, calls>>
  BY DEF RunTraceInv, AttemptsInv, AttemptsTypeOK, Admitted, TurnRecorded, ledgerVars, treeVars,
         callVars
<1>2. PICK ok \in BOOLEAN :
        /\ Recorded(ok, TurnMessage(n, turns[n]))
        /\ pc' = [pc EXCEPT ![n] = IF ok THEN "working" ELSE "ended"]
  BY DEF TurnRecorded, Go
<1>3. n \in Nodes(records)
  BY <1>1, WorksOnceRecorded DEF Ending
<1>4. CASE ok
  <2>1. /\ ~broken /\ broken' = FALSE
        /\ records' = records \cup {TurnMessage(n, turns[n])}
    BY <1>2, <1>4, Zenon DEF Recorded, Emits
  <2>2. broken' = broken
    BY <1>1, <2>1
  <2>3. pc' = pc
    BY <1>1, <1>2, <1>4
  <2>4. UNCHANGED attemptsVars
    BY <1>1, <2>2, <2>3 DEF attemptsVars, runVars
  <2>5. AttemptsInv'
    BY <2>4, AttemptsNextInv DEF RunTraceInv
  <2>6. Onward(n)
    BY <1>1, <2>2, <2>3 DEF Onward
  <2>7. records \subseteq records' /\ \A r \in records' \ records :
          r.type # "node_start" /\ r.node \in Nodes(records)
    BY <1>3, <2>1 DEF TurnMessage
  <2>8. HasParent' /\ RecordsOK'
    BY <1>1, <2>6, <2>7, RecordsGrow
  <2>9. QED
    BY <2>5, <2>8 DEF RunTraceInv
<1>5. CASE ~ok
  <2>1. broken' = TRUE /\ UNCHANGED records /\ pc' = [pc EXCEPT ![n] = "ended"]
    BY <1>2, <1>5 DEF Recorded, Emits
  <2>2. AttemptsInv'
    BY <1>1, <2>1, TurnLostInv DEF RunTraceInv
  <2>3. Onward(n)
    BY <1>1, <2>1 DEF Onward, Ending
  <2>4. HasParent' /\ RecordsOK'
    BY <1>1, <2>1, <2>3, RecordsGrow
  <2>5. QED
    BY <2>2, <2>4 DEF RunTraceInv
<1>6. QED
  BY <1>4, <1>5

\* The end of an attempt, recorded.
LEMMA AttemptRecordedInv ==
  ASSUME RunTraceInv, NEW n \in Admitted, AttemptRecorded(n)
  PROVE  RunTraceInv'
<1>1. RecordEnd(n) /\ pc[n] = "settled" /\ n \in NodeId
  BY DEF AttemptRecorded, RecordEnd, Admitted
<1>2. AttemptsInv'
  BY <1>1, AttemptsNextInv DEF RunTraceInv, AttemptsNext, Progress
<1>3. Onward(n)
  BY <1>1, TasksMoveOn DEF RunTraceInv
<1>4. n \in Nodes(records)
  BY <1>1, WorksOnceRecorded DEF Ending
<1>5. records' = records \cup {AttemptEnd(n)}
  BY DEF AttemptRecorded, Recorded
<1>6. records \subseteq records' /\ \A r \in records' \ records :
        r.type # "node_start" /\ r.node \in Nodes(records)
  BY <1>4, <1>5 DEF AttemptEnd
<1>7. HasParent' /\ RecordsOK'
  BY <1>1, <1>3, <1>6, RecordsGrow
<1>8. QED
  BY <1>2, <1>7 DEF RunTraceInv

\* The end of a scope, recorded while the trace works.
LEMMA NodeEndsInv ==
  ASSUME RunTraceInv, NEW n \in Admitted, NodeEnds(n)
  PROVE  RunTraceInv'
<1>1. End(n) /\ pc[n] = "reporting" /\ n \in NodeId
  BY DEF NodeEnds, End, Admitted
<1>2. AttemptsInv'
  BY <1>1, AttemptsNextInv DEF RunTraceInv, AttemptsNext, Progress
<1>3. Onward(n)
  BY <1>1, TasksMoveOn DEF RunTraceInv
<1>4. UNCHANGED records \/ (~broken /\ records' = records \cup {NodeEnd(n)})
  BY DEF NodeEnds, Recorded
<1>5. ~broken => n \in Nodes(records)
  BY <1>1, WorksOnceRecorded DEF Ending
<1>6. records \subseteq records' /\ \A r \in records' \ records :
        r.type # "node_start" /\ r.node \in Nodes(records)
  BY <1>4, <1>5 DEF NodeEnd
<1>7. HasParent' /\ RecordsOK'
  BY <1>1, <1>3, <1>6, RecordsGrow
<1>8. QED
  BY <1>2, <1>7 DEF RunTraceInv

\* Whoever leaves no record.
LEMMA UnrecordedInv ==
  ASSUME RunTraceInv, NEW n \in Admitted, Settles(n) \/ AttemptLost(n) \/ Silent(n)
  PROVE  RunTraceInv'
<1>1. /\ UNCHANGED records /\ n \in NodeId
      /\ \/ Call(n) \/ Finish(n) \/ Acquire(n) \/ GiveUp(n) \/ ReserveAttempt(n) \/ Refuse(n)
         \/ Dispatch(n) \/ SignalProvider(n) \/ BackoffOver(n) \/ CloseWork(n) \/ ReadUsage(n)
         \/ Stop(n) \/ LoseEnd(n) \/ Withdraw(n) \/ Answer(n) \/ GraceOver(n)
  BY DEF Settles, AttemptLost, Silent, traceVars, Admitted
<1>2. AttemptsInv'
  BY <1>1, AttemptsNextInv DEF RunTraceInv, AttemptsNext, Progress
<1>3. Onward(n)
  BY <1>1, TasksMoveOn DEF RunTraceInv
<1>4. HasParent' /\ RecordsOK'
  BY <1>1, <1>3, RecordsGrow
<1>5. QED
  BY <1>2, <1>4 DEF RunTraceInv

\* A step of nobody.
LEMMA RunStandsStill ==
  ASSUME RunTraceInv, UNCHANGED <<attemptsVars, records>>
  PROVE  RunTraceInv'
<1>1. AttemptsInv'
  BY AttemptsNextInv DEF RunTraceInv
<1>2. Onward(Root) /\ Root \in NodeId
  BY LimitsAssumption DEF Onward, attemptsVars, ledgerVars, treeVars, callVars, runVars, NodeId, Root
<1>3. HasParent' /\ RecordsOK'
  BY <1>2, RecordsGrow
<1>4. QED
  BY <1>1, <1>3 DEF RunTraceInv

LEMMA RunTraceInitInv == RunTraceInit => RunTraceInv
<1> SUFFICES ASSUME RunTraceInit PROVE RunTraceInv
  OBVIOUS
<1>1. AttemptsInv
  BY AttemptsInitInv DEF RunTraceInit
<1>2. records = {} /\ Nodes(records) = {} /\ OfType(records, "node_start") = {}
  BY DEF RunTraceInit, Nodes, OfType
<1>3. Admitted \subseteq {Root}
  BY LimitsAssumption DEF RunTraceInit, AttemptsInit, LedgerInit, Admitted, NodeId, Root
<1>4. HasParent
  BY <1>3 DEF HasParent
<1>5. \A n \in NodeId : calls[n] = 0 /\ pc[n] \in {"absent", "starting"}
  BY DEF RunTraceInit, AttemptsInit
<1>6. RecordsOK
  BY <1>2, <1>3, <1>5 DEF RecordsOK
<1>7. QED
  BY <1>1, <1>4, <1>6 DEF RunTraceInv

LEMMA RunTraceNextInv == RunTraceInv /\ [RunTraceNext]_runTraceVars => RunTraceInv'
<1> SUFFICES ASSUME RunTraceInv, [RunTraceNext]_runTraceVars PROVE RunTraceInv'
  OBVIOUS
<1>1. ASSUME NEW parent \in Admitted, Spawns(parent) PROVE RunTraceInv'
  <2>1. calls[parent] > 0 /\ UNCHANGED records
    BY <1>1 DEF Spawns, traceVars
  <2>2. PICK isAgent \in BOOLEAN, requestedLimit \in Nat : Spawn(parent, isAgent, requestedLimit)
    BY <1>1, LimitsAssumption DEF Spawns, SpawnAgent, SpawnLeaf
  <2>3. QED
    BY <2>1, <2>2, SpawnRecorded
<1>2. ASSUME NEW n \in Admitted, NodeStarts(n) PROVE RunTraceInv'
  <2>1. AttemptsInv'
    BY <1>2, AttemptsNextInv DEF RunTraceInv, NodeStarts, AttemptsNext, Progress
  <2>2. QED
    BY <1>2, <2>1, StartRecorded DEF RunTraceInv
<1>3. ASSUME NEW n \in Admitted, TurnCounted(n) \/ ResponseDropped(n) PROVE RunTraceInv'
  BY <1>3, RunStandsStill DEF TurnCounted, ResponseDropped
<1>4. CASE UNCHANGED runTraceVars
  BY <1>4, RunStandsStill DEF runTraceVars, traceVars
<1>5. QED
  BY <1>1, <1>2, <1>3, <1>4, TurnRecordedInv, AttemptRecordedInv, NodeEndsInv, UnrecordedInv
     DEF RunTraceNext

\* What is known of the records holds throughout a run.
THEOREM RunTraceInvariant == RunTraceSpec => []RunTraceInv
<1>1. RunTraceInit => RunTraceInv
  BY RunTraceInitInv
<1>2. RunTraceInv /\ [RunTraceNext]_runTraceVars => RunTraceInv'
  BY RunTraceNextInv
<1>3. QED
  BY <1>1, <1>2, PTL DEF RunTraceSpec

\* A set of numbers has a least one.
LEMMA LeastNumber ==
  ASSUME NEW S \in SUBSET Nat, S # {}
  PROVE  \E x \in S : \A y \in S : x <= y
<1> DEFINE R == OpToRel(<, Nat)
<1>1. IsWellFoundedOn(R, Nat)
  BY NatLessThanWellFounded
<1>2. \A x, y \in Nat : y < x => <<y, x>> \in R
  BY DEF OpToRel
<1> HIDE DEF R
<1>3. PICK x \in S : \A y \in S : ~(<<y, x>> \in R)
  BY <1>1, WFMin
<1>4. ASSUME NEW y \in S PROVE x <= y
  <2>1. x \in Nat /\ y \in Nat
    OBVIOUS
  <2>2. ~(y < x)
    BY <1>2, <1>3, <2>1
  <2>3. QED
    BY <2>1, <2>2
<1>5. QED
  BY <1>4

\* Every scope on record is admitted, and numbers grow along every path.
LEMMA TreeTypes ==
  ASSUME RunTraceInv
  PROVE  /\ Nodes(records) \subseteq Admitted /\ Admitted \subseteq NodeId /\ NodeId \subseteq Nat
         /\ Root \in Nat /\ NoParent \notin Nat
         /\ \A n \in Admitted : /\ n \in path[n] /\ path[n] \subseteq Admitted
                                /\ \A m \in path[n] : m <= n
BY LimitsAssumption DEF RunTraceInv, RecordsOK, Nodes, Admitted, NodeId, Root, NoParent,
   AttemptsInv, LedgerInv, TreeOK

\* The reconstruction knows the parent of a scope.
LEMMA ParentRead ==
  ASSUME RunTraceInv, NEW n \in Nodes(records)
  PROVE  ParentIn(records, n) = ParentOf(n)
<1>1. \E r \in OfType(records, "node_start") : r.node = n
  BY DEF Nodes
<1>2. \A r \in OfType(records, "node_start") : r.node = n => r = NodeStart(n)
  BY DEF RunTraceInv, RecordsOK
<1>3. (CHOOSE r \in OfType(records, "node_start") : r.node = n) = NodeStart(n)
  BY <1>1, <1>2
<1>4. ParentIn(records, n) = NodeStart(n).parent
  BY <1>3 DEF ParentIn
<1>5. QED
  BY <1>4 DEF NodeStart

\* A crash at any moment, and a trace that fails at any record, leave a transcript that
\* reconstruct_tree accepts: one tree below the root, no record outside it.
THEOREM TreeIsReadable == RunTraceSpec => []TreeReadable
<1>1. ASSUME RunTraceInv PROVE TreeReadable
  <2>1. Nodes(records) \subseteq Admitted /\ Admitted \subseteq NodeId /\ NodeId \subseteq Nat
    BY <1>1, LimitsAssumption DEF RunTraceInv, RecordsOK, Nodes, Admitted, NodeId
  <2>2. \A n \in Nodes(records) : ParentIn(records, n) = ParentOf(n)
    BY <1>1, ParentRead
  <2>3. ASSUME NEW n \in Nodes(records), n # Root
        PROVE  ParentOf(n) \in Nodes(records) /\ ParentOf(n) < n
    <3>1. ParentOf(n) \in Nodes(records)
      BY <1>1, <2>1, <2>3 DEF RunTraceInv, RecordsOK
    <3>2. PICK m \in Admitted : n \in ChildrenOf(m)
      BY <1>1, <2>1, <2>3 DEF RunTraceInv, HasParent
    <3>3. m < n /\ ParentOf(n) = m
      BY <1>1, <2>1, <3>2, ParentIsKnown DEF RunTraceInv
    <3>4. QED
      BY <3>1, <3>3
  <2>4. ParentOf(Root) = NoParent
    BY DEF ParentOf
  <2>5. ~DuplicateStart(records)
    BY <1>1 DEF DuplicateStart, RunTraceInv, RecordsOK
  <2>6. ~MissingParent(records)
    BY <2>2, <2>3, <2>4 DEF MissingParent
  <2>7. ~Cyclic(records)
    <3>1. ASSUME NEW S \in SUBSET Nodes(records), S # {}, \A n \in S : ParentIn(records, n) \in S
          PROVE  FALSE
      <4>1. S \in SUBSET Nat
        BY <2>1
      <4>2. PICK x \in S : \A y \in S : x <= y
        BY <3>1, <4>1, LeastNumber
      <4>3. ParentOf(x) \in S
        BY <2>2, <3>1
      <4>4. x # Root
        <5>1. NoParent \notin Nat
          BY DEF NoParent
        <5>2. QED
          BY <2>4, <4>1, <4>3, <5>1
      <4>5. ParentOf(x) < x /\ x <= ParentOf(x)
        BY <2>3, <4>2, <4>3, <4>4
      <4>6. x \in Nat /\ ParentOf(x) \in Nat
        BY <4>1, <4>3
      <4>7. QED
        BY <4>5, <4>6
    <3>2. QED
      BY <3>1 DEF Cyclic
  <2>8. ASSUME records # {} PROVE ChildrenIn(records, NoParent) = {Root}
    <3>1. Root \in Nodes(records)
      BY <1>1, <2>8 DEF RunTraceInv, RecordsOK
    <3>2. \A n \in Nodes(records) : n # Root => ParentIn(records, n) # NoParent
      <4>1. NoParent \notin Nat
        BY DEF NoParent
      <4>2. QED
        BY <2>1, <2>2, <2>3, <4>1
    <3>3. ParentIn(records, Root) = NoParent
      BY <2>2, <2>4, <3>1
    <3>4. QED
      BY <3>1, <3>2, <3>3 DEF ChildrenIn
  <2>9. \A r \in records : r.node \in Nodes(records)
    BY <1>1 DEF RunTraceInv, RecordsOK
  <2>10. QED
    BY <2>5, <2>6, <2>7, <2>8, <2>9 DEF TreeReadable, Readable
<1>2. RunTraceInv => TreeReadable
  BY <1>1
<1>3. QED
  BY <1>2, RunTraceInvariant, PTL

-----------------------------------------------------------------------------
(* Nobody is stuck.                                                        *)

\* A task can take a step of its own: the guards of Progress, as the phases have them.
Movable(n) ==
  \/ pc[n] \in {"starting", "working", "sent", "settled", "backoff", "ended"}
  \/ pc[n] = "queued" /\ (free > 0 \/ Stopped(n))
  \/ /\ pc[n] = "granted"
     /\ \/ Stopped(n) \/ ~CanReserve(n, call[n].prompt, call[n].output)
        \/ nextAttempt < MaxAttempts
  \/ pc[n] \in {"announced", "grace"} /\ \E a \in attempts : a.node = n
  \/ pc[n] = "joining" /\ \A m \in ChildrenOf(n) : pc[m] = "done"
  \/ pc[n] = "reporting" /\ alive[n]

\* Until the root is done nobody waits for somebody who waits: whoever is queued for a
\* slot waits for a holder, which never waits for a slot or a child; whoever joins its
\* children waits for a younger scope.
THEOREM RunNeverStuck ==
  AttemptsSpec =>
    [](pc[Root] # "done" /\ nextAttempt < MaxAttempts => \E n \in Admitted : Movable(n))
<1>1. ASSUME AttemptsInv, pc[Root] # "done", nextAttempt < MaxAttempts,
             \A n \in Admitted : ~Movable(n)
      PROVE  FALSE
  <2>1. /\ pc \in [NodeId -> Phase] /\ Admitted \subseteq NodeId /\ NodeId \subseteq Nat
        /\ Root \in Admitted /\ free \in 0 .. Slots /\ Slots \in Nat \ {0} /\ MaxNodes \in Nat
    BY <1>1, LimitsAssumption, SlotsAssumption
       DEF AttemptsInv, AttemptsTypeOK, LedgerInv, TreeOK, Admitted, NodeId
  <2>2. \A n \in NodeId : n \in Admitted <=> pc[n] # "absent"
    BY <1>1 DEF AttemptsInv, Lifecycle
  <2>3. ASSUME NEW n \in Admitted PROVE pc[n] \notin Holding
    <3>1. pc[n] \in Sending => \E a \in attempts : a.node = n
      <4>1. {a.node : a \in attempts} = Reserving
        BY <1>1 DEF AttemptsInv, HeldOnlyInFlight
      <4>2. QED
        BY <2>1, <4>1 DEF Reserving, Sending
    <3>2. QED
      BY <1>1, <3>1 DEF Movable, Holding, Sending
  <2>4. Holders = {}
    BY <2>2, <2>3 DEF Holders, Holding
  <2>5. free > 0
    <3>1. free + Cardinality(Holders) = Slots
      BY <1>1 DEF AttemptsInv, HeldOnlyInFlight
    <3>2. QED
      BY <2>1, <2>4, <3>1, FS_EmptySet
  <2>6. ASSUME NEW n \in Admitted, pc[n] # "done"
        PROVE  pc[n] = "joining" /\ \E m \in ChildrenOf(n) : pc[m] # "done"
    <3>1. pc[n] \in Phase /\ pc[n] # "absent" /\ pc[n] \notin Holding
      BY <2>1, <2>2, <2>3
    <3>2. alive[n] <=> pc[n] \notin {"absent", "done"}
      BY <1>1, <2>1 DEF AttemptsInv, Lifecycle
    <3>3. pc[n] # "reporting"
      BY <1>1, <2>6, <3>1, <3>2 DEF Movable
    <3>4. QED
      BY <1>1, <2>5, <2>6, <3>1, <3>3 DEF Movable, Phase, Holding
  <2> DEFINE Ages == {MaxNodes - n : n \in {m \in Admitted : pc[m] # "done"}}
  <2>7. \A n \in Admitted : n \in Nat /\ MaxNodes - n \in Nat
    BY <2>1 DEF NodeId
  <2>8. Ages # {} /\ Ages \in SUBSET Nat
    BY <1>1, <2>1, <2>7
  <2>9. PICK x \in Ages : \A y \in Ages : x <= y
    BY <2>8, LeastNumber, Zenon
  <2>10. PICK n \in Admitted : pc[n] # "done" /\ x = MaxNodes - n
    OBVIOUS
  <2>11. PICK m \in ChildrenOf(n) : pc[m] # "done"
    BY <2>6, <2>10
  <2>12. m \in Admitted /\ n < m
    <3>1. m \in Admitted /\ m # n /\ n \in path[m]
      BY <1>1 DEF ChildrenOf, AttemptsInv, LedgerInv, TreeOK
    <3>2. n <= m
      BY <1>1, <3>1 DEF AttemptsInv, LedgerInv, TreeOK
    <3>3. QED
      BY <2>7, <3>1, <3>2
  <2>13. MaxNodes - m \in Ages
    BY <2>11, <2>12
  <2>14. x <= MaxNodes - m
    BY <2>9, <2>13
  <2>15. QED
    BY <2>1, <2>7, <2>10, <2>12, <2>14
<1>2. AttemptsInv =>
        (pc[Root] # "done" /\ nextAttempt < MaxAttempts => \E n \in Admitted : Movable(n))
  BY <1>1
<1>3. QED
  BY <1>2, AttemptsInvariant, PTL

-----------------------------------------------------------------------------
(* Induction over finite sets, without an operator for a parameter.        *)

\* Induction over a finite set, for a family P of its subsets.
LEMMA SetInduction ==
  ASSUME NEW S, IsFiniteSet(S), NEW P, {} \in P,
         \A T \in SUBSET S : \A x \in S \ T : T \in P => T \cup {x} \in P
  PROVE  S \in P
<1> DEFINE Sizes == {k \in Nat : \E T \in SUBSET S : T \notin P /\ Cardinality(T) = k}
<1>1. SUFFICES ASSUME S \notin P PROVE FALSE
  OBVIOUS
<1>2. \A T \in SUBSET S : IsFiniteSet(T) /\ Cardinality(T) \in Nat
  BY FS_Subset, FS_CardinalityType
<1>3. Sizes # {} /\ Sizes \in SUBSET Nat
  BY <1>1, <1>2
<1>4. PICK k \in Sizes : \A l \in Sizes : k <= l
  BY <1>3, LeastNumber, Zenon
<1>5. PICK T \in SUBSET S : T \notin P /\ Cardinality(T) = k
  BY <1>4
<1>6. T # {}
  BY <1>5
<1>7. PICK x \in T : TRUE
  BY <1>6
<1>8. /\ Cardinality(T \ {x}) = Cardinality(T) - 1 /\ Cardinality(T \ {x}) \in Nat
      /\ T \ {x} \in SUBSET S
  BY <1>2, <1>7, FS_RemoveElement
<1>9. T \ {x} \notin P
  <2>1. (T \ {x}) \cup {x} = T /\ x \in S \ (T \ {x})
    BY <1>7
  <2>2. QED
    BY <1>5, <1>8, <2>1
<1>10. Cardinality(T \ {x}) \in Sizes
  BY <1>8, <1>9
<1>11. k <= Cardinality(T) - 1 /\ k = Cardinality(T) /\ k \in Nat
  BY <1>2, <1>4, <1>5, <1>8, <1>10
<1>12. QED
  BY <1>11

-----------------------------------------------------------------------------
(* Sums: Total(f, S) is the sum of the numbers f[x], x in S.               *)

Numbers(f, S) == IsFiniteSet(S) /\ \A x \in S : f[x] \in Nat

\* One more element adds its number.
LEMMA TotalAdd ==
  ASSUME NEW f, NEW S, IsFiniteSet(Tokens(f, S)), NEW x, x \notin S, f[x] \in Nat
  PROVE  /\ IsFiniteSet(Tokens(f, S \cup {x}))
         /\ Total(f, S \cup {x}) = Total(f, S) + f[x]
<1>1. Tokens(f, S \cup {x}) = Tokens(f, S) \cup ({x} \X (1 .. f[x]))
  BY DEF Tokens
<1>2. Tokens(f, S) \cap ({x} \X (1 .. f[x])) = {}
  BY DEF Tokens
<1>3. IsFiniteSet({x} \X (1 .. f[x])) /\ Cardinality({x} \X (1 .. f[x])) = f[x]
  BY FirstTokens
<1>4. /\ IsFiniteSet(Tokens(f, S) \cup ({x} \X (1 .. f[x])))
      /\ Cardinality(Tokens(f, S) \cup ({x} \X (1 .. f[x]))) =
           Cardinality(Tokens(f, S)) + Cardinality({x} \X (1 .. f[x]))
  BY <1>2, <1>3, AddTokens, Zenon
<1>5. QED
  BY <1>1, <1>3, <1>4 DEF Total

\* The sum over the empty set is zero, and every sum of numbers is a number.
LEMMA TotalEmpty ==
  ASSUME NEW f
  PROVE  Tokens(f, {}) = {} /\ IsFiniteSet(Tokens(f, {})) /\ Total(f, {}) = 0
<1>1. Tokens(f, {}) = {}
  BY DEF Tokens
<1>2. QED
  BY <1>1, FS_EmptySet DEF Total

LEMMA TotalFinite ==
  ASSUME NEW f, NEW S, Numbers(f, S)
  PROVE  IsFiniteSet(Tokens(f, S)) /\ Total(f, S) \in Nat
<1> DEFINE P == {T \in SUBSET S : IsFiniteSet(Tokens(f, T))}
<1>1. IsFiniteSet(S) /\ \A x \in S : f[x] \in Nat
  BY DEF Numbers
<1>2. {} \in P
  BY TotalEmpty
<1>3. ASSUME NEW T \in SUBSET S, NEW x \in S \ T, T \in P PROVE T \cup {x} \in P
  <2>1. IsFiniteSet(Tokens(f, T \cup {x}))
    BY <1>1, <1>3, TotalAdd
  <2>2. QED
    BY <1>3, <2>1
<1> HIDE DEF P
<1>4. S \in P
  BY <1>1, <1>2, <1>3, SetInduction
<1>5. QED
  BY <1>4, FS_CardinalityType DEF P, Total

LEMMA TotalNext ==
  ASSUME NEW f, NEW S, Numbers(f, S), NEW x, x \notin S, f[x] \in Nat
  PROVE  Numbers(f, S \cup {x}) /\ Total(f, S \cup {x}) = Total(f, S) + f[x]
<1>1. IsFiniteSet(S \cup {x})
  BY FS_AddElement DEF Numbers
<1>2. QED
  BY <1>1, TotalFinite, TotalAdd DEF Numbers

\* Only the numbers that are not zero count.
LEMMA TotalSame ==
  ASSUME NEW f, NEW g, NEW S, NEW T \in SUBSET S,
         \A x \in T : f[x] = g[x],
         \A x \in S \ T : f[x] = 0
  PROVE  Tokens(f, S) = Tokens(g, T) /\ Total(f, S) = Total(g, T)
<1>1. \A x \in S \ T : 1 .. f[x] = {}
  BY SMT
<1>2. Tokens(f, S) = Tokens(g, T)
  <2>1. Tokens(f, S) \subseteq Tokens(g, T)
    BY <1>1 DEF Tokens
  <2>2. Tokens(g, T) \subseteq Tokens(f, S)
    BY DEF Tokens
  <2>3. QED
    BY <2>1, <2>2
<1>3. QED
  BY <1>2 DEF Total

\* Smaller numbers, smaller sum.
LEMMA TotalMonotone ==
  ASSUME NEW f, NEW g, NEW S, Numbers(f, S), Numbers(g, S), \A x \in S : f[x] <= g[x]
  PROVE  Total(f, S) <= Total(g, S)
<1>1. \A x \in S : 1 .. f[x] \subseteq 1 .. g[x]
  BY SMT DEF Numbers
<1>2. Tokens(f, S) \subseteq Tokens(g, S)
  BY <1>1 DEF Tokens
<1>3. IsFiniteSet(Tokens(g, S))
  BY TotalFinite
<1>4. QED
  BY <1>2, <1>3, FS_Subset DEF Total

\* The sum of the sums is the sum of both.
LEMMA TotalPlus ==
  ASSUME NEW f, NEW g, NEW h, NEW S, Numbers(f, S), Numbers(g, S),
         \A x \in S : h[x] = f[x] + g[x]
  PROVE  Total(h, S) = Total(f, S) + Total(g, S)
<1> DEFINE P == {T \in SUBSET S : Total(h, T) = Total(f, T) + Total(g, T)}
<1>1. /\ IsFiniteSet(S) /\ \A x \in S : f[x] \in Nat /\ g[x] \in Nat /\ h[x] \in Nat
      /\ \A T \in SUBSET S : IsFiniteSet(T)
  BY FS_Subset DEF Numbers
<1>2. {} \in P
  <2>1. Total(f, {}) = 0 /\ Total(g, {}) = 0 /\ Total(h, {}) = 0
    BY TotalEmpty
  <2>2. QED
    BY <2>1
<1>3. ASSUME NEW T \in SUBSET S, NEW x \in S \ T, T \in P PROVE T \cup {x} \in P
  <2>1. Numbers(f, T) /\ Numbers(g, T) /\ Numbers(h, T)
    BY <1>1 DEF Numbers
  <2>2. Total(f, T) \in Nat /\ Total(g, T) \in Nat /\ Total(h, T) \in Nat
    BY <2>1, TotalFinite
  <2>3. f[x] \in Nat /\ g[x] \in Nat /\ h[x] \in Nat /\ h[x] = f[x] + g[x]
    BY <1>1
  <2>4. /\ Total(f, T \cup {x}) = Total(f, T) + f[x]
        /\ Total(g, T \cup {x}) = Total(g, T) + g[x]
        /\ Total(h, T \cup {x}) = Total(h, T) + h[x]
    BY <2>1, <2>3, TotalNext
  <2>5. QED
    BY <1>3, <2>2, <2>3, <2>4
<1> HIDE DEF P
<1>4. S \in P
  BY <1>1, <1>2, <1>3, SetInduction
<1>5. QED
  BY <1>4 DEF P

\* Parts that do not meet are added up one after the other.
LEMMA TotalOfParts ==
  ASSUME NEW f, NEW S, NEW F, NEW g, Numbers(f, UNION {F[m] : m \in S}), IsFiniteSet(S),
         \A m \in S : g[m] = Total(f, F[m]),
         \A m, k \in S : m # k => F[m] \cap F[k] = {}
  PROVE  /\ Numbers(g, S)
         /\ Total(f, UNION {F[m] : m \in S}) = Total(g, S)
<1> DEFINE Whole(T) == UNION {F[m] : m \in T}
           P == {T \in SUBSET S : Total(f, Whole(T)) = Total(g, T)}
<1>1. \A T \in SUBSET S : Numbers(f, Whole(T))
  <2>1. ASSUME NEW T \in SUBSET S PROVE Numbers(f, Whole(T))
    <3>1. Whole(T) \subseteq Whole(S)
      OBVIOUS
    <3>2. IsFiniteSet(Whole(S)) /\ \A x \in Whole(S) : f[x] \in Nat
      BY DEF Numbers
    <3>3. IsFiniteSet(Whole(T))
      BY <3>1, <3>2, FS_Subset
    <3>4. QED
      BY <3>1, <3>2, <3>3 DEF Numbers
  <2>2. QED
    BY <2>1
<1>2. ASSUME NEW m \in S PROVE Numbers(f, F[m]) /\ g[m] \in Nat
  <2>1. F[m] = Whole({m})
    OBVIOUS
  <2>2. Numbers(f, F[m])
    BY <1>1, <2>1
  <2>3. QED
    BY <2>2, TotalFinite
<1>3. Numbers(g, S)
  BY <1>2 DEF Numbers
<1>4. {} \in P
  <2>1. Whole({}) = {}
    OBVIOUS
  <2>2. Total(f, {}) = 0 /\ Total(g, {}) = 0
    BY TotalEmpty
  <2>3. QED
    BY <2>1, <2>2
<1>5. ASSUME NEW T \in SUBSET S, NEW x \in S \ T, T \in P PROVE T \cup {x} \in P
  <2>1. Tokens(f, Whole(T \cup {x})) = Tokens(f, Whole(T)) \cup Tokens(f, F[x])
    BY DEF Tokens
  <2>2. Tokens(f, Whole(T)) \cap Tokens(f, F[x]) = {}
    <3>1. Whole(T) \cap F[x] = {}
      OBVIOUS
    <3> HIDE DEF Whole
    <3>2. QED
      BY <3>1 DEF Tokens
  <2>3. IsFiniteSet(Tokens(f, Whole(T))) /\ IsFiniteSet(Tokens(f, F[x]))
    BY <1>1, <1>2, TotalFinite
  <2> HIDE DEF Whole
  <2>4. Total(f, Whole(T \cup {x})) = Total(f, Whole(T)) + Total(f, F[x])
    BY <2>1, <2>2, <2>3, AddTokens DEF Total
  <2>5. Numbers(g, T)
    BY <1>3, FS_Subset DEF Numbers
  <2>6. Total(g, T \cup {x}) = Total(g, T) + g[x]
    BY <1>2, <2>5, TotalNext
  <2>7. QED
    BY <1>5, <2>4, <2>6
<1> HIDE DEF P
<1>6. S \in P
  BY <1>4, <1>5, SetInduction
<1>7. QED
  BY <1>3, <1>6 DEF P

-----------------------------------------------------------------------------
(* The books: what the records and the ledger say of each scope.           *)

\* What the records say of a scope, beside what the ledger knows of it.  The charge of
\* an attempt is in `settlement` from its settlement until its record is handed over.
SettlementOK(n) ==
  /\ pc[n] = "settled" => settlement[n].attempt < nextAttempt
  /\ pc[n] # "settled" => settlement[n].charged = 0

\* No attempt is on record before it ends, and none twice.
AttemptsOnce(n) ==
  \A r \in ChargesOf(records, n) :
    /\ r.attempt \in Nat /\ r.attempt < nextAttempt
    /\ pc[n] = "settled" => r.attempt # settlement[n].attempt
    /\ \A a \in attempts : a.node = n => r.attempt # a.id

\* The charges on record and the one in hand are what the ledger charged, unless the
\* trace has failed.
ChargesOK(n) ==
  /\ IsFiniteSet(ChargesOf(records, n))
  /\ \A r \in ChargesOf(records, n) : r.charged \in Nat
  /\ Charged(records, n) + settlement[n].charged <= own[n]
  /\ ~broken => Charged(records, n) + settlement[n].charged = own[n]

EndsOK(n) == \A r \in EndsOf(records, n) : pc[n] = "done" /\ r = NodeEnd(n)

\* The turns on record, while the trace works: all but one that was just counted.
Written(n) == turns[n] - Unwritten(n)

TurnsOK(n) ==
  /\ IsFiniteSet(MessagesOf(records, n))
  /\ \A r \in MessagesOf(records, n) : r.turn \in Nat /\ r.turn <= Written(n)
  /\ ~broken => Cardinality(MessagesOf(records, n)) = Written(n)

Book(n) ==
  /\ SettlementOK(n) /\ AttemptsOnce(n) /\ ChargesOK(n) /\ EndsOK(n) /\ TurnsOK(n)
  /\ n \notin Nodes(records) => own[n] = 0

BooksTyped ==
  /\ settlement \in [NodeId -> [attempt : Nat, charged : Nat]]
  /\ turns \in [NodeId -> Nat]

BooksOK == BooksTyped /\ \A n \in NodeId : Book(n)

\* The phases of a model call.
InCall == {"queued", "granted", "announced", "sent", "grace", "settled", "backoff"}

\* A turn needs a call of its own: one that is under way, or whose response is in hand,
\* has not become a turn yet.
TurnsBounded(n) ==
  /\ pc[n] \in InCall => inHand[n] = "none" /\ turns[n] < calls[n]
  /\ inHand[n] # "none" => pc[n] = "working" /\ agent[n]
  /\ inHand[n] = "response" => turns[n] < calls[n]
  /\ turns[n] <= calls[n]
  /\ calls[n] <= (IF agent[n] THEN MaxCalls ELSE 1)
  /\ ~agent[n] => turns[n] = 0

TurnsInv ==
  /\ inHand \in [NodeId -> {"none", "response", "turn"}]
  /\ turns \in [NodeId -> Nat] /\ calls \in [NodeId -> Nat]
  /\ \A n \in NodeId : TurnsBounded(n)

\* A step that neither charges m nor records anything about it but its start.
Kept(m) ==
  /\ own'[m] = own[m] /\ settlement'[m] = settlement[m] /\ Written(m)' = Written(m)
  /\ nextAttempt <= nextAttempt' /\ (broken => broken')
  /\ records \subseteq records'
  /\ \A r \in records' \ records : r.node = m => r.type = "node_start"
  /\ pc'[m] = "settled" <=> pc[m] = "settled"
  /\ pc[m] = "done" => /\ pc'[m] = "done" /\ report'[m] = report[m]
                       /\ agent'[m] = agent[m] /\ turns'[m] = turns[m]
  /\ \A a \in attempts' : a.node = m => a \in attempts \/ a.id = nextAttempt

LEMMA TurnsKept ==
  ASSUME UNCHANGED <<inHand, turns>>
  PROVE  \A m \in NodeId : Written(m)' = Written(m)
BY DEF Written, Unwritten

LEMMA BookTypes ==
  ASSUME AttemptsInv
  PROVE  /\ pc \in [NodeId -> Phase] /\ own \in [NodeId -> Nat] /\ nextAttempt \in Nat
         /\ attempts \subseteq Attempt /\ broken \in BOOLEAN
         /\ \A a \in attempts : a.id \in Nat /\ a.tokens \in Nat /\ a.id < nextAttempt
         /\ \A a, b \in attempts : a.node = b.node => a = b
BY DEF AttemptsInv, LedgerInv, LedgerTypeOK, AttemptsTypeOK, AttemptsOK, HeldOnlyInFlight, Attempt

LEMMA BookKept ==
  ASSUME AttemptsInv, AttemptsInv', BooksTyped, NEW m \in NodeId, Book(m), Kept(m)
  PROVE  Book(m)'
<1>1. nextAttempt \in Nat /\ nextAttempt' \in Nat /\ nextAttempt <= nextAttempt'
  BY DEF AttemptsInv, LedgerInv, LedgerTypeOK, Kept
<1>2. /\ own'[m] = own[m] /\ settlement'[m] = settlement[m] /\ Written(m)' = Written(m)
      /\ (broken => broken')
      /\ pc'[m] = "settled" <=> pc[m] = "settled"
      /\ pc[m] = "done" => /\ pc'[m] = "done" /\ report'[m] = report[m]
                           /\ agent'[m] = agent[m] /\ turns'[m] = turns[m]
      /\ \A a \in attempts' : a.node = m => a \in attempts \/ a.id = nextAttempt
  BY DEF Kept
<1>3. /\ ChargesOf(records', m) = ChargesOf(records, m)
      /\ EndsOf(records', m) = EndsOf(records, m)
      /\ MessagesOf(records', m) = MessagesOf(records, m)
  <2>1. /\ records \subseteq records'
        /\ \A r \in records' \ records : r.node = m => r.type = "node_start"
    BY DEF Kept
  <2>2. QED
    BY <2>1 DEF ChargesOf, EndsOf, MessagesOf, OfType
<1>4. Nodes(records) \subseteq Nodes(records')
  BY DEF Kept, Nodes, OfType
<1>5. \A r \in ChargesOf(records, m) : r.attempt \in Nat /\ r.attempt < nextAttempt
  BY DEF Book, AttemptsOnce
<1>6. SettlementOK(m)'
  <2>1. pc[m] = "settled" => settlement[m].attempt < nextAttempt
    BY DEF Book, SettlementOK
  <2>2. settlement[m].attempt \in Nat
    BY DEF BooksTyped
  <2>3. pc[m] # "settled" => settlement[m].charged = 0
    BY DEF Book, SettlementOK
  <2>4. QED
    BY <1>1, <1>2, <2>1, <2>2, <2>3 DEF SettlementOK
<1>7. AttemptsOnce(m)'
  <2>1. ASSUME NEW r \in ChargesOf(records, m)
        PROVE  /\ r.attempt \in Nat /\ r.attempt < nextAttempt'
               /\ pc'[m] = "settled" => r.attempt # settlement'[m].attempt
               /\ \A a \in attempts' : a.node = m => r.attempt # a.id
    <3>1. /\ r.attempt \in Nat /\ r.attempt < nextAttempt /\ r.attempt # nextAttempt
          /\ r.attempt < nextAttempt'
      BY <1>1, <1>5
    <3>2. /\ pc[m] = "settled" => r.attempt # settlement[m].attempt
          /\ \A a \in attempts : a.node = m => r.attempt # a.id
      BY DEF Book, AttemptsOnce
    <3>3. QED
      BY <1>2, <3>1, <3>2
  <2>2. QED
    BY <1>3, <2>1 DEF AttemptsOnce
<1>8. ChargesOK(m)'
  BY <1>2, <1>3 DEF Book, ChargesOK, Charged
<1>9. EndsOK(m)'
  BY <1>2, <1>3 DEF Book, EndsOK, NodeEnd
<1>10. TurnsOK(m)'
  BY <1>2, <1>3 DEF Book, TurnsOK
<1>11. m \notin Nodes(records') => own'[m] = 0
  BY <1>2, <1>4 DEF Book
<1>12. QED
  BY <1>6, <1>7, <1>8, <1>9, <1>10, <1>11 DEF Book

\* A task that moves on without touching charges or records.
LEMMA MovesOn ==
  ASSUME AttemptsInv, NEW n \in NodeId, NEW q,
         pc' = [pc EXCEPT ![n] = q], pc[n] \notin {"settled", "done"}, q # "settled",
         UNCHANGED <<own, agent, nextAttempt, attempts, records, settlement, turns>>,
         \A m \in NodeId : Written(m)' = Written(m),
         broken => broken',
         \A m \in NodeId \ {n} : report'[m] = report[m]
  PROVE  \A m \in NodeId : Kept(m)
<1>1. pc \in [NodeId -> Phase] /\ nextAttempt \in Nat
  BY BookTypes
<1>2. ASSUME NEW m \in NodeId PROVE Kept(m)
  <2>1. pc'[m] = "settled" <=> pc[m] = "settled"
    BY <1>1
  <2>2. pc[m] = "done" => m # n /\ pc'[m] = "done"
    BY <1>1
  <2>3. QED
    BY <1>1, <2>1, <2>2 DEF Kept
<1>3. QED
  BY <1>2

LEMMA SilentKept ==
  ASSUME AttemptsInv, NEW n \in Admitted, Silent(n)
  PROVE  \A m \in NodeId : Kept(m)
<1>1. /\ n \in NodeId /\ UNCHANGED <<records, settlement, turns>>
      /\ \A m \in NodeId : Written(m)' = Written(m)
      /\ \/ Call(n) \/ Finish(n) \/ Acquire(n) \/ GiveUp(n) \/ ReserveAttempt(n) \/ Refuse(n)
         \/ Dispatch(n) \/ SignalProvider(n) \/ BackoffOver(n) \/ CloseWork(n) \/ ReadUsage(n)
         \/ Stop(n)
  BY TurnsKept DEF Silent, traceVars, Admitted
<1> DEFINE Calm == UNCHANGED <<own, agent, nextAttempt, attempts>>
<1>2. pc \in [NodeId -> Phase] /\ nextAttempt \in Nat
  BY BookTypes
<1>3. UNCHANGED ledgerVars => Calm
  BY DEF ledgerVars, treeVars, budgetVars
<1>4. CASE Call(n)
  <2>1. /\ pc[n] = "working" /\ pc' = [pc EXCEPT ![n] = "queued"]
        /\ UNCHANGED <<broken, report>> /\ Calm
    BY <1>3, <1>4 DEF Call, Go, runVars
  <2>2. QED
    BY <1>1, <2>1, MovesOn
<1>5. CASE Finish(n)
  <2>1. /\ pc[n] = "working" /\ pc' = [pc EXCEPT ![n] = "ended"]
        /\ UNCHANGED <<broken, report>> /\ Calm
    BY <1>3, <1>5 DEF Finish, Go
  <2>2. QED
    BY <1>1, <2>1, MovesOn
<1>6. CASE Acquire(n)
  <2>1. /\ pc[n] = "queued" /\ pc' = [pc EXCEPT ![n] = "granted"]
        /\ UNCHANGED <<broken, report>> /\ Calm
    BY <1>3, <1>6 DEF Acquire, Go, runVars
  <2>2. QED
    BY <1>1, <2>1, MovesOn
<1>7. CASE GiveUp(n)
  <2>1. /\ pc[n] \in {"queued", "backoff"} /\ pc' = [pc EXCEPT ![n] = "ended"]
        /\ UNCHANGED <<broken, report>> /\ Calm
    BY <1>3, <1>7 DEF GiveUp, Return, Go, runVars
  <2>2. QED
    BY <1>1, <2>1, MovesOn
<1>8. CASE Refuse(n)
  <2>1. /\ pc[n] = "granted" /\ pc' = [pc EXCEPT ![n] = "ended"]
        /\ UNCHANGED <<broken, report>> /\ Calm
    BY <1>3, <1>8 DEF Refuse, Return, Go, runVars
  <2>2. QED
    BY <1>1, <2>1, MovesOn
<1>9. CASE Dispatch(n)
  <2>1. /\ pc[n] = "announced" /\ pc' = [pc EXCEPT ![n] = "sent"]
        /\ UNCHANGED <<broken, report>> /\ Calm
    BY <1>3, <1>9 DEF Dispatch, Go, runVars
  <2>2. QED
    BY <1>1, <2>1, MovesOn
<1>10. CASE SignalProvider(n)
  <2>1. /\ pc[n] = "sent" /\ pc' = [pc EXCEPT ![n] = "grace"]
        /\ UNCHANGED <<broken, report>> /\ Calm
    BY <1>3, <1>10 DEF SignalProvider, Go, runVars
  <2>2. QED
    BY <1>1, <2>1, MovesOn
<1>11. CASE BackoffOver(n)
  <2>1. /\ pc[n] = "backoff" /\ pc' = [pc EXCEPT ![n] = "queued"]
        /\ UNCHANGED <<broken, report>> /\ Calm
    BY <1>3, <1>11 DEF BackoffOver, Go, runVars
  <2>2. QED
    BY <1>1, <2>1, MovesOn
<1>12. CASE CloseWork(n)
  <2>1. /\ pc[n] = "ended" /\ pc' = [pc EXCEPT ![n] = "joining"]
        /\ UNCHANGED <<broken, report>>
    BY <1>12 DEF CloseWork, Go
  <2>2. Calm
    BY <1>12 DEF CloseWork, CloseAdmission, treeVars, budgetVars
  <2>3. QED
    BY <1>1, <2>1, <2>2, MovesOn
<1>13. CASE ReadUsage(n)
  <2>1. /\ pc[n] = "joining" /\ pc' = [pc EXCEPT ![n] = "reporting"]
        /\ UNCHANGED broken /\ Calm
    BY <1>3, <1>13 DEF ReadUsage, Go
  <2>2. \A m \in NodeId \ {n} : report'[m] = report[m]
    BY <1>13 DEF ReadUsage, AttemptsInv, AttemptsTypeOK
  <2>3. QED
    BY <1>1, <2>1, <2>2, MovesOn
<1>14. CASE Stop(n)
  <2>1. UNCHANGED <<pc, broken, report>> /\ Calm
    BY <1>3, <1>14 DEF Stop
  <2>2. QED
    BY <1>1, <1>2, <2>1 DEF Kept
<1>15. CASE ReserveAttempt(n)
  <2>1. /\ pc[n] = "granted" /\ pc' = [pc EXCEPT ![n] = "announced"]
        /\ UNCHANGED <<broken, report>>
    BY <1>15 DEF ReserveAttempt, Go, runVars
  <2>2. /\ UNCHANGED <<own, agent>> /\ nextAttempt' = nextAttempt + 1
        /\ \A a \in attempts' : a \in attempts \/ a.id = nextAttempt
    BY <1>15 DEF ReserveAttempt, Reserve, Grant, treeVars
  <2>3. nextAttempt <= nextAttempt'
    BY <1>2, <2>2
  <2>4. ASSUME NEW m \in NodeId PROVE Kept(m)
    <3>1. /\ pc'[m] = "settled" <=> pc[m] = "settled"
          /\ pc[m] = "done" => pc'[m] = "done"
      BY <1>1, <1>2, <2>1
    <3>2. QED
      BY <1>1, <2>1, <2>2, <2>3, <3>1 DEF Kept
  <2>5. QED
    BY <2>4
<1>16. QED
  BY <1>1, <1>4, <1>5, <1>6, <1>7, <1>8, <1>9, <1>10, <1>11, <1>12, <1>13, <1>14, <1>15

\* A task does not touch the books of the other scopes.
LEMMA OthersKept ==
  ASSUME AttemptsInv, NEW n \in NodeId, NEW q, pc' = [pc EXCEPT ![n] = q],
         broken => broken', records \subseteq records',
         \A r \in records' \ records : r.node = n,
         UNCHANGED <<agent, nextAttempt, report>>, attempts' \subseteq attempts,
         \A m \in NodeId \ {n} :
           /\ own'[m] = own[m] /\ settlement'[m] = settlement[m]
           /\ turns'[m] = turns[m] /\ Written(m)' = Written(m)
  PROVE  \A m \in NodeId \ {n} : Kept(m)
<1>1. pc \in [NodeId -> Phase] /\ nextAttempt \in Nat
  BY BookTypes
<1>2. ASSUME NEW m \in NodeId \ {n} PROVE Kept(m)
  <2>1. pc'[m] = pc[m]
    BY <1>1
  <2>2. QED
    BY <1>1, <2>1 DEF Kept
<1>3. QED
  BY <1>2

\* What a settlement does: the charge is added to the scope's own, and stays in hand.
LEMMA SettlesFacts ==
  ASSUME AttemptsInv, BooksTyped, NEW n \in Admitted, Settles(n)
  PROVE  \E a \in attempts, charged \in Nat, q \in {"settled", "ended"} :
           /\ a.node = n /\ attempts' = attempts \ {a}
           /\ own' = [own EXCEPT ![n] = @ + charged]
           /\ pc[n] \in Sending /\ pc' = [pc EXCEPT ![n] = q]
           /\ q = "ended" => charged = 0
           /\ UNCHANGED <<agent, nextAttempt, report, records, inHand, turns>>
           /\ broken => broken'
           /\ settlement' = [settlement EXCEPT ![n] = [attempt |-> a.id, charged |-> charged]]
<1>1. /\ n \in NodeId /\ own \in [NodeId -> Nat]
      /\ \A a \in attempts : a.tokens \in Nat
      /\ \A a, b \in attempts : a.node = b.node => a = b
  BY BookTypes DEF Admitted
<1>2. UNCHANGED <<records, inHand, turns>>
  BY DEF Settles
<1>3. \E charged \in Nat, q \in {"settled", "ended"} :
        /\ EndAttempt(n, charged) /\ pc[n] \in Sending /\ pc' = [pc EXCEPT ![n] = q]
        /\ q = "ended" => charged = 0
        /\ UNCHANGED report /\ (broken => broken')
  <2>1. CASE Withdraw(n)
    <3>1. EndAttempt(n, 0) /\ pc[n] = "announced" /\ UNCHANGED report
      BY <2>1 DEF Withdraw
    <3>2. CASE Go(n, "settled") /\ UNCHANGED broken
      BY <3>1, <3>2 DEF Go, Sending
    <3>3. CASE Emits(FALSE) /\ Return(n, "ended")
      BY <3>1, <3>3 DEF Emits, Return, Go, Sending
    <3>4. QED
      BY <2>1, <3>2, <3>3 DEF Withdraw
  <2>2. CASE Answer(n)
    <3>1. PICK outcome \in Outcomes(n) : EndAttempt(n, outcome.charged)
      BY <2>2 DEF Answer
    <3>2. outcome.charged \in Nat
      <4>1. \/ outcome.charged \in Usages
            \/ outcome.charged = 0
            \/ outcome.charged \in {a.tokens : a \in {b \in attempts : b.node = n}}
        BY DEF Outcomes
      <4>2. outcome.charged \in Usages => outcome.charged \in Nat
        BY LimitsAssumption
      <4>3. QED
        BY <1>1, <4>1, <4>2
    <3>3. /\ pc[n] \in {"sent", "grace"} /\ pc' = [pc EXCEPT ![n] = "settled"]
          /\ UNCHANGED <<report, broken>>
      BY <2>2 DEF Answer, Go
    <3>4. QED
      BY <3>1, <3>2, <3>3 DEF Sending
  <2>3. CASE GraceOver(n)
    <3>1. PICK a \in attempts : a.node = n /\ EndAttempt(n, a.tokens)
      BY <2>3 DEF GraceOver
    <3>2. /\ pc[n] = "grace" /\ pc' = [pc EXCEPT ![n] = "settled"]
          /\ UNCHANGED <<report, broken>>
      BY <2>3 DEF GraceOver, Go, runVars
    <3>3. a.tokens \in Nat
      BY <1>1
    <3>4. QED
      BY <3>1, <3>2, <3>3 DEF Sending
  <2>4. QED
    BY <2>1, <2>2, <2>3 DEF Settles
<1>4. PICK charged \in Nat, q \in {"settled", "ended"} :
        /\ EndAttempt(n, charged) /\ pc[n] \in Sending /\ pc' = [pc EXCEPT ![n] = q]
        /\ q = "ended" => charged = 0
        /\ UNCHANGED report /\ (broken => broken')
  BY <1>3
<1>5. PICK a \in attempts : a.node = n /\ Settle(a, charged)
  BY <1>4 DEF EndAttempt
<1>6. /\ attempts' = attempts \ {a} /\ own' = [own EXCEPT ![n] = @ + charged]
      /\ UNCHANGED <<agent, nextAttempt>>
  BY <1>5 DEF Settle, treeVars
<1>7. (CHOOSE b \in attempts : b.node = n) = a
  BY <1>1, <1>5
<1>8. own'[n] - own[n] = charged
  <2>1. own[n] \in Nat /\ own'[n] = own[n] + charged
    BY <1>1, <1>6
  <2>2. QED
    BY <2>1
<1>9. settlement' = [settlement EXCEPT ![n] = [attempt |-> a.id, charged |-> charged]]
  BY <1>7, <1>8 DEF Settles
<1>10. QED
  BY <1>2, <1>4, <1>5, <1>6, <1>9

LEMMA SettlesBooks ==
  ASSUME RunTraceInv, AttemptsInv', BooksOK, NEW n \in Admitted, Settles(n)
  PROVE  BooksOK'
<1>1. PICK a \in attempts, charged \in Nat, q \in {"settled", "ended"} :
        /\ a.node = n /\ attempts' = attempts \ {a}
        /\ own' = [own EXCEPT ![n] = @ + charged]
        /\ pc[n] \in Sending /\ pc' = [pc EXCEPT ![n] = q]
        /\ q = "ended" => charged = 0
        /\ UNCHANGED <<agent, nextAttempt, report, records, inHand, turns>>
        /\ broken => broken'
        /\ settlement' = [settlement EXCEPT ![n] = [attempt |-> a.id, charged |-> charged]]
  BY SettlesFacts DEF RunTraceInv, BooksOK
<1>2. /\ n \in NodeId /\ pc \in [NodeId -> Phase] /\ own \in [NodeId -> Nat] /\ nextAttempt \in Nat
      /\ a.id \in Nat /\ a.id < nextAttempt
      /\ \A b \in attempts : b.node = n => b = a
  BY <1>1, BookTypes DEF RunTraceInv, Admitted
<1>3. settlement \in [NodeId -> [attempt : Nat, charged : Nat]] /\ turns \in [NodeId -> Nat]
  BY DEF BooksOK, BooksTyped
<1>4. BooksTyped'
  BY <1>1, <1>2, <1>3 DEF BooksTyped
<1>5. /\ pc'[n] = q /\ own'[n] = own[n] + charged /\ own[n] \in Nat
      /\ settlement'[n].attempt = a.id /\ settlement'[n].charged = charged
  BY <1>1, <1>2, <1>3
<1>6. /\ Book(n) /\ pc[n] # "settled" /\ pc[n] # "done" /\ settlement[n].charged = 0
      /\ n \in Nodes(records)
  <2>1. pc[n] \notin {"absent", "starting"} \cup Ending
    BY <1>1 DEF Sending, Ending
  <2>2. n \in Nodes(records)
    BY <2>1, WorksOnceRecorded
  <2>3. Book(n) /\ pc[n] # "settled" /\ pc[n] # "done"
    BY <1>1, <1>2 DEF BooksOK, Sending
  <2>4. QED
    BY <2>2, <2>3 DEF Book, SettlementOK
<1>7. SettlementOK(n)'
  BY <1>1, <1>2, <1>5 DEF SettlementOK
<1>8. AttemptsOnce(n)'
  <2>1. \A r \in ChargesOf(records, n) :
          r.attempt \in Nat /\ r.attempt < nextAttempt /\ r.attempt # a.id
    BY <1>1, <1>6 DEF Book, AttemptsOnce
  <2>2. \A b \in attempts' : b.node # n
    BY <1>1, <1>2
  <2>3. QED
    BY <1>1, <1>5, <2>1, <2>2 DEF AttemptsOnce
<1>9. ChargesOK(n)'
  <2>1. /\ IsFiniteSet(ChargesOf(records, n))
        /\ \A r \in ChargesOf(records, n) : r.charged \in Nat
        /\ Charged(records, n) + 0 <= own[n]
        /\ ~broken => Charged(records, n) + 0 = own[n]
    BY <1>6 DEF Book, ChargesOK
  <2>2. Charged(records, n) \in Nat
    BY <2>1, TotalFinite DEF Numbers, Charged
  <2>3. /\ Charged(records, n) + charged <= own[n] + charged
        /\ ~broken => Charged(records, n) + charged = own[n] + charged
    BY <1>5, <2>1, <2>2
  <2>4. QED
    BY <1>1, <1>5, <2>1, <2>3 DEF ChargesOK
<1>10. EndsOK(n)'
  BY <1>1, <1>6 DEF Book, EndsOK
<1>11. TurnsOK(n)'
  BY <1>1, <1>2, <1>6, TurnsKept DEF Book, TurnsOK
<1>12. Book(n)'
  BY <1>1, <1>6, <1>7, <1>8, <1>9, <1>10, <1>11 DEF Book
<1>13. \A m \in NodeId \ {n} : Kept(m)
  <2>1. \A m \in NodeId \ {n} :
          /\ own'[m] = own[m] /\ settlement'[m] = settlement[m]
          /\ turns'[m] = turns[m] /\ Written(m)' = Written(m)
    BY <1>1, <1>2, <1>3, TurnsKept
  <2>2. QED
    BY <1>1, <1>2, <2>1, OthersKept DEF RunTraceInv
<1>14. QED
  BY <1>4, <1>12, <1>13, BookKept DEF BooksOK, RunTraceInv

\* A response is in hand once its attempt is on record; no turn was.
LEMMA AttemptIsNoTurn ==
  ASSUME TurnsInv, NEW n \in Admitted, AttemptRecorded(n)
  PROVE  \A m \in NodeId : Written(m)' = Written(m)
<1>1. /\ n \in NodeId /\ pc[n] = "settled" /\ inHand \in [NodeId -> {"none", "response", "turn"}]
      /\ UNCHANGED turns
  BY DEF AttemptRecorded, RecordEnd, TurnsInv, Admitted
<1>2. inHand[n] = "none"
  BY <1>1 DEF TurnsInv, TurnsBounded, InCall
<1>3. \E held \in {"none", "response"} : inHand' = [inHand EXCEPT ![n] = held]
  BY DEF AttemptRecorded
<1>4. \A m \in NodeId : Unwritten(m)' = Unwritten(m)
  BY <1>1, <1>2, <1>3 DEF Unwritten
<1>5. QED
  BY <1>1, <1>4 DEF Written

\* The record of an attempt that was in hand: its charge goes from hand to record.
LEMMA AttemptRecordedBooks ==
  ASSUME RunTraceInv, AttemptsInv', BooksOK, TurnsInv, NEW n \in Admitted, AttemptRecorded(n)
  PROVE  BooksOK'
<1>1. /\ n \in NodeId /\ pc \in [NodeId -> Phase] /\ own \in [NodeId -> Nat]
      /\ nextAttempt \in Nat /\ broken \in BOOLEAN
  BY BookTypes DEF RunTraceInv, Admitted
<1>2. settlement \in [NodeId -> [attempt : Nat, charged : Nat]] /\ turns \in [NodeId -> Nat]
  BY DEF BooksOK, BooksTyped
<1>3. /\ pc[n] = "settled" /\ UNCHANGED <<own, agent, attempts, nextAttempt, report>>
  BY DEF AttemptRecorded, RecordEnd, ledgerVars, treeVars, budgetVars
<1>4. PICK q \in {"backoff", "working", "ended"} : pc' = [pc EXCEPT ![n] = q]
  BY DEF AttemptRecorded, RecordEnd, Return, Go
<1>5. PICK e : e = AttemptEnd(n)
  OBVIOUS
<1>6. ~broken /\ UNCHANGED broken /\ records' = records \cup {e}
  BY <1>1, <1>5 DEF AttemptRecorded, Recorded, RecordEnd
<1>7. settlement' = [settlement EXCEPT ![n] = NoSettlement] /\ UNCHANGED turns
  BY DEF AttemptRecorded
<1>8. /\ settlement[n].attempt \in Nat /\ settlement[n].charged \in Nat
      /\ settlement'[n].attempt = 0 /\ settlement'[n].charged = 0
      /\ own[n] \in Nat
  BY <1>1, <1>2, <1>7 DEF NoSettlement
<1>9. /\ e.type = "attempt_end" /\ e.node = n
      /\ e.attempt = settlement[n].attempt /\ e.charged = settlement[n].charged
  BY <1>5 DEF AttemptEnd
<1>10. pc'[n] = q /\ pc'[n] # "settled" /\ pc[n] # "done"
  BY <1>1, <1>3, <1>4
<1>11. Book(n) /\ settlement[n].attempt < nextAttempt
  BY <1>1, <1>3 DEF BooksOK, Book, SettlementOK
<1>12. /\ ChargesOf(records', n) = ChargesOf(records, n) \cup {e}
       /\ EndsOf(records', n) = EndsOf(records, n)
       /\ MessagesOf(records', n) = MessagesOf(records, n)
       /\ Nodes(records) \subseteq Nodes(records')
  BY <1>6, <1>9 DEF ChargesOf, EndsOf, MessagesOf, OfType, Nodes
<1>13. \A r \in ChargesOf(records, n) :
         /\ r.attempt \in Nat /\ r.attempt < nextAttempt /\ r.attempt # settlement[n].attempt
         /\ \A a \in attempts : a.node = n => r.attempt # a.id
  BY <1>3, <1>11 DEF Book, AttemptsOnce
<1>14. e \notin ChargesOf(records, n)
  BY <1>9, <1>13
<1>15. AttemptsOnce(n)'
  <2>1. \A a \in attempts : a.node # n
    <3>1. {a.node : a \in attempts} = Reserving /\ n \notin Reserving
      BY <1>3 DEF RunTraceInv, AttemptsInv, HeldOnlyInFlight, Reserving
    <3>2. QED
      BY <3>1
  <2>2. \A r \in ChargesOf(records', n) : r.attempt \in Nat /\ r.attempt < nextAttempt
    BY <1>8, <1>9, <1>11, <1>12, <1>13
  <2>3. QED
    BY <1>3, <1>10, <2>1, <2>2 DEF AttemptsOnce
<1>16. ChargesOK(n)'
  <2> DEFINE C == ChargesOf(records, n)
             f == [r \in C |-> r.charged]
             g == [r \in C \cup {e} |-> r.charged]
  <2>1. IsFiniteSet(C) /\ \A r \in C : r.charged \in Nat
    BY <1>11 DEF Book, ChargesOK
  <2>2. Charged(records, n) + settlement[n].charged = own[n]
    BY <1>6, <1>11 DEF Book, ChargesOK
  <2>3. Charged(records, n) = Total(f, C) /\ Charged(records', n) = Total(g, C \cup {e})
    BY <1>12 DEF Charged
  <2>4. e \notin C
    BY <1>14
  <2> HIDE DEF C
  <2>5. Numbers(g, C) /\ g[e] = e.charged /\ g[e] \in Nat
    BY <1>8, <1>9, <2>1 DEF Numbers
  <2>6. Total(f, C) = Total(g, C)
    <3>1. \A x \in C : f[x] = g[x]
      OBVIOUS
    <3> HIDE DEF f, g
    <3>2. QED
      BY <3>1, TotalSame
  <2> HIDE DEF f, g
  <2>7. Total(g, C \cup {e}) = Total(g, C) + g[e]
    BY <2>4, <2>5, TotalNext
  <2>8. Charged(records', n) = own[n]
    BY <1>9, <2>2, <2>3, <2>5, <2>6, <2>7
  <2>9. IsFiniteSet(C \cup {e}) /\ \A r \in C \cup {e} : r.charged \in Nat
    BY <1>8, <1>9, <2>1, FS_AddElement
  <2>10. ChargesOf(records', n) = C \cup {e}
    BY <1>12 DEF C
  <2>11. Charged(records', n) + settlement'[n].charged = own'[n] /\ own'[n] <= own'[n]
    BY <1>3, <1>8, <2>8
  <2>12. QED
    BY <2>9, <2>10, <2>11 DEF ChargesOK
<1>17. SettlementOK(n)'
  BY <1>8, <1>10 DEF SettlementOK
<1>18. EndsOK(n)'
  BY <1>10, <1>11, <1>12 DEF Book, EndsOK
<1>19. TurnsOK(n)'
  BY <1>1, <1>6, <1>11, <1>12, AttemptIsNoTurn DEF Book, TurnsOK
<1>20. Book(n)'
  BY <1>3, <1>11, <1>12, <1>15, <1>16, <1>17, <1>18, <1>19 DEF Book
<1>21. BooksTyped'
  BY <1>1, <1>2, <1>7 DEF BooksTyped, NoSettlement
<1>22. \A m \in NodeId \ {n} : Kept(m)
  <2>1. \A m \in NodeId \ {n} :
          /\ own'[m] = own[m] /\ settlement'[m] = settlement[m]
          /\ turns'[m] = turns[m] /\ Written(m)' = Written(m)
    BY <1>1, <1>2, <1>3, <1>7, AttemptIsNoTurn
  <2>2. records \subseteq records' /\ \A r \in records' \ records : r.node = n
    BY <1>6, <1>9
  <2>3. QED
    BY <1>1, <1>3, <1>4, <1>6, <2>1, <2>2, OthersKept DEF RunTraceInv
<1>23. QED
  BY <1>20, <1>21, <1>22, BookKept DEF BooksOK, RunTraceInv

\* The record is refused: the charge is missing from then on, but so is the trace.
LEMMA AttemptLostBooks ==
  ASSUME RunTraceInv, AttemptsInv', BooksOK, NEW n \in Admitted, AttemptLost(n)
  PROVE  BooksOK'
<1>1. /\ n \in NodeId /\ pc \in [NodeId -> Phase] /\ own \in [NodeId -> Nat]
      /\ nextAttempt \in Nat /\ broken \in BOOLEAN
  BY BookTypes DEF RunTraceInv, Admitted
<1>2. settlement \in [NodeId -> [attempt : Nat, charged : Nat]] /\ turns \in [NodeId -> Nat]
  BY DEF BooksOK, BooksTyped
<1>3. /\ pc[n] = "settled" /\ pc' = [pc EXCEPT ![n] = "ended"] /\ broken' = TRUE
      /\ UNCHANGED <<own, agent, attempts, nextAttempt, report, records, inHand, turns>>
      /\ settlement' = [settlement EXCEPT ![n] = NoSettlement]
  BY DEF AttemptLost, LoseEnd, Emits, Return, Go, ledgerVars, treeVars, budgetVars
<1>4. /\ settlement'[n].charged = 0 /\ settlement[n].charged \in Nat /\ own[n] \in Nat
      /\ pc'[n] = "ended"
  BY <1>1, <1>2, <1>3 DEF NoSettlement
<1>5. Book(n)
  BY <1>1 DEF BooksOK
<1>6. SettlementOK(n)' /\ AttemptsOnce(n)'
  BY <1>3, <1>4, <1>5 DEF Book, SettlementOK, AttemptsOnce
<1>7. ChargesOK(n)'
  <2>1. /\ IsFiniteSet(ChargesOf(records, n))
        /\ \A r \in ChargesOf(records, n) : r.charged \in Nat
        /\ Charged(records, n) + settlement[n].charged <= own[n]
    BY <1>5 DEF Book, ChargesOK
  <2>2. Charged(records, n) \in Nat
    BY <2>1, TotalFinite DEF Numbers, Charged
  <2>3. Charged(records, n) + 0 <= own[n]
    BY <1>4, <2>1, <2>2
  <2>4. QED
    BY <1>3, <1>4, <2>1, <2>3 DEF ChargesOK
<1>8. EndsOK(n)' /\ TurnsOK(n)'
  BY <1>1, <1>3, <1>5, TurnsKept DEF Book, EndsOK, TurnsOK
<1>9. Book(n)'
  BY <1>3, <1>5, <1>6, <1>7, <1>8 DEF Book
<1>10. BooksTyped'
  BY <1>1, <1>2, <1>3 DEF BooksTyped, NoSettlement
<1>11. \A m \in NodeId \ {n} : Kept(m)
  <2>1. \A m \in NodeId \ {n} :
          /\ own'[m] = own[m] /\ settlement'[m] = settlement[m]
          /\ turns'[m] = turns[m] /\ Written(m)' = Written(m)
    BY <1>1, <1>2, <1>3, TurnsKept
  <2>2. QED
    BY <1>1, <1>3, <2>1, OthersKept DEF RunTraceInv
<1>12. QED
  BY <1>9, <1>10, <1>11, BookKept DEF BooksOK, RunTraceInv

LEMMA StillKept ==
  ASSUME AttemptsInv, UNCHANGED <<attemptsVars, records, settlement>>,
         \A m \in NodeId :
           Written(m)' = Written(m) /\ (pc[m] = "done" => turns'[m] = turns[m])
  PROVE  \A m \in NodeId : Kept(m)
<1>1. nextAttempt \in Nat
  BY BookTypes
<1>2. UNCHANGED <<pc, own, agent, nextAttempt, attempts, report, broken>>
  BY DEF attemptsVars, ledgerVars, treeVars, budgetVars, runVars
<1>3. QED
  BY <1>1, <1>2 DEF Kept

\* A turn counts before it is recorded.
LEMMA TurnCountedBooks ==
  ASSUME RunTraceInv, AttemptsInv', BooksOK, TurnsInv, NEW n \in Admitted, TurnCounted(n)
  PROVE  BooksOK'
<1>1. /\ n \in NodeId /\ UNCHANGED <<attemptsVars, records, settlement>>
      /\ turns \in [NodeId -> Nat] /\ inHand \in [NodeId -> {"none", "response", "turn"}]
      /\ pc[n] = "working" /\ inHand[n] = "response" /\ inHand' = [inHand EXCEPT ![n] = "turn"]
      /\ turns' = [turns EXCEPT ![n] = @ + 1]
  BY DEF TurnCounted, TurnsInv, Admitted
<1>2. ASSUME NEW m \in NodeId PROVE Written(m)' = Written(m)
  <2>1. CASE m = n
    <3>1. turns'[n] = turns[n] + 1 /\ turns[n] \in Nat
      BY <1>1
    <3>2. Unwritten(n) = 0 /\ Unwritten(n)' = 1
      BY <1>1 DEF Unwritten
    <3>3. QED
      BY <2>1, <3>1, <3>2 DEF Written
  <2>2. CASE m # n
    BY <1>1, <2>2 DEF Written, Unwritten
  <2>3. QED
    BY <2>1, <2>2
<1>3. \A m \in NodeId : Kept(m)
  <2>1. ASSUME NEW m \in NodeId, pc[m] = "done" PROVE turns'[m] = turns[m]
    BY <1>1, <2>1
  <2>2. QED
    BY <1>1, <1>2, <2>1, StillKept DEF RunTraceInv
<1>4. turns' \in [NodeId -> Nat]
  BY <1>1
<1>5. BooksTyped'
  BY <1>1, <1>4 DEF BooksOK, BooksTyped
<1>6. QED
  BY <1>3, <1>5, BookKept DEF BooksOK, RunTraceInv

\* Then it is recorded; without the record, the trace has failed.
LEMMA TurnRecordedBooks ==
  ASSUME RunTraceInv, AttemptsInv', BooksOK, TurnsInv, NEW n \in Admitted, TurnRecorded(n)
  PROVE  BooksOK'
<1>1. /\ n \in NodeId /\ pc \in [NodeId -> Phase] /\ own \in [NodeId -> Nat]
      /\ nextAttempt \in Nat /\ broken \in BOOLEAN
  BY BookTypes DEF RunTraceInv, Admitted
<1>2. settlement \in [NodeId -> [attempt : Nat, charged : Nat]] /\ turns \in [NodeId -> Nat]
  BY DEF BooksOK, BooksTyped
<1>3. /\ pc[n] = "working"
      /\ UNCHANGED <<own, agent, attempts, nextAttempt, report, settlement, turns>>
  BY DEF TurnRecorded, ledgerVars, treeVars, budgetVars
<1>4. PICK ok \in BOOLEAN :
        /\ Recorded(ok, TurnMessage(n, turns[n]))
        /\ pc' = [pc EXCEPT ![n] = IF ok THEN "working" ELSE "ended"]
  BY DEF TurnRecorded, Go
<1>5. PICK e : e = TurnMessage(n, turns[n])
  OBVIOUS
<1>6. e.type = "message" /\ e.node = n /\ e.turn = turns[n]
  BY <1>5 DEF TurnMessage
<1>7. /\ ok => ~broken /\ ~broken' /\ records' = records \cup {e}
      /\ ~ok => broken' /\ records' = records
      /\ broken => broken'
  BY <1>4, <1>5, Zenon DEF Recorded, Emits
<1>8. /\ turns[n] \in Nat /\ Written(n)' = turns[n] /\ Written(n) = turns[n] - 1
      /\ pc'[n] # "settled" /\ pc[n] # "settled" /\ pc[n] # "done"
  <2>1. /\ inHand \in [NodeId -> {"none", "response", "turn"}]
        /\ inHand[n] = "turn" /\ inHand' = [inHand EXCEPT ![n] = "none"]
    BY DEF TurnRecorded, TurnsInv
  <2>2. Unwritten(n) = 1 /\ Unwritten(n)' = 0
    BY <1>1, <2>1 DEF Unwritten
  <2>3. QED
    BY <1>1, <1>2, <1>3, <1>4, <2>2 DEF Written
<1>9. Book(n)
  BY <1>1 DEF BooksOK
<1>10. /\ ChargesOf(records', n) = ChargesOf(records, n)
       /\ EndsOf(records', n) = EndsOf(records, n)
       /\ MessagesOf(records', n) = MessagesOf(records, n) \cup (IF ok THEN {e} ELSE {})
       /\ Nodes(records) \subseteq Nodes(records')
  BY <1>6, <1>7 DEF ChargesOf, EndsOf, MessagesOf, OfType, Nodes
<1>11. SettlementOK(n)' /\ AttemptsOnce(n)'
  BY <1>3, <1>8, <1>9, <1>10 DEF Book, SettlementOK, AttemptsOnce
<1>12. ChargesOK(n)'
  BY <1>3, <1>7, <1>9, <1>10 DEF Book, ChargesOK, Charged
<1>13. EndsOK(n)'
  BY <1>8, <1>9, <1>10 DEF Book, EndsOK
<1>14. TurnsOK(n)'
  <2> DEFINE M == MessagesOf(records, n)
  <2>1. /\ IsFiniteSet(M) /\ \A r \in M : r.turn \in Nat /\ r.turn <= Written(n)
        /\ ~broken => Cardinality(M) = Written(n)
    BY <1>9 DEF Book, TurnsOK
  <2> HIDE DEF M
  <2>2. \A r \in M : r.turn \in Nat /\ r.turn <= Written(n)' /\ r # e
    BY <1>6, <1>8, <2>1
  <2>3. CASE ok
    <3>1. e \notin M
      BY <2>2
    <3>2. IsFiniteSet(M \cup {e}) /\ Cardinality(M \cup {e}) = Cardinality(M) + 1
      BY <2>1, <3>1, FS_AddElement
    <3>3. Cardinality(M \cup {e}) = Written(n)'
      BY <1>7, <1>8, <2>1, <2>3, <3>2
    <3>4. \A r \in M \cup {e} : r.turn \in Nat /\ r.turn <= Written(n)'
      BY <1>6, <1>8, <2>2
    <3>5. MessagesOf(records', n) = M \cup {e}
      BY <1>10, <2>3 DEF M
    <3>6. QED
      BY <3>2, <3>3, <3>4, <3>5 DEF TurnsOK
  <2>4. CASE ~ok
    <3>1. MessagesOf(records', n) = M /\ broken'
      BY <1>7, <1>10, <2>4 DEF M
    <3>2. QED
      BY <2>1, <2>2, <3>1 DEF TurnsOK
  <2>5. QED
    BY <2>3, <2>4
<1>15. Book(n)'
  BY <1>3, <1>9, <1>10, <1>11, <1>12, <1>13, <1>14 DEF Book
<1>16. BooksTyped'
  BY <1>2, <1>3 DEF BooksTyped
<1>17. \A m \in NodeId \ {n} : Kept(m)
  <2>1. \A m \in NodeId \ {n} :
          /\ own'[m] = own[m] /\ settlement'[m] = settlement[m]
          /\ turns'[m] = turns[m] /\ Written(m)' = Written(m)
    BY <1>1, <1>3 DEF TurnRecorded, Written, Unwritten, TurnsInv
  <2>2. records \subseteq records' /\ \A r \in records' \ records : r.node = n
    BY <1>6, <1>7
  <2>3. \E q : pc' = [pc EXCEPT ![n] = q]
    BY <1>4
  <2>4. QED
    BY <1>1, <1>3, <1>7, <2>1, <2>2, <2>3, OthersKept DEF RunTraceInv
<1>18. QED
  BY <1>15, <1>16, <1>17, BookKept DEF BooksOK, RunTraceInv

\* The end of a scope: the first record of its kind, and final.
LEMMA NodeEndsBooks ==
  ASSUME RunTraceInv, AttemptsInv', BooksOK, NEW n \in Admitted, NodeEnds(n)
  PROVE  BooksOK'
<1>1. /\ n \in NodeId /\ pc \in [NodeId -> Phase] /\ own \in [NodeId -> Nat]
      /\ nextAttempt \in Nat /\ broken \in BOOLEAN
  BY BookTypes DEF RunTraceInv, Admitted
<1>2. /\ pc[n] = "reporting" /\ pc' = [pc EXCEPT ![n] = "done"]
      /\ UNCHANGED <<own, agent, attempts, nextAttempt, report, settlement, inHand, turns>>
  BY DEF NodeEnds, End, Shutdown, Go, treeVars, budgetVars
<1>3. PICK ok \in BOOLEAN : Recorded(ok, NodeEnd(n))
  BY DEF NodeEnds
<1>4. PICK e : e = NodeEnd(n)
  OBVIOUS
<1>5. e.type = "node_end" /\ e.node = n /\ NodeEnd(n)' = e
  BY <1>2, <1>4 DEF NodeEnd
<1>6. /\ records' = records \cup {e} \/ records' = records
      /\ broken => broken'
  BY <1>3, <1>4, Zenon DEF Recorded, Emits
<1>7. pc'[n] = "done" /\ Book(n)
  BY <1>1, <1>2 DEF BooksOK
<1>8. /\ ChargesOf(records', n) = ChargesOf(records, n)
      /\ EndsOf(records', n) \subseteq EndsOf(records, n) \cup {e}
      /\ MessagesOf(records', n) = MessagesOf(records, n)
      /\ Nodes(records) \subseteq Nodes(records')
  BY <1>5, <1>6 DEF ChargesOf, EndsOf, MessagesOf, OfType, Nodes
<1>9. EndsOf(records, n) = {}
  BY <1>2, <1>7 DEF Book, EndsOK
<1>10. EndsOK(n)'
  BY <1>5, <1>7, <1>8, <1>9 DEF EndsOK
<1>11. SettlementOK(n)' /\ AttemptsOnce(n)'
  BY <1>2, <1>7, <1>8 DEF Book, SettlementOK, AttemptsOnce
<1>12. ChargesOK(n)'
  BY <1>2, <1>6, <1>7, <1>8 DEF Book, ChargesOK, Charged
<1>13. TurnsOK(n)'
  BY <1>1, <1>2, <1>6, <1>7, <1>8, TurnsKept DEF Book, TurnsOK
<1>14. Book(n)'
  BY <1>2, <1>7, <1>8, <1>10, <1>11, <1>12, <1>13 DEF Book
<1>15. BooksTyped'
  BY <1>2 DEF BooksOK, BooksTyped
<1>16. \A m \in NodeId \ {n} : Kept(m)
  <2>1. records \subseteq records' /\ \A r \in records' \ records : r.node = n
    BY <1>5, <1>6
  <2>2. QED
    BY <1>1, <1>2, <1>6, <2>1, OthersKept, TurnsKept DEF RunTraceInv
<1>17. QED
  BY <1>14, <1>15, <1>16, BookKept DEF BooksOK, RunTraceInv

\* Nothing is known yet of a scope that is admitted or starts.
LEMMA SpawnKept ==
  ASSUME AttemptsInv, NEW parent \in Admitted, Spawns(parent)
  PROVE  \A m \in NodeId : Kept(m)
<1>1. PICK isAgent, requestedLimit : Spawn(parent, isAgent, requestedLimit)
  BY DEF Spawns, SpawnAgent, SpawnLeaf
<1>2. PICK id : id = scopes
  OBVIOUS
<1>3. /\ pc' = [pc EXCEPT ![id] = "starting"] /\ agent' = [agent EXCEPT ![id] = isAgent]
      /\ UNCHANGED <<own, nextAttempt, attempts, broken, report>>
      /\ UNCHANGED <<records, settlement, inHand, turns>>
  BY <1>1, <1>2 DEF Spawn, Admit, Go, budgetVars, runVars, Spawns, traceVars
<1>4. /\ pc \in [NodeId -> Phase] /\ nextAttempt \in Nat /\ agent \in [NodeId -> BOOLEAN]
  BY BookTypes DEF AttemptsInv, LedgerInv, LedgerTypeOK
<1>5. ASSUME NEW m \in NodeId PROVE Kept(m)
  <2>1. m = id => pc[m] = "absent"
    <3>1. id \notin Admitted
      <4>1. id \in Nat
        BY <1>2 DEF AttemptsInv, LedgerInv, LedgerTypeOK
      <4>2. QED
        BY <1>2, <4>1 DEF Admitted
    <3>2. QED
      BY <3>1 DEF AttemptsInv, Lifecycle
  <2>2. pc'[m] = "settled" <=> pc[m] = "settled"
    BY <1>3, <1>4, <2>1
  <2>3. pc[m] = "done" => pc'[m] = "done" /\ agent'[m] = agent[m]
    BY <1>3, <1>4, <2>1
  <2>4. QED
    BY <1>3, <1>4, <2>2, <2>3, TurnsKept DEF Kept
<1>6. QED
  BY <1>5

LEMMA StartKept ==
  ASSUME AttemptsInv, NEW n \in Admitted, NodeStarts(n)
  PROVE  \A m \in NodeId : Kept(m)
<1>1. /\ n \in NodeId /\ pc[n] = "starting"
      /\ UNCHANGED <<own, agent, nextAttempt, attempts, report, settlement, inHand, turns>>
  BY DEF NodeStarts, Start, ledgerVars, treeVars, budgetVars, Admitted
<1>2. PICK q \in {"working", "ended"} : pc' = [pc EXCEPT ![n] = q]
  BY DEF NodeStarts, Start, Go
<1>3. /\ broken => broken'
      /\ records' = records \cup {NodeStart(n)} \/ records' = records
  BY Zenon DEF NodeStarts, Recorded, Emits
<1>4. records \subseteq records' /\ \A r \in records' \ records : r.type = "node_start"
  BY <1>3 DEF NodeStart
<1>5. pc \in [NodeId -> Phase] /\ nextAttempt \in Nat
  BY BookTypes
<1>6. ASSUME NEW m \in NodeId PROVE Kept(m)
  <2>1. /\ pc'[m] = "settled" <=> pc[m] = "settled"
        /\ pc[m] = "done" => pc'[m] = "done"
    BY <1>1, <1>2, <1>5
  <2>2. QED
    BY <1>1, <1>3, <1>4, <1>5, <2>1, TurnsKept DEF Kept
<1>7. QED
  BY <1>6

LEMMA BooksInit == RunTraceInit => BooksOK
<1> SUFFICES ASSUME RunTraceInit PROVE BooksOK
  OBVIOUS
<1>1. /\ records = {} /\ attempts = {} /\ broken = FALSE
      /\ settlement = [n \in NodeId |-> NoSettlement] /\ turns = [n \in NodeId |-> 0]
      /\ inHand = [n \in NodeId |-> "none"]
      /\ own = [n \in NodeId |-> 0] /\ \A n \in NodeId : pc[n] # "settled"
  BY DEF RunTraceInit, AttemptsInit, LedgerInit
<1>2. BooksTyped
  BY <1>1 DEF BooksTyped, NoSettlement
<1>3. ASSUME NEW n \in NodeId PROVE Book(n)
  <2>1. /\ ChargesOf(records, n) = {} /\ EndsOf(records, n) = {} /\ MessagesOf(records, n) = {}
    BY <1>1 DEF ChargesOf, EndsOf, MessagesOf, OfType
  <2>2. own[n] = 0 /\ Written(n) = 0 /\ settlement[n].charged = 0
    BY <1>1 DEF NoSettlement, Written, Unwritten
  <2>3. Charged(records, n) = 0
    BY <2>1, TotalEmpty DEF Charged
  <2>4. IsFiniteSet({}) /\ Cardinality({}) = 0
    BY FS_EmptySet
  <2>5. ChargesOK(n)
    BY <2>1, <2>2, <2>3, <2>4 DEF ChargesOK
  <2>6. TurnsOK(n)
    BY <2>1, <2>2, <2>4 DEF TurnsOK
  <2>7. SettlementOK(n) /\ AttemptsOnce(n) /\ EndsOK(n)
    BY <1>1, <2>1, <2>2 DEF SettlementOK, AttemptsOnce, EndsOK
  <2>8. QED
    BY <2>2, <2>5, <2>6, <2>7 DEF Book
<1>4. QED
  BY <1>2, <1>3 DEF BooksOK

LEMMA BooksNext ==
  RunTraceInv /\ BooksOK /\ TurnsInv /\ [RunTraceNext]_runTraceVars => BooksOK'
<1> SUFFICES ASSUME RunTraceInv, BooksOK, TurnsInv, [RunTraceNext]_runTraceVars
             PROVE  BooksOK'
  OBVIOUS
<1>1. AttemptsInv /\ AttemptsInv'
  BY RunTraceNextInv DEF RunTraceInv
<1>2. ASSUME UNCHANGED <<settlement, turns>>, \A m \in NodeId : Kept(m) PROVE BooksOK'
  BY <1>1, <1>2, BookKept DEF BooksOK, BooksTyped
<1>3. ASSUME NEW parent \in Admitted, Spawns(parent) PROVE BooksOK'
  <2>1. UNCHANGED <<settlement, turns>>
    BY <1>3 DEF Spawns, traceVars
  <2>2. QED
    BY <1>1, <1>2, <1>3, <2>1, SpawnKept
<1>4. ASSUME NEW n \in Admitted, NodeStarts(n) PROVE BooksOK'
  <2>1. UNCHANGED <<settlement, turns>>
    BY <1>4 DEF NodeStarts
  <2>2. QED
    BY <1>1, <1>2, <1>4, <2>1, StartKept
<1>5. ASSUME NEW n \in Admitted, Silent(n) PROVE BooksOK'
  <2>1. UNCHANGED <<settlement, turns>>
    BY <1>5 DEF Silent, traceVars
  <2>2. QED
    BY <1>1, <1>2, <1>5, <2>1, SilentKept
<1>6. ASSUME NEW n \in Admitted, ResponseDropped(n) PROVE BooksOK'
  <2>1. /\ UNCHANGED <<attemptsVars, records, settlement, turns>> /\ inHand[n] = "response"
        /\ inHand' = [inHand EXCEPT ![n] = "none"]
    BY <1>6 DEF ResponseDropped
  <2>2. \A m \in NodeId : Written(m)' = Written(m)
    BY <2>1 DEF Written, Unwritten, TurnsInv
  <2>3. QED
    BY <1>1, <1>2, <2>1, <2>2, StillKept
<1>7. CASE UNCHANGED runTraceVars
  BY <1>1, <1>2, <1>7, StillKept, TurnsKept DEF runTraceVars, traceVars
<1>8. QED
  BY <1>1, <1>3, <1>4, <1>5, <1>6, <1>7, SettlesBooks, AttemptRecordedBooks, AttemptLostBooks,
     TurnCountedBooks, TurnRecordedBooks, NodeEndsBooks DEF RunTraceNext

-----------------------------------------------------------------------------
(* Turns and calls.                                                        *)

\* A step after which task n is where it cannot have a response in hand, and has made no
\* further call.
LEMMA TurnsStep ==
  ASSUME AttemptsInv, TurnsInv, NEW n \in NodeId, NEW q \in Phase,
         pc' = [pc EXCEPT ![n] = q],
         UNCHANGED <<agent, calls, inHand, turns>>,
         q \in InCall => pc[n] \in InCall,
         inHand[n] # "none" => q = "working"
  PROVE  TurnsInv'
<1>1. pc \in [NodeId -> Phase]
  BY BookTypes
<1>2. ASSUME NEW m \in NodeId PROVE TurnsBounded(m)'
  <2>1. pc'[m] = IF m = n THEN q ELSE pc[m]
    BY <1>1
  <2>2. TurnsBounded(m)
    BY DEF TurnsInv
  <2>3. QED
    BY <2>1, <2>2 DEF TurnsBounded
<1>3. QED
  BY <1>2 DEF TurnsInv

\* A response in hand is only there while its agent works.
LEMMA NotInHand ==
  ASSUME TurnsInv, NEW n \in NodeId, pc[n] # "working"
  PROVE  inHand[n] = "none"
BY DEF TurnsInv, TurnsBounded

LEMMA SilentTurns ==
  ASSUME AttemptsInv, TurnsInv, NEW n \in Admitted, Silent(n)
  PROVE  TurnsInv'
<1>1. /\ n \in NodeId /\ UNCHANGED <<inHand, turns>>
      /\ \/ inHand[n] = "none" /\ (Call(n) \/ Finish(n))
         \/ Acquire(n) \/ GiveUp(n) \/ ReserveAttempt(n) \/ Refuse(n)
         \/ Dispatch(n) \/ SignalProvider(n) \/ BackoffOver(n) \/ CloseWork(n) \/ ReadUsage(n)
         \/ Stop(n)
  BY DEF Silent, traceVars, Admitted
<1>2. UNCHANGED ledgerVars => UNCHANGED agent
  BY DEF ledgerVars, treeVars
<1>3. /\ pc \in [NodeId -> Phase] 
      /\ turns[n] \in Nat /\ calls[n] \in Nat /\ calls \in [NodeId -> Nat]
  BY <1>1, BookTypes DEF TurnsInv
<1>4. CASE inHand[n] = "none" /\ Call(n)
  <2>1. /\ pc[n] = "working" /\ calls[n] < (IF agent[n] THEN MaxCalls ELSE 1)
        /\ calls' = [calls EXCEPT ![n] = @ + 1] /\ pc' = [pc EXCEPT ![n] = "queued"]
        /\ UNCHANGED agent
    BY <1>2, <1>4 DEF Call, Go
  <2>2. ASSUME NEW m \in NodeId PROVE TurnsBounded(m)'
    <3>1. TurnsBounded(m)
      BY DEF TurnsInv
    <3>2. CASE m = n
      <4>1. /\ calls'[n] = calls[n] + 1 /\ pc'[n] = "queued"
            /\ calls[n] + 1 <= (IF agent[n] THEN MaxCalls ELSE 1)
        BY <1>1, <1>3, <2>1, SlotsAssumption
      <4>2. turns[n] <= calls[n] /\ (~agent[n] => turns[n] = 0)
        BY <3>1, <3>2 DEF TurnsBounded
      <4>3. turns[n] < calls[n] + 1 /\ turns[n] <= calls[n] + 1
        BY <1>3, <4>2
      <4>4. QED
        BY <1>1, <1>4, <2>1, <3>2, <4>1, <4>2, <4>3 DEF TurnsBounded
    <3>3. CASE m # n
      <4>1. pc'[m] = pc[m] /\ calls'[m] = calls[m]
        BY <1>3, <2>1, <3>3
      <4>2. QED
        BY <1>1, <2>1, <3>1, <4>1 DEF TurnsBounded
    <3>4. QED
      BY <3>2, <3>3
  <2>3. calls' \in [NodeId -> Nat]
    <3>1. calls[n] + 1 \in Nat
      BY <1>3
    <3>2. QED
      BY <1>3, <2>1, <3>1
  <2>4. QED
    BY <1>1, <2>2, <2>3 DEF TurnsInv
<1>5. CASE inHand[n] = "none" /\ Finish(n)
  <2>1. pc' = [pc EXCEPT ![n] = "ended"] /\ UNCHANGED <<agent, calls>>
    BY <1>2, <1>5 DEF Finish, Go, callVars
  <2>2. QED
    BY <1>1, <1>5, <2>1, TurnsStep DEF Phase, InCall
<1>6. ASSUME NEW q \in Phase, UNCHANGED <<agent, calls>>, pc' = [pc EXCEPT ![n] = q],
             pc[n] # "working", q \in InCall => pc[n] \in InCall
      PROVE  TurnsInv'
  <2>1. inHand[n] = "none"
    BY <1>1, <1>6, NotInHand
  <2>2. QED
    BY <1>1, <1>6, <2>1, TurnsStep
<1>7. CASE Acquire(n)
  <2>1. /\ pc[n] = "queued" /\ pc' = [pc EXCEPT ![n] = "granted"] /\ UNCHANGED <<agent, calls>>
    BY <1>2, <1>7 DEF Acquire, Go, callVars
  <2>2. QED
    BY <1>6, <2>1 DEF Phase, InCall
<1>8. CASE GiveUp(n) \/ Refuse(n)
  <2>1. /\ pc[n] # "working" /\ pc' = [pc EXCEPT ![n] = "ended"] /\ UNCHANGED <<agent, calls>>
    BY <1>2, <1>8 DEF GiveUp, Refuse, Return, Go
  <2>2. QED
    BY <1>6, <2>1 DEF Phase, InCall
<1>9. CASE ReserveAttempt(n)
  <2>1. /\ pc[n] = "granted" /\ pc' = [pc EXCEPT ![n] = "announced"] /\ UNCHANGED <<agent, calls>>
    BY <1>9 DEF ReserveAttempt, Reserve, Grant, treeVars, Go
  <2>2. QED
    BY <1>6, <2>1 DEF Phase, InCall
<1>10. CASE Dispatch(n) \/ SignalProvider(n) \/ BackoffOver(n)
  <2>1. /\ pc[n] \in InCall /\ UNCHANGED <<agent, calls>>
        /\ \E q \in {"sent", "grace", "queued"} : pc' = [pc EXCEPT ![n] = q]
    BY <1>2, <1>10 DEF Dispatch, SignalProvider, BackoffOver, Go, callVars, InCall
  <2>2. QED
    BY <1>6, <2>1 DEF Phase, InCall
<1>11. CASE CloseWork(n) \/ ReadUsage(n)
  <2>1. UNCHANGED agent
    BY <1>2, <1>11 DEF CloseWork, CloseAdmission, ReadUsage, treeVars
  <2>2. /\ pc[n] # "working" /\ UNCHANGED calls
        /\ \E q \in {"joining", "reporting"} : pc' = [pc EXCEPT ![n] = q]
    BY <1>11 DEF CloseWork, ReadUsage, Go, callVars
  <2>3. QED
    BY <1>6, <2>1, <2>2 DEF Phase, InCall
<1>12. CASE Stop(n)
  <2>1. UNCHANGED <<pc, calls, agent>>
    BY <1>2, <1>12 DEF Stop, callVars
  <2>2. QED
    BY <1>1, <2>1 DEF TurnsInv, TurnsBounded
<1>13. QED
  BY <1>1, <1>4, <1>5, <1>7, <1>8, <1>9, <1>10, <1>11, <1>12

\* The end of an attempt, recorded or not: a successful one leaves a response in hand.
LEMMA EndTurns ==
  ASSUME AttemptsInv, TurnsInv, NEW n \in Admitted, AttemptRecorded(n) \/ AttemptLost(n)
  PROVE  TurnsInv'
<1>1. /\ n \in NodeId /\ pc[n] = "settled" /\ UNCHANGED <<agent, calls, turns>>
      /\ pc \in [NodeId -> Phase] /\ inHand \in [NodeId -> {"none", "response", "turn"}]
  <2>1. pc \in [NodeId -> Phase] /\ inHand \in [NodeId -> {"none", "response", "turn"}] /\ n \in NodeId
    BY BookTypes DEF TurnsInv, Admitted
  <2>2. /\ pc[n] = "settled" /\ UNCHANGED <<agent, calls, turns>>
    BY DEF AttemptRecorded, RecordEnd, AttemptLost, LoseEnd, ledgerVars, treeVars
  <2>3. QED
    BY <2>1, <2>2
<1>2. PICK q \in {"backoff", "working", "ended"}, held \in {"none", "response"} :
        /\ pc' = [pc EXCEPT ![n] = q] /\ inHand' = [inHand EXCEPT ![n] = held]
        /\ held = "response" => q = "working" /\ agent[n]
  <2>1. CASE AttemptLost(n)
    <3>1. pc' = [pc EXCEPT ![n] = "ended"] /\ inHand' = inHand
      BY <2>1 DEF AttemptLost, LoseEnd, Return, Go
    <3>2. inHand[n] = "none"
      BY <1>1, NotInHand
    <3>3. inHand' = [inHand EXCEPT ![n] = "none"]
      BY <1>1, <3>1, <3>2
    <3>4. QED
      BY <3>1, <3>3
  <2>2. CASE AttemptRecorded(n)
    <3>1. PICK held : held = (IF agent[n] /\ call[n].verdict = "ok" THEN "response" ELSE "none")
      OBVIOUS
    <3>2. held \in {"none", "response"} /\ inHand' = [inHand EXCEPT ![n] = held]
      BY <2>2, <3>1 DEF AttemptRecorded
    <3>3. held = "response" => pc' = [pc EXCEPT ![n] = "working"]
      BY <2>2, <3>1 DEF AttemptRecorded, RecordEnd, Return, Go
    <3>4. \E q \in {"backoff", "working", "ended"} : pc' = [pc EXCEPT ![n] = q]
      BY <2>2 DEF AttemptRecorded, RecordEnd, Return, Go
    <3>5. CASE held = "response"
      BY <3>1, <3>2, <3>3, <3>5
    <3>6. CASE held = "none"
      BY <3>2, <3>4, <3>6
    <3>7. QED
      BY <3>2, <3>5, <3>6
  <2>3. QED
    BY <2>1, <2>2
<1>3. ASSUME NEW m \in NodeId PROVE TurnsBounded(m)'
  <2>1. TurnsBounded(m)
    BY DEF TurnsInv
  <2>2. CASE m = n
    <3>1. pc'[n] = q /\ inHand'[n] = held
      BY <1>1, <1>2
    <3>2. turns[n] < calls[n]
      BY <1>1, <2>1, <2>2 DEF TurnsBounded, InCall
    <3>3. inHand'[n] # "none" => pc'[n] = "working" /\ agent[n]
      BY <1>2, <3>1
    <3>4. pc'[n] \in InCall => inHand'[n] = "none"
      BY <3>3 DEF InCall
    <3>5. QED
      BY <1>1, <2>1, <2>2, <3>2, <3>3, <3>4 DEF TurnsBounded
  <2>3. CASE m # n
    <3>1. pc'[m] = pc[m] /\ inHand'[m] = inHand[m]
      BY <1>1, <1>2, <2>3
    <3>2. QED
      BY <1>1, <2>1, <3>1 DEF TurnsBounded
  <2>4. QED
    BY <2>2, <2>3
<1>4. inHand' \in [NodeId -> {"none", "response", "turn"}]
  BY <1>1, <1>2
<1>5. QED
  BY <1>1, <1>3, <1>4 DEF TurnsInv

\* A response becomes a turn, which is recorded, or is dropped.
LEMMA ResponseTurns ==
  ASSUME AttemptsInv, TurnsInv, NEW n \in Admitted,
         TurnCounted(n) \/ TurnRecorded(n) \/ ResponseDropped(n)
  PROVE  TurnsInv'
<1>1. /\ n \in NodeId /\ pc[n] = "working" /\ UNCHANGED <<agent, calls>>
      /\ inHand[n] # "none"
  BY DEF TurnCounted, TurnRecorded, ResponseDropped, Admitted, attemptsVars, ledgerVars,
         treeVars, callVars
<1>2. /\ pc \in [NodeId -> Phase] /\ inHand \in [NodeId -> {"none", "response", "turn"}]
      /\ turns \in [NodeId -> Nat] /\ calls \in [NodeId -> Nat]
  BY BookTypes DEF TurnsInv
<1>3. PICK q \in {"working", "ended"}, held \in {"none", "turn"}, more \in {0, 1} :
        /\ pc' = [pc EXCEPT ![n] = q] /\ inHand' = [inHand EXCEPT ![n] = held]
        /\ turns' = [turns EXCEPT ![n] = @ + more]
        /\ held = "turn" => q = "working"
        /\ more = 1 => inHand[n] = "response"
  <2>1. ASSUME pc' = pc PROVE pc' = [pc EXCEPT ![n] = "working"]
    BY <1>1, <1>2, <2>1
  <2>2. ASSUME turns' = turns PROVE turns' = [turns EXCEPT ![n] = @ + 0]
    BY <1>1, <1>2, <2>2
  <2>3. CASE TurnCounted(n)
    <3>1. /\ pc' = pc /\ inHand' = [inHand EXCEPT ![n] = "turn"]
          /\ turns' = [turns EXCEPT ![n] = @ + 1] /\ inHand[n] = "response"
      BY <2>3 DEF TurnCounted, attemptsVars
    <3>2. QED
      BY <2>1, <3>1
  <2>4. CASE TurnRecorded(n)
    <3>1. turns' = [turns EXCEPT ![n] = @ + 0] /\ inHand' = [inHand EXCEPT ![n] = "none"]
      BY <2>2, <2>4 DEF TurnRecorded
    <3>2. CASE pc' = [pc EXCEPT ![n] = "working"]
      BY <3>1, <3>2
    <3>3. CASE pc' = [pc EXCEPT ![n] = "ended"]
      BY <3>1, <3>3
    <3>4. QED
      BY <2>4, <3>2, <3>3 DEF TurnRecorded, Go
  <2>5. CASE ResponseDropped(n)
    <3>1. pc' = pc /\ turns' = turns /\ inHand' = [inHand EXCEPT ![n] = "none"]
      BY <2>5 DEF ResponseDropped, attemptsVars
    <3>2. QED
      BY <2>1, <2>2, <3>1
  <2>6. QED
    BY <2>3, <2>4, <2>5
<1>4. ASSUME NEW m \in NodeId PROVE TurnsBounded(m)'
  <2>1. TurnsBounded(m)
    BY DEF TurnsInv
  <2>2. CASE m = n
    <3>1. pc'[n] = q /\ inHand'[n] = held /\ turns'[n] = turns[n] + more
      BY <1>1, <1>2, <1>3
    <3>2. /\ agent[n] /\ calls[n] <= (IF agent[n] THEN MaxCalls ELSE 1)
          /\ turns[n] <= calls[n] /\ (more = 1 => turns[n] < calls[n])
      BY <1>1, <1>3, <2>1, <2>2 DEF TurnsBounded
    <3>3. turns'[n] <= calls[n]
      BY <1>1, <1>2, <3>1, <3>2
    <3>4. QED
      BY <1>1, <1>3, <2>2, <3>1, <3>2, <3>3 DEF TurnsBounded, InCall
  <2>3. CASE m # n
    <3>1. pc'[m] = pc[m] /\ inHand'[m] = inHand[m] /\ turns'[m] = turns[m]
      BY <1>1, <1>2, <1>3, <2>3
    <3>2. QED
      BY <1>1, <2>1, <3>1 DEF TurnsBounded
  <2>4. QED
    BY <2>2, <2>3
<1>5. /\ inHand' \in [NodeId -> {"none", "response", "turn"}]
      /\ turns' \in [NodeId -> Nat] /\ calls' \in [NodeId -> Nat]
  BY <1>1, <1>2, <1>3
<1>6. QED
  BY <1>4, <1>5 DEF TurnsInv

\* A new scope has made no call yet.
LEMMA SpawnTurns ==
  ASSUME RunTraceInv, TurnsInv, NEW parent \in Admitted, Spawns(parent)
  PROVE  TurnsInv'
<1>1. PICK isAgent, requestedLimit : Spawn(parent, isAgent, requestedLimit)
  BY DEF Spawns, SpawnAgent, SpawnLeaf
<1>2. PICK id : id = scopes
  OBVIOUS
<1>3. /\ pc' = [pc EXCEPT ![id] = "starting"] /\ agent' = [agent EXCEPT ![id] = isAgent]
      /\ UNCHANGED <<calls, inHand, turns>>
  BY <1>1, <1>2 DEF Spawn, Admit, Go, callVars, Spawns, traceVars
<1>4. /\ pc \in [NodeId -> Phase] /\ agent \in [NodeId -> BOOLEAN] /\ id \in Nat
  BY <1>2, BookTypes DEF RunTraceInv, AttemptsInv, LedgerInv, LedgerTypeOK
<1>5. ASSUME NEW m \in NodeId PROVE TurnsBounded(m)'
  <2>1. TurnsBounded(m) /\ turns[m] \in Nat /\ calls[m] \in Nat
    BY DEF TurnsInv
  <2>2. CASE m = id
    <3>1. m \notin Nodes(records)
      BY <1>2, <1>4, <2>2 DEF RunTraceInv, RecordsOK, Nodes, Admitted
    <3>2. calls[m] = 0 /\ pc[m] # "working"
      BY <3>1 DEF RunTraceInv, RecordsOK, Ending
    <3>3. inHand[m] = "none" /\ turns[m] = 0
      BY <2>1, <3>2 DEF TurnsBounded
    <3>4. pc'[m] = "starting"
      BY <1>3, <1>4, <2>2
    <3>5. calls[m] <= (IF agent'[m] THEN MaxCalls ELSE 1)
      BY <3>2, SlotsAssumption
    <3>6. pc'[m] \notin InCall /\ turns[m] <= calls[m]
      BY <3>2, <3>3, <3>4 DEF InCall
    <3>7. QED
      BY <1>3, <3>3, <3>5, <3>6 DEF TurnsBounded
  <2>3. CASE m # id
    <3>1. pc'[m] = pc[m] /\ agent'[m] = agent[m]
      BY <1>3, <1>4, <2>3
    <3>2. QED
      BY <1>3, <2>1, <3>1 DEF TurnsBounded
  <2>4. QED
    BY <2>2, <2>3
<1>6. QED
  BY <1>3, <1>5 DEF TurnsInv

LEMMA TurnsInit == RunTraceInit => TurnsInv
<1> SUFFICES ASSUME RunTraceInit PROVE TurnsInv
  OBVIOUS
<1>1. /\ inHand = [n \in NodeId |-> "none"] /\ turns = [n \in NodeId |-> 0]
      /\ calls = [n \in NodeId |-> 0]
      /\ pc = [n \in NodeId |-> IF n = Root THEN "starting" ELSE "absent"]
  BY DEF RunTraceInit, AttemptsInit
<1>2. QED
  BY <1>1, SlotsAssumption DEF TurnsInv, TurnsBounded, InCall

LEMMA TurnsNext == RunTraceInv /\ BooksOK /\ TurnsInv /\ [RunTraceNext]_runTraceVars => TurnsInv'
<1> SUFFICES ASSUME RunTraceInv, BooksOK, TurnsInv, [RunTraceNext]_runTraceVars
             PROVE  TurnsInv'
  OBVIOUS
<1>1. AttemptsInv /\ BooksTyped
  BY DEF RunTraceInv, BooksOK
<1>2. ASSUME NEW n \in Admitted, Settles(n) PROVE TurnsInv'
  <2>1. UNCHANGED <<inHand, calls>>
    BY <1>2 DEF Settles, Withdraw, Answer, GraceOver
  <2>2. /\ pc[n] \in Sending /\ UNCHANGED <<agent, turns>>
        /\ \E q \in {"settled", "ended"} : pc' = [pc EXCEPT ![n] = q]
    BY <1>1, <1>2, SettlesFacts
  <2>3. n \in NodeId /\ inHand[n] = "none"
    BY <2>2, NotInHand DEF Sending, Admitted
  <2>4. pc[n] \in InCall
    BY <2>2 DEF Sending, InCall
  <2>5. QED
    BY <1>1, <2>1, <2>2, <2>3, <2>4, TurnsStep DEF Phase
<1>3. ASSUME NEW n \in Admitted, NodeStarts(n) \/ NodeEnds(n) PROVE TurnsInv'
  <2>1. UNCHANGED <<inHand, turns>>
    BY <1>3 DEF NodeStarts, NodeEnds
  <2>2. UNCHANGED <<agent, calls>>
    BY <1>3 DEF NodeStarts, Start, NodeEnds, End, Shutdown, ledgerVars, treeVars, callVars
  <2>3. /\ pc[n] # "working"
        /\ \E q \in {"working", "ended", "done"} : pc' = [pc EXCEPT ![n] = q]
    BY <1>3 DEF NodeStarts, Start, NodeEnds, End, Go
  <2>4. n \in NodeId /\ inHand[n] = "none"
    BY <2>3, NotInHand DEF Admitted
  <2>5. QED
    BY <1>1, <2>1, <2>2, <2>3, <2>4, TurnsStep DEF Phase, InCall
<1>4. CASE UNCHANGED runTraceVars
  <2>1. UNCHANGED <<pc, agent, calls, inHand, turns>>
    BY <1>4 DEF runTraceVars, attemptsVars, ledgerVars, treeVars, callVars, traceVars
  <2>2. QED
    BY <2>1 DEF TurnsInv, TurnsBounded
<1>5. QED
  BY <1>1, <1>2, <1>3, <1>4, SpawnTurns, SilentTurns, EndTurns, ResponseTurns DEF RunTraceNext

\* The records and the ledger keep the same books throughout a run.
THEOREM RunTraceBooks == RunTraceSpec => [](BooksOK /\ TurnsInv)
<1>1. RunTraceInit => BooksOK /\ TurnsInv
  BY BooksInit, TurnsInit
<1>2. RunTraceInv /\ (BooksOK /\ TurnsInv) /\ [RunTraceNext]_runTraceVars => (BooksOK /\ TurnsInv)'
  BY BooksNext, TurnsNext
<1>3. QED
  BY <1>1, <1>2, RunTraceInvariant, PTL DEF RunTraceSpec

-----------------------------------------------------------------------------
(* The tree that is read back, against the ledger.                         *)

\* Of a scope by itself: what the tree says it used.
LEMMA SelfMatches ==
  ASSUME RunTraceInv, BooksOK, NEW n \in Nodes(records)
  PROVE  /\ SelfUsage(records, n) \in Nat /\ SelfUsage(records, n) <= own[n]
         /\ ~broken => SelfUsage(records, n) + settlement[n].charged = own[n]
<1>1. n \in NodeId /\ Book(n)
  BY DEF RunTraceInv, RecordsOK, Nodes, Admitted, BooksOK
<1>2. own[n] \in Nat /\ settlement[n].charged \in Nat
  BY <1>1, BookTypes DEF RunTraceInv, BooksOK, BooksTyped
<1>3. CASE EndsOf(records, n) = {}
  <2>1. SelfUsage(records, n) = Charged(records, n)
    BY <1>3 DEF SelfUsage
  <2>2. /\ IsFiniteSet(ChargesOf(records, n))
        /\ \A r \in ChargesOf(records, n) : r.charged \in Nat
        /\ Charged(records, n) + settlement[n].charged <= own[n]
        /\ ~broken => Charged(records, n) + settlement[n].charged = own[n]
    BY <1>1 DEF Book, ChargesOK
  <2>3. Charged(records, n) \in Nat
    BY <2>2, TotalFinite DEF Numbers, Charged
  <2>4. QED
    BY <1>2, <2>1, <2>2, <2>3
<1>4. CASE EndsOf(records, n) # {}
  <2>1. \A r \in EndsOf(records, n) : pc[n] = "done" /\ r = NodeEnd(n)
    BY <1>1 DEF Book, EndsOK
  <2>2. (CHOOSE r \in EndsOf(records, n) : TRUE) = NodeEnd(n) /\ pc[n] = "done"
    BY <1>4, <2>1
  <2>3. SelfUsage(records, n) = NodeEnd(n).self
    BY <1>4, <2>2 DEF SelfUsage
  <2>4. NodeEnd(n).self = own[n]
    <3>1. report[n] = [self |-> own[n], subtree |-> used[n]]
      BY <1>1, <2>2 DEF RunTraceInv, AttemptsInv, ReportFinal
    <3>2. QED
      BY <3>1 DEF NodeEnd
  <2>5. settlement[n].charged = 0
    BY <1>1, <2>2 DEF Book, SettlementOK
  <2>6. QED
    BY <1>2, <2>3, <2>4, <2>5
<1>5. QED
  BY <1>3, <1>4

\* And how many turns it took.
LEMMA TurnsMatch ==
  ASSUME RunTraceInv, BooksOK, TurnsInv, NEW n \in Nodes(records), ~broken, agent[n]
  PROVE  TurnsIn(records, n) + Unwritten(n) = turns[n]
<1>1. n \in NodeId /\ Book(n) /\ turns[n] \in Nat /\ Unwritten(n) \in {0, 1}
  BY DEF RunTraceInv, RecordsOK, Nodes, Admitted, BooksOK, BooksTyped, Unwritten
<1>2. CASE EndsOf(records, n) = {}
  <2>1. TurnsIn(records, n) = Cardinality(MessagesOf(records, n))
    BY <1>2 DEF TurnsIn
  <2>2. Cardinality(MessagesOf(records, n)) = turns[n] - Unwritten(n)
    BY <1>1 DEF Book, TurnsOK, Written
  <2>3. QED
    BY <1>1, <2>1, <2>2
<1>3. CASE EndsOf(records, n) # {}
  <2>1. (CHOOSE r \in EndsOf(records, n) : TRUE) = NodeEnd(n) /\ pc[n] = "done"
    BY <1>1, <1>3 DEF Book, EndsOK
  <2>2. TurnsIn(records, n) = turns[n]
    <3>1. NodeEnd(n).turns = turns[n]
      BY DEF NodeEnd
    <3>2. QED
      BY <1>3, <2>1, <3>1 DEF TurnsIn
  <2>3. Unwritten(n) = 0
    BY <1>1, <2>1, NotInHand DEF Unwritten
  <2>4. QED
    BY <1>1, <2>2, <2>3
<1>4. QED
  BY <1>2, <1>3

\* Of a scope whose start is not on record, there is nothing to say.
LEMMA NothingMissed ==
  ASSUME RunTraceInv, BooksOK, NEW n \in NodeId \ Nodes(records)
  PROVE  own[n] = 0 /\ settlement[n].charged = 0
<1>1. pc[n] # "settled"
  BY DEF RunTraceInv, RecordsOK, Ending
<1>2. QED
  BY <1>1 DEF BooksOK, Book, SettlementOK

-----------------------------------------------------------------------------
(* The shape of the tree.                                                  *)

\* Every admitted scope but the root has a parent with a smaller number, whose path it
\* continues.
LEMMA ParentAbove ==
  ASSUME RunTraceInv, NEW n \in Admitted, n # Root
  PROVE  \E p \in Admitted : /\ n \in ChildrenOf(p) /\ ParentOf(n) = p /\ p < n
                             /\ path[n] = path[p] \cup {n}
<1>1. PICK p \in Admitted : n \in ChildrenOf(p)
  BY DEF RunTraceInv, HasParent
<1>2. ParentOf(n) = p /\ p < n
  BY <1>1, ParentIsKnown DEF RunTraceInv
<1>3. QED
  BY <1>1, <1>2 DEF ChildrenOf

\* The ancestors of an ancestor are ancestors.
LEMMA PathsNest ==
  ASSUME RunTraceInv, NEW k \in Admitted, NEW m \in path[k]
  PROVE  path[m] \subseteq path[k]
<1> DEFINE Bad == {j \in Admitted : \E i \in path[j] : ~(path[i] \subseteq path[j])}
<1>1. SUFFICES ASSUME Bad # {} PROVE FALSE
  OBVIOUS
<1>2. Bad \in SUBSET Nat
  BY TreeTypes
<1>3. PICK j \in Bad : \A l \in Bad : j <= l
  BY <1>1, <1>2, LeastNumber, Zenon
<1>4. PICK i \in path[j] : ~(path[i] \subseteq path[j])
  OBVIOUS
<1>5. j # Root
  <2>1. ASSUME j = Root PROVE FALSE
    <3>1. i <= Root /\ i \in Nat
      BY <2>1, TreeTypes
    <3>2. i = j
      BY <2>1, <3>1 DEF Root
    <3>3. QED
      BY <1>4, <3>2
  <2>2. QED
    BY <2>1
<1>6. PICK p \in Admitted : p < j /\ path[j] = path[p] \cup {j}
  BY <1>5, ParentAbove
<1>7. i \in path[p]
  BY <1>4, <1>6
<1>8. p \in Bad
  BY <1>4, <1>6, <1>7
<1>9. QED
  BY <1>2, <1>3, <1>6, <1>8

\* Two children of one scope have nothing below them in common.
LEMMA OneWayDown ==
  ASSUME RunTraceInv, NEW n \in Admitted, NEW c \in ChildrenOf(n), NEW d \in ChildrenOf(n),
         NEW k \in Admitted, c \in path[k], d \in path[k]
  PROVE  c = d
<1> DEFINE Bad == {j \in Admitted : c \in path[j] /\ d \in path[j]}
<1>1. SUFFICES ASSUME c # d PROVE FALSE
  OBVIOUS
<1>2. Bad \in SUBSET Nat /\ k \in Bad
  BY TreeTypes
<1>3. PICK j \in Bad : \A l \in Bad : j <= l
  BY <1>2, LeastNumber, Zenon
<1>4. /\ c \in Admitted /\ d \in Admitted
      /\ path[c] = path[n] \cup {c} /\ path[d] = path[n] \cup {d}
  BY DEF ChildrenOf
<1>5. n < c /\ n < d /\ c # Root /\ d # Root
  BY <1>4, ParentIsKnown DEF RunTraceInv
<1>6. c \notin path[n] /\ d \notin path[n]
  <2>1. /\ c \in Nat /\ d \in Nat /\ n \in Nat
        /\ c \in path[n] => c <= n
        /\ d \in path[n] => d <= n
    BY <1>4, TreeTypes
  <2>2. QED
    BY <1>5, <2>1
<1>7. j # c /\ j # d
  BY <1>1, <1>4, <1>6
<1>8. j # Root
  <2>1. ASSUME j = Root PROVE FALSE
    <3>1. c <= Root /\ c \in Nat
      BY <2>1, TreeTypes
    <3>2. QED
      BY <1>5, <3>1 DEF Root
  <2>2. QED
    BY <2>1
<1>9. PICK p \in Admitted : p < j /\ path[j] = path[p] \cup {j}
  BY <1>8, ParentAbove
<1>10. p \in Bad
  BY <1>7, <1>9
<1>11. QED
  BY <1>2, <1>3, <1>9, <1>10

\* What the tree holds below a scope, the scope itself included.
Below(n) == Subtree(n) \cap Nodes(records)

\* The children a scope has in the tree are those of its children that started.
LEMMA ChildrenRead ==
  ASSUME RunTraceInv, NEW n \in Nodes(records)
  PROVE  ChildrenIn(records, n) = ChildrenOf(n) \cap Nodes(records)
<1>1. n \in Admitted /\ n \in Nat /\ n # NoParent
  BY TreeTypes
<1>2. ASSUME NEW m \in Nodes(records), ParentOf(m) = n PROVE m \in ChildrenOf(n)
  <2>1. m \in Admitted
    BY TreeTypes
  <2>2. m # Root
    BY <1>1, <1>2 DEF ParentOf
  <2>3. QED
    BY <1>2, <2>1, <2>2, ParentAbove
<1>3. ASSUME NEW m \in Nodes(records), m \in ChildrenOf(n) PROVE ParentOf(m) = n
  <2>1. m \in Admitted
    BY TreeTypes
  <2>2. QED
    BY <1>1, <1>3, <2>1, ParentIsKnown DEF RunTraceInv
<1>4. QED
  BY <1>2, <1>3, ParentRead DEF ChildrenIn

\* A subtree is its root and, apart from each other, the subtrees of the root's children.
LEMMA SubtreeParts ==
  ASSUME RunTraceInv, NEW n \in Nodes(records)
  PROVE  LET children == ChildrenIn(records, n) IN
         /\ children \subseteq Nodes(records)
         /\ \A m \in children : n < m
         /\ Below(n) = {n} \cup UNION {Below(m) : m \in children}
         /\ n \notin UNION {Below(m) : m \in children}
         /\ \A m, k \in children : m # k => Below(m) \cap Below(k) = {}
<1> DEFINE children == ChildrenIn(records, n)
<1>1. /\ n \in Admitted /\ children = ChildrenOf(n) \cap Nodes(records)
      /\ Nodes(records) \subseteq Admitted
  BY ChildrenRead, TreeTypes
<1> HIDE DEF children
<1>2. ASSUME NEW m \in children
      PROVE  m \in Admitted /\ m \in ChildrenOf(n) /\ n < m /\ n \in path[m]
  <2>1. m \in Admitted /\ m \in ChildrenOf(n)
    BY <1>1
  <2>2. n < m
    BY <1>1, <2>1, ParentIsKnown DEF RunTraceInv
  <2>3. n \in path[m]
    BY <1>1, <2>1, TreeTypes DEF ChildrenOf
  <2>4. QED
    BY <2>1, <2>2, <2>3
<1>3. ASSUME NEW m \in children, NEW k \in Below(m) PROVE k \in Below(n) /\ k # n
  <2>1. k \in Admitted /\ k \in NodeId /\ k \in Nodes(records) /\ m \in path[k]
    BY <1>1 DEF Below, Subtree
  <2>2. n \in path[k]
    BY <1>2, <2>1, PathsNest
  <2>3. k # n
    <3>1. m <= k /\ n < m /\ m \in Nat /\ n \in Nat /\ k \in Nat
      BY <1>1, <1>2, <2>1, TreeTypes
    <3>2. QED
      BY <3>1
  <2>4. QED
    BY <2>1, <2>2, <2>3 DEF Below, Subtree
<1>4. ASSUME NEW k \in Below(n), k # n PROVE \E m \in children : k \in Below(m)
  <2>1. k \in Admitted /\ k \in NodeId /\ k \in Nodes(records) /\ n \in path[k]
    BY <1>1 DEF Below, Subtree
  <2>2. PICK c \in ChildrenOf(n) : c \in path[k]
    BY <1>4, <2>1 DEF RunTraceInv, AttemptsInv, Ancestry
  <2>3. c \in Nodes(records)
    <3>1. CASE c = k
      BY <2>1, <3>1
    <3>2. CASE c # k
      <4>1. PICK d \in ChildrenOf(c) : d \in path[k]
        BY <2>1, <2>2, <3>2 DEF RunTraceInv, AttemptsInv, Ancestry
      <4>2. c \in Admitted /\ d \in Admitted
        BY <2>2, <4>1 DEF ChildrenOf
      <4>3. d # Root /\ ParentOf(d) = c
        BY <4>1, <4>2, ParentIsKnown DEF RunTraceInv
      <4>4. QED
        BY <4>2, <4>3 DEF RunTraceInv, RecordsOK
    <3>3. QED
      BY <3>1, <3>2
  <2>4. c \in children /\ k \in Below(c)
    BY <1>1, <2>1, <2>2, <2>3 DEF Below, Subtree
  <2>5. QED
    BY <2>4
<1>5. n \in Below(n)
  BY <1>1, TreeTypes DEF Below, Subtree
<1>6. Below(n) = {n} \cup UNION {Below(m) : m \in children}
  BY <1>3, <1>4, <1>5
<1>7. n \notin UNION {Below(m) : m \in children}
  BY <1>3
<1>8. ASSUME NEW m \in children, NEW k \in children, m # k PROVE Below(m) \cap Below(k) = {}
  <2>1. ASSUME NEW j \in Below(m) \cap Below(k) PROVE FALSE
    <3>1. j \in Admitted /\ m \in path[j] /\ k \in path[j]
      BY <1>1 DEF Below, Subtree
    <3>2. m = k
      BY <1>1, <1>2, <3>1, OneWayDown
    <3>3. QED
      BY <1>8, <3>2
  <2>2. QED
    BY <2>1
<1>9. QED
  BY <1>1, <1>2, <1>6, <1>7, <1>8 DEF children

-----------------------------------------------------------------------------
(* Sums over the tree.                                                     *)

\* What the tree says of each of its scopes, and the sum of that over a subtree.
Selves == [n \in Nodes(records) |-> SelfUsage(records, n)]
Sums == [n \in Nodes(records) |-> Total(Selves, Below(n))]

LEMMA SelvesNumbers ==
  ASSUME RunTraceInv, BooksOK, NEW S \in SUBSET Nodes(records)
  PROVE  Numbers(Selves, S)
<1>1. IsFiniteSet(S)
  <2>1. S \subseteq NodeId
    BY TreeTypes
  <2>2. QED
    BY <2>1, FiniteScopes
<1>2. QED
  BY <1>1, SelfMatches DEF Numbers, Selves

\* The sum over a subtree is what its root used and the sums over its children.
LEMMA SumsAddUp ==
  ASSUME RunTraceInv, BooksOK, NEW n \in Nodes(records)
  PROVE  Sums[n] = SelfUsage(records, n) + Total(Sums, ChildrenIn(records, n))
<1> DEFINE children == ChildrenIn(records, n)
           F == [m \in children |-> Below(m)]
           parts == UNION {F[m] : m \in children}
<1>1. /\ children \subseteq Nodes(records)
      /\ Below(n) = {n} \cup parts /\ n \notin parts
      /\ \A m, k \in children : m # k => F[m] \cap F[k] = {}
  BY SubtreeParts
<1>2. parts \subseteq Nodes(records) /\ \A m \in children : F[m] = Below(m)
  BY DEF Below
<1> HIDE DEF F, children
<1>3. Numbers(Selves, parts) /\ Numbers(Selves, children)
  BY <1>1, <1>2, SelvesNumbers
<1>4. \A m \in children : Sums[m] = Total(Selves, F[m])
  BY <1>1, <1>2 DEF Sums
<1>5. Total(Selves, parts) = Total(Sums, children)
  BY <1>1, <1>3, <1>4, TotalOfParts DEF Numbers
<1>6. Selves[n] = SelfUsage(records, n) /\ Selves[n] \in Nat
  BY SelfMatches DEF Selves
<1>7. Total(Selves, parts \cup {n}) = Total(Selves, parts) + Selves[n]
  BY <1>1, <1>3, <1>6, TotalNext
<1>8. parts \cup {n} = Below(n)
  BY <1>1
<1>9. Sums[n] = Total(Selves, parts \cup {n}) /\ Total(Selves, parts) \in Nat
  BY <1>3, <1>8, TotalFinite DEF Sums
<1>10. QED
  BY <1>5, <1>6, <1>7, <1>9 DEF children

\* `build` is given by its equation: there is a function that satisfies it.
LEMMA UsageEquation ==
  ASSUME RunTraceInv, BooksOK
  PROVE  LET usage == SubtreeUsage(records) IN
         usage = [n \in Nodes(records) |->
                    SelfUsage(records, n) + Total(usage, ChildrenIn(records, n))]
<1> DEFINE Adds(g) == [n \in Nodes(records) |->
                         SelfUsage(records, n) + Total(g, ChildrenIn(records, n))]
<1>1. Sums = Adds(Sums)
  BY SumsAddUp DEF Sums
<1>2. SubtreeUsage(records) = CHOOSE g : g = Adds(g)
  BY DEF SubtreeUsage
<1> HIDE DEF Adds
<1>3. SubtreeUsage(records) = Adds(SubtreeUsage(records))
  BY <1>1, <1>2
<1>4. QED
  BY <1>3 DEF Adds

\* And it is the only one: numbers grow from parent to child, so that from the youngest
\* scope up the sums cannot differ.
LEMMA UsageIsSum ==
  ASSUME RunTraceInv, BooksOK, NEW n \in Nodes(records)
  PROVE  SubtreeUsage(records)[n] = Total(Selves, Below(n))
<1> DEFINE usage == SubtreeUsage(records)
           Wrong == {m \in Nodes(records) : usage[m] # Sums[m]}
           Ages == {MaxNodes - m : m \in Wrong}
<1>1. \A m \in Nodes(records) :
        usage[m] = SelfUsage(records, m) + Total(usage, ChildrenIn(records, m))
  BY UsageEquation
<1>2. \A m \in Nodes(records) : m \in Nat /\ MaxNodes - m \in Nat
  <2>1. Nodes(records) \subseteq 0 .. MaxNodes - 1 /\ MaxNodes \in Nat
    BY TreeTypes, LimitsAssumption DEF NodeId
  <2>2. QED
    BY <2>1
<1> HIDE DEF usage
<1>3. ASSUME Wrong # {} PROVE FALSE
  <2>1. Ages \in SUBSET Nat /\ Ages # {}
    BY <1>2, <1>3
  <2>2. PICK a \in Ages : \A b \in Ages : a <= b
    BY <2>1, LeastNumber, Zenon
  <2>3. PICK m \in Wrong : a = MaxNodes - m
    OBVIOUS
  <2>4. ASSUME NEW k \in ChildrenIn(records, m) PROVE usage[k] = Sums[k]
    <3>1. m \in Nodes(records) /\ k \in Nodes(records) /\ m < k
      BY <2>4, SubtreeParts
    <3>2. ~(MaxNodes - m <= MaxNodes - k)
      BY <1>2, <3>1, LimitsAssumption
    <3>3. k \notin Wrong
      BY <2>2, <2>3, <3>2
    <3>4. QED
      BY <3>1, <3>3
  <2>5. Total(usage, ChildrenIn(records, m)) = Total(Sums, ChildrenIn(records, m))
    BY <2>4, TotalSame
  <2>6. usage[m] = Sums[m]
    BY <1>1, <2>5, SumsAddUp
  <2>7. QED
    BY <2>6
<1>4. usage[n] = Sums[n]
  BY <1>3
<1>5. QED
  BY <1>4 DEF Sums, usage

\* The ledger's sums, over the part of a subtree that is on record.
LEMMA LedgerSums ==
  ASSUME RunTraceInv, BooksOK, NEW n \in NodeId
  PROVE  /\ used[n] = Total(own, Below(n)) /\ Numbers(own, Below(n))
         /\ LET charge == [m \in NodeId |-> settlement[m].charged] IN
            Unrecorded(Subtree(n)) = Total(charge, Below(n)) /\ Numbers(charge, Below(n))
<1> DEFINE charge == [m \in NodeId |-> settlement[m].charged]
           all == Subtree(n)
           part == Below(n)
           inHandOf == [m \in all |-> settlement[m].charged]
<1>1. /\ own \in [NodeId -> Nat] /\ charge \in [NodeId -> Nat]
      /\ \A m \in NodeId \ Nodes(records) : own[m] = 0 /\ settlement[m].charged = 0
  BY BookTypes, NothingMissed DEF BooksOK, BooksTyped, RunTraceInv
<1>2. /\ all \subseteq NodeId /\ part \subseteq all /\ part \subseteq NodeId
      /\ all \ part \subseteq NodeId \ Nodes(records)
  BY DEF Subtree, Below
<1>3. IsFiniteSet(part)
  BY <1>2, FiniteScopes
<1>4. used[n] = Total(own, all)
  BY DEF RunTraceInv, AttemptsInv, LedgerInv, SubtreeAccounting, TokensSpent, Total, Tokens
<1>5. Unrecorded(all) = Total(inHandOf, all)
  BY DEF Unrecorded
<1>6. \A m \in all : inHandOf[m] = settlement[m].charged
  OBVIOUS
<1>7. \A m \in NodeId : charge[m] = settlement[m].charged
  OBVIOUS
<1> HIDE DEF charge, all, part, inHandOf
<1>8. Total(own, all) = Total(own, part)
  BY <1>1, <1>2, TotalSame
<1>9. Total(inHandOf, all) = Total(charge, part)
  <2>1. \A m \in part : inHandOf[m] = charge[m]
    BY <1>2, <1>6, <1>7
  <2>2. \A m \in all \ part : inHandOf[m] = 0
    BY <1>1, <1>2, <1>6
  <2>3. QED
    BY <1>2, <2>1, <2>2, TotalSame
<1>10. Numbers(own, part) /\ Numbers(charge, part)
  BY <1>1, <1>2, <1>3 DEF Numbers
<1>11. QED
  BY <1>4, <1>5, <1>8, <1>9, <1>10 DEF charge, all, part

\* The charge one scope has in hand.
LEMMA UnrecordedOne ==
  ASSUME BooksOK, NEW n \in NodeId
  PROVE  Unrecorded({n}) = settlement[n].charged
<1> DEFINE f == [m \in {n} |-> settlement[m].charged]
<1>1. f[n] = settlement[n].charged /\ settlement[n].charged \in Nat
  BY DEF BooksOK, BooksTyped
<1>2. Unrecorded({n}) = Total(f, {n})
  BY DEF Unrecorded
<1> HIDE DEF f
<1>3. Total(f, {} \cup {n}) = Total(f, {}) + f[n]
  BY <1>1, TotalEmpty, TotalAdd
<1>4. {} \cup {n} = {n} /\ Total(f, {}) = 0
  BY TotalEmpty
<1>5. QED
  BY <1>1, <1>2, <1>3, <1>4

\* The reconstructed tree agrees with the ledger for every scope and every subtree, at
\* any moment a crash may choose, up to the charges whose records were being written;
\* after a failed trace it may miss charges but never counts one twice.
THEOREM TreeMatches == RunTraceSpec => []TreeMatchesLedger
<1>1. ASSUME RunTraceInv, BooksOK, TurnsInv PROVE TreeMatchesLedger
  <2> DEFINE usage == SubtreeUsage(records)
             charge == [m \in NodeId |-> settlement[m].charged]
  <2>1. ASSUME NEW n \in Nodes(records)
        PROVE  /\ SelfUsage(records, n) <= own[n] /\ usage[n] <= used[n]
               /\ ~broken =>
                    /\ SelfUsage(records, n) + Unrecorded({n}) = own[n]
                    /\ usage[n] + Unrecorded(Subtree(n)) = used[n]
                    /\ agent[n] => TurnsIn(records, n) + Unwritten(n) = turns[n]
    <3>1. n \in NodeId
      BY <1>1, TreeTypes
    <3>2. /\ SelfUsage(records, n) <= own[n]
          /\ ~broken => /\ SelfUsage(records, n) + Unrecorded({n}) = own[n]
                        /\ agent[n] => TurnsIn(records, n) + Unwritten(n) = turns[n]
      BY <1>1, <3>1, SelfMatches, TurnsMatch, UnrecordedOne
    <3>3. usage[n] = Total(Selves, Below(n))
      BY <1>1, UsageIsSum
    <3>4. /\ used[n] = Total(own, Below(n)) /\ Numbers(own, Below(n))
          /\ Unrecorded(Subtree(n)) = Total(charge, Below(n)) /\ Numbers(charge, Below(n))
      BY <1>1, <3>1, LedgerSums
    <3>5. Numbers(Selves, Below(n)) /\ Below(n) \subseteq Nodes(records)
      BY <1>1, SelvesNumbers DEF Below
    <3>6. \A m \in Below(n) : Selves[m] <= own[m]
      BY <1>1, <3>5, SelfMatches DEF Selves
    <3>7. usage[n] <= used[n]
      BY <3>3, <3>4, <3>5, <3>6, TotalMonotone
    <3>8. ASSUME ~broken PROVE usage[n] + Unrecorded(Subtree(n)) = used[n]
      <4>1. \A m \in Below(n) : own[m] = Selves[m] + charge[m]
        <5>1. ASSUME NEW m \in Below(n) PROVE own[m] = Selves[m] + charge[m]
          <6>1. m \in Nodes(records) /\ m \in NodeId
            BY <1>1, <3>5, TreeTypes
          <6>2. Selves[m] = SelfUsage(records, m) /\ charge[m] = settlement[m].charged
            BY <6>1 DEF Selves
          <6>3. SelfUsage(records, m) + settlement[m].charged = own[m]
            BY <1>1, <3>8, <6>1, SelfMatches
          <6>4. QED
            BY <6>2, <6>3
        <5>2. QED
          BY <5>1
      <4> HIDE DEF charge, usage
      <4>2. Total(own, Below(n)) = Total(Selves, Below(n)) + Total(charge, Below(n))
        BY <3>4, <3>5, <4>1, TotalPlus
      <4>3. QED
        BY <3>3, <3>4, <4>2
    <3>9. QED
      BY <3>2, <3>7, <3>8
  <2>2. QED
    BY <2>1 DEF TreeMatchesLedger
<1>2. RunTraceInv /\ BooksOK /\ TurnsInv => TreeMatchesLedger
  BY <1>1
<1>3. QED
  BY <1>2, RunTraceInvariant, RunTraceBooks, PTL

\* A turn costs a call: no node records more turns than its agent may make calls, and a
\* leaf records none.  (types of the transcript's state, starts that name admitted scopes)
THEOREM RunTraceTypes == RunTraceSpec => []RunTraceTypeOK
<1>1. ASSUME RunTraceInv, BooksOK, TurnsInv PROVE RunTraceTypeOK
  <2>1. AttemptsTypeOK
    BY <1>1 DEF RunTraceInv, AttemptsInv
  <2>2. ASSUME NEW r \in OfType(records, "node_start")
        PROVE  r \in [type : {"node_start"}, node : NodeId, parent : NodeId \cup {NoParent}]
    <3>1. r.node \in Admitted /\ r = NodeStart(r.node)
      BY <1>1 DEF RunTraceInv, RecordsOK
    <3>2. ParentOf(r.node) \in NodeId \cup {NoParent}
      <4>1. CASE r.node = Root
        BY <4>1 DEF ParentOf
      <4>2. CASE r.node # Root
        BY <1>1, <3>1, <4>2, ParentAbove DEF Admitted
      <4>3. QED
        BY <4>1, <4>2
    <3>3. r.node \in NodeId
      BY <3>1 DEF Admitted
    <3>4. QED
      BY <3>1, <3>2, <3>3 DEF NodeStart
  <2>3. settlement \in [NodeId -> [attempt : Nat, charged : Nat]]
    BY <1>1 DEF BooksOK, BooksTyped
  <2>4. turns \in [NodeId -> 0 .. MaxCalls] /\ inHand \in [NodeId -> {"none", "response", "turn"}]
    <3>1. /\ inHand \in [NodeId -> {"none", "response", "turn"}]
          /\ turns \in [NodeId -> Nat] /\ calls \in [NodeId -> Nat]
      BY <1>1 DEF TurnsInv
    <3>2. ASSUME NEW n \in NodeId PROVE turns[n] \in 0 .. MaxCalls
      <4>1. /\ turns[n] \in Nat /\ calls[n] \in Nat /\ TurnsBounded(n)
        BY <1>1 DEF TurnsInv
      <4>2. QED
        BY <4>1, SlotsAssumption DEF TurnsBounded
    <3>3. QED
      BY <3>1, <3>2
  <2>5. QED
    BY <2>1, <2>2, <2>3, <2>4 DEF RunTraceTypeOK
<1>2. RunTraceInv /\ BooksOK /\ TurnsInv => RunTraceTypeOK
  BY <1>1
<1>3. QED
  BY <1>2, RunTraceInvariant, RunTraceBooks, PTL

\* What holds of the tasks alone holds of the tasks that keep a transcript, although a
\* turn that cannot be recorded ends an agent in a step the tasks alone do not have.
THEOREM RunTraceKeepsPromises ==
  RunTraceSpec => [](HeldOnlyInFlight /\ ReportFinal /\ OrderlyEnd /\ PanicFailsRun)
<1>1. RunTraceInv => HeldOnlyInFlight /\ ReportFinal
  BY DEF RunTraceInv, AttemptsInv
<1>2. RunTraceInv => OrderlyEnd /\ PanicFailsRun
  BY EndsInOrder, PanicsCount DEF RunTraceInv
<1>3. QED
  BY <1>1, <1>2, RunTraceInvariant, PTL
=============================================================================
