-------------------------------- MODULE Ledger --------------------------------
(***************************************************************************)
(* The budget and admission ledger of one run (core/src/ledger.rs): a tree *)
(* of scopes, one per agent or leaf completion, behind one mutex.  Each    *)
(* public method is one critical section and so one action.                *)
(*                                                                         *)
(* Token amounts are naturals; a Usage record is abstracted to its total,  *)
(* which makes the `usage` and `budget.used` fields of a scope the same    *)
(* number.  A refused call changes nothing and is therefore a disabled     *)
(* action.  The client is the most general one: any scope, any order.      *)
(***************************************************************************)
EXTENDS Integers, FiniteSets

CONSTANTS
  MaxNodes,        \* bound: scopes admitted in one behaviour
  MaxAttempts,     \* bound: attempts reserved in one behaviour
  BudgetTokens,    \* limits.budget_tokens
  MaxDepth,        \* limits.max_depth
  MaxAgentsLive,   \* limits.max_agents_live
  MaxAgentsTotal,  \* limits.max_agents_total
  MaxLlmCalls,     \* limits.max_llm_calls
  MinOutputTokens, \* defaults::MIN_OUTPUT_TOKENS
  ScopeLimits,     \* explicit limits a caller may pass to admit
  Prompts,         \* prompt estimates a caller may pass to reserve
  Requests,        \* output caps a caller may pass to reserve
  Usages           \* measured totals a completed attempt may report

ASSUME LimitsAssumption ==
  /\ MaxNodes \in Nat \ {0}
  /\ MaxAttempts \in Nat
  /\ BudgetTokens \in Nat \ {0}
  /\ MaxDepth \in Nat \ {0}
  /\ MaxAgentsLive \in Nat \ {0}
  /\ MaxAgentsTotal \in Nat \ {0}
  /\ MaxLlmCalls \in Nat \ {0}
  /\ MinOutputTokens \in Nat \ {0}
  /\ ScopeLimits \subseteq Nat
  /\ Prompts \subseteq Nat
  /\ Requests \subseteq Nat
  /\ Usages \subseteq Nat

VARIABLES
  scopes,          \* number of scopes: the length of State.scopes
  path,            \* a scope and its ancestors, fixed when it is admitted
  depth,
  agent,           \* an agent scope, or a leaf completion
  alive,
  admissionClosed,
  limit,
  used,            \* settled charges on the subtree
  reserved,        \* unsettled reservations on the subtree
  closed,          \* the budget is closed
  own,             \* settled charges of the scope itself
  total, live, llm,
  nextAttempt,
  attempts,        \* outstanding attempts
  excess           \* history: what settlements under a scope reported as excess

treeVars == <<scopes, path, depth, agent, limit, total, llm>>
lifeVars == <<alive, admissionClosed, live>>
budgetVars == <<used, reserved, closed, own, nextAttempt, attempts, excess>>
ledgerVars == <<treeVars, lifeVars, budgetVars>>

NodeId == 0 .. MaxNodes - 1
Root == 0
Attempt == [id : Nat, node : NodeId, tokens : Nat]

Monus(a, b) == IF a >= b THEN a - b ELSE 0
Smaller(a, b) == IF a <= b THEN a ELSE b

\* The scopes admitted so far.
Admitted == {n \in NodeId : n < scopes}
\* Scopes in the subtree of n.
Subtree(n) == {m \in NodeId : n \in path[m]}

\* Faulty variants, each a plausible slip in the operation defined after it.
\* The balance ignores that the budget was closed.
RemainingReopened(n) == Monus(limit[n], used[n] + reserved[n])
\* The balance ignores what is promised but not yet spent.
RemainingUnpromised(n) == IF closed[n] THEN 0 ELSE Monus(limit[n], used[n])

\* BudgetSnapshot::remaining
Remaining(n) ==
  IF closed[n] THEN 0 ELSE Monus(limit[n], used[n] + reserved[n])

-----------------------------------------------------------------------------
\* Ledger::new
LedgerInit ==
  /\ scopes = 1
  /\ path = [n \in NodeId |-> IF n = Root THEN {Root} ELSE {}]
  /\ depth = [n \in NodeId |-> 0]
  /\ agent = [n \in NodeId |-> n = Root]
  /\ alive = [n \in NodeId |-> n = Root]
  /\ admissionClosed = [n \in NodeId |-> FALSE]
  /\ limit = [n \in NodeId |-> IF n = Root THEN BudgetTokens ELSE 0]
  /\ used = [n \in NodeId |-> 0]
  /\ reserved = [n \in NodeId |-> 0]
  /\ closed = [n \in NodeId |-> FALSE]
  /\ own = [n \in NodeId |-> 0]
  /\ total = 1
  /\ live = 1
  /\ llm = 0
  /\ nextAttempt = 0
  /\ attempts = {}
  /\ excess = [n \in NodeId |-> 0]

\* The limits an agent or a leaf under `parent` must fit.
Admissible(parent, isAgent) ==
  IF isAgent
  THEN /\ depth[parent] + 1 <= MaxDepth
       /\ live < MaxAgentsLive
       /\ total < MaxAgentsTotal
  ELSE llm < MaxLlmCalls

\* Whether Ledger::admit accepts a child of `parent`.
CanAdmit(parent, isAgent) ==
  /\ alive[parent]
  /\ ~admissionClosed[parent]
  /\ Admissible(parent, isAgent)
  /\ \A m \in path[parent] : Remaining(m) > 0
  /\ scopes < MaxNodes

\* Ledger::admit with a positive limit: the child may not exceed its parent's.
Admit(parent, isAgent, requestedLimit) ==
  LET id == scopes IN
  /\ CanAdmit(parent, isAgent)
  /\ requestedLimit > 0
  /\ scopes' = scopes + 1
  /\ path' = [path EXCEPT ![id] = path[parent] \cup {id}]
  /\ depth' = [depth EXCEPT ![id] = depth[parent] + (IF isAgent THEN 1 ELSE 0)]
  /\ agent' = [agent EXCEPT ![id] = isAgent]
  /\ alive' = [alive EXCEPT ![id] = TRUE]
  /\ limit' = [limit EXCEPT ![id] = Smaller(requestedLimit, limit[parent])]
  /\ IF isAgent
     THEN total' = total + 1 /\ live' = live + 1 /\ UNCHANGED llm
     ELSE llm' = llm + 1 /\ UNCHANGED <<total, live>>
  /\ UNCHANGED <<admissionClosed, budgetVars>>

\* The reservation itself: on the scope and every ancestor at once.
Grant(node, tokens) ==
  /\ reserved' = [n \in NodeId |->
                    IF n \in path[node] THEN reserved[n] + tokens ELSE reserved[n]]
  /\ attempts' = attempts \cup
                   {[id |-> nextAttempt, node |-> node, tokens |-> tokens]}
  /\ nextAttempt' = nextAttempt + 1
  /\ UNCHANGED <<treeVars, lifeVars, used, closed, own, excess>>

\* Whether Ledger::reserve grants a request of `requested` output tokens.
CanReserve(node, prompt, requested) ==
  /\ requested > 0
  /\ alive[node]
  /\ ~admissionClosed[node]
  /\ \A m \in path[node] :
       Remaining(m) >= prompt + Smaller(MinOutputTokens, requested)

\* Ledger::reserve: the output cap shrinks to the least headroom on the path,
\* never below MinOutputTokens or the request.
Reserve(node, prompt, requested) ==
  /\ CanReserve(node, prompt, requested)
  /\ nextAttempt < MaxAttempts
  /\ \E headroom \in {Remaining(m) : m \in path[node]} :
       /\ \A m \in path[node] : headroom <= Remaining(m)
       /\ Grant(node, prompt + Smaller(requested, headroom - prompt))

\* Faulty variants: a settlement that charges the scope but not its ancestors, one
\* that never closes a budget.
SettleLocally(a, charged) ==
  /\ a \in attempts
  /\ attempts' = attempts \ {a}
  /\ reserved' = [n \in NodeId |->
                    IF n \in path[a.node] THEN reserved[n] - a.tokens ELSE reserved[n]]
  /\ used' = [used EXCEPT ![a.node] = @ + charged]
  /\ own' = [own EXCEPT ![a.node] = @ + charged]
  /\ UNCHANGED <<treeVars, lifeVars, closed, nextAttempt, excess>>
SettleUnchecked(a, charged) ==
  /\ a \in attempts
  /\ attempts' = attempts \ {a}
  /\ reserved' = [n \in NodeId |->
                    IF n \in path[a.node] THEN reserved[n] - a.tokens ELSE reserved[n]]
  /\ used' = [n \in NodeId |->
                IF n \in path[a.node] THEN used[n] + charged ELSE used[n]]
  /\ own' = [own EXCEPT ![a.node] = @ + charged]
  /\ excess' = [n \in NodeId |->
                  IF n \in path[a.node] THEN excess[n] + Monus(charged, a.tokens)
                                        ELSE excess[n]]
  /\ UNCHANGED <<treeVars, lifeVars, closed, nextAttempt>>

\* Ledger::settle with the tokens to charge; closes every scope on the path that
\* ends above its limit.
Settle(a, charged) ==
  LET onPath(n) == n \in path[a.node]
      after(n) == (used[n] + charged) + (reserved[n] - a.tokens)
  IN
  /\ a \in attempts
  /\ attempts' = attempts \ {a}
  /\ reserved' = [n \in NodeId |->
                    IF onPath(n) THEN reserved[n] - a.tokens ELSE reserved[n]]
  /\ used' = [n \in NodeId |->
                IF onPath(n) THEN used[n] + charged ELSE used[n]]
  /\ closed' = [n \in NodeId |->
                  \/ closed[n]
                  \/ onPath(n) /\ after(n) > limit[n]]
  /\ own' = [own EXCEPT ![a.node] = @ + charged]
  /\ excess' = [n \in NodeId |->
                  IF onPath(n) THEN excess[n] + Monus(charged, a.tokens) ELSE excess[n]]
  /\ UNCHANGED <<treeVars, lifeVars, nextAttempt>>

\* The tokens a settlement may charge: nothing, the whole reservation, or what
\* the provider measured.
Charges(a) == {0, a.tokens} \cup Usages

\* Ledger::close_admission
CloseAdmission(n) ==
  /\ n \in Admitted
  /\ admissionClosed' = [admissionClosed EXCEPT ![n] = TRUE]
  /\ UNCHANGED <<treeVars, budgetVars, alive, live>>

\* Faulty variant: a second shutdown releases the live slot again.
ShutdownAgain(n) ==
  /\ n \in Admitted
  /\ alive' = [alive EXCEPT ![n] = FALSE]
  /\ live' = IF agent[n] THEN live - 1 ELSE live
  /\ UNCHANGED <<treeVars, budgetVars, admissionClosed>>

\* Ledger::shutdown, idempotent: only the first call releases the live slot.
Shutdown(n) ==
  /\ n \in Admitted
  /\ alive[n]
  /\ alive' = [alive EXCEPT ![n] = FALSE]
  /\ live' = IF agent[n] THEN live - 1 ELSE live
  /\ UNCHANGED <<treeVars, budgetVars, admissionClosed>>

LedgerNext ==
  \/ \E parent \in Admitted, isAgent \in BOOLEAN,
        requestedLimit \in ScopeLimits \cup {BudgetTokens} :
       Admit(parent, isAgent, requestedLimit)
  \/ \E node \in Admitted, prompt \in Prompts, requested \in Requests :
       Reserve(node, prompt, requested)
  \/ \E a \in attempts : \E charged \in Charges(a) : Settle(a, charged)
  \/ \E n \in Admitted : CloseAdmission(n)
  \/ \E n \in Admitted : Shutdown(n)

LedgerSpec == LedgerInit /\ [][LedgerNext]_ledgerVars

-----------------------------------------------------------------------------
\* Every counter is a natural number: no reservation is returned twice, so
\* `reserved -= tokens` and `live -= 1` never underflow (ledger.rs settle, shutdown).
LedgerTypeOK ==
  /\ scopes \in 1 .. MaxNodes
  /\ path \in [NodeId -> SUBSET NodeId]
  /\ depth \in [NodeId -> Nat]
  /\ agent \in [NodeId -> BOOLEAN]
  /\ alive \in [NodeId -> BOOLEAN]
  /\ admissionClosed \in [NodeId -> BOOLEAN]
  /\ limit \in [NodeId -> Nat]
  /\ used \in [NodeId -> Nat]
  /\ reserved \in [NodeId -> Nat]
  /\ closed \in [NodeId -> BOOLEAN]
  /\ own \in [NodeId -> Nat]
  /\ total \in Nat
  /\ live \in Nat
  /\ llm \in Nat
  /\ nextAttempt \in Nat
  /\ attempts \subseteq Attempt
  /\ excess \in [NodeId -> Nat]

\* The tokens held by the outstanding attempts, and those spent by the scopes,
\* in the subtree of n, one pair per token: their number is the sum.
TokensHeld(n) ==
  UNION {{a} \X (1 .. a.tokens) : a \in {b \in attempts : b.node \in Subtree(n)}}
TokensSpent(n) == UNION {{m} \X (1 .. own[m]) : m \in Subtree(n)}

\* A scope's counters are those of its subtree: `reserved` is what its outstanding
\* attempts hold and `used` what its scopes were charged, however reservations,
\* settlements and admissions interleave (reserve and settle walk the whole path).
SubtreeAccounting ==
  \A n \in NodeId :
    /\ reserved[n] = Cardinality(TokensHeld(n))
    /\ used[n] = Cardinality(TokensSpent(n))

\* While a budget is open, what is spent and what is promised fit its limit, at
\* every level of the tree (reserve takes the least headroom on the path, settle
\* closes whatever ends above its limit).
NoOvercommit ==
  \A n \in Admitted : ~closed[n] => used[n] + reserved[n] <= limit[n]

\* A scope overshoots its limit by no more than the excess that its settlements
\* reported: an estimate that was too low, never an admission that was too many.
OvershootBounded ==
  \A n \in Admitted : used[n] + reserved[n] <= limit[n] + excess[n]

\* The counters behind the limits are the numbers they stand for, and no limit of
\* the tree is exceeded: live agents, admitted agents, leaf calls and depth.
AgentLimits ==
  /\ live = Cardinality({n \in Admitted : agent[n] /\ alive[n]})
  /\ total = Cardinality({n \in Admitted : agent[n]})
  /\ llm = Cardinality({n \in Admitted : ~agent[n]})
  /\ live <= MaxAgentsLive /\ total <= MaxAgentsTotal /\ llm <= MaxLlmCalls
  /\ \A n \in Admitted : depth[n] <= MaxDepth

\* "Once closed, this scope never admits further requests" (ledger.rs:23): a closed
\* budget stays closed and nothing is admitted or reserved anywhere below it, and a
\* scope whose admission closed takes no child and no attempt of its own.
ClosedScopesAdmitNothing ==
  [][\A n \in Admitted :
       /\ closed[n] =>
            /\ closed'[n]
            /\ Subtree(n)' = Subtree(n)
            /\ \A a \in attempts' \ attempts : a.node \notin Subtree(n)
       /\ admissionClosed[n] \/ ~alive[n] =>
            /\ \A m \in Admitted' \ Admitted : path'[m] # path[n] \cup {m}
            /\ \A a \in attempts' \ attempts : a.node # n]_ledgerVars
=============================================================================
