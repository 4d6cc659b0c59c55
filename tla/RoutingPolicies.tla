-------------------------- MODULE RoutingPolicies ---------------------------
(***************************************************************************)
(* Routing policies, and the order they put a model's providers in.        *)
(*                                                                         *)
(* Policies are only ever added: a later row of the same scope replaces an *)
(* earlier one unless it is disabled.  A policy has a strategy, by which   *)
(* each provider gets a score; weights and scores are in tenths.           *)
(***************************************************************************)
EXTENDS Integers, Sequences, FiniteSets

CONSTANTS
  Candidates,   \* providers that may be bound to the model
  Priority,     \* model_providers.priority
  Cost,         \* model_providers.cost_multiplier
  MaxPolicies   \* bound: rows of routing_policies

ASSUME PolicyConstants ==
  /\ Priority \in [Candidates -> Nat] /\ Cost \in [Candidates -> Int]
  /\ MaxPolicies \in Nat

VARIABLES
  policies,  \* routing_policies, oldest first
  traffic    \* request_logs of the last day: latency and share of errors

\* A policy's scope_id is this model, another model or a workspace, or empty
\* for the global scope.
PolicyScopes == {"model", "othermodel", "workspace", "global"}
Strategies == {"priority", "cost", "latency", "balanced"}

PolicyRows == [scope : PolicyScopes, strategy : Strategies, enabled : BOOLEAN,
               latency : Nat, cost : Nat, errors : Nat]

\* What nobody measured has no latency.
NoTraffic == [latency |-> 0, errors |-> 0]

\* The row UpsertRoutingPolicy inserts: a weight of zero is a default.
PolicyRow(input) ==
  LET weight(w, default) == IF w = 0 THEN default ELSE w
  IN  [input EXCEPT !.latency = weight(@, 4), !.cost = weight(@, 3), !.errors = weight(@, 3)]

CreatePolicy(input) ==
  /\ Len(policies) < MaxPolicies
  /\ policies' = Append(policies, PolicyRow(input))

\* What GetActiveRoutingPolicy selects from: sortCandidates gives it no
\* workspace, so that the policies of workspaces are never selected.
Applicable(table) ==
  {i \in DOMAIN table : table[i].enabled /\ table[i].scope \in {"model", "global"}}

Outranks(table, i, j) ==
  IF table[i].scope = table[j].scope THEN i > j ELSE table[i].scope = "model"

\* GetActiveRoutingPolicy: one policy, or none.
Governing(table) ==
  {i \in Applicable(table) : \A j \in Applicable(table) \ {i} : Outranks(table, i, j)}

\* The strategy sortCandidates orders by.
ByPriority == [strategy |-> "priority", latency |-> 0, cost |-> 0, errors |-> 0]

InForce(table) ==
  IF Governing(table) = {} THEN ByPriority
  ELSE LET row == table[CHOOSE i \in Governing(table) : TRUE]
       IN  [strategy |-> row.strategy, latency |-> row.latency, cost |-> row.cost,
            errors |-> row.errors]

\* The score of a provider, in tenths; measured is what
\* GetProviderRoutingStats returns, errors are per thousand.
Score(policy, measured, p) ==
  LET latency == IF measured[p].latency <= 0 THEN 1000 + Priority[p] * 100
                 ELSE measured[p].latency
      cost == IF Cost[p] <= 0 THEN 1 ELSE Cost[p]
  IN  CASE policy.strategy = "cost" -> 10 * (cost * 1000 + Priority[p])
        [] policy.strategy = "latency" -> 10 * (latency + Priority[p])
        [] policy.strategy = "balanced" ->
             latency * policy.latency + cost * 1000 * policy.cost
               + measured[p].errors * policy.errors + 10 * Priority[p]
        [] OTHER -> 10 * Priority[p]

\* What the comparison of the sort allows: p may come before d.
MayPrecede(policy, measured, p, d) ==
  LET sp == Score(policy, measured, p)
      sd == Score(policy, measured, d)
  IN  sp < sd \/ (sp = sd /\ Priority[p] <= Priority[d])

IsSorted(order, policy, measured) ==
  \A i, j \in DOMAIN order : i < j => MayPrecede(policy, measured, order[i], order[j])

\* The orders of a set of providers: ties keep the order of the query, which
\* leaves it open.
Sortings(S, policy, measured) ==
  {order \in [1..Cardinality(S) -> S] :
     /\ \A i, j \in 1..Cardinality(S) : i # j => order[i] # order[j]
     /\ IsSorted(order, policy, measured)}

=============================================================================
