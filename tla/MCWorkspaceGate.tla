-------------------------- MODULE MCWorkspaceGate --------------------------
(***************************************************************************)
(* Instances of WorkspaceGate for TLC.                                     *)
(***************************************************************************)
EXTENDS WorkspaceGate, TLC

CONSTANTS c1, c2, k1, a1, m1

TheKey == [c \in Calls |-> k1]
TheModel == [c \in Calls |-> m1]
Contents == [c \in Calls |-> {"pii", "injection"}]
Delegate == [role |-> "member",
             grants |-> {"workspace_budgets:write", "workspace_quotas:write"}]

\* The key moves to the workspace; what the body leaves out is kept.
Move == [active |-> {}, models |-> {}, bound |-> TRUE, expires |-> FALSE]

Monthly == [period |-> "", amount |-> 1, pct |-> 0, active |-> TRUE]
\* ... and the one that takes every monthly budget out of force.
Negative == [period |-> "monthly", amount |-> 1, pct |-> -100, active |-> TRUE]
PerMinute == [type |-> "requests_per_minute", limit |-> 1, active |-> TRUE]

MaskAndBlock == [pii |-> "mask", injection |-> "block"]

MCUpdates == {Move}
MCBudgets == {Monthly, Negative}
MCQuotas == {PerMinute}
MCPolicies == {MaskAndBlock}
MCPolicyBodies == {[scope |-> "workspace", actions |-> [pii |-> "", injection |-> ""]]}
=============================================================================
