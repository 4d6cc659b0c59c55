----------------------------- MODULE Guardrails -----------------------------
(***************************************************************************)
(* The guardrail policies and what they decide on a chat request.          *)
(*                                                                         *)
(* Policies are only inserted.  In force is the newest enabled policy of   *)
(* the workspace, or else the newest enabled global one: a policy created  *)
(* disabled changes nothing, so the table is kept as the newest enabled    *)
(* policy of either scope.  Of a request only the kinds of finding its     *)
(* texts contain matter.                                                   *)
(***************************************************************************)
CONSTANTS
  Policies,      \* the enabled policies administrators create
  PolicyBodies,  \* the bodies of POST /api/admin/guardrails/policies
  NoPolicy       \* no policy is in force

Scopes == {"workspace", "global"}
FindingKinds == {"pii", "injection"}
GuardrailActions == {"allow", "mask", "block"}

\* What adminCreateGuardrailPolicy fills in.
PolicyRow(b) ==
  [f \in FindingKinds |-> IF b.actions[f] # "" THEN b.actions[f]
                          ELSE IF f = "pii" THEN "mask" ELSE "block"]

ASSUME GuardrailConstants ==
  /\ Policies \subseteq [FindingKinds -> GuardrailActions]
  /\ PolicyBodies \subseteq [scope : Scopes \cup {""},
                              actions : [FindingKinds -> GuardrailActions \cup {""}]]
  /\ \A b \in PolicyBodies : PolicyRow(b) \in Policies
  /\ NoPolicy \notin Policies

VARIABLE policies   \* guardrail_policies: the newest enabled of each scope

GuardrailTypeOK == policies \in [Scopes -> Policies \cup {NoPolicy}]

GuardrailInit == policies = [s \in Scopes |-> NoPolicy]

\* CreateGuardrailPolicy, for a body without a scope the global one.
CreatePolicy(b) ==
  policies' = [policies EXCEPT ![IF b.scope = "" THEN "global" ELSE b.scope] = PolicyRow(b)]

\* GetActiveGuardrailPolicy for a call of the workspace, or of none.
InForce(ofWorkspace) ==
  IF ofWorkspace /\ policies["workspace"] # NoPolicy
    THEN policies["workspace"] ELSE policies["global"]

\* detectGuardrailFindings: a kind that the policy allows is no finding.
Findings(p, content) == {f \in content : p[f] # "allow"}

\* Mutant: the first finding decides.
DecisionOfTheFirst(p, content) ==
  IF "pii" \in Findings(p, content) THEN p["pii"]
  ELSE IF Findings(p, content) # {} THEN p["injection"] ELSE "allow"

\* What applyGuardrails decides: block outweighs mask, mask outweighs allow.
Decision(p, content) ==
  LET actions == {p[f] : f \in Findings(p, content)}
  IN IF "block" \in actions THEN "block"
     ELSE IF "mask" \in actions THEN "mask" ELSE "allow"

\* maskChatRequest, run at once when the decision is to mask.
TextAfter(decision) == IF decision = "mask" THEN "masked" ELSE "raw"
=============================================================================
