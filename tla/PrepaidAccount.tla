--------------------------- MODULE PrepaidAccount ---------------------------
(***************************************************************************)
(* What the gateway promises about prepaid balances, with none of the      *)
(* steps it takes to keep the promise: each request id is charged at most  *)
(* once, a charge is covered by the balance when it is taken, a grant is   *)
(* credited at most once, and nothing else moves a balance.                *)
(***************************************************************************)
EXTENDS Integers

CONSTANTS
  Users,
  RequestIds,   \* the ids under which requests are billed
  Grants,       \* the credits given at registration or by an administrator
  Owner,        \* the user a grant is for
  Amount,       \* the value of a grant
  Opening       \* each user's balance at the start

VARIABLES
  bal,          \* each user's balance
  charged,      \* what each request id was charged, 0 before that
  credited      \* the grants already credited

accountVars == <<bal, charged, credited>>

Init ==
  /\ bal = Opening
  /\ charged = [r \in RequestIds |-> 0]
  /\ credited = {}

\* A covered, first charge of request id r.
Charge(r) ==
  /\ charged[r] = 0
  /\ \E u \in Users : \E a \in 1..bal[u] :
       /\ bal' = [bal EXCEPT ![u] = @ - a]
       /\ charged' = [charged EXCEPT ![r] = a]
  /\ UNCHANGED credited

\* The first and only credit of grant g.
Credit(g) ==
  /\ g \notin credited
  /\ bal' = [bal EXCEPT ![Owner[g]] = @ + Amount[g]]
  /\ credited' = credited \cup {g}
  /\ UNCHANGED charged

Next == (\E r \in RequestIds : Charge(r)) \/ (\E g \in Grants : Credit(g))

Spec == Init /\ [][Next]_accountVars
=============================================================================
