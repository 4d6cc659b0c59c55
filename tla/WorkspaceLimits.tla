-------------------------- MODULE WorkspaceLimits --------------------------
(***************************************************************************)
(* The budgets and quotas of one workspace and what they are compared      *)
(* with.                                                                   *)
(*                                                                         *)
(* Budgets and quotas are only ever inserted: UpsertWorkspaceBudget has no *)
(* ON CONFLICT, and no handler updates or deletes a row.  A new row makes  *)
(* the limits tighter, except that nobody validates hard_limit_pct, and    *)
(* one active monthly budget with a negative percentage makes the check    *)
(* pass over all of them from then on.  Usage is what calls have left in   *)
(* usage_logs this month, and in request_logs in the last minute.          *)
(*                                                                         *)
(* A settled call costs one unit of the currency and TokensPerCall tokens. *)
(***************************************************************************)
EXTENDS Integers, FiniteSets, WorkspaceRoles

CONSTANTS
  Budgets,        \* the bodies of POST .../budgets
  Quotas,         \* the bodies of POST .../quotas
  TokensPerCall,
  MaxLogged       \* bound: more requests in the last minute than this are
                  \* not told apart

QuotaTypes == {"requests_per_minute", "tokens_per_minute", "tokens_per_month",
               "spend_per_month"}
Periods == {"daily", "weekly", "monthly"}

ASSUME LimitConstants ==
  /\ Budgets \subseteq [period : Periods \cup {""}, amount : Nat, pct : Int, active : BOOLEAN]
  /\ Quotas \subseteq [type : QuotaTypes, limit : Nat, active : BOOLEAN]
  /\ TokensPerCall \in Nat \ {0}
  /\ MaxLogged \in Nat
  /\ \A q \in Quotas : q.limit <= MaxLogged \/ q.type # "requests_per_minute"

VARIABLES
  budgets,  \* workspace_budgets of the workspace
  quotas,   \* workspace_quotas of the workspace
  settled,  \* rows of usage_logs of the workspace this month
  logged    \* rows of request_logs of the workspace in the last minute

limitVars == <<budgets, quotas, settled, logged>>

BudgetRows == [period : Periods, amount : Nat \ {0}, pct : Int \ {0}, active : BOOLEAN]

LimitTypeOK ==
  /\ budgets \subseteq BudgetRows
  /\ quotas \subseteq Quotas
  /\ settled \in Nat
  /\ logged \in 0..MaxLogged

LimitInit == budgets = {} /\ quotas = {} /\ settled = 0 /\ logged = 0

-----------------------------------------------------------------------------
(* What CheckWorkspaceLimits reads. *)

Spent == settled
Tokens == settled * TokensPerCall

Enforced == {b \in budgets : b.active /\ b.period = "monthly"}

\* A spend that the budgets bar: the least amount * hard_limit_pct / 100 of
\* them is not negative, which stands for no limit, and the spend is at or
\* above it.
OverBudget(spend) ==
  /\ \A b \in Enforced : b.amount * b.pct >= 0
  /\ \E b \in Enforced : 100 * spend >= b.amount * b.pct

\* The rows the third statement returns.
ActiveQuotas == {q \in quotas : q.active}

\* The types that are compared with something; another type is passed over.
Compared(q) == q.type # "tokens_per_minute"

Current(q) == CASE q.type = "requests_per_minute" -> logged
                [] q.type = "tokens_per_month" -> Tokens
                [] q.type = "spend_per_month" -> Spent

OverQuota(q) == Current(q) >= q.limit

-----------------------------------------------------------------------------
(* createWorkspaceBudget and createWorkspaceQuota: one INSERT each. *)

\* UpsertWorkspaceBudget: the row of a body that leaves out period or limit.
BudgetRow(b) ==
  [b EXCEPT !.period = IF @ = "" THEN "monthly" ELSE @,
            !.pct = IF @ = 0 THEN 100 ELSE @]

CreateBudget(b, member) ==
  /\ b.amount > 0
  /\ MemberHasPermission(member, "workspace_budgets:write")
  /\ budgets' = budgets \cup {BudgetRow(b)}
  /\ UNCHANGED <<quotas, settled, logged>>

UpsertWorkspaceQuota(q) ==
  /\ quotas' = quotas \cup {q}
  /\ UNCHANGED <<budgets, settled, logged>>

CreateQuota(q, member) ==
  /\ q.limit > 0
  /\ MemberHasPermission(member, "workspace_quotas:write")
  /\ UpsertWorkspaceQuota(q)

-----------------------------------------------------------------------------
(* What calls leave behind, and time. *)

RecordUsage ==
  /\ settled' = settled + 1
  /\ UNCHANGED <<budgets, quotas, logged>>

RecordRequestLog ==
  /\ logged' = IF logged < MaxLogged THEN logged + 1 ELSE logged
  /\ UNCHANGED <<budgets, quotas, settled>>

\* date_trunc('month', now()) moves on.
MonthBegins ==
  /\ settled' = 0
  /\ UNCHANGED <<budgets, quotas, logged>>

\* The oldest row of request_logs is older than a minute.
LogAges ==
  /\ logged > 0
  /\ logged' = logged - 1
  /\ UNCHANGED <<budgets, quotas, settled>>
=============================================================================
