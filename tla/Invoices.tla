------------------------------ MODULE Invoices ------------------------------
(***************************************************************************)
(* Invoices of one organization, and the billing transactions they add up. *)
(*                                                                         *)
(* A transaction takes its created_at when it begins and can be read when  *)
(* it commits, perhaps days later than the day it bears.  Amounts are      *)
(* integers: charges are negative, credit is positive.  Tax, due date,     *)
(* number and notes of an invoice depend on nothing but the request and    *)
(* are left out.                                                           *)
(***************************************************************************)
EXTENDS Totals, Sequences

CONSTANTS
  Workspaces,
  WholeOrg,         \* the scope of an invoice without a workspace
  Amounts,          \* amounts of billing transactions
  Statuses,         \* statuses that invoices are given
  Periods,          \* first and last day that an invoice may be asked for
  MaxTransactions,  \* bound: billing transactions
  MaxDay            \* bound: days

Scopes == Workspaces \cup {WholeOrg}
Days == 1..MaxDay

ASSUME InvoiceConstants ==
  /\ WholeOrg \notin Workspaces
  /\ Statuses \subseteq {"draft", "issued", "paid", "void"}
  /\ Amounts \subseteq Int \ {0} /\ MaxTransactions \in Nat /\ MaxDay \in Nat \ {0}
  /\ \A p \in Periods : p[1] \in Days /\ p[2] \in Days /\ p[1] <= p[2]

VARIABLES
  today,
  transactions,  \* billing_transactions: workspace, amount, created_at
  committed,     \* those of them that a query sees
  invoices

ledgerVars == <<transactions, committed>>

TransactionRows == [workspace : Workspaces, amount : Amounts, day : Nat]
InvoiceRows == [scope : Scopes, period : Periods, status : Statuses, subtotal : Nat, least : Nat]

TransactionBegins(w, amount) ==
  /\ Len(transactions) < MaxTransactions
  /\ transactions' = Append(transactions, [workspace |-> w, amount |-> amount, day |-> today])
  /\ UNCHANGED committed

TransactionCommits(t) ==
  /\ t \in DOMAIN transactions \ committed
  /\ committed' = committed \cup {t}
  /\ UNCHANGED transactions

InScope(scope, t) == scope = WholeOrg \/ scope = transactions[t].workspace

\* Mutated form: the first instant after the period is part of it.
SelectedInclusive(scope, period) ==
  {t \in committed : /\ InScope(scope, t)
                     /\ transactions[t].amount < 0
                     /\ transactions[t].day >= period[1]
                     /\ transactions[t].day <= period[2] + 1}

\* The rows CreateInvoice adds up: from the first day on, and before the day
\* after the last.
Selected(scope, period) ==
  {t \in committed : /\ InScope(scope, t)
                     /\ transactions[t].amount < 0
                     /\ transactions[t].day >= period[1]
                     /\ transactions[t].day < period[2] + 1}

Charged(T) == TotalOver(T, [t \in T |-> -transactions[t].amount])

\* The INSERT; no invoice that is there is looked at.
InsertInvoice(row) == invoices' = Append(invoices, row)

\* UpdateInvoiceStatus: from any status to any.
SetStatus(i, status) == invoices' = [invoices EXCEPT ![i].status = status]

=============================================================================
