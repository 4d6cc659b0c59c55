---------------------------- MODULE UsageBilling ----------------------------
(***************************************************************************)
(* Billing of requests and granting of credit.                             *)
(*                                                                         *)
(* Each call of a billed endpoint (chat, streamed chat, and the media      *)
(* endpoints: embeddings, speech, transcription) runs its handler in its   *)
(* own goroutine; each grant runs userRegister or adminTopUpBalance.  They *)
(* share three tables of one database: users.balance_usd, usage_logs and   *)
(* billing_transactions.  A statement is one atomic step; nothing spans    *)
(* statements except the transaction that inserts a ledger row.  Any       *)
(* statement may fail, may succeed although the caller is told it failed,  *)
(* and the process may die between any two.                                *)
(*                                                                         *)
(* Amounts are whole units of the currency.  What a call costs is decided  *)
(* by its tokens and the price row of the moment: here, any element of     *)
(* Charges.                                                                *)
(***************************************************************************)
EXTENDS Totals, Sequences

CONSTANTS
  Users,
  Calls,          \* calls of billed endpoints
  Grants,         \* registrations and administrators' top-ups
  RequestIds,     \* values of X-Request-ID
  RequestIdOf,    \* a call's request id: the client's header when it sends one
  OwnerOf,        \* the user a call or a grant is for
  KindOf,         \* what a call or a grant is
  GrantAmount,
  Charges,        \* what a call can cost
  NumRoutes,      \* providers that serve the model, in routing order
  Opening,        \* balances at the start
  NoUsage,        \* no usage_logs row
  DBFaults,       \* may a statement fail, or its answer be lost?
  Crashes         \* may the process die?

Ops == Calls \cup Grants
CallKinds == {"chat", "stream", "media"}
GrantKinds == {"register", "topup"}

ASSUME BillingConstants ==
  /\ IsFiniteSet(Calls) /\ IsFiniteSet(Grants) /\ Calls \cap Grants = {}
  /\ RequestIdOf \in [Calls -> RequestIds]
  /\ OwnerOf \in [Ops -> Users]
  /\ KindOf \in [Ops -> CallKinds \cup GrantKinds]
  /\ \A o \in Ops : KindOf[o] \in CallKinds <=> o \in Calls
  /\ GrantAmount \in [Grants -> Nat]
  /\ Charges \subseteq Nat
  /\ NumRoutes \in Nat
  /\ Opening \in [Users -> Nat]
  /\ NoUsage \notin [call : Calls, charged : Nat]
  /\ DBFaults \in BOOLEAN /\ Crashes \in BOOLEAN

VARIABLES
  pc,        \* where each operation's handler is
  attempt,   \* the index of the provider a call is trying
  charge,    \* what a call costs, once calculated
  status,    \* the HTTP status sent, 0 before that
  balance,   \* users.balance_usd
  usage,     \* usage_logs, keyed by its UNIQUE column request_id
  ledger,    \* billing_transactions, in commit order
  snapshot,  \* the balance read by an operation's open ledger transaction
  applied    \* history: the operations whose UPDATE of the balance took effect

handlerVars == <<pc, attempt, charge, status>>
dbVars == <<balance, usage, ledger>>
vars == <<handlerVars, dbVars, snapshot, applied>>

InFlight == {"calling", "relaying", "pricing", "usage", "deduct",
             "insert", "commit", "logging"}
Ended == {"done", "stuck", "lost"}
Labels == {"idle"} \cup InFlight \cup Ended
StatusCodes == {0, 200, 201, 400, 402, 404, 429, 500, 502}
UsageRows == [call : Calls, charged : Nat]
LedgerRows == [op : Ops, user : Users, amount : Int, balanceAfter : Int]

Init ==
  /\ pc = [o \in Ops |-> "idle"]
  /\ attempt = [c \in Calls |-> 1]
  /\ charge = [c \in Calls |-> 0]
  /\ status = [o \in Ops |-> 0]
  /\ balance = Opening
  /\ usage = [r \in RequestIds |-> NoUsage]
  /\ ledger = <<>>
  /\ snapshot = [o \in Ops |-> 0]
  /\ applied = {}

-----------------------------------------------------------------------------
(* Shared steps of the handlers. *)

Goto(o, label) == pc' = [pc EXCEPT ![o] = label]

\* The handler returns with an HTTP status and leaves the database alone.
Answer(o, code) ==
  /\ Goto(o, "done")
  /\ status' = [status EXCEPT ![o] = code]
  /\ UNCHANGED <<attempt, charge, dbVars, snapshot, applied>>

\* The statement that moves o's balance takes effect.
MoveBalance(o, amount) ==
  /\ balance' = [balance EXCEPT ![OwnerOf[o]] = @ + amount]
  /\ applied' = applied \cup {o}
  /\ UNCHANGED <<attempt, charge, usage, ledger, snapshot>>

-----------------------------------------------------------------------------
(* Admission and the providers. *)

IsChat(c) == KindOf[c] \in {"chat", "stream"}

\* The body does not parse, a field is missing or a guardrail blocks it.
RefuseInvalid(c) ==
  /\ pc[c] = "idle"
  /\ Answer(c, 400)

\* The inline pre-check passes, or fails open because the read failed.  The
\* media handlers have no pre-check.
Admit(c) ==
  /\ pc[c] = "idle"
  /\ \/ ~IsChat(c)
     \/ balance[OwnerOf[c]] > 0
     \/ DBFaults
  /\ Goto(c, "calling")
  /\ UNCHANGED <<attempt, charge, status, dbVars, snapshot, applied>>

\* The pre-check finds a balance of zero or less.
RefuseInsufficient(c) ==
  /\ pc[c] = "idle" /\ IsChat(c) /\ balance[OwnerOf[c]] <= 0
  /\ Answer(c, 402)

\* The API key's token limit: a stream is stopped on an estimate before the
\* balance is looked at, the other calls on the real count when the provider
\* has already answered.
RefuseTokenLimit(c) ==
  /\ pc[c] = IF KindOf[c] = "stream" THEN "idle" ELSE "pricing"
  /\ Answer(c, 429)

\* Routing finds no provider.
RefuseNoRoute(c) ==
  /\ pc[c] = "calling" /\ attempt[c] = 1
  /\ Answer(c, 404)

\* A provider fails and the next one in routing order is tried.
ProviderFails(c) ==
  /\ pc[c] = "calling" /\ attempt[c] < NumRoutes
  /\ attempt' = [attempt EXCEPT ![c] = @ + 1]
  /\ UNCHANGED <<pc, charge, status, dbVars, snapshot, applied>>

\* Mutated form: when the last provider fails the loop starts over.
AllProvidersFailStartOver(c) ==
  /\ pc[c] = "calling" /\ attempt[c] = NumRoutes
  /\ attempt' = [attempt EXCEPT ![c] = 1]
  /\ UNCHANGED <<pc, charge, status, dbVars, snapshot, applied>>

\* The last provider fails.
AllProvidersFail(c) ==
  /\ pc[c] = "calling" /\ attempt[c] = NumRoutes
  /\ Answer(c, 502)

\* Mutated form: the usage row is written before the token limit is checked.
ProviderAnswersAndIsMetered(c) ==
  /\ pc[c] = "calling" /\ NumRoutes > 0
  /\ IF KindOf[c] = "stream"
       THEN Goto(c, "relaying") /\ status' = [status EXCEPT ![c] = 200]
       ELSE Goto(c, "pricing") /\ UNCHANGED status
  /\ usage' = [usage EXCEPT ![RequestIdOf[c]] = [call |-> c, charged |-> 0]]
  /\ UNCHANGED <<attempt, charge, balance, ledger, snapshot, applied>>

\* A provider answers; a stream starts with its status line.
ProviderAnswers(c) ==
  /\ pc[c] = "calling" /\ NumRoutes > 0
  /\ IF KindOf[c] = "stream"
       THEN Goto(c, "relaying") /\ status' = [status EXCEPT ![c] = 200]
       ELSE Goto(c, "pricing") /\ UNCHANGED status
  /\ UNCHANGED <<attempt, charge, dbVars, snapshot, applied>>

\* The wrapper goroutine of a stream has forwarded the last chunk.
StreamEnds(c) ==
  /\ pc[c] = "relaying"
  /\ Goto(c, "pricing")
  /\ UNCHANGED <<attempt, charge, status, dbVars, snapshot, applied>>

\* The client goes away in mid-stream; the goroutine waits for a reader of
\* its channel that no longer exists (StreamRelay has the details).
ClientLeaves(c) ==
  /\ pc[c] = "relaying"
  /\ Goto(c, "stuck")
  /\ UNCHANGED <<attempt, charge, status, dbVars, snapshot, applied>>

\* calculateCost: tokens at the price, and the markup, of this moment.
CalculateCost(c) ==
  /\ pc[c] = "pricing"
  /\ \E a \in Charges : charge' = [charge EXCEPT ![c] = a]
  /\ Goto(c, "usage")
  /\ UNCHANGED <<attempt, status, dbVars, snapshot, applied>>

-----------------------------------------------------------------------------
(* recordUsageAndBilling: usage row, deduction, ledger row. *)

InsertUsage(c) ==
  usage' = [usage EXCEPT ![RequestIdOf[c]] = [call |-> c, charged |-> charge[c]]]

\* The INSERT into usage_logs; a call that costs nothing stops there.
RecordUsage(c) ==
  /\ pc[c] = "usage" /\ usage[RequestIdOf[c]] = NoUsage
  /\ InsertUsage(c)
  /\ Goto(c, IF charge[c] > 0 THEN "deduct" ELSE "logging")
  /\ UNCHANGED <<attempt, charge, status, balance, ledger, snapshot, applied>>

\* Mutated form: a call whose usage row is refused is charged all the same.
RecordUsageFailsButCharges(c) ==
  /\ pc[c] = "usage"
  /\ DBFaults \/ usage[RequestIdOf[c]] # NoUsage
  /\ Goto(c, IF charge[c] > 0 THEN "deduct" ELSE "logging")
  /\ UNCHANGED <<attempt, charge, status, dbVars, snapshot, applied>>

\* The INSERT fails, always so when the request id has a row already: the
\* call is not charged.
RecordUsageFails(c) ==
  /\ pc[c] = "usage"
  /\ DBFaults \/ usage[RequestIdOf[c]] # NoUsage
  /\ Goto(c, "logging")
  /\ UNCHANGED <<attempt, charge, status, dbVars, snapshot, applied>>

\* The row is there, but the handler sees an error.
RecordUsageUnacked(c) ==
  /\ DBFaults
  /\ pc[c] = "usage" /\ usage[RequestIdOf[c]] = NoUsage
  /\ InsertUsage(c)
  /\ Goto(c, "logging")
  /\ UNCHANGED <<attempt, charge, status, balance, ledger, snapshot, applied>>

\* Mutated form: UPDATE users SET balance_usd = balance_usd - amount, without
\* the condition on the balance.
DeductUncovered(c) ==
  /\ pc[c] = "deduct"
  /\ MoveBalance(c, -charge[c])
  /\ Goto(c, "insert") /\ UNCHANGED status

\* Mutated form: the new balance is computed from the one the settlement of
\* another operation left, as a read followed by a write would.
DeductFromStaleRead(c) ==
  /\ pc[c] = "deduct" /\ balance[OwnerOf[c]] >= charge[c]
  /\ balance' = [balance EXCEPT ![OwnerOf[c]] = Opening[OwnerOf[c]] - charge[c]]
  /\ applied' = applied \cup {c}
  /\ UNCHANGED <<attempt, charge, usage, ledger, snapshot, status>>
  /\ Goto(c, "insert")

\* The conditional UPDATE of the balance finds enough.
DeductBalance(c) ==
  /\ pc[c] = "deduct" /\ balance[OwnerOf[c]] >= charge[c]
  /\ MoveBalance(c, -charge[c])
  /\ Goto(c, "insert") /\ UNCHANGED status

\* Mutated form: the ledger row is written although the UPDATE matched no row.
DeductRefusedButLedgered(c) ==
  /\ pc[c] = "deduct"
  /\ DBFaults \/ balance[OwnerOf[c]] < charge[c]
  /\ Goto(c, "insert")
  /\ UNCHANGED <<attempt, charge, status, dbVars, snapshot, applied>>

\* The UPDATE matches no row, because the balance is short, or fails: no
\* ledger row.
DeductRefused(c) ==
  /\ pc[c] = "deduct"
  /\ DBFaults \/ balance[OwnerOf[c]] < charge[c]
  /\ Goto(c, "logging")
  /\ UNCHANGED <<attempt, charge, status, dbVars, snapshot, applied>>

\* The balance moves, but the handler sees an error: no ledger row.
DeductUnacked(c) ==
  /\ DBFaults
  /\ pc[c] = "deduct" /\ balance[OwnerOf[c]] >= charge[c]
  /\ MoveBalance(c, -charge[c])
  /\ Goto(c, "logging") /\ UNCHANGED status

\* The call is logged and answered; a stream got its status line earlier.
Respond(c) ==
  /\ pc[c] = "logging"
  /\ Answer(c, 200)

-----------------------------------------------------------------------------
(* Grants: userRegister answers 201 whatever becomes of the credit,         *)
(* adminTopUpBalance answers 500 when one of its two statements fails.      *)

AfterGrant(g, ok) ==
  IF KindOf[g] = "register" THEN 201 ELSE IF ok THEN 200 ELSE 500

\* The unconditional UPDATE that adds the credit.
AddBalance(g) ==
  /\ pc[g] = "idle"
  /\ MoveBalance(g, GrantAmount[g])
  /\ Goto(g, "insert") /\ UNCHANGED status

\* The UPDATE fails: no ledger row.
AddBalanceFails(g) ==
  /\ DBFaults /\ pc[g] = "idle"
  /\ Answer(g, AfterGrant(g, FALSE))

\* The credit is there, but the handler sees an error.
AddBalanceUnacked(g) ==
  /\ DBFaults /\ pc[g] = "idle"
  /\ MoveBalance(g, GrantAmount[g])
  /\ Goto(g, "done")
  /\ status' = [status EXCEPT ![g] = AfterGrant(g, FALSE)]

-----------------------------------------------------------------------------
(* The ledger transaction, shared by calls and grants: INSERT the row, read *)
(* the balance, write it into the row, COMMIT.                              *)

AmountOf(o) == IF o \in Calls THEN -charge[o] ELSE GrantAmount[o]

Row(o) == [op |-> o, user |-> OwnerOf[o], amount |-> AmountOf(o),
           balanceAfter |-> snapshot[o]]

\* The row is inserted, unseen by others, and the balance is read.
LedgerInsert(o) ==
  /\ pc[o] = "insert"
  /\ snapshot' = [snapshot EXCEPT ![o] = balance[OwnerOf[o]]]
  /\ Goto(o, "commit")
  /\ UNCHANGED <<attempt, charge, status, dbVars, applied>>

\* Mutated form: the deferred Rollback runs without a COMMIT before it.
LedgerNeverCommitted(o) ==
  /\ pc[o] = "commit"
  /\ IF o \in Calls
       THEN Goto(o, "logging") /\ UNCHANGED status
       ELSE Goto(o, "done") /\ status' = [status EXCEPT ![o] = AfterGrant(o, TRUE)]
  /\ UNCHANGED <<attempt, charge, dbVars, snapshot, applied>>

\* COMMIT: the row becomes visible.
LedgerCommit(o) ==
  /\ pc[o] = "commit"
  /\ ledger' = Append(ledger, Row(o))
  /\ IF o \in Calls
       THEN Goto(o, "logging") /\ UNCHANGED status
       ELSE Goto(o, "done") /\ status' = [status EXCEPT ![o] = AfterGrant(o, TRUE)]
  /\ UNCHANGED <<attempt, charge, balance, usage, snapshot, applied>>

\* A statement of the transaction fails and it is rolled back, or only the
\* answer to COMMIT is lost.  The balance stays moved.
LedgerFails(o) ==
  /\ DBFaults
  /\ \/ pc[o] \in {"insert", "commit"} /\ UNCHANGED ledger
     \/ pc[o] = "commit" /\ ledger' = Append(ledger, Row(o))
  /\ IF o \in Calls
       THEN Goto(o, "logging") /\ UNCHANGED status
       ELSE Goto(o, "done") /\ status' = [status EXCEPT ![o] = AfterGrant(o, FALSE)]
  /\ UNCHANGED <<attempt, charge, balance, usage, snapshot, applied>>

-----------------------------------------------------------------------------
\* The process dies with whatever its handlers were doing; the database rolls
\* open transactions back and keeps the rest.
Crash ==
  /\ Crashes
  /\ \E o \in Ops : pc[o] \in InFlight
  /\ pc' = [o \in Ops |-> IF pc[o] \in InFlight THEN "lost" ELSE pc[o]]
  /\ UNCHANGED <<attempt, charge, status, dbVars, snapshot, applied>>

Stopped ==
  /\ \A o \in Ops : pc[o] \in Ended
  /\ UNCHANGED vars

CallStep(c) ==
  \/ RefuseInvalid(c) \/ Admit(c) \/ RefuseInsufficient(c)
  \/ RefuseTokenLimit(c) \/ RefuseNoRoute(c)
  \/ ProviderFails(c) \/ AllProvidersFail(c) \/ ProviderAnswers(c)
  \/ StreamEnds(c) \/ ClientLeaves(c) \/ CalculateCost(c)
  \/ RecordUsage(c) \/ RecordUsageFails(c) \/ RecordUsageUnacked(c)
  \/ DeductBalance(c) \/ DeductRefused(c) \/ DeductUnacked(c)
  \/ Respond(c)

GrantStep(g) == AddBalance(g) \/ AddBalanceFails(g) \/ AddBalanceUnacked(g)

LedgerStep(o) == LedgerInsert(o) \/ LedgerCommit(o) \/ LedgerFails(o)

Next ==
  \/ \E c \in Calls : CallStep(c)
  \/ \E g \in Grants : GrantStep(g)
  \/ \E o \in Ops : LedgerStep(o)
  \/ Crash
  \/ Stopped

Spec == Init /\ [][Next]_vars

\* A handler that has started runs on: goroutines are scheduled, and every
\* call out of one returns (statements and providers answer or fail).
Continue(o) ==
  pc[o] # "idle" /\ (LedgerStep(o) \/ (o \in Calls /\ CallStep(o)))

FairSpec == Spec /\ \A o \in Ops : WF_vars(Continue(o))

-----------------------------------------------------------------------------
(* Properties. *)

TypeOK ==
  /\ pc \in [Ops -> Labels]
  /\ attempt \in [Calls -> Nat]
  /\ charge \in [Calls -> Nat]
  /\ status \in [Ops -> StatusCodes]
  /\ balance \in [Users -> Int]
  /\ usage \in [RequestIds -> UsageRows \cup {NoUsage}]
  /\ ledger \in Seq(LedgerRows)
  /\ snapshot \in [Ops -> Int]
  /\ applied \subseteq Ops

\* No interleaving of settlements, grants, faults and crashes overdraws a
\* prepaid balance (DeductBalance is the only check that counts: the
\* pre-check is stale by the time the call is priced).
NeverOverdrawn == \A u \in Users : balance[u] >= 0

ChargedTo(u) == {c \in applied \cap Calls : OwnerOf[c] = u}
CreditedTo(u) == {g \in applied \cap Grants : OwnerOf[g] = u}

\* A balance is the opening balance, plus the grants credited to the user,
\* minus the charges taken from the user: concurrent updates lose nothing,
\* and a failed, unacknowledged or crashed operation moves its amount once
\* or not at all.
BalanceConserved ==
  \A u \in Users :
    balance[u] + TotalOver(ChargedTo(u), charge)
      = Opening[u] + TotalOver(CreditedTo(u), GrantAmount)

\* Two calls that carry the same request id, as a client's retry does, are
\* charged at most once between them, and what was taken is what the usage
\* row of that id says.
ChargedOncePerRequestId ==
  \A c \in applied \cap Calls :
    /\ usage[RequestIdOf[c]] = [call |-> c, charged |-> charge[c]]
    /\ \A d \in applied \cap Calls : RequestIdOf[c] = RequestIdOf[d] => c = d

\* A ledger row stands for one movement of the balance that took place, with
\* its sign and its amount, and no movement has two rows.
LedgerTellsTheTruth ==
  /\ \A i \in DOMAIN ledger :
       LET row == ledger[i] IN
         /\ row.op \in applied
         /\ row.user = OwnerOf[row.op]
         /\ row.amount = AmountOf(row.op)
  /\ \A i, j \in DOMAIN ledger : ledger[i].op = ledger[j].op => i = j

LedgeredOps == {ledger[i].op : i \in DOMAIN ledger}

\* Without faults and crashes a movement of the balance is never left without
\* a row: its operation is still on its way to the ledger or has its row.
NoMovementForgotten ==
  (~DBFaults /\ ~Crashes) =>
    \A o \in applied : pc[o] \in {"insert", "commit"} \/ o \in LedgeredOps

\* A call answered with an error, whatever happened on the way to it, has
\* been neither metered nor charged.
ErrorsAreFree ==
  \A c \in Calls :
    status[c] \in {400, 402, 404, 429, 502} =>
      /\ c \notin applied
      /\ \A r \in RequestIds : usage[r] # NoUsage => usage[r].call # c

\* What each request id has been charged, as its usage row tells it.
ChargeOf ==
  [r \in RequestIds |->
     IF \E c \in applied \cap Calls : RequestIdOf[c] = r THEN usage[r].charged ELSE 0]

\* The promise about prepaid accounts, for the amounts the usage rows hold.
Account == INSTANCE PrepaidAccount WITH
  Owner <- OwnerOf,
  Amount <- GrantAmount,
  bal <- balance,
  charged <- ChargeOf,
  credited <- applied \cap Grants

\* The handlers implement it: each of their steps charges one request id
\* once and covered, credits one grant once, or leaves the account alone.
ImplementsAccount == Account!Spec

\* A handler that has started comes to an end: the fallback loop tries each
\* provider once, and no settlement waits for another.
HandlersEnd == \A o \in Ops : pc[o] # "idle" ~> pc[o] \in Ended
=============================================================================
