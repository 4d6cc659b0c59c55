--------------------------- MODULE WorkspaceGate ---------------------------
(***************************************************************************)
(* The way of a chat call of /v1 through the gateway: RequireAuth, the     *)
(* workspace's limits, the model access of the key, the rate limiter, the  *)
(* guardrails, the provider, and the two rows the call leaves behind.      *)
(*                                                                         *)
(* Each call runs in a goroutine of its own; administrators change keys,   *)
(* limits and policies meanwhile.  Every statement takes a connection from *)
(* one pool for as long as it runs.  CheckWorkspaceLimits is the exception *)
(* that keeps one: its loop over the quotas leaves the rows open while it  *)
(* runs a second statement, for which it waits without a deadline.         *)
(*                                                                         *)
(* The balance, the routes, and what is billed are UsageBilling and        *)
(* ModelRouter; the limiter is RequestRate: here they let a call pass or   *)
(* stop it, in the order of the middlewares.                               *)
(***************************************************************************)
EXTENDS ApiKeys, WorkspaceLimits, Guardrails

CONSTANTS
  Calls,       \* handlers: each runs one call after the other
  KeyOf,       \* the key a handler's calls come with
  ModelOf,     \* the model they ask for
  ContentOf,   \* the kinds of finding in their texts
  Streams,     \* the handlers whose calls are streams
  Member,      \* the membership of the user who creates keys and limits
  MaxConns,    \* size of the connection pool
  Faulty,      \* the handlers whose statements may fail
  MaxSettled,  \* bound: calls of one month
  MaxWaved     \* bound: calls of a handler in one month that pass because a
               \* check failed

ASSUME GateConstants ==
  /\ IsFiniteSet(Calls)
  /\ KeyOf \in [Calls -> Keys] /\ ModelOf \in [Calls -> Models]
  /\ ContentOf \in [Calls -> SUBSET FindingKinds]
  /\ Streams \subseteq Calls
  /\ MaxConns \in Nat /\ MaxSettled \in Nat /\ MaxWaved \in Nat
  /\ Faulty \subseteq Calls

VARIABLES
  pc,      \* where a call's handler is
  local,   \* what it has read
  waved,   \* history: a handler's calls that this month passed because the
           \* check of the limits failed
  beyond,  \* history: a handler's usage rows of this month inserted when a
           \* limit on the month's spend or tokens had been reached, since
           \* one in force has been
  late,    \* history: calls that came in with a key withdrawn since
  demand   \* history: the policies in force since a call that
           \* has not been to a provider yet has passed the limits

callVars == <<pc, local>>
historyVars == <<waved, beyond, late, demand>>
vars == <<keyVars, limitVars, policies, callVars, historyVars>>

Labels == {"idle", "auth", "spend", "budget", "quotas", "rows", "access",
           "record", "provider", "settle", "log"}
\* bound, models: Locals set by the authentication; spend: the first sum of
\* the check; left: quotas not compared yet; text, decision: the guardrail.
Locals == [bound : BOOLEAN, models : SUBSET Models, spend : Nat,
           left : SUBSET Quotas, text : {"raw", "masked"},
           decision : GuardrailActions, doubted : BOOLEAN]
NoLocals == [bound |-> FALSE, models |-> {}, spend |-> 0, left |-> {},
             text |-> "raw", decision |-> "allow", doubted |-> FALSE]

Init ==
  /\ KeyInit /\ LimitInit /\ GuardrailInit
  /\ pc = [c \in Calls |-> "idle"]
  /\ local = [c \in Calls |-> NoLocals]
  /\ waved = [c \in Calls |-> 0] /\ beyond = [c \in Calls |-> 0]
  /\ late = {}
  /\ demand = [c \in Calls |-> {}]

TypeOK ==
  /\ KeyTypeOK /\ LimitTypeOK /\ GuardrailTypeOK
  /\ pc \in [Calls -> Labels]
  /\ local \in [Calls -> Locals]
  /\ waved \in [Calls -> Nat] /\ beyond \in [Calls -> Nat]
  /\ late \subseteq Calls
  /\ demand \in [Calls -> SUBSET (Policies \cup {NoPolicy})]

-----------------------------------------------------------------------------
(* The pool. *)

\* rows, in CheckWorkspaceLimits, holds its connection until it is closed.
HasConn(c) == pc[c] = "rows"

\* A statement finds a connection; it gives it back when it has run.
ConnFree == Cardinality({c \in Calls : HasConn(c)}) < MaxConns

-----------------------------------------------------------------------------
(* Steps of a handler. *)

Goto(c, label) == pc' = [pc EXCEPT ![c] = label]

\* The handler goes on and keeps only what later steps read.
Proceed(c, label, new) ==
  /\ Goto(c, label)
  /\ local' = [local EXCEPT ![c] = new]

SameTables == UNCHANGED <<keyVars, limitVars, policies>>

\* The handler returns; what it leaves open is closed by its defers.
Return(c) ==
  /\ Proceed(c, "idle", NoLocals)
  /\ late' = late \ {c}
  /\ demand' = [demand EXCEPT ![c] = {}]
  /\ UNCHANGED <<waved, beyond>>

\* The limits do not stop the call, or do not concern it.
ToAccess(c, new) ==
  /\ Proceed(c, "access", new)
  /\ demand' = [demand EXCEPT ![c] = {InForce(new.bound)}]

\* The texts have served: of what was read only the workspace still matters.
Leave(c, label) ==
  /\ Proceed(c, label, [NoLocals EXCEPT !.bound = local[c].bound])
  /\ demand' = [demand EXCEPT ![c] = {}]
  /\ UNCHANGED <<waved, beyond, late>>

Arrive(c) ==
  /\ pc[c] = "idle"
  /\ settled + Cardinality({d \in Calls : pc[d] # "idle"}) < MaxSettled
  /\ Goto(c, "auth")
  /\ late' = IF KeyOf[c] \in withdrawn THEN late \cup {c} ELSE late
  /\ UNCHANGED <<local, waved, beyond, demand>> /\ SameTables

\* authenticateAPIKey: one SELECT decides, and its columns are all that the
\* rest of the call knows of the key.
Authenticate(c) ==
  LET row == apiKeys[KeyOf[c]]
      read == [NoLocals EXCEPT !.bound = row.bound, !.models = row.models]
  IN /\ pc[c] = "auth" /\ ConnFree /\ MayBeValid(KeyOf[c])
     /\ IF row.bound
          THEN Proceed(c, "spend", read) /\ UNCHANGED demand
          ELSE ToAccess(c, read)
     /\ UNCHANGED <<waved, beyond, late>> /\ SameTables

\* The key is unknown, inactive or expired, or the SELECT fails: 401.
RefuseKey(c) ==
  /\ pc[c] = "auth" /\ ConnFree
  /\ MayBeInvalid(KeyOf[c]) \/ c \in Faulty
  /\ Return(c) /\ SameTables

-----------------------------------------------------------------------------
(* requireWorkspaceLimits and CheckWorkspaceLimits. *)

\* Mutant: the sum leaves out this month.
ReadSpendBefore(c) ==
  /\ pc[c] = "spend" /\ ConnFree
  /\ Proceed(c, "budget", local[c])
  /\ UNCHANGED historyVars /\ SameTables

ReadSpend(c) ==
  /\ pc[c] = "spend" /\ ConnFree
  /\ Proceed(c, "budget", [local[c] EXCEPT !.spend = Spent])
  /\ UNCHANGED historyVars /\ SameTables

PassBudget(c) ==
  /\ pc[c] = "budget" /\ ConnFree
  /\ ~OverBudget(local[c].spend)
  /\ Proceed(c, "quotas", [local[c] EXCEPT !.spend = 0])
  /\ UNCHANGED historyVars /\ SameTables

RefuseBudget(c) ==
  /\ pc[c] = "budget" /\ ConnFree
  /\ OverBudget(local[c].spend)
  /\ Return(c) /\ SameTables

\* The third statement: its connection is kept while rows is iterated.
OpenQuotas(c) ==
  /\ pc[c] = "quotas" /\ ConnFree
  /\ Proceed(c, "rows", [local[c] EXCEPT !.left = ActiveQuotas])
  /\ UNCHANGED historyVars /\ SameTables

\* Mutant: the loop does not go on to the next row.
CompareQuotaAgain(c) ==
  \E q \in local[c].left :
    /\ pc[c] = "rows"
    /\ Compared(q) => ConnFree /\ ~OverQuota(q)
    /\ UNCHANGED <<callVars, historyVars>> /\ SameTables

\* The next row, in no given order.  A type that is not compared is passed
\* over; the others take a statement on a second connection.
CompareQuota(c) ==
  \E q \in local[c].left :
    /\ pc[c] = "rows"
    /\ Compared(q) => ConnFree /\ ~OverQuota(q)
    /\ Proceed(c, "rows", [local[c] EXCEPT !.left = @ \ {q}])
    /\ UNCHANGED historyVars /\ SameTables

RefuseQuota(c) ==
  \E q \in local[c].left :
    /\ pc[c] = "rows"
    /\ Compared(q) /\ ConnFree /\ OverQuota(q)
    /\ Return(c) /\ SameTables

CloseQuotas(c) ==
  /\ pc[c] = "rows" /\ local[c].left = {}
  /\ ToAccess(c, local[c])
  /\ UNCHANGED <<waved, beyond, late>> /\ SameTables

\* Any of the statements fails: the middleware lets the call pass.
CheckFails(c) ==
  /\ pc[c] \in {"spend", "budget", "quotas", "rows"}
  /\ c \in Faulty /\ ConnFree /\ waved[c] < MaxWaved
  /\ pc[c] = "rows" => \E q \in local[c].left : Compared(q)
  /\ ToAccess(c, [local[c] EXCEPT !.spend = 0, !.left = {}])
  /\ waved' = [waved EXCEPT ![c] = @ + 1]
  /\ UNCHANGED <<beyond, late>> /\ SameTables

-----------------------------------------------------------------------------
(* requireAPIKeyModelAccess, the limiter, and the guardrails. *)

\* 403, or 429 from the limiter.
RefuseAccess(c) ==
  /\ pc[c] = "access"
  /\ Return(c) /\ SameTables

\* The key allows the model and the limiter lets the call pass.
PassAccess(c) == pc[c] = "access" /\ ModelOf[c] \in local[c].models

\* applyGuardrails up to its record: the policy is read, the decision made,
\* and the texts are masked at once.  No policy, no record.
ApplyGuardrails(c) ==
  LET p == InForce(local[c].bound)
      decided == Decision(p, ContentOf[c])
  IN /\ PassAccess(c) /\ ConnFree
     /\ IF p = NoPolicy
          THEN Proceed(c, "provider", [local[c] EXCEPT !.models = {}])
          ELSE Proceed(c, "record", [local[c] EXCEPT !.models = {}, !.decision = decided,
                         !.text = TextAfter(decided)])
     /\ UNCHANGED historyVars /\ SameTables

\* The policy cannot be read: the handler goes on.
GuardrailFails(c) ==
  /\ PassAccess(c) /\ ConnFree /\ c \in Faulty
  /\ Proceed(c, "provider", [local[c] EXCEPT !.models = {}, !.doubted = TRUE])
  /\ UNCHANGED historyVars /\ SameTables

\* RecordGuardrailResult commits, and a request to be blocked is: 400.
RecordResult(c) ==
  /\ pc[c] = "record" /\ ConnFree
  /\ IF local[c].decision = "block"
       THEN Leave(c, "log")
       ELSE Goto(c, "provider") /\ UNCHANGED <<local, historyVars>>
  /\ SameTables

\* The transaction fails: applyGuardrails returns an error next to its
\* decision, and the handler, which looks at the error first, goes on.
RecordFails(c) ==
  /\ pc[c] = "record" /\ ConnFree /\ c \in Faulty
  /\ Proceed(c, "provider", [local[c] EXCEPT !.doubted = TRUE])
  /\ UNCHANGED historyVars /\ SameTables

-----------------------------------------------------------------------------
(* The provider and the rows left behind. *)

\* No balance, no route, or no provider answers: respondChatError.
CallFails(c) ==
  /\ pc[c] = "provider"
  /\ Leave(c, "log") /\ SameTables

ProviderAnswers(c) ==
  /\ pc[c] = "provider"
  /\ Leave(c, "settle") /\ SameTables

\* enforceAPIKeyTokenLimit answers 429 and the handler returns: a stream
\* before its provider is called, another call after it was answered.
RefuseTokens(c) ==
  /\ pc[c] = IF c \in Streams THEN "provider" ELSE "settle"
  /\ Return(c) /\ SameTables

\* One negative percentage takes every monthly budget out of force for good.
BudgetsOff == \E b \in budgets : b.active /\ b.period = "monthly" /\ b.pct < 0

\* A limit in force on what the month may cost or use has been reached.
LimitReached ==
  \/ /\ ~BudgetsOff
     /\ \E b \in budgets : b.active /\ b.period = "monthly" /\ 100 * settled >= b.amount * b.pct
  \/ \E q \in quotas : /\ q.active
                       /\ \/ q.type = "spend_per_month" /\ settled >= q.limit
                          \/ q.type = "tokens_per_month" /\ settled * TokensPerCall >= q.limit

\* The usage row goes to the workspace of the key, if it has one.
Settle(c) ==
  /\ pc[c] = "settle" /\ ConnFree
  /\ Goto(c, "log")
  /\ IF local[c].bound
       THEN /\ RecordUsage
            /\ beyond' = IF LimitReached THEN [beyond EXCEPT ![c] = @ + 1] ELSE beyond
       ELSE UNCHANGED <<limitVars, beyond>>
  /\ UNCHANGED <<local, waved, late, demand, keyVars, policies>>

\* recordUsageAndBilling logs the error and returns.
SettleFails(c) ==
  /\ pc[c] = "settle" /\ ConnFree /\ c \in Faulty
  /\ Goto(c, "log")
  /\ UNCHANGED <<local, historyVars>> /\ SameTables

Log(c) ==
  /\ pc[c] = "log" /\ ConnFree
  /\ IF local[c].bound THEN RecordRequestLog ELSE UNCHANGED limitVars
  /\ Return(c)
  /\ UNCHANGED <<keyVars, policies>>

LogFails(c) ==
  /\ pc[c] = "log" /\ ConnFree /\ c \in Faulty
  /\ Return(c) /\ SameTables

-----------------------------------------------------------------------------
(* What others do meanwhile. *)

KeyStep ==
  /\ \/ \E k \in Keys, bound \in NewKeys : CreateKey(k, bound, Member)
     \/ \E k \in Keys : RevokeKey(k)
     \/ \E k \in Keys, a \in Admins, body \in UpdateRequests : ReadKey(a, k, body)
     \/ \E a \in Admins : WriteKey(a) \/ WriteKeyFails(a)
  /\ late' = {c \in late : KeyOf[c] \in withdrawn'}
  /\ UNCHANGED <<limitVars, policies, callVars, waved, beyond, demand>>

LimitStep ==
  /\ \/ \E b \in Budgets : CreateBudget(b, Member)
     \/ \E q \in Quotas : CreateQuota(q, Member)
     \/ LogAges
  /\ beyond' = IF LimitReached' THEN beyond ELSE [c \in Calls |-> 0]
  /\ UNCHANGED <<keyVars, policies, callVars, waved, late, demand>>

NewMonth ==
  /\ MonthBegins
  /\ waved' = [c \in Calls |-> 0] /\ beyond' = [c \in Calls |-> 0]
  /\ UNCHANGED <<keyVars, policies, callVars, late, demand>>

PolicyStep ==
  /\ \E b \in PolicyBodies : CreatePolicy(b)
  /\ UNCHANGED <<keyVars, limitVars, callVars, waved, beyond, late>>
  /\ demand' = [c \in Calls |->
       IF pc[c] \in {"access", "record", "provider"}
         THEN demand[c] \cup {InForce(local[c].bound)'} ELSE {}]

\* The steps of one call, once it came in.
Step(c) ==
  \/ Authenticate(c) \/ RefuseKey(c)
  \/ ReadSpend(c) \/ PassBudget(c) \/ RefuseBudget(c)
  \/ OpenQuotas(c) \/ CompareQuota(c) \/ RefuseQuota(c) \/ CloseQuotas(c)
  \/ CheckFails(c)
  \/ RefuseAccess(c) \/ ApplyGuardrails(c) \/ GuardrailFails(c) \/ RecordResult(c) \/ RecordFails(c)
  \/ CallFails(c) \/ ProviderAnswers(c) \/ RefuseTokens(c)
  \/ Settle(c) \/ SettleFails(c) \/ Log(c) \/ LogFails(c)

Next ==
  \/ \E c \in Calls : Arrive(c) \/ Step(c)
  \/ KeyStep \/ LimitStep \/ NewMonth \/ PolicyStep

Spec == Init /\ [][Next]_vars

\* A goroutine that can take its next step is scheduled, and a provider
\* answers or times out.
FairSpec == Spec /\ \A c \in Calls : WF_vars(Step(c))

-----------------------------------------------------------------------------
(* Properties. *)

\* What a month costs or uses beyond a limit once reached comes from calls
\* that were under way then, at most one per handler, and from calls that
\* passed because the check failed (requireWorkspaceLimits fails open).  It
\* holds for the limits in force: a budget with a negative percentage, which
\* createWorkspaceBudget accepts, takes all monthly budgets out of force, and
\* unless a quota has been reached the count then begins again.
OvershootIsBounded == \A c \in Calls : beyond[c] <= 1 + waved[c]

\* A key whose revocation was acknowledged serves no call that comes in
\* later, whatever updates of the key run, unless one of them asks for it or
\* had read the key before the revocation (adminUpdateAPIKey).
RevokedKeyServesNoNewCall == \A c \in late : pc[c] = "auth"

Blocks(p, content) == \E f \in content : p[f] = "block"
Masks(p, content) == ~Blocks(p, content) /\ \E f \in content : p[f] = "mask"

\* The texts go to a provider as a policy in force since the call has passed
\* the limits demands: never when it blocks them, masked when it masks them,
\* the latter even when recording the result failed.  Only a policy that
\* could not be read, or a refusal that could not be recorded, lets them
\* through (applyGuardrails and what its caller makes of an error).
GuardrailHolds ==
  \A c \in Calls : pc[c] = "provider" =>
    \E p \in demand[c] :
      IF p = NoPolicy \/ ContentOf[c] = {} THEN local[c].text = "raw"
      ELSE /\ Blocks(p, ContentOf[c]) => local[c].doubted
           /\ Masks(p, ContentOf[c]) => local[c].text = "masked"
                \/ (local[c].doubted /\ local[c].decision = "allow")

\* Every call that comes in is answered, with the pool larger than the
\* number of calls at a time (CheckWorkspaceLimits takes a second connection
\* while it holds one).
EveryCallEnds == \A c \in Calls : pc[c] # "idle" ~> pc[c] = "idle"
=============================================================================
