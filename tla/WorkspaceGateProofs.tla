------------------------ MODULE WorkspaceGateProofs ------------------------
(***************************************************************************)
(* What a request meets before it reaches a provider, each module by       *)
(* itself: they share no variable.                                         *)
(*                                                                         *)
(* WorkspaceGate, for any handlers, keys, administrators, limits and       *)
(* policies, any size of the pool and any faults.                          *)
(*                                                                         *)
(* RequestRate, for any number of concurrent requests of a key, any limit  *)
(* and length of the minute, and any faults of Redis.                      *)
(***************************************************************************)
EXTENDS WorkspaceGate, RequestRate, FiniteSetTheorems, TLAPS

-----------------------------------------------------------------------------
(* Types of the tables. *)

LEMMA KeptType ==
  ASSUME NEW S, NEW new \in Optional(S), NEW old \in S
  PROVE  Kept(new, old) \in S
<1>1. CASE new = {}
  BY <1>1 DEF Kept
<1>2. CASE \E x \in S : new = {x}
  BY <1>2 DEF Kept
<1> QED
  BY <1>1, <1>2 DEF Optional

LEMMA UpdatedRowType ==
  ASSUME NEW j \in Jobs
  PROVE  UpdatedRow(j) \in KeyRows
<1>1. j.body \in UpdateBodies /\ j.read \in Copies
  BY DEF Jobs
<1>2. /\ j.body.active \in Optional(BOOLEAN) /\ j.body.models \in Optional(SUBSET Models)
      /\ j.body.bound \in BOOLEAN /\ j.body.expires \in BOOLEAN
  BY <1>1 DEF UpdateBodies
<1>3. j.read.active \in BOOLEAN /\ j.read.models \in SUBSET Models
  BY <1>1 DEF Copies
<1>4. Kept(j.body.active, j.read.active) \in BOOLEAN
  BY <1>2, <1>3, KeptType
<1>5. Kept(j.body.models, j.read.models) \in SUBSET Models
  BY <1>2, <1>3, KeptType
<1> QED
  BY <1>2, <1>4, <1>5 DEF UpdatedRow, KeyRows

LEMMA KeyStepType ==
  ASSUME KeyTypeOK, KeyStep
  PROVE  KeyTypeOK'
<1>1. ASSUME NEW k \in Keys, NEW bound \in NewKeys, CreateKey(k, bound, Member)
      PROVE  KeyTypeOK'
  <2>1. NewRow(bound) \in KeyRows
    BY ApiKeyConstants DEF NewRow, KeyRows
  <2> QED
    BY <1>1, <2>1 DEF KeyTypeOK, CreateKey
<1>2. ASSUME NEW k \in Keys, RevokeKey(k)
      PROVE  KeyTypeOK'
  <2>1. apiKeys[k] \in KeyRows
    BY <1>2 DEF KeyTypeOK, RevokeKey
  <2>2. [apiKeys[k] EXCEPT !.active = FALSE] \in KeyRows
    BY <2>1 DEF KeyRows
  <2>3. apiKeys' = [apiKeys EXCEPT ![k] = [apiKeys[k] EXCEPT !.active = FALSE]]
    BY <1>2 DEF RevokeKey
  <2>4. apiKeys' \in [Keys -> KeyRows \cup {NoKey}]
    BY <2>2, <2>3 DEF KeyTypeOK
  <2> QED
    BY <1>2, <2>4 DEF KeyTypeOK, RevokeKey
<1>3. ASSUME NEW k \in Keys, NEW a \in Admins, NEW body \in UpdateRequests, ReadKey(a, k, body)
      PROVE  KeyTypeOK'
  <2> DEFINE new == [key |-> k, body |-> body,
                     read |-> [active |-> apiKeys[k].active, models |-> apiKeys[k].models]]
  <2>1. apiKeys[k] \in KeyRows /\ body \in UpdateBodies
    BY <1>3, ApiKeyConstants DEF KeyTypeOK, ReadKey
  <2>2. [active |-> apiKeys[k].active, models |-> apiKeys[k].models] \in Copies
    BY <2>1 DEF KeyRows, Copies
  <2>3. new \in Jobs
    BY <2>1, <2>2 DEF Jobs
  <2>4. job' = [job EXCEPT ![a] = new]
    BY <1>3 DEF ReadKey
  <2> HIDE DEF new
  <2> QED
    BY <1>3, <2>3, <2>4 DEF KeyTypeOK, ReadKey
<1>4. ASSUME NEW a \in Admins, WriteKey(a) \/ WriteKeyFails(a)
      PROVE  KeyTypeOK'
  <2>1. job[a] \in Jobs /\ job[a].key \in Keys
    BY <1>4 DEF KeyTypeOK, WriteKey, WriteKeyFails, Jobs
  <2>2. UpdatedRow(job[a]) \in KeyRows
    BY <2>1, UpdatedRowType
  <2>3. job' \in [Admins -> Jobs \cup {NoJob}]
    BY <1>4 DEF KeyTypeOK, WriteKey, WriteKeyFails
  <2>4. apiKeys' \in [Keys -> KeyRows \cup {NoKey}]
    BY <1>4, <2>1, <2>2 DEF KeyTypeOK, WriteKey, WriteKeyFails
  <2>5. withdrawn' \subseteq Keys
    BY <1>4 DEF KeyTypeOK, WriteKey, WriteKeyFails
  <2> QED
    BY <2>3, <2>4, <2>5 DEF KeyTypeOK
<1> QED
  BY <1>1, <1>2, <1>3, <1>4 DEF KeyStep

\* A record with two of its fields replaced.
LEMMA RecordExcept ==
  ASSUME NEW P, NEW N, NEW M, NEW b \in [period : P, amount : N, pct : M, active : BOOLEAN],
         NEW P2, NEW N2, NEW M2, NEW x \in P2, NEW y \in M2, b.amount \in N2
  PROVE  [b EXCEPT !.period = x, !.pct = y]
           \in [period : P2, amount : N2, pct : M2, active : BOOLEAN]
OBVIOUS

LEMMA BudgetRowType ==
  ASSUME NEW b \in Budgets, b.amount > 0
  PROVE  BudgetRow(b) \in BudgetRows
<1>1. b \in [period : Periods \cup {""}, amount : Nat, pct : Int, active : BOOLEAN]
  BY LimitConstants
<1>2. b.amount \in Nat /\ b.pct \in Int
  BY <1>1
<1>3. b.period \in Periods \cup {""}
  BY <1>1
<1> DEFINE period == IF b.period = "" THEN "monthly" ELSE b.period
           pct == IF b.pct = 0 THEN 100 ELSE b.pct
<1>4. pct \in Int \ {0}
  BY <1>2
<1>5. period \in Periods
  BY <1>3 DEF Periods
<1>6. b.amount \in Nat \ {0}
  BY <1>2
<1>7. BudgetRow(b) = [b EXCEPT !.period = period, !.pct = pct]
  BY DEF BudgetRow
<1> HIDE DEF period, pct
<1>8. [b EXCEPT !.period = period, !.pct = pct]
        \in [period : Periods, amount : Nat \ {0}, pct : Int \ {0}, active : BOOLEAN]
  BY <1>1, <1>4, <1>5, <1>6, RecordExcept, Zenon
<1> QED
  BY <1>7, <1>8, Zenon DEF BudgetRows

LEMMA LimitType ==
  ASSUME LimitTypeOK,
         LimitStep \/ RecordUsage \/ RecordRequestLog \/ MonthBegins \/ UNCHANGED limitVars
  PROVE  LimitTypeOK'
<1>1. MaxLogged \in Nat
  BY LimitConstants
<1>2. ASSUME NEW b \in Budgets, CreateBudget(b, Member)
      PROVE  LimitTypeOK'
  BY <1>2, BudgetRowType DEF CreateBudget, LimitTypeOK
<1>3. ASSUME NEW q \in Quotas, CreateQuota(q, Member)
      PROVE  LimitTypeOK'
  BY <1>3 DEF CreateQuota, UpsertWorkspaceQuota, LimitTypeOK
<1>4. CASE LogAges
  BY <1>1, <1>4 DEF LogAges, LimitTypeOK
<1>5. CASE RecordUsage \/ MonthBegins \/ UNCHANGED limitVars
  BY <1>5 DEF RecordUsage, MonthBegins, limitVars, LimitTypeOK
<1>6. CASE RecordRequestLog
  BY <1>1, <1>6 DEF RecordRequestLog, LimitTypeOK
<1> QED
  BY <1>2, <1>3, <1>4, <1>5, <1>6 DEF LimitStep

LEMMA PolicyType ==
  ASSUME GuardrailTypeOK, NEW b \in PolicyBodies, CreatePolicy(b)
  PROVE  GuardrailTypeOK'
<1>1. PolicyRow(b) \in Policies
  BY GuardrailConstants
<1> QED
  BY <1>1 DEF GuardrailTypeOK, CreatePolicy

LEMMA InForceType ==
  ASSUME GuardrailTypeOK, NEW b
  PROVE  InForce(b) \in Policies \cup {NoPolicy}
BY DEF GuardrailTypeOK, InForce, Scopes

LEMMA DecisionType ==
  ASSUME NEW p, NEW content
  PROVE  Decision(p, content) \in GuardrailActions /\ TextAfter(Decision(p, content)) \in {"raw", "masked"}
BY DEF Decision, GuardrailActions, TextAfter

-----------------------------------------------------------------------------
(* Types of the handlers. *)

HandlerTypeOK ==
  /\ pc \in [Calls -> Labels]
  /\ local \in [Calls -> Locals]
  /\ waved \in [Calls -> Nat] /\ beyond \in [Calls -> Nat]
  /\ late \subseteq Calls
  /\ demand \in [Calls -> SUBSET (Policies \cup {NoPolicy})]

LEMMA NoLocalsType == NoLocals \in Locals
BY DEF NoLocals, Locals, GuardrailActions

\* What of local[c] the later steps may set.
LEMMA LocalFields ==
  ASSUME HandlerTypeOK, NEW c \in Calls
  PROVE  /\ local[c] \in Locals
         /\ local[c].bound \in BOOLEAN /\ local[c].models \subseteq Models
         /\ local[c].spend \in Nat /\ local[c].left \subseteq Quotas
BY DEF HandlerTypeOK, Locals

LEMMA ProceedType ==
  ASSUME HandlerTypeOK, NEW c \in Calls, NEW label \in Labels, NEW new \in Locals,
         Proceed(c, label, new)
  PROVE  pc' \in [Calls -> Labels] /\ local' \in [Calls -> Locals]
BY DEF HandlerTypeOK, Proceed, Goto

LEMMA ReturnType ==
  ASSUME HandlerTypeOK, NEW c \in Calls, Return(c)
  PROVE  HandlerTypeOK'
<1>1. pc' \in [Calls -> Labels] /\ local' \in [Calls -> Locals]
  BY ProceedType, NoLocalsType DEF Return, Labels
<1>2. demand' \in [Calls -> SUBSET (Policies \cup {NoPolicy})]
  BY DEF Return, HandlerTypeOK
<1> QED
  BY <1>1, <1>2 DEF Return, HandlerTypeOK

LEMMA LeaveType ==
  ASSUME HandlerTypeOK, NEW c \in Calls, NEW label \in Labels, Leave(c, label)
  PROVE  HandlerTypeOK'
<1>1. [NoLocals EXCEPT !.bound = local[c].bound] \in Locals
  BY NoLocalsType, LocalFields DEF Locals
<1>2. pc' \in [Calls -> Labels] /\ local' \in [Calls -> Locals]
  BY <1>1, ProceedType DEF Leave
<1>3. demand' \in [Calls -> SUBSET (Policies \cup {NoPolicy})]
  BY DEF Leave, HandlerTypeOK
<1> QED
  BY <1>2, <1>3 DEF Leave, HandlerTypeOK

LEMMA ToAccessType ==
  ASSUME HandlerTypeOK, GuardrailTypeOK, NEW c \in Calls, NEW new \in Locals, ToAccess(c, new),
         waved' \in [Calls -> Nat], UNCHANGED <<beyond, late>>
  PROVE  HandlerTypeOK'
<1>1. pc' \in [Calls -> Labels] /\ local' \in [Calls -> Locals]
  BY ProceedType DEF ToAccess, Labels
<1>2. {InForce(new.bound)} \in SUBSET (Policies \cup {NoPolicy})
  BY InForceType
<1>3. demand' \in [Calls -> SUBSET (Policies \cup {NoPolicy})]
  BY <1>2 DEF ToAccess, HandlerTypeOK
<1> QED
  BY <1>1, <1>3 DEF HandlerTypeOK

\* A step that only goes on with other locals.
LEMMA GoOnType ==
  ASSUME HandlerTypeOK, NEW c \in Calls, NEW label \in Labels, NEW new \in Locals,
         Proceed(c, label, new), UNCHANGED historyVars
  PROVE  HandlerTypeOK'
BY ProceedType DEF HandlerTypeOK, historyVars

\* One field of the locals replaced.
LEMMA NewField ==
  ASSUME HandlerTypeOK, NEW c \in Calls
  PROVE  /\ \A n \in Nat : [local[c] EXCEPT !.spend = n] \in Locals
         /\ \A L \in SUBSET Quotas : [local[c] EXCEPT !.left = L] \in Locals
         /\ [local[c] EXCEPT !.spend = 0, !.left = {}] \in Locals
         /\ [local[c] EXCEPT !.models = {}] \in Locals
         /\ [local[c] EXCEPT !.doubted = TRUE] \in Locals
         /\ [local[c] EXCEPT !.models = {}, !.doubted = TRUE] \in Locals
         /\ \A d \in GuardrailActions, t \in {"raw", "masked"} :
              [local[c] EXCEPT !.models = {}, !.decision = d, !.text = t] \in Locals
<1>1. local[c] \in Locals
  BY LocalFields
<1>2. ASSUME NEW n \in Nat PROVE [local[c] EXCEPT !.spend = n] \in Locals
  BY <1>1 DEF Locals
<1>3. ASSUME NEW L \in SUBSET Quotas PROVE [local[c] EXCEPT !.left = L] \in Locals
  BY <1>1 DEF Locals
<1>4. [local[c] EXCEPT !.spend = 0, !.left = {}] \in Locals
  BY <1>1 DEF Locals
<1>5. [local[c] EXCEPT !.models = {}] \in Locals /\ [local[c] EXCEPT !.doubted = TRUE] \in Locals
  BY <1>1 DEF Locals
<1>6. [local[c] EXCEPT !.models = {}, !.doubted = TRUE] \in Locals
  BY <1>1 DEF Locals
<1>7. ASSUME NEW d \in GuardrailActions, NEW t \in {"raw", "masked"}
      PROVE  [local[c] EXCEPT !.models = {}, !.decision = d, !.text = t] \in Locals
  BY <1>1 DEF Locals
<1> QED
  BY <1>2, <1>3, <1>4, <1>5, <1>6, <1>7

-----------------------------------------------------------------------------
(* The steps of a handler keep every type. *)

LEMMA AuthType ==
  ASSUME TypeOK, NEW c \in Calls, Arrive(c) \/ Authenticate(c) \/ RefuseKey(c)
  PROVE  HandlerTypeOK'
<1>0. HandlerTypeOK /\ GuardrailTypeOK /\ KeyTypeOK /\ KeyOf[c] \in Keys
  BY GateConstants DEF TypeOK, HandlerTypeOK
<1>1. CASE Arrive(c)
  <2>1. pc' \in [Calls -> Labels] /\ late' \subseteq Calls
    BY <1>0, <1>1 DEF HandlerTypeOK, Arrive, Goto, Labels
  <2> QED
    BY <1>0, <1>1, <2>1 DEF HandlerTypeOK, Arrive
<1>2. CASE Authenticate(c)
  <2> DEFINE row == apiKeys[KeyOf[c]]
             read == [NoLocals EXCEPT !.bound = row.bound, !.models = row.models]
  <2>1. row \in KeyRows
    BY <1>0, <1>2 DEF KeyTypeOK, Authenticate, MayBeValid
  <2>2. row.bound \in BOOLEAN /\ row.models \in SUBSET Models
    BY <2>1 DEF KeyRows
  <2>3. read \in Locals
    BY <2>2 DEF NoLocals, Locals, GuardrailActions
  <2>4. /\ \/ Proceed(c, "spend", read) /\ UNCHANGED demand
           \/ ToAccess(c, read)
        /\ UNCHANGED <<waved, beyond, late>>
    BY <1>2 DEF Authenticate
  <2> HIDE DEF read
  <2>5. CASE Proceed(c, "spend", read) /\ UNCHANGED demand
    BY <1>0, <2>3, <2>4, <2>5, ProceedType DEF Labels, HandlerTypeOK
  <2>6. CASE ToAccess(c, read)
    <3>1. waved' \in [Calls -> Nat] /\ UNCHANGED <<beyond, late>>
      BY <1>0, <2>4 DEF HandlerTypeOK
    <3> QED
      BY <1>0, <2>3, <2>6, <3>1, ToAccessType
  <2> QED
    BY <2>4, <2>5, <2>6
<1>3. CASE RefuseKey(c)
  BY <1>0, <1>3, ReturnType DEF RefuseKey
<1> QED
  BY <1>1, <1>2, <1>3

\* The steps of CheckWorkspaceLimits.
CheckStep(c) ==
  \/ ReadSpend(c) \/ PassBudget(c) \/ RefuseBudget(c)
  \/ OpenQuotas(c) \/ CompareQuota(c) \/ RefuseQuota(c) \/ CloseQuotas(c)
  \/ CheckFails(c)

LEMMA CheckType ==
  ASSUME TypeOK, NEW c \in Calls, CheckStep(c)
  PROVE  HandlerTypeOK'
<1>0. /\ HandlerTypeOK /\ GuardrailTypeOK /\ LimitTypeOK
      /\ settled \in Nat /\ quotas \subseteq Quotas /\ local[c].left \subseteq Quotas
      /\ {"budget", "quotas", "rows"} \subseteq Labels
  BY LocalFields DEF TypeOK, HandlerTypeOK, LimitTypeOK, Labels
<1>1. CASE ReadSpend(c)
  BY <1>0, <1>1, NewField, GoOnType DEF ReadSpend, Spent
<1>2. CASE PassBudget(c)
  BY <1>0, <1>2, NewField, GoOnType DEF PassBudget
<1>3. CASE RefuseBudget(c) \/ RefuseQuota(c)
  BY <1>0, <1>3, ReturnType DEF RefuseBudget, RefuseQuota
<1>4. CASE OpenQuotas(c)
  <2>1. ActiveQuotas \in SUBSET Quotas
    BY <1>0 DEF ActiveQuotas
  <2>2. [local[c] EXCEPT !.left = ActiveQuotas] \in Locals
    BY <1>0, <2>1, NewField
  <2> QED
    BY <1>0, <1>4, <2>2, GoOnType DEF OpenQuotas
<1>5. CASE CompareQuota(c)
  <2>1. PICK q \in local[c].left :
          Proceed(c, "rows", [local[c] EXCEPT !.left = local[c].left \ {q}]) /\ UNCHANGED historyVars
    BY <1>5 DEF CompareQuota
  <2>2. local[c].left \ {q} \in SUBSET Quotas
    BY <1>0
  <2>3. [local[c] EXCEPT !.left = local[c].left \ {q}] \in Locals
    BY <1>0, <2>2, NewField
  <2> QED
    BY <1>0, <2>1, <2>3, GoOnType
<1>6. CASE CloseQuotas(c)
  <2>1. /\ local[c] \in Locals /\ ToAccess(c, local[c]) /\ waved' \in [Calls -> Nat]
        /\ UNCHANGED <<beyond, late>>
    BY <1>0, <1>6, LocalFields DEF CloseQuotas, HandlerTypeOK
  <2> QED
    BY <1>0, <2>1, ToAccessType
<1>7. CASE CheckFails(c)
  <2>1. waved' \in [Calls -> Nat] /\ UNCHANGED <<beyond, late>>
    BY <1>0, <1>7 DEF CheckFails, HandlerTypeOK
  <2>2. [local[c] EXCEPT !.spend = 0, !.left = {}] \in Locals
    BY <1>0, NewField
  <2>3. ToAccess(c, [local[c] EXCEPT !.spend = 0, !.left = {}])
    BY <1>7 DEF CheckFails
  <2> QED
    BY <1>0, <2>1, <2>2, <2>3, ToAccessType
<1> QED
  BY <1>1, <1>2, <1>3, <1>4, <1>5, <1>6, <1>7 DEF CheckStep

\* The steps from the access check to the provider.
TextStep(c) ==
  \/ RefuseAccess(c) \/ ApplyGuardrails(c) \/ GuardrailFails(c)
  \/ RecordResult(c) \/ RecordFails(c)

LEMMA TextType ==
  ASSUME TypeOK, NEW c \in Calls, TextStep(c)
  PROVE  HandlerTypeOK'
<1>0. HandlerTypeOK /\ {"provider", "record", "log"} \subseteq Labels
  BY DEF TypeOK, HandlerTypeOK, Labels
<1>1. CASE RefuseAccess(c)
  BY <1>0, <1>1, ReturnType DEF RefuseAccess
<1>2. CASE ApplyGuardrails(c)
  <2> DEFINE decided == Decision(InForce(local[c].bound), ContentOf[c])
             plain == [local[c] EXCEPT !.models = {}]
             marked == [local[c] EXCEPT !.models = {}, !.decision = decided,
                                        !.text = TextAfter(decided)]
  <2>1. decided \in GuardrailActions /\ TextAfter(decided) \in {"raw", "masked"}
    BY DecisionType
  <2>2. (Proceed(c, "provider", plain) \/ Proceed(c, "record", marked)) /\ UNCHANGED historyVars
    BY <1>2 DEF ApplyGuardrails
  <2> HIDE DEF decided
  <2>3. plain \in Locals /\ marked \in Locals
    BY <1>0, <2>1, NewField
  <2> HIDE DEF plain, marked
  <2> QED
    BY <1>0, <2>2, <2>3, GoOnType
<1>3. CASE GuardrailFails(c)
  BY <1>0, <1>3, NewField, GoOnType DEF GuardrailFails
<1>4. CASE RecordResult(c)
  <2>1. CASE Leave(c, "log")
    BY <1>0, <2>1, LeaveType
  <2>2. CASE Goto(c, "provider") /\ UNCHANGED <<local, historyVars>>
    BY <1>0, <2>2 DEF Goto, HandlerTypeOK, historyVars
  <2> QED
    BY <1>4, <2>1, <2>2 DEF RecordResult
<1>5. CASE RecordFails(c)
  BY <1>0, <1>5, NewField, GoOnType DEF RecordFails
<1> QED
  BY <1>1, <1>2, <1>3, <1>4, <1>5 DEF TextStep

\* The steps from the provider to the end.
EndStep(c) ==
  \/ CallFails(c) \/ ProviderAnswers(c) \/ RefuseTokens(c)
  \/ Settle(c) \/ SettleFails(c) \/ Log(c) \/ LogFails(c)

LEMMA EndType ==
  ASSUME TypeOK, NEW c \in Calls, EndStep(c)
  PROVE  HandlerTypeOK'
<1>0. HandlerTypeOK /\ {"log", "settle"} \subseteq Labels
  BY DEF TypeOK, HandlerTypeOK, Labels
<1>1. CASE CallFails(c) \/ ProviderAnswers(c)
  BY <1>0, <1>1, LeaveType DEF CallFails, ProviderAnswers
<1>2. CASE RefuseTokens(c) \/ Log(c) \/ LogFails(c)
  BY <1>0, <1>2, ReturnType DEF RefuseTokens, Log, LogFails
<1>3. CASE Settle(c) \/ SettleFails(c)
  <2>1. pc' \in [Calls -> Labels] /\ beyond' \in [Calls -> Nat]
    BY <1>0, <1>3 DEF Settle, SettleFails, Goto, HandlerTypeOK, historyVars
  <2> QED
    BY <1>0, <1>3, <2>1 DEF Settle, SettleFails, HandlerTypeOK, historyVars
<1> QED
  BY <1>1, <1>2, <1>3 DEF EndStep

LEMMA StepParts ==
  ASSUME NEW c, Step(c)
  PROVE  Authenticate(c) \/ RefuseKey(c) \/ CheckStep(c) \/ TextStep(c) \/ EndStep(c)
BY DEF Step, CheckStep, TextStep, EndStep

\* What the steps of a handler do to the tables.
LEMMA StepTables ==
  ASSUME NEW c \in Calls, Arrive(c) \/ Step(c)
  PROVE  /\ UNCHANGED <<apiKeys, job, withdrawn, policies>>
         /\ RecordUsage \/ RecordRequestLog \/ UNCHANGED limitVars
<1>1. CASE Arrive(c) \/ Authenticate(c) \/ RefuseKey(c)
  BY <1>1 DEF Arrive, Authenticate, RefuseKey, SameTables, keyVars
<1>2. CASE CheckStep(c)
  BY <1>2 DEF CheckStep, ReadSpend, PassBudget, RefuseBudget, OpenQuotas, CompareQuota,
              RefuseQuota, CloseQuotas, CheckFails, SameTables, keyVars
<1>3. CASE TextStep(c)
  BY <1>3 DEF TextStep, RefuseAccess, ApplyGuardrails, GuardrailFails, RecordResult,
              RecordFails, SameTables, keyVars
<1>4. CASE EndStep(c)
  BY <1>4 DEF EndStep, CallFails, ProviderAnswers, RefuseTokens, Settle, SettleFails, Log,
              LogFails, SameTables, keyVars
<1> QED
  BY <1>1, <1>2, <1>3, <1>4, StepParts

\* A step of c changes nothing that is kept of another handler.
Untouched(d) ==
  /\ pc'[d] = pc[d] /\ local'[d] = local[d] /\ demand'[d] = demand[d]
  /\ waved'[d] = waved[d] /\ beyond'[d] = beyond[d]

\* The operators that handlers end a step with leave the others alone.
LEMMA Endings ==
  ASSUME HandlerTypeOK, NEW c \in Calls, NEW d \in Calls \ {c}
  PROVE  /\ \A label, new : Proceed(c, label, new) => pc'[d] = pc[d] /\ local'[d] = local[d]
         /\ \A label, new : ToAccess(c, new) =>
              pc'[d] = pc[d] /\ local'[d] = local[d] /\ demand'[d] = demand[d]
         /\ \A label : Leave(c, label) => Untouched(d) /\ late' = late
         /\ Return(c) => Untouched(d) /\ late' = late \ {c}
<1>1. ASSUME NEW label, NEW new, Proceed(c, label, new)
      PROVE  pc'[d] = pc[d] /\ local'[d] = local[d]
  BY <1>1 DEF Proceed, Goto, HandlerTypeOK
<1>2. ASSUME NEW new, ToAccess(c, new)
      PROVE  pc'[d] = pc[d] /\ local'[d] = local[d] /\ demand'[d] = demand[d]
  BY <1>1, <1>2 DEF ToAccess, HandlerTypeOK
<1>3. ASSUME NEW label, Leave(c, label)
      PROVE  Untouched(d) /\ late' = late
  BY <1>1, <1>3 DEF Leave, Untouched, HandlerTypeOK
<1>4. ASSUME Return(c)
      PROVE  Untouched(d) /\ late' = late \ {c}
  BY <1>1, <1>4 DEF Return, Untouched, HandlerTypeOK
<1> QED
  BY <1>1, <1>2, <1>3, <1>4

LEMMA StepFrame ==
  ASSUME TypeOK, NEW c \in Calls, Arrive(c) \/ Step(c), NEW d \in Calls \ {c}
  PROVE  Untouched(d)
<1>0. HandlerTypeOK
  BY DEF TypeOK, HandlerTypeOK
<1>1. CASE Arrive(c)
  BY <1>0, <1>1 DEF Arrive, Goto, Untouched, HandlerTypeOK
<1>2. CASE Authenticate(c) \/ RefuseKey(c)
  BY <1>0, <1>2, Endings DEF Authenticate, RefuseKey, Untouched
<1>3. CASE CheckStep(c)
  <2>1. CASE CheckFails(c)
    BY <1>0, <2>1, Endings DEF CheckFails, Untouched, HandlerTypeOK
  <2>2. CASE CloseQuotas(c) \/ RefuseBudget(c) \/ RefuseQuota(c)
    BY <1>0, <2>2, Endings DEF CloseQuotas, RefuseBudget, RefuseQuota, Untouched
  <2>3. CASE ReadSpend(c) \/ PassBudget(c) \/ OpenQuotas(c) \/ CompareQuota(c)
    BY <1>0, <2>3, Endings DEF ReadSpend, PassBudget, OpenQuotas, CompareQuota, Untouched,
                               historyVars
  <2> QED
    BY <1>3, <2>1, <2>2, <2>3 DEF CheckStep
<1>4. CASE TextStep(c)
  <2>1. CASE RefuseAccess(c)
    BY <1>0, <2>1, Endings DEF RefuseAccess
  <2>2. CASE ApplyGuardrails(c) \/ GuardrailFails(c) \/ RecordFails(c)
    BY <1>0, <2>2, Endings DEF ApplyGuardrails, GuardrailFails, RecordFails, Untouched,
                               historyVars
  <2>3. CASE RecordResult(c)
    BY <1>0, <2>3, Endings DEF RecordResult, Goto, Untouched, HandlerTypeOK, historyVars
  <2> QED
    BY <1>4, <2>1, <2>2, <2>3 DEF TextStep
<1>5. CASE EndStep(c)
  <2>1. CASE Settle(c) \/ SettleFails(c)
    BY <1>0, <2>1 DEF Settle, SettleFails, Goto, Untouched, HandlerTypeOK, historyVars
  <2> QED
    BY <1>0, <1>5, <2>1, Endings
       DEF EndStep, CallFails, ProviderAnswers, RefuseTokens, Log, LogFails
<1> QED
  BY <1>1, <1>2, <1>3, <1>4, <1>5, StepParts

\* A step past the arrival adds no late call, and a refused one is not late.
LEMMA StepLate ==
  ASSUME TypeOK, NEW c \in Calls, Step(c)
  PROVE  /\ late' \subseteq late
         /\ RefuseKey(c) => c \notin late'
         /\ pc[c] # "auth" \/ Authenticate(c) \/ RefuseKey(c)
<1>1. CASE Authenticate(c) \/ RefuseKey(c)
  BY <1>1 DEF Authenticate, RefuseKey, Return
<1>2. CASE CheckStep(c)
  BY <1>2 DEF CheckStep, ReadSpend, PassBudget, RefuseBudget, OpenQuotas, CompareQuota,
              RefuseQuota, CloseQuotas, CheckFails, Return, RefuseKey, historyVars
<1>3. CASE TextStep(c)
  BY <1>3 DEF TextStep, RefuseAccess, PassAccess, ApplyGuardrails, GuardrailFails, RecordResult,
              RecordFails, Return, Leave, RefuseKey, historyVars
<1>4. CASE EndStep(c)
  BY <1>4 DEF EndStep, CallFails, ProviderAnswers, RefuseTokens, Settle, SettleFails, Log,
              LogFails, Return, Leave, RefuseKey, historyVars
<1> QED
  BY <1>1, <1>2, <1>3, <1>4, StepParts

-----------------------------------------------------------------------------
(* Type correctness. *)

LEMMA TypeInit == Init => TypeOK
<1> SUFFICES ASSUME Init PROVE TypeOK
  OBVIOUS
<1>0. MaxLogged \in Nat
  BY LimitConstants
<1>1. 0 \in Nat /\ 0 \in 0..MaxLogged
  BY <1>0
<1>2. KeyTypeOK /\ LimitTypeOK /\ GuardrailTypeOK
  BY <1>1 DEF Init, KeyInit, LimitInit, GuardrailInit, KeyTypeOK, LimitTypeOK, GuardrailTypeOK
<1>3. HandlerTypeOK
  BY NoLocalsType DEF Init, HandlerTypeOK, Labels
<1> QED
  BY <1>2, <1>3 DEF TypeOK, HandlerTypeOK

LEMMA TypeNext ==
  ASSUME TypeOK, [Next]_vars
  PROVE  TypeOK'
<1>0. KeyTypeOK /\ LimitTypeOK /\ GuardrailTypeOK /\ HandlerTypeOK
  BY DEF TypeOK, HandlerTypeOK
<1>1. ASSUME NEW c \in Calls, Arrive(c) \/ Step(c)
      PROVE  TypeOK'
  <2>1. HandlerTypeOK'
    BY <1>1, AuthType, CheckType, TextType, EndType, StepParts
  <2>2. KeyTypeOK' /\ LimitTypeOK' /\ GuardrailTypeOK'
    BY <1>0, <1>1, StepTables, LimitType DEF KeyTypeOK, GuardrailTypeOK
  <2> QED
    BY <2>1, <2>2 DEF TypeOK, HandlerTypeOK
<1>2. CASE KeyStep
  <2>1. KeyTypeOK'
    BY <1>0, <1>2, KeyStepType
  <2>2. LimitTypeOK' /\ GuardrailTypeOK'
    BY <1>0, <1>2 DEF KeyStep, limitVars, LimitTypeOK, GuardrailTypeOK
  <2>3. HandlerTypeOK'
    BY <1>0, <1>2 DEF KeyStep, callVars, HandlerTypeOK
  <2> QED
    BY <2>1, <2>2, <2>3 DEF TypeOK, HandlerTypeOK
<1>3. CASE LimitStep \/ NewMonth
  <2>1. LimitTypeOK'
    BY <1>0, <1>3, LimitType DEF NewMonth
  <2>2. KeyTypeOK' /\ GuardrailTypeOK'
    BY <1>0, <1>3 DEF LimitStep, NewMonth, keyVars, KeyTypeOK, GuardrailTypeOK
  <2>3. HandlerTypeOK'
    <3>1. beyond' \in [Calls -> Nat]
      BY <1>0, <1>3 DEF LimitStep, NewMonth, HandlerTypeOK
    <3> QED
      BY <1>0, <1>3, <3>1 DEF LimitStep, NewMonth, callVars, HandlerTypeOK
  <2> QED
    BY <2>1, <2>2, <2>3 DEF TypeOK, HandlerTypeOK
<1>4. CASE PolicyStep
  <2>1. GuardrailTypeOK'
    BY <1>0, <1>4, PolicyType DEF PolicyStep
  <2>2. KeyTypeOK' /\ LimitTypeOK'
    BY <1>0, <1>4 DEF PolicyStep, keyVars, limitVars, KeyTypeOK, LimitTypeOK
  <2>3. \A c \in Calls : InForce(local[c].bound)' \in Policies \cup {NoPolicy}
    BY <2>1 DEF GuardrailTypeOK, InForce, Scopes
  <2>4. demand' \in [Calls -> SUBSET (Policies \cup {NoPolicy})]
    BY <1>0, <1>4, <2>3 DEF PolicyStep, HandlerTypeOK
  <2>5. HandlerTypeOK'
    BY <1>0, <1>4, <2>4 DEF PolicyStep, callVars, HandlerTypeOK
  <2> QED
    BY <2>1, <2>2, <2>5 DEF TypeOK, HandlerTypeOK
<1>5. CASE UNCHANGED vars
  BY <1>0, <1>5 DEF vars, keyVars, limitVars, callVars, historyVars, TypeOK, KeyTypeOK,
                    LimitTypeOK, GuardrailTypeOK
<1> QED
  BY <1>1, <1>2, <1>3, <1>4, <1>5 DEF Next

\* Every variable of the gate keeps its type.
THEOREM TypeCorrect == Spec => []TypeOK
<1> QED
  BY TypeInit, TypeNext, PTL DEF Spec

-----------------------------------------------------------------------------
(* Revoked keys. *)

\* A withdrawn key is inactive, and so is every copy of it that may be
\* written back; a call that came in with one is not past its check.
Withheld ==
  /\ \A k \in withdrawn : apiKeys[k] # NoKey /\ apiKeys[k].active = FALSE
  /\ \A a \in Admins :
       job[a] # NoJob /\ job[a].key \in withdrawn => job[a].read.active = FALSE
  /\ \A c \in late : KeyOf[c] \in withdrawn /\ pc[c] = "auth"

LEMMA WithheldKeys ==
  ASSUME TypeOK, Withheld, KeyStep
  PROVE  Withheld'
<1>0. KeyTypeOK
  BY DEF TypeOK
<1>1. /\ \A k \in withdrawn' : apiKeys'[k] # NoKey /\ apiKeys'[k].active = FALSE
      /\ \A a \in Admins :
           job'[a] # NoJob /\ job'[a].key \in withdrawn' => job'[a].read.active = FALSE
  <2>1. ASSUME NEW k \in Keys, NEW bound \in NewKeys, CreateKey(k, bound, Member)
        PROVE  <1>1!1 /\ <1>1!2
    BY <1>0, <2>1 DEF CreateKey, Withheld, KeyTypeOK
  <2>2. ASSUME NEW k \in Keys, RevokeKey(k)
        PROVE  <1>1!1 /\ <1>1!2
    <3>1. apiKeys[k] \in KeyRows /\ NoKey \notin KeyRows
      BY <1>0, <2>2, ApiKeyConstants DEF RevokeKey, KeyTypeOK
    <3>2. [apiKeys[k] EXCEPT !.active = FALSE] \in KeyRows
      BY <3>1 DEF KeyRows
    <3>3. apiKeys' = [apiKeys EXCEPT ![k] = [apiKeys[k] EXCEPT !.active = FALSE]]
      BY <2>2 DEF RevokeKey
    <3>4. apiKeys'[k] # NoKey /\ apiKeys'[k].active = FALSE
      BY <1>0, <3>1, <3>2, <3>3 DEF KeyTypeOK, KeyRows
    <3>5. \A l \in Keys \ {k} : apiKeys'[l] = apiKeys[l]
      BY <1>0, <3>3 DEF KeyTypeOK
    <3>6. withdrawn' \subseteq withdrawn \cup {k} /\ withdrawn \subseteq Keys /\ job' = job
      BY <1>0, <2>2 DEF RevokeKey, KeyTypeOK
    <3>7. \A a \in Admins : job[a] # NoJob /\ job[a].key = k => withdrawn' = withdrawn
      BY <2>2 DEF RevokeKey
    <3> QED
      BY <3>4, <3>5, <3>6, <3>7 DEF Withheld
  <2>3. ASSUME NEW k \in Keys, NEW b \in Admins, NEW body \in UpdateRequests, ReadKey(b, k, body)
        PROVE  <1>1!1 /\ <1>1!2
    <3>1. job' = [job EXCEPT ![b] = [key |-> k, body |-> body,
            read |-> [active |-> apiKeys[k].active, models |-> apiKeys[k].models]]]
      BY <2>3 DEF ReadKey
    <3>2. job'[b].key = k /\ job'[b].read.active = apiKeys[k].active
      BY <1>0, <3>1 DEF KeyTypeOK
    <3>3. \A a \in Admins \ {b} : job'[a] = job[a]
      BY <1>0, <3>1 DEF KeyTypeOK
    <3>4. UNCHANGED <<apiKeys, withdrawn>>
      BY <2>3 DEF ReadKey
    <3> QED
      BY <3>2, <3>3, <3>4 DEF Withheld
  <2>4. ASSUME NEW b \in Admins, WriteKey(b)
        PROVE  <1>1!1 /\ <1>1!2
    <3> DEFINE j == job[b]
    <3>1. j \in Jobs /\ j # NoJob /\ j.key \in Keys /\ j.body.active \in Optional(BOOLEAN)
      BY <1>0, <2>4 DEF WriteKey, KeyTypeOK, Jobs, UpdateBodies
    <3>2. UpdatedRow(j) \in KeyRows /\ NoKey \notin KeyRows
      BY <3>1, UpdatedRowType, ApiKeyConstants
    <3>3. apiKeys' = [apiKeys EXCEPT ![j.key] = UpdatedRow(j)]
      BY <2>4 DEF WriteKey
    <3>4. ASSUME j.key \in withdrawn'
          PROVE  apiKeys'[j.key] # NoKey /\ apiKeys'[j.key].active = FALSE
      <4>1. TRUE \notin j.body.active /\ j.key \in withdrawn
        BY <2>4, <3>4 DEF WriteKey
      <4>2. j.read.active = FALSE
        BY <3>1, <4>1 DEF Withheld
      <4>3. Kept(j.body.active, j.read.active) = FALSE
        <5>1. CASE j.body.active = {}
          BY <4>2, <5>1 DEF Kept
        <5>2. CASE \E x \in BOOLEAN : j.body.active = {x}
          BY <4>1, <5>2 DEF Kept
        <5> QED
          BY <3>1, <5>1, <5>2 DEF Optional
      <4>4. UpdatedRow(j).active = FALSE
        BY <4>3 DEF UpdatedRow
      <4> QED
        BY <1>0, <3>1, <3>2, <3>3, <4>4 DEF KeyTypeOK
    <3>5. \A l \in Keys \ {j.key} : apiKeys'[l] = apiKeys[l]
      BY <1>0, <3>3 DEF KeyTypeOK
    <3>6. withdrawn' \subseteq withdrawn /\ withdrawn \subseteq Keys
      BY <1>0, <2>4 DEF WriteKey, KeyTypeOK
    <3>7. \A a \in Admins : job'[a] # NoJob => job'[a] = job[a]
      BY <1>0, <2>4 DEF WriteKey, KeyTypeOK
    <3> HIDE DEF j
    <3>8. ASSUME NEW k \in withdrawn'
          PROVE  apiKeys'[k] # NoKey /\ apiKeys'[k].active = FALSE
      <4>1. CASE k = j.key
        BY <3>4, <3>8, <4>1
      <4>2. CASE k # j.key
        BY <3>5, <3>6, <3>8, <4>2 DEF Withheld
      <4> QED
        BY <4>1, <4>2
    <3>9. ASSUME NEW a \in Admins, job'[a] # NoJob, job'[a].key \in withdrawn'
          PROVE  job'[a].read.active = FALSE
      BY <3>6, <3>7, <3>9 DEF Withheld
    <3> QED
      BY <3>8, <3>9
  <2>5. ASSUME NEW b \in Admins, WriteKeyFails(b)
        PROVE  <1>1!1 /\ <1>1!2
    BY <1>0, <2>5 DEF WriteKeyFails, KeyTypeOK, Withheld
  <2> QED
    BY <2>1, <2>2, <2>3, <2>4, <2>5 DEF KeyStep
<1>2. \A c \in late' : KeyOf[c] \in withdrawn' /\ pc'[c] = "auth"
  BY DEF KeyStep, callVars, Withheld
<1> QED
  BY <1>1, <1>2 DEF Withheld

LEMMA WithheldCalls ==
  ASSUME TypeOK, Withheld, NEW c \in Calls, Arrive(c) \/ Step(c)
  PROVE  Withheld'
<1>0. HandlerTypeOK /\ UNCHANGED <<apiKeys, job, withdrawn>> /\ late \subseteq Calls
  BY StepTables DEF TypeOK, HandlerTypeOK
<1>1. ASSUME NEW d \in late'
      PROVE  KeyOf[d] \in withdrawn' /\ pc'[d] = "auth"
  <2>1. CASE Arrive(c)
    BY <1>0, <1>1, <2>1 DEF Arrive, Goto, Withheld, HandlerTypeOK
  <2>2. CASE Step(c)
    <3>1. d \in late
      BY <1>1, <2>2, StepLate
    <3>2. KeyOf[d] \in withdrawn /\ pc[d] = "auth"
      BY <3>1 DEF Withheld
    <3>3. d # c
      <4>1. SUFFICES ASSUME d = c PROVE FALSE
        OBVIOUS
      <4>2. Authenticate(c)
        BY <1>1, <2>2, <3>2, <4>1, StepLate
      <4>3. apiKeys[KeyOf[c]].active = TRUE
        <5>1. apiKeys[KeyOf[c]] \in KeyRows /\ apiKeys[KeyOf[c]].active
          BY <4>2, GateConstants DEF Authenticate, MayBeValid, TypeOK, KeyTypeOK
        <5>2. apiKeys[KeyOf[c]].active \in BOOLEAN
          BY <5>1 DEF KeyRows
        <5> QED
          BY <5>1, <5>2
      <4> QED
        BY <3>2, <4>1, <4>3 DEF Withheld
    <3>4. pc'[d] = pc[d]
      BY <1>0, <2>2, <3>1, <3>3, StepFrame DEF Untouched
    <3> QED
      BY <1>0, <3>2, <3>4
  <2> QED
    BY <2>1, <2>2
<1> QED
  BY <1>0, <1>1 DEF Withheld

LEMMA WithheldNext ==
  ASSUME TypeOK, Withheld, [Next]_vars
  PROVE  Withheld'
<1>1. CASE LimitStep \/ NewMonth \/ PolicyStep
  <2>1. UNCHANGED <<apiKeys, job, withdrawn, pc, late>>
    BY <1>1 DEF LimitStep, NewMonth, PolicyStep, keyVars, callVars
  <2> QED
    BY <2>1 DEF Withheld
<1>2. CASE UNCHANGED vars
  BY <1>2 DEF vars, keyVars, callVars, historyVars, Withheld
<1> QED
  BY <1>1, <1>2, WithheldKeys, WithheldCalls DEF Next

\* Revoked keys stay revoked for the calls to come, however the updates and
\* the checks of a key interleave.
THEOREM RevokedStays == Spec => []RevokedKeyServesNoNewCall
<1>1. Init => Withheld
  BY DEF Init, KeyInit, Withheld
<1>2. Withheld => RevokedKeyServesNoNewCall
  BY DEF Withheld, RevokedKeyServesNoNewCall
<1> QED
  BY <1>1, <1>2, TypeInit, TypeNext, WithheldNext, PTL DEF Spec

-----------------------------------------------------------------------------
(* Guardrails. *)

Plain(r) == r.text = "raw" /\ r.decision = "allow" /\ r.doubted = FALSE

\* Of the locals r, that they are as policy p demands.
AsDemanded(r, p, content) ==
  IF p = NoPolicy \/ content = {} THEN r.text = "raw"
  ELSE /\ Blocks(p, content) => r.doubted
       /\ Masks(p, content) => r.text = "masked" \/ (r.doubted /\ r.decision = "allow")

\* A call has no mark of the guardrails before they ran, the policy that it
\* will meet among those it may be served under, and after they ran the marks
\* of one of these.
Screened(c) ==
  /\ pc[c] \notin {"record", "provider"} => Plain(local[c])
  /\ pc[c] = "access" => InForce(local[c].bound) \in demand[c]
  /\ pc[c] = "record" =>
       \E p \in demand[c] \ {NoPolicy} :
         /\ local[c].decision = Decision(p, ContentOf[c])
         /\ local[c].text = TextAfter(Decision(p, ContentOf[c]))
  /\ pc[c] = "provider" => \E p \in demand[c] : AsDemanded(local[c], p, ContentOf[c])

LEMMA DecisionIsRight ==
  ASSUME NEW p, NEW content
  PROVE  /\ Blocks(p, content) <=> Decision(p, content) = "block"
         /\ Masks(p, content) => Decision(p, content) = "mask"
         /\ content = {} => Decision(p, content) = "allow"
<1> DEFINE actions == {p[f] : f \in Findings(p, content)}
<1>1. Decision(p, content) = IF "block" \in actions THEN "block"
                             ELSE IF "mask" \in actions THEN "mask" ELSE "allow"
  BY DEF Decision
<1>2. \A a \in {"block", "mask"} : a \in actions <=> \E f \in content : p[f] = a
  BY DEF Findings
<1> HIDE DEF actions
<1> QED
  BY <1>1, <1>2 DEF Blocks, Masks

\* What a call keeps when nothing but the policies it may be served under grows.
LEMMA ScreenedKeeps ==
  ASSUME NEW c \in Calls, Screened(c), pc'[c] = pc[c], local'[c] = local[c],
         pc[c] \in {"access", "record", "provider"} => demand[c] \subseteq demand'[c],
         pc[c] = "access" => InForce(local[c].bound)' \in demand'[c]
  PROVE  Screened(c)'
BY DEF Screened, AsDemanded

\* A call that comes to an end, or to its access check, or goes on to the
\* check of the limits.
LEMMA ScreenedEnds ==
  ASSUME HandlerTypeOK, NEW c \in Calls
  PROVE  /\ Return(c) => Screened(c)'
         /\ \A label \in {"log", "settle"} : Leave(c, label) => Screened(c)'
         /\ \A new \in Locals :
              ToAccess(c, new) /\ Plain(new) /\ UNCHANGED policies => Screened(c)'
         /\ \A new \in Locals, label \in {"spend", "budget", "quotas", "rows"} :
              Proceed(c, label, new) /\ Plain(new) => Screened(c)'
<1>1. ASSUME NEW label, NEW new, Proceed(c, label, new)
      PROVE  pc'[c] = label /\ local'[c] = new
  BY <1>1 DEF Proceed, Goto, HandlerTypeOK
<1>2. Plain(NoLocals) /\ \A b : Plain([NoLocals EXCEPT !.bound = b])
  BY DEF Plain, NoLocals
<1>3. ASSUME Return(c)
      PROVE  Screened(c)'
  BY <1>1, <1>2, <1>3 DEF Return, Screened, Plain
<1>4. ASSUME NEW label \in {"log", "settle"}, Leave(c, label)
      PROVE  Screened(c)'
  <2> DEFINE new == [NoLocals EXCEPT !.bound = local[c].bound]
  <2>1. Proceed(c, label, new)
    BY <1>4 DEF Leave
  <2>2. Plain(new)
    BY <1>2
  <2> HIDE DEF new
  <2>3. pc'[c] = label /\ local'[c] = new
    BY <1>1, <2>1
  <2> QED
    BY <2>2, <2>3 DEF Screened, Plain
<1>5. ASSUME NEW new \in Locals, ToAccess(c, new), Plain(new), UNCHANGED policies
      PROVE  Screened(c)'
  <2>1. pc'[c] = "access" /\ local'[c] = new
    BY <1>1, <1>5 DEF ToAccess
  <2>2. demand'[c] = {InForce(new.bound)}
    BY <1>5 DEF ToAccess, HandlerTypeOK
  <2>3. InForce(local[c].bound)' = InForce(new.bound)
    BY <1>5, <2>1 DEF InForce
  <2> QED
    BY <1>5, <2>1, <2>2, <2>3 DEF Screened, Plain
<1>6. ASSUME NEW new \in Locals, NEW label \in {"spend", "budget", "quotas", "rows"},
             Proceed(c, label, new), Plain(new)
      PROVE  Screened(c)'
  BY <1>1, <1>6 DEF Screened, Plain
<1> QED
  BY <1>3, <1>4, <1>5, <1>6

LEMMA ScreenedStep ==
  ASSUME TypeOK, NEW c \in Calls, Screened(c), Arrive(c) \/ Step(c)
  PROVE  Screened(c)'
<1>0. HandlerTypeOK /\ GuardrailTypeOK /\ local[c] \in Locals /\ UNCHANGED policies
  BY StepTables, LocalFields DEF TypeOK, HandlerTypeOK
<1>1. CASE Arrive(c)
  BY <1>0, <1>1 DEF Arrive, Goto, Screened, Plain, HandlerTypeOK
<1>2. CASE Authenticate(c)
  <2> DEFINE row == apiKeys[KeyOf[c]]
             read == [NoLocals EXCEPT !.bound = row.bound, !.models = row.models]
  <2>1. row \in KeyRows
    BY <1>2, GateConstants DEF TypeOK, KeyTypeOK, Authenticate, MayBeValid
  <2>2. read \in Locals /\ Plain(read)
    BY <2>1 DEF KeyRows, NoLocals, Locals, GuardrailActions, Plain
  <2>3. Proceed(c, "spend", read) \/ ToAccess(c, read)
    BY <1>2 DEF Authenticate
  <2> HIDE DEF read
  <2> QED
    BY <1>0, <2>2, <2>3, ScreenedEnds
<1>3. CASE RefuseKey(c) \/ RefuseBudget(c) \/ RefuseQuota(c) \/ RefuseAccess(c)
           \/ RefuseTokens(c) \/ Log(c) \/ LogFails(c)
  BY <1>0, <1>3, ScreenedEnds
     DEF RefuseKey, RefuseBudget, RefuseQuota, RefuseAccess, RefuseTokens, Log, LogFails
<1>4. CASE CallFails(c) \/ ProviderAnswers(c)
  BY <1>0, <1>4, ScreenedEnds DEF CallFails, ProviderAnswers
<1>5. CASE ReadSpend(c) \/ PassBudget(c) \/ OpenQuotas(c) \/ CompareQuota(c)
           \/ CloseQuotas(c) \/ CheckFails(c)
  <2>1. Plain(local[c])
    BY <1>5 DEF Screened, ReadSpend, PassBudget, OpenQuotas, CompareQuota, CloseQuotas, CheckFails
  <2>2. /\ \A n : Plain([local[c] EXCEPT !.spend = n])
        /\ \A L : Plain([local[c] EXCEPT !.left = L])
        /\ Plain([local[c] EXCEPT !.spend = 0, !.left = {}])
    BY <1>0, <2>1 DEF Plain, Locals
  <2>3. CASE ReadSpend(c) \/ PassBudget(c)
    BY <1>0, <2>2, <2>3, NewField, ScreenedEnds DEF ReadSpend, PassBudget, Spent, TypeOK, LimitTypeOK
  <2>4. CASE OpenQuotas(c)
    <3>1. ActiveQuotas \in SUBSET Quotas
      BY DEF ActiveQuotas, TypeOK, LimitTypeOK
    <3>2. [local[c] EXCEPT !.left = ActiveQuotas] \in Locals
      BY <1>0, <3>1, NewField
    <3> QED
      BY <1>0, <2>2, <2>4, <3>2, ScreenedEnds DEF OpenQuotas
  <2>5. CASE CompareQuota(c)
    <3>1. PICK q \in local[c].left : Proceed(c, "rows", [local[c] EXCEPT !.left = local[c].left \ {q}])
      BY <2>5 DEF CompareQuota
    <3>2. local[c].left \ {q} \in SUBSET Quotas
      BY <1>0, LocalFields
    <3>3. [local[c] EXCEPT !.left = local[c].left \ {q}] \in Locals
      BY <1>0, <3>2, NewField
    <3> QED
      BY <1>0, <2>2, <3>1, <3>3, ScreenedEnds
  <2>6. CASE CloseQuotas(c)
    BY <1>0, <2>1, <2>6, ScreenedEnds DEF CloseQuotas
  <2>7. CASE CheckFails(c)
    BY <1>0, <2>2, <2>7, NewField, ScreenedEnds DEF CheckFails
  <2> QED
    BY <1>5, <2>3, <2>4, <2>5, <2>6, <2>7
<1>6. CASE ApplyGuardrails(c)
  <2> DEFINE p == InForce(local[c].bound)
             decided == Decision(p, ContentOf[c])
             plain == [local[c] EXCEPT !.models = {}]
             marked == [local[c] EXCEPT !.models = {}, !.decision = decided,
                                        !.text = TextAfter(decided)]
  <2>1. Plain(local[c]) /\ p \in demand[c] /\ UNCHANGED demand
    BY <1>6 DEF Screened, ApplyGuardrails, PassAccess, historyVars
  <2>2. plain.text = "raw"
    BY <1>0, <2>1 DEF Plain, Locals
  <2>3. marked.decision = decided /\ marked.text = TextAfter(decided)
    BY <1>0 DEF Locals
  <2>4. \/ p = NoPolicy /\ Proceed(c, "provider", plain)
        \/ p # NoPolicy /\ Proceed(c, "record", marked)
    BY <1>6 DEF ApplyGuardrails
  <2> HIDE DEF plain, marked
  <2>5. CASE p = NoPolicy /\ Proceed(c, "provider", plain)
    <3>1. pc'[c] = "provider" /\ local'[c] = plain
      BY <1>0, <2>5 DEF Proceed, Goto, HandlerTypeOK
    <3> QED
      BY <2>1, <2>2, <2>5, <3>1 DEF Screened, AsDemanded
  <2>6. CASE p # NoPolicy /\ Proceed(c, "record", marked)
    <3>1. pc'[c] = "record" /\ local'[c] = marked
      BY <1>0, <2>6 DEF Proceed, Goto, HandlerTypeOK
    <3> QED
      BY <2>1, <2>3, <2>6, <3>1 DEF Screened
  <2> QED
    BY <2>4, <2>5, <2>6
<1>7. CASE GuardrailFails(c)
  <2> DEFINE new == [local[c] EXCEPT !.models = {}, !.doubted = TRUE]
  <2>1. Plain(local[c]) /\ InForce(local[c].bound) \in demand[c] /\ UNCHANGED demand
    BY <1>7 DEF Screened, GuardrailFails, PassAccess, historyVars
  <2>2. new.text = "raw" /\ new.decision = "allow" /\ new.doubted = TRUE
    BY <1>0, <2>1 DEF Plain, Locals
  <2>3. Proceed(c, "provider", new)
    BY <1>7 DEF GuardrailFails
  <2> HIDE DEF new
  <2>4. pc'[c] = "provider" /\ local'[c] = new
    BY <1>0, <2>3 DEF Proceed, Goto, HandlerTypeOK
  <2> QED
    BY <2>1, <2>2, <2>4 DEF Screened, AsDemanded
<1>8. CASE RecordResult(c) \/ RecordFails(c)
  <2>1. PICK p \in demand[c] \ {NoPolicy} :
          /\ local[c].decision = Decision(p, ContentOf[c])
          /\ local[c].text = TextAfter(Decision(p, ContentOf[c]))
    BY <1>8 DEF Screened, RecordResult, RecordFails
  <2>2. CASE Leave(c, "log")
    BY <1>0, <2>2, ScreenedEnds
  <2>3. CASE Goto(c, "provider") /\ UNCHANGED <<local, historyVars>> /\ local[c].decision # "block"
    <3>1. pc'[c] = "provider" /\ local' = local /\ demand' = demand
      BY <1>0, <2>3 DEF Goto, HandlerTypeOK, historyVars
    <3>2. AsDemanded(local[c], p, ContentOf[c])
      BY <2>1, <2>3, DecisionIsRight DEF AsDemanded, TextAfter
    <3> QED
      BY <2>1, <3>1, <3>2 DEF Screened
  <2>4. CASE RecordFails(c)
    <3> DEFINE new == [local[c] EXCEPT !.doubted = TRUE]
    <3>1. Proceed(c, "provider", new) /\ demand' = demand
      BY <2>4 DEF RecordFails, historyVars
    <3>2. new.doubted = TRUE /\ new.text = local[c].text /\ new.decision = local[c].decision
      BY <1>0 DEF Locals
    <3> HIDE DEF new
    <3>3. pc'[c] = "provider" /\ local'[c] = new
      BY <1>0, <3>1 DEF Proceed, Goto, HandlerTypeOK
    <3>4. AsDemanded(new, p, ContentOf[c])
      BY <2>1, <3>2, DecisionIsRight DEF AsDemanded, TextAfter
    <3> QED
      BY <2>1, <3>1, <3>3, <3>4 DEF Screened
  <2> QED
    BY <1>8, <2>2, <2>3, <2>4 DEF RecordResult
<1>9. CASE Settle(c) \/ SettleFails(c)
  BY <1>0, <1>9 DEF Settle, SettleFails, Goto, Screened, Plain, HandlerTypeOK, historyVars
<1> QED
  BY <1>1, <1>2, <1>3, <1>4, <1>5, <1>6, <1>7, <1>8, <1>9 DEF Step

LEMMA ScreenedNext ==
  ASSUME TypeOK, \A c \in Calls : Screened(c), [Next]_vars
  PROVE  \A c \in Calls : Screened(c)'
<1> SUFFICES ASSUME NEW d \in Calls PROVE Screened(d)'
  OBVIOUS
<1>1. ASSUME NEW c \in Calls, Arrive(c) \/ Step(c)
      PROVE  Screened(d)'
  <2>1. CASE d = c
    BY <1>1, <2>1, ScreenedStep
  <2>2. CASE d # c
    <3>1. Untouched(d) /\ UNCHANGED policies
      BY <1>1, <2>2, StepFrame, StepTables
    <3>2. pc[d] = "access" => InForce(local[d].bound)' \in demand'[d]
      BY <3>1 DEF Untouched, Screened, InForce
    <3> QED
      BY <3>1, <3>2, ScreenedKeeps DEF Untouched
  <2> QED
    BY <2>1, <2>2
<1>2. CASE KeyStep \/ LimitStep \/ NewMonth \/ UNCHANGED vars
  <2>1. UNCHANGED <<pc, local, demand, policies>>
    BY <1>2 DEF KeyStep, LimitStep, NewMonth, vars, callVars, historyVars
  <2>2. pc[d] = "access" => InForce(local[d].bound)' \in demand'[d]
    BY <2>1 DEF Screened, InForce
  <2> QED
    BY <2>1, <2>2, ScreenedKeeps
<1>3. CASE PolicyStep
  <2>1. UNCHANGED <<pc, local>>
    BY <1>3 DEF PolicyStep, callVars
  <2>2. demand' = [c \in Calls |-> IF pc[c] \in {"access", "record", "provider"}
                     THEN demand[c] \cup {InForce(local[c].bound)'} ELSE {}]
    BY <1>3 DEF PolicyStep
  <2>3. pc[d] \in {"access", "record", "provider"} =>
          demand'[d] = demand[d] \cup {InForce(local[d].bound)'}
    BY <2>2
  <2> QED
    BY <2>1, <2>3, ScreenedKeeps
<1> QED
  BY <1>1, <1>2, <1>3 DEF Next

\* No call reaches a provider with texts that every policy it may be served
\* under forbids, but for the two failures named.
THEOREM GuardrailsHold == Spec => []GuardrailHolds
<1>1. Init => \A c \in Calls : Screened(c)
  BY DEF Init, Screened, Plain, NoLocals
<1>2. (\A c \in Calls : Screened(c)) => GuardrailHolds
  BY DEF Screened, AsDemanded, GuardrailHolds
<1>3. TypeOK /\ (\A c \in Calls : Screened(c)) /\ [Next]_vars => (\A c \in Calls : Screened(c))'
  BY ScreenedNext
<1> QED
  BY <1>1, <1>2, <1>3, TypeInit, TypeNext, PTL DEF Spec

-----------------------------------------------------------------------------
(* Limits. *)

\* The month's spend or tokens have reached quota q.
MonthOver(q) ==
  \/ q.type = "spend_per_month" /\ settled >= q.limit
  \/ q.type = "tokens_per_month" /\ settled * TokensPerCall >= q.limit

\* A call that may still leave a usage row although a limit has been reached
\* by now: nothing it has yet to compare stops it.
Loose(c) ==
  /\ local[c].bound
  /\ \/ pc[c] \in {"access", "record", "provider", "settle"}
     \/ /\ pc[c] = "budget" /\ ~OverBudget(local[c].spend)
        /\ \A q \in ActiveQuotas : ~MonthOver(q)
     \/ pc[c] = "quotas" /\ \A q \in ActiveQuotas : ~MonthOver(q)
     \/ pc[c] = "rows" /\ \A q \in local[c].left : ~MonthOver(q)

\* A handler whose call is still loose has not used the row it may leave.
Bounded(c) == beyond[c] <= 1 + waved[c] /\ (Loose(c) => beyond[c] <= waved[c])

Overshot ==
  /\ ~LimitReached => \A c \in Calls : beyond[c] = 0
  /\ \A c \in Calls : Bounded(c)

LEMMA SignOfProduct ==
  ASSUME NEW a \in Nat \ {0}, NEW p \in Int
  PROVE  a * p \in Int /\ (a * p >= 0 <=> ~(p < 0))
<1>1. p >= 0 => a * p >= 0
  OBVIOUS
<1>2. p < 0 => a * p < 0
  OBVIOUS
<1> QED
  BY <1>1, <1>2

\* A budget's limit is negative just when its percentage is.
LEMMA NegativeBar ==
  ASSUME NEW b \in BudgetRows
  PROVE  b.amount * b.pct \in Int /\ (b.amount * b.pct >= 0 <=> ~(b.pct < 0))
<1>1. b.amount \in Nat \ {0} /\ b.pct \in Int
  BY DEF BudgetRows
<1> QED
  BY <1>1, SignOfProduct, Zenon

LEMMA BudgetsInForce ==
  ASSUME LimitTypeOK
  PROVE  /\ Enforced \subseteq BudgetRows
         /\ BudgetsOff <=> ~(\A b \in Enforced : b.amount * b.pct >= 0)
<1>1. Enforced \subseteq BudgetRows
  BY DEF Enforced, LimitTypeOK
<1> QED
  BY <1>1, NegativeBar DEF BudgetsOff, Enforced

\* A quota on the month has been reached.
QuotaReached == \E q \in ActiveQuotas : MonthOver(q)

LEMMA ReachedIs == LimitTypeOK => (LimitReached <=> OverBudget(settled) \/ QuotaReached)
<1> SUFFICES ASSUME LimitTypeOK PROVE LimitReached <=> OverBudget(settled) \/ QuotaReached
  OBVIOUS
<1>1. (\E b \in budgets : b.active /\ b.period = "monthly" /\ 100 * settled >= b.amount * b.pct)
        <=> \E b \in Enforced : 100 * settled >= b.amount * b.pct
  BY DEF Enforced
<1> QED
  BY <1>1, BudgetsInForce DEF LimitReached, OverBudget, ActiveQuotas, MonthOver, QuotaReached

LEMMA MonthOverIsOver ==
  ASSUME NEW q, MonthOver(q)
  PROVE  Compared(q) /\ OverQuota(q)
<1>1. CASE q.type = "spend_per_month" /\ settled >= q.limit
  BY <1>1 DEF Compared, OverQuota, Current, Spent
<1>2. CASE q.type = "tokens_per_month" /\ settled * TokensPerCall >= q.limit
  BY <1>2 DEF Compared, OverQuota, Current, Tokens
<1> QED
  BY <1>1, <1>2 DEF MonthOver

\* Within a month limits are added and usage grows.
Tightened ==
  /\ settled' \in {settled, settled + 1}
  /\ budgets \subseteq budgets' /\ quotas \subseteq quotas'

LEMMA OverGrows ==
  ASSUME LimitTypeOK, settled' \in {settled, settled + 1}
  PROVE  \A q \in Quotas : MonthOver(q) => MonthOver(q)'
<1>1. settled \in Nat /\ TokensPerCall \in Nat
  BY LimitConstants DEF LimitTypeOK
<1>2. /\ settled * TokensPerCall \in Nat
      /\ (settled + 1) * TokensPerCall = settled * TokensPerCall + TokensPerCall
  BY <1>1
<1>3. ASSUME NEW q \in Quotas, MonthOver(q)
      PROVE  MonthOver(q)'
  <2>1. q.limit \in Nat
    BY LimitConstants
  <2>2. settled >= q.limit => settled' >= q.limit
    BY <1>1, <2>1
  <2> DEFINE tokens == settled * TokensPerCall
             after == settled' * TokensPerCall
  <2>3. after = tokens \/ after = tokens + TokensPerCall
    BY <1>2
  <2>4. tokens \in Nat
    BY <1>2
  <2> HIDE DEF tokens, after
  <2>5. tokens >= q.limit => after >= q.limit
    BY <1>1, <2>1, <2>3, <2>4
  <2> QED
    BY <1>3, <2>2, <2>5 DEF MonthOver, tokens, after
<1> QED
  BY <1>3

LEMMA StillReached ==
  ASSUME NEW n \in Nat, NEW m \in Nat, m >= n, NEW bar \in Int, 100 * n >= bar
  PROVE  100 * m >= bar
OBVIOUS

LEMMA SpendGrows ==
  ASSUME LimitTypeOK, settled' \in {settled, settled + 1}, budgets' = budgets
  PROVE  OverBudget(settled) => OverBudget(settled)'
<1>1. settled \in Nat /\ settled' \in Nat /\ settled' >= settled
  BY DEF LimitTypeOK
<1>2. ASSUME NEW b \in Enforced, 100 * settled >= b.amount * b.pct
      PROVE  100 * settled' >= b.amount * b.pct
  <2> DEFINE bar == b.amount * b.pct
  <2>1. bar \in Int
    BY BudgetsInForce, NegativeBar, Zenon
  <2>2. 100 * settled >= bar
    BY <1>2
  <2> HIDE DEF bar
  <2>3. 100 * settled' >= bar
    BY <1>1, <2>1, <2>2, StillReached, Zenon
  <2> QED
    BY <2>3 DEF bar
<1> QED
  BY <1>2 DEF OverBudget, Enforced

\* While no budget is added, a limit once reached stays reached.
LEMMA ReachedGrows ==
  ASSUME LimitTypeOK, LimitTypeOK', Tightened, budgets' = budgets, LimitReached
  PROVE  LimitReached'
<1>1. LimitReached' <=> OverBudget(settled)' \/ QuotaReached'
  BY ReachedIs, PTL
<1>2. OverBudget(settled) => OverBudget(settled)'
  BY SpendGrows DEF Tightened
<1>3. ASSUME QuotaReached PROVE QuotaReached'
  <2>1. PICK q \in ActiveQuotas : MonthOver(q)
    BY <1>3 DEF QuotaReached
  <2>2. q \in ActiveQuotas' /\ q \in Quotas
    BY DEF ActiveQuotas, Tightened, LimitTypeOK
  <2>3. MonthOver(q)'
    BY <2>1, <2>2, OverGrows DEF Tightened
  <2> QED
    BY <2>2, <2>3 DEF QuotaReached
<1> QED
  BY <1>1, <1>2, <1>3, ReachedIs

\* What others do makes no call loose within the month, unless a negative
\* budget takes the last limit reached out of force.
LEMMA LooseShrinks ==
  ASSUME TypeOK, LimitTypeOK', Tightened, budgets' = budgets \/ LimitReached',
         NEW c \in Calls, pc'[c] = pc[c], local'[c] = local[c], Loose(c)'
  PROVE  Loose(c)
<1>0. LimitTypeOK /\ HandlerTypeOK /\ local[c].spend \in Nat /\ local[c].left \subseteq Quotas
  BY LocalFields DEF TypeOK, HandlerTypeOK
<1>1. ActiveQuotas \subseteq ActiveQuotas' /\ ActiveQuotas \subseteq Quotas
  BY <1>0 DEF ActiveQuotas, Tightened, LimitTypeOK
<1>2. \A q \in Quotas : MonthOver(q) => MonthOver(q)'
  BY <1>0, OverGrows DEF Tightened
<1>3. (\A q \in ActiveQuotas' : ~MonthOver(q)') => \A q \in ActiveQuotas : ~MonthOver(q)
  BY <1>1, <1>2
<1>4. ASSUME OverBudget(local[c].spend), \A q \in ActiveQuotas' : ~MonthOver(q)'
      PROVE  OverBudget(local[c].spend)'
  <2>1. Enforced \subseteq Enforced'
    BY DEF Enforced, Tightened
  <2>2. CASE budgets' = budgets
    BY <1>4, <2>2 DEF OverBudget, Enforced
  <2>3. CASE LimitReached'
    <3>1. OverBudget(settled)'
      <4>1. LimitReached' <=> OverBudget(settled)' \/ QuotaReached'
        BY ReachedIs, PTL
      <4> QED
        BY <1>4, <2>3, <4>1 DEF QuotaReached
    <3> QED
      BY <1>4, <2>1, <3>1 DEF OverBudget
  <2> QED
    BY <2>2, <2>3
<1>5. pc[c] = "rows" /\ (\A q \in local'[c].left : ~MonthOver(q)')
        => \A q \in local[c].left : ~MonthOver(q)
  BY <1>0, <1>2
<1> QED
  BY <1>3, <1>4, <1>5 DEF Loose

\* Where a step leaves the handler.
LEMMA Landing ==
  ASSUME HandlerTypeOK, NEW c \in Calls
  PROVE  /\ \A label, new : Proceed(c, label, new) => pc'[c] = label /\ local'[c] = new
         /\ \A new : ToAccess(c, new) => pc'[c] = "access" /\ local'[c] = new
         /\ \A label : Leave(c, label) => pc'[c] = label /\ local'[c].bound = local[c].bound
         /\ Return(c) => pc'[c] = "idle"
         /\ \A label : Goto(c, label) => pc'[c] = label
<1>1. ASSUME NEW label, NEW new, Proceed(c, label, new)
      PROVE  pc'[c] = label /\ local'[c] = new
  BY <1>1 DEF Proceed, Goto, HandlerTypeOK
<1>2. ASSUME NEW label, Leave(c, label)
      PROVE  pc'[c] = label /\ local'[c].bound = local[c].bound
  <2> DEFINE new == [NoLocals EXCEPT !.bound = local[c].bound]
  <2>1. Proceed(c, label, new)
    BY <1>2 DEF Leave
  <2>2. new.bound = local[c].bound
    BY DEF NoLocals
  <2> HIDE DEF new
  <2> QED
    BY <1>1, <2>1, <2>2
<1>3. ASSUME NEW new, ToAccess(c, new)
      PROVE  pc'[c] = "access" /\ local'[c] = new
  BY <1>1, <1>3 DEF ToAccess
<1>4. Return(c) => pc'[c] = "idle"
  BY <1>1 DEF Return
<1>5. \A label : Goto(c, label) => pc'[c] = label
  BY DEF Goto, HandlerTypeOK
<1> QED
  BY <1>1, <1>2, <1>3, <1>4, <1>5

\* No step of a handler but the settlement counts a row or moves the month.
LEMMA StepCounts ==
  ASSUME TypeOK, NEW c \in Calls, Arrive(c) \/ Step(c), ~Settle(c)
  PROVE  /\ UNCHANGED <<beyond, settled, budgets, quotas>>
         /\ waved'[c] = waved[c] \/ waved'[c] = waved[c] + 1
         /\ CheckFails(c) => waved'[c] = waved[c] + 1
<1>0. HandlerTypeOK
  BY DEF TypeOK, HandlerTypeOK
<1>1. CASE Arrive(c) \/ Authenticate(c) \/ RefuseKey(c)
  BY <1>1 DEF Arrive, Authenticate, RefuseKey, SameTables, limitVars, Return, CheckFails
<1>2. CASE CheckFails(c)
  BY <1>0, <1>2 DEF CheckFails, SameTables, limitVars, HandlerTypeOK
<1>3. CASE CheckStep(c) /\ ~CheckFails(c)
  BY <1>3 DEF CheckStep, ReadSpend, PassBudget, RefuseBudget, OpenQuotas, CompareQuota,
              RefuseQuota, CloseQuotas, SameTables, limitVars, Return, historyVars
<1>4. CASE TextStep(c)
  BY <1>4 DEF TextStep, RefuseAccess, PassAccess, ApplyGuardrails, GuardrailFails, RecordResult,
              RecordFails, SameTables, limitVars, Return, Leave, historyVars, CheckFails
<1>5. CASE EndStep(c)
  BY <1>5 DEF EndStep, CallFails, ProviderAnswers, RefuseTokens, SettleFails, Log, LogFails,
              SameTables, limitVars, RecordRequestLog, Return, Leave, historyVars, CheckFails
<1> QED
  BY <1>1, <1>2, <1>3, <1>4, <1>5, StepParts

\* A call becomes loose only because no limit has been reached yet, or because
\* its check failed.
LEMMA LooseStep ==
  ASSUME TypeOK, NEW c \in Calls, Arrive(c) \/ Step(c), ~Settle(c), ~CheckFails(c), Loose(c)'
  PROVE  Loose(c) \/ ~LimitReached
<1>0. HandlerTypeOK /\ local[c] \in Locals /\ UNCHANGED <<settled, budgets, quotas>>
  BY StepCounts, LocalFields DEF TypeOK, HandlerTypeOK
<1>1. ActiveQuotas' = ActiveQuotas /\ \A q : MonthOver(q) <=> MonthOver(q)'
  BY <1>0 DEF ActiveQuotas, MonthOver
<1>2. /\ local'[c].bound
      /\ pc'[c] \in {"access", "record", "provider", "settle", "budget", "quotas", "rows"}
      /\ pc'[c] = "quotas" => \A q \in ActiveQuotas : ~MonthOver(q)
      /\ pc'[c] = "rows" => \A q \in local'[c].left : ~MonthOver(q)
  BY <1>1 DEF Loose
<1>3. CASE Arrive(c)
  BY <1>0, <1>2, <1>3, Landing DEF Arrive
<1>4. CASE Authenticate(c)
  <2> DEFINE row == apiKeys[KeyOf[c]]
             read == [NoLocals EXCEPT !.bound = row.bound, !.models = row.models]
  <2>1. \/ Proceed(c, "spend", read)
        \/ ~row.bound /\ ToAccess(c, read)
    BY <1>4 DEF Authenticate
  <2>2. row \in KeyRows
    BY <1>4, GateConstants DEF TypeOK, KeyTypeOK, Authenticate, MayBeValid
  <2>3. read.bound = row.bound
    BY DEF NoLocals
  <2> HIDE DEF read
  <2> QED
    BY <1>0, <1>2, <2>1, <2>3, Landing
<1>5. CASE RefuseKey(c) \/ RefuseBudget(c) \/ RefuseQuota(c) \/ RefuseAccess(c)
           \/ RefuseTokens(c) \/ Log(c) \/ LogFails(c)
  BY <1>0, <1>2, <1>5, Landing
     DEF RefuseKey, RefuseBudget, RefuseQuota, RefuseAccess, RefuseTokens, Log, LogFails
<1>6. CASE ReadSpend(c)
  <2> DEFINE new == [local[c] EXCEPT !.spend = settled]
  <2>1. Proceed(c, "budget", new)
    BY <1>6 DEF ReadSpend, Spent
  <2>2. new.spend = settled
    BY <1>0 DEF Locals
  <2> HIDE DEF new
  <2>3. pc'[c] = "budget" /\ local'[c].spend = settled
    BY <1>0, <2>1, <2>2, Landing
  <2>4. ~OverBudget(local[c].spend)' /\ \A q \in ActiveQuotas : ~MonthOver(q)
    BY <1>1, <2>3 DEF Loose
  <2>5. ~OverBudget(settled)
    BY <1>0, <2>3, <2>4 DEF OverBudget, Enforced
  <2> QED
    BY <2>4, <2>5, ReachedIs DEF TypeOK, QuotaReached
<1>7. CASE PassBudget(c)
  <2> DEFINE new == [local[c] EXCEPT !.spend = 0]
  <2>1. Proceed(c, "quotas", new) /\ pc[c] = "budget" /\ ~OverBudget(local[c].spend)
    BY <1>7 DEF PassBudget
  <2>2. new.bound = local[c].bound
    BY <1>0 DEF Locals
  <2> HIDE DEF new
  <2>3. pc'[c] = "quotas" /\ local'[c].bound = local[c].bound
    BY <1>0, <2>1, <2>2, Landing
  <2> QED
    BY <1>2, <2>1, <2>3 DEF Loose
<1>8. CASE OpenQuotas(c)
  <2> DEFINE new == [local[c] EXCEPT !.left = ActiveQuotas]
  <2>1. Proceed(c, "rows", new) /\ pc[c] = "quotas"
    BY <1>8 DEF OpenQuotas
  <2>2. new.bound = local[c].bound /\ new.left = ActiveQuotas
    BY <1>0 DEF Locals
  <2> HIDE DEF new
  <2>3. pc'[c] = "rows" /\ local'[c].bound = local[c].bound /\ local'[c].left = ActiveQuotas
    BY <1>0, <2>1, <2>2, Landing
  <2> QED
    BY <1>2, <2>1, <2>3 DEF Loose
<1>9. CASE CompareQuota(c)
  <2>1. PICK q \in local[c].left :
          /\ pc[c] = "rows" /\ (Compared(q) => ~OverQuota(q))
          /\ Proceed(c, "rows", [local[c] EXCEPT !.left = local[c].left \ {q}])
    BY <1>9 DEF CompareQuota
  <2> DEFINE new == [local[c] EXCEPT !.left = local[c].left \ {q}]
  <2>2. new.bound = local[c].bound /\ new.left = local[c].left \ {q} /\ Proceed(c, "rows", new)
    BY <1>0, <2>1 DEF Locals
  <2> HIDE DEF new
  <2>3. /\ pc'[c] = "rows" /\ local'[c].bound = local[c].bound
        /\ local'[c].left = local[c].left \ {q}
    BY <1>0, <2>2, Landing
  <2>4. ~MonthOver(q)
    BY <2>1, MonthOverIsOver
  <2> QED
    BY <1>2, <2>1, <2>3, <2>4 DEF Loose
<1>10. CASE CloseQuotas(c)
  BY <1>0, <1>2, <1>10, Landing DEF CloseQuotas, Loose
<1>11. CASE ApplyGuardrails(c) \/ GuardrailFails(c)
  <2> DEFINE decided == Decision(InForce(local[c].bound), ContentOf[c])
             plain == [local[c] EXCEPT !.models = {}]
             marked == [local[c] EXCEPT !.models = {}, !.decision = decided,
                                        !.text = TextAfter(decided)]
             doubted == [local[c] EXCEPT !.models = {}, !.doubted = TRUE]
  <2>1. \/ Proceed(c, "provider", plain) \/ Proceed(c, "record", marked)
        \/ Proceed(c, "provider", doubted)
    BY <1>11 DEF ApplyGuardrails, GuardrailFails
  <2>2. /\ plain.bound = local[c].bound /\ marked.bound = local[c].bound
        /\ doubted.bound = local[c].bound
    BY <1>0 DEF Locals
  <2> HIDE DEF plain, marked, doubted
  <2>3. local[c].bound /\ pc[c] = "access"
    BY <1>0, <1>2, <1>11, <2>1, <2>2, Landing DEF ApplyGuardrails, GuardrailFails, PassAccess
  <2> QED
    BY <2>3 DEF Loose
<1>12. CASE RecordResult(c)
  <2>1. CASE Leave(c, "log")
    BY <1>0, <1>2, <2>1, Landing
  <2>2. CASE UNCHANGED local
    BY <1>2, <1>12, <2>2 DEF Loose, RecordResult
  <2> QED
    BY <1>12, <2>1, <2>2 DEF RecordResult
<1>13. CASE RecordFails(c)
  <2> DEFINE new == [local[c] EXCEPT !.doubted = TRUE]
  <2>1. new.bound = local[c].bound /\ Proceed(c, "provider", new) /\ pc[c] = "record"
    BY <1>0, <1>13 DEF RecordFails, Locals
  <2> HIDE DEF new
  <2>2. local[c].bound
    BY <1>0, <1>2, <2>1, Landing
  <2> QED
    BY <2>1, <2>2 DEF Loose
<1>14. CASE CallFails(c) \/ ProviderAnswers(c)
  <2>1. local[c].bound /\ pc[c] = "provider"
    BY <1>0, <1>2, <1>14, Landing DEF CallFails, ProviderAnswers
  <2> QED
    BY <2>1 DEF Loose
<1>15. CASE SettleFails(c)
  BY <1>0, <1>2, <1>15, Landing DEF SettleFails
<1> QED
  BY <1>3, <1>4, <1>5, <1>6, <1>7, <1>8, <1>9, <1>10, <1>11, <1>12, <1>13, <1>14, <1>15 DEF Step

LEMMA OvershotStep ==
  ASSUME TypeOK, Overshot, NEW c \in Calls, Arrive(c) \/ Step(c), ~Settle(c)
  PROVE  Overshot'
<1>0. /\ HandlerTypeOK
      /\ UNCHANGED <<beyond, settled, budgets, quotas>> /\ Tightened
      /\ waved'[c] = waved[c] \/ waved'[c] = waved[c] + 1
      /\ waved[c] \in Nat /\ beyond[c] \in Nat
  BY StepCounts DEF TypeOK, HandlerTypeOK, Tightened
<1>1. LimitReached' <=> LimitReached
  BY <1>0 DEF LimitReached, BudgetsOff
<1>t. LimitTypeOK'
  BY <1>0, TypeNext DEF TypeOK, LimitTypeOK, Next
<1>2. ASSUME NEW d \in Calls \ {c} PROVE Bounded(d)'
  BY <1>0, <1>t, <1>2, StepFrame, LooseShrinks DEF Untouched, Overshot, Bounded
<1>3. Bounded(c)'
  <2>1. beyond[c] <= 1 + waved'[c]
    BY <1>0 DEF Overshot, Bounded
  <2>2. ASSUME Loose(c)' PROVE beyond[c] <= waved'[c]
    <3>1. CASE CheckFails(c)
      BY <1>0, <3>1, StepCounts DEF Overshot, Bounded
    <3>2. CASE Loose(c)
      BY <1>0, <3>2 DEF Overshot, Bounded
    <3>3. CASE ~LimitReached
      BY <1>0, <3>3 DEF Overshot
    <3> QED
      BY <2>2, <3>1, <3>2, <3>3, LooseStep
  <2> QED
    BY <1>0, <2>1, <2>2 DEF Bounded
<1> QED
  BY <1>0, <1>1, <1>2, <1>3 DEF Overshot

LEMMA OvershotSettle ==
  ASSUME TypeOK, Overshot, NEW c \in Calls, Settle(c)
  PROVE  Overshot'
<1>0. /\ HandlerTypeOK /\ LimitTypeOK /\ waved' = waved /\ waved[c] \in Nat /\ beyond[c] \in Nat
      /\ pc'[c] = "log" /\ Tightened /\ Step(c) /\ settled \in Nat
  BY Landing DEF TypeOK, HandlerTypeOK, LimitTypeOK, Settle, Tightened, RecordUsage, limitVars, Step
<1>t. LimitTypeOK' /\ budgets' = budgets
  BY <1>0, TypeNext DEF TypeOK, Next, Settle, RecordUsage, limitVars
<1>1. ASSUME NEW d \in Calls \ {c}
      PROVE  Bounded(d)' /\ beyond'[d] = beyond[d]
  BY <1>0, <1>t, <1>1, StepFrame, LooseShrinks DEF Untouched, Overshot, Bounded
<1>2. LimitReached => LimitReached'
  BY <1>0, <1>t, ReachedGrows
<1>3. ~Loose(c)'
  BY <1>0 DEF Loose
<1>4. /\ beyond'[c] <= 1 + waved[c]
      /\ ~LimitReached => beyond'[c] = 0
  <2>1. CASE local[c].bound /\ LimitReached
    <3>1. Loose(c)
      BY <2>1 DEF Settle, Loose
    <3>2. beyond'[c] = beyond[c] + 1
      BY <1>0, <2>1 DEF Settle, HandlerTypeOK
    <3> QED
      BY <1>0, <2>1, <3>1, <3>2 DEF Overshot, Bounded
  <2>2. CASE ~(local[c].bound /\ LimitReached)
    <3>1. beyond'[c] = beyond[c]
      BY <2>2 DEF Settle
    <3> QED
      BY <1>0, <3>1 DEF Overshot, Bounded
  <2> QED
    BY <2>1, <2>2
<1>5. Bounded(c)'
  BY <1>0, <1>3, <1>4 DEF Bounded
<1>6. ~LimitReached' => \A d \in Calls : beyond'[d] = 0
  BY <1>1, <1>2, <1>4 DEF Overshot
<1> QED
  BY <1>1, <1>5, <1>6 DEF Overshot

LEMMA OvershotOthers ==
  ASSUME TypeOK, Overshot, KeyStep \/ LimitStep \/ PolicyStep \/ UNCHANGED vars
  PROVE  Overshot'
<1>0. UNCHANGED <<pc, local, waved>> /\ waved \in [Calls -> Nat] /\ LimitTypeOK'
  BY TypeNext DEF Next, TypeOK, KeyStep, LimitStep, PolicyStep, vars, callVars, historyVars
<1>1. Tightened
  BY DEF KeyStep, LimitStep, PolicyStep, vars, limitVars, CreateBudget, CreateQuota,
         UpsertWorkspaceQuota, LogAges, Tightened
<1>2. CASE ~LimitStep
  <2>1. UNCHANGED <<limitVars, beyond>>
    BY <1>2 DEF KeyStep, PolicyStep, vars, historyVars
  <2>2. LimitReached' <=> LimitReached
    BY <2>1 DEF limitVars, LimitReached, BudgetsOff
  <2>3. ASSUME NEW c \in Calls PROVE Bounded(c)'
    BY <1>0, <1>1, <2>1, LooseShrinks DEF Overshot, Bounded, limitVars
  <2> QED
    BY <2>1, <2>2, <2>3 DEF Overshot
<1>3. CASE LimitStep /\ LimitReached'
  <2>1. beyond' = beyond
    BY <1>3 DEF LimitStep
  <2>2. ASSUME NEW c \in Calls PROVE Bounded(c)'
    BY <1>0, <1>1, <1>3, <2>1, LooseShrinks DEF Overshot, Bounded
  <2> QED
    BY <1>3, <2>2 DEF Overshot
<1>4. CASE LimitStep /\ ~LimitReached'
  <2>1. \A c \in Calls : beyond'[c] = 0 /\ waved'[c] \in Nat
    BY <1>0, <1>4 DEF LimitStep
  <2> QED
    BY <2>1 DEF Overshot, Bounded
<1> QED
  BY <1>2, <1>3, <1>4

LEMMA OvershotMonth ==
  ASSUME TypeOK, NewMonth
  PROVE  Overshot'
BY DEF NewMonth, Overshot, Bounded

LEMMA OvershotNext ==
  ASSUME TypeOK, Overshot, [Next]_vars
  PROVE  Overshot'
BY OvershotStep, OvershotSettle, OvershotOthers, OvershotMonth DEF Next

\* Beyond a limit that has been reached each handler brings at most one call,
\* but for those whose check failed.
THEOREM OvershootBounded == Spec => []OvershootIsBounded
<1>1. Init => Overshot
  BY DEF Init, Overshot, Bounded
<1>2. Overshot => OvershootIsBounded
  BY DEF Overshot, Bounded, OvershootIsBounded
<1> QED
  BY <1>1, <1>2, TypeInit, TypeNext, OvershotNext, PTL DEF Spec

-----------------------------------------------------------------------------
(* The limit of requests per minute (RequestRate): sums and sets. *)

\* A set of times in which something was counted is no larger than the count.
LEMMA CountedOnce ==
  ASSUME NEW W, NEW f, NEW Z, Z \subseteq W, IsFiniteSet(Units(W, f)),
         \A z \in Z : f[z] \in Nat /\ f[z] >= 1
  PROVE  IsFiniteSet(Z) /\ Cardinality(Z) <= TotalOver(W, f)
<1> DEFINE first == [z \in Z |-> <<z, 1>>]
           U == Units(W, f)
<1>1. \A z \in Z : <<z, 1>> \in U
  <2> SUFFICES ASSUME NEW z \in Z PROVE <<z, 1>> \in U
    OBVIOUS
  <2>1. 1 \in 1..f[z]
    OBVIOUS
  <2>2. <<z, 1>> \in {z} \X (1..f[z])
    BY <2>1
  <2> QED
    BY <2>2 DEF Units
<1>2. first \in Injection(Z, U)
  BY <1>1 DEF Injection, IsInjective
<1>3. IsFiniteSet(U)
  OBVIOUS
<1> HIDE DEF first, U
<1>4. IsFiniteSet(Z) /\ Cardinality(Z) <= Cardinality(U)
  BY <1>2, <1>3, FS_Injection
<1> QED
  BY <1>4 DEF TotalOver, U

\* One more of one time is one more in all, wherever that time is counted, and
\* never less.
LEMMA OneMore ==
  ASSUME NEW W, NEW f, NEW g, NEW s, IsFiniteSet(Units(W, f)),
         \A w \in W : f[w] \in Nat /\ g[w] = IF w = s THEN f[w] + 1 ELSE f[w]
  PROVE  /\ IsFiniteSet(Units(W, g))
         /\ TotalOver(W, f) \in Nat /\ TotalOver(W, g) \in Nat
         /\ TotalOver(W, f) <= TotalOver(W, g)
         /\ s \in W => TotalOver(W, g) = TotalOver(W, f) + 1
<1>1. \A w \in W : f[w] \in Nat /\ g[w] = IF w = s THEN f[w] + 1 ELSE f[w]
  OBVIOUS
<1>2. CASE s \notin W
  <2>1. Units(W, g) = Units(W, f)
    BY <1>1, <1>2 DEF Units
  <2> QED
    BY <1>2, <2>1, FS_CardinalityType DEF TotalOver
<1>3. CASE s \in W
  <2> DEFINE new == <<s, f[s] + 1>>
  <2>1. Units(W, g) = Units(W, f) \cup {new}
    <3>1. ASSUME NEW w \in W
          PROVE  {w} \X (1..g[w]) = IF w = s THEN ({w} \X (1..f[w])) \cup {new} ELSE {w} \X (1..f[w])
      <4>1. f[w] \in Nat
        BY <1>1
      <4>2. w = s => 1..g[w] = (1..f[w]) \cup {f[w] + 1}
        BY <1>1, <4>1
      <4> QED
        BY <1>1, <4>2
    <3> QED
      BY <1>3, <3>1 DEF Units
  <2>2. new \notin Units(W, f)
    <3>1. f[s] \in Nat
      BY <1>1, <1>3
    <3>2. f[s] + 1 \notin 1..f[s]
      BY <3>1
    <3> QED
      BY <3>2 DEF Units
  <2> DEFINE U == Units(W, f)
  <2> HIDE DEF new, U
  <2>3. IsFiniteSet(U) /\ new \notin U /\ Units(W, g) = U \cup {new}
    BY <2>1, <2>2 DEF U
  <2>4. IsFiniteSet(U \cup {new}) /\ Cardinality(U \cup {new}) = Cardinality(U) + 1
    BY <2>3, FS_AddElement
  <2>5. /\ IsFiniteSet(Units(W, g))
        /\ Cardinality(Units(W, g)) = Cardinality(Units(W, f)) + 1
    BY <2>3, <2>4 DEF U
  <2> QED
    BY <1>3, <2>5, FS_CardinalityType DEF TotalOver
<1> QED
  BY <1>2, <1>3

-----------------------------------------------------------------------------
(* The invariant. *)

\* A pipeline in flight has read the clock no longer ago than its patience.
InTime == \A h \in Handlers : stage[h] # "idle" => now[h] <= clock /\ clock <= now[h] + Patience

\* What came in during the minute before a request, and beside it.
Beside(h) == TotalOver({t \in Times : t > now[h] - Minute}, attempts)

\* A member of the set is a request, and a count counts requests of the minute;
\* once it has added itself, a request is one more.
CountIsOfTheMinute(h) ==
  /\ stage[h] = "count" => \A z \in zset : z > now[h] - Minute
  /\ stage[h] = "add" => count[h] <= Beside(h)
  /\ stage[h] \in {"expire", "decide", "rejecting"} => count[h] + 1 <= Beside(h)
  /\ stage[h] = "rejecting" => count[h] >= Limit

CountsAreTrue ==
  /\ IsFiniteSet(Units(Times, attempts))
  /\ \A z \in zset : attempts[z] >= 1
  /\ \A h \in Handlers : CountIsOfTheMinute(h)

\* A key with a time to live lives two minutes from the last request that got
\* through.
Through(s) == admitted[s] > 0 \/ \E h \in Handlers : stage[h] = "decide" /\ now[h] = s
KeyLives ==
  \A s \in Times : Through(s) =>
    /\ s <= clock
    /\ zset = {} \/ expiry > MaxTime \/ expiry >= s + 2 * Minute

ReadBy(f, G) == {f[h] : h \in G}

\* Of a minute: the milliseconds with an admission, the handlers with a count
\* that will let them through, those that have added themselves and those that
\* are in flight.
Admissions(t) == {s \in WindowOf(t) : admitted[s] > 0}
InWindow(t) == {h \in Handlers : stage[h] # "idle" /\ now[h] \in WindowOf(t)}
Passing(t) == {h \in InWindow(t) : stage[h] \in {"add", "expire", "decide"} /\ count[h] < Limit}
Added(t) == {h \in InWindow(t) : stage[h] \in {"expire", "decide"}}

\* Until a later request cuts the window short, the set holds all that got
\* through, or will, but for what an expired key took along; ...
Taken(t) == (Admissions(t) \cup ReadBy(now, Added(t))) \ zset
Whole(t) ==
  /\ Cardinality(Taken(t)) <= Cardinality(Handlers)
  /\ Cardinality(Admissions(t) \cup ReadBy(now, Passing(t))) <= Limit + 2 * Cardinality(Handlers) - 1

\* ... and after that, only what is in flight can still get through.
CutShort(t) ==
  /\ clock > t
  /\ Cardinality(Admissions(t) \cup ReadBy(now, InWindow(t)))
       <= Limit + 2 * (Cardinality(Handlers) - 1) + Cardinality(Handlers)

RateInv ==
  /\ RateTypeOK /\ InTime /\ CountsAreTrue /\ KeyLives
  /\ \A t \in Times : Whole(t) \/ CutShort(t)

-----------------------------------------------------------------------------
(* Types, and time in flight. *)

LEMMA RateStarts ==
  ASSUME RateInit
  PROVE  RateTypeOK /\ InTime
BY RateConstants DEF RateInit, RateTypeOK, InTime, Times

LEMMA TypesStay ==
  ASSUME RateTypeOK, InTime, [RateNext]_rateVars
  PROVE  RateTypeOK' /\ InTime'
<1> DEFINE Stages == {"idle", "remove", "count", "add", "expire", "decide", "rejecting"}
<1>t. /\ MaxTime \in Nat /\ Minute \in Nat /\ Patience \in Nat /\ 0 \in Times /\ Times \subseteq Nat
      /\ clock \in Times /\ clock \in Nat /\ stage \in [Handlers -> Stages]
      /\ now \in [Handlers -> Times] /\ count \in [Handlers -> Nat]
      /\ zset \subseteq 0..clock /\ expiry \in 0..(MaxTime + 2 * Minute + 1)
      /\ attempts \in [Times -> Nat] /\ admitted \in [Times -> Nat]
  <2>1. MaxTime \in Nat /\ Minute \in Nat /\ Patience \in Nat
    BY RateConstants
  <2>2. 0 \in Times /\ Times \subseteq Nat
    BY <2>1 DEF Times
  <2>3. clock \in Times /\ clock \in Nat
    BY <2>2 DEF RateTypeOK
  <2> QED
    BY <2>1, <2>2, <2>3 DEF RateTypeOK
<1>c. MaxTime \in Nat /\ Minute \in Nat /\ Patience \in Nat /\ clock \in Nat
  BY <1>t
<1>z. zset \subseteq 0..clock /\ expiry \in 0..(MaxTime + 2 * Minute + 1)
  BY <1>t
<1>l. \A h \in Handlers : stage[h] # "idle" => now[h] <= clock /\ clock <= now[h] + Patience
  BY DEF InTime
\* A step of one handler that does not touch the clock.
<1>a. ASSUME NEW h \in Handlers, NEW s \in Stages, NEW n \in Times, NEW c \in Nat,
             stage' = [stage EXCEPT ![h] = s], now' = [now EXCEPT ![h] = n],
             count' = [count EXCEPT ![h] = c], clock' = clock,
             s = "idle" \/ n = clock \/ (stage[h] # "idle" /\ n = now[h]),
             zset' \subseteq 0..clock, expiry' \in 0..(MaxTime + 2 * Minute + 1),
             attempts' \in [Times -> Nat], admitted' \in [Times -> Nat]
      PROVE  RateTypeOK' /\ InTime'
  <2>1. /\ stage' \in [Handlers -> Stages] /\ now' \in [Handlers -> Times]
        /\ count' \in [Handlers -> Nat]
    BY <1>t, <1>a
  <2>2. ASSUME NEW g \in Handlers, stage'[g] # "idle"
        PROVE  now'[g] <= clock' /\ clock' <= now'[g] + Patience
    <3>1. CASE g # h
      BY <1>t, <1>l, <1>a, <2>2, <3>1
    <3>2. CASE g = h
      <4>1. stage'[g] = s /\ now'[g] = n
        BY <1>t, <1>a, <3>2
      <4>2. n <= clock /\ clock <= n + Patience
        BY <1>t, <1>l, <1>a, <2>2, <4>1
      <4> QED
        BY <1>a, <4>1, <4>2
    <3> QED
      BY <3>1, <3>2
  <2>3. InTime'
    BY <2>2 DEF InTime
  <2> QED
    BY <1>t, <1>a, <2>1, <2>3 DEF RateTypeOK
<1>b. ASSUME NEW h \in Handlers
      PROVE  /\ now = [now EXCEPT ![h] = now[h]] /\ now[h] \in Times
             /\ count = [count EXCEPT ![h] = count[h]] /\ count[h] \in Nat
             /\ now[h] \in Nat
  BY <1>t
<1>1. ASSUME NEW h \in Handlers, ReadClock(h)
      PROVE  RateTypeOK' /\ InTime'
  BY <1>t, <1>1, <1>a, <1>b DEF ReadClock, To
<1>2. ASSUME NEW h \in Handlers, RemoveExpired(h)
      PROVE  RateTypeOK' /\ InTime'
  BY <1>t, <1>2, <1>a, <1>b DEF RemoveExpired, To
<1>3. ASSUME NEW h \in Handlers, CountCurrent(h)
      PROVE  RateTypeOK' /\ InTime'
  <2>1. Cardinality(zset) \in Nat
    <3>1. IsFiniteSet(0..clock)
      BY <1>t, FS_Interval
    <3> QED
      BY <1>t, <3>1, FS_Subset, FS_CardinalityType
  <2> QED
    BY <1>t, <1>3, <1>a, <1>b, <2>1 DEF CountCurrent, To
<1>4. ASSUME NEW h \in Handlers, AddCurrent(h)
      PROVE  RateTypeOK' /\ InTime'
  <2>1. /\ stage[h] = "add" /\ zset' = zset \cup {now[h]}
        /\ expiry' = IF zset = {} THEN MaxTime + 1 ELSE expiry
        /\ attempts' = [attempts EXCEPT ![now[h]] = @ + 1]
        /\ stage' = [stage EXCEPT ![h] = "expire"]
        /\ UNCHANGED <<clock, now, count, admitted>>
    BY <1>4 DEF AddCurrent, To
  <2>2. zset' \subseteq 0..clock
    <3>1. now[h] \in Nat /\ now[h] <= clock /\ clock \in Nat
      BY <1>l, <1>c, <1>b, <2>1
    <3>2. now[h] \in 0..clock
      BY <3>1
    <3> QED
      BY <1>z, <2>1, <3>2
  <2>3. expiry' \in 0..(MaxTime + 2 * Minute + 1)
    <3>1. MaxTime + 1 \in 0..(MaxTime + 2 * Minute + 1)
      BY <1>c
    <3> QED
      BY <1>z, <2>1, <3>1
  <2>4. attempts' \in [Times -> Nat]
    BY <1>t, <1>b, <2>1
  <2>5. now' = [now EXCEPT ![h] = now[h]] /\ count' = [count EXCEPT ![h] = count[h]]
    BY <1>b, <2>1
  <2>6. /\ "expire" \in Stages /\ stage[h] # "idle" /\ admitted' \in [Times -> Nat]
        /\ now[h] \in Times /\ count[h] \in Nat
        /\ stage' = [stage EXCEPT ![h] = "expire"] /\ clock' = clock
    BY <1>t, <1>b, <2>1
  <2> HIDE DEF Stages
  <2> QED
    BY <1>a, <2>2, <2>3, <2>4, <2>5, <2>6
<1>5. ASSUME NEW h \in Handlers, Expire(h)
      PROVE  RateTypeOK' /\ InTime'
  <2>1. clock + 2 * Minute \in 0..(MaxTime + 2 * Minute + 1)
    BY <1>t DEF Times
  <2>2. expiry' \in 0..(MaxTime + 2 * Minute + 1)
    BY <1>t, <1>5, <2>1 DEF Expire
  <2> QED
    BY <1>t, <1>5, <1>a, <1>b, <2>2 DEF Expire, To
<1>6. ASSUME NEW h \in Handlers, Allow(h) \/ AnswerRetryAfter(h) \/ FailOpen(h)
      PROVE  RateTypeOK' /\ InTime'
  <2>1. admitted' \in [Times -> Nat]
    BY <1>t, <1>6 DEF Allow, AnswerRetryAfter, FailOpen
  <2>2. Finish(h) /\ UNCHANGED <<clock, zset, expiry, attempts>>
    BY <1>6 DEF Allow, AnswerRetryAfter, FailOpen
  <2>3. /\ stage' = [stage EXCEPT ![h] = "idle"] /\ now' = [now EXCEPT ![h] = 0]
        /\ count' = [count EXCEPT ![h] = 0] /\ clock' = clock
        /\ zset' = zset /\ expiry' = expiry /\ attempts' = attempts
    BY <2>2 DEF Finish, To
  <2>4. "idle" \in Stages /\ 0 \in Times /\ 0 \in Nat
    BY <1>t
  <2>5. /\ zset' \subseteq 0..clock /\ expiry' \in 0..(MaxTime + 2 * Minute + 1)
        /\ attempts' \in [Times -> Nat]
    BY <1>t, <2>3
  <2> HIDE DEF Stages
  <2> QED
    BY <1>a, <2>1, <2>3, <2>4, <2>5
<1>7. ASSUME NEW h \in Handlers, Reject(h)
      PROVE  RateTypeOK' /\ InTime'
  BY <1>t, <1>7, <1>a, <1>b DEF Reject, To
<1>8. CASE Tick
  <2>1. clock' = clock + 1 /\ clock' \in Times
    BY <1>t, <1>8 DEF Tick, Times
  <2>2. zset' \subseteq 0..clock'
    <3>1. 0..clock \subseteq 0..clock'
      BY <1>c, <2>1
    <3>2. zset' \subseteq zset
      BY <1>8 DEF Tick
    <3> QED
      BY <1>z, <3>1, <3>2
  <2>3. InTime'
    <3> SUFFICES ASSUME NEW h \in Handlers, stage[h] # "idle"
                 PROVE  now[h] <= clock + 1 /\ clock + 1 <= now[h] + Patience
      BY <1>8 DEF Tick, InTime
    <3>1. now[h] <= clock /\ clock < now[h] + Patience
      BY <1>8, <1>l DEF Tick
    <3> QED
      BY <1>b, <1>c, <3>1
  <2> QED
    BY <1>t, <1>8, <2>1, <2>2, <2>3 DEF Tick, RateTypeOK
<1>9. CASE UNCHANGED rateVars
  BY <1>9 DEF rateVars, RateTypeOK, InTime
<1> QED
  BY <1>1, <1>2, <1>3, <1>4, <1>5, <1>6, <1>7, <1>8, <1>9 DEF RateNext, checkRPM

-----------------------------------------------------------------------------
(* The counts. *)

LEMMA RangesOfTime ==
  ASSUME RateTypeOK, IsFiniteSet(Units(Times, attempts)), NEW W \in SUBSET Times
  PROVE  /\ IsFiniteSet(Times) /\ IsFiniteSet(W)
         /\ IsFiniteSet(Units(W, attempts)) /\ TotalOver(W, attempts) \in Nat
<1>1. IsFiniteSet(Times)
  BY RateConstants, FS_Interval DEF Times
<1>2. IsFiniteSet(W)
  BY <1>1, FS_Subset
<1>3. Units(W, attempts) \subseteq Units(Times, attempts)
  BY DEF Units
<1>4. IsFiniteSet(Units(W, attempts))
  BY <1>3, FS_Subset
<1> QED
  BY <1>1, <1>2, <1>4, FS_CardinalityType DEF TotalOver

LEMMA CountsStart ==
  ASSUME RateInit
  PROVE  CountsAreTrue
<1>1. Units(Times, attempts) = {}
  BY DEF RateInit, Units
<1>2. IsFiniteSet({})
  BY FS_EmptySet
<1> QED
  BY <1>1, <1>2 DEF RateInit, CountsAreTrue, CountIsOfTheMinute

\* A step of one handler that adds no request.
LEMMA CountStays ==
  ASSUME RateTypeOK, CountsAreTrue, attempts' = attempts, zset' \subseteq zset,
         NEW h \in Handlers, stage'[h] = stage[h], now'[h] = now[h], count'[h] = count[h]
  PROVE  CountIsOfTheMinute(h)'
BY DEF CountsAreTrue, CountIsOfTheMinute, Beside

LEMMA CountsStay ==
  ASSUME RateTypeOK, InTime, CountsAreTrue, [RateNext]_rateVars
  PROVE  CountsAreTrue'
<1>a. ASSUME attempts' = attempts, zset' \subseteq zset, NEW h \in Handlers, CountIsOfTheMinute(h)',
             \A g \in Handlers \ {h} : stage'[g] = stage[g] /\ now'[g] = now[g] /\ count'[g] = count[g]
      PROVE  CountsAreTrue'
  BY <1>a, CountStays DEF CountsAreTrue
<1>b. ASSUME NEW h \in Handlers, Finish(h), attempts' = attempts, zset' = zset
      PROVE  CountsAreTrue'
  <2>1. CountIsOfTheMinute(h)'
    BY <1>b DEF Finish, To, CountIsOfTheMinute, RateTypeOK
  <2>2. \A g \in Handlers \ {h} : stage'[g] = stage[g] /\ now'[g] = now[g] /\ count'[g] = count[g]
    BY <1>b DEF Finish, To, RateTypeOK
  <2> QED
    BY <1>a, <1>b, <2>1, <2>2
<1>1. ASSUME NEW h \in Handlers, ReadClock(h)
      PROVE  CountsAreTrue'
  <2>1. CountIsOfTheMinute(h)'
    BY <1>1 DEF ReadClock, To, CountIsOfTheMinute, RateTypeOK
  <2>2. \A g \in Handlers \ {h} : stage'[g] = stage[g] /\ now'[g] = now[g] /\ count'[g] = count[g]
    BY <1>1 DEF ReadClock, To, RateTypeOK
  <2> QED
    BY <1>1, <1>a, <2>1, <2>2 DEF ReadClock
<1>2. ASSUME NEW h \in Handlers, RemoveExpired(h)
      PROVE  CountsAreTrue'
  <2>1. CountIsOfTheMinute(h)'
    BY <1>2 DEF RemoveExpired, To, CountIsOfTheMinute, RateTypeOK
  <2>2. \A g \in Handlers \ {h} : stage'[g] = stage[g] /\ now'[g] = now[g] /\ count'[g] = count[g]
    BY <1>2 DEF RemoveExpired, To, RateTypeOK
  <2> QED
    BY <1>2, <1>a, <2>1, <2>2 DEF RemoveExpired
<1>3. ASSUME NEW h \in Handlers, CountCurrent(h)
      PROVE  CountsAreTrue'
  <2> DEFINE W == {t \in Times : t > now[h] - Minute}
  <2>1. IsFiniteSet(Units(W, attempts))
    BY RangesOfTime DEF CountsAreTrue
  <2>2. \A z \in zset : attempts[z] \in Nat /\ attempts[z] >= 1
    BY RateConstants DEF CountsAreTrue, RateTypeOK, Times
  <2>3. zset \subseteq W
    BY <1>3, RateConstants DEF CountCurrent, CountsAreTrue, CountIsOfTheMinute, RateTypeOK, Times
  <2>4. Cardinality(zset) <= TotalOver(W, attempts)
    BY <2>1, <2>2, <2>3, CountedOnce
  <2>5. stage'[h] = "add" /\ count'[h] = Cardinality(zset) /\ now' = now /\ attempts' = attempts
    BY <1>3 DEF CountCurrent, To, RateTypeOK
  <2>6. Beside(h)' = TotalOver(W, attempts)
    BY <2>5 DEF Beside
  <2>7. CountIsOfTheMinute(h)'
    BY <2>4, <2>5, <2>6 DEF CountIsOfTheMinute
  <2>8. \A g \in Handlers \ {h} : stage'[g] = stage[g] /\ now'[g] = now[g] /\ count'[g] = count[g]
    BY <1>3 DEF CountCurrent, To, RateTypeOK
  <2> QED
    BY <1>3, <1>a, <2>7, <2>8 DEF CountCurrent
<1>4. ASSUME NEW h \in Handlers, AddCurrent(h)
      PROVE  CountsAreTrue'
  <2> DEFINE s == now[h]
             W(g) == {t \in Times : t > now[g] - Minute}
  <2>1. /\ s \in Times /\ attempts \in [Times -> Nat]
        /\ attempts' = [attempts EXCEPT ![s] = @ + 1] /\ zset' = zset \cup {s}
        /\ now' = now /\ count' = count
    BY <1>4 DEF AddCurrent, RateTypeOK
  <2>m. \A t \in Times : /\ attempts[t] \in Nat
                        /\ attempts'[t] = IF t = s THEN attempts[t] + 1 ELSE attempts[t]
    BY <2>1
  <2>2. \A g \in Handlers : stage'[g] = IF g = h THEN "expire" ELSE stage[g]
    BY <1>4 DEF AddCurrent, To, RateTypeOK
  <2>3. IsFiniteSet(Units(Times, attempts'))
    <3>1. IsFiniteSet(Units(Times, attempts))
      BY DEF CountsAreTrue
    <3> QED
      BY <2>m, <3>1, OneMore
  <2>4. \A z \in zset' : attempts'[z] >= 1
    <3>1. \A z \in zset : z \in Times
      BY RateConstants DEF RateTypeOK, Times
    <3> QED
      BY <2>1, <3>1 DEF CountsAreTrue
  <2>5. ASSUME NEW g \in Handlers
        PROVE  /\ Beside(g) \in Nat /\ Beside(g)' \in Nat /\ Beside(g) <= Beside(g)'
               /\ s \in W(g) => Beside(g)' = Beside(g) + 1
    <3>1. PICK V : V = W(g)
      OBVIOUS
    <3>2. IsFiniteSet(Units(V, attempts)) /\ V \subseteq Times
      BY <3>1, RangesOfTime DEF CountsAreTrue
    <3>3. Beside(g) = TotalOver(V, attempts) /\ Beside(g)' = TotalOver(V, attempts')
      BY <2>1, <3>1 DEF Beside
    <3>4. PICK e : e = s
      OBVIOUS
    <3>5. \A t \in V : /\ attempts[t] \in Nat
                      /\ attempts'[t] = IF t = e THEN attempts[t] + 1 ELSE attempts[t]
      BY <2>m, <3>2, <3>4
    <3>6. /\ TotalOver(V, attempts) \in Nat /\ TotalOver(V, attempts') \in Nat
          /\ TotalOver(V, attempts) <= TotalOver(V, attempts')
          /\ e \in V => TotalOver(V, attempts') = TotalOver(V, attempts) + 1
      <4> HIDE DEF s, W
      <4> QED
        BY <3>2, <3>5, OneMore
    <3> QED
      BY <3>1, <3>3, <3>4, <3>6
  <2>6. CountIsOfTheMinute(h)'
    <3>1. count[h] <= Beside(h) /\ count[h] \in Nat
      BY <1>4 DEF AddCurrent, CountsAreTrue, CountIsOfTheMinute, RateTypeOK
    <3>2. s \in W(h)
      BY <2>1, RateConstants DEF Times
    <3>3. Beside(h) \in Nat /\ Beside(h)' = Beside(h) + 1
      BY <2>5, <3>2
    <3>4. count'[h] + 1 <= Beside(h)'
      BY <2>1, <3>1, <3>3
    <3> QED
      BY <2>2, <3>4 DEF CountIsOfTheMinute
  <2>7. ASSUME NEW g \in Handlers \ {h}
        PROVE  CountIsOfTheMinute(g)'
    <3>1. stage'[g] = stage[g] /\ now'[g] = now[g] /\ count'[g] = count[g] /\ count[g] \in Nat
      BY <2>1, <2>2 DEF RateTypeOK
    <3>2. Beside(g) \in Nat /\ Beside(g)' \in Nat /\ Beside(g) <= Beside(g)'
      BY <2>5
    <3>3. stage[g] = "count" => s > now[g] - Minute
      <4>1. stage[h] = "add"
        BY <1>4 DEF AddCurrent
      <4>2. now[g] \in Int /\ now[h] \in Int /\ clock \in Int
        BY DEF RateTypeOK, Times
      <4> QED
        BY <4>1, <4>2, RateConstants DEF InTime
    <3>4. CountIsOfTheMinute(g)
      BY DEF CountsAreTrue
    <3>5. stage'[g] = "count" => \A z \in zset' : z > now'[g] - Minute
      BY <2>1, <3>1, <3>3, <3>4 DEF CountIsOfTheMinute
    <3>6. /\ stage'[g] = "add" => count'[g] <= Beside(g)'
          /\ stage'[g] \in {"expire", "decide", "rejecting"} => count'[g] + 1 <= Beside(g)'
          /\ stage'[g] = "rejecting" => count'[g] >= Limit
      BY <3>1, <3>2, <3>4 DEF CountIsOfTheMinute
    <3> QED
      BY <3>5, <3>6 DEF CountIsOfTheMinute
  <2> QED
    BY <2>3, <2>4, <2>6, <2>7 DEF CountsAreTrue
<1>5. ASSUME NEW h \in Handlers, Expire(h) \/ Reject(h)
      PROVE  CountsAreTrue'
  <2>1. CountIsOfTheMinute(h)'
    BY <1>5 DEF Expire, Reject, To, CountsAreTrue, CountIsOfTheMinute, Beside, RateTypeOK
  <2>2. \A g \in Handlers \ {h} : stage'[g] = stage[g] /\ now'[g] = now[g] /\ count'[g] = count[g]
    BY <1>5 DEF Expire, Reject, To, RateTypeOK
  <2> QED
    BY <1>5, <1>a, <2>1, <2>2 DEF Expire, Reject
<1>6. ASSUME NEW h \in Handlers, Allow(h) \/ AnswerRetryAfter(h) \/ FailOpen(h)
      PROVE  CountsAreTrue'
  BY <1>6, <1>b DEF Allow, AnswerRetryAfter, FailOpen
<1>7. CASE Tick \/ UNCHANGED rateVars
  <2>1. /\ attempts' = attempts /\ zset' \subseteq zset
        /\ stage' = stage /\ now' = now /\ count' = count
    BY <1>7 DEF Tick, rateVars
  <2> QED
    BY <2>1, CountStays DEF CountsAreTrue
<1> QED
  BY <1>1, <1>2, <1>3, <1>4, <1>5, <1>6, <1>7 DEF RateNext, checkRPM

-----------------------------------------------------------------------------
(* The key's time to live. *)

\* A step that lets nobody new through and does not shorten the key's life.
LEMMA KeyFrame ==
  ASSUME RateTypeOK, RateTypeOK', KeyLives, clock <= clock',
         \A s \in Times : admitted'[s] > 0 => Through(s),
         \A h \in Handlers : stage'[h] = "decide" => stage[h] = "decide" /\ now'[h] = now[h],
         zset' = {} \/ expiry' > MaxTime \/ (zset # {} /\ expiry' = expiry)
  PROVE  KeyLives'
<1> SUFFICES ASSUME NEW s \in Times, Through(s)'
             PROVE  s <= clock' /\ (zset' = {} \/ expiry' > MaxTime \/ expiry' >= s + 2 * Minute)
  BY DEF KeyLives
<1>1. Through(s)
  BY DEF Through
<1>2. s <= clock /\ (zset = {} \/ expiry > MaxTime \/ expiry >= s + 2 * Minute)
  BY <1>1 DEF KeyLives
<1>3. s \in Nat /\ clock \in Nat /\ clock' \in Nat
  BY RateConstants DEF RateTypeOK, Times
<1> QED
  BY <1>2, <1>3

LEMMA KeyStarts ==
  ASSUME RateInit
  PROVE  KeyLives
BY DEF RateInit, KeyLives, Through

LEMMA KeyStays ==
  ASSUME RateTypeOK, RateTypeOK', InTime, KeyLives, [RateNext]_rateVars
  PROVE  KeyLives'
<1>c. /\ MaxTime \in Nat /\ Minute \in Nat /\ clock \in Nat /\ clock' \in Nat
      /\ \A s \in Times : s \in Nat
  BY RateConstants DEF RateTypeOK, Times
<1>1. ASSUME NEW h \in Handlers,
             ReadClock(h) \/ RemoveExpired(h) \/ CountCurrent(h) \/ AddCurrent(h) \/ Reject(h)
               \/ AnswerRetryAfter(h) \/ FailOpen(h)
      PROVE  KeyLives'
  <2>1. clock' = clock /\ admitted' = admitted
    BY <1>1 DEF ReadClock, RemoveExpired, CountCurrent, AddCurrent, Reject, AnswerRetryAfter, FailOpen
  <2>2. \A g \in Handlers : stage'[g] = "decide" => stage[g] = "decide" /\ now'[g] = now[g]
    BY <1>1 DEF ReadClock, RemoveExpired, CountCurrent, AddCurrent, Reject, AnswerRetryAfter, FailOpen,
                Finish, To, RateTypeOK
  <2>3. zset' = {} \/ expiry' > MaxTime \/ (zset # {} /\ expiry' = expiry)
    <3>1. CASE AddCurrent(h)
      BY <1>c, <3>1 DEF AddCurrent
    <3>2. CASE ~AddCurrent(h)
      <4>1. zset' \subseteq zset /\ expiry' = expiry
        BY <1>1, <3>2 DEF ReadClock, RemoveExpired, CountCurrent, Reject, AnswerRetryAfter, FailOpen
      <4> QED
        BY <4>1
    <3> QED
      BY <3>1, <3>2
  <2>4. \A s \in Times : admitted'[s] > 0 => Through(s)
    BY <2>1 DEF Through
  <2> QED
    BY <1>c, <2>1, <2>2, <2>3, <2>4, KeyFrame
<1>2. ASSUME NEW h \in Handlers, Allow(h)
      PROVE  KeyLives'
  <2>1. /\ clock' = clock /\ zset' = zset /\ expiry' = expiry /\ stage[h] = "decide"
        /\ admitted' = [admitted EXCEPT ![now[h]] = @ + 1]
    BY <1>2 DEF Allow
  <2>2. \A g \in Handlers : stage'[g] = "decide" => stage[g] = "decide" /\ now'[g] = now[g]
    BY <1>2 DEF Allow, Finish, To, RateTypeOK
  <2>3. \A s \in Times : s = now[h] \/ admitted'[s] = admitted[s]
    BY <2>1 DEF RateTypeOK
  <2>4. \A s \in Times : admitted'[s] > 0 => Through(s)
    BY <2>1, <2>3 DEF Through
  <2>5. zset' = {} \/ (zset # {} /\ expiry' = expiry)
    BY <2>1
  <2> QED
    BY <1>c, <2>1, <2>2, <2>4, <2>5, KeyFrame
<1>3. ASSUME NEW h \in Handlers, Expire(h)
      PROVE  KeyLives'
  <2>1. /\ clock' = clock /\ zset' = zset /\ admitted' = admitted /\ now' = now /\ stage[h] = "expire"
        /\ expiry' = IF zset = {} THEN expiry ELSE clock + 2 * Minute
    BY <1>3 DEF Expire
  <2>2. \A g \in Handlers : g = h \/ stage'[g] = stage[g]
    BY <1>3 DEF Expire, To, RateTypeOK
  <2>3. \A s \in Times : Through(s)' => s <= clock
    <3> SUFFICES ASSUME NEW s \in Times, Through(s)' PROVE s <= clock
      OBVIOUS
    <3>1. Through(s) \/ s = now[h]
      BY <2>1, <2>2 DEF Through
    <3> QED
      BY <2>1, <3>1 DEF KeyLives, InTime
  <2>4. \A s \in Times : s <= clock => clock + 2 * Minute >= s + 2 * Minute
    BY <1>c
  <2> QED
    BY <2>1, <2>3, <2>4 DEF KeyLives
<1>4. CASE Tick
  <2>1. /\ clock' = clock + 1 /\ zset' \in {{}, zset}
        /\ stage' = stage /\ now' = now /\ expiry' = expiry /\ admitted' = admitted
    BY <1>4 DEF Tick
  <2>2. \A s \in Times : admitted'[s] > 0 => Through(s)
    BY <2>1 DEF Through
  <2>3. zset' = {} \/ (zset # {} /\ expiry' = expiry)
    BY <2>1
  <2>4. clock <= clock'
    BY <1>c, <2>1
  <2> QED
    BY <2>1, <2>2, <2>3, <2>4, KeyFrame
<1>5. CASE UNCHANGED rateVars
  BY <1>5 DEF rateVars, KeyLives, Through
<1> QED
  BY <1>1, <1>2, <1>3, <1>4, <1>5 DEF RateNext, checkRPM

-----------------------------------------------------------------------------
(* The windows. *)

LEMMA HandlersCount ==
  Cardinality(Handlers) \in Nat /\ Cardinality(Handlers) >= 1
BY RateConstants, FS_CardinalityType, FS_EmptySet

LEMMA UnionAtMost ==
  ASSUME NEW S, NEW T, IsFiniteSet(S), IsFiniteSet(T)
  PROVE  /\ IsFiniteSet(S \cup T)
         /\ Cardinality(S) \in Nat /\ Cardinality(T) \in Nat /\ Cardinality(S \cup T) \in Nat
         /\ Cardinality(S \cup T) <= Cardinality(S) + Cardinality(T)
<1>1. IsFiniteSet(S \cap T) /\ IsFiniteSet(S \cup T)
  BY FS_Subset, FS_Union
<1>2. /\ Cardinality(S) \in Nat /\ Cardinality(T) \in Nat
      /\ Cardinality(S \cup T) \in Nat /\ Cardinality(S \cap T) \in Nat
  BY <1>1, FS_CardinalityType
<1>3. Cardinality(S \cup T) = Cardinality(S) + Cardinality(T) - Cardinality(S \cap T)
  BY FS_Union
<1> QED
  BY <1>1, <1>2, <1>3

\* Handlers read no more times than there are handlers.
LEMMA ReadAtMost ==
  ASSUME NEW f, NEW G, IsFiniteSet(G)
  PROVE  IsFiniteSet(ReadBy(f, G)) /\ Cardinality(ReadBy(f, G)) <= Cardinality(G)
<1> DEFINE reads == [h \in G |-> f[h]]
<1>1. reads \in Surjection(G, ReadBy(f, G))
  BY DEF Surjection, ReadBy
<1> HIDE DEF reads
<1> QED
  BY <1>1, FS_Surjection

\* The sets of times and handlers that the invariant counts are finite.
LEMMA WindowsFinite ==
  ASSUME RateTypeOK, NEW t \in Times, NEW G \in SUBSET Handlers
  PROVE  /\ IsFiniteSet(G) /\ Cardinality(G) \in Nat /\ Cardinality(G) <= Cardinality(Handlers)
         /\ IsFiniteSet(Admissions(t)) /\ IsFiniteSet(ReadBy(now, G)) /\ IsFiniteSet(Taken(t))
         /\ IsFiniteSet(Admissions(t) \cup ReadBy(now, G))
         /\ Cardinality(ReadBy(now, G)) \in Nat
         /\ Cardinality(ReadBy(now, G)) <= Cardinality(Handlers)
<1>1. IsFiniteSet(Times)
  BY RateConstants, FS_Interval DEF Times
<1>2. /\ IsFiniteSet(G) /\ Cardinality(G) \in Nat /\ Cardinality(G) <= Cardinality(Handlers)
  BY RateConstants, FS_Subset, FS_CardinalityType
<1>3. Admissions(t) \subseteq Times
  BY DEF Admissions, WindowOf
<1>4. \A K \in SUBSET Handlers : ReadBy(now, K) \subseteq Times
  BY DEF ReadBy, RateTypeOK
<1>5. Added(t) \subseteq Handlers
  BY DEF Added, InWindow
<1>6. Taken(t) \subseteq Times
  BY <1>3, <1>4, <1>5 DEF Taken
<1>7. /\ IsFiniteSet(Admissions(t)) /\ IsFiniteSet(ReadBy(now, G)) /\ IsFiniteSet(Taken(t))
      /\ IsFiniteSet(Admissions(t) \cup ReadBy(now, G))
  <2>1. Admissions(t) \cup ReadBy(now, G) \subseteq Times
    BY <1>3, <1>4
  <2> QED
    BY <1>1, <1>3, <1>4, <1>6, <2>1, FS_Subset
<1>8. Cardinality(ReadBy(now, G)) \in Nat /\ Cardinality(ReadBy(now, G)) <= Cardinality(G)
  BY <1>2, <1>7, ReadAtMost, FS_CardinalityType
<1>9. Cardinality(Handlers) \in Nat
  BY HandlersCount
<1> QED
  BY <1>2, <1>7, <1>8, <1>9

\* A step after which less is taken, about to get through and in flight.
LEMMA WindowShrinks ==
  ASSUME RateTypeOK, NEW t \in Times, Whole(t) \/ CutShort(t), clock' \in Nat, clock <= clock',
         Taken(t)' \subseteq Taken(t),
         (Admissions(t) \cup ReadBy(now, Passing(t)))' \subseteq Admissions(t) \cup ReadBy(now, Passing(t)),
         clock > t => (Admissions(t) \cup ReadBy(now, InWindow(t)))'
                        \subseteq Admissions(t) \cup ReadBy(now, InWindow(t))
  PROVE  Whole(t)' \/ CutShort(t)'
<1> DEFINE A == Taken(t)
           B == Admissions(t) \cup ReadBy(now, Passing(t))
           C == Admissions(t) \cup ReadBy(now, InWindow(t))
<1>1. IsFiniteSet(A) /\ IsFiniteSet(B) /\ IsFiniteSet(C)
  <2>1. Passing(t) \subseteq Handlers /\ InWindow(t) \subseteq Handlers
    BY DEF Passing, InWindow
  <2> QED
    BY <2>1, WindowsFinite
<1>2. clock \in Nat /\ t \in Nat /\ Limit \in Nat /\ Cardinality(Handlers) \in Nat
  BY RateConstants, HandlersCount DEF RateTypeOK, Times
<1>3. CASE Whole(t)
  <2>1. Cardinality(A) <= Cardinality(Handlers)
        /\ Cardinality(B) <= Limit + 2 * Cardinality(Handlers) - 1
    BY <1>3 DEF Whole
  <2>2. A' \subseteq A /\ B' \subseteq B
    OBVIOUS
  <2> HIDE DEF A, B
  <2>3. /\ Cardinality(A') <= Cardinality(A) /\ Cardinality(A') \in Nat /\ Cardinality(A) \in Nat
        /\ Cardinality(B') <= Cardinality(B) /\ Cardinality(B') \in Nat /\ Cardinality(B) \in Nat
    BY <1>1, <2>2, FS_Subset, FS_CardinalityType
  <2>4. Cardinality(A') <= Cardinality(Handlers)
        /\ Cardinality(B') <= Limit + 2 * Cardinality(Handlers) - 1
    BY <1>2, <2>1, <2>3
  <2> QED
    BY <2>4 DEF Whole, A, B
<1>4. CASE CutShort(t)
  <2>1. clock > t /\ Cardinality(C) <= Limit + 2 * (Cardinality(Handlers) - 1) + Cardinality(Handlers)
    BY <1>4 DEF CutShort
  <2>2. C' \subseteq C /\ clock' > t
    BY <1>2, <2>1
  <2> HIDE DEF C
  <2>3. Cardinality(C') <= Cardinality(C) /\ Cardinality(C') \in Nat /\ Cardinality(C) \in Nat
    BY <1>1, <2>2, FS_Subset, FS_CardinalityType
  <2>4. Cardinality(C') <= Limit + 2 * (Cardinality(Handlers) - 1) + Cardinality(Handlers)
    BY <1>2, <2>1, <2>3
  <2> QED
    BY <2>2, <2>4 DEF CutShort, C
<1> QED
  BY <1>3, <1>4

\* A step of one handler in which nobody is let through, no member of the
\* minute leaves the set, and the handler itself joins none of the groups.
LEMMA HandlerLeavesWindow ==
  ASSUME RateTypeOK, RateTypeOK', NEW t \in Times, Whole(t) \/ CutShort(t), NEW h \in Handlers,
         clock' = clock, admitted' = admitted, zset \cap WindowOf(t) \subseteq zset',
         \A g \in Handlers \ {h} : stage'[g] = stage[g] /\ now'[g] = now[g] /\ count'[g] = count[g],
         h \in Added(t)' => h \in Added(t) /\ now'[h] = now[h],
         h \in Passing(t)' => h \in Passing(t) /\ now'[h] = now[h],
         clock > t /\ h \in InWindow(t)' => h \in InWindow(t) /\ now'[h] = now[h]
  PROVE  Whole(t)' \/ CutShort(t)'
<1>1. Admissions(t)' = Admissions(t)
  BY DEF Admissions
<1>2. \A g \in Handlers \ {h} :
        /\ g \in InWindow(t)' <=> g \in InWindow(t)
        /\ g \in Passing(t)' <=> g \in Passing(t)
        /\ g \in Added(t)' <=> g \in Added(t)
  BY DEF InWindow, Passing, Added
<1>3. /\ InWindow(t)' \subseteq Handlers /\ Passing(t)' \subseteq Handlers /\ Added(t)' \subseteq Handlers
  BY DEF InWindow, Passing, Added
<1>4. /\ \A g \in Added(t)' : g \in Added(t) /\ now'[g] = now[g]
      /\ \A g \in Passing(t)' : g \in Passing(t) /\ now'[g] = now[g]
      /\ clock > t => \A g \in InWindow(t)' : g \in InWindow(t) /\ now'[g] = now[g]
  BY <1>2, <1>3
<1>5. /\ ReadBy(now, Added(t))' \subseteq ReadBy(now, Added(t))
      /\ ReadBy(now, Passing(t))' \subseteq ReadBy(now, Passing(t))
      /\ clock > t => ReadBy(now, InWindow(t))' \subseteq ReadBy(now, InWindow(t))
  BY <1>4 DEF ReadBy
<1>6. Taken(t)' \subseteq Taken(t)
  <2>1. (Admissions(t) \cup ReadBy(now, Added(t)))' \subseteq Admissions(t) \cup ReadBy(now, Added(t))
    BY <1>1, <1>5
  <2>2. Admissions(t) \cup ReadBy(now, Added(t)) \subseteq WindowOf(t)
    BY DEF Admissions, ReadBy, Added, InWindow
  <2> QED
    BY <2>1, <2>2 DEF Taken
<1>7. clock' \in Nat /\ clock <= clock'
  BY DEF RateTypeOK, Times
<1> QED
  BY <1>1, <1>5, <1>6, <1>7, WindowShrinks

LEMMA WindowsStart ==
  ASSUME RateInit, NEW t \in Times
  PROVE  Whole(t)
<1>1. Admissions(t) = {} /\ InWindow(t) = {}
  BY DEF RateInit, Admissions, InWindow, WindowOf
<1>2. ReadBy(now, Passing(t)) = {} /\ ReadBy(now, Added(t)) = {}
  BY <1>1 DEF ReadBy, Passing, Added
<1>3. Taken(t) = {} /\ Admissions(t) \cup ReadBy(now, Passing(t)) = {}
  BY <1>1, <1>2 DEF Taken
<1>4. Limit \in Nat \ {0}
  BY RateConstants
<1>5. /\ 0 <= Cardinality(Handlers) /\ 0 <= Limit + 2 * Cardinality(Handlers) - 1
      /\ Cardinality({}) = 0
  BY <1>4, HandlersCount, FS_EmptySet
<1>6. /\ Cardinality(Taken(t)) = 0
      /\ Cardinality(Admissions(t) \cup ReadBy(now, Passing(t))) = 0
  BY <1>3, <1>5
<1> QED
  BY <1>5, <1>6 DEF Whole

\* What a request removes from the set is older than the minutes that end with
\* it or later; those that ended before it are cut short.
LEMMA RemovalCuts ==
  ASSUME RateTypeOK, RateTypeOK', InTime, NEW t \in Times, Whole(t) \/ CutShort(t),
         NEW h \in Handlers, RemoveExpired(h)
  PROVE  Whole(t)' \/ CutShort(t)'
<1>1. /\ stage[h] = "remove" /\ stage'[h] = "count" /\ now' = now /\ count' = count
      /\ clock' = clock /\ admitted' = admitted
      /\ zset' = {z \in zset : z > now[h] - Minute}
      /\ \A g \in Handlers \ {h} : stage'[g] = stage[g]
  BY DEF RemoveExpired, To, RateTypeOK
<1>2. /\ h \notin Added(t)' /\ h \notin Passing(t)' /\ h \notin Passing(t)
      /\ InWindow(t)' = InWindow(t)
  BY <1>1 DEF Added, Passing, InWindow
<1>n. /\ now[h] \in Nat /\ t \in Nat /\ clock \in Nat /\ Minute \in Nat /\ Limit \in Nat
      /\ now[h] <= clock
  BY <1>1, RateConstants DEF RateTypeOK, InTime, Times
<1>3. CASE now[h] <= t
  <2>1. zset \cap WindowOf(t) \subseteq zset'
    <3> SUFFICES ASSUME NEW z \in zset, z \in WindowOf(t) PROVE z > now[h] - Minute
      BY <1>1
    <3>1. z \in Nat /\ t - Minute < z
      BY DEF WindowOf, Times
    <3> QED
      BY <1>3, <1>n, <3>1
  <2> QED
    BY <1>1, <1>2, <2>1, HandlerLeavesWindow
<1>4. CASE now[h] > t /\ Whole(t)
  <2> DEFINE B == Admissions(t) \cup ReadBy(now, Passing(t))
             R == ReadBy(now, InWindow(t))
             H == Cardinality(Handlers)
  <2>1. h \notin InWindow(t)
    BY <1>4, <1>n DEF InWindow, WindowOf
  <2>2. InWindow(t) \subseteq Handlers \ {h} /\ Passing(t) \subseteq InWindow(t)
    BY <2>1 DEF InWindow, Passing
  <2>3. IsFiniteSet(B) /\ IsFiniteSet(R) /\ IsFiniteSet(InWindow(t))
    BY <2>2, WindowsFinite
  <2>4. Cardinality(R) \in Nat /\ Cardinality(R) <= H - 1
    <3>1. IsFiniteSet(Handlers \ {h}) /\ Cardinality(Handlers \ {h}) = H - 1
      BY RateConstants, FS_RemoveElement
    <3>2. Cardinality(InWindow(t)) <= Cardinality(Handlers \ {h})
      BY <2>2, <3>1, FS_Subset
    <3>3. Cardinality(R) <= Cardinality(InWindow(t))
      BY <2>3, ReadAtMost
    <3>4. /\ Cardinality(R) \in Nat /\ Cardinality(InWindow(t)) \in Nat
          /\ H \in Nat
      BY <2>3, FS_CardinalityType, HandlersCount
    <3> HIDE DEF R, H
    <3> QED
      BY <3>1, <3>2, <3>3, <3>4
  <2>5. Cardinality(B) <= Limit + 2 * H - 1
    BY <1>4 DEF Whole
  <2>6. Admissions(t) \cup R = B \cup R
    BY <2>2 DEF ReadBy
  <2>7. /\ Cardinality(B) \in Nat /\ Cardinality(B \cup R) \in Nat /\ H \in Nat
        /\ Cardinality(B \cup R) <= Cardinality(B) + Cardinality(R)
    <3> HIDE DEF B, R
    <3> QED
      BY <2>3, UnionAtMost, HandlersCount
  <2> HIDE DEF B, R, H
  <2>8. Cardinality(B \cup R) <= Limit + 2 * (H - 1) + H
    BY <1>n, <2>4, <2>5, <2>7
  <2>9. Cardinality(Admissions(t) \cup R) <= Limit + 2 * (H - 1) + H
    BY <2>6, <2>8, Zenon
  <2>11. clock > t
    BY <1>4, <1>n
  <2>10. (Admissions(t) \cup ReadBy(now, InWindow(t)))' = Admissions(t) \cup R
    BY <1>1, <1>2 DEF R, Admissions, ReadBy
  <2> QED
    BY <1>1, <2>9, <2>10, <2>11 DEF CutShort, H
<1>5. CASE now[h] > t /\ CutShort(t)
  <2>1. (Admissions(t) \cup ReadBy(now, InWindow(t)))' = Admissions(t) \cup ReadBy(now, InWindow(t))
    BY <1>1, <1>2 DEF Admissions, ReadBy
  <2> QED
    BY <1>1, <1>5, <2>1 DEF CutShort
<1> QED
  BY <1>3, <1>4, <1>5, <1>n

\* A request that counts less than the limit counts, but for what is taken, all
\* that got through in the minutes it belongs to.
LEMMA CountingIsBounded ==
  ASSUME RateTypeOK, RateTypeOK', InTime, NEW t \in Times, Whole(t) \/ CutShort(t),
         NEW h \in Handlers, CountCurrent(h)
  PROVE  Whole(t)' \/ CutShort(t)'
<1>1. /\ stage[h] = "count" /\ stage'[h] = "add" /\ now' = now /\ count'[h] = Cardinality(zset)
      /\ clock' = clock /\ admitted' = admitted /\ zset' = zset
      /\ \A g \in Handlers \ {h} : stage'[g] = stage[g] /\ count'[g] = count[g]
  BY DEF CountCurrent, To, RateTypeOK
<1>2. h \notin Added(t)' /\ (h \in InWindow(t)' => h \in InWindow(t))
  BY <1>1 DEF Added, InWindow
<1>3. CASE CutShort(t) \/ Cardinality(zset) >= Limit
  <2>1. CASE Cardinality(zset) >= Limit
    <3>1. h \notin Passing(t)'
      <4>1. ~(count'[h] < Limit)
        <5>1. count'[h] \in Nat /\ Limit \in Nat
          BY RateConstants DEF RateTypeOK
        <5> QED
          BY <1>1, <2>1, <5>1
      <4> QED
        BY <4>1 DEF Passing
    <3> QED
      BY <1>1, <1>2, <3>1, HandlerLeavesWindow
  <2>2. CASE CutShort(t)
    <3>1. InWindow(t)' = InWindow(t)
      BY <1>1 DEF InWindow
    <3>2. (Admissions(t) \cup ReadBy(now, InWindow(t)))' = Admissions(t) \cup ReadBy(now, InWindow(t))
      BY <1>1, <3>1 DEF Admissions, ReadBy
    <3> QED
      BY <1>1, <2>2, <3>2 DEF CutShort
  <2> QED
    BY <1>3, <2>1, <2>2
<1>4. CASE Whole(t) /\ Cardinality(zset) < Limit
  <2> DEFINE H == Cardinality(Handlers)
             A == Admissions(t)
             T == Taken(t)
             R == ReadBy(now, Passing(t)')
  <2>1. Taken(t)' = Taken(t)
    <3>1. Added(t)' = Added(t)
      BY <1>1 DEF Added, InWindow
    <3> QED
      BY <1>1, <3>1 DEF Taken, Admissions, ReadBy
  <2>2. A \subseteq zset \cup T
    BY DEF Taken
  <2>3. /\ IsFiniteSet(zset) /\ IsFiniteSet(T) /\ IsFiniteSet(A)
        /\ IsFiniteSet(R) /\ Cardinality(R) <= H
    <3>1. Passing(t)' \subseteq Handlers
      BY DEF Passing, InWindow
    <3>2. IsFiniteSet(zset)
      <4>1. clock \in Nat /\ zset \subseteq 0..clock
        BY DEF RateTypeOK, Times
      <4>2. IsFiniteSet(0..clock)
        BY <4>1, FS_Interval
      <4> QED
        BY <4>1, <4>2, FS_Subset
    <3>3. Handlers \subseteq Handlers
      OBVIOUS
    <3>4. \A G \in SUBSET Handlers :
            IsFiniteSet(ReadBy(now, G)) /\ Cardinality(ReadBy(now, G)) <= Cardinality(Handlers)
      BY WindowsFinite
    <3> QED
      BY <3>1, <3>2, <3>3, <3>4, WindowsFinite
  <2>4. Cardinality(T) <= H
    BY <1>4 DEF Whole
  <2>5. (A \cup ReadBy(now, Passing(t)))' = A \cup R
    BY <1>1 DEF Admissions, ReadBy
  <2>6. Cardinality(A \cup R) <= Limit + 2 * H - 1
    <3> HIDE DEF A, T, R, H
    <3>1. /\ IsFiniteSet(zset \cup T) /\ Cardinality(zset) \in Nat /\ Cardinality(T) \in Nat
          /\ Cardinality(zset \cup T) \in Nat
          /\ Cardinality(zset \cup T) <= Cardinality(zset) + Cardinality(T)
      BY <2>3, UnionAtMost
    <3>2. Cardinality(A) <= Cardinality(zset \cup T) /\ Cardinality(A) \in Nat
      BY <2>2, <2>3, <3>1, FS_Subset, FS_CardinalityType
    <3>3. /\ Cardinality(R) \in Nat /\ Cardinality(A \cup R) \in Nat
          /\ Cardinality(A \cup R) <= Cardinality(A) + Cardinality(R)
      BY <2>3, UnionAtMost
    <3>4. H \in Nat /\ Limit \in Nat
      BY RateConstants, HandlersCount DEF H
    <3> QED
      BY <1>4, <2>3, <2>4, <3>1, <3>2, <3>3, <3>4
  <2>7. Cardinality((A \cup ReadBy(now, Passing(t)))') <= Limit + 2 * H - 1
    BY <2>5, <2>6
  <2> QED
    BY <2>1, <2>4, <2>7 DEF Whole
<1>5. Cardinality(zset) >= Limit \/ Cardinality(zset) < Limit
  <2>1. count'[h] \in Nat /\ Limit \in Nat
    BY RateConstants DEF RateTypeOK
  <2> QED
    BY <1>1, <2>1
<1> QED
  BY <1>3, <1>4, <1>5

\* A request that adds itself is in the set; one that is let through was about
\* to get through.
LEMMA AddingKeepsWindow ==
  ASSUME RateTypeOK, RateTypeOK', NEW t \in Times, Whole(t) \/ CutShort(t),
         NEW h \in Handlers, AddCurrent(h)
  PROVE  Whole(t)' \/ CutShort(t)'
<1>1. /\ stage[h] = "add" /\ stage'[h] = "expire" /\ now' = now /\ count' = count
      /\ clock' = clock /\ admitted' = admitted /\ zset' = zset \cup {now[h]}
      /\ \A g \in Handlers \ {h} : stage'[g] = stage[g]
  BY DEF AddCurrent, To, RateTypeOK
<1>2. /\ InWindow(t)' = InWindow(t) /\ Passing(t)' = Passing(t)
      /\ Admissions(t)' = Admissions(t)
  BY <1>1 DEF InWindow, Passing, Admissions
<1>3. Added(t)' \subseteq Added(t) \cup {h}
  BY <1>1 DEF Added, InWindow
<1>4. Taken(t)' \subseteq Taken(t)
  BY <1>1, <1>2, <1>3 DEF Taken, ReadBy
<1>5. clock' \in Nat /\ clock <= clock'
  BY <1>1 DEF RateTypeOK, Times
<1>6. /\ ReadBy(now, Passing(t))' = ReadBy(now, Passing(t))
      /\ ReadBy(now, InWindow(t))' = ReadBy(now, InWindow(t))
  BY <1>1, <1>2 DEF ReadBy
<1> QED
  BY <1>2, <1>4, <1>5, <1>6, WindowShrinks

LEMMA AllowingKeepsWindow ==
  ASSUME RateTypeOK, RateTypeOK', NEW t \in Times, Whole(t) \/ CutShort(t),
         NEW h \in Handlers, Allow(h)
  PROVE  Whole(t)' \/ CutShort(t)'
<1>1. /\ stage[h] = "decide" /\ stage'[h] = "idle" /\ count[h] < Limit
      /\ clock' = clock /\ zset' = zset
      /\ admitted' = [admitted EXCEPT ![now[h]] = @ + 1]
      /\ \A g \in Handlers \ {h} : stage'[g] = stage[g] /\ now'[g] = now[g] /\ count'[g] = count[g]
  BY DEF Allow, Finish, To, RateTypeOK
<1>2. \A s \in Times : s = now[h] \/ admitted'[s] = admitted[s]
  BY <1>1 DEF RateTypeOK
<1>3. Admissions(t)' \subseteq Admissions(t) \cup {s \in WindowOf(t) : s = now[h]}
  BY <1>2 DEF Admissions, WindowOf
<1>4. now[h] \in WindowOf(t) => h \in InWindow(t) /\ h \in Passing(t) /\ h \in Added(t)
  BY <1>1 DEF InWindow, Passing, Added
<1>5. \A G \in SUBSET Handlers : h \in G => now[h] \in ReadBy(now, G)
  BY DEF ReadBy
<1>6. /\ InWindow(t) \subseteq Handlers /\ Passing(t) \subseteq Handlers /\ Added(t) \subseteq Handlers
  BY DEF InWindow, Passing, Added
<1>7. /\ Admissions(t)' \subseteq Admissions(t) \cup ReadBy(now, InWindow(t))
      /\ Admissions(t)' \subseteq Admissions(t) \cup ReadBy(now, Passing(t))
      /\ Admissions(t)' \subseteq Admissions(t) \cup ReadBy(now, Added(t))
  BY <1>3, <1>4, <1>5, <1>6
<1>8. /\ \A g \in InWindow(t)' : g \in InWindow(t) /\ now'[g] = now[g]
      /\ \A g \in Passing(t)' : g \in Passing(t) /\ now'[g] = now[g]
      /\ \A g \in Added(t)' : g \in Added(t) /\ now'[g] = now[g]
  BY <1>1 DEF InWindow, Passing, Added
<1>9. /\ ReadBy(now, InWindow(t))' \subseteq ReadBy(now, InWindow(t))
      /\ ReadBy(now, Passing(t))' \subseteq ReadBy(now, Passing(t))
      /\ ReadBy(now, Added(t))' \subseteq ReadBy(now, Added(t))
  BY <1>8 DEF ReadBy
<1>10. Taken(t)' \subseteq Taken(t)
  BY <1>1, <1>7, <1>9 DEF Taken
<1>11. clock' \in Nat /\ clock <= clock'
  BY <1>1 DEF RateTypeOK, Times
<1> QED
  BY <1>7, <1>9, <1>10, <1>11, WindowShrinks

\* When the key's time is up, the minutes in which somebody got through are over.
LEMMA TickKeepsWindow ==
  ASSUME RateTypeOK, RateTypeOK', InTime, KeyLives, NEW t \in Times, Whole(t) \/ CutShort(t), Tick
  PROVE  Whole(t)' \/ CutShort(t)'
<1>1. /\ clock < MaxTime /\ clock' = clock + 1
      /\ stage' = stage /\ now' = now /\ count' = count /\ expiry' = expiry /\ admitted' = admitted
      /\ zset' = IF zset # {} /\ expiry <= clock + 1 THEN {} ELSE zset
      /\ \A h \in Handlers : stage[h] # "idle" => clock < now[h] + Patience
  BY DEF Tick
<1>2. /\ InWindow(t)' = InWindow(t) /\ Passing(t)' = Passing(t) /\ Added(t)' = Added(t)
      /\ Admissions(t)' = Admissions(t)
  BY <1>1 DEF InWindow, Passing, Added, Admissions
<1>3. \A G \in SUBSET Handlers : ReadBy(now, G)' = ReadBy(now, G)
  BY <1>1 DEF ReadBy
<1>4. /\ ReadBy(now, InWindow(t))' = ReadBy(now, InWindow(t))
      /\ ReadBy(now, Passing(t))' = ReadBy(now, Passing(t))
      /\ ReadBy(now, Added(t))' = ReadBy(now, Added(t))
  BY <1>1, <1>2 DEF ReadBy
<1>n. /\ clock \in Nat /\ clock' \in Nat /\ MaxTime \in Nat /\ Minute \in Nat /\ Patience \in Nat
      /\ Patience < Minute /\ Limit \in Nat /\ t \in Nat /\ expiry \in Nat
      /\ \A h \in Handlers : now[h] \in Nat
  BY RateConstants DEF RateTypeOK, Times
<1>h. Cardinality(Handlers) \in Nat /\ Cardinality(Handlers) >= 1
  BY HandlersCount
<1>5. CASE zset' = zset \/ CutShort(t)
  <2>1. CASE zset' = zset
    <3>1. Taken(t)' = Taken(t)
      BY <1>2, <1>4, <2>1 DEF Taken
    <3>2. clock <= clock'
      BY <1>1, <1>n
    <3> QED
      BY <1>2, <1>4, <1>n, <3>1, <3>2, WindowShrinks
  <2>2. CASE CutShort(t)
    <3>1. clock' > t
      BY <1>1, <1>n, <2>2 DEF CutShort
    <3> QED
      BY <1>2, <1>4, <2>2, <3>1 DEF CutShort
  <2> QED
    BY <1>5, <2>1, <2>2
<1>6. CASE zset' # zset /\ Whole(t)
  <2>1. zset' = {} /\ zset # {} /\ expiry <= clock + 1
    BY <1>1, <1>6
  <2>2. CASE Admissions(t) = {}
    <3>1. Taken(t)' \subseteq ReadBy(now, Added(t))
      BY <1>2, <1>4, <2>2 DEF Taken
    <3>2. Added(t) \subseteq Handlers
      BY DEF Added, InWindow
    <3>3. /\ IsFiniteSet(ReadBy(now, Added(t))) /\ Cardinality(ReadBy(now, Added(t))) \in Nat
          /\ Cardinality(ReadBy(now, Added(t))) <= Cardinality(Handlers)
      BY <3>2, WindowsFinite
    <3>4. /\ Cardinality(Taken(t)') <= Cardinality(ReadBy(now, Added(t)))
          /\ Cardinality(Taken(t)') \in Nat
      BY <3>1, <3>3, FS_Subset, FS_CardinalityType
    <3>5. Cardinality(Taken(t)') <= Cardinality(Handlers)
      BY <1>h, <3>3, <3>4
    <3>6. (Admissions(t) \cup ReadBy(now, Passing(t)))' = Admissions(t) \cup ReadBy(now, Passing(t))
      BY <1>2, <1>4
    <3> QED
      BY <1>6, <3>5, <3>6 DEF Whole
  <2>3. CASE Admissions(t) # {}
    <3>1. PICK s \in Admissions(t) : TRUE
      BY <2>3
    <3>2. s \in Times /\ s \in Nat /\ t - Minute < s /\ Through(s)
      BY DEF Admissions, WindowOf, Through, Times
    <3>3. expiry >= s + 2 * Minute
      BY <1>1, <1>n, <2>1, <3>2 DEF KeyLives
    <3>4. t + Minute < clock + 1
      BY <1>n, <2>1, <3>2, <3>3
    <3>5. InWindow(t) = {}
      <4> SUFFICES ASSUME NEW h \in Handlers, stage[h] # "idle", now[h] \in WindowOf(t) PROVE FALSE
        BY DEF InWindow
      <4>1. now[h] <= t /\ clock < now[h] + Patience
        BY <1>1 DEF WindowOf
      <4> QED
        BY <1>n, <3>4, <4>1
    <3>6. ReadBy(now, InWindow(t)) = {} /\ ReadBy(now, Passing(t)) = {}
      BY <3>5 DEF ReadBy, Passing
    <3>7. (Admissions(t) \cup ReadBy(now, InWindow(t)))' = Admissions(t) \cup ReadBy(now, Passing(t))
      BY <1>2, <1>4, <3>6
    <3>8. /\ Cardinality(Admissions(t) \cup ReadBy(now, Passing(t))) \in Nat
          /\ Cardinality(Admissions(t) \cup ReadBy(now, Passing(t)))
               <= Limit + 2 * Cardinality(Handlers) - 1
      <4>1. Passing(t) \subseteq Handlers
        BY DEF Passing, InWindow
      <4>2. IsFiniteSet(Admissions(t) \cup ReadBy(now, Passing(t)))
        BY <4>1, WindowsFinite
      <4> QED
        BY <1>6, <4>2, FS_CardinalityType DEF Whole
    <3>9. clock' > t
      BY <1>1, <1>n, <3>4
    <3> DEFINE B == Cardinality(Admissions(t) \cup ReadBy(now, Passing(t)))
               H == Cardinality(Handlers)
    <3>10. B <= Limit + 2 * (H - 1) + H
      <4>1. B \in Nat /\ B <= Limit + 2 * H - 1 /\ H \in Nat /\ H >= 1
        BY <1>h, <3>8
      <4> HIDE DEF B, H
      <4> QED
        BY <1>n, <4>1
    <3> QED
      BY <3>7, <3>9, <3>10 DEF CutShort
  <2> QED
    BY <2>2, <2>3
<1> QED
  BY <1>5, <1>6

LEMMA WindowsStay ==
  ASSUME RateTypeOK, RateTypeOK', InTime, KeyLives, NEW t \in Times, Whole(t) \/ CutShort(t),
         [RateNext]_rateVars
  PROVE  Whole(t)' \/ CutShort(t)'
<1>1. ASSUME NEW h \in Handlers, ReadClock(h)
      PROVE  Whole(t)' \/ CutShort(t)'
  <2>1. /\ stage'[h] = "remove" /\ now'[h] = clock
        /\ clock' = clock /\ admitted' = admitted /\ zset' = zset
        /\ \A g \in Handlers \ {h} : stage'[g] = stage[g] /\ now'[g] = now[g] /\ count'[g] = count[g]
    BY <1>1 DEF ReadClock, To, RateTypeOK
  <2>2. h \notin Added(t)' /\ h \notin Passing(t)'
    BY <2>1 DEF Added, Passing
  <2>3. clock > t => h \notin InWindow(t)'
    <3>1. clock \in Nat /\ t \in Nat
      BY DEF RateTypeOK, Times
    <3> QED
      BY <2>1, <3>1 DEF InWindow, WindowOf
  <2> QED
    BY <2>1, <2>2, <2>3, HandlerLeavesWindow
<1>2. ASSUME NEW h \in Handlers, Expire(h)
      PROVE  Whole(t)' \/ CutShort(t)'
  <2>1. /\ stage[h] = "expire" /\ stage'[h] = "decide" /\ now' = now /\ count' = count
        /\ clock' = clock /\ admitted' = admitted /\ zset' = zset
        /\ \A g \in Handlers \ {h} : stage'[g] = stage[g]
    BY <1>2 DEF Expire, To, RateTypeOK
  <2>2. /\ h \in InWindow(t)' => h \in InWindow(t)
        /\ h \in Added(t)' => h \in Added(t)
        /\ h \in Passing(t)' => h \in Passing(t)
    BY <2>1 DEF InWindow, Added, Passing
  <2> QED
    BY <2>1, <2>2, HandlerLeavesWindow
<1>3. ASSUME NEW h \in Handlers, Reject(h)
      PROVE  Whole(t)' \/ CutShort(t)'
  <2>1. /\ stage[h] = "decide" /\ stage'[h] = "rejecting" /\ now' = now /\ count' = count
        /\ clock' = clock /\ admitted' = admitted /\ zset' = zset
        /\ \A g \in Handlers \ {h} : stage'[g] = stage[g]
    BY <1>3 DEF Reject, To, RateTypeOK
  <2>2. /\ h \in InWindow(t)' => h \in InWindow(t)
        /\ h \notin Added(t)' /\ h \notin Passing(t)'
    BY <2>1 DEF InWindow, Added, Passing
  <2> QED
    BY <2>1, <2>2, HandlerLeavesWindow
<1>4. ASSUME NEW h \in Handlers, AnswerRetryAfter(h) \/ FailOpen(h)
      PROVE  Whole(t)' \/ CutShort(t)'
  <2>1. /\ stage'[h] = "idle"
        /\ clock' = clock /\ admitted' = admitted /\ zset' = zset
        /\ \A g \in Handlers \ {h} : stage'[g] = stage[g] /\ now'[g] = now[g] /\ count'[g] = count[g]
    BY <1>4 DEF AnswerRetryAfter, FailOpen, Finish, To, RateTypeOK
  <2>2. h \notin InWindow(t)' /\ h \notin Added(t)' /\ h \notin Passing(t)'
    BY <2>1 DEF InWindow, Added, Passing
  <2> QED
    BY <2>1, <2>2, HandlerLeavesWindow
<1>5. CASE UNCHANGED rateVars
  BY <1>5 DEF rateVars, Whole, CutShort, Taken, Admissions, ReadBy, InWindow, Passing, Added
<1> QED
  BY <1>1, <1>2, <1>3, <1>4, <1>5, RemovalCuts, CountingIsBounded, AddingKeepsWindow,
     AllowingKeepsWindow, TickKeepsWindow DEF RateNext, checkRPM

-----------------------------------------------------------------------------
(* The properties. *)

LEMMA RateInvInit == RateInit => RateInv
BY RateStarts, CountsStart, KeyStarts, WindowsStart DEF RateInv

LEMMA RateInvNext == RateInv /\ [RateNext]_rateVars => RateInv'
<1> SUFFICES ASSUME RateInv, [RateNext]_rateVars PROVE RateInv'
  OBVIOUS
<1>1. RateTypeOK /\ InTime /\ CountsAreTrue /\ KeyLives
      /\ \A t \in Times : Whole(t) \/ CutShort(t)
  BY DEF RateInv
<1>2. RateTypeOK' /\ InTime'
  BY <1>1, TypesStay
<1>3. CountsAreTrue' /\ KeyLives'
  BY <1>1, <1>2, CountsStay, KeyStays
<1>4. \A t \in Times : Whole(t)' \/ CutShort(t)'
  BY <1>1, <1>2, WindowsStay
<1> QED
  BY <1>2, <1>3, <1>4 DEF RateInv

\* What pipelines in flight have read of the sorted set stays true of it, and
\* the minutes are whole or cut short.
THEOREM RateInvariant == RateSpec => []RateInv
BY RateInvInit, RateInvNext, PTL DEF RateSpec

\* The sorted set holds nothing from the future, and the counters keep their
\* types.
THEOREM RateTypeCorrect == RateSpec => []RateTypeOK
<1>1. RateInv => RateTypeOK
  BY DEF RateInv
<1> QED
  BY <1>1, RateInvariant, PTL

\* No interleaving of pipelines, failures and expiries lets through more than
\* the limit and three for each handler, less two.
THEOREM OverrunBounded == RateSpec => []OverrunIsBounded
<1>1. RateInv => OverrunIsBounded
  <2> SUFFICES ASSUME RateInv, NEW t \in Times
               PROVE  Cardinality(Admissions(t))
                        <= Limit + 2 * (Cardinality(Handlers) - 1) + Cardinality(Handlers)
    BY DEF OverrunIsBounded, Admissions
  <2> DEFINE H == Cardinality(Handlers)
             A == Admissions(t)
             B == A \cup ReadBy(now, Passing(t))
             C == A \cup ReadBy(now, InWindow(t))
  <2>1. H \in Nat /\ H >= 1 /\ Limit \in Nat
    BY HandlersCount, RateConstants
  <2>2. IsFiniteSet(A) /\ IsFiniteSet(B) /\ IsFiniteSet(C)
    <3>1. Passing(t) \subseteq Handlers /\ InWindow(t) \subseteq Handlers
      BY DEF Passing, InWindow
    <3> QED
      BY <3>1, WindowsFinite DEF RateInv
  <2>3. Cardinality(B) <= Limit + 2 * H - 1 \/ Cardinality(C) <= Limit + 2 * (H - 1) + H
    BY DEF RateInv, Whole, CutShort
  <2>4. /\ Cardinality(A) \in Nat /\ Cardinality(B) \in Nat /\ Cardinality(C) \in Nat
        /\ Cardinality(A) <= Cardinality(B) /\ Cardinality(A) <= Cardinality(C)
    <3>1. A \subseteq B /\ A \subseteq C
      OBVIOUS
    <3> HIDE DEF A, B, C
    <3> QED
      BY <2>2, <3>1, FS_Subset, FS_CardinalityType
  <2> HIDE DEF A, B, C, H
  <2>5. Cardinality(A) <= Limit + 2 * (H - 1) + H
    BY <2>1, <2>3, <2>4
  <2> QED
    BY <2>5 DEF A, H
<1> QED
  BY <1>1, RateInvariant, PTL

\* A rejected request met a minute with more requests than the limit.
THEOREM RejectedBusy == RateSpec => []RejectedWhenBusy
<1>1. RateInv => RejectedWhenBusy
  <2> SUFFICES ASSUME RateInv, NEW h \in Handlers, stage[h] = "rejecting"
               PROVE  Beside(h) > Limit
    BY DEF RejectedWhenBusy, Beside
  <2>1. CountIsOfTheMinute(h)
    BY DEF RateInv, CountsAreTrue
  <2>2. count[h] >= Limit /\ count[h] + 1 <= Beside(h)
    BY <2>1 DEF CountIsOfTheMinute
  <2>3. Beside(h) \in Nat
    BY RangesOfTime DEF RateInv, CountsAreTrue, Beside
  <2>4. count[h] \in Nat /\ Limit \in Nat
    BY RateConstants DEF RateInv, RateTypeOK
  <2> QED
    BY <2>2, <2>3, <2>4
<1> QED
  BY <1>1, RateInvariant, PTL

=============================================================================
