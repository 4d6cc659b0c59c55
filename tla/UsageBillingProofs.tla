------------------------- MODULE UsageBillingProofs -------------------------
(***************************************************************************)
(* What UsageBilling's runs show on small instances, proved for every      *)
(* number of users, calls, grants and request ids, every assignment of     *)
(* ids, prices and opening balances, with faults and crashes or without.   *)
(***************************************************************************)
EXTENDS UsageBilling, FiniteSetTheorems, TLAPS

-----------------------------------------------------------------------------
(* What a sum does when its set grows, or its function changes outside it. *)

\* The empty sum is zero.
LEMMA TotalOverEmpty ==
  ASSUME NEW f
  PROVE  IsFiniteSet(Units({}, f)) /\ TotalOver({}, f) = 0
<1>1. Units({}, f) = {}
  BY DEF Units
<1> QED
  BY <1>1, FS_EmptySet DEF TotalOver

\* The sum depends only on the values the function takes on the set.
LEMMA TotalOverSame ==
  ASSUME NEW S, NEW f, NEW g, \A s \in S : f[s] = g[s]
  PROVE  Units(S, f) = Units(S, g) /\ TotalOver(S, f) = TotalOver(S, g)
<1>1. Units(S, f) = Units(S, g)
  BY DEF Units
<1> QED
  BY <1>1 DEF TotalOver

\* One element more adds its own value, and keeps the units finite.
LEMMA TotalOverAdd ==
  ASSUME NEW S, NEW f, NEW x, x \notin S, f[x] \in Nat, IsFiniteSet(Units(S, f))
  PROVE  /\ IsFiniteSet(Units(S \cup {x}, f))
         /\ TotalOver(S \cup {x}, f) = TotalOver(S, f) + f[x]
<1> DEFINE X == {x} \X (1..f[x])
<1>1. Units(S \cup {x}, f) = Units(S, f) \cup X
  BY DEF Units
<1>2. Units(S, f) \cap X = {}
  BY DEF Units
<1>3. IsFiniteSet(X) /\ Cardinality(X) = f[x]
  <2>1. IsFiniteSet({x}) /\ Cardinality({x}) = 1
    BY FS_Singleton
  <2>2. IsFiniteSet(1..f[x]) /\ Cardinality(1..f[x]) = f[x]
    <3> DEFINE n == f[x]
    <3>1. n \in Nat
      OBVIOUS
    <3> HIDE DEF n
    <3>2. IsFiniteSet(1..n) /\ Cardinality(1..n) = n
      BY <3>1, FS_Interval
    <3> QED
      BY <3>2 DEF n
  <2>3. IsFiniteSet(X) /\ Cardinality(X) = 1 * Cardinality(1..f[x])
    <3> DEFINE T == 1..f[x]
    <3> HIDE DEF T
    <3>1. IsFiniteSet(T) => /\ IsFiniteSet({x} \X T)
                            /\ Cardinality({x} \X T) = Cardinality({x}) * Cardinality(T)
      BY <2>1, FS_Product, Zenon
    <3> QED
      BY <2>1, <2>2, <3>1, Zenon DEF T
  <2> QED
    BY <2>2, <2>3
<1>4. Cardinality({}) = 0
  BY FS_EmptySet
<1>5. /\ IsFiniteSet(Units(S, f) \cup X)
      /\ Cardinality(Units(S, f) \cup X) =
           Cardinality(Units(S, f)) + Cardinality(X) - Cardinality(Units(S, f) \cap X)
  BY <1>3, FS_Union
<1>6. Cardinality(Units(S, f)) \in Nat
  BY FS_CardinalityType
<1>7. Cardinality(Units(S, f) \cup X) = Cardinality(Units(S, f)) + f[x]
  <2>1. Cardinality(Units(S, f) \cap X) = 0
    BY <1>2, <1>4, Zenon
  <2>2. \A m, n \in Nat : m + n - 0 = m + n
    OBVIOUS
  <2>3. Cardinality(Units(S, f) \cup X) = Cardinality(Units(S, f)) + f[x] - 0
    BY <1>3, <1>5, <2>1, Zenon
  <2> QED
    BY <1>6, <2>2, <2>3, Zenon
<1> QED
  BY <1>1, <1>5, <1>7, Zenon DEF TotalOver

-----------------------------------------------------------------------------
\* Operations have owners and owners have balances.
LEMMA OwnerType ==
  ASSUME TypeOK, NEW o \in Ops
  PROVE  OwnerOf[o] \in Users /\ balance[OwnerOf[o]] \in Int
<1>1. OwnerOf[o] \in Users
  BY BillingConstants
<1> QED
  BY <1>1 DEF TypeOK

\* The amount of an operation is a number, and the row it writes is a row.
LEMMA RowType ==
  ASSUME TypeOK, NEW o \in Ops
  PROVE  AmountOf(o) \in Int /\ Row(o) \in LedgerRows
<1>1. OwnerOf[o] \in Users /\ snapshot[o] \in Int
  BY OwnerType DEF TypeOK
<1>2. AmountOf(o) \in Int
  <2>1. CASE o \in Calls
    <3>1. charge[o] \in Nat
      BY <2>1 DEF TypeOK
    <3> QED
      BY <2>1, <3>1 DEF AmountOf
  <2>2. CASE o \notin Calls
    <3>1. GrantAmount[o] \in Nat
      BY <2>2, BillingConstants DEF Ops
    <3> QED
      BY <2>2, <3>1 DEF AmountOf
  <2> QED
    BY <2>1, <2>2
<1> QED
  BY <1>1, <1>2 DEF Row, LedgerRows

\* A jump keeps the type of pc, an answer keeps every type.
LEMMA GotoType ==
  ASSUME TypeOK, NEW o \in Ops, NEW label \in Labels, Goto(o, label)
  PROVE  pc' \in [Ops -> Labels]
BY DEF TypeOK, Goto

LEMMA AnswerType ==
  ASSUME TypeOK, NEW o \in Ops, NEW code \in StatusCodes, Answer(o, code)
  PROVE  TypeOK'
<1>1. pc' \in [Ops -> Labels]
  BY GotoType DEF Answer, Labels, Ended
<1>2. status' \in [Ops -> StatusCodes]
  BY DEF TypeOK, Answer
<1> QED
  BY <1>1, <1>2 DEF TypeOK, Answer, dbVars

\* Moving a balance keeps the types of what it changes.
LEMMA MoveBalanceType ==
  ASSUME TypeOK, NEW o \in Ops, NEW amount \in Int, MoveBalance(o, amount),
         pc' \in [Ops -> Labels], status' \in [Ops -> StatusCodes]
  PROVE  TypeOK'
<1>1. balance[OwnerOf[o]] + amount \in Int /\ OwnerOf[o] \in Users
  BY OwnerType
<1>2. balance' = [balance EXCEPT ![OwnerOf[o]] = balance[OwnerOf[o]] + amount]
  BY DEF MoveBalance
<1>3. balance' \in [Users -> Int]
  BY <1>1, <1>2 DEF TypeOK
<1>4. applied' \subseteq Ops
  BY DEF TypeOK, MoveBalance
<1> QED
  BY <1>3, <1>4 DEF TypeOK, MoveBalance

\* What the end of a ledger transaction does to pc and status.
LEMMA LedgerEndType ==
  ASSUME TypeOK, NEW o \in Ops, NEW ok \in BOOLEAN,
         IF o \in Calls
           THEN Goto(o, "logging") /\ UNCHANGED status
           ELSE Goto(o, "done") /\ status' = [status EXCEPT ![o] = AfterGrant(o, ok)]
  PROVE  pc' \in [Ops -> Labels] /\ status' \in [Ops -> StatusCodes]
<1>1. pc' \in [Ops -> Labels]
  BY GotoType DEF Labels, InFlight, Ended
<1>2. AfterGrant(o, ok) \in StatusCodes
  BY DEF AfterGrant, StatusCodes
<1> QED
  BY <1>1, <1>2 DEF TypeOK

-----------------------------------------------------------------------------
\* A step of a call keeps every type.
LEMMA CallStepType ==
  ASSUME TypeOK, NEW c \in Calls, CallStep(c)
  PROVE  TypeOK'
<1>0. c \in Ops
  BY DEF Ops
<1>1. CASE Admit(c)
  <2>1. pc' \in [Ops -> Labels]
    BY <1>0, <1>1, GotoType DEF Admit, Labels, InFlight
  <2> QED
    BY <1>1, <2>1 DEF TypeOK, Admit, dbVars
<1>2. CASE \/ RefuseInsufficient(c) \/ RefuseTokenLimit(c) \/ RefuseNoRoute(c)
           \/ RefuseInvalid(c)
           \/ AllProvidersFail(c) \/ Respond(c)
  BY <1>0, <1>2, AnswerType DEF RefuseInsufficient, RefuseTokenLimit, RefuseNoRoute, RefuseInvalid,
       AllProvidersFail, Respond, StatusCodes
<1>3. CASE ProviderFails(c)
  <2>1. attempt' \in [Calls -> Nat]
    BY <1>3 DEF TypeOK, ProviderFails
  <2> QED
    BY <1>3, <2>1 DEF TypeOK, ProviderFails, dbVars
<1>4. CASE ProviderAnswers(c)
  <2>1. pc' \in [Ops -> Labels]
    BY <1>0, <1>4, GotoType DEF ProviderAnswers, Labels, InFlight
  <2>2. status' \in [Ops -> StatusCodes]
    <3>1. 200 \in StatusCodes /\ status \in [Ops -> StatusCodes]
      BY DEF TypeOK, StatusCodes
    <3>2. status' = status \/ status' = [status EXCEPT ![c] = 200]
      BY <1>4 DEF ProviderAnswers
    <3> QED
      BY <3>1, <3>2
  <2> QED
    BY <1>4, <2>1, <2>2 DEF TypeOK, ProviderAnswers, dbVars
<1>5. CASE StreamEnds(c) \/ ClientLeaves(c)
  <2>1. pc' \in [Ops -> Labels]
    BY <1>0, <1>5, GotoType DEF StreamEnds, ClientLeaves, Labels, InFlight, Ended
  <2> QED
    BY <1>5, <2>1 DEF TypeOK, StreamEnds, ClientLeaves, dbVars
<1>6. CASE CalculateCost(c)
  <2>1. pc' \in [Ops -> Labels]
    BY <1>0, <1>6, GotoType DEF CalculateCost, Labels, InFlight
  <2>2. PICK a \in Charges : charge' = [charge EXCEPT ![c] = a]
    BY <1>6 DEF CalculateCost
  <2>3. a \in Nat
    BY BillingConstants
  <2>4. charge' \in [Calls -> Nat]
    BY <2>2, <2>3 DEF TypeOK
  <2> QED
    BY <1>6, <2>1, <2>4 DEF TypeOK, CalculateCost, dbVars
<1>7. CASE RecordUsage(c) \/ RecordUsageFails(c) \/ RecordUsageUnacked(c)
  <2>1. pc' \in [Ops -> Labels]
    BY <1>0, <1>7, GotoType DEF RecordUsage, RecordUsageFails, RecordUsageUnacked,
         Labels, InFlight
  <2>2. [call |-> c, charged |-> charge[c]] \in UsageRows
    BY DEF TypeOK, UsageRows
  <2>3. usage' \in [RequestIds -> UsageRows \cup {NoUsage}]
    BY <1>7, <2>2 DEF TypeOK, RecordUsage, RecordUsageFails, RecordUsageUnacked,
         InsertUsage, dbVars
  <2> QED
    BY <1>7, <2>1, <2>3 DEF TypeOK, RecordUsage, RecordUsageFails,
         RecordUsageUnacked, dbVars
<1>8. CASE DeductBalance(c) \/ DeductUnacked(c)
  <2>1. pc' \in [Ops -> Labels] /\ status' \in [Ops -> StatusCodes]
    BY <1>0, <1>8, GotoType DEF DeductBalance, DeductUnacked, Labels, InFlight, TypeOK
  <2>2. -charge[c] \in Int
    <3>1. charge[c] \in Nat
      BY DEF TypeOK
    <3> QED
      BY <3>1
  <2> QED
    BY <1>0, <1>8, <2>1, <2>2, MoveBalanceType DEF DeductBalance, DeductUnacked
<1>9. CASE DeductRefused(c)
  <2>1. pc' \in [Ops -> Labels]
    BY <1>0, <1>9, GotoType DEF DeductRefused, Labels, InFlight
  <2> QED
    BY <1>9, <2>1 DEF TypeOK, DeductRefused, dbVars
<1> QED
  BY <1>1, <1>2, <1>3, <1>4, <1>5, <1>6, <1>7, <1>8, <1>9 DEF CallStep

\* A step of a grant keeps every type.
LEMMA GrantStepType ==
  ASSUME TypeOK, NEW g \in Grants, GrantStep(g)
  PROVE  TypeOK'
<1>0. g \in Ops
  BY DEF Ops
<1>1. GrantAmount[g] \in Int
  <2>1. GrantAmount[g] \in Nat
    BY BillingConstants
  <2> QED
    BY <2>1
<1>2. AfterGrant(g, FALSE) \in StatusCodes
  BY DEF AfterGrant, StatusCodes
<1>3. CASE AddBalance(g) \/ AddBalanceUnacked(g)
  <2>1. pc' \in [Ops -> Labels] /\ status' \in [Ops -> StatusCodes]
    BY <1>0, <1>2, <1>3, GotoType
    DEF AddBalance, AddBalanceUnacked, Labels, InFlight, Ended, TypeOK
  <2> QED
    BY <1>0, <1>1, <1>3, <2>1, MoveBalanceType DEF AddBalance, AddBalanceUnacked
<1>4. CASE AddBalanceFails(g)
  BY <1>0, <1>2, <1>4, AnswerType DEF AddBalanceFails
<1> QED
  BY <1>3, <1>4 DEF GrantStep

\* A step of a ledger transaction keeps every type.
LEMMA LedgerStepType ==
  ASSUME TypeOK, NEW o \in Ops, LedgerStep(o)
  PROVE  TypeOK'
<1>1. CASE LedgerInsert(o)
  <2>1. pc' \in [Ops -> Labels]
    BY <1>1, GotoType DEF LedgerInsert, Labels, InFlight
  <2>2. snapshot' \in [Ops -> Int]
    BY <1>1, OwnerType DEF TypeOK, LedgerInsert
  <2> QED
    BY <1>1, <2>1, <2>2 DEF TypeOK, LedgerInsert, dbVars
<1>2. CASE LedgerCommit(o) \/ LedgerFails(o)
  <2>1. pc' \in [Ops -> Labels] /\ status' \in [Ops -> StatusCodes]
    BY <1>2, LedgerEndType DEF LedgerCommit, LedgerFails
  <2>2. ledger' \in Seq(LedgerRows)
    <3>1. Row(o) \in LedgerRows /\ ledger \in Seq(LedgerRows)
      BY RowType DEF TypeOK
    <3>2. Append(ledger, Row(o)) \in Seq(LedgerRows)
      BY <3>1
    <3>3. ledger' = ledger \/ ledger' = Append(ledger, Row(o))
      BY <1>2 DEF LedgerCommit, LedgerFails
    <3> QED
      BY <3>1, <3>2, <3>3
  <2> QED
    BY <1>2, <2>1, <2>2 DEF TypeOK, LedgerCommit, LedgerFails
<1> QED
  BY <1>1, <1>2 DEF LedgerStep

\* Every variable keeps its type.
THEOREM TypeCorrect == Spec => []TypeOK
<1>1. Init => TypeOK
  <2> SUFFICES ASSUME Init PROVE TypeOK
    OBVIOUS
  <2>1. balance \in [Users -> Int]
    BY BillingConstants DEF Init
  <2> QED
    BY <2>1 DEF Init, TypeOK, Labels, StatusCodes
<1>2. TypeOK /\ [Next]_vars => TypeOK'
  <2> SUFFICES ASSUME TypeOK, [Next]_vars PROVE TypeOK'
    OBVIOUS
  <2>1. CASE Crash
    <3>1. pc' \in [Ops -> Labels]
      BY <2>1 DEF TypeOK, Crash, Labels, Ended
    <3> QED
      BY <2>1, <3>1 DEF TypeOK, Crash, dbVars
  <2>2. CASE UNCHANGED vars
    BY <2>2 DEF TypeOK, vars, handlerVars, dbVars
  <2> QED
    BY <2>1, <2>2, CallStepType, GrantStepType, LedgerStepType DEF Next, Stopped
<1> QED
  BY <1>1, <1>2, PTL DEF Spec

-----------------------------------------------------------------------------
(* How far a handler has come tells what it has done to the three tables.  *)

Metered(c) == usage[RequestIdOf[c]] = [call |-> c, charged |-> charge[c]]

\* The labels at which a movement of the balance lies behind the handler.
Moved == {"insert", "commit", "logging"} \cup Ended

CallStage(c) ==
  /\ pc[c] = "deduct" => charge[c] > 0 /\ c \notin applied /\ Metered(c)
  /\ c \in applied => charge[c] > 0 /\ pc[c] \in Moved /\ Metered(c)

GrantStage(g) ==
  /\ pc[g] \in {"idle", "insert", "commit"} \cup Ended
  /\ pc[g] = "idle" => g \notin applied

LedgerStage(o) ==
  pc[o] \in {"insert", "commit"} => o \in applied /\ o \notin LedgeredOps

Stages ==
  /\ \A c \in Calls : CallStage(c)
  /\ \A g \in Grants : GrantStage(g)
  /\ \A o \in Ops : LedgerStage(o)
  /\ LedgerTellsTheTruth

\* A row more makes one operation more a ledgered one.
LEMMA LedgerGrows ==
  ASSUME TypeOK, NEW o \in Ops, ledger' = Append(ledger, Row(o))
  PROVE  /\ LedgeredOps' = LedgeredOps \cup {o}
         /\ DOMAIN ledger' = DOMAIN ledger \cup {Len(ledger) + 1}
         /\ \A i \in DOMAIN ledger : ledger'[i] = ledger[i] /\ i # Len(ledger) + 1
         /\ ledger'[Len(ledger) + 1] = Row(o)
<1>1. Row(o) \in LedgerRows /\ ledger \in Seq(LedgerRows)
  BY RowType DEF TypeOK
<1>2. /\ DOMAIN ledger' = DOMAIN ledger \cup {Len(ledger) + 1}
      /\ \A i \in DOMAIN ledger : ledger'[i] = ledger[i] /\ i # Len(ledger) + 1
      /\ ledger'[Len(ledger) + 1] = Row(o)
  BY <1>1
<1>3. Row(o).op = o
  BY DEF Row
<1> QED
  BY <1>2, <1>3 DEF LedgeredOps

\* What a step leaves alone for every operation but its own.
Others(o) == \A x \in Ops : x # o => pc'[x] = pc[x]

LEMMA GotoOthers ==
  ASSUME TypeOK, NEW o \in Ops, NEW label, Goto(o, label)
  PROVE  Others(o) /\ pc'[o] = label
BY DEF TypeOK, Goto, Others

\* A step that moves no balance, writes no table and changes no cost keeps
\* the stages, provided it does not jump to where a movement is to come or
\* lies behind (unless from there).
LEMMA QuietStages ==
  ASSUME TypeOK, Stages, NEW o \in Ops, Others(o),
         UNCHANGED <<charge, usage, ledger, applied>>,
         pc'[o] # "deduct",
         pc'[o] \in {"insert", "commit"} => pc[o] \in {"insert", "commit"},
         pc[o] \in Moved => pc'[o] \in Moved,
         o \in Grants => pc'[o] \in {"insert", "commit"} \cup Ended
  PROVE  Stages'
<1>1. LedgeredOps' = LedgeredOps
  BY DEF LedgeredOps
<1>2. ASSUME NEW c \in Calls PROVE CallStage(c)'
  <2>1. CallStage(c) /\ c \in Ops
    BY DEF Stages, Ops
  <2>2. CASE c = o
    BY <2>1, <2>2 DEF CallStage, Metered
  <2>3. CASE c # o
    BY <2>1, <2>3 DEF CallStage, Metered, Others
  <2> QED
    BY <2>2, <2>3
<1>3. ASSUME NEW g \in Grants PROVE GrantStage(g)'
  <2>1. GrantStage(g) /\ g \in Ops
    BY DEF Stages, Ops
  <2> QED
    BY <2>1 DEF GrantStage, Others, Ended
<1>4. ASSUME NEW x \in Ops PROVE LedgerStage(x)'
  <2>1. LedgerStage(x)
    BY DEF Stages
  <2> QED
    BY <1>1, <2>1 DEF LedgerStage, Others
<1>5. LedgerTellsTheTruth'
  BY DEF Stages, LedgerTellsTheTruth, AmountOf
<1> QED
  BY <1>2, <1>3, <1>4, <1>5 DEF Stages

\* A call's steps keep the stages.
LEMMA CallStepStages ==
  ASSUME TypeOK, Stages, NEW c \in Calls, CallStep(c)
  PROVE  Stages'
<1>0. c \in Ops /\ c \notin Grants /\ CallStage(c) /\ LedgerStage(c)
  BY BillingConstants DEF Ops, Stages
<1>1. CASE \/ Admit(c) \/ StreamEnds(c) \/ ClientLeaves(c) \/ RecordUsageFails(c)
           \/ DeductRefused(c)
  <2>1. Others(c) /\ pc[c] \notin Moved /\ pc'[c] \notin {"deduct", "insert", "commit"}
    BY <1>0, <1>1, GotoOthers DEF Admit, StreamEnds, ClientLeaves, RecordUsageFails,
         DeductRefused, Moved, Ended
  <2>2. UNCHANGED <<charge, usage, ledger, applied>>
    BY <1>1 DEF Admit, StreamEnds, ClientLeaves, RecordUsageFails, DeductRefused, dbVars
  <2> QED
    BY <1>0, <2>1, <2>2, QuietStages
<1>2. CASE \/ RefuseInsufficient(c) \/ RefuseTokenLimit(c) \/ RefuseNoRoute(c)
           \/ RefuseInvalid(c)
           \/ AllProvidersFail(c) \/ Respond(c)
  <2>1. Others(c) /\ pc'[c] = "done" /\ UNCHANGED <<charge, usage, ledger, applied>>
    BY <1>0, <1>2, GotoOthers DEF RefuseInsufficient, RefuseTokenLimit, RefuseNoRoute, RefuseInvalid,
         AllProvidersFail, Respond, Answer, dbVars
  <2> QED
    BY <1>0, <2>1, QuietStages DEF Moved, Ended
<1>3. CASE ProviderFails(c)
  <2>1. Others(c) /\ pc'[c] = "calling" /\ pc[c] = "calling"
    BY <1>0, <1>3 DEF ProviderFails, Others
  <2> QED
    BY <1>0, <1>3, <2>1, QuietStages DEF ProviderFails, dbVars, Moved, Ended
<1>4. CASE ProviderAnswers(c)
  <2>1. Others(c) /\ pc'[c] \in {"relaying", "pricing"} /\ pc[c] = "calling"
    BY <1>0, <1>4, GotoOthers DEF ProviderAnswers
  <2> QED
    BY <1>0, <1>4, <2>1, QuietStages DEF ProviderAnswers, dbVars, Moved, Ended
<1>5. CASE CalculateCost(c)
  <2>1. Others(c) /\ pc'[c] = "usage" /\ pc[c] = "pricing"
    BY <1>0, <1>5, GotoOthers DEF CalculateCost
  <2>2. c \notin applied
    BY <1>0, <2>1 DEF CallStage, Moved, Ended
  <2>3. \A x \in Calls : x # c => charge'[x] = charge[x]
    BY <1>5 DEF CalculateCost, TypeOK
  <2>4. UNCHANGED <<usage, ledger, applied>> /\ LedgeredOps' = LedgeredOps
    BY <1>5 DEF CalculateCost, dbVars, LedgeredOps
  <2>5. ASSUME NEW d \in Calls PROVE CallStage(d)'
    <3>1. CASE d = c
      BY <2>1, <2>2, <2>4, <3>1 DEF CallStage
    <3>2. CASE d # c
      <4>1. CallStage(d) /\ pc'[d] = pc[d] /\ charge'[d] = charge[d]
        BY <2>1, <2>3, <3>2 DEF Stages, Others, Ops
      <4> QED
        BY <2>4, <4>1 DEF CallStage, Metered
    <3> QED
      BY <3>1, <3>2
  <2>6. \A g \in Grants : GrantStage(g)'
    BY <1>0, <2>1, <2>4 DEF Stages, GrantStage, Others, Ops
  <2>7. \A o \in Ops : LedgerStage(o)'
    BY <2>1, <2>4 DEF Stages, LedgerStage, Others
  <2>8. \A o \in applied : AmountOf(o)' = AmountOf(o)
    BY <2>2, <2>3 DEF AmountOf
  <2>9. LedgerTellsTheTruth'
    BY <2>4, <2>8 DEF Stages, LedgerTellsTheTruth
  <2> QED
    BY <2>5, <2>6, <2>7, <2>9 DEF Stages
<1>6. CASE RecordUsage(c) \/ RecordUsageUnacked(c)
  <2>1. Others(c) /\ pc[c] = "usage" /\ usage[RequestIdOf[c]] = NoUsage
        /\ (pc'[c] = "logging" \/ (pc'[c] = "deduct" /\ charge[c] > 0))
    BY <1>0, <1>6, GotoOthers DEF RecordUsage, RecordUsageUnacked
  <2>2. RequestIdOf[c] \in RequestIds
    BY BillingConstants
  <2>3. /\ Metered(c)'
        /\ \A r \in RequestIds : r # RequestIdOf[c] => usage'[r] = usage[r]
    BY <1>6, <2>2 DEF RecordUsage, RecordUsageUnacked, InsertUsage, Metered, TypeOK
  <2>4. UNCHANGED <<charge, ledger, applied>> /\ LedgeredOps' = LedgeredOps
    BY <1>6 DEF RecordUsage, RecordUsageUnacked, LedgeredOps
  <2>5. c \notin applied
    BY <1>0, <2>1 DEF CallStage, Moved, Ended
  <2>6. ASSUME NEW d \in Calls PROVE CallStage(d)'
    <3>1. CASE d = c
      BY <2>1, <2>3, <2>4, <2>5, <3>1 DEF CallStage
    <3>2. CASE d # c
      <4>1. CallStage(d) /\ pc'[d] = pc[d]
        BY <2>1, <3>2 DEF Stages, Others, Ops
      <4>2. Metered(d) => RequestIdOf[d] # RequestIdOf[c]
        <5>1. charge[d] \in Nat
          BY DEF TypeOK
        <5>2. [call |-> d, charged |-> charge[d]] # NoUsage
          BY <5>1, BillingConstants
        <5> QED
          BY <2>1, <5>2 DEF Metered
      <4>3. RequestIdOf[d] \in RequestIds
        BY BillingConstants
      <4>4. Metered(d) => Metered(d)'
        BY <2>3, <2>4, <4>2, <4>3 DEF Metered
      <4> QED
        BY <2>4, <4>1, <4>4 DEF CallStage
    <3> QED
      BY <3>1, <3>2
  <2>7. \A g \in Grants : GrantStage(g)'
    BY <1>0, <2>1, <2>4 DEF Stages, GrantStage, Others, Ops
  <2>8. \A o \in Ops : LedgerStage(o)'
    BY <2>1, <2>4 DEF Stages, LedgerStage, Others
  <2>9. LedgerTellsTheTruth'
    BY <2>4 DEF Stages, LedgerTellsTheTruth, AmountOf
  <2> QED
    BY <2>6, <2>7, <2>8, <2>9 DEF Stages
<1>7. CASE DeductBalance(c) \/ DeductUnacked(c)
  <2>1. Others(c) /\ pc[c] = "deduct" /\ pc'[c] \in {"insert", "logging"}
    BY <1>0, <1>7, GotoOthers DEF DeductBalance, DeductUnacked
  <2>2. /\ UNCHANGED <<charge, usage, ledger>> /\ LedgeredOps' = LedgeredOps
        /\ applied' = applied \cup {c}
    BY <1>7 DEF DeductBalance, DeductUnacked, MoveBalance, LedgeredOps
  <2>3. charge[c] > 0 /\ c \notin applied /\ Metered(c)
    BY <1>0, <2>1 DEF CallStage
  <2>4. LedgeredOps \subseteq applied
    BY DEF Stages, LedgerTellsTheTruth, LedgeredOps
  <2>5. ASSUME NEW d \in Calls PROVE CallStage(d)'
    <3>1. CASE d = c
      BY <2>1, <2>2, <2>3, <3>1 DEF CallStage, Metered, Moved
    <3>2. CASE d # c
      <4>1. CallStage(d) /\ pc'[d] = pc[d]
        BY <2>1, <3>2 DEF Stages, Others, Ops
      <4> QED
        BY <2>2, <3>2, <4>1 DEF CallStage, Metered
    <3> QED
      BY <3>1, <3>2
  <2>6. \A g \in Grants : GrantStage(g)'
    BY <1>0, <2>1, <2>2 DEF Stages, GrantStage, Others, Ops
  <2>7. \A o \in Ops : LedgerStage(o)'
    BY <2>1, <2>2, <2>3, <2>4 DEF Stages, LedgerStage, Others
  <2>8. LedgerTellsTheTruth'
    BY <2>2 DEF Stages, LedgerTellsTheTruth, AmountOf
  <2> QED
    BY <2>5, <2>6, <2>7, <2>8 DEF Stages
<1> QED
  BY <1>1, <1>2, <1>3, <1>4, <1>5, <1>6, <1>7 DEF CallStep

\* A grant's steps keep the stages.
LEMMA GrantStepStages ==
  ASSUME TypeOK, Stages, NEW g \in Grants, GrantStep(g)
  PROVE  Stages'
<1>0. g \in Ops /\ g \notin Calls /\ GrantStage(g) /\ LedgerStage(g)
  BY BillingConstants DEF Ops, Stages
<1>1. CASE AddBalanceFails(g)
  <2>1. Others(g) /\ pc[g] = "idle" /\ pc'[g] = "done"
        /\ UNCHANGED <<charge, usage, ledger, applied>>
    BY <1>0, <1>1, GotoOthers DEF AddBalanceFails, Answer, dbVars
  <2> QED
    BY <1>0, <2>1, QuietStages DEF Moved, Ended
<1>2. CASE AddBalance(g) \/ AddBalanceUnacked(g)
  <2>1. Others(g) /\ pc[g] = "idle" /\ pc'[g] \in {"insert", "done"}
    BY <1>0, <1>2, GotoOthers DEF AddBalance, AddBalanceUnacked
  <2>2. /\ UNCHANGED <<charge, usage, ledger>> /\ LedgeredOps' = LedgeredOps
        /\ applied' = applied \cup {g} /\ g \notin applied
    <3>1. MoveBalance(g, GrantAmount[g])
      BY <1>2 DEF AddBalance, AddBalanceUnacked
    <3>2. UNCHANGED <<charge, usage, ledger>> /\ applied' = applied \cup {g}
      BY <3>1 DEF MoveBalance
    <3> QED
      BY <1>0, <2>1, <3>2 DEF LedgeredOps, GrantStage
  <2>3. LedgeredOps \subseteq applied
    BY DEF Stages, LedgerTellsTheTruth, LedgeredOps
  <2>4. ASSUME NEW d \in Calls PROVE CallStage(d)'
    <3>1. CallStage(d) /\ pc'[d] = pc[d] /\ d # g
      BY <1>0, <2>1 DEF Stages, Others, Ops
    <3> QED
      BY <2>2, <3>1 DEF CallStage, Metered
  <2>5. \A x \in Grants : GrantStage(x)'
    BY <1>0, <2>1, <2>2 DEF Stages, GrantStage, Others, Ops, Ended
  <2>6. \A o \in Ops : LedgerStage(o)'
    BY <2>1, <2>2, <2>3 DEF Stages, LedgerStage, Others
  <2>7. LedgerTellsTheTruth'
    BY <2>2 DEF Stages, LedgerTellsTheTruth, AmountOf
  <2> QED
    BY <2>4, <2>5, <2>6, <2>7 DEF Stages
<1> QED
  BY <1>1, <1>2 DEF GrantStep

\* The steps of a ledger transaction keep the stages.
LEMMA LedgerStepStages ==
  ASSUME TypeOK, Stages, NEW o \in Ops, LedgerStep(o)
  PROVE  Stages'
<1>0. LedgerStage(o)
  BY DEF Stages
<1>1. Others(o) /\ pc[o] \in {"insert", "commit"} /\ pc'[o] \in {"commit", "logging", "done"}
      /\ (pc'[o] = "commit" => LedgerInsert(o)) /\ (o \in Grants => pc'[o] # "logging")
  <2>1. o \in Grants => o \notin Calls
    BY BillingConstants
  <2>2. CASE LedgerInsert(o)
    BY <2>2, GotoOthers DEF LedgerInsert
  <2>3. CASE LedgerCommit(o)
    <3>1. pc[o] \in {"insert", "commit"}
      BY <2>3 DEF LedgerCommit
    <3>2. (Goto(o, "logging") /\ o \in Calls) \/ Goto(o, "done")
      BY <2>3 DEF LedgerCommit
    <3>3. Others(o) /\ ((pc'[o] = "logging" /\ o \in Calls) \/ pc'[o] = "done")
      BY <3>2, GotoOthers
    <3> QED
      BY <2>1, <3>1, <3>3
  <2>4. CASE LedgerFails(o)
    <3>1. pc[o] \in {"insert", "commit"}
      BY <2>4 DEF LedgerFails
    <3>2. (Goto(o, "logging") /\ o \in Calls) \/ Goto(o, "done")
      BY <2>4 DEF LedgerFails
    <3>3. Others(o) /\ ((pc'[o] = "logging" /\ o \in Calls) \/ pc'[o] = "done")
      BY <3>2, GotoOthers
    <3> QED
      BY <2>1, <3>1, <3>3
  <2> QED
    BY <2>2, <2>3, <2>4 DEF LedgerStep
<1>2. UNCHANGED <<charge, usage, applied>>
  BY DEF LedgerStep, LedgerInsert, LedgerCommit, LedgerFails, dbVars
<1>3. o \in applied /\ o \notin LedgeredOps
  BY <1>0, <1>1 DEF LedgerStage
<1>4. CASE UNCHANGED ledger
  BY <1>1, <1>2, <1>4, QuietStages DEF Moved, Ended
<1>5. CASE ledger' = Append(ledger, Row(o)) /\ ~LedgerInsert(o)
  <2>1. /\ LedgeredOps' = LedgeredOps \cup {o}
        /\ DOMAIN ledger' = DOMAIN ledger \cup {Len(ledger) + 1}
        /\ \A i \in DOMAIN ledger : ledger'[i] = ledger[i] /\ i # Len(ledger) + 1
        /\ ledger'[Len(ledger) + 1] = Row(o)
    BY <1>5, LedgerGrows
  <2>2. \A c \in Calls : CallStage(c)'
    <3> SUFFICES ASSUME NEW c \in Calls PROVE CallStage(c)'
      OBVIOUS
    <3>1. CallStage(c) /\ c \in Ops
      BY DEF Stages, Ops
    <3> QED
      BY <1>1, <1>2, <3>1 DEF CallStage, Metered, Others, Moved, Ended
  <2>3. \A g \in Grants : GrantStage(g)'
    BY <1>1, <1>2 DEF Stages, GrantStage, Others, Ops, Ended
  <2>4. \A x \in Ops : LedgerStage(x)'
    BY <1>1, <1>2, <1>5, <2>1 DEF Stages, LedgerStage, Others
  <2>5. /\ Row(o).op = o /\ Row(o).user = OwnerOf[o] /\ Row(o).amount = AmountOf(o)
        /\ \A x : AmountOf(x)' = AmountOf(x)
    BY <1>2 DEF Row, AmountOf
  <2>6. \A i \in DOMAIN ledger : ledger[i].op # o
    BY <1>3 DEF LedgeredOps
  <2>7. LedgerTellsTheTruth'
    BY <1>2, <1>3, <2>1, <2>5, <2>6 DEF Stages, LedgerTellsTheTruth
  <2> QED
    BY <2>2, <2>3, <2>4, <2>7 DEF Stages
<1> QED
  BY <1>1, <1>4, <1>5 DEF LedgerStep, LedgerInsert, LedgerCommit, LedgerFails, dbVars

\* The stages hold throughout.
LEMMA StagesInvariant == Spec => []Stages
<1>1. Init => Stages
  BY BillingConstants DEF Init, Stages, CallStage, GrantStage, LedgerStage,
       LedgerTellsTheTruth, Ops
<1>2. TypeOK /\ Stages /\ [Next]_vars => Stages'
  <2> SUFFICES ASSUME TypeOK, Stages, [Next]_vars PROVE Stages'
    OBVIOUS
  <2>1. CASE Crash
    <3>1. UNCHANGED <<charge, usage, ledger, applied>> /\ LedgeredOps' = LedgeredOps
      BY <2>1 DEF Crash, dbVars, LedgeredOps
    <3>2. \A o \in Ops : pc'[o] = pc[o] \/ pc'[o] = "lost"
      BY <2>1 DEF Crash
    <3>3. ASSUME NEW c \in Calls PROVE CallStage(c)'
      <4>1. CallStage(c) /\ (pc'[c] = pc[c] \/ pc'[c] = "lost")
        BY <3>2 DEF Stages, Ops
      <4> QED
        BY <3>1, <4>1 DEF CallStage, Metered, Moved, Ended
    <3>4. \A g \in Grants : GrantStage(g)'
      BY <3>1, <3>2 DEF Stages, GrantStage, Ops, Ended
    <3>5. \A o \in Ops : LedgerStage(o)'
      BY <3>1, <3>2 DEF Stages, LedgerStage
    <3>6. LedgerTellsTheTruth'
      BY <3>1 DEF Stages, LedgerTellsTheTruth, AmountOf
    <3> QED
      BY <3>3, <3>4, <3>5, <3>6 DEF Stages
  <2>2. CASE UNCHANGED vars
    <3>1. UNCHANGED <<pc, charge, usage, ledger, applied>> /\ LedgeredOps' = LedgeredOps
      BY <2>2 DEF vars, handlerVars, dbVars, LedgeredOps
    <3> QED
      BY <3>1 DEF Stages, CallStage, GrantStage, LedgerStage, Metered,
           LedgerTellsTheTruth, AmountOf
  <2> QED
    BY <2>1, <2>2, CallStepStages, GrantStepStages, LedgerStepStages DEF Next, Stopped
<1> QED
  BY <1>1, <1>2, TypeCorrect, PTL DEF Spec

\* A ledger row stands for one movement of the balance, whatever fails.
THEOREM LedgerIsTruthful == Spec => []LedgerTellsTheTruth
<1>1. Stages => LedgerTellsTheTruth
  BY DEF Stages
<1> QED
  BY <1>1, StagesInvariant, PTL

\* A request id is charged once, the amount its usage row holds.
THEOREM ChargedOnce == Spec => []ChargedOncePerRequestId
<1>1. Stages => ChargedOncePerRequestId
  <2> SUFFICES ASSUME Stages PROVE ChargedOncePerRequestId
    OBVIOUS
  <2>1. \A c \in applied \cap Calls : Metered(c)
    BY DEF Stages, CallStage
  <2>2. ASSUME NEW c \in applied \cap Calls, NEW d \in applied \cap Calls,
               RequestIdOf[c] = RequestIdOf[d]
        PROVE  c = d
    <3>1. [call |-> c, charged |-> charge[c]] = [call |-> d, charged |-> charge[d]]
      BY <2>1, <2>2 DEF Metered
    <3>2. [call |-> c, charged |-> charge[c]].call = [call |-> d, charged |-> charge[d]].call
      BY <3>1
    <3> QED
      BY <3>2
  <2> QED
    BY <2>1, <2>2 DEF ChargedOncePerRequestId, Metered
<1> QED
  BY <1>1, StagesInvariant, PTL

-----------------------------------------------------------------------------
(* Balances.  The sums need their units to be finite to be numbers.        *)

FiniteSums ==
  \A u \in Users : /\ IsFiniteSet(Units(ChargedTo(u), charge))
                   /\ IsFiniteSet(Units(CreditedTo(u), GrantAmount))

Balances == NeverOverdrawn /\ BalanceConserved /\ FiniteSums

LEMMA SumsAreNumbers ==
  ASSUME FiniteSums, NEW u \in Users
  PROVE  TotalOver(ChargedTo(u), charge) \in Nat /\ TotalOver(CreditedTo(u), GrantAmount) \in Nat
BY FS_CardinalityType DEF FiniteSums, TotalOver

\* A step that moves no balance and reprices no charged call changes no sum.
LEMMA QuietBalances ==
  ASSUME TypeOK, Balances, UNCHANGED <<balance, applied>>,
         \A c \in applied \cap Calls : charge'[c] = charge[c]
  PROVE  Balances'
<1>1. ASSUME NEW u \in Users
      PROVE  /\ ChargedTo(u)' = ChargedTo(u) /\ CreditedTo(u)' = CreditedTo(u)
             /\ Units(ChargedTo(u)', charge') = Units(ChargedTo(u), charge)
             /\ TotalOver(ChargedTo(u)', charge') = TotalOver(ChargedTo(u), charge)
  <2>1. ChargedTo(u)' = ChargedTo(u) /\ CreditedTo(u)' = CreditedTo(u)
    BY DEF ChargedTo, CreditedTo
  <2>2. \A c \in ChargedTo(u) : charge'[c] = charge[c]
    BY DEF ChargedTo
  <2> QED
    BY <2>1, <2>2, TotalOverSame
<1>2. NeverOverdrawn'
  BY DEF Balances, NeverOverdrawn
<1>3. BalanceConserved'
  BY <1>1 DEF Balances, BalanceConserved
<1>4. FiniteSums'
  BY <1>1 DEF Balances, FiniteSums
<1> QED
  BY <1>2, <1>3, <1>4 DEF Balances

\* A covered deduction adds its charge to the sum of the charges.
LEMMA DeductionBalances ==
  ASSUME TypeOK, Balances, NEW c \in Calls, MoveBalance(c, -charge[c]),
         c \notin applied, balance[OwnerOf[c]] >= charge[c]
  PROVE  Balances'
<1> DEFINE u == OwnerOf[c]
<1>0. c \in Ops /\ c \notin Grants /\ charge[c] \in Nat
  BY BillingConstants DEF Ops, TypeOK
<1>1. u \in Users /\ balance[u] \in Int
  BY <1>0, OwnerType
<1>2. /\ balance' = [balance EXCEPT ![u] = @ + -charge[c]]
      /\ applied' = applied \cup {c} /\ UNCHANGED charge
  BY DEF MoveBalance
<1>3. /\ balance'[u] = balance[u] - charge[c]
      /\ \A v \in Users : v # u => balance'[v] = balance[v]
  BY <1>0, <1>1, <1>2 DEF TypeOK
<1>4. /\ \A v \in Users : CreditedTo(v)' = CreditedTo(v)
      /\ \A v \in Users : v # u => ChargedTo(v)' = ChargedTo(v)
      /\ ChargedTo(u)' = ChargedTo(u) \cup {c} /\ c \notin ChargedTo(u)
  BY <1>0, <1>2 DEF ChargedTo, CreditedTo
<1>5. IsFiniteSet(Units(ChargedTo(u), charge))
  BY <1>1 DEF Balances, FiniteSums
<1>6. /\ IsFiniteSet(Units(ChargedTo(u)', charge'))
      /\ TotalOver(ChargedTo(u)', charge') = TotalOver(ChargedTo(u), charge) + charge[c]
  BY <1>0, <1>2, <1>4, <1>5, TotalOverAdd
<1> HIDE DEF u
<1>7. NeverOverdrawn'
  <2> SUFFICES ASSUME NEW v \in Users PROVE balance'[v] >= 0
    BY DEF NeverOverdrawn
  <2>1. CASE v = u
    <3>1. balance[u] >= charge[c]
      BY DEF u
    <3> QED
      BY <1>0, <1>1, <1>3, <2>1, <3>1
  <2>2. CASE v # u
    BY <1>3, <2>2 DEF Balances, NeverOverdrawn
  <2> QED
    BY <2>1, <2>2
<1>8. BalanceConserved'
  <2> SUFFICES ASSUME NEW v \in Users
               PROVE  balance'[v] + TotalOver(ChargedTo(v)', charge')
                        = Opening[v] + TotalOver(CreditedTo(v)', GrantAmount)
    BY DEF BalanceConserved
  <2>0. balance[v] + TotalOver(ChargedTo(v), charge)
          = Opening[v] + TotalOver(CreditedTo(v), GrantAmount)
    BY DEF Balances, BalanceConserved
  <2>1. CASE v = u
    <3>1. TotalOver(ChargedTo(u), charge) \in Nat
      BY <1>1, SumsAreNumbers DEF Balances
    <3>2. \A a, b \in Int, n \in Nat : (a - n) + (b + n) = a + b
      OBVIOUS
    <3>3. balance'[v] + TotalOver(ChargedTo(v)', charge')
            = (balance[u] - charge[c]) + (TotalOver(ChargedTo(u), charge) + charge[c])
      BY <1>3, <1>6, <2>1, Zenon
    <3>4. @ = balance[u] + TotalOver(ChargedTo(u), charge)
      <4>1. TotalOver(ChargedTo(u), charge) \in Int
        BY <3>1
      <4> QED
        BY <1>0, <1>1, <3>2, <4>1, Zenon
    <3> QED
      BY <1>4, <2>0, <2>1, <3>3, <3>4, Zenon
  <2>2. CASE v # u
    BY <1>2, <1>3, <1>4, <2>0, <2>2, Zenon
  <2> QED
    BY <2>1, <2>2
<1>9. FiniteSums'
  <2> SUFFICES ASSUME NEW v \in Users
               PROVE  /\ IsFiniteSet(Units(ChargedTo(v)', charge'))
                      /\ IsFiniteSet(Units(CreditedTo(v)', GrantAmount))
    BY DEF FiniteSums
  <2>1. /\ IsFiniteSet(Units(ChargedTo(v), charge))
        /\ IsFiniteSet(Units(CreditedTo(v), GrantAmount))
    BY DEF Balances, FiniteSums
  <2>2. CASE v = u
    BY <1>4, <1>6, <2>1, <2>2, Zenon
  <2>3. CASE v # u
    BY <1>2, <1>4, <2>1, <2>3, Zenon
  <2> QED
    BY <2>2, <2>3
<1> QED
  BY <1>7, <1>8, <1>9 DEF Balances

\* A first credit adds its amount to the sum of the credits.
LEMMA CreditBalances ==
  ASSUME TypeOK, Balances, NEW g \in Grants, MoveBalance(g, GrantAmount[g]), g \notin applied
  PROVE  Balances'
<1> DEFINE u == OwnerOf[g]
<1>0. g \in Ops /\ g \notin Calls /\ GrantAmount[g] \in Nat
  BY BillingConstants DEF Ops
<1>1. u \in Users /\ balance[u] \in Int
  BY <1>0, OwnerType
<1>2. /\ balance' = [balance EXCEPT ![u] = @ + GrantAmount[g]]
      /\ applied' = applied \cup {g} /\ UNCHANGED charge
  BY DEF MoveBalance
<1>3. /\ balance'[u] = balance[u] + GrantAmount[g]
      /\ \A v \in Users : v # u => balance'[v] = balance[v]
  BY <1>0, <1>1, <1>2 DEF TypeOK
<1>4. /\ \A v \in Users : ChargedTo(v)' = ChargedTo(v)
      /\ \A v \in Users : v # u => CreditedTo(v)' = CreditedTo(v)
      /\ CreditedTo(u)' = CreditedTo(u) \cup {g} /\ g \notin CreditedTo(u)
  BY <1>0, <1>2 DEF ChargedTo, CreditedTo
<1>5. IsFiniteSet(Units(CreditedTo(u), GrantAmount))
  BY <1>1 DEF Balances, FiniteSums
<1>6. /\ IsFiniteSet(Units(CreditedTo(u)', GrantAmount))
      /\ TotalOver(CreditedTo(u)', GrantAmount)
           = TotalOver(CreditedTo(u), GrantAmount) + GrantAmount[g]
  BY <1>0, <1>4, <1>5, TotalOverAdd
<1> HIDE DEF u
<1>7. NeverOverdrawn'
  <2> SUFFICES ASSUME NEW v \in Users PROVE balance'[v] >= 0
    BY DEF NeverOverdrawn
  <2>1. CASE v = u
    <3>1. balance[u] >= 0
      BY <1>1 DEF Balances, NeverOverdrawn
    <3> QED
      BY <1>0, <1>1, <1>3, <2>1, <3>1
  <2>2. CASE v # u
    BY <1>3, <2>2 DEF Balances, NeverOverdrawn
  <2> QED
    BY <2>1, <2>2
<1>8. BalanceConserved'
  <2> SUFFICES ASSUME NEW v \in Users
               PROVE  balance'[v] + TotalOver(ChargedTo(v)', charge')
                        = Opening[v] + TotalOver(CreditedTo(v)', GrantAmount)
    BY DEF BalanceConserved
  <2>0. balance[v] + TotalOver(ChargedTo(v), charge)
          = Opening[v] + TotalOver(CreditedTo(v), GrantAmount)
    BY DEF Balances, BalanceConserved
  <2>1. CASE v = u
    <3>1. /\ TotalOver(ChargedTo(u), charge) \in Int
          /\ TotalOver(CreditedTo(u), GrantAmount) \in Int
      <4>1. /\ TotalOver(ChargedTo(u), charge) \in Nat
            /\ TotalOver(CreditedTo(u), GrantAmount) \in Nat
        BY <1>1, SumsAreNumbers DEF Balances
      <4> QED
        BY <4>1
    <3>2. Opening[u] \in Int
      <4>1. Opening[u] \in Nat
        BY <1>1, BillingConstants
      <4> QED
        BY <4>1
    <3>4. balance[u] + TotalOver(ChargedTo(u), charge)
            = Opening[u] + TotalOver(CreditedTo(u), GrantAmount)
      BY <2>0, <2>1
    <3>5. (balance[u] + GrantAmount[g]) + TotalOver(ChargedTo(u), charge)
            = Opening[u] + (TotalOver(CreditedTo(u), GrantAmount) + GrantAmount[g])
      BY <1>0, <1>1, <3>1, <3>2, <3>4
    <3> QED
      BY <1>1, <1>2, <1>3, <1>4, <1>6, <2>1, <3>5, Zenon
  <2>2. CASE v # u
    BY <1>2, <1>3, <1>4, <2>0, <2>2, Zenon
  <2> QED
    BY <2>1, <2>2
<1>9. FiniteSums'
  <2> SUFFICES ASSUME NEW v \in Users
               PROVE  /\ IsFiniteSet(Units(ChargedTo(v)', charge'))
                      /\ IsFiniteSet(Units(CreditedTo(v)', GrantAmount))
    BY DEF FiniteSums
  <2>1. /\ IsFiniteSet(Units(ChargedTo(v), charge))
        /\ IsFiniteSet(Units(CreditedTo(v), GrantAmount))
    BY DEF Balances, FiniteSums
  <2>2. CASE v = u
    BY <1>2, <1>4, <1>6, <2>1, <2>2, Zenon
  <2>3. CASE v # u
    BY <1>2, <1>4, <2>1, <2>3, Zenon
  <2> QED
    BY <2>2, <2>3
<1> QED
  BY <1>7, <1>8, <1>9 DEF Balances

\* Balances hold throughout.
LEMMA BalancesInvariant == Spec => []Balances
<1>1. Init => Balances
  <2> SUFFICES ASSUME Init PROVE Balances
    OBVIOUS
  <2>1. \A u \in Users : ChargedTo(u) = {} /\ CreditedTo(u) = {}
    BY DEF Init, ChargedTo, CreditedTo
  <2>2. \A u \in Users : balance[u] = Opening[u] /\ Opening[u] \in Nat
    BY BillingConstants DEF Init
  <2>3. FiniteSums
    BY <2>1, TotalOverEmpty DEF FiniteSums
  <2>4. \A u \in Users :
          TotalOver(ChargedTo(u), charge) = 0 /\ TotalOver(CreditedTo(u), GrantAmount) = 0
    BY <2>1, TotalOverEmpty
  <2>5. NeverOverdrawn
    BY <2>2 DEF NeverOverdrawn
  <2>6. BalanceConserved
    BY <2>2, <2>4 DEF BalanceConserved
  <2> QED
    BY <2>3, <2>5, <2>6 DEF Balances
<1>2. TypeOK /\ Stages /\ Balances /\ [Next]_vars => Balances'
  <2> SUFFICES ASSUME TypeOK, Stages, Balances, [Next]_vars PROVE Balances'
    OBVIOUS
  <2>1. ASSUME NEW c \in Calls, CallStep(c) PROVE Balances'
    <3>0. CallStage(c)
      BY DEF Stages
    <3>1. CASE DeductBalance(c) \/ DeductUnacked(c)
      <4>1. c \notin applied
        BY <3>0, <3>1 DEF DeductBalance, DeductUnacked, CallStage
      <4> QED
        BY <3>1, <4>1, DeductionBalances DEF DeductBalance, DeductUnacked
    <3>2. CASE CalculateCost(c)
      <4>1. c \notin applied
        BY <3>0, <3>2 DEF CalculateCost, CallStage, Moved, Ended
      <4>2. \A x \in Calls : x # c => charge'[x] = charge[x]
        BY <3>2 DEF CalculateCost, TypeOK
      <4>3. UNCHANGED <<balance, applied>>
        BY <3>2 DEF CalculateCost, dbVars
      <4> QED
        BY <4>1, <4>2, <4>3, QuietBalances
    <3>3. CASE ~(DeductBalance(c) \/ DeductUnacked(c) \/ CalculateCost(c))
      <4>1. UNCHANGED <<balance, applied, charge>>
        BY <2>1, <3>3 DEF CallStep, Admit, RefuseInsufficient, RefuseTokenLimit,
             RefuseNoRoute, RefuseInvalid, ProviderFails, AllProvidersFail, ProviderAnswers,
             StreamEnds, ClientLeaves, RecordUsage, RecordUsageFails,
             RecordUsageUnacked, DeductRefused, Respond, Answer, dbVars
      <4> QED
        BY <4>1, QuietBalances
    <3> QED
      BY <3>1, <3>2, <3>3
  <2>2. ASSUME NEW g \in Grants, GrantStep(g) PROVE Balances'
    <3>1. CASE AddBalance(g) \/ AddBalanceUnacked(g)
      <4>1. g \notin applied
        BY <3>1 DEF AddBalance, AddBalanceUnacked, Stages, GrantStage
      <4> QED
        BY <3>1, <4>1, CreditBalances DEF AddBalance, AddBalanceUnacked
    <3>2. CASE AddBalanceFails(g)
      BY <3>2, QuietBalances DEF AddBalanceFails, Answer, dbVars
    <3> QED
      BY <2>2, <3>1, <3>2 DEF GrantStep
  <2>3. ASSUME NEW o \in Ops, LedgerStep(o) PROVE Balances'
    BY <2>3, QuietBalances DEF LedgerStep, LedgerInsert, LedgerCommit, LedgerFails, dbVars
  <2>4. CASE Crash
    BY <2>4, QuietBalances DEF Crash, dbVars
  <2>5. CASE UNCHANGED vars
    BY <2>5, QuietBalances DEF vars, handlerVars, dbVars
  <2> QED
    BY <2>1, <2>2, <2>3, <2>4, <2>5 DEF Next, Stopped
<1> QED
  BY <1>1, <1>2, TypeCorrect, StagesInvariant, PTL DEF Spec

\* No account is ever overdrawn.
THEOREM NoOverdraft == Spec => []NeverOverdrawn
<1>1. Balances => NeverOverdrawn
  BY DEF Balances
<1> QED
  BY <1>1, BalancesInvariant, PTL

\* No movement of a balance is lost or made twice.
THEOREM Conservation == Spec => []BalanceConserved
<1>1. Balances => BalanceConserved
  BY DEF Balances
<1> QED
  BY <1>1, BalancesInvariant, PTL

-----------------------------------------------------------------------------
(* What an error answer tells the client.                                  *)

ErrorCodes == {400, 402, 404, 429, 502}

\* No usage row stands for the call.
Unmetered(c) == \A r \in RequestIds : usage[r] # NoUsage => usage[r].call # c

\* The labels a call passes before it writes its usage row.
Unsettled == {"idle", "calling", "relaying", "pricing", "usage"}

\* A call is metered once its usage row is written and not before; an error is
\* the last thing a handler does, and it gives one only while unmetered.
ErrorStage(c) ==
  /\ pc[c] \in Unsettled => Unmetered(c)
  /\ status[c] \in ErrorCodes => pc[c] = "done" /\ Unmetered(c) /\ c \notin applied

ErrorStages == \A c \in Calls : ErrorStage(c)

\* A call that another operation's step leaves where it is keeps its stage.
LEMMA ErrorStageKept ==
  ASSUME NEW c \in Calls, ErrorStage(c), pc'[c] = pc[c], status'[c] = status[c],
         Unmetered(c) => Unmetered(c)', c \in applied' => c \in applied
  PROVE  ErrorStage(c)'
BY DEF ErrorStage

\* A call's own step: it answers with an error before it is metered, or goes
\* on, and from where it is metered there is no way back.
LEMMA ErrorStageOwn ==
  ASSUME NEW c \in Calls, ErrorStage(c),
         pc'[c] \in Unsettled => pc[c] \in Unsettled /\ (Unmetered(c) => Unmetered(c)'),
         \/ /\ pc[c] # "done"
            /\ status'[c] = status[c] \/ status'[c] = 200
         \/ /\ pc[c] \in Unsettled /\ pc'[c] = "done" /\ c \notin applied'
            /\ Unmetered(c) => Unmetered(c)'
  PROVE  ErrorStage(c)'
<1>1. 200 \notin ErrorCodes
  BY DEF ErrorCodes
<1> QED
  BY <1>1 DEF ErrorStage, Unsettled

\* A usage row that is written stands for the call that writes it.
LEMMA RowsOfOthers ==
  ASSUME TypeOK, NEW c \in Calls, InsertUsage(c), NEW d \in Calls, d # c, Unmetered(d)
  PROVE  Unmetered(d)'
<1> DEFINE row == [call |-> c, charged |-> charge[c]]
<1>1. RequestIdOf[c] \in RequestIds
  BY BillingConstants
<1>2. usage' = [usage EXCEPT ![RequestIdOf[c]] = row] /\ row.call = c
  BY DEF InsertUsage
<1> HIDE DEF row
<1> QED
  BY <1>1, <1>2 DEF Unmetered, TypeOK

\* The steps of a call that write no usage row and move no balance, with what
\* they do to the handler: it answers, or goes on.
LEMMA PlainSteps ==
  ASSUME TypeOK, NEW c \in Calls, CallStep(c),
         ~(RecordUsage(c) \/ RecordUsageUnacked(c) \/ DeductBalance(c) \/ DeductUnacked(c))
  PROVE  /\ UNCHANGED <<usage, applied>>
         /\ \A d \in Calls : d # c => pc'[d] = pc[d] /\ status'[d] = status[d]
         /\ \/ pc[c] # "done" /\ (status'[c] = status[c] \/ status'[c] = 200)
            \/ pc[c] \in Unsettled /\ pc'[c] = "done"
         /\ pc'[c] \in Unsettled => pc[c] \in Unsettled
<1>0. c \in Ops /\ \A d \in Calls : d \in Ops
  BY DEF Ops
<1>1. pc \in [Ops -> Labels] /\ status \in [Ops -> StatusCodes]
  BY DEF TypeOK
<1>2. CASE Respond(c)
  BY <1>0, <1>1, <1>2 DEF Respond, Answer, Goto, dbVars, Unsettled
<1>3. CASE RefuseInvalid(c) \/ RefuseInsufficient(c) \/ RefuseNoRoute(c) \/ AllProvidersFail(c)
  <2>1. pc[c] \in Unsettled
    BY <1>3 DEF RefuseInvalid, RefuseInsufficient, RefuseNoRoute, AllProvidersFail, Unsettled
  <2>2. PICK code : Answer(c, code)
    BY <1>3 DEF RefuseInvalid, RefuseInsufficient, RefuseNoRoute, AllProvidersFail
  <2> QED
    BY <1>0, <1>1, <2>1, <2>2 DEF Answer, Goto, dbVars, Unsettled
<1>4. CASE RefuseTokenLimit(c)
  <2>1. pc[c] \in {"idle", "pricing"} /\ Answer(c, 429)
    BY <1>4 DEF RefuseTokenLimit
  <2> QED
    BY <1>0, <1>1, <2>1 DEF Answer, Goto, dbVars, Unsettled
<1>5. CASE Admit(c) \/ StreamEnds(c) \/ ClientLeaves(c) \/ CalculateCost(c) \/ ProviderFails(c)
  BY <1>0, <1>1, <1>5
  DEF Admit, StreamEnds, ClientLeaves, CalculateCost, ProviderFails, Goto, dbVars, Unsettled
<1>6. CASE ProviderAnswers(c)
  <2>1. pc[c] = "calling" /\ UNCHANGED <<usage, applied>>
    BY <1>6 DEF ProviderAnswers, dbVars
  <2>2. /\ Goto(c, "relaying") \/ Goto(c, "pricing")
        /\ status' = [status EXCEPT ![c] = 200] \/ status' = status
    BY <1>6 DEF ProviderAnswers
  <2> QED
    BY <1>0, <1>1, <2>1, <2>2 DEF Goto, Unsettled
<1>7. CASE RecordUsageFails(c) \/ DeductRefused(c)
  BY <1>0, <1>1, <1>7 DEF RecordUsageFails, DeductRefused, Goto, dbVars, Unsettled
<1> QED
  BY <1>2, <1>3, <1>4, <1>5, <1>6, <1>7 DEF CallStep

\* A call's steps keep the error stages.
LEMMA CallStepErrors ==
  ASSUME TypeOK, Stages, ErrorStages, NEW c \in Calls, CallStep(c)
  PROVE  ErrorStages'
<1> SUFFICES ASSUME NEW d \in Calls PROVE ErrorStage(d)'
  BY DEF ErrorStages
<1>0. c \in Ops /\ d \in Ops /\ ErrorStage(d) /\ CallStage(c)
  BY DEF Ops, Stages, ErrorStages
<1>1. CASE RecordUsage(c) \/ RecordUsageUnacked(c)
  <2>1. /\ pc[c] = "usage" /\ InsertUsage(c) /\ UNCHANGED <<status, applied>>
        /\ \E label \in {"deduct", "logging"} : Goto(c, label)
    BY <1>1 DEF RecordUsage, RecordUsageUnacked
  <2>2. Others(c) /\ pc'[c] \in {"deduct", "logging"}
    BY <1>0, <2>1, GotoOthers
  <2>3. CASE d = c
    BY <1>0, <2>1, <2>2, <2>3, ErrorStageOwn DEF Unsettled
  <2>4. CASE d # c
    <3>1. Unmetered(d) => Unmetered(d)'
      BY <2>1, <2>4, RowsOfOthers
    <3> QED
      BY <1>0, <2>1, <2>2, <2>4, <3>1, ErrorStageKept DEF Others
  <2> QED
    BY <2>3, <2>4
<1>2. CASE DeductBalance(c) \/ DeductUnacked(c)
  <2>1. /\ pc[c] = "deduct" /\ MoveBalance(c, -charge[c]) /\ UNCHANGED status
        /\ \E label \in {"insert", "logging"} : Goto(c, label)
    BY <1>2 DEF DeductBalance, DeductUnacked
  <2>2. Others(c) /\ pc'[c] \in {"insert", "logging"}
    BY <1>0, <2>1, GotoOthers
  <2>3. UNCHANGED usage /\ applied' = applied \cup {c}
    BY <2>1 DEF MoveBalance
  <2>4. Unmetered(d) => Unmetered(d)'
    BY <2>3 DEF Unmetered
  <2>5. CASE d = c
    BY <1>0, <2>1, <2>2, <2>5, ErrorStageOwn DEF Unsettled
  <2>6. CASE d # c
    BY <1>0, <2>1, <2>2, <2>3, <2>4, <2>6, ErrorStageKept DEF Others
  <2> QED
    BY <2>5, <2>6
<1>3. CASE ~(RecordUsage(c) \/ RecordUsageUnacked(c) \/ DeductBalance(c) \/ DeductUnacked(c))
  <2>1. /\ UNCHANGED <<usage, applied>>
        /\ \A x \in Calls : x # c => pc'[x] = pc[x] /\ status'[x] = status[x]
        /\ \/ pc[c] # "done" /\ (status'[c] = status[c] \/ status'[c] = 200)
           \/ pc[c] \in Unsettled /\ pc'[c] = "done"
        /\ pc'[c] \in Unsettled => pc[c] \in Unsettled
    BY <1>3, PlainSteps
  <2>2. Unmetered(d) => Unmetered(d)'
    BY <2>1 DEF Unmetered
  <2>3. CASE d = c
    <3>1. pc[c] \in Unsettled => c \notin applied
      BY <1>0 DEF CallStage, Unsettled, Moved, Ended
    <3> QED
      BY <1>0, <2>1, <2>2, <2>3, <3>1, ErrorStageOwn
  <2>4. CASE d # c
    BY <1>0, <2>1, <2>2, <2>4, ErrorStageKept
  <2> QED
    BY <2>3, <2>4
<1> QED
  BY <1>1, <1>2, <1>3

\* An error answer means that the client has paid nothing and that the call
\* counts in no statistics of its usage.
THEOREM NothingForAnError == Spec => []ErrorsAreFree
<1>1. Init => ErrorStages
  BY DEF Init, ErrorStages, ErrorStage, ErrorCodes, Unmetered, Ops
<1>2. TypeOK /\ Stages /\ ErrorStages /\ [Next]_vars => ErrorStages'
  <2> SUFFICES ASSUME TypeOK, Stages, ErrorStages, [Next]_vars PROVE ErrorStages'
    OBVIOUS
  <2>1. ASSUME NEW o \in Ops, UNCHANGED usage, Others(o),
               \A c \in Calls : c # o => status'[c] = status[c] /\ (c \in applied' => c \in applied),
               o \in Calls => /\ pc[o] \in {"insert", "commit"} /\ pc'[o] \in {"commit", "logging"}
                              /\ status'[o] = status[o]
        PROVE  ErrorStages'
    <3> SUFFICES ASSUME NEW d \in Calls PROVE ErrorStage(d)'
      BY DEF ErrorStages
    <3>1. d \in Ops /\ ErrorStage(d)
      BY DEF Ops, ErrorStages
    <3>2. Unmetered(d) => Unmetered(d)'
      BY <2>1 DEF Unmetered
    <3>3. CASE d = o
      BY <2>1, <3>1, <3>3, ErrorStageOwn DEF Unsettled
    <3>4. CASE d # o
      BY <2>1, <3>1, <3>2, <3>4, ErrorStageKept DEF Others
    <3> QED
      BY <3>3, <3>4
  <2>2. ASSUME NEW g \in Grants, GrantStep(g) PROVE ErrorStages'
    <3>0. g \in Ops /\ g \notin Calls /\ \A c \in Calls : c \in Ops
      BY BillingConstants DEF Ops
    <3>1. UNCHANGED usage /\ applied' \subseteq applied \cup {g}
      BY <2>2 DEF GrantStep, AddBalance, AddBalanceFails, AddBalanceUnacked, MoveBalance, Answer, dbVars
    <3>2. \E label : Goto(g, label)
      BY <2>2 DEF GrantStep, AddBalance, AddBalanceFails, AddBalanceUnacked, Answer
    <3>3. Others(g)
      BY <3>0, <3>2, GotoOthers
    <3>4. status' = status \/ \E code : status' = [status EXCEPT ![g] = code]
      BY <2>2 DEF GrantStep, AddBalance, AddBalanceFails, AddBalanceUnacked, Answer
    <3>5. \A c \in Calls : status'[c] = status[c]
      BY <3>0, <3>4 DEF TypeOK
    <3> QED
      BY <2>1, <3>0, <3>1, <3>3, <3>5
  <2>3. ASSUME NEW o \in Ops, LedgerStep(o) PROVE ErrorStages'
    <3>1. UNCHANGED <<usage, applied>>
      BY <2>3 DEF LedgerStep, LedgerInsert, LedgerCommit, LedgerFails, dbVars
    <3>2. pc[o] \in {"insert", "commit"}
      BY <2>3 DEF LedgerStep, LedgerInsert, LedgerCommit, LedgerFails
    <3>3. \/ (Goto(o, "logging") \/ Goto(o, "commit")) /\ UNCHANGED status
          \/ o \notin Calls /\ Goto(o, "done") /\ \E code : status' = [status EXCEPT ![o] = code]
      BY <2>3 DEF LedgerStep, LedgerInsert, LedgerCommit, LedgerFails
    <3>4. Others(o) /\ (o \in Calls => pc'[o] \in {"commit", "logging"} /\ status'[o] = status[o])
      BY <3>3, GotoOthers
    <3>5. \A c \in Calls : c # o => status'[c] = status[c]
      BY <3>3 DEF TypeOK, Ops
    <3> QED
      BY <2>1, <3>1, <3>2, <3>4, <3>5
  <2>4. CASE Crash
    <3> SUFFICES ASSUME NEW d \in Calls PROVE ErrorStage(d)'
      BY DEF ErrorStages
    <3>1. ErrorStage(d) /\ d \in Ops /\ UNCHANGED <<status, usage, applied>>
      BY <2>4 DEF ErrorStages, Crash, Ops, dbVars
    <3>2. pc'[d] = IF pc[d] \in InFlight THEN "lost" ELSE pc[d]
      BY <2>4, <3>1 DEF Crash
    <3> QED
      BY <3>1, <3>2 DEF ErrorStage, Unmetered, Unsettled, InFlight
  <2>5. CASE UNCHANGED vars
    BY <2>5 DEF ErrorStages, ErrorStage, Unmetered, vars, handlerVars, dbVars
  <2> QED
    BY <2>2, <2>3, <2>4, <2>5, CallStepErrors DEF Next, Stopped
<1>3. ErrorStages => ErrorsAreFree
  BY DEF ErrorStages, ErrorStage, ErrorsAreFree, ErrorCodes, Unmetered
<1> QED
  BY <1>1, <1>2, <1>3, TypeCorrect, StagesInvariant, PTL DEF Spec

-----------------------------------------------------------------------------
(* Every movement of a balance reaches the ledger, when nothing fails.     *)

\* An operation whose amount has moved is on its way to its ledger row until
\* it has one: no step leaves the labels in between but by the commit.
THEOREM EveryMovementIsLedgered == Spec => []NoMovementForgotten
<1>1. Init => NoMovementForgotten
  BY DEF Init, NoMovementForgotten
<1>2. TypeOK /\ Stages /\ NoMovementForgotten /\ [Next]_vars => NoMovementForgotten'
  <2> SUFFICES ASSUME TypeOK, Stages, NoMovementForgotten, [Next]_vars, ~DBFaults, ~Crashes
               PROVE  \A o \in applied' : pc'[o] \in {"insert", "commit"} \/ o \in LedgeredOps'
    BY DEF NoMovementForgotten
  <2>0. applied \subseteq Ops
        /\ \A o \in applied : pc[o] \in {"insert", "commit"} \/ o \in LedgeredOps
    BY DEF TypeOK, NoMovementForgotten
  <2>1. ASSUME NEW x \in Ops, Others(x), UNCHANGED <<applied, ledger>>,
               pc[x] \in {"insert", "commit"} => pc'[x] \in {"insert", "commit"}
        PROVE  \A o \in applied' : pc'[o] \in {"insert", "commit"} \/ o \in LedgeredOps'
    BY <2>0, <2>1 DEF Others, LedgeredOps
  <2>2. ASSUME NEW x \in Ops, Others(x), UNCHANGED ledger, applied' = applied \cup {x},
               pc'[x] \in {"insert", "commit"}
        PROVE  \A o \in applied' : pc'[o] \in {"insert", "commit"} \/ o \in LedgeredOps'
    BY <2>0, <2>2 DEF Others, LedgeredOps
  <2>3. ASSUME NEW c \in Calls, CallStep(c)
        PROVE  \A o \in applied' : pc'[o] \in {"insert", "commit"} \/ o \in LedgeredOps'
    <3>0. c \in Ops
      BY DEF Ops
    <3>1. CASE DeductBalance(c)
      <4>1. MoveBalance(c, -charge[c]) /\ Goto(c, "insert")
        BY <3>1 DEF DeductBalance
      <4>2. UNCHANGED ledger /\ applied' = applied \cup {c}
        BY <4>1 DEF MoveBalance
      <4>3. Others(c) /\ pc'[c] = "insert"
        BY <3>0, <4>1, GotoOthers
      <4> QED
        BY <2>2, <3>0, <4>2, <4>3
    <3>2. CASE ~DeductBalance(c)
      <4>1. UNCHANGED <<applied, ledger>> /\ pc[c] \notin {"insert", "commit"}
        BY <2>3, <3>2 DEF CallStep, Admit, RefuseInsufficient, RefuseTokenLimit,
             RefuseNoRoute, RefuseInvalid, ProviderFails, AllProvidersFail, ProviderAnswers,
             StreamEnds, ClientLeaves, CalculateCost, RecordUsage, RecordUsageFails,
             RecordUsageUnacked, DeductRefused, DeductUnacked, Respond, Answer, dbVars
      <4>2. UNCHANGED pc \/ \E label : Goto(c, label)
        BY <2>3, <3>2 DEF CallStep, Admit, RefuseInsufficient, RefuseTokenLimit,
             RefuseNoRoute, RefuseInvalid, ProviderFails, AllProvidersFail, ProviderAnswers,
             StreamEnds, ClientLeaves, CalculateCost, RecordUsage, RecordUsageFails,
             RecordUsageUnacked, DeductRefused, DeductUnacked, Respond, Answer
      <4>3. Others(c)
        BY <3>0, <4>2, GotoOthers DEF Others
      <4> QED
        BY <2>1, <3>0, <4>1, <4>3
    <3> QED
      BY <3>1, <3>2
  <2>4. ASSUME NEW g \in Grants, GrantStep(g)
        PROVE  \A o \in applied' : pc'[o] \in {"insert", "commit"} \/ o \in LedgeredOps'
    <3>0. g \in Ops
      BY DEF Ops
    <3>1. MoveBalance(g, GrantAmount[g]) /\ Goto(g, "insert")
      BY <2>4 DEF GrantStep, AddBalance, AddBalanceFails, AddBalanceUnacked
    <3>2. UNCHANGED ledger /\ applied' = applied \cup {g}
      BY <3>1 DEF MoveBalance
    <3>3. Others(g) /\ pc'[g] = "insert"
      BY <3>0, <3>1, GotoOthers
    <3> QED
      BY <2>2, <3>0, <3>2, <3>3
  <2>5. ASSUME NEW x \in Ops, LedgerStep(x)
        PROVE  \A o \in applied' : pc'[o] \in {"insert", "commit"} \/ o \in LedgeredOps'
    <3>1. CASE LedgerInsert(x)
      <4>1. UNCHANGED <<applied, ledger>> /\ Goto(x, "commit")
        BY <3>1 DEF LedgerInsert, dbVars
      <4>2. Others(x) /\ pc'[x] = "commit"
        BY <4>1, GotoOthers
      <4> QED
        BY <2>1, <4>1, <4>2
    <3>2. CASE LedgerCommit(x)
      <4>1. UNCHANGED applied /\ ledger' = Append(ledger, Row(x)) /\ \E label : Goto(x, label)
        BY <3>2 DEF LedgerCommit
      <4>2. LedgeredOps' = LedgeredOps \cup {x}
        BY <4>1, LedgerGrows
      <4>3. Others(x)
        BY <4>1, GotoOthers
      <4> QED
        BY <2>0, <4>1, <4>2, <4>3 DEF Others
    <3> QED
      BY <2>5, <3>1, <3>2 DEF LedgerStep, LedgerFails
  <2>6. CASE UNCHANGED vars
    BY <2>0, <2>6 DEF vars, handlerVars, dbVars, LedgeredOps
  <2> QED
    BY <2>3, <2>4, <2>5, <2>6 DEF Next, Stopped, Crash
<1> QED
  BY <1>1, <1>2, TypeCorrect, StagesInvariant, PTL DEF Spec

-----------------------------------------------------------------------------
(* The handlers implement the prepaid account.                             *)

\* A step that moves no balance and keeps the usage rows that are there
\* leaves the account alone.
LEMMA QuietAccount ==
  ASSUME TypeOK, Stages, UNCHANGED <<balance, applied>>,
         \A r \in RequestIds : usage[r] # NoUsage => usage'[r] = usage[r]
  PROVE  UNCHANGED <<balance, ChargeOf, applied \cap Grants>>
<1>1. ASSUME NEW c \in applied \cap Calls
      PROVE  RequestIdOf[c] \in RequestIds /\ usage[RequestIdOf[c]] # NoUsage
  <2>1. Metered(c) /\ charge[c] \in Nat
    BY DEF Stages, CallStage, TypeOK
  <2>2. [call |-> c, charged |-> charge[c]] # NoUsage
    BY <2>1, BillingConstants
  <2> QED
    BY <2>1, <2>2, BillingConstants DEF Metered
<1>2. ChargeOf' = ChargeOf
  BY <1>1 DEF ChargeOf
<1> QED
  BY <1>2

\* A deduction charges a request id that was not charged before, with what
\* the balance covers.
LEMMA DeductionCharges ==
  ASSUME TypeOK, Stages, NEW c \in Calls, pc[c] = "deduct", MoveBalance(c, -charge[c]),
         balance[OwnerOf[c]] >= charge[c]
  PROVE  Account!Charge(RequestIdOf[c]) /\ RequestIdOf[c] \in RequestIds
<1> DEFINE r == RequestIdOf[c]
           u == OwnerOf[c]
<1>0. c \in Ops /\ c \notin Grants /\ charge[c] \in Nat /\ r \in RequestIds
  BY BillingConstants DEF Ops, TypeOK
<1>1. u \in Users /\ balance[u] \in Int
  BY <1>0, OwnerType
<1>2. charge[c] > 0 /\ c \notin applied /\ Metered(c)
  BY DEF Stages, CallStage
<1>3. usage[r].charged = charge[c]
  BY <1>2 DEF Metered
<1>4. ASSUME NEW d \in applied \cap Calls PROVE RequestIdOf[d] # r
  <2>1. Metered(d)
    BY DEF Stages, CallStage
  <2>2. RequestIdOf[d] = r => usage[r].call = d /\ usage[r].call = c
    BY <1>2, <2>1 DEF Metered
  <2> QED
    BY <1>2, <2>2
<1>5. UNCHANGED <<usage, charge>> /\ applied' = applied \cup {c}
  BY DEF MoveBalance
<1>6. ChargeOf[r] = 0
  BY <1>0, <1>4 DEF ChargeOf
<1>7. ChargeOf' = [ChargeOf EXCEPT ![r] = charge[c]]
  <2>1. \A q \in RequestIds :
          (\E d \in applied' \cap Calls : RequestIdOf[d] = q)
            <=> (q = r \/ \E d \in applied \cap Calls : RequestIdOf[d] = q)
    BY <1>0, <1>5
  <2> QED
    BY <1>0, <1>3, <1>5, <2>1 DEF ChargeOf
<1>8. balance' = [balance EXCEPT ![u] = @ - charge[c]]
  <2>1. balance' = [balance EXCEPT ![u] = balance[u] + -charge[c]]
    BY DEF MoveBalance
  <2>2. balance[u] + -charge[c] = balance[u] - charge[c]
    BY <1>0, <1>1
  <2> QED
    BY <2>1, <2>2
<1>9. applied' \cap Grants = applied \cap Grants
  BY <1>0, <1>5
<1>10. charge[c] \in 1..balance[u]
  BY <1>0, <1>1, <1>2
<1> QED
  BY <1>0, <1>1, <1>6, <1>7, <1>8, <1>9, <1>10 DEF Account!Charge

\* A first credit credits a grant.
LEMMA CreditCredits ==
  ASSUME TypeOK, Stages, NEW g \in Grants, MoveBalance(g, GrantAmount[g]), g \notin applied
  PROVE  Account!Credit(g)
<1>1. g \notin Calls
  BY BillingConstants
<1>2. applied' = applied \cup {g} /\ UNCHANGED usage
  BY DEF MoveBalance
<1>3. ChargeOf' = ChargeOf
  BY <1>1, <1>2 DEF ChargeOf
<1>4. balance' = [balance EXCEPT ![OwnerOf[g]] = @ + GrantAmount[g]]
  BY DEF MoveBalance
<1> QED
  BY <1>2, <1>3, <1>4 DEF Account!Credit

\* Every step of the handlers is a charge, a credit, or none of the
\* account's business.
THEOREM Implementation == Spec => ImplementsAccount
<1>1. Init => Account!Init
  BY DEF Init, Account!Init, ChargeOf
<1>2. TypeOK /\ Stages /\ [Next]_vars => [Account!Next]_(Account!accountVars)
  <2> SUFFICES ASSUME TypeOK, Stages, [Next]_vars
               PROVE  \/ Account!Next
                      \/ UNCHANGED <<balance, ChargeOf, applied \cap Grants>>
    BY DEF Account!accountVars
  <2>1. ASSUME NEW c \in Calls, CallStep(c)
        PROVE  Account!Next \/ UNCHANGED <<balance, ChargeOf, applied \cap Grants>>
    <3>1. CASE DeductBalance(c) \/ DeductUnacked(c)
      BY <3>1, DeductionCharges DEF DeductBalance, DeductUnacked, Account!Next
    <3>2. CASE ~(DeductBalance(c) \/ DeductUnacked(c))
      <4>1. UNCHANGED <<balance, applied>>
        BY <2>1, <3>2 DEF CallStep, Admit, RefuseInsufficient, RefuseTokenLimit,
             RefuseNoRoute, RefuseInvalid, ProviderFails, AllProvidersFail, ProviderAnswers,
             StreamEnds, ClientLeaves, CalculateCost, RecordUsage, RecordUsageFails,
             RecordUsageUnacked, DeductRefused, Respond, Answer, dbVars
      <4>2. CASE RecordUsage(c) \/ RecordUsageUnacked(c)
        <5>1. \A r \in RequestIds : usage[r] # NoUsage => usage'[r] = usage[r]
          BY <4>2 DEF RecordUsage, RecordUsageUnacked, InsertUsage, TypeOK
        <5> QED
          BY <4>1, <5>1, QuietAccount
      <4>3. CASE ~(RecordUsage(c) \/ RecordUsageUnacked(c))
        <5>1. UNCHANGED usage
          BY <2>1, <3>2, <4>3 DEF CallStep, Admit, RefuseInsufficient,
               RefuseTokenLimit, RefuseNoRoute, RefuseInvalid, ProviderFails, AllProvidersFail,
               ProviderAnswers, StreamEnds, ClientLeaves, CalculateCost,
               RecordUsageFails, DeductRefused, Respond, Answer, dbVars
        <5> QED
          BY <4>1, <5>1, QuietAccount
      <4> QED
        BY <4>2, <4>3
    <3> QED
      BY <3>1, <3>2
  <2>2. ASSUME NEW g \in Grants, GrantStep(g)
        PROVE  Account!Next \/ UNCHANGED <<balance, ChargeOf, applied \cap Grants>>
    <3>1. CASE AddBalance(g) \/ AddBalanceUnacked(g)
      <4>1. g \notin applied
        BY <3>1 DEF AddBalance, AddBalanceUnacked, Stages, GrantStage
      <4> QED
        BY <3>1, <4>1, CreditCredits DEF AddBalance, AddBalanceUnacked, Account!Next
    <3>2. CASE AddBalanceFails(g)
      BY <3>2, QuietAccount DEF AddBalanceFails, Answer, dbVars
    <3> QED
      BY <2>2, <3>1, <3>2 DEF GrantStep
  <2>3. ASSUME NEW o \in Ops, LedgerStep(o)
        PROVE  UNCHANGED <<balance, ChargeOf, applied \cap Grants>>
    BY <2>3, QuietAccount DEF LedgerStep, LedgerInsert, LedgerCommit, LedgerFails, dbVars
  <2>4. CASE Crash
    BY <2>4, QuietAccount DEF Crash, dbVars
  <2>5. CASE UNCHANGED vars
    BY <2>5, QuietAccount DEF vars, handlerVars, dbVars
  <2> QED
    BY <2>1, <2>2, <2>3, <2>4, <2>5 DEF Next, Stopped
<1> QED
  BY <1>1, <1>2, TypeCorrect, StagesInvariant, PTL DEF Spec, ImplementsAccount, Account!Spec
=============================================================================
