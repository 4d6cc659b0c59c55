-------------------------- MODULE BackOfficeProofs --------------------------
(***************************************************************************)
(* BackOffice for any number of administrators, transactions, days, audit  *)
(* rows and faults: an invoice states its period, an alert only advances,  *)
(* and retention runs tell of no deletion twice and delete nothing early.  *)
(* What is known of the setting comes from FileStoreProofs.                *)
(***************************************************************************)
EXTENDS BackOffice, FileStoreProofs, FiniteSetTheorems, SequenceTheorems, TLAPS

-----------------------------------------------------------------------------
(* Sums over finite sets, which are counted as the units they are made of. *)

\* Nothing adds up to nothing.
LEMMA TotalOverEmpty ==
  ASSUME NEW f
  PROVE  IsFiniteSet(Units({}, f)) /\ TotalOver({}, f) = 0
<1>1. Units({}, f) = {}
  BY DEF Units
<1> QED
  BY <1>1, FS_EmptySet DEF TotalOver

\* The sum depends only on the values the function takes on the set.
LEMMA TotalOverSame ==
  ASSUME NEW S, NEW f, NEW g, \A s \in S : f[s] = g[s]
  PROVE  Units(S, f) = Units(S, g) /\ TotalOver(S, f) = TotalOver(S, g)
<1>1. Units(S, f) = Units(S, g)
  BY DEF Units
<1> QED
  BY <1>1 DEF TotalOver

\* One element more adds its own value, and keeps the units finite.
LEMMA TotalOverAdd ==
  ASSUME NEW S, NEW f, NEW x, x \notin S, f[x] \in Nat, IsFiniteSet(Units(S, f))
  PROVE  /\ IsFiniteSet(Units(S \cup {x}, f))
         /\ TotalOver(S \cup {x}, f) = TotalOver(S, f) + f[x]
<1> DEFINE X == {x} \X (1..f[x])
<1>1. Units(S \cup {x}, f) = Units(S, f) \cup X
  BY DEF Units
<1>2. Units(S, f) \cap X = {}
  BY DEF Units
<1>3. IsFiniteSet(X) /\ Cardinality(X) = f[x]
  <2>1. IsFiniteSet({x}) /\ Cardinality({x}) = 1
    BY FS_Singleton
  <2>2. IsFiniteSet(1..f[x]) /\ Cardinality(1..f[x]) = f[x]
    <3> DEFINE n == f[x]
    <3>1. n \in Nat
      OBVIOUS
    <3> HIDE DEF n
    <3>2. IsFiniteSet(1..n) /\ Cardinality(1..n) = n
      BY <3>1, FS_Interval
    <3> QED
      BY <3>2 DEF n
  <2>3. IsFiniteSet(X) /\ Cardinality(X) = 1 * Cardinality(1..f[x])
    <3> DEFINE T == 1..f[x]
    <3> HIDE DEF T
    <3>1. IsFiniteSet(T) => /\ IsFiniteSet({x} \X T)
                            /\ Cardinality({x} \X T) = Cardinality({x}) * Cardinality(T)
      BY <2>1, FS_Product, Zenon
    <3> QED
      BY <2>1, <2>2, <3>1, Zenon DEF T
  <2> QED
    BY <2>2, <2>3
<1>4. Cardinality({}) = 0
  BY FS_EmptySet
<1>5. /\ IsFiniteSet(Units(S, f) \cup X)
      /\ Cardinality(Units(S, f) \cup X) =
           Cardinality(Units(S, f)) + Cardinality(X) - Cardinality(Units(S, f) \cap X)
  BY <1>3, FS_Union
<1>6. Cardinality(Units(S, f)) \in Nat
  BY FS_CardinalityType
<1>7. Cardinality(Units(S, f) \cup X) = Cardinality(Units(S, f)) + f[x]
  <2>1. Cardinality(Units(S, f) \cap X) = 0
    BY <1>2, <1>4, Zenon
  <2>2. \A m, n \in Nat : m + n - 0 = m + n
    OBVIOUS
  <2>3. Cardinality(Units(S, f) \cup X) = Cardinality(Units(S, f)) + f[x] - 0
    BY <1>3, <1>5, <2>1, Zenon
  <2> QED
    BY <1>6, <2>2, <2>3, Zenon
<1> QED
  BY <1>1, <1>5, <1>7, Zenon DEF TotalOver

\* A sum over fewer elements, with the same values, is no greater.
LEMMA TotalOverMonotone ==
  ASSUME NEW T, IsFiniteSet(T), NEW S, S \subseteq T, NEW f, NEW g,
         \A s \in S : f[s] = g[s], \A t \in T : g[t] \in Nat
  PROVE  /\ TotalOver(S, f) \in Nat /\ TotalOver(T, g) \in Nat
         /\ TotalOver(S, f) <= TotalOver(T, g)
<1> DEFINE parts == {{t} \X (1..g[t]) : t \in T}
<1>1. IsFiniteSet(parts)
  <2> DEFINE part == [t \in T |-> {t} \X (1..g[t])]
  <2>1. part \in Surjection(T, parts)
    BY DEF Surjection
  <2> QED
    BY <2>1, FS_Surjection DEF ExistsSurjection
<1>2. \A P \in parts : IsFiniteSet(P)
  <2>1. ASSUME NEW t \in T PROVE IsFiniteSet({t} \X (1..g[t]))
    <3> DEFINE n == g[t]
               I == 1..n
    <3>1. n \in Nat
      OBVIOUS
    <3> HIDE DEF n
    <3>2. IsFiniteSet(I)
      BY <3>1, FS_Interval
    <3> HIDE DEF I
    <3>3. IsFiniteSet({t} \X I)
      BY <3>2, FS_Singleton, FS_Product, Zenon
    <3> QED
      BY <3>3 DEF I, n
  <2> QED
    BY <2>1
<1> HIDE DEF parts
<1>3. IsFiniteSet(UNION parts)
  BY <1>1, <1>2, FS_UNION
<1>4. Units(T, g) = UNION parts
  BY DEF Units, parts
<1>5. Units(S, f) \subseteq Units(T, g)
  BY DEF Units
<1>6. IsFiniteSet(Units(S, f)) /\ Cardinality(Units(S, f)) <= Cardinality(Units(T, g))
  BY <1>3, <1>4, <1>5, FS_Subset, Zenon
<1>7. Cardinality(Units(S, f)) \in Nat /\ Cardinality(Units(T, g)) \in Nat
  BY <1>3, <1>4, <1>6, FS_CardinalityType, Zenon
<1> QED
  BY <1>6, <1>7 DEF TotalOver

\* A sum one of whose values changes.
LEMMA TotalOverChange ==
  ASSUME NEW S, NEW x \in S, NEW f, NEW g, \A s \in S \ {x} : f[s] = g[s],
         f[x] \in Nat, g[x] \in Nat, IsFiniteSet(Units(S, f))
  PROVE  /\ IsFiniteSet(Units(S, g))
         /\ TotalOver(S, f) \in Nat /\ TotalOver(S, g) \in Nat
         /\ TotalOver(S, g) + f[x] = TotalOver(S, f) + g[x]
<1> DEFINE R == S \ {x}
<1>1. S = R \cup {x} /\ x \notin R
  OBVIOUS
<1>2. Units(R, f) \subseteq Units(S, f)
  BY DEF Units
<1>3. IsFiniteSet(Units(R, f))
  BY <1>2, FS_Subset
<1>4. Units(R, f) = Units(R, g) /\ TotalOver(R, f) = TotalOver(R, g)
  BY TotalOverSame
<1> HIDE DEF R
<1>5. TotalOver(S, f) = TotalOver(R, f) + f[x]
  BY <1>1, <1>3, TotalOverAdd
<1>6. IsFiniteSet(Units(S, g)) /\ TotalOver(S, g) = TotalOver(R, g) + g[x]
  <2>1. IsFiniteSet(Units(R, g))
    BY <1>3, <1>4
  <2>2. g[x] \in Nat
    OBVIOUS
  <2>3. IsFiniteSet(Units(S, g))
    BY <1>1, <2>1, <2>2, TotalOverAdd
  <2>4. TotalOver(S, g) = TotalOver(R, g) + g[x]
    BY <1>1, <2>1, <2>2, TotalOverAdd
  <2> QED
    BY <2>3, <2>4
<1>7. TotalOver(R, f) \in Nat
  BY <1>3, FS_CardinalityType DEF TotalOver
<1> DEFINE n == TotalOver(R, f)
           i == f[x]
           j == g[x]
<1>8. n \in Nat /\ i \in Nat /\ j \in Nat /\ TotalOver(S, f) = n + i /\ TotalOver(S, g) = n + j
  BY <1>4, <1>5, <1>6, <1>7
<1> HIDE DEF n, i, j
<1>9. /\ TotalOver(S, f) \in Nat /\ TotalOver(S, g) \in Nat
      /\ TotalOver(S, g) + i = TotalOver(S, f) + j
  BY <1>8
<1> QED
  BY <1>6, <1>9 DEF i, j

-----------------------------------------------------------------------------
(* The back office: what its tables hold, and its calls between statements. *)

SumJobs == [step : {"sum"}, scope : Scopes, period : Periods, least : Nat]
InsertJobs == [step : {"insert"}, scope : Scopes, period : Periods, least : Nat, subtotal : Nat]
AuditJobs == [step : {"audit"}, deleted : Nat]
LookJobs == [step : {"raise", "rate"}, seen : SUBSET Conditions]
RereadJobs == [step : {"reread", "drop", "show"}]
RetentionJobs == [step : {"setting", "list", "delete"}, limit : Limits, dry : BOOLEAN,
                  kept : Nat, rows : SUBSET Nat, met : SUBSET Values]
JobRecords ==
  {Idle} \cup SumJobs \cup InsertJobs \cup AuditJobs \cup LookJobs \cup RereadJobs \cup RetentionJobs

OfficeTypes ==
  /\ today \in Nat
  /\ transactions \in Seq(TransactionRows) /\ committed \subseteq DOMAIN transactions
  /\ invoices \in Seq(InvoiceRows)
  /\ holds \subseteq Conditions /\ alerts \in [Conditions -> AlertStatuses]
  /\ trail \in Seq(Nat) /\ gone \subseteq DOMAIN trail
  /\ job \in [Admins -> JobRecords]
  /\ told \in Nat

\* The charges of a period, of the rows of a ledger that a query sees.
ChargeRows(table, seen, scope, period) ==
  {t \in seen : /\ scope = WholeOrg \/ scope = table[t].workspace
                /\ table[t].amount < 0
                /\ table[t].day \in period[1]..period[2]}
ChargesIn(table, seen, scope, period) ==
  TotalOver(ChargeRows(table, seen, scope, period),
            [t \in ChargeRows(table, seen, scope, period) |-> -table[t].amount])

\* An invoice under way has read no more than is charged by now, and no less
\* than was charged when it was asked for.
InvoiceJob(a) ==
  /\ job[a].step = "sum" =>
       job[a].least <= ChargesIn(transactions, committed, job[a].scope, job[a].period)
  /\ job[a].step = "insert" =>
       /\ job[a].least <= job[a].subtotal
       /\ job[a].subtotal <= ChargesIn(transactions, committed, job[a].scope, job[a].period)

\* A retention run has met the setting it goes by, and while it asks for that,
\* all it may be answered; all it has listed is older than that.
RetentionJob(a) ==
  /\ job[a].step = "setting" =>
       /\ Lingering \subseteq job[a].met
       /\ reading[a] = "got" => answer[a] \in job[a].met
  /\ job[a].step \in {"list", "delete"} => job[a].kept \in job[a].met /\ job[a].kept > 0
  /\ job[a].step = "delete" =>
       \A r \in job[a].rows : r \in DOMAIN trail /\ trail[r] < today - job[a].kept

\* The deletions a run has yet to tell.
ToTell(record) == IF record.step = "audit" THEN record.deleted ELSE 0
Untold == [a \in Admins |-> ToTell(job[a])]

DeletionsAddUp ==
  /\ IsFiniteSet(Units(Admins, Untold))
  /\ told + TotalOver(Admins, Untold) <= Cardinality(gone)

InvoicesAddUp ==
  \A i \in DOMAIN invoices :
    /\ invoices[i].least <= invoices[i].subtotal
    /\ invoices[i].subtotal <=
         ChargesIn(transactions, committed, invoices[i].scope, invoices[i].period)

OfficeInv ==
  /\ SettingInv /\ OfficeTypes
  /\ \A a \in Admins : InvoiceJob(a) /\ RetentionJob(a)
  /\ InvoicesAddUp /\ DeletionsAddUp /\ untimely = {}

-----------------------------------------------------------------------------
(* The ledger and the trail only grow. *)

Lengthens(now, then) == \A i \in DOMAIN then : i \in DOMAIN now /\ now[i] = then[i]

LEMMA SelectedIsCharged ==
  ASSUME OfficeTypes, NEW scope, NEW period \in Periods
  PROVE  /\ Charged(Selected(scope, period)) = ChargesIn(transactions, committed, scope, period)
         /\ ChargesOf(scope, period) = ChargesIn(transactions, committed, scope, period)
<1>1. period[1] \in Nat /\ period[2] \in Nat
  BY InvoiceConstants DEF Days
<1>2. \A t \in committed : transactions[t].day \in Nat
  <2>1. \A t \in committed : transactions[t] \in TransactionRows
    BY DEF OfficeTypes
  <2> QED
    BY <2>1 DEF TransactionRows
<1>3. Selected(scope, period) = ChargeRows(transactions, committed, scope, period)
  BY <1>1, <1>2 DEF Selected, ChargeRows, InScope
<1>4. ChargesOf(scope, period) = Charged(ChargeRows(transactions, committed, scope, period))
  BY DEF ChargesOf, ChargeRows, InScope
<1> QED
  BY <1>3, <1>4 DEF Charged, ChargesIn

LEMMA ChargesGrow ==
  ASSUME NEW now \in Seq(TransactionRows), NEW then \in Seq(TransactionRows), Lengthens(now, then),
         NEW sees, NEW saw, saw \subseteq sees, saw \subseteq DOMAIN then, sees \subseteq DOMAIN now,
         NEW scope, NEW period
  PROVE  /\ ChargesIn(then, saw, scope, period) \in Nat
         /\ ChargesIn(now, sees, scope, period) \in Nat
         /\ ChargesIn(then, saw, scope, period) <= ChargesIn(now, sees, scope, period)
<1> DEFINE S == ChargeRows(then, saw, scope, period)
           T == ChargeRows(now, sees, scope, period)
           f == [t \in S |-> -then[t].amount]
           g == [t \in T |-> -now[t].amount]
<1>1. S \subseteq T /\ T \subseteq DOMAIN now /\ \A s \in S : now[s] = then[s]
  BY DEF ChargeRows, Lengthens
<1>2. IsFiniteSet(T)
  <2>1. DOMAIN now = 1..Len(now) /\ Len(now) \in Nat
    OBVIOUS
  <2>2. IsFiniteSet(1..Len(now))
    BY <2>1, FS_Interval
  <2> QED
    BY <1>1, <2>1, <2>2, FS_Subset
<1>3. \A t \in T : g[t] \in Nat
  <2>1. ASSUME NEW t \in T PROVE -now[t].amount \in Nat
    <3>1. now[t] \in TransactionRows /\ now[t].amount < 0
      BY <1>1 DEF ChargeRows
    <3>2. now[t].amount \in Int
      BY <3>1, InvoiceConstants DEF TransactionRows
    <3> QED
      BY <3>1, <3>2
  <2> QED
    BY <2>1
<1>4. \A s \in S : f[s] = g[s]
  BY <1>1
<1> HIDE DEF S, T, f, g
<1>5. /\ TotalOver(S, f) \in Nat /\ TotalOver(T, g) \in Nat
      /\ TotalOver(S, f) <= TotalOver(T, g)
  BY <1>1, <1>2, <1>3, <1>4, TotalOverMonotone
<1> QED
  BY <1>5 DEF ChargesIn, S, T, f, g

LEMMA Unchanging ==
  ASSUME NEW s
  PROVE  Lengthens(s, s)
BY DEF Lengthens

LEMMA AppendLengthens ==
  ASSUME NEW S, NEW s \in Seq(S), NEW e \in S
  PROVE  Append(s, e) \in Seq(S) /\ Lengthens(Append(s, e), s)
BY AppendProperties DEF Lengthens

LEMMA JobKinds ==
  ASSUME OfficeTypes, NEW a \in Admins
  PROVE  /\ job[a].step = "sum" => job[a] \in SumJobs
         /\ job[a].step = "insert" => job[a] \in InsertJobs
         /\ job[a].step = "audit" => job[a] \in AuditJobs
         /\ job[a].step \in {"raise", "rate"} => job[a] \in LookJobs
         /\ job[a].step \in {"setting", "list", "delete"} => job[a] \in RetentionJobs
         /\ ToTell(job[a]) \in Nat
<1>1. job[a] \in JobRecords
  BY DEF OfficeTypes
<1>2. /\ Idle.step = "idle"
      /\ \A r \in SumJobs : r.step = "sum"
      /\ \A r \in InsertJobs : r.step = "insert"
      /\ \A r \in AuditJobs : r.step = "audit" /\ r.deleted \in Nat
      /\ \A r \in LookJobs : r.step \in {"raise", "rate"}
      /\ \A r \in RereadJobs : r.step \in {"reread", "drop", "show"}
      /\ \A r \in RetentionJobs : r.step \in {"setting", "list", "delete"}
  BY DEF Idle, SumJobs, InsertJobs, AuditJobs, LookJobs, RereadJobs, RetentionJobs
<1> QED
  BY <1>1, <1>2 DEF JobRecords, ToTell

\* What the tables do in any step: they grow.
TablesGrow ==
  /\ today' \in Nat /\ today <= today'
  /\ transactions' \in Seq(TransactionRows) /\ Lengthens(transactions', transactions)
  /\ committed \subseteq committed' /\ committed' \subseteq DOMAIN transactions'
  /\ trail' \in Seq(Nat) /\ Lengthens(trail', trail)

LEMMA TablesStay ==
  ASSUME OfficeTypes, UNCHANGED <<today, transactions, committed, trail>>
  PROVE  TablesGrow
BY Unchanging DEF OfficeTypes, TablesGrow

LEMMA InvoicesStay ==
  ASSUME OfficeInv, TablesGrow,
         \A i \in DOMAIN invoices' :
           /\ i \in DOMAIN invoices
           /\ invoices'[i].scope = invoices[i].scope /\ invoices'[i].period = invoices[i].period
           /\ invoices'[i].least = invoices[i].least /\ invoices'[i].subtotal = invoices[i].subtotal
  PROVE  InvoicesAddUp'
<1>1. ASSUME NEW i \in DOMAIN invoices'
      PROVE  /\ invoices'[i].least <= invoices'[i].subtotal
             /\ invoices'[i].subtotal <=
                  ChargesIn(transactions', committed', invoices'[i].scope, invoices'[i].period)
  <2> DEFINE was == ChargesIn(transactions, committed, invoices[i].scope, invoices[i].period)
             is == ChargesIn(transactions', committed', invoices[i].scope, invoices[i].period)
  <2>1. was \in Nat /\ is \in Nat /\ was <= is
    BY ChargesGrow DEF OfficeInv, OfficeTypes, TablesGrow
  <2>2. i \in DOMAIN invoices /\ invoices[i] \in InvoiceRows
    BY DEF OfficeInv, OfficeTypes
  <2>3. invoices[i].least <= invoices[i].subtotal /\ invoices[i].subtotal <= was
    BY <2>2 DEF OfficeInv, InvoicesAddUp
  <2>4. invoices[i].subtotal \in Nat
    BY <2>2 DEF InvoiceRows
  <2> HIDE DEF was, is
  <2>5. invoices[i].subtotal <= is
    BY <2>1, <2>3, <2>4
  <2> QED
    BY <2>3, <2>5 DEF is
<1> QED
  BY <1>1 DEF InvoicesAddUp

LEMMA InvoiceJobStays ==
  ASSUME OfficeInv, TablesGrow, NEW a \in Admins,
         \/ job'[a] = job[a]
         \/ job'[a].step \notin {"sum", "insert"}
  PROVE  InvoiceJob(a)'
<1>1. CASE job'[a].step \notin {"sum", "insert"}
  BY <1>1 DEF InvoiceJob
<1>2. ASSUME job'[a] = job[a], job[a].step \in {"sum", "insert"}
      PROVE  InvoiceJob(a)'
  <2> DEFINE was == ChargesIn(transactions, committed, job[a].scope, job[a].period)
             is == ChargesIn(transactions', committed', job[a].scope, job[a].period)
  <2>1. was \in Nat /\ is \in Nat /\ was <= is
    BY ChargesGrow DEF OfficeInv, OfficeTypes, TablesGrow
  <2>2. /\ job[a].step = "sum" => job[a].least \in Nat /\ job[a].least <= was
        /\ job[a].step = "insert" =>
             job[a].subtotal \in Nat /\ job[a].least <= job[a].subtotal /\ job[a].subtotal <= was
    BY JobKinds DEF OfficeInv, InvoiceJob, SumJobs, InsertJobs
  <2> HIDE DEF was, is
  <2>3. job[a].step = "sum" => job[a].least <= is
    BY <2>1, <2>2
  <2>4. job[a].step = "insert" => job[a].least <= job[a].subtotal /\ job[a].subtotal <= is
    BY <2>1, <2>2
  <2> QED
    BY <1>2, <2>3, <2>4 DEF InvoiceJob, is
<1> QED
  BY <1>1, <1>2

LEMMA RetentionJobStays ==
  ASSUME OfficeInv, TablesGrow, NEW a \in Admins,
         \/ /\ job'[a] = job[a]
            /\ job[a].step = "setting" =>
                 /\ Lingering' \subseteq Lingering
                 /\ reading'[a] = "got" => reading[a] = "got" /\ answer'[a] = answer[a]
         \/ job'[a].step \notin {"setting", "list", "delete"}
  PROVE  RetentionJob(a)'
<1>1. CASE job'[a].step \notin {"setting", "list", "delete"}
  BY <1>1 DEF RetentionJob
<1>2. ASSUME job'[a] = job[a], job[a].step \in {"setting", "list", "delete"},
             job[a].step = "setting" =>
               /\ Lingering' \subseteq Lingering
               /\ reading'[a] = "got" => reading[a] = "got" /\ answer'[a] = answer[a]
      PROVE  RetentionJob(a)'
  <2>1. job[a].kept \in Nat /\ RetentionJob(a)
    BY <1>2, JobKinds DEF OfficeInv, RetentionJobs
  <2>2. ASSUME job[a].step = "delete", NEW r \in job[a].rows
        PROVE  r \in DOMAIN trail' /\ trail'[r] < today' - job[a].kept
    <3>1. r \in DOMAIN trail /\ trail[r] < today - job[a].kept
      BY <2>1, <2>2 DEF RetentionJob
    <3>2. trail'[r] = trail[r] /\ trail[r] \in Nat /\ r \in DOMAIN trail'
      BY <3>1 DEF OfficeInv, OfficeTypes, TablesGrow, Lengthens
    <3>3. today \in Nat /\ today' \in Nat /\ today <= today'
      BY DEF OfficeInv, OfficeTypes, TablesGrow
    <3> QED
      BY <2>1, <3>1, <3>2, <3>3
  <2> QED
    BY <1>2, <2>1, <2>2 DEF RetentionJob
<1> QED
  BY <1>1, <1>2

-----------------------------------------------------------------------------
(* The setting: what a step leaves of it to the runs of others. *)

\* Nothing else may be answered than before, and nobody but those of A has
\* got a new answer.
SettingMoves(A) ==
  /\ SettingInv' /\ Lingering' \subseteq Lingering
  /\ \A b \in Admins \ A : reading'[b] = "got" => reading[b] = "got" /\ answer'[b] = answer[b]

LEMMA SettingStays ==
  ASSUME OfficeInv, UNCHANGED settingVars, NEW A
  PROVE  SettingMoves(A)
<1>1. SettingInv'
  BY SettingNextInv DEF OfficeInv
<1> QED
  BY <1>1 DEF SettingMoves, Lingering, settingVars

\* The steps of one read are nobody else's.
LEMMA ReadMoves ==
  ASSUME OfficeInv, NEW a \in Admins, BeginRead(a) \/ ReadStep(a) \/ EndRead(a)
  PROVE  SettingMoves({a}) /\ Lingering' = Lingering
<1>1. SettingInv'
  BY SettingNextInv DEF OfficeInv, SettingNext, Admins
<1>2. since' = since
  BY DEF BeginRead, ReadStep, CacheHit, CacheMiss, QuerySetting, QueryFails, FillCache, FillFails,
         EndRead
<1>3. ASSUME NEW b \in Admins \ {a}
      PROVE  reading'[b] = reading[b] /\ answer'[b] = answer[b]
  BY DEF BeginRead, ReadStep, CacheHit, CacheMiss, QuerySetting, QueryFails, FillCache, FillFails,
         EndRead, OfficeInv, SettingInv, SettingTypeOK, Admins
<1> QED
  BY <1>1, <1>2, <1>3 DEF SettingMoves, Lingering

\* What a read returns lingered when it did.
LEMMA AnswerLingers ==
  ASSUME OfficeInv, NEW a \in Admins, ReadStep(a), reading'[a] = "got"
  PROVE  answer'[a] \in Lingering
<1>1. reading[a] # "got" /\ answer'[a] \in Values
  BY CacheConstants
     DEF ReadStep, CacheHit, CacheMiss, QuerySetting, QueryFails, FillCache, FillFails,
         OfficeInv, SettingInv, SettingTypeOK, Aged, Admins
<1>2. since[answer'[a]] <= TTL + Patience
  BY <1>1, SettingStepBounded DEF OfficeInv, SettingNext, Admins
<1> QED
  BY <1>1, <1>2 DEF Lingering

LEMMA TickMoves ==
  ASSUME OfficeInv, Tick
  PROVE  SettingMoves({})
<1>1. SettingInv'
  BY SettingNextInv DEF OfficeInv, SettingNext
<1>2. ASSUME NEW v \in Values, since'[v] <= TTL + Patience
      PROVE  since[v] <= TTL + Patience
  <2>1. since[v] \in Nat /\ since'[v] \in {since[v], since[v] + 1}
    BY CacheConstants DEF Tick, OfficeInv, SettingInv, SettingTypeOK, Cap
  <2> QED
    BY <1>2, <2>1, CacheConstants
<1> QED
  BY <1>1, <1>2 DEF SettingMoves, Lingering, Tick

LEMMA DropMoves ==
  ASSUME OfficeInv, NEW a \in Admins, Invalidate(a) \/ InvalidateFails(a)
  PROVE  SettingMoves({})
<1>1. SettingInv'
  BY SettingNextInv, OfficeConstants DEF OfficeInv, SettingNext, WriteStep, Admins
<1> QED
  BY <1>1 DEF SettingMoves, Lingering, Invalidate, InvalidateFails

-----------------------------------------------------------------------------
(* A step of one call: what has to be shown of that call alone. *)

LEMMA GoneIsFinite ==
  ASSUME OfficeTypes
  PROVE  IsFiniteSet(gone) /\ IsFiniteSet(DOMAIN trail) /\ Cardinality(gone) \in Nat
<1>1. DOMAIN trail = 1..Len(trail) /\ Len(trail) \in Nat
  BY DEF OfficeTypes
<1>2. IsFiniteSet(1..Len(trail))
  BY <1>1, FS_Interval
<1>3. IsFiniteSet(gone)
  BY <1>1, <1>2, FS_Subset DEF OfficeTypes
<1> QED
  BY <1>1, <1>2, <1>3, FS_CardinalityType

\* What is told comes out of what was untold, or of what has gone since.
LEMMA ToldOfGone ==
  ASSUME NEW t \in Nat, NEW u \in Nat, NEW m \in Nat, NEW n \in Nat, NEW i \in Nat, NEW j \in Nat,
         NEW c \in Nat, NEW d \in Nat,
         n + i = m + j, t + m <= c, u + j + c <= t + i + d
  PROVE  u + n <= d
OBVIOUS

LEMMA ToldOfUntold ==
  ASSUME NEW t \in Nat, NEW u \in Nat, NEW i \in Nat, NEW j \in Nat, NEW c \in Nat, u + j <= t + i
  PROVE  u + j + c <= t + i + c
OBVIOUS

LEMMA TellingAddsUp ==
  ASSUME OfficeInv, NEW a \in Admins, NEW record, ToTell(record) \in Nat,
         job' = [job EXCEPT ![a] = record],
         told' \in Nat, Cardinality(gone') \in Nat,
         told' + ToTell(record) + Cardinality(gone)
           <= told + ToTell(job[a]) + Cardinality(gone')
  PROVE  DeletionsAddUp'
<1> DEFINE after == [b \in Admins |-> ToTell(job'[b])]
<1>1. job \in [Admins -> JobRecords] /\ told \in Nat
  BY DEF OfficeInv, OfficeTypes
<1>2. /\ after[a] = ToTell(record) /\ Untold[a] = ToTell(job[a])
      /\ \A b \in Admins \ {a} : Untold[b] = after[b]
  BY <1>1 DEF Untold
<1>3. Untold[a] \in Nat /\ after[a] \in Nat
  BY <1>2, JobKinds DEF OfficeInv
<1>4. IsFiniteSet(Units(Admins, Untold))
  BY DEF OfficeInv, DeletionsAddUp
<1> HIDE DEF after
<1>5. /\ IsFiniteSet(Units(Admins, after))
      /\ TotalOver(Admins, Untold) \in Nat /\ TotalOver(Admins, after) \in Nat
      /\ TotalOver(Admins, after) + Untold[a] = TotalOver(Admins, Untold) + after[a]
  BY <1>2, <1>3, <1>4, TotalOverChange
<1> DEFINE m == TotalOver(Admins, Untold)
           n == TotalOver(Admins, after)
           i == ToTell(job[a])
           j == ToTell(record)
           c == Cardinality(gone)
           d == Cardinality(gone')
<1>6. /\ m \in Nat /\ n \in Nat /\ i \in Nat /\ j \in Nat /\ c \in Nat /\ d \in Nat
      /\ n + i = m + j /\ told + m <= c /\ told' + j + c <= told + i + d
  BY <1>2, <1>3, <1>5, GoneIsFinite DEF OfficeInv, DeletionsAddUp
<1> HIDE DEF m, n, i, j, c, d
<1>7. told' + n <= d
  <2>1. told \in Nat /\ told' \in Nat
    BY <1>1
  <2>2. m \in Nat /\ n \in Nat /\ i \in Nat /\ j \in Nat /\ c \in Nat /\ d \in Nat
    BY <1>6
  <2>3. n + i = m + j
    BY <1>6
  <2>4. told + m <= c
    BY <1>6
  <2>5. told' + j + c <= told + i + d
    BY <1>6
  <2> QED
    BY <2>1, <2>2, <2>3, <2>4, <2>5, ToldOfGone, Zenon
<1>8. Untold' = after
  BY DEF Untold, after
<1> QED
  BY <1>5, <1>7, <1>8 DEF DeletionsAddUp, n, d

LEMMA HandlerStep ==
  ASSUME OfficeInv, TablesGrow, NEW a \in Admins,
         NEW record \in JobRecords, ToTell(record) \in Nat,
         job' = [job EXCEPT ![a] = record],
         SettingMoves({a}), UNCHANGED holds, alerts' \in [Conditions -> AlertStatuses],
         invoices' \in Seq(InvoiceRows), InvoicesAddUp',
         gone' \subseteq DOMAIN trail', untimely' = {},
         told' \in Nat,
         told' + ToTell(record) + Cardinality(gone)
           <= told + ToTell(job[a]) + Cardinality(gone'),
         InvoiceJob(a)', RetentionJob(a)'
  PROVE  OfficeInv'
<1>1. OfficeTypes' /\ SettingInv'
  BY DEF OfficeInv, OfficeTypes, TablesGrow, SettingMoves
<1>2. Cardinality(gone') \in Nat
  <2>1. DOMAIN trail' = 1..Len(trail') /\ Len(trail') \in Nat
    BY DEF TablesGrow
  <2>2. IsFiniteSet(1..Len(trail'))
    BY <2>1, FS_Interval
  <2> QED
    BY <2>1, <2>2, FS_Subset, FS_CardinalityType
<1>3. DeletionsAddUp'
  BY <1>2, TellingAddsUp
<1>4. ASSUME NEW b \in Admins \ {a} PROVE InvoiceJob(b)' /\ RetentionJob(b)'
  <2>1. job'[b] = job[b]
    BY DEF OfficeInv, OfficeTypes
  <2> QED
    BY <2>1, InvoiceJobStays, RetentionJobStays DEF SettingMoves
<1> QED
  BY <1>1, <1>3, <1>4 DEF OfficeInv

\* A step whose call ends, or goes on to its audit or to alerts.
PlainJobs == {Idle} \cup AuditJobs \cup LookJobs \cup RereadJobs

LEMMA PlainAre ==
  ASSUME NEW record \in PlainJobs
  PROVE  /\ record \in JobRecords
         /\ record.step \notin {"sum", "insert", "setting", "list", "delete"}
         /\ ToTell(record) \in Nat
         /\ record \notin AuditJobs => ToTell(record) = 0
<1>1. /\ Idle.step = "idle"
      /\ \A r \in AuditJobs : r.step = "audit" /\ r.deleted \in Nat
      /\ \A r \in LookJobs : r.step \in {"raise", "rate"}
      /\ \A r \in RereadJobs : r.step \in {"reread", "drop", "show"}
  BY DEF Idle, AuditJobs, LookJobs, RereadJobs
<1> QED
  BY <1>1 DEF PlainJobs, JobRecords, ToTell

LEMMA PlainStep ==
  ASSUME OfficeInv, TablesGrow, NEW a \in Admins, NEW record \in PlainJobs,
         job' = [job EXCEPT ![a] = record],
         SettingMoves({a}), UNCHANGED <<holds, gone, untimely>>,
         alerts' \in [Conditions -> AlertStatuses],
         invoices' \in Seq(InvoiceRows), InvoicesAddUp',
         told' \in Nat, told' + ToTell(record) <= told + ToTell(job[a])
  PROVE  OfficeInv'
<1>1. job'[a] = record
  BY DEF OfficeInv, OfficeTypes
<1>2. InvoiceJob(a)' /\ RetentionJob(a)'
  BY <1>1, PlainAre, InvoiceJobStays, RetentionJobStays
<1>3. gone' \subseteq DOMAIN trail' /\ untimely' = {}
  BY DEF OfficeInv, OfficeTypes, TablesGrow, Lengthens
<1>4. told' + ToTell(record) + Cardinality(gone) <= told + ToTell(job[a]) + Cardinality(gone')
  <2> DEFINE i == ToTell(job[a])
             j == ToTell(record)
             c == Cardinality(gone)
  <2>1. i \in Nat /\ j \in Nat /\ c \in Nat /\ told \in Nat /\ told' \in Nat /\ told' + j <= told + i
    BY JobKinds, PlainAre, GoneIsFinite DEF OfficeInv, OfficeTypes
  <2> HIDE DEF i, j, c
  <2>2. told' + j + c <= told + i + c
    BY <2>1, ToldOfUntold, Zenon
  <2> QED
    BY <2>2 DEF i, j, c
<1> QED
  BY <1>2, <1>3, <1>4, PlainAre, HandlerStep

LEMMA Untouched ==
  ASSUME OfficeInv, UNCHANGED <<invoices, alerts, told>>, TablesGrow
  PROVE  /\ alerts' \in [Conditions -> AlertStatuses]
         /\ invoices' \in Seq(InvoiceRows) /\ InvoicesAddUp'
         /\ told' \in Nat
BY InvoicesStay DEF OfficeInv, OfficeTypes

-----------------------------------------------------------------------------
(* The calls. *)

LEMMA AlertsChange ==
  ASSUME OfficeTypes,
         \/ alerts' = alerts
         \/ \E c : alerts' = Upserted(c) \/ alerts' = Acknowledged(c) \/ alerts' = Resolved(c)
  PROVE  /\ alerts' \in [Conditions -> AlertStatuses]
         /\ \A c \in Conditions : AlertStage(alerts[c]) <= AlertStage(alerts'[c])
<1>0. alerts \in [Conditions -> AlertStatuses]
  BY DEF OfficeTypes
<1>1. \A status \in AlertStatuses : AlertStage(status) \in Nat
  BY DEF AlertStatuses, AlertStage
<1>2. \A status \in AlertStatuses :
        /\ AlertStage("open") <= AlertStage(status) \/ status = "none"
        /\ AlertStage(status) <= AlertStage("acknowledged") \/ status = "resolved"
        /\ AlertStage(status) <= AlertStage("resolved")
        /\ AlertStage("none") <= AlertStage("open")
        /\ AlertStage(status) <= AlertStage(status)
  BY DEF AlertStatuses, AlertStage
<1>3. {"open", "acknowledged", "resolved"} \subseteq AlertStatuses
  BY DEF AlertStatuses
<1>4. CASE alerts' = alerts
  BY <1>0, <1>2, <1>4
<1>5. ASSUME NEW c, NEW status \in AlertStatuses, alerts' = [alerts EXCEPT ![c] = status],
             c \in Conditions => AlertStage(alerts[c]) <= AlertStage(status)
      PROVE  /\ alerts' \in [Conditions -> AlertStatuses]
             /\ \A d \in Conditions : AlertStage(alerts[d]) <= AlertStage(alerts'[d])
  <2>1. alerts' \in [Conditions -> AlertStatuses]
    BY <1>0, <1>5
  <2>2. ASSUME NEW d \in Conditions PROVE AlertStage(alerts[d]) <= AlertStage(alerts'[d])
    <3>1. CASE d = c
      BY <1>0, <1>5, <3>1
    <3>2. CASE d # c
      BY <1>0, <1>2, <1>5, <3>2
    <3> QED
      BY <3>1, <3>2
  <2> QED
    BY <2>1, <2>2
<1>6. ASSUME NEW c, alerts' = Upserted(c) \/ alerts' = Acknowledged(c) \/ alerts' = Resolved(c)
      PROVE  \/ alerts' = alerts
             \/ \E status \in AlertStatuses :
                  /\ alerts' = [alerts EXCEPT ![c] = status]
                  /\ c \in Conditions => AlertStage(alerts[c]) <= AlertStage(status)
  <2>1. c \in Conditions => alerts[c] \in AlertStatuses
    BY <1>0
  <2>2. CASE c \in Conditions
    <3>1. CASE alerts' = Upserted(c)
      BY <1>0, <1>2, <1>3, <2>1, <2>2, <3>1 DEF Upserted
    <3>2. CASE alerts' = Acknowledged(c)
      BY <1>0, <1>2, <1>3, <2>1, <2>2, <3>2 DEF Acknowledged
    <3>3. CASE alerts' = Resolved(c)
      BY <1>0, <1>2, <1>3, <2>1, <2>2, <3>3 DEF Resolved
    <3> QED
      BY <1>6, <3>1, <3>2, <3>3
  <2>3. CASE c \notin Conditions
    <3>1. \A status : [alerts EXCEPT ![c] = status] = alerts
      BY <1>0, <2>3
    <3> QED
      BY <1>6, <3>1 DEF Upserted, Acknowledged, Resolved
  <2> QED
    BY <2>2, <2>3
<1> QED
  BY <1>4, <1>5, <1>6

-----------------------------------------------------------------------------
(* The world goes on. *)

LEMMA GoneStays ==
  ASSUME OfficeInv, TablesGrow, UNCHANGED gone
  PROVE  gone' \subseteq DOMAIN trail'
BY DEF OfficeInv, OfficeTypes, TablesGrow, Lengthens

LEMMA WorldStep ==
  ASSUME OfficeInv, TablesGrow, holds' \subseteq Conditions, SettingMoves({}),
         UNCHANGED <<job, invoices, alerts, gone, told, untimely>>
  PROVE  OfficeInv'
<1>1. OfficeTypes' /\ SettingInv'
  BY GoneStays DEF OfficeInv, OfficeTypes, TablesGrow, SettingMoves
<1>2. \A a \in Admins : InvoiceJob(a)' /\ RetentionJob(a)'
  BY InvoiceJobStays, RetentionJobStays DEF SettingMoves
<1>3. InvoicesAddUp'
  BY InvoicesStay
<1>4. DeletionsAddUp'
  BY DEF OfficeInv, DeletionsAddUp, Untold
<1> QED
  BY <1>1, <1>2, <1>3, <1>4 DEF OfficeInv

LEMMA BillingStep ==
  ASSUME OfficeInv, Billing
  PROVE  OfficeInv'
<1>1. UNCHANGED <<today, trail, holds>> /\ OfficeTypes
  BY DEF Billing, alertVars, auditVars, OfficeInv
<1>2. ASSUME NEW w \in Workspaces, NEW amount \in Amounts, TransactionBegins(w, amount)
      PROVE  TablesGrow
  <2> DEFINE entry == [workspace |-> w, amount |-> amount, day |-> today]
  <2>1. entry \in TransactionRows
    BY <1>1 DEF OfficeTypes, TransactionRows
  <2>2. transactions' = Append(transactions, entry) /\ committed' = committed
    BY <1>2 DEF TransactionBegins
  <2> HIDE DEF entry
  <2>3. transactions' \in Seq(TransactionRows) /\ Lengthens(transactions', transactions)
    BY <1>1, <2>1, <2>2, AppendLengthens DEF OfficeTypes
  <2> QED
    BY <1>1, <2>2, <2>3, Unchanging DEF OfficeTypes, TablesGrow, Lengthens
<1>3. ASSUME NEW t \in DOMAIN transactions, TransactionCommits(t)
      PROVE  TablesGrow
  BY <1>1, <1>3, Unchanging DEF TransactionCommits, OfficeTypes, TablesGrow
<1>4. TablesGrow
  BY <1>2, <1>3 DEF Billing
<1> QED
  BY <1>1, <1>4, SettingStays, WorldStep DEF Billing, alertVars, auditVars, OfficeTypes

LEMMA DayStep ==
  ASSUME OfficeInv, DayPasses
  PROVE  OfficeInv'
<1>1. TablesGrow
  BY Unchanging DEF DayPasses, invoiceVars, auditVars, OfficeInv, OfficeTypes, TablesGrow
<1> QED
  BY <1>1, SettingStays, WorldStep
     DEF DayPasses, invoiceVars, alertVars, auditVars, OfficeInv, OfficeTypes

LEMMA TickStep ==
  ASSUME OfficeInv, TimePasses
  PROVE  OfficeInv'
<1>1. TablesGrow
  BY TablesStay DEF TimePasses, invoiceVars, OfficeInv
<1> QED
  BY <1>1, TickMoves, WorldStep DEF TimePasses, invoiceVars, alertVars, OfficeInv, OfficeTypes

LEMMA ConditionStep ==
  ASSUME OfficeInv, NEW c \in Conditions, ConditionChanges(c)
  PROVE  OfficeInv'
<1>1. TablesGrow
  BY TablesStay DEF ConditionChanges, invoiceVars, auditVars, OfficeInv
<1>2. holds' \subseteq Conditions
  BY DEF ConditionChanges, OfficeInv, OfficeTypes
<1> QED
  BY <1>1, <1>2, SettingStays, WorldStep DEF ConditionChanges, invoiceVars, auditVars

-----------------------------------------------------------------------------
(* The calls that read, sum and insert invoices. *)

\* Every handler's step but a recorded audit leaves the ledger and the trail.
LEMMA AuditRecord ==
  ASSUME NEW n \in Nat
  PROVE  /\ [step |-> "audit", deleted |-> n] \in PlainJobs
         /\ ToTell([step |-> "audit", deleted |-> n]) = n
BY DEF PlainJobs, AuditJobs, ToTell

LEMMA IdleRecord == Idle \in PlainJobs /\ ToTell(Idle) = 0
BY DEF PlainJobs, Idle, ToTell

\* A step that ends in a plain job, and only works on invoices or alerts.
LEMMA SilentStep ==
  ASSUME OfficeInv, NEW a \in Admins, NEW record \in PlainJobs, ToTell(record) = 0,
         job' = [job EXCEPT ![a] = record],
         UNCHANGED <<today, ledgerVars, auditVars, holds, told, untimely>>,
         alerts' \in [Conditions -> AlertStatuses],
         invoices' \in Seq(InvoiceRows), InvoicesAddUp'
  PROVE  OfficeInv'
<1>1. TablesGrow
  BY TablesStay DEF ledgerVars, auditVars, OfficeInv
<1>2. told' \in Nat /\ told' + ToTell(record) <= told + ToTell(job[a])
  BY JobKinds DEF OfficeInv, OfficeTypes
<1> QED
  BY <1>1, <1>2, SettingStays, PlainStep DEF auditVars

\* A step that touches no table but perhaps the setting.
LEMMA CalmStep ==
  ASSUME OfficeInv, NEW a \in Admins, NEW record \in PlainJobs, ToTell(record) = 0,
         job' = [job EXCEPT ![a] = record], SettingMoves({a}),
         UNCHANGED <<today, invoiceVars, alertVars, trail, gone, told, untimely>>
  PROVE  OfficeInv'
<1>1. TablesGrow
  BY TablesStay DEF invoiceVars, OfficeInv
<1>2. /\ alerts' \in [Conditions -> AlertStatuses]
      /\ invoices' \in Seq(InvoiceRows) /\ InvoicesAddUp'
  BY <1>1, Untouched DEF invoiceVars, alertVars
<1>3. told' \in Nat /\ told' + ToTell(record) <= told + ToTell(job[a])
  BY JobKinds DEF OfficeInv, OfficeTypes
<1> QED
  BY <1>1, <1>2, <1>3, PlainStep DEF alertVars

\* A step that touches no table at all.
LEMMA QuietStep ==
  ASSUME OfficeInv, NEW a \in Admins, NEW record \in PlainJobs, ToTell(record) = 0,
         job' = [job EXCEPT ![a] = record],
         UNCHANGED <<today, invoiceVars, alertVars, auditVars, told, untimely>>
  PROVE  OfficeInv'
BY SettingStays, CalmStep DEF auditVars

LEMMA FailStep ==
  ASSUME OfficeInv, NEW a \in Admins, Fails(a)
  PROVE  OfficeInv'
BY IdleRecord, QuietStep DEF Fails, GoesOn

\* A step that goes on with an invoice: the books stay as they are.
LEMMA BooksStay ==
  ASSUME OfficeInv, NEW a \in Admins, NEW record \in SumJobs \cup InsertJobs \cup RetentionJobs,
         job' = [job EXCEPT ![a] = record], SettingMoves({a}),
         UNCHANGED <<today, invoiceVars, alertVars, trail, gone, told, untimely>>,
         InvoiceJob(a)', RetentionJob(a)'
  PROVE  OfficeInv'
<1>1. TablesGrow
  BY TablesStay DEF invoiceVars, OfficeInv
<1>2. record \in JobRecords /\ ToTell(record) = 0
  BY DEF SumJobs, InsertJobs, RetentionJobs, JobRecords, ToTell
<1>3. /\ alerts' \in [Conditions -> AlertStatuses]
      /\ invoices' \in Seq(InvoiceRows) /\ InvoicesAddUp' /\ told' \in Nat
  BY <1>1, Untouched DEF invoiceVars, alertVars
<1>4. gone' \subseteq DOMAIN trail' /\ untimely' = {}
  BY <1>1, GoneStays DEF OfficeInv
<1>5. ToTell(job[a]) \in Nat /\ told \in Nat /\ Cardinality(gone) \in Nat
  BY JobKinds, GoneIsFinite DEF OfficeInv, OfficeTypes
<1>6. told' + ToTell(record) + Cardinality(gone) <= told + ToTell(job[a]) + Cardinality(gone')
  <2>1. told' = told /\ gone' = gone
    OBVIOUS
  <2> DEFINE i == ToTell(job[a])
             c == Cardinality(gone)
  <2>2. told' + ToTell(record) <= told + i
    BY <1>2, <1>5, <2>1
  <2> HIDE DEF i, c
  <2>3. told' + ToTell(record) + c <= told + i + c
    BY <1>2, <1>5, <2>1, <2>2 DEF i, c
  <2> QED
    BY <2>1, <2>3 DEF i, c
<1>7. record \in JobRecords /\ ToTell(record) \in Nat /\ UNCHANGED holds
  BY <1>2 DEF alertVars
<1> QED
  BY <1>1, <1>3, <1>4, <1>6, <1>7, HandlerStep

LEMMA CreateStep ==
  ASSUME OfficeInv, NEW a \in Admins, NEW scope \in Scopes, NEW period \in Periods,
         CreateInvoice(a, scope, period)
  PROVE  OfficeInv'
<1> DEFINE least == Charged(Selected(scope, period))
           record == [step |-> "sum", scope |-> scope, period |-> period, least |-> least]
<1>1. /\ job' = [job EXCEPT ![a] = record]
      /\ UNCHANGED <<today, invoiceVars, alertVars, auditVars, told, untimely>>
  BY DEF CreateInvoice, Begins
<1>2. least = ChargesIn(transactions, committed, scope, period)
  BY SelectedIsCharged DEF OfficeInv
<1>3. ChargesIn(transactions, committed, scope, period) \in Nat
  BY ChargesGrow, Unchanging DEF OfficeInv, OfficeTypes
<1> HIDE DEF least
<1>4. record \in SumJobs
  BY <1>2, <1>3 DEF SumJobs
<1>5. job'[a] = record
  BY <1>1 DEF OfficeInv, OfficeTypes
<1>6. /\ job'[a].step = "sum" /\ job'[a].scope = scope /\ job'[a].period = period
      /\ job'[a].least = least
  BY <1>5
<1>7. transactions' = transactions /\ committed' = committed
  BY <1>1 DEF invoiceVars
<1>8. job'[a].least <= ChargesIn(transactions', committed', job'[a].scope, job'[a].period)
  BY <1>2, <1>3, <1>6, <1>7
<1>9. InvoiceJob(a)' /\ RetentionJob(a)'
  BY <1>6, <1>8 DEF InvoiceJob, RetentionJob
<1> HIDE DEF record
<1> QED
  BY <1>1, <1>4, <1>9, SettingStays, BooksStay DEF auditVars

LEMMA SubtotalStep ==
  ASSUME OfficeInv, NEW a \in Admins, ReadSubtotal(a)
  PROVE  OfficeInv'
<1> DEFINE subtotal == Charged(Selected(job[a].scope, job[a].period))
           charges == ChargesIn(transactions, committed, job[a].scope, job[a].period)
           record == [step |-> "insert", scope |-> job[a].scope, period |-> job[a].period,
                      least |-> job[a].least, subtotal |-> subtotal]
<1>1. /\ job' = [job EXCEPT ![a] = record]
      /\ UNCHANGED <<today, invoiceVars, alertVars, auditVars, told, untimely>>
  BY DEF ReadSubtotal, GoesOn
<1>2. job[a] \in SumJobs /\ job[a].step = "sum"
  BY JobKinds DEF ReadSubtotal, OfficeInv
<1>3. job[a].scope \in Scopes /\ job[a].period \in Periods /\ job[a].least \in Nat
  BY <1>2 DEF SumJobs
<1>4. subtotal = charges
  BY <1>3, SelectedIsCharged DEF OfficeInv
<1>5. charges \in Nat
  BY ChargesGrow, Unchanging DEF OfficeInv, OfficeTypes
<1>6. job[a].least <= charges
  BY <1>2 DEF OfficeInv, InvoiceJob
<1> HIDE DEF subtotal
<1>7. record \in InsertJobs
  BY <1>3, <1>4, <1>5 DEF InsertJobs
<1>8. job'[a] = record
  BY <1>1 DEF OfficeInv, OfficeTypes
<1>9. /\ job'[a].step = "insert" /\ job'[a].scope = job[a].scope /\ job'[a].period = job[a].period
      /\ job'[a].least = job[a].least /\ job'[a].subtotal = subtotal
  BY <1>8
<1>10. transactions' = transactions /\ committed' = committed
  BY <1>1 DEF invoiceVars
<1>11. ChargesIn(transactions', committed', job'[a].scope, job'[a].period) = charges
  BY <1>9, <1>10
<1> HIDE DEF charges
<1>12. /\ job'[a].least <= job'[a].subtotal
       /\ job'[a].subtotal <= ChargesIn(transactions', committed', job'[a].scope, job'[a].period)
  BY <1>4, <1>5, <1>6, <1>9, <1>11
<1>13. InvoiceJob(a)' /\ RetentionJob(a)'
  BY <1>9, <1>12 DEF InvoiceJob, RetentionJob
<1> HIDE DEF record
<1> QED
  BY <1>1, <1>7, <1>13, SettingStays, BooksStay DEF auditVars

LEMMA InsertStep ==
  ASSUME OfficeInv, NEW a \in Admins, Insert(a)
  PROVE  OfficeInv'
<1> DEFINE charges == ChargesIn(transactions, committed, job[a].scope, job[a].period)
<1>1. PICK status \in Statuses :
        InsertInvoice([scope |-> job[a].scope, period |-> job[a].period, status |-> status,
                       subtotal |-> job[a].subtotal, least |-> job[a].least])
  BY DEF Insert
<1> DEFINE entry == [scope |-> job[a].scope, period |-> job[a].period, status |-> status,
                     subtotal |-> job[a].subtotal, least |-> job[a].least]
<1>2. job[a] \in InsertJobs /\ job[a].step = "insert"
  BY JobKinds DEF Insert, OfficeInv
<1>3. /\ entry \in InvoiceRows
      /\ entry.scope = job[a].scope /\ entry.period = job[a].period
      /\ entry.least = job[a].least /\ entry.subtotal = job[a].subtotal
  BY <1>2 DEF InsertJobs, InvoiceRows
<1>4. job[a].least <= job[a].subtotal /\ job[a].subtotal <= charges
  BY <1>2 DEF OfficeInv, InvoiceJob
<1>5. invoices' = Append(invoices, entry)
  BY <1>1 DEF InsertInvoice
<1>6. UNCHANGED <<today, ledgerVars, alertVars, auditVars, told, untimely>>
  BY DEF Insert
<1>7. transactions' = transactions /\ committed' = committed
  BY <1>6 DEF ledgerVars
<1> HIDE DEF entry, charges
<1>8. /\ invoices' \in Seq(InvoiceRows)
      /\ \A i \in DOMAIN invoices' :
           \/ i \in DOMAIN invoices /\ invoices'[i] = invoices[i]
           \/ invoices'[i] = entry
  BY <1>3, <1>5, AppendProperties DEF OfficeInv, OfficeTypes
<1>9. ASSUME NEW i \in DOMAIN invoices'
      PROVE  /\ invoices'[i].least <= invoices'[i].subtotal
             /\ invoices'[i].subtotal <=
                  ChargesIn(transactions', committed', invoices'[i].scope, invoices'[i].period)
  <2>1. CASE i \in DOMAIN invoices /\ invoices'[i] = invoices[i]
    BY <1>7, <2>1 DEF OfficeInv, InvoicesAddUp
  <2>2. CASE invoices'[i] = entry
    BY <1>3, <1>4, <1>7, <2>2 DEF charges
  <2> QED
    BY <1>8, <2>1, <2>2
<1>10. InvoicesAddUp'
  BY <1>9 DEF InvoicesAddUp
<1>11. job' = [job EXCEPT ![a] = [step |-> "audit", deleted |-> 0]]
  BY DEF Insert, Audits, GoesOn
<1>12. alerts' \in [Conditions -> AlertStatuses] /\ UNCHANGED holds
  BY <1>6 DEF alertVars, OfficeInv, OfficeTypes
<1> QED
  BY <1>6, <1>8, <1>10, <1>11, <1>12, AuditRecord, SilentStep

LEMMA StatusStep ==
  ASSUME OfficeInv, NEW a \in Admins, NEW i \in DOMAIN invoices, NEW status \in Statuses,
         UpdateInvoiceStatus(a, i, status)
  PROVE  OfficeInv'
<1>1. UNCHANGED <<today, ledgerVars, alertVars, auditVars, told, untimely>>
  BY DEF UpdateInvoiceStatus
<1>2. invoices' = [invoices EXCEPT ![i].status = status]
  BY DEF UpdateInvoiceStatus, SetStatus
<1>3. invoices \in Seq(InvoiceRows) /\ invoices[i] \in InvoiceRows
  BY DEF OfficeInv, OfficeTypes
<1> DEFINE entry == [invoices[i] EXCEPT !.status = status]
<1>4. /\ entry \in InvoiceRows
      /\ entry.scope = invoices[i].scope /\ entry.period = invoices[i].period
      /\ entry.least = invoices[i].least /\ entry.subtotal = invoices[i].subtotal
  BY <1>3 DEF InvoiceRows
<1>5. invoices' = [invoices EXCEPT ![i] = entry]
  BY <1>2
<1> HIDE DEF entry
<1>6. /\ invoices' \in Seq(InvoiceRows)
      /\ \A k \in DOMAIN invoices' :
           /\ k \in DOMAIN invoices
           /\ invoices'[k] = invoices[k] \/ (k = i /\ invoices'[k] = entry)
  BY <1>3, <1>4, <1>5
<1>7. TablesGrow
  BY <1>1, TablesStay DEF ledgerVars, auditVars, OfficeInv
<1>8. InvoicesAddUp'
  BY <1>4, <1>6, <1>7, InvoicesStay
<1>9. job' = [job EXCEPT ![a] = [step |-> "audit", deleted |-> 0]]
  BY DEF UpdateInvoiceStatus, Begins
<1>10. alerts' \in [Conditions -> AlertStatuses] /\ UNCHANGED holds
  BY <1>1 DEF alertVars, OfficeInv, OfficeTypes
<1> QED
  BY <1>1, <1>6, <1>8, <1>9, <1>10, AuditRecord, SilentStep

-----------------------------------------------------------------------------
(* The calls about alerts, and the audit of every call. *)

LEMMA AlertStep ==
  ASSUME OfficeInv, NEW a \in Admins, NEW record \in PlainJobs, ToTell(record) = 0,
         job' = [job EXCEPT ![a] = record],
         UNCHANGED <<today, invoiceVars, holds, auditVars, told, untimely>>,
         alerts' \in [Conditions -> AlertStatuses]
  PROVE  OfficeInv'
<1>1. TablesGrow
  BY TablesStay DEF invoiceVars, auditVars, OfficeInv
<1>2. invoices' \in Seq(InvoiceRows) /\ InvoicesAddUp'
  BY <1>1, InvoicesStay DEF invoiceVars, OfficeInv, OfficeTypes
<1> QED
  BY <1>2, SilentStep DEF invoiceVars, ledgerVars

LEMMA LookRecord ==
  ASSUME NEW seen \in SUBSET Conditions, NEW step \in {"raise", "rate"}
  PROVE  /\ [step |-> step, seen |-> seen] \in PlainJobs
         /\ ToTell([step |-> step, seen |-> seen]) = 0
BY DEF PlainJobs, LookJobs, ToTell

LEMMA StatementRecord ==
  ASSUME NEW step \in {"reread", "drop", "show"}
  PROVE  [step |-> step] \in PlainJobs /\ ToTell([step |-> step]) = 0
BY DEF PlainJobs, RereadJobs, ToTell

LEMMA LookStep ==
  ASSUME OfficeInv, NEW a \in Admins,
         LookAtAlerts(a) \/ ReadErrorRate(a) \/ ListAlerts(a)
  PROVE  OfficeInv'
<1>1. holds \cap Providers \in SUBSET Conditions /\ holds \cap {ErrorRate} \in SUBSET Conditions
  BY DEF OfficeInv, OfficeTypes
<1>2. CASE LookAtAlerts(a)
  BY <1>1, <1>2, LookRecord, QuietStep DEF LookAtAlerts, Begins
<1>3. CASE ReadErrorRate(a)
  BY <1>1, <1>3, LookRecord, QuietStep DEF ReadErrorRate, GoesOn
<1>4. CASE ListAlerts(a)
  BY <1>4, IdleRecord, QuietStep DEF ListAlerts, GoesOn
<1> QED
  BY <1>2, <1>3, <1>4

LEMMA RaiseStep ==
  ASSUME OfficeInv, NEW a \in Admins, Raise(a)
  PROVE  OfficeInv'
<1>1. PICK c \in job[a].seen :
        /\ alerts' = Upserted(c) \/ alerts' = alerts
        /\ GoesOn(a, [job[a] EXCEPT !.seen = @ \ {c}])
  BY DEF Raise
<1> DEFINE record == [job[a] EXCEPT !.seen = @ \ {c}]
<1>2. job[a] \in LookJobs
  BY JobKinds DEF Raise, OfficeInv
<1>3. record \in LookJobs /\ record.step = job[a].step
  BY <1>2 DEF LookJobs
<1>4. record \in PlainJobs /\ ToTell(record) = 0
  BY <1>3 DEF PlainJobs, ToTell, Raise
<1>5. job' = [job EXCEPT ![a] = record]
  BY <1>1 DEF GoesOn
<1>6. alerts' \in [Conditions -> AlertStatuses]
  BY <1>1, AlertsChange DEF OfficeInv
<1> HIDE DEF record
<1> QED
  BY <1>4, <1>5, <1>6, AlertStep DEF Raise

LEMMA SettleStep ==
  ASSUME OfficeInv, NEW a \in Admins, NEW c \in Raised, SettleAlert(a, c)
  PROVE  OfficeInv'
<1>1. alerts' \in [Conditions -> AlertStatuses]
  BY AlertsChange DEF SettleAlert, OfficeInv
<1>2. job' = [job EXCEPT ![a] = [step |-> "reread"]]
  BY DEF SettleAlert, Begins
<1> QED
  BY <1>1, <1>2, StatementRecord, AlertStep DEF SettleAlert

LEMMA RereadStep ==
  ASSUME OfficeInv, NEW a \in Admins, RereadAlert(a)
  PROVE  OfficeInv'
BY AuditRecord, QuietStep DEF RereadAlert, Audits, GoesOn

\* The answer tells what was left to tell, recorded or not.
LEMMA AuditStep ==
  ASSUME OfficeInv, NEW a \in Admins, RecordAudit(a)
  PROVE  OfficeInv'
<1>1. /\ UNCHANGED <<today, transactions, committed, invoices, holds, alerts, gone, settingVars, untimely>>
      /\ told' = told + job[a].deleted
      /\ job' = [job EXCEPT ![a] = Idle]
      /\ trail' = Append(trail, today) \/ trail' = trail
  BY DEF RecordAudit, invoiceVars, alertVars, GoesOn, Recorded
<1>2. trail' \in Seq(Nat) /\ Lengthens(trail', trail)
  BY <1>1, AppendLengthens, Unchanging DEF OfficeInv, OfficeTypes
<1>3. TablesGrow
  BY <1>1, <1>2, Unchanging DEF OfficeInv, OfficeTypes, TablesGrow
<1>4. job[a].step = "audit" /\ job[a] \in AuditJobs
  BY JobKinds DEF RecordAudit, OfficeInv
<1>5. ToTell(job[a]) = job[a].deleted /\ job[a].deleted \in Nat
  BY <1>4 DEF AuditJobs, ToTell
<1>6. told' \in Nat /\ told' + ToTell(Idle) <= told + ToTell(job[a])
  BY <1>1, <1>5, IdleRecord DEF OfficeInv, OfficeTypes
<1>7. /\ alerts' \in [Conditions -> AlertStatuses]
      /\ invoices' \in Seq(InvoiceRows) /\ InvoicesAddUp'
  BY <1>1, <1>3, InvoicesStay DEF OfficeInv, OfficeTypes
<1> QED
  BY <1>1, <1>3, <1>6, <1>7, IdleRecord, SettingStays, PlainStep

-----------------------------------------------------------------------------
(* The setting changes, and a crash. *)

\* The runs under way may meet the new setting; nothing else of them changes.
LEMMA UpdateStep ==
  ASSUME OfficeInv, NEW a \in Admins, NEW v \in Values,
         UpdateSetting(a, v) \/ UpdateSettingUnacked(a, v)
  PROVE  OfficeInv'
<1> DEFINE met(b) == [job[b] EXCEPT !.met = @ \cup {v}]
<1>1. PICK record \in {Idle, [step |-> "drop"]} : UpdatesSetting(a, v, record)
  BY DEF UpdateSetting, UpdateSettingUnacked
<1>2. record \in PlainJobs /\ ToTell(record) = 0 /\ job[a] = Idle
  BY <1>1, IdleRecord, StatementRecord DEF UpdatesSetting
<1>3. /\ UNCHANGED <<today, transactions, committed, trail, invoices, holds, alerts, gone, told, untimely>>
      /\ Replaced(v)
  BY <1>1
     DEF UpdatesSetting, UpdateSetting, UpdateSettingUnacked, Upsert, UpsertUnacked, invoiceVars,
         alertVars
<1>4. TablesGrow
  BY <1>3, TablesStay DEF OfficeInv
<1>5. SettingInv'
  <2>1. \E w \in Writers, u \in Values : Upsert(w, u) \/ UpsertUnacked(w, u)
    BY OfficeConstants DEF UpdateSetting, UpdateSettingUnacked, Admins
  <2> QED
    BY <2>1, SettingNextInv DEF OfficeInv, SettingNext, WriteStep
<1>6. Lingering' \subseteq Lingering \cup {v} /\ reading' = reading /\ answer' = answer
  BY <1>3 DEF Replaced, Lingering, OfficeInv, SettingInv, SettingTypeOK
<1>7. ASSUME NEW b \in Admins
      PROVE  /\ Retaining(job[b]) => job'[b] = met(b)
             /\ ~Retaining(job[b]) => job'[b] = IF b = a THEN record ELSE job[b]
  <2>1. ~Retaining(Idle) /\ ~Retaining(record)
    BY <1>2, PlainAre DEF Retaining, Idle
  <2>2. [job EXCEPT ![a] = record][b] = IF b = a THEN record ELSE job[b]
    BY DEF OfficeInv, OfficeTypes
  <2>3. job'[b] = IF Retaining([job EXCEPT ![a] = record][b])
                  THEN [[job EXCEPT ![a] = record][b] EXCEPT !.met = @ \cup {v}]
                  ELSE [job EXCEPT ![a] = record][b]
    BY <1>1 DEF UpdatesSetting, Meeting
  <2> QED
    BY <1>2, <2>1, <2>2, <2>3
<1>8. ASSUME NEW b \in Admins, Retaining(job[b])
      PROVE  /\ job'[b] \in RetentionJobs /\ job'[b].step = job[b].step
             /\ job'[b].kept = job[b].kept /\ job'[b].rows = job[b].rows
             /\ job'[b].met = job[b].met \cup {v}
             /\ job[b].kept \in Nat
  <2>1. job'[b] = met(b)
    BY <1>7, <1>8
  <2>2. job[b] \in RetentionJobs
    BY <1>8, JobKinds DEF OfficeInv, Retaining
  <2> QED
    BY <2>1, <2>2 DEF RetentionJobs
<1>9. ASSUME NEW b \in Admins
      PROVE  job'[b] \in JobRecords /\ ToTell(job'[b]) = ToTell(job[b])
  <2>1. CASE Retaining(job[b])
    BY <1>8, <2>1 DEF JobRecords, ToTell, Retaining
  <2>2. CASE ~Retaining(job[b]) /\ b = a
    BY <1>2, <1>7, <2>2, PlainAre, IdleRecord
  <2>3. CASE ~Retaining(job[b]) /\ b # a
    BY <1>7, <2>3 DEF OfficeInv, OfficeTypes
  <2> QED
    BY <2>1, <2>2, <2>3
<1>10. job' \in [Admins -> JobRecords]
  <2>1. job' = [b \in Admins |-> job'[b]]
    BY <1>1 DEF UpdatesSetting, Meeting
  <2> QED
    BY <1>9, <2>1
<1>11. OfficeTypes'
  BY <1>3, <1>4, <1>10, GoneStays DEF OfficeInv, OfficeTypes, TablesGrow
<1>12. ASSUME NEW b \in Admins
       PROVE  InvoiceJob(b)' /\ RetentionJob(b)'
  <2>1. CASE ~Retaining(job[b]) /\ b = a
    BY <1>2, <1>4, <1>7, <2>1, PlainAre, InvoiceJobStays, RetentionJobStays
  <2>2. CASE ~Retaining(job[b]) /\ b # a
    BY <1>4, <1>7, <2>2, InvoiceJobStays, RetentionJobStays DEF Retaining
  <2>3. CASE Retaining(job[b])
    <3>1. InvoiceJob(b)'
      BY <1>4, <1>8, <2>3, InvoiceJobStays DEF Retaining
    <3>2. RetentionJob(b)
      BY DEF OfficeInv
    <3>3. job'[b].step \in {"list", "delete"} => job'[b].kept \in job'[b].met /\ job'[b].kept > 0
      BY <1>8, <2>3, <3>2 DEF RetentionJob
    <3>4. job'[b].step = "setting" =>
            /\ Lingering' \subseteq job'[b].met
            /\ reading'[b] = "got" => answer'[b] \in job'[b].met
      BY <1>6, <1>8, <2>3, <3>2 DEF RetentionJob
    <3>5. job'[b].step = "delete" =>
            \A r \in job'[b].rows : r \in DOMAIN trail' /\ trail'[r] < today' - job'[b].kept
      BY <1>3, <1>8, <2>3, <3>2 DEF RetentionJob
    <3> QED
      BY <3>1, <3>3, <3>4, <3>5 DEF RetentionJob
  <2> QED
    BY <2>1, <2>2, <2>3
<1>13. InvoicesAddUp'
  BY <1>3, <1>4, InvoicesStay
<1>14. DeletionsAddUp'
  <2>1. Untold' = Untold
    BY <1>9 DEF Untold
  <2> QED
    BY <1>3, <2>1 DEF OfficeInv, DeletionsAddUp
<1> QED
  BY <1>3, <1>5, <1>11, <1>12, <1>13, <1>14 DEF OfficeInv

LEMMA DropStep ==
  ASSUME OfficeInv, NEW a \in Admins, DropKey(a)
  PROVE  OfficeInv'
<1>1. SettingMoves({a})
  BY DropMoves DEF DropKey, SettingMoves
<1> QED
  BY <1>1, StatementRecord, CalmStep DEF DropKey, GoesOn

LEMMA ShowStep ==
  ASSUME OfficeInv, NEW a \in Admins, ShowSetting(a)
  PROVE  OfficeInv'
BY AuditRecord, QuietStep DEF ShowSetting, Audits, GoesOn

\* What a call that dies has yet to tell is never told.
LEMMA OfficeCrashStep ==
  ASSUME OfficeInv, OfficeCrash
  PROVE  OfficeInv'
<1> DEFINE none == [a \in Admins |-> 0]
<1>1. /\ job' = [a \in Admins |-> Idle] /\ SettingCrash
      /\ UNCHANGED <<today, transactions, committed, trail, invoices, holds, alerts, gone, told, untimely>>
  BY DEF OfficeCrash, invoiceVars, alertVars
<1>2. TablesGrow
  BY <1>1, TablesStay DEF OfficeInv
<1>3. SettingInv'
  BY <1>1, SettingNextInv DEF OfficeInv, SettingNext
<1>4. OfficeTypes'
  BY <1>1, <1>2, GoneStays DEF OfficeInv, OfficeTypes, TablesGrow, JobRecords
<1>5. \A a \in Admins : InvoiceJob(a)' /\ RetentionJob(a)'
  BY <1>1 DEF InvoiceJob, RetentionJob, Idle
<1>6. InvoicesAddUp'
  BY <1>1, <1>2, InvoicesStay
<1>7. DeletionsAddUp'
  <2>1. Untold' = none
    BY <1>1, IdleRecord DEF Untold
  <2>2. Units(Admins, none) = {}
    BY DEF Units
  <2>3. IsFiniteSet({}) /\ Cardinality({}) = 0
    BY FS_EmptySet
  <2>4. IsFiniteSet(Units(Admins, Untold')) /\ TotalOver(Admins, Untold') = 0
    BY <2>1, <2>2, <2>3 DEF TotalOver
  <2>5. TotalOver(Admins, Untold) \in Nat
    BY FS_CardinalityType DEF OfficeInv, DeletionsAddUp, TotalOver
  <2>6. told \in Nat /\ Cardinality(gone) \in Nat /\ told + TotalOver(Admins, Untold) <= Cardinality(gone)
    BY GoneIsFinite DEF OfficeInv, OfficeTypes, DeletionsAddUp
  <2> DEFINE n == TotalOver(Admins, Untold)
             c == Cardinality(gone)
  <2> HIDE DEF n, c
  <2>7. told + 0 <= c
    BY <2>5, <2>6 DEF n, c
  <2> QED
    BY <1>1, <2>4, <2>7 DEF DeletionsAddUp, c
<1> QED
  BY <1>1, <1>3, <1>4, <1>5, <1>6, <1>7 DEF OfficeInv

-----------------------------------------------------------------------------
(* The retention runs. *)

LEMMA RunStep ==
  ASSUME OfficeInv, NEW a \in Admins, NEW limit \in Limits, NEW dryRun \in BOOLEAN,
         RunRetention(a, limit, dryRun)
  PROVE  OfficeInv'
<1> DEFINE record == [step |-> "setting", limit |-> limit, dry |-> dryRun, kept |-> 0,
                      rows |-> {}, met |-> Lingering]
<1>1. /\ job' = [job EXCEPT ![a] = record] /\ BeginRead(a)
      /\ UNCHANGED <<today, invoiceVars, alertVars, trail, gone, told, untimely>>
  BY DEF RunRetention, Begins
<1>2. record \in RetentionJobs /\ record.step = "setting" /\ record.met = Lingering
  BY DEF RetentionJobs, Lingering
<1>3. job'[a] = record
  BY <1>1 DEF OfficeInv, OfficeTypes
<1> HIDE DEF record
<1>4. SettingMoves({a}) /\ Lingering' = Lingering
  BY <1>1, ReadMoves
<1>5. reading'[a] # "got"
  BY <1>1 DEF BeginRead, OfficeInv, SettingInv, SettingTypeOK, Admins
<1>6. InvoiceJob(a)' /\ RetentionJob(a)'
  BY <1>2, <1>3, <1>4, <1>5 DEF InvoiceJob, RetentionJob
<1> QED
  BY <1>1, <1>2, <1>4, <1>6, BooksStay

LEMMA GetStep ==
  ASSUME OfficeInv, NEW a \in Admins, GetRetention(a)
  PROVE  OfficeInv'
<1>1. /\ ReadStep(a)
      /\ UNCHANGED <<today, invoiceVars, alertVars, trail, gone, told, untimely>>
      /\ job' = [job EXCEPT ![a] = IF reading'[a] = "idle" THEN Idle ELSE job[a]]
  BY DEF GetRetention, GoesOn
<1>2. SettingMoves({a}) /\ Lingering' = Lingering
  BY <1>1, ReadMoves
<1>3. CASE reading'[a] = "idle"
  BY <1>1, <1>2, <1>3, IdleRecord, CalmStep
<1>4. CASE reading'[a] # "idle"
  <2>1. job[a] \in RetentionJobs /\ job[a].step = "setting" /\ RetentionJob(a)
    BY JobKinds DEF GetRetention, OfficeInv
  <2>2. job' = [job EXCEPT ![a] = job[a]] /\ job'[a] = job[a]
    BY <1>1, <1>4 DEF OfficeInv, OfficeTypes
  <2>3. reading'[a] = "got" => answer'[a] \in Lingering
    BY <1>1, AnswerLingers
  <2>4. InvoiceJob(a)' /\ RetentionJob(a)'
    BY <1>2, <2>1, <2>2, <2>3 DEF InvoiceJob, RetentionJob
  <2> QED
    BY <1>1, <1>2, <2>1, <2>2, <2>4, BooksStay
<1> QED
  BY <1>3, <1>4

LEMMA ReadRetentionStep ==
  ASSUME OfficeInv, NEW a \in Admins, ReadRetention(a)
  PROVE  OfficeInv'
<1>1. SettingMoves({a})
  BY ReadMoves DEF ReadRetention
<1>2. CASE answer[a] = 0
  <2>1. job' = [job EXCEPT ![a] = [step |-> "audit", deleted |-> 0]]
    BY <1>2 DEF ReadRetention, Audits, GoesOn
  <2>2. UNCHANGED <<today, invoiceVars, alertVars, trail, gone, told, untimely>>
    BY DEF ReadRetention
  <2> QED
    BY <1>1, <2>1, <2>2, AuditRecord, CalmStep
<1>3. CASE answer[a] # 0
  <2> DEFINE record == [job[a] EXCEPT !.step = "list", !.kept = answer[a]]
  <2>1. /\ job' = [job EXCEPT ![a] = record]
        /\ UNCHANGED <<today, invoiceVars, alertVars, trail, gone, told, untimely>>
    BY <1>3 DEF ReadRetention, GoesOn
  <2>2. job[a] \in RetentionJobs /\ job[a].step = "setting" /\ reading[a] = "got"
    BY JobKinds DEF ReadRetention, EndRead, OfficeInv
  <2>3. answer[a] \in job[a].met /\ job[a].met \subseteq Nat
    BY <2>2, OfficeConstants DEF OfficeInv, RetentionJob, RetentionJobs
  <2>4. answer[a] \in Nat /\ answer[a] > 0
    BY <1>3, <2>3
  <2>5. /\ record \in RetentionJobs /\ record.step = "list"
        /\ record.kept = answer[a] /\ record.met = job[a].met
    BY <2>2, <2>4 DEF RetentionJobs
  <2>6. job'[a] = record
    BY <2>1 DEF OfficeInv, OfficeTypes
  <2> HIDE DEF record
  <2>7. InvoiceJob(a)' /\ RetentionJob(a)'
    BY <2>3, <2>4, <2>5, <2>6 DEF InvoiceJob, RetentionJob
  <2> QED
    BY <1>1, <2>1, <2>5, <2>7, BooksStay
<1> QED
  BY <1>2, <1>3

LEMMA ListStep ==
  ASSUME OfficeInv, NEW a \in Admins, ListExpiredRows(a)
  PROVE  OfficeInv'
<1>1. PICK R \in ExpiredLists(today, job[a].kept, job[a].limit) :
        IF job[a].dry THEN Audits(a)
        ELSE GoesOn(a, [job[a] EXCEPT !.step = "delete", !.rows = R])
  BY DEF ListExpiredRows
<1>2. CASE job[a].dry
  BY <1>1, <1>2, AuditRecord, QuietStep DEF ListExpiredRows, Audits, GoesOn
<1>3. CASE ~job[a].dry
  <2> DEFINE record == [job[a] EXCEPT !.step = "delete", !.rows = R]
  <2>1. /\ job' = [job EXCEPT ![a] = record]
        /\ UNCHANGED <<today, invoiceVars, alertVars, auditVars, told, untimely>>
    BY <1>1, <1>3 DEF ListExpiredRows, GoesOn
  <2>2. job[a] \in RetentionJobs /\ job[a].step = "list"
    BY JobKinds DEF ListExpiredRows, OfficeInv
  <2>3. job[a].kept \in job[a].met /\ job[a].kept > 0
    BY <2>2 DEF OfficeInv, RetentionJob
  <2>4. \A r \in R : r \in DOMAIN trail /\ trail[r] < today - job[a].kept
    BY DEF ExpiredLists, ExpiredRows
  <2>5. R \subseteq Nat
    BY <2>4 DEF OfficeInv, OfficeTypes
  <2>6. /\ record \in RetentionJobs /\ record.step = "delete" /\ record.rows = R
        /\ record.kept = job[a].kept /\ record.met = job[a].met
    BY <2>2, <2>5 DEF RetentionJobs
  <2>7. job'[a] = record /\ trail' = trail /\ today' = today
    BY <2>1 DEF OfficeInv, OfficeTypes, auditVars
  <2> HIDE DEF record
  <2>8. InvoiceJob(a)'
    BY <2>6, <2>7 DEF InvoiceJob
  <2>9. RetentionJob(a)'
    BY <2>3, <2>4, <2>6, <2>7 DEF RetentionJob
  <2> QED
    BY <2>1, <2>6, <2>8, <2>9, SettingStays, BooksStay DEF auditVars
<1> QED
  BY <1>2, <1>3

\* Rows that two runs have both listed are deleted, and so told, by one.
LEMMA DeleteStep ==
  ASSUME OfficeInv, NEW a \in Admins, DeleteExpired(a)
  PROVE  OfficeInv'
<1> DEFINE deleted == job[a].rows \ gone
<1>1. /\ UNCHANGED <<today, transactions, committed, invoices, holds, alerts, trail, settingVars, told>>
      /\ gone' = gone \cup deleted
      /\ untimely' = untimely \cup {r \in deleted : \A d \in job[a].met : ~(d > 0 /\ trail[r] < today - d)}
      /\ \/ job' = [job EXCEPT ![a] = [step |-> "audit", deleted |-> Cardinality(deleted)]]
         \/ job' = [job EXCEPT ![a] = Idle]
  BY DEF DeleteExpired, invoiceVars, alertVars, GoesOn
<1>2. job[a].step = "delete" /\ RetentionJob(a)
  BY DEF DeleteExpired, OfficeInv
<1>3. ToTell(job[a]) = 0
  BY <1>2 DEF ToTell
<1>4. /\ job[a].kept \in job[a].met /\ job[a].kept > 0
      /\ \A r \in deleted : r \in DOMAIN trail /\ trail[r] < today - job[a].kept
  BY <1>2 DEF RetentionJob
<1>5. untimely' = {}
  BY <1>1, <1>4 DEF OfficeInv
<1>6. IsFiniteSet(gone) /\ IsFiniteSet(DOMAIN trail)
  BY GoneIsFinite DEF OfficeInv
<1>7. IsFiniteSet(deleted)
  BY <1>4, <1>6, FS_Subset
<1> HIDE DEF deleted
<1>8. Cardinality(deleted) \in Nat /\ Cardinality(gone) \in Nat
  BY <1>6, <1>7, FS_CardinalityType
<1>9. Cardinality(gone') = Cardinality(gone) + Cardinality(deleted)
  <2>1. gone \cap deleted = {}
    BY DEF deleted
  <2>2. Cardinality(gone \cup deleted) = Cardinality(gone) + Cardinality(deleted) - Cardinality({})
    BY <1>6, <1>7, <2>1, FS_Union
  <2> QED
    BY <1>1, <1>8, <2>2, FS_EmptySet
<1>10. TablesGrow
  BY <1>1, TablesStay DEF OfficeInv
<1>11. PICK record \in PlainJobs :
         /\ job' = [job EXCEPT ![a] = record]
         /\ ToTell(record) \in Nat /\ ToTell(record) <= Cardinality(deleted)
  <2> DEFINE audit == [step |-> "audit", deleted |-> Cardinality(deleted)]
  <2>1. audit \in PlainJobs /\ ToTell(audit) = Cardinality(deleted)
    BY <1>8, AuditRecord
  <2>2. /\ Idle \in PlainJobs /\ ToTell(Idle) \in Nat
        /\ ToTell(Idle) <= Cardinality(deleted)
    BY <1>8, IdleRecord
  <2>3. ToTell(audit) \in Nat /\ ToTell(audit) <= Cardinality(deleted)
    BY <1>8, <2>1
  <2>4. job' = [job EXCEPT ![a] = audit] \/ job' = [job EXCEPT ![a] = Idle]
    BY <1>1
  <2> HIDE DEF audit
  <2> QED
    BY <2>1, <2>2, <2>3, <2>4, Zenon
<1>12. job'[a] = record
  BY <1>11 DEF OfficeInv, OfficeTypes
<1>13. InvoiceJob(a)' /\ RetentionJob(a)'
  BY <1>10, <1>11, <1>12, PlainAre, InvoiceJobStays, RetentionJobStays
<1>14. gone' \subseteq DOMAIN trail'
  BY <1>1, <1>4 DEF OfficeInv, OfficeTypes
<1>15. /\ alerts' \in [Conditions -> AlertStatuses]
       /\ invoices' \in Seq(InvoiceRows) /\ InvoicesAddUp' /\ told' \in Nat
  BY <1>1, <1>10, Untouched
<1>16. told' + ToTell(record) + Cardinality(gone) <= told + ToTell(job[a]) + Cardinality(gone')
  <2> DEFINE j == ToTell(record)
             c == Cardinality(gone)
             n == Cardinality(deleted)
  <2>1. j \in Nat /\ c \in Nat /\ n \in Nat /\ j <= n
    BY <1>8, <1>11
  <2>2. told \in Nat /\ told' = told
    BY <1>1 DEF OfficeInv, OfficeTypes
  <2> HIDE DEF j, c, n
  <2>3. told' + j + c <= told + 0 + (c + n)
    BY <2>1, <2>2
  <2> QED
    BY <1>3, <1>9, <2>3 DEF j, c, n
<1>17. record \in JobRecords /\ SettingMoves({a}) /\ UNCHANGED holds
  BY <1>1, PlainAre, SettingStays
<1> QED
  BY <1>5, <1>10, <1>11, <1>13, <1>14, <1>15, <1>16, <1>17, HandlerStep

-----------------------------------------------------------------------------
(* The theorems. *)

LEMMA OfficeStarts ==
  ASSUME OfficeInit
  PROVE  OfficeInv
<1> DEFINE none == [a \in Admins |-> 0]
<1>1. /\ job = [a \in Admins |-> Idle] /\ invoices = <<>> /\ transactions = <<>> /\ committed = {}
      /\ holds = {} /\ trail = <<1, 1>> /\ gone = {} /\ SettingInit
      /\ today = 2 /\ told = 0 /\ untimely = {}
  BY DEF OfficeInit
<1>2. alerts \in [Conditions -> AlertStatuses]
  BY DEF OfficeInit, AlertStatuses
<1>3. OfficeTypes
  BY <1>1, <1>2 DEF OfficeTypes, JobRecords
<1>4. \A a \in Admins : InvoiceJob(a) /\ RetentionJob(a)
  BY <1>1 DEF InvoiceJob, RetentionJob, Idle
<1>5. InvoicesAddUp
  BY <1>1 DEF InvoicesAddUp
<1>6. Untold = none
  BY <1>1, IdleRecord DEF Untold
<1>7. Units(Admins, none) = {}
  BY DEF Units
<1>8. DeletionsAddUp
  <2>1. IsFiniteSet({}) /\ Cardinality({}) = 0
    BY FS_EmptySet
  <2>2. Units(Admins, Untold) = {} /\ TotalOver(Admins, Untold) = 0
    BY <1>6, <1>7, <2>1 DEF TotalOver
  <2>3. told = 0 /\ Cardinality(gone) = 0
    BY <1>1, <2>1
  <2> QED
    BY <2>1, <2>2, <2>3 DEF DeletionsAddUp
<1> QED
  BY <1>1, <1>3, <1>4, <1>5, <1>8, SettingInitInv DEF OfficeInv

LEMMA OfficeSteps ==
  ASSUME OfficeInv, [OfficeNext]_officeVars
  PROVE  OfficeInv'
<1>1. CASE UNCHANGED officeVars
  <2>1. TablesGrow
    BY <1>1, TablesStay DEF officeVars, invoiceVars, auditVars, OfficeInv
  <2> QED
    BY <1>1, <2>1, SettingStays, WorldStep
       DEF officeVars, invoiceVars, alertVars, auditVars, OfficeInv, OfficeTypes
<1>2. ASSUME NEW a \in Admins, Handle(a)
      PROVE  OfficeInv'
  BY <1>2, CreateStep, SubtotalStep, InsertStep, StatusStep, LookStep, RaiseStep, SettleStep,
     RereadStep, UpdateStep, DropStep, ShowStep, RunStep, GetStep, ReadRetentionStep, ListStep,
     DeleteStep, AuditStep, FailStep
     DEF Handle
<1> QED
  BY <1>1, <1>2, DayStep, TickStep, BillingStep, ConditionStep, OfficeCrashStep DEF OfficeNext, Finished

\* What holds of the tables and of the calls under way holds for ever.
THEOREM OfficeInvariant == OfficeSpec => []OfficeInv
<1>1. OfficeInit => OfficeInv
  BY OfficeStarts
<1>2. OfficeInv /\ [OfficeNext]_officeVars => OfficeInv'
  BY OfficeSteps
<1> QED
  BY <1>1, <1>2, PTL DEF OfficeSpec

\* An invoice states what was charged in its days: at least what was committed
\* when it was asked for, and at most what is by now.
THEOREM InvoicesAreOfTheirPeriods == OfficeSpec => []InvoicesStateTheirPeriods
<1>1. OfficeInv => InvoicesStateTheirPeriods
  <2> SUFFICES ASSUME OfficeInv, NEW i \in DOMAIN invoices
               PROVE  /\ invoices[i].least <= invoices[i].subtotal
                      /\ invoices[i].subtotal <= ChargesOf(invoices[i].scope, invoices[i].period)
    BY DEF InvoicesStateTheirPeriods
  <2>1. invoices[i].period \in Periods
    <3>1. invoices[i] \in InvoiceRows
      BY DEF OfficeInv, OfficeTypes
    <3> QED
      BY <3>1 DEF InvoiceRows
  <2>2. ChargesOf(invoices[i].scope, invoices[i].period)
          = ChargesIn(transactions, committed, invoices[i].scope, invoices[i].period)
    BY <2>1, SelectedIsCharged DEF OfficeInv
  <2> QED
    BY <2>2 DEF OfficeInv, InvoicesAddUp
<1> QED
  BY <1>1, OfficeInvariant, PTL

\* No two runs tell of one deletion, and no row goes before a setting that the
\* run may have met lets it go.
THEOREM RetentionIsTrue == OfficeSpec => []RetentionTellsTheTruth
<1>1. OfficeInv => RetentionTellsTheTruth
  <2> SUFFICES ASSUME OfficeInv PROVE told <= Cardinality(gone)
    BY DEF OfficeInv, RetentionTellsTheTruth
  <2> DEFINE n == TotalOver(Admins, Untold)
             c == Cardinality(gone)
  <2>1. told \in Nat /\ n \in Nat /\ c \in Nat /\ told + n <= c
    <3>1. n \in Nat
      BY FS_CardinalityType DEF OfficeInv, DeletionsAddUp, TotalOver
    <3> QED
      BY <3>1, GoneIsFinite DEF OfficeInv, OfficeTypes, DeletionsAddUp
  <2> HIDE DEF n, c
  <2> QED
    BY <2>1 DEF c
<1> QED
  BY <1>1, OfficeInvariant, PTL

\* Looks, acknowledgements and resolutions move an alert on, or leave it.
THEOREM AlertsNeverGoBack == OfficeSpec => AlertsOnlyAdvance
<1>1. OfficeInv /\ [OfficeNext]_officeVars =>
        [\A c \in Conditions : AlertStage(alerts[c]) <= AlertStage(alerts'[c])]_officeVars
  <2> SUFFICES ASSUME OfficeInv, OfficeNext
               PROVE  \A c \in Conditions : AlertStage(alerts[c]) <= AlertStage(alerts'[c])
    OBVIOUS
  <2>1. \/ alerts' = alerts
        \/ \E c : alerts' = Upserted(c) \/ alerts' = Acknowledged(c) \/ alerts' = Resolved(c)
    <3>1. ASSUME NEW a \in Admins, Handle(a)
          PROVE  \/ alerts' = alerts
                 \/ \E c : alerts' = Upserted(c) \/ alerts' = Acknowledged(c) \/ alerts' = Resolved(c)
      <4>1. CASE Raise(a)
        BY <4>1 DEF Raise
      <4>2. CASE \E c \in Raised : SettleAlert(a, c)
        BY <4>2 DEF SettleAlert
      <4>3. CASE ~Raise(a) /\ ~(\E c \in Raised : SettleAlert(a, c))
        BY <3>1, <4>3
           DEF Handle, CreateInvoice, ReadSubtotal, Insert, UpdateInvoiceStatus, LookAtAlerts,
               ReadErrorRate, ListAlerts, RereadAlert, UpdateSetting, UpdateSettingUnacked,
               UpdatesSetting, DropKey, ShowSetting, RunRetention, GetRetention, ReadRetention,
               ListExpiredRows, DeleteExpired, RecordAudit, Fails, alertVars
      <4> QED
        BY <4>1, <4>2, <4>3
    <3>2. DayPasses \/ TimePasses \/ Billing \/ (\E c \in Conditions : ConditionChanges(c))
            \/ OfficeCrash \/ Finished => alerts' = alerts
      BY DEF DayPasses, TimePasses, Billing, ConditionChanges, OfficeCrash, Finished, officeVars,
             alertVars
    <3> QED
      BY <3>1, <3>2 DEF OfficeNext
  <2> QED
    BY <2>1, AlertsChange DEF OfficeInv
<1>2. OfficeSpec => []OfficeInv
  BY OfficeInvariant
<1> QED
  BY <1>1, <1>2, PTL DEF OfficeSpec, AlertsOnlyAdvance

=============================================================================
