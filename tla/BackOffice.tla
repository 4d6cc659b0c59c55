----------------------------- MODULE BackOffice -----------------------------
(***************************************************************************)
(* What administrators do beside the traffic: they make invoices while     *)
(* charges are still being committed, settle alerts while others look at   *)
(* them, change how long audit rows are kept, and delete old ones, by a    *)
(* setting read through the cache, while every call adds a row.  A handler *)
(* is a sequence of statements, each of its own transaction, any of which  *)
(* may fail; the audit row, its last word, may fail unnoticed.             *)
(***************************************************************************)
EXTENDS Invoices, Alerts, AuditTrail, SettingsCache

CONSTANTS
  MaxCalls,  \* bound: calls
  MaxEvents  \* bound: new transactions and changes of conditions

\* An administrator's goroutine may read the setting or change it.
Admins == Readers

\* Values are days; zero keeps everything.
ASSUME OfficeConstants ==
  /\ Writers = Readers /\ Values \subseteq Nat
  /\ MaxCalls \in Nat /\ MaxEvents \in Nat

VARIABLES
  job,      \* what each goroutine is doing
  calls,    \* calls so far
  events,   \* events so far
  told,     \* history: deletions the answers of retention runs have told
  untimely  \* history: rows deleted although no setting that the run may
            \* have met lets them go

invoiceVars == <<transactions, committed, invoices>>
alertVars == <<holds, alerts>>
auditVars == <<trail, gone, settingVars>>
officeVars == <<today, invoiceVars, alertVars, auditVars, job, calls, events, told, untimely>>

Idle == [step |-> "idle"]

OfficeInit ==
  /\ SettingInit
  /\ today = 2
  /\ transactions = <<>> /\ committed = {} /\ invoices = <<>>
  /\ holds = {} /\ \E status \in {"none", "open"} : alerts = [c \in Conditions |-> status]
  /\ trail = <<1, 1>> /\ gone = {}
  /\ job = [a \in Admins |-> Idle]
  /\ calls = 0 /\ events = 0 /\ told = 0 /\ untimely = {}

-----------------------------------------------------------------------------
(* The world goes on. *)

Event ==
  /\ events < MaxEvents
  /\ events' = events + 1

DayPasses ==
  /\ today < MaxDay
  /\ today' = today + 1
  /\ UNCHANGED <<invoiceVars, alertVars, auditVars, job, calls, events, told, untimely>>

Billing ==
  /\ \/ \E w \in Workspaces, amount \in Amounts : TransactionBegins(w, amount) /\ Event
     \/ \E t \in DOMAIN transactions : TransactionCommits(t) /\ UNCHANGED events
  /\ UNCHANGED <<today, invoices, alertVars, auditVars, job, calls, told, untimely>>

ConditionChanges(c) ==
  /\ Event
  /\ holds' = IF c \in holds THEN holds \ {c} ELSE holds \cup {c}
  /\ UNCHANGED <<today, invoiceVars, alerts, auditVars, job, calls, told, untimely>>

\* Time passes for the key.
TimePasses ==
  /\ Tick
  /\ UNCHANGED <<today, invoiceVars, alertVars, trail, gone, job, calls, events, told, untimely>>

\* The process dies with all its calls.
OfficeCrash ==
  /\ Faults /\ \E a \in Admins : job[a] # Idle
  /\ SettingCrash
  /\ job' = [a \in Admins |-> Idle]
  /\ UNCHANGED <<today, invoiceVars, alertVars, trail, gone, calls, events, told, untimely>>

-----------------------------------------------------------------------------
(* How a handler begins and ends. *)

Begins(a, record) ==
  /\ job[a] = Idle /\ calls < MaxCalls
  /\ job' = [job EXCEPT ![a] = record]
  /\ calls' = calls + 1

GoesOn(a, record) ==
  /\ job' = [job EXCEPT ![a] = record]
  /\ UNCHANGED calls

Audits(a) == GoesOn(a, [step |-> "audit", deleted |-> 0])

\* A statement fails, the handler answers with an error and records nothing.
Fails(a) ==
  /\ Faults /\ job[a].step \in {"sum", "insert", "list", "delete", "reread", "show"}
  /\ GoesOn(a, Idle)
  /\ UNCHANGED <<today, invoiceVars, alertVars, auditVars, events, told, untimely>>

\* recordAudit, and the answer, which is given even if no row was inserted.
RecordAudit(a) ==
  /\ job[a].step = "audit"
  /\ \/ trail' = Recorded(today)
     \/ Faults /\ trail' = trail
  /\ told' = told + job[a].deleted
  /\ GoesOn(a, Idle)
  /\ UNCHANGED <<today, invoiceVars, alertVars, gone, settingVars, events, untimely>>

-----------------------------------------------------------------------------
(* adminCreateInvoice and adminUpdateInvoiceStatus. *)

CreateInvoice(a, scope, period) ==
  /\ Begins(a, [step |-> "sum", scope |-> scope, period |-> period,
                least |-> Charged(Selected(scope, period))])
  /\ UNCHANGED <<today, invoiceVars, alertVars, auditVars, events, told, untimely>>

\* The subtotal is read, ...
ReadSubtotal(a) ==
  /\ job[a].step = "sum"
  /\ GoesOn(a, [step |-> "insert", scope |-> job[a].scope, period |-> job[a].period,
                least |-> job[a].least,
                subtotal |-> Charged(Selected(job[a].scope, job[a].period))])
  /\ UNCHANGED <<today, invoiceVars, alertVars, auditVars, events, told, untimely>>

\* ... and the invoice inserted; least is history.
Insert(a) ==
  /\ job[a].step = "insert"
  /\ \E status \in Statuses :
       InsertInvoice([scope |-> job[a].scope, period |-> job[a].period, status |-> status,
                      subtotal |-> job[a].subtotal, least |-> job[a].least])
  /\ Audits(a)
  /\ UNCHANGED <<today, ledgerVars, alertVars, auditVars, events, told, untimely>>

UpdateInvoiceStatus(a, i, status) ==
  /\ Begins(a, [step |-> "audit", deleted |-> 0])
  /\ SetStatus(i, status)
  /\ UNCHANGED <<today, ledgerVars, alertVars, auditVars, events, told, untimely>>

-----------------------------------------------------------------------------
(* Alerts. *)

\* adminAlertHistory reads which providers are not healthy, ...
LookAtAlerts(a) ==
  /\ Begins(a, [step |-> "raise", seen |-> holds \cap Providers])
  /\ UNCHANGED <<today, invoiceVars, alertVars, auditVars, events, told, untimely>>

\* ... raises each alert, ignoring failures, ...
Raise(a) ==
  /\ job[a].step \in {"raise", "rate"} /\ job[a].seen # {}
  /\ \E c \in job[a].seen :
       /\ \/ alerts' = Upserted(c)
          \/ Faults /\ alerts' = alerts
       /\ GoesOn(a, [job[a] EXCEPT !.seen = @ \ {c}])
  /\ UNCHANGED <<today, invoiceVars, holds, auditVars, events, told, untimely>>

\* ... then reads the error rate, ...
ReadErrorRate(a) ==
  /\ job[a].step = "raise" /\ job[a].seen = {}
  /\ GoesOn(a, [step |-> "rate", seen |-> holds \cap {ErrorRate}])
  /\ UNCHANGED <<today, invoiceVars, alertVars, auditVars, events, told, untimely>>

\* ... and lists what there is; nobody audits a look.
ListAlerts(a) ==
  /\ job[a].step = "rate" /\ job[a].seen = {}
  /\ GoesOn(a, Idle)
  /\ UNCHANGED <<today, invoiceVars, alertVars, auditVars, events, told, untimely>>

\* adminAcknowledgeAlert and adminResolveAlert: the row is written, ...
SettleAlert(a, c) ==
  /\ \/ alerts' = Acknowledged(c)
     \/ alerts' = Resolved(c)
  /\ Begins(a, [step |-> "reread"])
  /\ UNCHANGED <<today, invoiceVars, holds, auditVars, events, told, untimely>>

\* ... and read again; if that fails, the caller is told there is no such alert.
RereadAlert(a) ==
  /\ job[a].step = "reread"
  /\ Audits(a)
  /\ UNCHANGED <<today, invoiceVars, alertVars, auditVars, events, told, untimely>>

-----------------------------------------------------------------------------
(* adminUpdateSetting, of audit_log_retention_days. *)

Retaining(record) == record.step \in {"setting", "list", "delete"}

\* The runs under way may meet the new setting.
Meeting(jobs, v) ==
  [b \in Admins |-> IF Retaining(jobs[b]) THEN [jobs[b] EXCEPT !.met = @ \cup {v}] ELSE jobs[b]]

UpdatesSetting(a, v, record) ==
  /\ job[a] = Idle /\ calls < MaxCalls
  /\ job' = Meeting([job EXCEPT ![a] = record], v)
  /\ calls' = calls + 1
  /\ UNCHANGED <<today, invoiceVars, alertVars, trail, gone, events, told, untimely>>

UpdateSetting(a, v) == Upsert(a, v) /\ UpdatesSetting(a, v, [step |-> "drop"])

\* The answer is 500, though the row is written.
UpdateSettingUnacked(a, v) == UpsertUnacked(a, v) /\ UpdatesSetting(a, v, Idle)

DropKey(a) ==
  /\ job[a].step = "drop"
  /\ Invalidate(a) \/ InvalidateFails(a)
  /\ GoesOn(a, [step |-> "show"])
  /\ UNCHANGED <<today, invoiceVars, alertVars, trail, gone, events, told, untimely>>

\* The row is read back for the answer.
ShowSetting(a) ==
  /\ job[a].step = "show"
  /\ Audits(a)
  /\ UNCHANGED <<today, invoiceVars, alertVars, auditVars, events, told, untimely>>

-----------------------------------------------------------------------------
(* adminRunAuditLogRetention. *)

\* What a read that begins now may return, if no write comes.
Lingering == {v \in Values : since[v] <= TTL + Patience}

RunRetention(a, limit, dryRun) ==
  /\ BeginRead(a)
  /\ Begins(a, [step |-> "setting", limit |-> limit, dry |-> dryRun, kept |-> 0,
                rows |-> {}, met |-> Lingering])
  /\ UNCHANGED <<today, invoiceVars, alertVars, trail, gone, events, told, untimely>>

\* GetSetting runs; its error ends the run.
GetRetention(a) ==
  /\ job[a].step = "setting"
  /\ ReadStep(a)
  /\ GoesOn(a, IF reading'[a] = "idle" THEN Idle ELSE job[a])
  /\ UNCHANGED <<today, invoiceVars, alertVars, trail, gone, events, told, untimely>>

\* Zero days keep everything: the run ends, and is audited.
ReadRetention(a) ==
  /\ job[a].step = "setting"
  /\ EndRead(a)
  /\ IF answer[a] = 0 THEN Audits(a)
     ELSE GoesOn(a, [job[a] EXCEPT !.step = "list", !.kept = answer[a]])
  /\ UNCHANGED <<today, invoiceVars, alertVars, trail, gone, events, told, untimely>>

ListExpiredRows(a) ==
  /\ job[a].step = "list"
  /\ \E R \in ExpiredLists(today, job[a].kept, job[a].limit) :
       IF job[a].dry THEN Audits(a)
       ELSE GoesOn(a, [job[a] EXCEPT !.step = "delete", !.rows = R])
  /\ UNCHANGED <<today, invoiceVars, alertVars, auditVars, events, told, untimely>>

\* Mutated form: the run tells how many rows it has found.
DeleteTellingFound(a) ==
  LET deleted == job[a].rows \ gone
  IN  /\ job[a].step = "delete"
      /\ gone' = gone \cup deleted
      /\ untimely' = untimely \cup {r \in deleted : \A d \in job[a].met : ~(d > 0 /\ trail[r] < today - d)}
      /\ GoesOn(a, [step |-> "audit", deleted |-> Cardinality(job[a].rows)])
      /\ UNCHANGED <<today, invoiceVars, alertVars, trail, settingVars, events, told>>

\* DeleteAuditLogsByIDs tells how many rows it has deleted; two runs may have
\* listed the same.  The database's own answer may be lost, and then the run
\* fails.
DeleteExpired(a) ==
  LET deleted == job[a].rows \ gone
  IN  /\ job[a].step = "delete"
      /\ gone' = gone \cup deleted
      /\ untimely' = untimely \cup {r \in deleted : \A d \in job[a].met : ~(d > 0 /\ trail[r] < today - d)}
      /\ \/ GoesOn(a, [step |-> "audit", deleted |-> Cardinality(deleted)])
         \/ Faults /\ GoesOn(a, Idle)
      /\ UNCHANGED <<today, invoiceVars, alertVars, trail, settingVars, events, told>>

-----------------------------------------------------------------------------
Handle(a) ==
  \/ \E scope \in Scopes, period \in Periods : CreateInvoice(a, scope, period)
  \/ ReadSubtotal(a) \/ Insert(a)
  \/ \E i \in DOMAIN invoices, status \in Statuses : UpdateInvoiceStatus(a, i, status)
  \/ LookAtAlerts(a) \/ Raise(a) \/ ReadErrorRate(a) \/ ListAlerts(a)
  \/ \E c \in Raised : SettleAlert(a, c)
  \/ RereadAlert(a)
  \/ \E limit \in Limits, dryRun \in BOOLEAN : RunRetention(a, limit, dryRun)
  \/ GetRetention(a) \/ ReadRetention(a) \/ ListExpiredRows(a) \/ DeleteExpired(a)
  \/ \E v \in Values : UpdateSetting(a, v) \/ UpdateSettingUnacked(a, v)
  \/ DropKey(a) \/ ShowSetting(a)
  \/ RecordAudit(a) \/ Fails(a)

\* All the calls there are to make are over.
Finished ==
  /\ calls = MaxCalls /\ \A a \in Admins : job[a] = Idle
  /\ UNCHANGED officeVars

OfficeNext ==
  \/ DayPasses \/ TimePasses \/ Billing
  \/ \E c \in Conditions : ConditionChanges(c)
  \/ \E a \in Admins : Handle(a)
  \/ OfficeCrash \/ Finished

OfficeSpec == OfficeInit /\ [][OfficeNext]_officeVars

-----------------------------------------------------------------------------
(* Properties. *)

\* What a charge of a day in a period comes to, for those committed so far.
ChargesOf(scope, period) ==
  Charged({t \in committed : /\ InScope(scope, t) /\ transactions[t].amount < 0
                             /\ transactions[t].day \in period[1]..period[2]})

\* An invoice states the charges of its days: all those committed when it was
\* asked for, and none of other days, of other workspaces or that never
\* committed, whatever was committed between the sum and the insert.  Invoices
\* of adjacent periods so never bill a charge twice.
InvoicesStateTheirPeriods ==
  \A i \in DOMAIN invoices :
    /\ invoices[i].least <= invoices[i].subtotal
    /\ invoices[i].subtotal <= ChargesOf(invoices[i].scope, invoices[i].period)

\* An alert goes from open to acknowledged to resolved and never back, although
\* looks, acknowledgements and resolutions overtake each other.
AlertStage(status) ==
  CASE status = "none" -> 0 [] status = "open" -> 1
    [] status = "acknowledged" -> 2 [] status = "resolved" -> 3
AlertsOnlyAdvance ==
  [][\A c \in Conditions : AlertStage(alerts[c]) <= AlertStage(alerts'[c])]_officeVars

\* Runs that overlap tell of no deletion twice.  They delete no audit row that
\* is too young for every setting they may have met: what was in force within
\* one life of the key and one fill before the run began, or was set since.
RetentionTellsTheTruth ==
  /\ told <= Cardinality(gone)
  /\ untimely = {}

=============================================================================
