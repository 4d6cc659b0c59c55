# A TLA+ model of the AI aggregator gateway

The repository is an API gateway in Go (`backend/`) in front of several
providers of AI models. It speaks an OpenAI-compatible HTTP API, routes each
call to one of the providers that serve the model, bills it to a prepaid
account, limits rates per API key, runs image and video generation as
asynchronous tasks, and carries a large administration API. State lives in
PostgreSQL, Redis and a few shared structures of the one gateway process.

This directory models the parts whose correctness rests on interleavings,
failures and order, checks them with TLC on small instances, and proves the
most important results with TLAPS for every instance.

Paths below are relative to the repository; `router.go` is
`backend/internal/gateway/router.go`, `store.go` is
`backend/internal/storage/store.go`.

## 1. Inventory

| Component | Where | State it keeps | Operations that change state |
|---|---|---|---|
| Billing of requests | `router.go` 525-733, 802-1040, 5100-5180; `store.go` RecordUsage, DeductBalance, AddBalance, CreateBillingTransaction... | `users.balance_usd`, `usage_logs`, `billing_transactions` | a billed call (pre-check, providers, usage row, deduction, ledger), registration, top-up |
| Stream relay | `router.go` 735-880, `stream/proxy.go`, `provider/dashscope.go` 92-172 | two channels, three goroutines | produce, hand over, flush, settle, abandon |
| Async tasks | `task/engine.go`, `store.go` async_tasks | rows of `async_tasks`, the provider's jobs | submit, poll, update status |
| Rate limiter | `ratelimit/limiter.go` | a sorted set and a counter per key in Redis | checkRPM, checkTPM |
| Model router | `router/model_router.go` | registry and adapters in memory; `models`, `providers`, `model_providers` | refresh, notify, health check, route; administrators' writes |
| Choice of routes | `model_router.go` 131-236, 285-398, 498-539; `store.go` provider_keys, routing_policies; `router.go` provider keys, templates | shared adapters; `provider_keys`, `routing_policies` | add policies, create, revoke and validate keys, install a template, order and equip the routes of a request |
| Provider adapters | `provider/*.go` | none | calls to the vendors |
| Settings cache | `store.go` 4487-4592 | `system_settings`, a Redis key each | get, set |
| Files and retention | `filestore/store.go`, `router.go` 1905-2070, 3659-3747 | rows and blobs | upload, download, delete, retention run |
| Workflows, webhooks, sessions | `router.go` 4493-4749, `store.go` 5567-5963 | runs, deliveries, sessions | run, deliver with retries, touch |
| Workspace budgets and quotas | `router.go` 353-367, `store.go` 2386-2449 | limits; read from usage | create; check before the call |
| Auth, keys, permissions | `auth/middleware.go`, `store.go` 2101-2172, 3942-4160 | keys, grants | validate, create, update, revoke |
| Guardrails | `router.go` 541-547, 4947-5098; `store.go` guardrail_policies | policies, results | create a policy; decide, mask, record |
| Invoices, alerts, audit log | `router.go` 2992-3069, 3875-3950; `store.go` 4269-4380, 4769-4927 | their tables | create, change status, upsert, delete expired |
| Prompt templates, benchmarks, clusters, pricing admin | `router.go`, `store.go` | their tables | CRUD |
| Metrics, config, process start | `metrics/`, `config/`, `cmd/server/main.go` | counters | start, shut down |
| Frontend, Helm chart, scripts | `frontend/`, `deploy/`, `scripts/` | - | - |

`billing/engine.go` is called by nobody: the gateway calculates costs itself.
There are no Go tests; the shell scripts under `scripts/regression` exercise
the API one request at a time.

### How the parts interact

A chat call passes the rate limiter (Redis), a read of the balance
(PostgreSQL) and the model router, which copies three tables into its registry
on *every* request. The handler then tries the providers in order. A plain
answer is settled in the handler's own goroutine before it is sent; a streamed
one by the wrapper goroutine when the provider's channel closes, between the
last chunk and `[DONE]`. Settlement is four statements and no common
transaction: the usage row, a conditional `UPDATE` of the balance, and a
transaction that reads the balance and inserts a ledger row. Async tasks are
submitted by a handler and followed by a pool of workers that share nothing
but the table. Administrators' handlers write tables and then refresh the
router; health checks write the registry at once and the table from goroutines
of their own.

### What is hard

* Calls of one user settle at the same time, after pre-checks that all passed;
  statements fail, or take effect although the caller is told they failed; the
  process dies between two of them; a client retries under its own request id.
* Three goroutines relay a stream over a buffered and an unbuffered channel
  while the client may leave.
* Workers claim nothing: stale polls and late writes meet in one row.
* The limiter's pipeline is not a transaction.
* Every copy of the registry overwrites it, however old.
* A request picks provider, order and credential by queries of their own, while
  administrators change all three and rebuild adapters that everyone shares.
* Key, limits and guardrails are read before a call and what it costs is written
  after it; each check has its own answer to an error, mostly to let go on.
* One check waits for a second connection of a pool while it holds one.
* Administrators read, decide and write in separate statements, against each
  other.

What each component must guarantee:

* **Billing**: a balance never goes below zero and always adds up; a request id
  is charged once; each ledger row tells of a movement that took place; nothing
  that was answered with an error costs anything.
* **Stream relay**: chunks arrive complete and in order; the bill rests on the
  last usage report; `[DONE]` comes after settlement; nothing leaks.
* **Tasks**: an accepted task is stored; a final status is true and stays;
  what ended is reported.
* **Rate limiter**: what gets through a minute is bounded; nobody is rejected in
  a quiet minute.
* **Model router**: no route older than what was being read when the request
  came in; a good provider is not hidden.
* **Settings cache**: no value older than the last acknowledged write, for
  longer than the time to live.
* **Files**: a listed file has its content, a deleted one is reported once.
* **Workflows**: a completed run has done its steps and adds up to their costs;
  caller and callback are told what the row says; an answered run is not left
  running, nor its event undelivered and unsettled, but for named failures.
* **Choice of routes**: no one's key serves anyone else; a revoked key is the
  last resort at most; the order is that of a policy in force.
* **Workspace gate** (keys, limits, guardrails): overspending of limits in force is bounded; a
  revocation holds; texts go out as a policy demands; every call is answered.
* **Invoices** state the charges of their days; **alerts** never go back;
  **audit retention** counts each deletion once and deletes nothing too young for
  every setting it may have met.

`PROJECT.json` lists the hazards with the line where each one bites and the
properties that watch it.

## 2. Modules

| Module | What it is |
|---|---|
| `Totals` | sums of a function over a finite set |
| `PrepaidAccount` | abstract: what an account promises, charges once and covered, credits once |
| `UsageBilling` | handlers and statements of billing; implements `PrepaidAccount` |
| `StreamRelay` | one streamed completion, three goroutines |
| `AsyncJobs` | abstract: a task is told its true outcome once |
| `TaskEngine` | submission, workers, provider, crashes; implements `AsyncJobs` |
| `RequestRate` | checkRPM over a Redis sorted set with a clock |
| `ModelRouter` | the registry for one model and everything that overwrites it |
| `ProviderKeys` | upstream credentials: the table, and which of them a caller gets |
| `RoutingPolicies` | routing policies, scores and the orders they allow |
| `RouteChoice` | how a request orders and equips its routes; composed of the two above |
| `ApiKeys` | keys of the API: create, update in two statements, revoke, validate |
| `WorkspaceRoles` | what membership in a workspace permits |
| `WorkspaceLimits` | budgets and quotas of a workspace and the usage they are compared with |
| `Guardrails` | policies on texts and what they decide |
| `WorkspaceGate` | the way of a call from key to request log; composed of the four above and the connection pool |
| `Invoices`, `Alerts`, `AuditTrail` | their tables and statements |
| `SettingsCache` | one system setting, read through a Redis key with a short life |
| `BackOffice` | administrators' handlers over these tables; composed with `SettingsCache`, through which they change the retention setting and retention runs read it |
| `FileStore` | rows and contents of uploaded files; composed with `SettingsCache`, through which retention runs read their setting |
| `WebhookDelivery` | the callback of a run: a row, a goroutine, up to three requests |
| `WorkflowRuns` | runs, their steps and their sessions; composed with `WebhookDelivery`, through which they announce their outcome |
| `UsageBillingProofs`, `ModelRouterProofs`, `RouteChoiceProofs`, `FileStoreProofs`, `WorkflowRunsProofs`, `BackOfficeProofs` | theorems about the module of that name and their lemmas |
| `AnswerProofs` | theorems about `TaskEngine` and `StreamRelay`, the two ways of an answer to its client |
| `WorkspaceGateProofs` | theorems about `WorkspaceGate` and `RequestRate`, what a call meets before a provider |
| `MC...` | the instances for TLC |

Every module that models code names the code it stands for in `PROJECT.json`
(`map`). Definitions called "mutated form" in comments are variants of the
definition that follows them, with a plausible bug; they are used by no
specification and show that the properties notice.

### UsageBilling

`pc` is where a handler is: `idle`, `calling` (providers, `attempt` is the
index in the fallback loop), `relaying`, `pricing`, `usage`, `deduct`, `insert`
and `commit` (the ledger transaction), `logging`, and three ends: `done`,
`stuck` (a stream whose client left, see StreamRelay) and `lost` (the process
died). One action is one statement, or one branch of the handler between
statements. `...Fails` is a statement that had no effect, `...Unacked` one that
had an effect but returned an error. `usage` is keyed by `request_id`, because
the column is UNIQUE: a duplicate is a failing `INSERT`, and a failing `INSERT`
ends the settlement before the deduction.

Abstractions: amounts are integers and what a call costs is any element of
`Charges`; workspace and project columns are left out; the client's answer is
its status code. `applied` is a history variable for properties.

Seen on the way: `CreateBillingTransaction` takes `balance_after_usd` from a
`SELECT` of its own, so the column is the balance some settlement left and not
always its own row's; and a top-up is acknowledged when the balance has moved,
though its ledger transaction may have failed.

### StreamRelay

Its specification is `RelaySpec` (`RelayInit`, `RelayNext`, `relayVars`), so that
`AnswerProofs` can extend it together with `TaskEngine`.

The provider's answer is any sequence of at most `MaxChunks` chunks, with or
without usage. `Produce` and `SkipChunk` are the scanner loop of the adapter
(32 chunks of buffer; other adapters 10 or 2), `Take`, `HandOver`, `Settle` the
wrapper of `handleStreamChat`, `FlushChunk`, `FlushFails`, `Finish` the writer of
`RelayStream`. A flush to a client that has left may still succeed, since the
server buffers. Settlement is one step here and many in `UsageBilling`.

### TaskEngine

`row` is `async_tasks.status`, `job` the provider's side, `batch` the tasks a
worker holds between its `SELECT` and the end of its loop, `found` a final
status not yet written. Progress and result payloads are left out.

Seen on the way: a job the provider cancels or forgets has no final status, so
its task stays open, is polled for ever and keeps its place in the batch.

### RequestRate

The sorted set is a set of milliseconds (`now`), because the member is made
of the millisecond. `stage` is where a handler is. Its pipeline is four steps
that interleave with other handlers' steps and with the clock; an error after
any of them fails open. A tick stands for some milliseconds, `Minute` ticks for a
minute, and `Patience` is how long a pipeline may take. The seconds of
`Retry-After` in a rejection are left out: no later step reads them. Requests of
one millisecond are one member of the set, so that a burst counts as one. The
token limit is not modelled. The specification is `RateSpec` (`RateInit`,
`RateNext`, `rateVars`).

`OverrunIsBounded` counts milliseconds with an admission in a minute. Beyond the
limit there are three causes, each worth at most one per handler: handlers that
counted before the others had added themselves; a later request that has cut
the window short while they were under way; and the expiry of the key, which
takes entries of the last minute along. The last one was found by an attempt
to prove a tighter bound: `ZADD` does not renew the key's time to live, only the
`EXPIRE` after it does, so that pipelines which break off between the two let
a key with recent members expire.

### ModelRouter

`InForce` is the result of `GetModelProviders`, `registry` the model's entry in
`r.models`. A copy is `ReadModels`, `ReadBindings`, `Assign`. Administrators'
handlers write (`AdminWrite`), then run `initAdapters` and a copy; the listener
runs one when notified; requests run one each and then `Select`. Health answers
are arbitrary, since nothing forces a provider to be consistent. `own`, `seen`,
`kept` and `lasting` are history: which bindings a copy, or a copy it may be
overwritten by, can or must have met.

Abstractions: one model; the locked read of the entry and the copy of its
slice right after are one step; policy order and credentials are in
`RouteChoice`, so here every enabled provider gets an adapter; the status a
provider has when unbound is `unknown`, as for a new row. Reads of the adapter map
without the lock are atomic here: `runHealthChecks` iterates the map while
`initAdapters` in a handler may write it, which the Go runtime may answer with a
fatal error; that would be one more death of the process.

### RouteChoice with ProviderKeys and RoutingPolicies

`pc` of a request is `policy`, `stats` (the two queries of `sortCandidates`), then
for each provider `next` (the shared adapter, under the lock) and `key` (the
query of `GetScopedProviderKeySecretWithMetadata`); `todo` the providers to come,
`held` the adapter read, `routes` the result, each with its secret and the key it
reports. An administrator's goroutine is in `install` (between the rows of a
template), `validate` (between the key and its verdict), or in `initAdapters`:
`providers`, `resolve`, `adapter`. The number of a key stands for its secret;
`NoKey` and `EnvKey` for the empty one and that of the environment. `adapters`
holds, per provider, no adapter or the secret it was built with. `since`,
`measured` and `missed` are history.

Abstractions: one model; the registry is read as the tables are (its delays are
the subject of `ModelRouter`); scores are in tenths and measurements any of a set;
ties may be ordered either way, since the query leaves their order open; no
provider is ever removed.

Seen on the way: `sortCandidates` is called with no workspace, so that policies
of a workspace are stored and never selected; policies are only ever inserted;
media requests are routed without the credentials of their caller; a provider
without a key, and without one in the environment, is still called by the
adapter built with its revoked key.

### WorkspaceGate with ApiKeys, WorkspaceLimits, WorkspaceRoles, Guardrails

`pc` of a handler follows the middlewares: `auth`, then the statements of
`CheckWorkspaceLimits` (`spend`, `budget`, `quotas`, and `rows` while the result of
the third is iterated), `access` (model access, limiter), `record` (the guardrail's
verdict is made and is to be recorded), `provider`, `settle`, `log`. `local` is what
the handler has read. `ConnFree` is the pool: in `rows` a handler keeps a connection
and waits for another. An administrator's update of a key is `ReadKey` and
`WriteKey`, with `job` the copy between them. `waved`, `beyond`, `late`, `demand` and
`withdrawn` are history.

Abstractions: one workspace; a settled call costs one unit; a guardrail sees kinds
of finding; an expired key is one that may or may not be found; what
stops a call for other reasons (balance, routes, providers, limiter) may happen
or not. Who may call administrators' routes is not modelled: `RequireAdmin` has
`RequireJWT` run the handler before it compares the role itself, and no property
depends on the role.

Budgets and quotas are only ever inserted. A new row tightens the limits, but
for one case: `createWorkspaceBudget` does not validate `hard_limit_pct`, and the
check takes the least `amount * hard_limit_pct / 100` of the active monthly rows,
of which a negative result means "no limit". One row with a negative percentage
so takes every monthly budget out of force for good, whatever the others say
(`OverBudget`; `BudgetsOff` in the properties). `Budgets` has such a row in the run,
and percentages are any integers in the theorems. `OvershootIsBounded` therefore
speaks of the limits in force: when a row leaves none that has been reached,
`beyond` starts anew, and with the budgets off it counts the calls beyond quotas
only.

Seen on the way: a budget that is not monthly is stored and compared with
nothing; with as many handlers in the check as the pool has connections all
would wait for ever (`MaxConns = Cardinality(Calls)` deadlocks in TLC; the
code's 25 is taken to be more than the calls at a time).

### BackOffice with Invoices, Alerts, AuditTrail

`job` is the statement an administrator's handler has come to and what it has
read. A transaction bears the day it began and is seen when it commits.
Listing the alerts evaluates the conditions and upserts those that hold. A
change of `audit_log_retention_days` is an upsert, a deletion of the Redis key
whose error is dropped, and a read of the row for the answer. A retention run
reads the setting through that key (`GetRetention` takes one of the steps of
`GetSetting`, `ReadRetention` acts on its answer), lists what has expired up to its
limit and deletes it by id; every handler ends with an audit row, whose failure
nobody is told. A crash ends every call. The same goroutines read and write the
setting, so that `Admins`, `Readers` and `Writers` are one set.

`told` and `untimely` are history, as is the `least` of an invoice: the charges
committed when it was asked for. So is `met` of a run: the settings that were in
force within one life of the key and one fill before it began (`Lingering`), and
those set since. A run may go by a setting that was superseded, with an
acknowledged answer, before it began, because the deletion of the key may have
failed, or a fill that read earlier may have written the key after it; `met` is
what bounds how old. With the setting in force at the start alone in place of
`Lingering`, TLC finds rows deleted that this setting keeps.

Seen on the way: a charge that commits after the sum of its day's invoice is on no
invoice unless another is made; nothing keeps two invoices of one period apart;
an alert that was resolved stays so when its condition comes back; an
acknowledgement whose row cannot be read again is answered 404 and not audited,
though it took effect.

### SettingsCache and FileStore

`cached` is the Redis key and `left` the ticks it has to live; `reading` is where
a read is: `get` (Redis), `query` (the row), `fill` (Redis again). A write is an
upsert and a deletion of the key. `since` is history: how long ago a value was
in force, up to a cap, so that time needs no bound. Errors of Redis are dropped
as in the code; `doubt` records the three things that may leave an old value in
the key after a write: a fill that had read before it, a lost deletion, and a
write whose answer was lost.

`FileStore` extends `SettingsCache`: the readers are retention runs, the setting is
`file_retention_days`. `upload`, `deletion` and `run` are where the handlers are;
one action is one statement or one call of the directory. A statement that fails
may have taken effect (`...Unacked`, and the second case of `...Fails`). `mishap`
collects the files whose row and content a failure parts: the row is there but
`CreateFileRecord` returned an error, a removal failed (that of `Put` after an
upload that broke off, too), a mark took effect unnoticed, the process died in
between. Nothing else parts them. At the start Redis may hold the key already.

Abstractions: one key of many; a file's age is in whole days, and a day does not
end within an upload; a run lists every expired file, in no order, rather than
the oldest hundred; the checks before an upload are one refusal; downloads and
listings, which change nothing, are left out.

### WorkflowRuns and WebhookDelivery

`pc` is where the handler of a run is: `create` (the row), `step` (a prompt, a
tool or a transform), `record` (its row), `fail`, `touch` (the session), `announce`
(delivery and answer), and the ends `done`, `refused`, `lost`. `spent` is the
handler's running sum, `total` the column. `sender` is the goroutine of a
delivery, `attempt` its loop variable, `attempts` the column. `posts` and `heard`
are history: what the callback was sent and has received; a request without a good answer
may have arrived. `doubted` collects the runs whose first or last `UPDATE` failed,
`mislaid` the deliveries whose `INSERT` or last `UPDATE` did; both errors are
dropped by the code, so nothing makes up for them.

Abstractions: which runs have a callback is a constant; a step is its outcome
and its cost, since inputs, outputs and traces decide nothing else; all runs
have the same number of steps; the marshalling of the event, which cannot fail
for its type, is left out. What a redirect makes the HTTP client post again is
part of one attempt: `posts` counts calls of the client.

Building the request can fail: `validWebhookCallbackURL` accepts what parses as a
request URI, which has no fragment, while `http.NewRequest` parses a URL and
rejects, for instance, `http://h/?q#%zz`. `Unparsable` are the runs with such a
callback. The loop is then left before anything was sent (`NoRequest`), yet the
row says `failed` after three attempts; `DeliveryTellsTheTruth` makes this one
exception.

Seen on the way, and in the model as the code does it: the row of a failed run
has a total of 0 whatever its steps have cost, because the struct that the
`INSERT` filled is what is saved; a closed session may still get a last run, from
one that was under way; prompts in a workflow are not billed to the account.

## 3. Runs

Times are for two workers on a small machine.

| Run | Instance | Shows |
|---|---|---|
| `billing_race` | one user with balance 2; a chat and a streamed call costing 0, 1 or 2; a top-up; two routes; faults and crashes. 233,576 states | no overdraft, conservation, ledger truth, free errors, implementation of `PrepaidAccount` |
| `billing_retry` | two calls under one request id, a media call and the registration of another user; no faults; fair. 82,176 states | one charge per request id, no forgotten movement, every handler ends |
| `route_choice` | two providers, one of them from a template; a request, an administrator, a user and a workspace; two keys, two policies, two writes; no key in the environment; faults; fair health checks. 373,880 states | private keys stay private, the credential is in force, the order is a policy's, a provider comes back |
| `workspace_gate` | two handlers, one that streams and one whose statements may fail; one key, an administrator whose updates may bind it to the workspace; a budget of 1, one of -100 percent, a quota of one request a minute, a policy that masks and blocks; a pool of 3; fair. 342,776 states, two minutes and a quarter | bounded overshoot of limits in force, revocation holds, guardrails are obeyed, every call ends |
| `back_office` | two administrators, two calls; one event (a transaction or a change of a condition), three days, adjacent and spanning periods; one provider; an administrator may void an invoice; retention of 0 or 1 day, a key that lives one tick and a fill of one; runs of 1 or 10 rows; faults and crashes; symmetric in the administrators. 1,386,156 states, a minute | invoices state their periods, alerts only advance, retention tells the truth |
| `stream_whole` | up to 3 chunks, buffer 2, two routes; fair. 13,849 states | order, completeness and settlement before `[DONE]`, the right bill, the relay ends |
| `stream_abandoned` | the same, fair | **violation**: a stream whose client leaves is never settled |
| `tasks_work` | 2 tasks, 2 workers, batches of 1, one crash; fair. 26,753 states | stored, implementation of `AsyncJobs`, reported |
| `rate_race` | 2 handlers, limit 2, a minute of 7 ticks, 18 ticks, Redis faults; it starts two ticks before the key expires. 589,453 states | types, bounded overrun, rejection only in a busy minute |
| `router_refresh` | 1 provider, a request, an administrator, the listener, health checks, database faults; 3,789,576 states, over two minutes | recent routes, complete routes |
| `file_retention` | one file, a deletion, two retention runs, a writer of the setting (0 or 1 day), a key that lives 2 ticks, faults and crashes; symmetric in the runs. 2,714,168 states | rows and contents agree but for named failures, one report per deletion, bounded staleness, freshness but for named causes |
| `workflow_runs` | two runs of two steps, one with a callback, which may be one that no request can be made of; one session; faults and crashes. 1,354,764 states | completed runs add up, outcome told is outcome stored, truthful deliveries, sessions point to completed runs, answered runs are closed |

The violation is a disagreement between the code and a sentence of the
repository; `PROJECT.json` quotes both.

Why the bounds are enough: in billing two handlers suffice for every pair of
statements to interleave in both orders, and three charges to have one that is
free, one that is covered and one that is not; the theorems of section 4 remove
the bound altogether. Three chunks through a channel of two reach a full
channel, a chunk in each stage and one still unread. Two tasks and batches of
one reach starvation by an older task; two workers reach the double poll. In the
rate limiter the interesting minute is the one in which the key expires, two
minutes after the last complete pipeline; reaching it from `RateInit` takes more
ticks than TLC has time for, so `MCInit` is a state on the way there: one
request went through at 0, the pipelines of two more broke off after `ZADD`. A
limit of two tells milliseconds from requests. The theorems are about
`RateInit`, of any minute. In the router everything is finite: goroutines come
back and no counter is bounded. One provider is enough because entries of
different providers do not influence each other in a copy; three goroutines give
a copy that overtakes another. Files do not influence each other either; two
runs give a fill that another run hits, and a race for one mark. Both are proved
for any number. Workflow runs meet only in their session and in a crash, and two
steps give a failure before and after a completed one; three requests per
delivery are the code's own number. In the choice of routes two writes give
every pair of a change and the change it undoes or overtakes around one request,
since requests do not influence each other; that one `initAdapters` overtakes
another is left to the theorem on private keys. In the gate two handlers are the
least that pass a limit together, and a pool of three the least in which none
waits for ever; budget and quota of one are reached by the first call. Two calls
of administrators meet in each pair of statements: two invoices, a change of the
setting during a run, two runs at once. A run that goes by a superseded setting
takes two calls: Redis may hold the setting from the start, and a change that
loses its deletion or its answer leaves it there; the delayed fill, which takes
a third call here, is in `file_retention` and in the theorem. Three days have
one before, between and after a period's ends, and one transaction may be on
either side of each sum.

`MaxTime` and `MaxPerTick` (RequestRate), `MaxCrashes` (TaskEngine),
`MaxChunks` (StreamRelay), `MaxWrites`, `MaxKeys` and `MaxPolicies` (RouteChoice),
`MaxSettled`, `MaxWaved` and `MaxLogged` (WorkspaceGate), `MaxCalls`, `MaxEvents` and
`MaxTransactions` (BackOffice) are bounds on counters, `MaxAge` (FileStore) and `MaxDay`
(BackOffice) on days. The rate run says `CHECK_DEADLOCK FALSE`: it stops at `MaxTime`. All others check deadlock; where
the system may rest, a stuttering action with a guard says so.

Fairness: `UsageBilling!FairSpec` has weak fairness of each handler's next
step, as goroutines are scheduled and statements return. `FairRelaySpec` of `StreamRelay`
has it for each goroutine; that the response ends is due to the HTTP client's
timeout. `TaskEngine!FairSpec` adds strong fairness of a poll and of an `UPDATE`
that are tried again and again (the ticker of five seconds), and assumes
nothing of the provider's jobs. `WorkspaceGate!FairSpec` has it for each step of a
call that came in; `RouteChoice!FairSpec` for the health checks only, which a ticker
repeats. Clients' and administrators' actions are never fair.

## 4. Proofs

All theorems are for every value of the constants that satisfies the named
assumptions of the modules (`BillingConstants`, `TaskConstants`,
`RouterConstants`, ...).

**Billing** (`UsageBillingProofs`): `TypeCorrect`, `NoOverdraft`, `Conservation`,
`ChargedOnce`, `LedgerIsTruthful`, `EveryMovementIsLedgered`, `NothingForAnError` and
`Implementation`. Three invariants carry them.

`Stages` is what the place of a handler tells of the tables: a call at `deduct`
owns the usage row of its request id and has not been applied; an applied call
owns it too, and is past the deduction; an operation at `insert` or `commit`
has moved the balance and has no ledger row yet. `ChargedOncePerRequestId` and
`LedgerTellsTheTruth` are not inductive without it: only through `Stages` does
the UNIQUE column of one table carry over to the balance in another.

`Balances` is `NeverOverdrawn`, `BalanceConserved` and the finiteness of the sums.
`BalanceConserved` alone is not inductive, since a deduction must not be taken
twice; `Stages` says so. `Totals` defines a sum as the cardinality of a set of
units, and the lemmas `TotalOver...` show from the library's theorems about
cardinality what one more operation does to it. They stand in both modules that
need them, this one and `WorkflowRunsProofs`.

`ErrorStages` is for `ErrorsAreFree`: a call has no usage row before the stage that
writes it, and an error answer is given only in the stages before and is the last
thing a handler does. The duplicate request id is the case that matters: the row
is another call's, so the call without one is told apart from the id with one.

`Implementation` maps `charged` of `PrepaidAccount` to the usage rows of applied
calls; each step is shown to be a charge, a credit or a stutter.

**Tasks** (`AnswerProofs`): `TypeCorrect`, `AcceptedStored`, `FinalTrue` and
`Implementation`. `FinalIsTrue` is not inductive, because an `UPDATE` writes
without looking. `IInv` adds that a status a worker has `found` is the outcome of
the task at hand (`Worked`), that no two rows have one age, so the task at
hand is one task (`Ages`), and what submission and job say of a row (`Submitted`,
`Recorded`): a write that comes late writes what is already true.

**Router** (`ModelRouterProofs`): `TypeCorrect`, `RoutesRecent` and
`RoutesComplete`, for any number of goroutines and providers, where TLC has one
provider. The two properties speak of requests that are routed; the invariant
`IInv` follows what they rest on back to the tables. `Met`: what is in force now
is in `own` of each copy under way, and what is in its `kept` is good now.
`MetBy`: the same of a request, which has also met what those copies met; here
a copy that was read long ago and will overwrite the registry is accounted for
before it does so. `Copied`: what a goroutine has read lies between `kept` and
`own`. `Current`: so does the registry, between `lasting` and `seen`, from the
request's own assignment until it selects. The step that matters is somebody
else's `Assign` in that time: by `MetBy` its copy keeps `Current`.

**Choice of routes** (`RouteChoiceProofs`): `TypeCorrect`, `PrivateStays`,
`CredentialInForce` and `OrderOfAPolicyInForce`, for any providers, owners, requests, administrators and keys. That no route carries a
stranger's key is not inductive, since a request uses adapters it did not build.
`ChoiceInv` adds what outlives requests and keys: `Common` are the secrets that may
serve everyone (none, the environment's, those of rows the platform owns);
`AdaptersShared` says that adapters hold only these, `AdminShape` that so does what
`initAdapters` carries between its statements, however old, and `RequestShape` that
so does the adapter a request has read. It rests on two facts about the tables:
a row never changes its owner (`KeysKept`), and the query returns a row of the
caller or of the platform (`ScopedKeyOwner`).

The other two speak of the past: which keys were active, and which policies were in
force, at some time since the request came in. `HistoryInv` adds to `ChoiceInv` what
relates a request to that time (`RequestHistory`): the table of keys is a later one of
the table it came in with, in which rows were added and revoked (`Outdates`); the
policy and the order it holds are those of some state of the policies since; and
each route it has collected satisfies `InForceFor` the tables now and then.
The step that matters is somebody else's revocation or new key: it moves keys out of
those that lasted and into those that lived, never the other way, so `InForceFor`
survives. The lemmas on the query and the sort take the first row of an ordered
table from the library's theorem on well-founded relations (`LeastThereIs`).

**Gate** (`WorkspaceGateProofs`): `TypeCorrect`, `OvershootBounded`, `RevokedStays` and
`GuardrailsHold`, for any handlers, keys, limits, policies, pool and faults. Each has an
invariant of its own. `Withheld`: a withdrawn key is inactive, and so is every copy an
update may still write back. `Screened`: before the guardrails ran a call has no
marks, and the policy it will meet is among those in force since; afterwards
its marks are those of one of them. `Overshot`: a handler whose call is `Loose`,
that is past every comparison which would stop it, still has its one row to
give; the step that matters is a usage row of another handler that reaches the
limit, before which nobody has gone beyond (`beyond` is zero). Percentages are
any integers: that a limit once reached stays so rests on the budgets' staying as they are
within the month (`SpendGrows`, `ReachedGrows`); a new row may lift it, and then
`beyond` is zero again.

**Setting and files** (`FileStoreProofs`). `SettingInv` is
inductive for each step of the setting, in whatever system it is taken: `Aged`
says that what waits to fill the key is no older than its wait, and the key no
older than what it has lived and that wait, which adds up to `StaleIsBounded`;
`Undoubted` that without a doubt both are the setting, unless a write is about to
delete the key. `SettingStep` shows that every step of `FileStore` is a step of
the setting or leaves it alone, so the results hold for the composition.
`FileInv` has two parts: `Stored`, that content is there from before the row until
after its mark and that who removes it has marked the row, which gives
`AckedKept` and `DeletedOnce`; and `Matched`, which says where row and content may
differ, and gives `ContentFollows`. Steps are proved by what they do to a file
(`MarkKeeps`, `RemoveKeeps`, `NothingKeeps`), shared by deletions and runs.

**Workflows** (`WorkflowRunsProofs`), for any number of runs, sessions and steps:
the type invariant and all five properties. `Progress` says that the steps before
the one that is up are completed and that what was spent is what they cost, plus
the step that waits for its row; after the last step this is `AddsUp`.
`Handled` ties row, words and delivery to the place of the handler, `Delivered`
the delivery to its goroutine. `OutcomeIsTold` needs both: a callback can hear of
a run only once its goroutine was started, which `Announce` does after the
outcome is fixed. `SessionPointsToCompleted` follows from `Noted` and
`ToldStands`: a run told as completed is never written again. Since the actions
name one run, `OthersApart` shows once that they leave every other one alone.

**Stream relay** (`AnswerProofs`), for answers and channels of any length: the
type invariant and its three safety properties. `ChunksFlowInOrder` is inductive
as it stands. The bill needs more: `Waiting` says that the channel holds the
chunks after those taken, and `Remembered` that the remembered report is that of
the last chunk with one among those taken; `Settled` that the wrapper settles
only when all are taken. A broken response ends the script early and changes
nothing in this.

**Back office** (`BackOfficeProofs`): `InvoicesAreOfTheirPeriods`, `RetentionIsTrue` and
`AlertsNeverGoBack`, for any administrators, transactions, days, periods and
faults. `OfficeInv` says what a job between two statements may still do:
`InvoiceJob`, that the sum read for an invoice lies between the charges of its days
when it was asked for and those committed by now, which only grow
(`InvoicesAddUp` says the same of the rows); `RetentionJob`, that all a waiting run
may still be answered (`Lingering`) is in its `met`, and so is the answer, and all
it has listed is older than that. The setting's own invariant, `SettingInv` of
`FileStoreProofs`, is part of `OfficeInv`: by it key and fills hold nothing that does not
linger, and nothing comes to linger but what is set. `DeletionsAddUp`
counts what was told and what jobs under way have yet to tell (`Untold`) against
the rows that are gone: no run counts a row that another has deleted.
`AlertsOnlyAdvance` is an action property: each step is shown to upsert,
acknowledge or resolve one alert, or none, and none of these takes it back.

**Rate limiter** (`WorkspaceGateProofs`): `RateTypeCorrect`, `OverrunBounded` and
`RejectedBusy`, for any handlers, limit, minute and faults. `RateInv` was checked by
TLC on the instance of `rate_race` before it was proved. `CountsAreTrue`: each member
of the set is a request that was added, and a count in a handler's hands is at
most the requests of its minute and beside it. `KeyLives`: a key with members does
not expire until two minutes after whoever got through. Every minute is `Whole` or
`CutShort`: as long as no later request has removed from it, what got through or
will is in the set, but for at most one per handler (`Taken`), so that a count
below the limit bounds all admissions; once one has, only handlers in flight can
add to it, one fewer than there are. That a pipeline has `Patience` less than
`Minute` is what makes an expiry harmless for a minute with admissions: nobody
is in flight in it any more.

**Only model-checked**: everything temporal beyond `[]` (liveness, fairness:
`HandlersEnd`, `ProviderComesBack`, `EveryCallEnds`, `RelayEnds`, `EndedIsReported`),
which the prover does not reach, and the violation of `EveryStreamSettled`. Every
invariant, every action property and both refinements that a passing run checks
are theorems.

## 5. Not modelled, and the plan

Done, in this order: UsageBilling with PrepaidAccount, StreamRelay, TaskEngine
with AsyncJobs, RequestRate, ModelRouter, SettingsCache and FileStore,
WorkflowRuns with WebhookDelivery, WorkspaceGate with keys, limits and
guardrails, BackOffice with invoices, alerts and audit retention, RouteChoice with
keys and policies, and the proofs of section 4.

What could follow, most important first:

1. The token limit (checkTPM), whose counter has its expiry renewed by each call.
2. Prices and their history, from which a call's charge is calculated.
3. A composition of `ModelRouter` and `RouteChoice`, beyond TLC's reach as they are.

Left out for good: wire formats and vendor translations, the frontend, the
charts and scripts, metrics and log rows, passwords and sessions, descriptive
CRUD (prompt templates, clusters, benchmarks, alert rules): pure input and
output, or rows no other step reads. Also below the level of the model: decimal
rounding, the reuse of request buffers by the HTTP library, and unsynchronised
map accesses of the Go runtime.
