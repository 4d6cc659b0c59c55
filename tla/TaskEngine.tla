----------------------------- MODULE TaskEngine -----------------------------
(***************************************************************************)
(* Asynchronous image and video tasks: submission by a request handler,    *)
(* and a pool of workers that poll the provider for the oldest open tasks. *)
(*                                                                         *)
(* Workers claim nothing: all of them read the same rows of async_tasks,   *)
(* poll the provider with no lock held, and write what they found without  *)
(* looking at the row again.  The process may die and be started again;    *)
(* rows and the provider's jobs outlive it.                                *)
(***************************************************************************)
EXTENDS Naturals, FiniteSets

CONSTANTS
  Tasks,        \* submissions
  Workers,
  Batch,        \* how many open tasks a worker fetches: 5
  MaxCrashes    \* bound on the deaths of the process

ASSUME TaskConstants == Batch \in Nat \ {0} /\ MaxCrashes \in Nat /\ IsFiniteSet(Tasks)

VARIABLES
  submission,   \* the request handler: idle, created, accepted, refused or lost
  job,          \* the provider's job
  outcome,      \* history: how the job ended, in the row's words
  row,          \* async_tasks.status, "none" without a row
  born,         \* async_tasks.created_at, 0 without a row
  batch,        \* the tasks a worker has fetched and not dealt with
  found,        \* the final status a worker has found and not written
  crashes

vars == <<submission, job, outcome, row, born, batch, found, crashes>>

JobStates == {"none", "running", "succeeded", "failed", "canceled", "unknown"}
OpenStatuses == {"pending", "submitted", "processing"}
FinalStatuses == {"completed", "failed"}

Init ==
  /\ submission = [t \in Tasks |-> "idle"]
  /\ job = [t \in Tasks |-> "none"]
  /\ outcome = [t \in Tasks |-> "none"]
  /\ row = [t \in Tasks |-> "none"]
  /\ born = [t \in Tasks |-> 0]
  /\ batch = [w \in Workers |-> {}]
  /\ found = [w \in Workers |-> "none"]
  /\ crashes = 0

-----------------------------------------------------------------------------
(* Submit. *)

\* No route, the provider refuses, or the model is neither image nor video:
\* the client gets 502.
SubmitRefused(t) ==
  /\ submission[t] = "idle"
  /\ submission' = [submission EXCEPT ![t] = "refused"]
  /\ UNCHANGED <<job, outcome, row, born, batch, found, crashes>>

\* The provider takes the job.
SubmitUpstream(t) ==
  /\ submission[t] = "idle"
  /\ submission' = [submission EXCEPT ![t] = "created"]
  /\ job' = [job EXCEPT ![t] = "running"]
  /\ UNCHANGED <<outcome, row, born, batch, found, crashes>>

Rows == {t \in Tasks : row[t] # "none"}

\* The INSERT of the row, younger than all others.
InsertTask(t) ==
  /\ row' = [row EXCEPT ![t] = "submitted"]
  /\ born' = [born EXCEPT ![t] = Cardinality(Rows) + 1]

\* The row is stored and the client gets 202 and the task's id.
CreateTask(t) ==
  /\ submission[t] = "created"
  /\ InsertTask(t)
  /\ submission' = [submission EXCEPT ![t] = "accepted"]
  /\ UNCHANGED <<job, outcome, batch, found, crashes>>

\* Mutated form: the error of the INSERT is dropped.
CreateTaskFailsSilently(t) ==
  /\ submission[t] = "created"
  /\ submission' = [submission EXCEPT ![t] = "accepted"]
  /\ UNCHANGED <<job, outcome, row, born, batch, found, crashes>>

\* The INSERT fails, or only its answer is lost: the client gets 502 while the
\* job runs on.
CreateTaskFails(t) ==
  /\ submission[t] = "created"
  /\ InsertTask(t) \/ UNCHANGED <<row, born>>
  /\ submission' = [submission EXCEPT ![t] = "refused"]
  /\ UNCHANGED <<job, outcome, batch, found, crashes>>

-----------------------------------------------------------------------------
(* The provider. *)

\* What the engine makes of the provider's words: others than the known ones
\* are kept as they are, and are not final.
normalizeTaskStatus(s) ==
  CASE s = "succeeded" -> "completed"
    [] s = "running" -> "processing"
    [] OTHER -> s

\* A job ends or is canceled; some time after it is over, the provider forgets
\* it and answers UNKNOWN.
JobMoves(t) ==
  /\ \/ job[t] = "running"
        /\ \E s \in {"succeeded", "failed", "canceled"} :
             /\ job' = [job EXCEPT ![t] = s]
             /\ outcome' = IF s = "canceled" THEN outcome
                           ELSE [outcome EXCEPT ![t] =
                                   IF s = "failed" THEN "failed" ELSE "completed"]
     \/ job[t] \in {"succeeded", "failed", "canceled"}
        /\ job' = [job EXCEPT ![t] = "unknown"]
        /\ UNCHANGED outcome
  /\ UNCHANGED <<submission, row, born, batch, found, crashes>>

-----------------------------------------------------------------------------
(* Workers. *)

OpenTasks == {t \in Tasks : row[t] \in OpenStatuses}
Older(t) == {d \in OpenTasks : born[d] < born[t]}

\* Mutated form: ORDER BY created_at DESC.
GetNewestPendingTasks ==
  {t \in OpenTasks : Cardinality({d \in OpenTasks : born[d] > born[t]}) < Batch}

\* The Batch oldest open tasks.
GetPendingTasks == {t \in OpenTasks : Cardinality(Older(t)) < Batch}

\* The ticker fires.
Fetch(w) ==
  /\ batch[w] = {} /\ GetPendingTasks # {}
  /\ batch' = [batch EXCEPT ![w] = GetPendingTasks]
  /\ UNCHANGED <<submission, job, outcome, row, born, found, crashes>>

\* The worker goes through its batch from the oldest task on.
AtHand(w, t) == t \in batch[w] /\ \A d \in batch[w] : born[t] <= born[d]

Drop(w, t) == batch' = [batch EXCEPT ![w] = @ \ {t}]

\* Mutated form: whatever the provider answers is written.
PollThenWrite(w, t) ==
  /\ AtHand(w, t) /\ found[w] = "none"
  /\ found' = [found EXCEPT ![w] = normalizeTaskStatus(job[t])]
  /\ UNCHANGED <<submission, job, outcome, row, born, batch, crashes>>

\* The provider answers.  Only a final status is written.
Poll(w, t) ==
  /\ AtHand(w, t) /\ found[w] = "none"
  /\ LET status == normalizeTaskStatus(job[t]) IN
       IF status \in FinalStatuses
         THEN found' = [found EXCEPT ![w] = status] /\ UNCHANGED batch
         ELSE Drop(w, t) /\ UNCHANGED found
  /\ UNCHANGED <<submission, job, outcome, row, born, crashes>>

\* The router has no adapter for the provider, or the poll fails.
PollFails(w, t) ==
  /\ AtHand(w, t) /\ found[w] = "none"
  /\ Drop(w, t)
  /\ UNCHANGED <<submission, job, outcome, row, born, found, crashes>>

\* The UPDATE, whatever the row says by now.
UpdateTaskStatus(w, t) ==
  /\ AtHand(w, t) /\ found[w] # "none"
  /\ row' = [row EXCEPT ![t] = found[w]]
  /\ found' = [found EXCEPT ![w] = "none"]
  /\ Drop(w, t)
  /\ UNCHANGED <<submission, job, outcome, born, crashes>>

\* The UPDATE fails: the task stays open, for a later poll.
UpdateFails(w, t) ==
  /\ AtHand(w, t) /\ found[w] # "none"
  /\ found' = [found EXCEPT ![w] = "none"]
  /\ Drop(w, t)
  /\ UNCHANGED <<submission, job, outcome, row, born, crashes>>

-----------------------------------------------------------------------------
\* The process dies and is started again.
Crash ==
  /\ crashes < MaxCrashes
  /\ crashes' = crashes + 1
  /\ submission' = [t \in Tasks |-> IF submission[t] = "created" THEN "lost"
                                    ELSE submission[t]]
  /\ batch' = [w \in Workers |-> {}]
  /\ found' = [w \in Workers |-> "none"]
  /\ UNCHANGED <<job, outcome, row, born>>

Submit(t) == SubmitRefused(t) \/ SubmitUpstream(t) \/ CreateTask(t) \/ CreateTaskFails(t)

pollTasks(w) ==
  \/ Fetch(w)
  \/ \E t \in Tasks : Poll(w, t) \/ PollFails(w, t) \/ UpdateTaskStatus(w, t) \/ UpdateFails(w, t)

\* No open task, no submission, nothing for the provider to do.
Idle ==
  /\ OpenTasks = {} /\ \A w \in Workers : batch[w] = {}
  /\ UNCHANGED vars

Next ==
  \/ \E t \in Tasks : Submit(t) \/ JobMoves(t)
  \/ \E w \in Workers : pollTasks(w)
  \/ Crash
  \/ Idle

Spec == Init /\ [][Next]_vars

\* Workers run on; a poll or an UPDATE that is tried again and again succeeds
\* some time.  Nothing is assumed of the provider's jobs.
FairSpec ==
  /\ Spec
  /\ \A w \in Workers :
       /\ WF_vars(pollTasks(w))
       /\ \A t \in Tasks : SF_vars(Poll(w, t)) /\ SF_vars(UpdateTaskStatus(w, t))

-----------------------------------------------------------------------------
(* Properties. *)

TypeOK ==
  /\ submission \in [Tasks -> {"idle", "created", "accepted", "refused", "lost"}]
  /\ job \in [Tasks -> JobStates]
  /\ outcome \in [Tasks -> FinalStatuses \cup {"none"}]
  /\ row \in [Tasks -> {"none", "submitted"} \cup FinalStatuses]
  /\ born \in [Tasks -> Nat]
  /\ batch \in [Workers -> SUBSET Tasks]
  /\ found \in [Workers -> FinalStatuses \cup {"none"}]
  /\ crashes \in 0..MaxCrashes

\* A client that got an id can read its task, whatever happens to the process
\* afterwards, and the provider has a job for it.
AcceptedIsStored ==
  \A t \in Tasks : submission[t] = "accepted" => row[t] # "none" /\ job[t] # "none"

\* A final status is how the job ended, although the poll that found it may be
\* old, and was written without looking.
FinalIsTrue == \A t \in Tasks : row[t] \in FinalStatuses => row[t] = outcome[t]

Jobs == INSTANCE AsyncJobs WITH told <- row

\* Workers, stale polls, slow writes and crashes together implement the promise
\* to clients: a final status is true, and never taken back or changed.
ImplementsJobs == Jobs!Spec

\* A batch or more of older tasks is open.
Crowded(t) == Cardinality(Older(t)) >= Batch

\* A job that ended is reported, unless the provider forgets it first or older
\* open tasks fill every batch.
EndedIsReported ==
  \A t \in Tasks :
    row[t] = "submitted" /\ job[t] \in {"succeeded", "failed"}
      ~> row[t] \in FinalStatuses \/ job[t] = "unknown" \/ Crowded(t)
=============================================================================
