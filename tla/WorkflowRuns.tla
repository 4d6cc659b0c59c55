----------------------------- MODULE WorkflowRuns -----------------------------
(***************************************************************************)
(* Runs of workflows.  A handler inserts a run, executes the steps of the   *)
(* workflow one after the other with a row for each, completes the run or  *)
(* marks it as failed, notes it in its agent session, and announces the    *)
(* outcome to the caller and to a callback (WebhookDelivery).              *)
(***************************************************************************)
EXTENDS WebhookDelivery, Totals

CONSTANTS
  Hooked,     \* the runs that are asked for with a callback
  Sessions,   \* agent sessions
  NoSession,  \* a run without one
  NoRun,      \* a session without last run
  NumSteps,   \* steps of the workflow
  Costs       \* what a prompt step may cost; tools and transforms cost 0

ASSUME WorkflowConstants ==
  /\ NumSteps \in Nat \ {0} /\ Costs \subseteq Nat
  /\ Hooked \subseteq Runs /\ NoSession \notin Sessions /\ NoRun \notin Runs

Steps == 1 .. NumSteps

VARIABLES
  pc,         \* where the handler of a run is: idle, create, step, record,
              \* fail, touch, announce, done, refused, lost
  row,        \* workflow_runs.status, or none
  total,      \* its total_cost_usd
  next,       \* the step that is up
  outcome,    \* [status, cost] of the step just executed
  spent,      \* totalCost of executeWorkflow
  stepStatus, \* workflow_run_steps.status of each step, or none
  stepCost,   \* its cost_usd
  joined,     \* the session a run was asked to take place in
  told,       \* the outcome the caller and the callback are told, or none
  session,    \* agent_sessions.status, or none
  lastRun,    \* its last_run_id
  doubted     \* history: runs whose row a failed statement left behind

handlerVars == <<pc, next, outcome, spent, joined, told>>
rowVars == <<row, total, stepStatus, stepCost>>
sessionVars == <<session, lastRun>>
vars == <<handlerVars, rowVars, sessionVars, doubted, deliveryVars>>

NoOutcome == [status |-> "none", cost |-> 0]

Init ==
  /\ DeliveryInit
  /\ pc = [r \in Runs |-> "idle"]
  /\ row = [r \in Runs |-> "none"] /\ total = [r \in Runs |-> 0]
  /\ next = [r \in Runs |-> 1] /\ outcome = [r \in Runs |-> NoOutcome]
  /\ spent = [r \in Runs |-> 0]
  /\ stepStatus = [r \in Runs |-> [i \in Steps |-> "none"]]
  /\ stepCost = [r \in Runs |-> [i \in Steps |-> 0]]
  /\ joined = [r \in Runs |-> NoSession]
  /\ told = [r \in Runs |-> "none"]
  /\ session = [s \in Sessions |-> "none"] /\ lastRun = [s \in Sessions |-> NoRun]
  /\ doubted = {}

Goto(r, place) == pc' = [pc EXCEPT ![r] = place]

-----------------------------------------------------------------------------
(* Agent sessions. *)

\* userCreateAgentSession; whether it is told of does not matter here.
CreateAgentSession(s) ==
  /\ session[s] = "none"
  /\ session' = [session EXCEPT ![s] = "active"]
  /\ UNCHANGED <<handlerVars, rowVars, lastRun, doubted, deliveryVars>>

\* Runs that are under way in it go on.
CloseAgentSession(s) ==
  /\ session[s] = "active"
  /\ session' = [session EXCEPT ![s] = "closed"]
  /\ UNCHANGED <<handlerVars, rowVars, lastRun, doubted, deliveryVars>>

-----------------------------------------------------------------------------
(* userRunWorkflow. *)

\* The session must be active; only this check looks at its status.
Request(r, s) ==
  /\ pc[r] = "idle"
  /\ s # NoSession => session[s] = "active"
  /\ joined' = [joined EXCEPT ![r] = s]
  /\ Goto(r, "create")
  /\ UNCHANGED <<next, outcome, spent, told, rowVars, sessionVars, doubted, deliveryVars>>

\* Bad input, no permission, no such workflow or no active session.
Refuse(r) ==
  /\ pc[r] = "idle"
  /\ Goto(r, "refused")
  /\ UNCHANGED <<next, outcome, spent, joined, told, rowVars, sessionVars, doubted, deliveryVars>>

CreateWorkflowRun(r) ==
  /\ pc[r] = "create"
  /\ row' = [row EXCEPT ![r] = "running"]
  /\ Goto(r, "step")
  /\ UNCHANGED <<next, outcome, spent, joined, told, total, stepStatus, stepCost>>
  /\ UNCHANGED <<sessionVars, doubted, deliveryVars>>

\* The answer is 500; if the row is there after all, it stays as it is.
CreateWorkflowRunFails(r) ==
  /\ Faults /\ pc[r] = "create"
  /\ \/ UNCHANGED row
     \/ row' = [row EXCEPT ![r] = "running"]
  /\ doubted' = doubted \cup {r}
  /\ Goto(r, "refused")
  /\ UNCHANGED <<next, outcome, spent, joined, told, total, stepStatus, stepCost>>
  /\ UNCHANGED <<sessionVars, deliveryVars>>

-----------------------------------------------------------------------------
(* executeWorkflow. *)

\* A prompt is answered, a tool or a transform done, or the step fails; its
\* cost is counted at once.
ExecuteStep(r) ==
  /\ pc[r] = "step" /\ next[r] \in Steps
  /\ \E o \in [status : {"completed"}, cost : Costs]
              \cup {[status |-> "failed", cost |-> 0]} :
       /\ outcome' = [outcome EXCEPT ![r] = o]
       /\ spent' = [spent EXCEPT ![r] = @ + o.cost]
  /\ Goto(r, "record")
  /\ UNCHANGED <<next, joined, told, rowVars, sessionVars, doubted, deliveryVars>>

\* The row of the step that is up.
InsertStep(r) ==
  /\ stepStatus' = [stepStatus EXCEPT ![r][next[r]] = outcome[r].status]
  /\ stepCost' = [stepCost EXCEPT ![r][next[r]] = outcome[r].cost]

\* Mutated form: a failed step does not end the run.
RecordStepAndGoOn(r) ==
  /\ pc[r] = "record"
  /\ InsertStep(r)
  /\ outcome' = [outcome EXCEPT ![r] = NoOutcome]
  /\ next' = [next EXCEPT ![r] = @ + 1] /\ Goto(r, "step")
  /\ UNCHANGED <<spent, joined, told, row, total, sessionVars, doubted, deliveryVars>>

\* RecordWorkflowRunStep.  A failed step ends the run.
RecordStep(r) ==
  /\ pc[r] = "record"
  /\ InsertStep(r)
  /\ outcome' = [outcome EXCEPT ![r] = NoOutcome]
  /\ IF outcome[r].status = "completed"
       THEN next' = [next EXCEPT ![r] = @ + 1] /\ Goto(r, "step")
       ELSE UNCHANGED next /\ Goto(r, "fail")
  /\ UNCHANGED <<spent, joined, told, row, total, sessionVars, doubted, deliveryVars>>

\* Mutated form: the handler gives up at once.
RecordStepGivesUp(r) ==
  /\ Faults /\ pc[r] = "record"
  /\ outcome' = [outcome EXCEPT ![r] = NoOutcome]
  /\ Goto(r, "done")
  /\ UNCHANGED <<next, spent, joined, told, rowVars, sessionVars, doubted, deliveryVars>>

\* So does the failure of this INSERT, with or without effect.
RecordStepFails(r) ==
  /\ Faults /\ pc[r] = "record"
  /\ InsertStep(r) \/ UNCHANGED <<stepStatus, stepCost>>
  /\ outcome' = [outcome EXCEPT ![r] = NoOutcome]
  /\ Goto(r, "fail")
  /\ UNCHANGED <<next, spent, joined, told, row, total, sessionVars, doubted, deliveryVars>>

Completed(r) ==
  /\ row' = [row EXCEPT ![r] = "completed"]
  /\ total' = [total EXCEPT ![r] = spent[r]]

\* CompleteWorkflowRun after the last step.
Complete(r) ==
  /\ pc[r] = "step" /\ next[r] \notin Steps
  /\ Completed(r)
  /\ Goto(r, "touch")
  /\ UNCHANGED <<next, outcome, spent, joined, told, stepStatus, stepCost>>
  /\ UNCHANGED <<sessionVars, doubted, deliveryVars>>

\* Mutated form: the error is dropped.
CompleteErrorDropped(r) ==
  /\ Faults /\ pc[r] = "step" /\ next[r] \notin Steps
  /\ Goto(r, "touch")
  /\ UNCHANGED <<next, outcome, spent, joined, told, rowVars>>
  /\ UNCHANGED <<sessionVars, doubted, deliveryVars>>

\* Its error, even if the row says completed by now, makes the run a failed one.
CompleteFails(r) ==
  /\ Faults /\ pc[r] = "step" /\ next[r] \notin Steps
  /\ Completed(r) \/ UNCHANGED <<row, total>>
  /\ Goto(r, "fail")
  /\ UNCHANGED <<next, outcome, spent, joined, told, stepStatus, stepCost>>
  /\ UNCHANGED <<sessionVars, doubted, deliveryVars>>

executeWorkflow(r) ==
  ExecuteStep(r) \/ RecordStep(r) \/ RecordStepFails(r) \/ Complete(r) \/ CompleteFails(r)

-----------------------------------------------------------------------------
(* The end of userRunWorkflow. *)

Tell(r, status) == told' = [told EXCEPT ![r] = status]

\* The total is the one the INSERT returned, 0, whatever the steps have cost.
FailRun(r) ==
  /\ pc[r] = "fail"
  /\ row' = [row EXCEPT ![r] = "failed"] /\ total' = [total EXCEPT ![r] = 0]
  /\ Tell(r, "failed") /\ Goto(r, "announce")
  /\ UNCHANGED <<next, outcome, spent, joined, stepStatus, stepCost>>
  /\ UNCHANGED <<sessionVars, doubted, deliveryVars>>

\* An error of this UPDATE is dropped.
FailRunFails(r) ==
  /\ Faults /\ pc[r] = "fail"
  /\ doubted' = doubted \cup {r}
  /\ Tell(r, "failed") /\ Goto(r, "announce")
  /\ UNCHANGED <<next, outcome, spent, joined, rowVars, sessionVars, deliveryVars>>

\* Mutated form: every session is touched.
TouchAll(r) ==
  /\ pc[r] = "touch"
  /\ lastRun' = [s \in Sessions |-> r]
  /\ Tell(r, "completed") /\ Goto(r, "announce")
  /\ UNCHANGED <<next, outcome, spent, joined, rowVars, session, doubted, deliveryVars>>

\* TouchAgentSessionRun does not look at the session's status; its error is dropped.
Touch(r) ==
  /\ pc[r] = "touch"
  /\ \/ lastRun' = [s \in Sessions |-> IF s = joined[r] THEN r ELSE lastRun[s]]
     \/ Faults /\ UNCHANGED lastRun
  /\ Tell(r, "completed") /\ Goto(r, "announce")
  /\ UNCHANGED <<next, outcome, spent, joined, rowVars, session, doubted, deliveryVars>>

\* The answer is given once the delivery is recorded, if there is a callback.
Announce(r) ==
  /\ pc[r] = "announce"
  /\ IF r \in Hooked THEN RecordDelivery(r) \/ RecordDeliveryFails(r)
                ELSE UNCHANGED deliveryVars
  /\ Goto(r, "done")
  /\ UNCHANGED <<next, outcome, spent, joined, told, rowVars, sessionVars, doubted>>

userRunWorkflow(r) ==
  \/ CreateWorkflowRun(r) \/ CreateWorkflowRunFails(r)
  \/ executeWorkflow(r)
  \/ FailRun(r) \/ FailRunFails(r) \/ Touch(r) \/ Announce(r)

\* A step of the goroutine that recordWorkflowWebhook has started.
Deliver(r) ==
  /\ deliverWorkflowWebhook(r)
  /\ UNCHANGED <<handlerVars, rowVars, sessionVars, doubted>>

-----------------------------------------------------------------------------
AtWork == {r \in Runs : pc[r] \notin {"idle", "done", "refused", "lost"}}

\* The process dies: runs and deliveries stay as their rows say.
Crash ==
  /\ Faults /\ AtWork \cup Sending # {}
  /\ pc' = [r \in Runs |-> IF r \in AtWork THEN "lost" ELSE pc[r]]
  /\ DeliveryCrash
  /\ UNCHANGED <<next, outcome, spent, joined, told, rowVars, sessionVars, doubted>>

\* Nobody asks for anything.
Rest ==
  /\ AtWork \cup Sending = {}
  /\ UNCHANGED vars

Next ==
  \/ \E r \in Runs :
       \/ \E s \in Sessions \cup {NoSession} : Request(r, s)
       \/ Refuse(r) \/ userRunWorkflow(r) \/ Deliver(r)
  \/ \E s \in Sessions : CreateAgentSession(s) \/ CloseAgentSession(s)
  \/ Crash
  \/ Rest

Spec == Init /\ [][Next]_vars

-----------------------------------------------------------------------------
(* Properties. *)

TypeOK ==
  /\ DeliveryTypeOK
  /\ pc \in [Runs -> {"idle", "create", "step", "record", "fail", "touch", "announce",
                      "done", "refused", "lost"}]
  /\ row \in [Runs -> {"none", "running", "completed", "failed"}]
  /\ total \in [Runs -> Nat] /\ spent \in [Runs -> Nat]
  /\ next \in [Runs -> 1 .. NumSteps + 1]
  /\ outcome \in [Runs -> [status : {"none", "completed", "failed"}, cost : Nat]]
  /\ stepStatus \in [Runs -> [Steps -> {"none", "completed", "failed"}]]
  /\ stepCost \in [Runs -> [Steps -> Nat]]
  /\ joined \in [Runs -> Sessions \cup {NoSession}]
  /\ told \in [Runs -> {"none", "completed", "failed"}]
  /\ session \in [Sessions -> {"none", "active", "closed"}]
  /\ lastRun \in [Sessions -> Runs \cup {NoRun}]
  /\ doubted \subseteq Runs

\* A run that says completed has a completed row for each step of its workflow,
\* and its total is what these steps have cost.
CompletedRunAddsUp ==
  \A r \in Runs : row[r] = "completed" =>
    /\ \A i \in Steps : stepStatus[r][i] = "completed"
    /\ total[r] = TotalOver(Steps, stepCost[r])

\* What caller and callback are told is what the row says, then and for good,
\* but for a run whose last UPDATE failed; and a callback hears of no run that
\* the caller was not answered about, or about to be.
OutcomeIsTold ==
  \A r \in Runs :
    /\ told[r] = "completed" => row[r] = "completed"
    /\ told[r] = "failed" /\ r \notin doubted => row[r] = "failed"
    /\ r \in heard => told[r] # "none"

\* The last run of a session, closed or not, took place in it and is completed.
SessionPointsToCompleted ==
  \A s \in Sessions : lastRun[s] # NoRun =>
    joined[lastRun[s]] = s /\ row[lastRun[s]] = "completed"

\* When the caller has its answer, the run is not left as running, unless the
\* statement that should have ended it failed; and its event is with a
\* goroutine, or settled, unless a statement of the delivery failed or the
\* process died with the goroutine.
AnsweredIsClosed ==
  \A r \in Runs :
    /\ pc[r] \in {"done", "refused"} /\ r \notin doubted => row[r] # "running"
    /\ pc[r] = "done" /\ r \in Hooked \ mislaid /\ sender[r] # "lost" =>
         r \in Sending \/ delivery[r] \in Settled

=============================================================================
