------------------------- MODULE WorkflowRunsProofs -------------------------
(***************************************************************************)
(* WorkflowRuns for any number of runs, sessions and steps, whatever these *)
(* cost and whichever statements fail.                                     *)
(***************************************************************************)
EXTENDS WorkflowRuns, FiniteSetTheorems, TLAPS

-----------------------------------------------------------------------------
(* What a sum does when its set grows, or its function changes outside it. *)

\* The empty sum is zero.
LEMMA TotalOverEmpty ==
  ASSUME NEW f
  PROVE  IsFiniteSet(Units({}, f)) /\ TotalOver({}, f) = 0
<1>1. Units({}, f) = {}
  BY DEF Units
<1> QED
  BY <1>1, FS_EmptySet DEF TotalOver

\* The sum depends only on the values the function takes on the set.
LEMMA TotalOverSame ==
  ASSUME NEW S, NEW f, NEW g, \A s \in S : f[s] = g[s]
  PROVE  Units(S, f) = Units(S, g) /\ TotalOver(S, f) = TotalOver(S, g)
<1>1. Units(S, f) = Units(S, g)
  BY DEF Units
<1> QED
  BY <1>1 DEF TotalOver

\* One element more adds its own value, and keeps the units finite.
LEMMA TotalOverAdd ==
  ASSUME NEW S, NEW f, NEW x, x \notin S, f[x] \in Nat, IsFiniteSet(Units(S, f))
  PROVE  /\ IsFiniteSet(Units(S \cup {x}, f))
         /\ TotalOver(S \cup {x}, f) = TotalOver(S, f) + f[x]
<1> DEFINE X == {x} \X (1..f[x])
<1>1. Units(S \cup {x}, f) = Units(S, f) \cup X
  BY DEF Units
<1>2. Units(S, f) \cap X = {}
  BY DEF Units
<1>3. IsFiniteSet(X) /\ Cardinality(X) = f[x]
  <2>1. IsFiniteSet({x}) /\ Cardinality({x}) = 1
    BY FS_Singleton
  <2>2. IsFiniteSet(1..f[x]) /\ Cardinality(1..f[x]) = f[x]
    <3> DEFINE n == f[x]
    <3>1. n \in Nat
      OBVIOUS
    <3> HIDE DEF n
    <3>2. IsFiniteSet(1..n) /\ Cardinality(1..n) = n
      BY <3>1, FS_Interval
    <3> QED
      BY <3>2 DEF n
  <2>3. IsFiniteSet(X) /\ Cardinality(X) = 1 * Cardinality(1..f[x])
    <3> DEFINE T == 1..f[x]
    <3> HIDE DEF T
    <3>1. IsFiniteSet(T) => /\ IsFiniteSet({x} \X T)
                            /\ Cardinality({x} \X T) = Cardinality({x}) * Cardinality(T)
      BY <2>1, FS_Product, Zenon
    <3> QED
      BY <2>1, <2>2, <3>1, Zenon DEF T
  <2> QED
    BY <2>2, <2>3
<1>4. Cardinality({}) = 0
  BY FS_EmptySet
<1>5. /\ IsFiniteSet(Units(S, f) \cup X)
      /\ Cardinality(Units(S, f) \cup X) =
           Cardinality(Units(S, f)) + Cardinality(X) - Cardinality(Units(S, f) \cap X)
  BY <1>3, FS_Union
<1>6. Cardinality(Units(S, f)) \in Nat
  BY FS_CardinalityType
<1>7. Cardinality(Units(S, f) \cup X) = Cardinality(Units(S, f)) + f[x]
  <2>1. Cardinality(Units(S, f) \cap X) = 0
    BY <1>2, <1>4, Zenon
  <2>2. \A m, n \in Nat : m + n - 0 = m + n
    OBVIOUS
  <2>3. Cardinality(Units(S, f) \cup X) = Cardinality(Units(S, f)) + f[x] - 0
    BY <1>3, <1>5, <2>1, Zenon
  <2> QED
    BY <1>6, <2>2, <2>3, Zenon
<1> QED
  BY <1>1, <1>5, <1>7, Zenon DEF TotalOver

-----------------------------------------------------------------------------
(* Types. *)

LEMMA TypeInit == Init => TypeOK
BY WorkflowConstants DEF Init, DeliveryInit, TypeOK, DeliveryTypeOK, NoOutcome, MaxAttempts, Steps

\* What the invariant needs of the loop variables of a delivery.
Tries(r) ==
  /\ sender[r] = "post" => attempt[r] = posts[r] + 1 /\ attempt[r] <= MaxAttempts
  /\ sender[r] \in {"accepted", "refused"} => attempt[r] = posts[r] /\ attempt[r] >= 1
  /\ sender[r] = "unsent" => r \in Unparsable /\ posts[r] = 0

\* A delivery whose goroutine has not started is new; one whose goroutine is at
\* work is open; one whose goroutine is through is settled, or its end was lost.
Delivered(r) ==
  /\ Tries(r)
  /\ sender[r] = "none" => posts[r] = 0 /\ r \notin heard
  /\ sender[r] \in {"none", "post", "unsent"} /\ posts[r] = 0 => r \notin heard
  /\ sender[r] = "accepted" => r \in heard
  /\ sender[r] = "over" => delivery[r] \in Settled \/ r \in mislaid
  /\ delivery[r] \in Settled => sender[r] = "over"
  /\ delivery[r] = "delivered" => r \in heard /\ attempts[r] = posts[r]
  /\ delivery[r] = "failed" =>
       /\ attempts[r] = MaxAttempts
       /\ posts[r] = MaxAttempts \/ (r \in Unparsable /\ posts[r] = 0 /\ r \notin heard)

\* The steps before the one that is up are completed, and what was spent is
\* what they have cost.
Progress(r) ==
  /\ \A i \in 1 .. next[r] - 1 : stepStatus[r][i] = "completed"
  /\ IsFiniteSet(Units(1 .. next[r] - 1, stepCost[r]))
  /\ pc[r] # "record" => spent[r] = TotalOver(1 .. next[r] - 1, stepCost[r])
  /\ pc[r] = "record" =>
       /\ spent[r] = TotalOver(1 .. next[r] - 1, stepCost[r]) + outcome[r].cost
       /\ next[r] \in Steps

AddsUp(r) ==
  row[r] = "completed" =>
    /\ \A i \in Steps : stepStatus[r][i] = "completed"
    /\ total[r] = TotalOver(Steps, stepCost[r])

\* Where the handler is tells what its rows and its words may be.
Handled(r) ==
  /\ pc[r] \in {"idle", "create"} => row[r] = "none" /\ next[r] = 1 /\ spent[r] = 0
  /\ pc[r] = "refused" /\ r \notin doubted => row[r] # "running"
  /\ pc[r] \in {"step", "record"} => row[r] = "running" /\ Progress(r)
  /\ pc[r] = "touch" => row[r] = "completed"
  /\ told[r] = "none" => sender[r] = "none" /\ delivery[r] = "none"
  /\ told[r] # "none" => pc[r] \in {"announce", "done", "lost"}
  /\ pc[r] \in {"announce", "done"} => told[r] # "none"
  /\ pc[r] = "announce" => sender[r] = "none" /\ delivery[r] = "none"
  /\ pc[r] = "done" /\ r \in Hooked \ mislaid => sender[r] # "none"

Told(r) ==
  /\ told[r] = "completed" => row[r] = "completed"
  /\ told[r] = "failed" /\ r \notin doubted => row[r] = "failed"

RunInv(r) == Delivered(r) /\ AddsUp(r) /\ Handled(r) /\ Told(r)

\* A session points to a run that took place in it and was told as completed.
Noted(s) ==
  lastRun[s] # NoRun => joined[lastRun[s]] = s /\ told[lastRun[s]] = "completed"

IInv == TypeOK /\ (\A r \in Runs : RunInv(r)) /\ \A s \in Sessions : Noted(s)

-----------------------------------------------------------------------------
(* Deliveries: types and the invariant. *)

\* The UPDATE keeps the types of its row.
LEMMA UpdateTypes ==
  ASSUME DeliveryTypeOK, NEW q \in Runs,
         NEW status \in {"retrying", "delivered", "failed"}, NEW count \in 0 .. MaxAttempts,
         UpdateResult(q, status, count)
  PROVE  /\ delivery' \in [Runs -> {"none", "recorded", "retrying", "delivered", "failed"}]
         /\ attempts' \in [Runs -> 0 .. MaxAttempts]
         /\ mislaid' \subseteq Runs
BY DEF UpdateResult, DeliveryTypeOK

\* A step of a goroutine changes the delivery alone, and keeps its types.
LEMMA DeliverTypes ==
  ASSUME TypeOK, NEW q \in Runs, Tries(q), Deliver(q)
  PROVE  TypeOK'
<1>1. /\ pc' = pc /\ row' = row /\ total' = total /\ spent' = spent /\ next' = next
      /\ outcome' = outcome /\ stepStatus' = stepStatus /\ stepCost' = stepCost
      /\ joined' = joined /\ told' = told /\ session' = session /\ lastRun' = lastRun
      /\ doubted' = doubted
  BY DEF Deliver, handlerVars, rowVars, sessionVars
<1>t. DeliveryTypeOK
  BY DEF TypeOK
<1>2. DeliveryTypeOK'
  <2>1. CASE Post(q)
    <3>1. posts[q] + 1 \in 0 .. MaxAttempts
      BY <1>t, <2>1 DEF Post, Tries, DeliveryTypeOK, MaxAttempts
    <3>2. posts' \in [Runs -> 0 .. MaxAttempts]
      BY <1>t, <2>1, <3>1 DEF Post, DeliveryTypeOK
    <3>3. heard' \subseteq Runs
      BY <1>t, <2>1 DEF Post, DeliveryTypeOK
    <3>4. sender' \in [Runs -> {"none", "post", "accepted", "refused", "unsent", "over", "lost"}]
      BY <1>t, <2>1 DEF Post, DeliveryTypeOK
    <3> QED
      BY <1>t, <2>1, <3>2, <3>3, <3>4 DEF Post, DeliveryTypeOK
  <2>2. CASE MarkDelivered(q)
    <3>1. attempt[q] \in 0 .. MaxAttempts
      BY <1>t DEF DeliveryTypeOK
    <3> QED
      BY <1>t, <2>2, <3>1, UpdateTypes DEF MarkDelivered, DeliveryTypeOK
  <2>3. CASE MarkRetrying(q)
    <3>1. attempt[q] + 1 \in 0 .. MaxAttempts
      BY <1>t, <2>3 DEF MarkRetrying, DeliveryTypeOK, MaxAttempts
    <3>2. attempt' \in [Runs -> 0 .. MaxAttempts]
      BY <1>t, <2>3, <3>1 DEF MarkRetrying, DeliveryTypeOK
    <3>3. sender' \in [Runs -> {"none", "post", "accepted", "refused", "unsent", "over", "lost"}]
      BY <1>t, <2>3 DEF MarkRetrying, DeliveryTypeOK
    <3>4. UpdateResult(q, "retrying", attempt[q]) /\ attempt[q] \in 0 .. MaxAttempts
      BY <1>t, <2>3 DEF MarkRetrying, DeliveryTypeOK
    <3> QED
      BY <1>t, <2>3, <3>2, <3>3, <3>4, UpdateTypes DEF MarkRetrying, DeliveryTypeOK
  <2>4. CASE MarkFailed(q)
    <3>1. MaxAttempts \in 0 .. MaxAttempts
      BY DEF MaxAttempts
    <3> QED
      BY <1>t, <2>4, <3>1, UpdateTypes DEF MarkFailed, DeliveryTypeOK
  <2>5. CASE NoRequest(q)
    BY <1>t, <2>5 DEF NoRequest, DeliveryTypeOK
  <2> QED
    BY <2>1, <2>2, <2>3, <2>4, <2>5 DEF Deliver, deliverWorkflowWebhook
<1> QED
  BY <1>1, <1>2 DEF TypeOK

\* A step of a goroutine keeps what the invariant says of its delivery...
LEMMA DeliverKeeps ==
  ASSUME TypeOK, NEW q \in Runs, RunInv(q), Deliver(q)
  PROVE  RunInv(q)'
<1>t. DeliveryTypeOK /\ Delivered(q)
  BY DEF TypeOK, RunInv
<1>1. /\ pc' = pc /\ row' = row /\ total' = total /\ spent' = spent /\ next' = next
      /\ outcome' = outcome /\ stepStatus' = stepStatus /\ stepCost' = stepCost
      /\ told' = told /\ doubted' = doubted
  BY DEF Deliver, handlerVars, rowVars, sessionVars
<1>2. Delivered(q)' /\ sender[q] # "none" /\ sender'[q] # "none" /\ mislaid \subseteq mislaid'
  <2>1. CASE Post(q)
    BY <1>t, <2>1 DEF Post, Delivered, Tries, DeliveryTypeOK, MaxAttempts, Settled
  <2>2. CASE MarkDelivered(q)
    BY <1>t, <2>2 DEF MarkDelivered, UpdateResult, Delivered, Tries, DeliveryTypeOK, MaxAttempts, Settled
  <2>3. CASE MarkRetrying(q)
    BY <1>t, <2>3 DEF MarkRetrying, UpdateResult, Delivered, Tries, DeliveryTypeOK, MaxAttempts, Settled
  <2>4. CASE MarkFailed(q)
    BY <1>t, <2>4 DEF MarkFailed, UpdateResult, Delivered, Tries, DeliveryTypeOK, MaxAttempts, Settled
  <2>5. CASE NoRequest(q)
    BY <1>t, <2>5 DEF NoRequest, Delivered, Tries, DeliveryTypeOK, MaxAttempts, Settled
  <2> QED
    BY <2>1, <2>2, <2>3, <2>4, <2>5 DEF Deliver, deliverWorkflowWebhook
<1>3. AddsUp(q)' /\ Told(q)'
  BY <1>1 DEF RunInv, AddsUp, Told
<1>4. Handled(q)'
  BY <1>1, <1>2 DEF RunInv, Handled, Progress
<1> QED
  BY <1>2, <1>3, <1>4 DEF RunInv

\* The step leaves run r alone.
Apart(r) ==
  /\ pc'[r] = pc[r] /\ row'[r] = row[r] /\ total'[r] = total[r] /\ next'[r] = next[r]
  /\ outcome'[r] = outcome[r] /\ spent'[r] = spent[r] /\ told'[r] = told[r]
  /\ stepStatus'[r] = stepStatus[r] /\ stepCost'[r] = stepCost[r]
  /\ delivery'[r] = delivery[r] /\ attempts'[r] = attempts[r] /\ sender'[r] = sender[r]
  /\ attempt'[r] = attempt[r] /\ posts'[r] = posts[r]
  /\ (r \in heard' <=> r \in heard) /\ (r \in mislaid' <=> r \in mislaid)
  /\ (r \in doubted' <=> r \in doubted)

\* ... and of every run that a step leaves alone.
LEMMA RunSame ==
  ASSUME NEW r \in Runs, RunInv(r), Apart(r)
  PROVE  RunInv(r)'
<1>1. Delivered(r)'
  BY DEF RunInv, Delivered, Tries, Apart
<1>2. AddsUp(r)' /\ Told(r)'
  BY DEF RunInv, AddsUp, Told, Apart
<1>3. Handled(r)'
  <2>1. Progress(r)' <=> Progress(r)
    BY DEF Progress, Apart
  <2> QED
    BY <2>1 DEF RunInv, Handled, Apart
<1> QED
  BY <1>1, <1>2, <1>3 DEF RunInv

-----------------------------------------------------------------------------
(* Handlers: types. *)

\* A handler that leaves the delivery alone keeps its types...
LEMMA SameDelivery == ASSUME TypeOK, UNCHANGED deliveryVars PROVE DeliveryTypeOK'
BY DEF TypeOK, DeliveryTypeOK, deliveryVars

\* ... and goes only where handlers go.
LEMMA GotoTypes ==
  ASSUME TypeOK, NEW q \in Runs,
         NEW place \in {"idle", "create", "step", "record", "fail", "touch", "announce",
                        "done", "refused", "lost"},
         Goto(q, place)
  PROVE  pc' \in [Runs -> {"idle", "create", "step", "record", "fail", "touch", "announce",
                           "done", "refused", "lost"}]
BY DEF Goto, TypeOK

LEMMA RequestTypes ==
  ASSUME TypeOK, NEW q \in Runs, NEW s \in Sessions \cup {NoSession},
         Request(q, s) \/ Refuse(q)
  PROVE  TypeOK'
<1>1. DeliveryTypeOK'
  BY SameDelivery DEF Request, Refuse
<1>2. pc' \in [Runs -> {"idle", "create", "step", "record", "fail", "touch", "announce",
                        "done", "refused", "lost"}]
  BY GotoTypes DEF Request, Refuse
<1>3. joined' \in [Runs -> Sessions \cup {NoSession}]
  BY DEF Request, Refuse, TypeOK
<1> QED
  BY <1>1, <1>2, <1>3 DEF Request, Refuse, TypeOK, rowVars, sessionVars

LEMMA CreateTypes ==
  ASSUME TypeOK, NEW q \in Runs, CreateWorkflowRun(q) \/ CreateWorkflowRunFails(q)
  PROVE  TypeOK'
<1>1. DeliveryTypeOK'
  BY SameDelivery DEF CreateWorkflowRun, CreateWorkflowRunFails
<1>2. pc' \in [Runs -> {"idle", "create", "step", "record", "fail", "touch", "announce",
                        "done", "refused", "lost"}]
  BY GotoTypes DEF CreateWorkflowRun, CreateWorkflowRunFails
<1>3. row' \in [Runs -> {"none", "running", "completed", "failed"}]
  BY DEF CreateWorkflowRun, CreateWorkflowRunFails, TypeOK
<1>4. doubted' \subseteq Runs
  BY DEF CreateWorkflowRun, CreateWorkflowRunFails, TypeOK
<1> QED
  BY <1>1, <1>2, <1>3, <1>4
  DEF CreateWorkflowRun, CreateWorkflowRunFails, TypeOK, sessionVars

LEMMA ExecuteTypes ==
  ASSUME TypeOK, NEW q \in Runs, ExecuteStep(q)
  PROVE  TypeOK'
<1>1. PICK o \in [status : {"completed"}, cost : Costs] \cup {[status |-> "failed", cost |-> 0]} :
        /\ outcome' = [outcome EXCEPT ![q] = o]
        /\ spent' = [spent EXCEPT ![q] = @ + o.cost]
  BY DEF ExecuteStep
<1>2. o \in [status : {"none", "completed", "failed"}, cost : Nat] /\ o.cost \in Nat
  <2>1. CASE o \in [status : {"completed"}, cost : Costs]
    BY <2>1, WorkflowConstants
  <2>2. CASE o = [status |-> "failed", cost |-> 0]
    BY <2>2
  <2> QED
    BY <1>1, <2>1, <2>2
<1>3. outcome' \in [Runs -> [status : {"none", "completed", "failed"}, cost : Nat]]
  BY <1>1, <1>2 DEF TypeOK
<1>4. spent[q] + o.cost \in Nat
  BY <1>2 DEF TypeOK
<1>5. spent' \in [Runs -> Nat]
  BY <1>1, <1>4 DEF TypeOK
<1>6. DeliveryTypeOK'
  BY SameDelivery DEF ExecuteStep
<1>7. pc' \in [Runs -> {"idle", "create", "step", "record", "fail", "touch", "announce",
                        "done", "refused", "lost"}]
  BY GotoTypes DEF ExecuteStep
<1> QED
  BY <1>3, <1>5, <1>6, <1>7 DEF ExecuteStep, TypeOK, rowVars, sessionVars

LEMMA InsertTypes ==
  ASSUME TypeOK, NEW q \in Runs, next[q] \in Steps, InsertStep(q)
  PROVE  /\ stepStatus' \in [Runs -> [Steps -> {"none", "completed", "failed"}]]
         /\ stepCost' \in [Runs -> [Steps -> Nat]]
BY DEF TypeOK, InsertStep

LEMMA RecordTypes ==
  ASSUME TypeOK, NEW q \in Runs, next[q] \in Steps, RecordStep(q) \/ RecordStepFails(q)
  PROVE  TypeOK'
<1>1. /\ stepStatus' \in [Runs -> [Steps -> {"none", "completed", "failed"}]]
      /\ stepCost' \in [Runs -> [Steps -> Nat]]
  BY InsertTypes DEF RecordStep, RecordStepFails, TypeOK
<1>2. NoOutcome \in [status : {"none", "completed", "failed"}, cost : Nat]
  BY DEF NoOutcome
<1>3. outcome' \in [Runs -> [status : {"none", "completed", "failed"}, cost : Nat]]
  BY <1>2 DEF RecordStep, RecordStepFails, TypeOK
<1>4. next[q] + 1 \in 1 .. NumSteps + 1
  BY WorkflowConstants DEF Steps
<1>5. next' \in [Runs -> 1 .. NumSteps + 1]
  BY <1>4 DEF RecordStep, RecordStepFails, TypeOK
<1>6. pc' \in [Runs -> {"idle", "create", "step", "record", "fail", "touch", "announce",
                        "done", "refused", "lost"}]
  <2>1. Goto(q, "step") \/ Goto(q, "fail")
    BY DEF RecordStep, RecordStepFails
  <2> QED
    BY <2>1, GotoTypes
<1>7. DeliveryTypeOK'
  BY SameDelivery DEF RecordStep, RecordStepFails
<1> QED
  BY <1>1, <1>3, <1>5, <1>6, <1>7 DEF RecordStep, RecordStepFails, TypeOK, sessionVars

LEMMA CompleteTypes ==
  ASSUME TypeOK, NEW q \in Runs, Complete(q) \/ CompleteFails(q)
  PROVE  TypeOK'
<1>1. DeliveryTypeOK'
  BY SameDelivery DEF Complete, CompleteFails
<1>2. pc' \in [Runs -> {"idle", "create", "step", "record", "fail", "touch", "announce",
                        "done", "refused", "lost"}]
  BY GotoTypes DEF Complete, CompleteFails
<1>3. row' \in [Runs -> {"none", "running", "completed", "failed"}] /\ total' \in [Runs -> Nat]
  <2>1. CASE Completed(q)
    <3>1. row' \in [Runs -> {"none", "running", "completed", "failed"}]
      BY <2>1 DEF Completed, TypeOK
    <3>2. total' \in [Runs -> Nat]
      BY <2>1 DEF Completed, TypeOK
    <3> QED
      BY <3>1, <3>2
  <2>2. CASE UNCHANGED <<row, total>>
    BY <2>2 DEF TypeOK
  <2> QED
    BY <2>1, <2>2 DEF Complete, CompleteFails
<1> QED
  BY <1>1, <1>2, <1>3 DEF Complete, CompleteFails, TypeOK, sessionVars

LEMMA FailTypes ==
  ASSUME TypeOK, NEW q \in Runs, FailRun(q) \/ FailRunFails(q)
  PROVE  TypeOK'
<1>1. DeliveryTypeOK'
  BY SameDelivery DEF FailRun, FailRunFails
<1>2. pc' \in [Runs -> {"idle", "create", "step", "record", "fail", "touch", "announce",
                        "done", "refused", "lost"}]
  BY GotoTypes DEF FailRun, FailRunFails
<1>3. row' \in [Runs -> {"none", "running", "completed", "failed"}] /\ total' \in [Runs -> Nat]
  <2>1. CASE FailRun(q)
    <3>1. row' \in [Runs -> {"none", "running", "completed", "failed"}]
      BY <2>1 DEF FailRun, TypeOK
    <3>2. total' \in [Runs -> Nat]
      BY <2>1 DEF FailRun, TypeOK
    <3> QED
      BY <3>1, <3>2
  <2>2. CASE FailRunFails(q)
    BY <2>2 DEF FailRunFails, rowVars, TypeOK
  <2> QED
    BY <2>1, <2>2
<1>4. told' \in [Runs -> {"none", "completed", "failed"}] /\ doubted' \subseteq Runs
  BY DEF FailRun, FailRunFails, Tell, TypeOK
<1> QED
  BY <1>1, <1>2, <1>3, <1>4 DEF FailRun, FailRunFails, TypeOK, rowVars, sessionVars

LEMMA TouchTypes ==
  ASSUME TypeOK, NEW q \in Runs, Touch(q)
  PROVE  TypeOK'
<1>1. DeliveryTypeOK'
  BY SameDelivery DEF Touch
<1>2. pc' \in [Runs -> {"idle", "create", "step", "record", "fail", "touch", "announce",
                        "done", "refused", "lost"}]
  BY GotoTypes DEF Touch
<1>3. lastRun' \in [Sessions -> Runs \cup {NoRun}]
  BY DEF Touch, TypeOK
<1>4. told' \in [Runs -> {"none", "completed", "failed"}]
  BY DEF Touch, Tell, TypeOK
<1> QED
  BY <1>1, <1>2, <1>3, <1>4 DEF Touch, TypeOK, rowVars

LEMMA AnnounceTypes ==
  ASSUME TypeOK, NEW q \in Runs, Announce(q)
  PROVE  TypeOK'
<1>t. DeliveryTypeOK
  BY DEF TypeOK
<1>1. DeliveryTypeOK'
  <2>1. CASE RecordDelivery(q)
    <3>1. 1 \in 0 .. MaxAttempts
      BY DEF MaxAttempts
    <3>2. delivery' \in [Runs -> {"none", "recorded", "retrying", "delivered", "failed"}]
      BY <1>t, <2>1 DEF RecordDelivery, DeliveryTypeOK
    <3>3. sender' \in [Runs -> {"none", "post", "accepted", "refused", "unsent", "over", "lost"}]
      BY <1>t, <2>1 DEF RecordDelivery, DeliveryTypeOK
    <3>4. attempt' \in [Runs -> 0 .. MaxAttempts]
      BY <1>t, <2>1, <3>1 DEF RecordDelivery, DeliveryTypeOK
    <3> QED
      BY <1>t, <2>1, <3>2, <3>3, <3>4 DEF RecordDelivery, DeliveryTypeOK
  <2>2. CASE RecordDeliveryFails(q)
    <3>1. delivery' \in [Runs -> {"none", "recorded", "retrying", "delivered", "failed"}]
      BY <1>t, <2>2 DEF RecordDeliveryFails, DeliveryTypeOK
    <3> QED
      BY <1>t, <2>2, <3>1 DEF RecordDeliveryFails, DeliveryTypeOK
  <2>3. CASE UNCHANGED deliveryVars
    BY <2>3, SameDelivery
  <2> QED
    BY <2>1, <2>2, <2>3 DEF Announce
<1>2. pc' \in [Runs -> {"idle", "create", "step", "record", "fail", "touch", "announce",
                        "done", "refused", "lost"}]
  BY GotoTypes DEF Announce
<1> QED
  BY <1>1, <1>2 DEF TypeOK, Announce, rowVars, sessionVars

LEMMA SessionTypes ==
  ASSUME TypeOK, NEW s \in Sessions, CreateAgentSession(s) \/ CloseAgentSession(s)
  PROVE  TypeOK'
<1>1. DeliveryTypeOK'
  BY SameDelivery DEF CreateAgentSession, CloseAgentSession
<1>2. session' \in [Sessions -> {"none", "active", "closed"}]
  BY DEF CreateAgentSession, CloseAgentSession, TypeOK
<1> QED
  BY <1>1, <1>2 DEF TypeOK, CreateAgentSession, CloseAgentSession, handlerVars, rowVars

LEMMA CrashTypes == ASSUME TypeOK, Crash PROVE TypeOK'
<1>1. DeliveryTypeOK'
  BY DEF TypeOK, DeliveryTypeOK, Crash, DeliveryCrash
<1> QED
  BY <1>1 DEF TypeOK, Crash, rowVars, sessionVars

-----------------------------------------------------------------------------
(* Handlers: the invariant of the run. *)

LEMMA RequestKeeps ==
  ASSUME TypeOK, NEW q \in Runs, RunInv(q), NEW s \in Sessions \cup {NoSession},
         Request(q, s) \/ Refuse(q)
  PROVE  RunInv(q)'
BY DEF TypeOK, RunInv, Delivered, Tries, AddsUp, Handled, Told, Request, Refuse, Goto, rowVars,
       sessionVars, deliveryVars

LEMMA CreateKeeps ==
  ASSUME TypeOK, NEW q \in Runs, RunInv(q), CreateWorkflowRun(q) \/ CreateWorkflowRunFails(q)
  PROVE  RunInv(q)'
<1>1. Delivered(q)'
  BY DEF RunInv, Delivered, Tries, CreateWorkflowRun, CreateWorkflowRunFails, deliveryVars
<1>2. row'[q] # "completed" /\ told'[q] = "none"
  BY DEF TypeOK, RunInv, Handled, CreateWorkflowRun, CreateWorkflowRunFails
<1>3. CASE CreateWorkflowRun(q)
  <2>1. next'[q] = 1 /\ spent'[q] = 0 /\ pc'[q] = "step" /\ row'[q] = "running"
    BY <1>3 DEF TypeOK, RunInv, Handled, CreateWorkflowRun, Goto
  <2>2. 1 .. next'[q] - 1 = {}
    BY <2>1
  <2>3. Progress(q)'
    BY <2>1, <2>2, TotalOverEmpty DEF Progress
  <2> QED
    BY <1>1, <1>2, <1>3, <2>1, <2>3
    DEF TypeOK, RunInv, AddsUp, Handled, Told, CreateWorkflowRun, deliveryVars
<1>4. CASE CreateWorkflowRunFails(q)
  <2>1. pc'[q] = "refused" /\ q \in doubted'
    BY <1>4 DEF TypeOK, CreateWorkflowRunFails, Goto
  <2> QED
    BY <1>1, <1>2, <1>4, <2>1
    DEF TypeOK, RunInv, AddsUp, Handled, Told, CreateWorkflowRunFails, deliveryVars
<1> QED
  BY <1>3, <1>4

LEMMA ExecuteKeeps ==
  ASSUME TypeOK, NEW q \in Runs, RunInv(q), ExecuteStep(q)
  PROVE  RunInv(q)'
<1>1. PICK o \in [status : {"completed"}, cost : Costs] \cup {[status |-> "failed", cost |-> 0]} :
        /\ outcome' = [outcome EXCEPT ![q] = o]
        /\ spent' = [spent EXCEPT ![q] = @ + o.cost]
  BY DEF ExecuteStep
<1>2. /\ outcome'[q] = o /\ spent'[q] = spent[q] + o.cost
      /\ pc[q] = "step" /\ pc'[q] = "record" /\ next[q] \in Steps
  BY <1>1 DEF ExecuteStep, Goto, TypeOK
<1>3. Progress(q)'
  BY <1>2 DEF ExecuteStep, RunInv, Handled, Progress, rowVars
<1>4. Delivered(q)'
  BY DEF RunInv, Delivered, Tries, ExecuteStep, deliveryVars
<1> QED
  BY <1>2, <1>3, <1>4 DEF ExecuteStep, RunInv, Handled, AddsUp, Told, rowVars, deliveryVars

LEMMA RecordKeeps ==
  ASSUME TypeOK, NEW q \in Runs, RunInv(q), RecordStep(q) \/ RecordStepFails(q)
  PROVE  RunInv(q)' /\ next[q] \in Steps
<1>1. /\ pc[q] = "record" /\ row[q] = "running" /\ told[q] = "none" /\ Progress(q)
      /\ next[q] \in Steps
  BY DEF RecordStep, RecordStepFails, RunInv, Handled, Progress
<1>2. Delivered(q)' /\ row'[q] = "running" /\ told'[q] = "none"
  BY <1>1 DEF RunInv, Delivered, Tries, RecordStep, RecordStepFails, deliveryVars
<1>3. CASE pc'[q] = "fail"
  BY <1>1, <1>2, <1>3
  DEF RunInv, Handled, AddsUp, Told, RecordStep, RecordStepFails, deliveryVars
<1>4. CASE pc'[q] # "fail"
  <2> DEFINE k == next[q]
             old == 1 .. k - 1
  <2>1. /\ RecordStep(q) /\ outcome[q].status = "completed"
        /\ pc'[q] = "step" /\ next'[q] = k + 1
    BY <1>4 DEF RecordStep, RecordStepFails, Goto, TypeOK
  <2>2. k \in Nat /\ k >= 1 /\ k \notin old /\ 1 .. next'[q] - 1 = old \cup {k}
    BY <1>1, <2>1, WorkflowConstants DEF Steps
  <2>3. /\ stepStatus'[q] = [stepStatus[q] EXCEPT ![k] = "completed"]
        /\ stepCost'[q] = [stepCost[q] EXCEPT ![k] = outcome[q].cost]
    BY <2>1 DEF RecordStep, InsertStep, TypeOK
  <2>4. /\ stepCost'[q][k] = outcome[q].cost /\ stepCost'[q][k] \in Nat
        /\ stepStatus'[q][k] = "completed"
        /\ \A i \in old : stepCost'[q][i] = stepCost[q][i] /\ stepStatus'[q][i] = stepStatus[q][i]
    BY <1>1, <2>2, <2>3 DEF TypeOK
  <2>5. /\ Units(old, stepCost'[q]) = Units(old, stepCost[q])
        /\ TotalOver(old, stepCost'[q]) = TotalOver(old, stepCost[q])
    <3>1. \A i \in old : stepCost'[q][i] = stepCost[q][i]
      BY <2>4
    <3> HIDE DEF old
    <3> QED
      BY <3>1, TotalOverSame
  <2>6. IsFiniteSet(Units(old, stepCost'[q]))
    BY <1>1, <2>5 DEF Progress
  <2>7. /\ IsFiniteSet(Units(old \cup {k}, stepCost'[q]))
        /\ TotalOver(old \cup {k}, stepCost'[q]) = TotalOver(old, stepCost'[q]) + stepCost'[q][k]
    <3> DEFINE f == stepCost'[q]
    <3>1. k \notin old /\ f[k] \in Nat /\ IsFiniteSet(Units(old, f))
      BY <2>2, <2>4, <2>6
    <3> HIDE DEF old, k, f
    <3>2. /\ IsFiniteSet(Units(old \cup {k}, f))
          /\ TotalOver(old \cup {k}, f) = TotalOver(old, f) + f[k]
      BY <3>1, TotalOverAdd
    <3> QED
      BY <3>2 DEF f
  <2>8. spent'[q] = TotalOver(old, stepCost[q]) + outcome[q].cost
    BY <1>1, <2>1 DEF Progress, RecordStep
  <2>9. spent'[q] = TotalOver(old \cup {k}, stepCost'[q])
    BY <2>4, <2>5, <2>7, <2>8, Zenon
  <2>10. \A i \in old \cup {k} : stepStatus'[q][i] = "completed"
    BY <1>1, <2>4 DEF Progress
  <2>11. Progress(q)'
    <3> HIDE DEF old, k
    <3> QED
      BY <2>1, <2>2, <2>7, <2>9, <2>10 DEF Progress
  <2> QED
    BY <1>1, <1>2, <2>1, <2>11 DEF RunInv, Handled, AddsUp, Told, RecordStep, deliveryVars
<1> QED
  BY <1>1, <1>3, <1>4

\* After the last step what was spent is what all steps have cost.
LEMMA CompleteKeeps ==
  ASSUME TypeOK, NEW q \in Runs, RunInv(q), Complete(q) \/ CompleteFails(q)
  PROVE  RunInv(q)'
<1>1. /\ pc[q] = "step" /\ row[q] = "running" /\ told[q] = "none" /\ Progress(q)
      /\ next[q] \notin Steps
  BY DEF Complete, CompleteFails, RunInv, Handled
<1>2. 1 .. next[q] - 1 = Steps
  <2>1. next[q] = NumSteps + 1
    BY <1>1, WorkflowConstants DEF TypeOK, Steps
  <2> QED
    BY <2>1, WorkflowConstants DEF Steps
<1>3. (\A i \in Steps : stepStatus[q][i] = "completed") /\ spent[q] = TotalOver(Steps, stepCost[q])
  BY <1>1, <1>2 DEF Progress
<1>4. Delivered(q)'
  BY DEF RunInv, Delivered, Tries, Complete, CompleteFails, deliveryVars
<1>5. \/ row'[q] = "completed" /\ total'[q] = spent[q]
      \/ row'[q] = "running" /\ pc'[q] = "fail"
  BY <1>1 DEF Complete, CompleteFails, Completed, Goto, TypeOK
<1>6. AddsUp(q)'
  BY <1>3, <1>5 DEF Complete, CompleteFails, AddsUp
<1>7. /\ told'[q] = "none"
      /\ pc'[q] = "fail" \/ (pc'[q] = "touch" /\ row'[q] = "completed")
  BY <1>1 DEF Complete, CompleteFails, Completed, Goto, TypeOK
<1>8. Handled(q)' /\ Told(q)'
  BY <1>7 DEF RunInv, Handled, Told, Complete, CompleteFails, deliveryVars
<1> QED
  BY <1>4, <1>6, <1>8 DEF RunInv

LEMMA FailKeeps ==
  ASSUME TypeOK, NEW q \in Runs, RunInv(q), FailRun(q) \/ FailRunFails(q)
  PROVE  RunInv(q)'
<1>1. Delivered(q)' /\ sender'[q] = "none" /\ delivery'[q] = "none"
  BY DEF RunInv, Delivered, Tries, Handled, FailRun, FailRunFails, deliveryVars
<1>2. told'[q] = "failed" /\ pc'[q] = "announce"
  BY DEF FailRun, FailRunFails, Tell, Goto, TypeOK
<1>3. \/ row'[q] = "failed"
      \/ row'[q] = row[q] /\ total'[q] = total[q] /\ q \in doubted'
  BY DEF FailRun, FailRunFails, rowVars, TypeOK
<1>4. stepStatus' = stepStatus /\ stepCost' = stepCost
  BY DEF FailRun, FailRunFails, rowVars
<1>5. AddsUp(q)'
  BY <1>3, <1>4 DEF RunInv, AddsUp
<1> QED
  BY <1>1, <1>2, <1>3, <1>5 DEF RunInv, Handled, Told

LEMMA TouchKeeps ==
  ASSUME TypeOK, NEW q \in Runs, RunInv(q), Touch(q)
  PROVE  RunInv(q)' /\ told'[q] = "completed"
<1>1. Delivered(q)' /\ sender'[q] = "none" /\ delivery'[q] = "none"
  BY DEF RunInv, Delivered, Tries, Handled, Touch, deliveryVars
<1>2. told'[q] = "completed" /\ pc'[q] = "announce" /\ row'[q] = "completed"
  BY DEF RunInv, Handled, Touch, Tell, Goto, TypeOK, rowVars
<1>3. AddsUp(q)'
  BY DEF RunInv, AddsUp, Touch, rowVars
<1> QED
  BY <1>1, <1>2, <1>3 DEF RunInv, Handled, Told

LEMMA AnnounceKeeps ==
  ASSUME TypeOK, NEW q \in Runs, RunInv(q), Announce(q)
  PROVE  RunInv(q)'
<1>t. DeliveryTypeOK
  BY DEF TypeOK
<1>1. /\ pc[q] = "announce" /\ pc'[q] = "done" /\ told[q] # "none" /\ told'[q] = told[q]
      /\ sender[q] = "none" /\ delivery[q] = "none" /\ posts[q] = 0 /\ q \notin heard
  BY DEF Announce, Goto, RunInv, Handled, Delivered, TypeOK
<1>2. Delivered(q)' /\ (q \in Hooked \ mislaid' => sender'[q] # "none")
  <2>1. CASE RecordDelivery(q)
    BY <1>t, <1>1, <2>1 DEF RecordDelivery, Delivered, Tries, DeliveryTypeOK, MaxAttempts, Settled
  <2>2. CASE RecordDeliveryFails(q)
    BY <1>t, <1>1, <2>2 DEF RecordDeliveryFails, Delivered, Tries, DeliveryTypeOK, MaxAttempts, Settled
  <2>3. CASE q \notin Hooked /\ UNCHANGED deliveryVars
    BY <2>3 DEF RunInv, Delivered, Tries, deliveryVars
  <2> QED
    BY <2>1, <2>2, <2>3 DEF Announce
<1>3. AddsUp(q)' /\ Told(q)'
  BY DEF RunInv, AddsUp, Told, Announce, rowVars
<1> QED
  BY <1>1, <1>2, <1>3 DEF RunInv, Handled

\* A crash takes a handler, and a goroutine, away.
LEMMA CrashKeeps ==
  ASSUME TypeOK, NEW r \in Runs, RunInv(r), Crash
  PROVE  RunInv(r)'
<1>t. DeliveryTypeOK
  BY DEF TypeOK
<1>1. Delivered(r)' /\ (sender'[r] = "none" <=> sender[r] = "none") /\ delivery' = delivery
  BY <1>t DEF Crash, DeliveryCrash, Sending, RunInv, Delivered, Tries, DeliveryTypeOK, Settled
<1>2. pc'[r] = pc[r] \/ pc'[r] = "lost"
  BY DEF Crash, TypeOK
<1>3. pc'[r] = pc[r] => pc[r] \in {"idle", "done", "refused", "lost"}
  BY DEF Crash, AtWork, TypeOK
<1>4. AddsUp(r)' /\ Told(r)'
  BY DEF RunInv, AddsUp, Told, Crash, rowVars
<1>5. Handled(r)'
  BY <1>1, <1>2, <1>3 DEF RunInv, Handled, Crash, DeliveryCrash, rowVars
<1> QED
  BY <1>1, <1>4, <1>5 DEF RunInv

-----------------------------------------------------------------------------
(* What a step leaves alone. *)

\* A handler or goroutine of one run leaves every other run alone.
LEMMA OthersApart ==
  ASSUME TypeOK, NEW q \in Runs, NEW r \in Runs, r # q,
         \/ \E s \in Sessions \cup {NoSession} : Request(q, s)
         \/ Refuse(q) \/ userRunWorkflow(q) \/ Deliver(q)
  PROVE  Apart(r)
<1>t. DeliveryTypeOK
  BY DEF TypeOK
<1>1. ASSUME NEW s \in Sessions \cup {NoSession}, Request(q, s) PROVE Apart(r)
  BY <1>1 DEF TypeOK, Request, Goto, rowVars, deliveryVars, Apart
<1>2. CASE Refuse(q)
  BY <1>2 DEF TypeOK, Refuse, Goto, rowVars, deliveryVars, Apart
<1>3. CASE CreateWorkflowRun(q) \/ CreateWorkflowRunFails(q)
  BY <1>3 DEF TypeOK, CreateWorkflowRun, CreateWorkflowRunFails, Goto, deliveryVars, Apart
<1>4. CASE ExecuteStep(q)
  BY <1>4 DEF TypeOK, ExecuteStep, Goto, rowVars, deliveryVars, Apart
<1>5. CASE RecordStep(q) \/ RecordStepFails(q)
  BY <1>5 DEF TypeOK, RecordStep, RecordStepFails, InsertStep, Goto, deliveryVars, Apart
<1>6. CASE Complete(q) \/ CompleteFails(q)
  BY <1>6 DEF TypeOK, Complete, CompleteFails, Completed, Goto, deliveryVars, Apart
<1>7. CASE FailRun(q) \/ FailRunFails(q)
  BY <1>7 DEF TypeOK, FailRun, FailRunFails, Tell, Goto, rowVars, deliveryVars, Apart
<1>8. CASE Touch(q)
  BY <1>8 DEF TypeOK, Touch, Tell, Goto, rowVars, deliveryVars, Apart
<1>9. CASE Announce(q)
  BY <1>t, <1>9 DEF TypeOK, DeliveryTypeOK, Announce, RecordDelivery, RecordDeliveryFails, Goto,
                    rowVars, deliveryVars, Apart
<1>10. CASE Deliver(q)
  BY <1>t, <1>10 DEF Deliver, deliverWorkflowWebhook, Post, NoRequest, MarkDelivered, MarkRetrying, MarkFailed,
                     UpdateResult, DeliveryTypeOK, handlerVars, rowVars, Apart
<1> QED
  BY <1>1, <1>2, <1>3, <1>4, <1>5, <1>6, <1>7, <1>8, <1>9, <1>10
  DEF userRunWorkflow, executeWorkflow

\* A session leaves every run alone.
LEMMA SessionApart ==
  ASSUME NEW r \in Runs, NEW s \in Sessions, CreateAgentSession(s) \/ CloseAgentSession(s)
  PROVE  Apart(r)
BY DEF CreateAgentSession, CloseAgentSession, handlerVars, rowVars, deliveryVars, Apart

\* Nobody takes back what a caller was told, or moves the run to another session.
LEMMA ToldStands ==
  ASSUME TypeOK, NEW r \in Runs, Handled(r), told[r] # "none", [Next]_vars
  PROVE  told'[r] = told[r] /\ joined'[r] = joined[r]
<1>1. pc[r] \in {"announce", "done", "lost"}
  BY DEF Handled
<1>2. ASSUME NEW q \in Runs,
             \/ \E s \in Sessions \cup {NoSession} : Request(q, s)
             \/ Refuse(q) \/ userRunWorkflow(q) \/ Deliver(q)
      PROVE  told'[r] = told[r] /\ joined'[r] = joined[r]
  <2>1. CASE Announce(q) \/ Deliver(q)
    BY <2>1 DEF Announce, Deliver, handlerVars
  <2>2. CASE r # q
    <3>1. told'[r] = told[r]
      BY <1>2, <2>2, OthersApart DEF Apart
    <3>2. joined' = joined \/ \E s \in Sessions \cup {NoSession} : Request(q, s)
      BY <1>2
      DEF Refuse, userRunWorkflow, CreateWorkflowRun, CreateWorkflowRunFails, executeWorkflow,
          ExecuteStep, RecordStep, RecordStepFails, Complete, CompleteFails, FailRun, FailRunFails,
          Touch, Announce, Deliver, handlerVars
    <3>3. joined'[r] = joined[r]
      BY <2>2, <3>2 DEF Request, TypeOK
    <3> QED
      BY <3>1, <3>3
  <2>3. CASE r = q /\ ~(Announce(q) \/ Deliver(q))
    BY <1>1, <1>2, <2>3
    DEF Request, Refuse, userRunWorkflow, CreateWorkflowRun, CreateWorkflowRunFails,
        executeWorkflow, ExecuteStep, RecordStep, RecordStepFails, Complete, CompleteFails, FailRun,
        FailRunFails, Touch
  <2> QED
    BY <2>1, <2>2, <2>3
<1>3. ASSUME NEW s \in Sessions, CreateAgentSession(s) \/ CloseAgentSession(s)
      PROVE  told'[r] = told[r] /\ joined'[r] = joined[r]
  BY <1>3 DEF CreateAgentSession, CloseAgentSession, handlerVars
<1>4. CASE Crash \/ Rest \/ UNCHANGED vars
  BY <1>4 DEF Crash, Rest, vars, handlerVars
<1> QED
  BY <1>2, <1>3, <1>4 DEF Next

-----------------------------------------------------------------------------
(* The invariant. *)

LEMMA IInvInit == Init => IInv
<1> SUFFICES ASSUME Init PROVE IInv
  OBVIOUS
<1>1. TypeOK
  BY TypeInit
<1>2. ASSUME NEW r \in Runs PROVE RunInv(r)
  BY DEF Init, DeliveryInit, RunInv, Delivered, Tries, AddsUp, Handled, Told, Settled
<1>3. ASSUME NEW s \in Sessions PROVE Noted(s)
  BY DEF Init, Noted
<1> QED
  BY <1>1, <1>2, <1>3 DEF IInv

\* A step of run q keeps types and the invariant of every run.
LEMMA RunStep ==
  ASSUME IInv, NEW q \in Runs,
         \/ \E s \in Sessions \cup {NoSession} : Request(q, s)
         \/ Refuse(q) \/ userRunWorkflow(q) \/ Deliver(q)
  PROVE  TypeOK' /\ \A r \in Runs : RunInv(r)'
<1>i. TypeOK /\ RunInv(q)
  BY DEF IInv
<1>1. TypeOK' /\ RunInv(q)'
  <2>1. ASSUME NEW s \in Sessions \cup {NoSession}, Request(q, s) PROVE TypeOK' /\ RunInv(q)'
    BY <1>i, <2>1, RequestTypes, RequestKeeps
  <2>2. CASE Refuse(q)
    <3>1. NoSession \in Sessions \cup {NoSession}
      OBVIOUS
    <3> QED
      BY <1>i, <2>2, <3>1, RequestTypes, RequestKeeps
  <2>3. CASE CreateWorkflowRun(q) \/ CreateWorkflowRunFails(q)
    BY <1>i, <2>3, CreateTypes, CreateKeeps
  <2>4. CASE ExecuteStep(q)
    BY <1>i, <2>4, ExecuteTypes, ExecuteKeeps
  <2>5. CASE RecordStep(q) \/ RecordStepFails(q)
    BY <1>i, <2>5, RecordTypes, RecordKeeps
  <2>6. CASE Complete(q) \/ CompleteFails(q)
    BY <1>i, <2>6, CompleteTypes, CompleteKeeps
  <2>7. CASE FailRun(q) \/ FailRunFails(q)
    BY <1>i, <2>7, FailTypes, FailKeeps
  <2>8. CASE Touch(q)
    BY <1>i, <2>8, TouchTypes, TouchKeeps
  <2>9. CASE Announce(q)
    BY <1>i, <2>9, AnnounceTypes, AnnounceKeeps
  <2>10. CASE Deliver(q)
    <3>1. Tries(q)
      BY <1>i DEF RunInv, Delivered
    <3> QED
      BY <1>i, <2>10, <3>1, DeliverTypes, DeliverKeeps
  <2> QED
    BY <2>1, <2>2, <2>3, <2>4, <2>5, <2>6, <2>7, <2>8, <2>9, <2>10
    DEF userRunWorkflow, executeWorkflow
<1>2. ASSUME NEW r \in Runs, r # q PROVE RunInv(r)'
  <2>1. Apart(r)
    BY <1>i, <1>2, OthersApart
  <2> QED
    BY <1>2, <2>1, RunSame DEF IInv
<1> QED
  BY <1>1, <1>2

\* No step makes a session point to a run that was not told as completed.
LEMMA NotedStep ==
  ASSUME IInv, [Next]_vars, NEW s \in Sessions
  PROVE  Noted(s)'
<1>i. TypeOK /\ Noted(s)
  BY DEF IInv
<1>1. CASE \E q \in Runs : Touch(q)
  <2>1. PICK q \in Runs : Touch(q)
    BY <1>1
  <2>2. RunInv(q) /\ told'[q] = "completed" /\ joined' = joined
    BY <1>i, <2>1, TouchKeeps DEF IInv, Touch
  <2>3. CASE lastRun'[s] = lastRun[s]
    <3>1. CASE lastRun[s] # NoRun
      <4>1. lastRun[s] \in Runs /\ told[lastRun[s]] = "completed" /\ joined[lastRun[s]] = s
        BY <1>i, <3>1 DEF Noted, TypeOK
      <4>2. told'[lastRun[s]] = "completed"
        BY <1>i, <4>1, ToldStands DEF IInv, RunInv
      <4> QED
        BY <2>2, <2>3, <4>1, <4>2 DEF Noted
    <3> QED
      BY <2>3, <3>1 DEF Noted
  <2>4. CASE lastRun'[s] # lastRun[s]
    <3>1. lastRun'[s] = q /\ s = joined[q]
      BY <1>i, <2>1, <2>4 DEF Touch, TypeOK
    <3> QED
      BY <2>2, <3>1 DEF Noted
  <2> QED
    BY <2>3, <2>4
<1>2. CASE ~ \E q \in Runs : Touch(q)
  <2>1. lastRun' = lastRun
    BY <1>2
    DEF Next, Request, Refuse, userRunWorkflow, CreateWorkflowRun, CreateWorkflowRunFails,
        executeWorkflow, ExecuteStep, RecordStep, RecordStepFails, Complete, CompleteFails, FailRun,
        FailRunFails, Announce, Deliver, CreateAgentSession, CloseAgentSession, Crash, Rest, vars,
        sessionVars
  <2>2. CASE lastRun[s] # NoRun
    <3>1. lastRun[s] \in Runs /\ told[lastRun[s]] = "completed" /\ joined[lastRun[s]] = s
      BY <1>i, <2>2 DEF Noted, TypeOK
    <3>2. told'[lastRun[s]] = "completed" /\ joined'[lastRun[s]] = s
      BY <1>i, <3>1, ToldStands DEF IInv, RunInv
    <3> QED
      BY <2>1, <3>2 DEF Noted
  <2> QED
    BY <2>1, <2>2 DEF Noted
<1> QED
  BY <1>1, <1>2

LEMMA IInvStep == IInv /\ [Next]_vars => IInv'
<1> SUFFICES ASSUME IInv, [Next]_vars PROVE IInv'
  OBVIOUS
<1>1. \A s \in Sessions : Noted(s)'
  BY NotedStep
<1>2. TypeOK' /\ \A r \in Runs : RunInv(r)'
  <2>1. ASSUME NEW q \in Runs,
               \/ \E s \in Sessions \cup {NoSession} : Request(q, s)
               \/ Refuse(q) \/ userRunWorkflow(q) \/ Deliver(q)
        PROVE  TypeOK' /\ \A r \in Runs : RunInv(r)'
    BY <2>1, RunStep
  <2>2. ASSUME NEW s \in Sessions, CreateAgentSession(s) \/ CloseAgentSession(s)
        PROVE  TypeOK' /\ \A r \in Runs : RunInv(r)'
    BY <2>2, SessionTypes, SessionApart, RunSame DEF IInv
  <2>3. CASE Crash
    BY <2>3, CrashTypes, CrashKeeps DEF IInv
  <2>4. CASE UNCHANGED vars
    <3>1. \A r \in Runs : Apart(r)
      BY <2>4 DEF vars, handlerVars, rowVars, deliveryVars, Apart
    <3>2. DeliveryTypeOK'
      BY <2>4, SameDelivery DEF IInv, vars
    <3>3. TypeOK'
      BY <2>4, <3>2 DEF IInv, TypeOK, vars, handlerVars, rowVars, sessionVars
    <3> QED
      BY <3>1, <3>3, RunSame DEF IInv
  <2> QED
    BY <2>1, <2>2, <2>3, <2>4 DEF Next, Rest
<1> QED
  BY <1>1, <1>2 DEF IInv

\* What every step of the handlers, the deliveries and a crash keeps: the types and,
\* what RunInv says of each run and Noted of each session.
THEOREM Invariant == Spec => []IInv
BY IInvInit, IInvStep, PTL DEF Spec

-----------------------------------------------------------------------------
(* The properties. *)

\* The variables keep their types.
THEOREM TypeCorrect == Spec => []TypeOK
<1>1. IInv => TypeOK
  BY DEF IInv
<1> QED
  BY <1>1, Invariant, PTL

\* However many steps a workflow has and whatever they cost, a run that says
\* completed has done each of them and its total is their sum.
THEOREM RunsAddUp == Spec => []CompletedRunAddsUp
<1>1. IInv => CompletedRunAddsUp
  BY DEF IInv, RunInv, AddsUp, CompletedRunAddsUp
<1> QED
  BY <1>1, Invariant, PTL

\* Caller and callback are told what the row says, unless its last UPDATE failed.
THEOREM OutcomeTold == Spec => []OutcomeIsTold
<1>1. IInv => OutcomeIsTold
  <2>1. ASSUME IInv, NEW r \in Runs, r \in heard PROVE told[r] # "none"
    BY <2>1 DEF IInv, RunInv, Handled, Delivered
  <2> QED
    BY <2>1 DEF IInv, RunInv, Told, OutcomeIsTold
<1> QED
  BY <1>1, Invariant, PTL

\* A delivery row is right about what arrived and how often it was tried.
THEOREM DeliveriesTrue == Spec => []DeliveryTellsTheTruth
<1>1. IInv => DeliveryTellsTheTruth
  <2>1. ASSUME IInv, NEW r \in Runs PROVE posts[r] <= MaxAttempts
    <3>1. posts[r] \in 0 .. MaxAttempts
      BY <2>1 DEF IInv, TypeOK, DeliveryTypeOK
    <3> QED
      BY <3>1 DEF MaxAttempts
  <2> QED
    BY <2>1 DEF IInv, RunInv, Delivered, DeliveryTellsTheTruth
<1> QED
  BY <1>1, Invariant, PTL

\* A session only ever points to a completed run that took place in it.
THEOREM SessionsPoint == Spec => []SessionPointsToCompleted
<1>1. IInv => SessionPointsToCompleted
  <2>1. ASSUME IInv, NEW s \in Sessions, lastRun[s] # NoRun
        PROVE  joined[lastRun[s]] = s /\ row[lastRun[s]] = "completed"
    <3>1. lastRun[s] \in Runs /\ joined[lastRun[s]] = s /\ told[lastRun[s]] = "completed"
      BY <2>1 DEF IInv, TypeOK, Noted
    <3> QED
      BY <2>1, <3>1 DEF IInv, RunInv, Told
  <2> QED
    BY <2>1 DEF SessionPointsToCompleted
<1> QED
  BY <1>1, Invariant, PTL

\* An answered run is not left running, nor its event lying about, without a
\* failed statement or a crash.
THEOREM AnsweredClosed == Spec => []AnsweredIsClosed
<1>1. IInv => AnsweredIsClosed
  <2> SUFFICES ASSUME IInv, NEW r \in Runs
               PROVE  /\ pc[r] \in {"done", "refused"} /\ r \notin doubted => row[r] # "running"
                      /\ pc[r] = "done" /\ r \in Hooked \ mislaid /\ sender[r] # "lost" =>
                           r \in Sending \/ delivery[r] \in Settled
    BY DEF AnsweredIsClosed
  <2>1. TypeOK /\ DeliveryTypeOK /\ Delivered(r) /\ Handled(r) /\ Told(r)
    BY DEF IInv, RunInv, TypeOK
  <2>2. pc[r] \in {"done", "refused"} /\ r \notin doubted => row[r] # "running"
    <3>1. told[r] \in {"none", "completed", "failed"}
      BY <2>1 DEF TypeOK
    <3> QED
      BY <2>1, <3>1 DEF Handled, Told
  <2>3. ASSUME pc[r] = "done", r \in Hooked \ mislaid, sender[r] # "lost"
        PROVE  r \in Sending \/ delivery[r] \in Settled
    <3>1. sender[r] \in {"post", "accepted", "refused", "unsent", "over"}
      BY <2>1, <2>3 DEF Handled, DeliveryTypeOK
    <3> QED
      BY <2>1, <2>3, <3>1 DEF Delivered, Sending
  <2> QED
    BY <2>2, <2>3
<1> QED
  BY <1>1, Invariant, PTL

=============================================================================
