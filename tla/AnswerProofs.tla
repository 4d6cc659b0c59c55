---------------------------- MODULE AnswerProofs ----------------------------
(***************************************************************************)
(* The two ways in which the answer of a provider reaches a client, each   *)
(* module by itself: they share the provider and no variable.              *)
(*                                                                         *)
(* TaskEngine, for any number of tasks and workers, any batch size and any *)
(* number of crashes: type correctness, that a final status is true and    *)
(* final, and that the engine implements AsyncJobs.                        *)
(*                                                                         *)
(* StreamRelay, for answers and channels of any length and any number of   *)
(* providers: type correctness, the order of the chunks, the bill and what *)
(* [DONE] stands for.                                                      *)
(***************************************************************************)
EXTENDS TaskEngine, StreamRelay, FiniteSetTheorems, SequenceTheorems, TLAPS

-----------------------------------------------------------------------------
(* Types. *)

\* The engine's words for the provider's: final only for the two ends.
LEMMA Normalized ==
  ASSUME NEW s \in JobStates
  PROVE  /\ normalizeTaskStatus(s) = "completed" <=> s = "succeeded"
         /\ normalizeTaskStatus(s) = "failed" <=> s = "failed"
BY DEF normalizeTaskStatus, JobStates

LEMMA TypeInit == Init => TypeOK
BY TaskConstants DEF Init, TypeOK, JobStates, FinalStatuses

LEMMA TypeNext == TypeOK /\ [Next]_vars => TypeOK'
<1> SUFFICES ASSUME TypeOK, [Next]_vars PROVE TypeOK'
  OBVIOUS
<1>1. CASE UNCHANGED vars
  BY <1>1 DEF TypeOK, vars
<1>2. ASSUME NEW t \in Tasks, Submit(t) PROVE TypeOK'
  <2>1. CASE SubmitRefused(t) \/ SubmitUpstream(t)
    BY <2>1 DEF TypeOK, SubmitRefused, SubmitUpstream, JobStates
  <2>2. ASSUME InsertTask(t)
        PROVE  row' \in [Tasks -> {"none", "submitted"} \cup FinalStatuses]
               /\ born' \in [Tasks -> Nat]
    <3>1. Cardinality(Rows) \in Nat
      <4>1. IsFiniteSet(Rows)
        BY TaskConstants, FS_Subset DEF Rows
      <4> QED
        BY <4>1, FS_CardinalityType
    <3> QED
      BY <2>2, <3>1 DEF InsertTask, TypeOK
  <2>3. CASE CreateTask(t) \/ CreateTaskFails(t)
    BY <2>2, <2>3 DEF TypeOK, CreateTask, CreateTaskFails
  <2> QED
    BY <1>2, <2>1, <2>3 DEF Submit
<1>3. ASSUME NEW t \in Tasks, JobMoves(t) PROVE TypeOK'
  BY <1>3 DEF TypeOK, JobMoves, JobStates, FinalStatuses
<1>4. ASSUME NEW w \in Workers, pollTasks(w) PROVE TypeOK'
  <2>1. CASE Fetch(w)
    BY <2>1 DEF TypeOK, Fetch, GetPendingTasks, OpenTasks
  <2>2. ASSUME NEW t \in Tasks, Poll(w, t) PROVE TypeOK'
    BY <2>2 DEF TypeOK, Poll, Drop
  <2>3. ASSUME NEW t \in Tasks,
               PollFails(w, t) \/ UpdateTaskStatus(w, t) \/ UpdateFails(w, t)
        PROVE  TypeOK'
    BY <2>3 DEF TypeOK, PollFails, UpdateTaskStatus, UpdateFails, Drop
  <2> QED
    BY <1>4, <2>1, <2>2, <2>3 DEF pollTasks
<1>5. CASE Crash
  BY <1>5, TaskConstants DEF TypeOK, Crash
<1>6. CASE Idle
  BY <1>1, <1>6 DEF Idle
<1> QED
  BY <1>1, <1>2, <1>3, <1>4, <1>5, <1>6 DEF Next

\* Type correctness, for every number of tasks, workers and crashes.
THEOREM TypeCorrect == Spec => []TypeOK
BY TypeInit, TypeNext, PTL DEF Spec

-----------------------------------------------------------------------------
(* The inductive invariant. *)

\* A task has a row only once its handler got that far, and a job before it.
Submitted(t) ==
  /\ submission[t] = "idle" => row[t] = "none" /\ job[t] = "none"
  /\ submission[t] = "created" => row[t] = "none" /\ job[t] # "none"
  /\ submission[t] = "accepted" => row[t] # "none" /\ job[t] # "none"

\* The job's state and its recorded end agree, and the end is recorded once.
Recorded(t) ==
  /\ job[t] \in {"none", "running"} => outcome[t] = "none"
  /\ job[t] = "succeeded" => outcome[t] = "completed"
  /\ job[t] = "failed" => outcome[t] = "failed"

\* A final status is the recorded end.
Truthful(t) == row[t] \in FinalStatuses => row[t] = outcome[t]

\* Rows are born at different times.
Ages ==
  /\ \A t \in Rows : born[t] <= Cardinality(Rows)
  /\ \A s, t \in Rows : born[s] = born[t] => s = t

\* A worker deals with tasks that have rows, and what it found and has not
\* written yet is how the oldest of them ended.
Worked(w) ==
  /\ batch[w] \subseteq Rows
  /\ batch[w] = {} => found[w] = "none"
  /\ found[w] # "none" => \A t \in batch[w] : AtHand(w, t) => found[w] = outcome[t]

IInv ==
  /\ TypeOK
  /\ \A t \in Tasks : Submitted(t) /\ Recorded(t) /\ Truthful(t)
  /\ Ages
  /\ \A w \in Workers : Worked(w)

LEMMA RowsFinite == IsFiniteSet(Rows) /\ Cardinality(Rows) \in Nat
<1>1. IsFiniteSet(Rows)
  BY TaskConstants, FS_Subset DEF Rows
<1> QED
  BY <1>1, FS_CardinalityType

LEMMA InvInit == Init => IInv
<1> SUFFICES ASSUME Init PROVE IInv
  OBVIOUS
<1>1. Rows = {}
  BY DEF Init, Rows
<1>2. \A t \in Tasks : Submitted(t) /\ Recorded(t) /\ Truthful(t)
  BY DEF Init, Submitted, Recorded, Truthful, FinalStatuses
<1>3. \A w \in Workers : Worked(w)
  BY DEF Init, Worked
<1> QED
  BY <1>1, <1>2, <1>3, TypeInit DEF IInv, Ages

\* A step that leaves the rows' existence and their ages alone.
LEMMA SameRows ==
  ASSUME Ages, Rows' = Rows, born' = born
  PROVE  Ages'
BY DEF Ages

\* Steps in which a worker's tasks, and the ends on record, stay the same.
LEMMA SameWork ==
  ASSUME NEW w \in Workers, Worked(w), Rows \subseteq Rows',
         batch'[w] = batch[w], found'[w] = found[w],
         \A t \in Rows : born'[t] = born[t] /\ outcome'[t] = outcome[t]
  PROVE  Worked(w)'
<1>1. batch'[w] \subseteq Rows'
  BY DEF Worked
<1>2. ASSUME found'[w] # "none", NEW t \in batch'[w], AtHand(w, t)'
      PROVE  found'[w] = outcome'[t]
  <2>1. t \in batch[w] /\ t \in Rows
    BY <1>2 DEF Worked
  <2>2. \A d \in batch[w] : born[t] <= born[d]
    BY <1>2, <2>1 DEF AtHand, Worked
  <2>3. AtHand(w, t)
    BY <2>1, <2>2 DEF AtHand
  <2> QED
    BY <1>2, <2>1, <2>3 DEF Worked
<1> QED
  BY <1>1, <1>2 DEF Worked

\* The INSERT of a row gives it an age of its own.
LEMMA InsertKeepsAges ==
  ASSUME TypeOK, Ages, NEW t \in Tasks, row[t] = "none", InsertTask(t)
  PROVE  Ages' /\ Rows' = Rows \cup {t}
<1>1. Rows' = Rows \cup {t}
  BY DEF TypeOK, InsertTask, Rows
<1>2. t \notin Rows
  BY DEF Rows
<1>3. Cardinality(Rows') = Cardinality(Rows) + 1
  BY <1>1, <1>2, RowsFinite, FS_AddElement
<1>4. \A s \in Rows : s # t /\ born'[s] = born[s] /\ born[s] \in Nat
  BY <1>2 DEF TypeOK, InsertTask, Rows
<1>5. born'[t] = Cardinality(Rows) + 1
  BY DEF TypeOK, InsertTask
<1>6. \A s \in Rows' : born'[s] <= Cardinality(Rows')
  BY <1>1, <1>3, <1>4, <1>5, RowsFinite DEF Ages
<1>7. \A r, s \in Rows' : born'[r] = born'[s] => r = s
  BY <1>1, <1>4, <1>5, RowsFinite DEF Ages
<1> QED
  BY <1>1, <1>6, <1>7 DEF Ages

LEMMA SubmitKeepsInv ==
  ASSUME IInv, TypeOK', NEW t \in Tasks, Submit(t)
  PROVE  IInv'
<1> USE DEF IInv
<1>1. CASE SubmitRefused(t) \/ SubmitUpstream(t)
  <2>1. UNCHANGED <<outcome, row, born, batch, found>>
    BY <1>1 DEF SubmitRefused, SubmitUpstream
  <2>2. \A s \in Tasks : Submitted(s)' /\ Recorded(s)' /\ Truthful(s)'
    BY <1>1, <2>1 DEF SubmitRefused, SubmitUpstream, Submitted, Recorded, Truthful, TypeOK
  <2>3. Rows' = Rows
    BY <2>1 DEF Rows
  <2>4. \A w \in Workers : Worked(w)'
    BY <2>1, <2>3, SameWork
  <2> QED
    BY <2>1, <2>2, <2>3, <2>4, SameRows
<1>2. CASE CreateTask(t) \/ CreateTaskFails(t)
  <2>1. /\ UNCHANGED <<job, outcome, batch, found>>
        /\ submission[t] = "created" /\ row[t] = "none" /\ job[t] # "none"
        /\ InsertTask(t) \/ UNCHANGED <<row, born>>
        /\ CreateTask(t) => InsertTask(t)
    BY <1>2 DEF CreateTask, CreateTaskFails, Submitted
  <2>2. Ages' /\ Rows \subseteq Rows'
    <3>1. CASE InsertTask(t)
      BY <2>1, <3>1, InsertKeepsAges
    <3>2. CASE UNCHANGED <<row, born>>
      BY <3>2, SameRows DEF Rows
    <3> QED
      BY <2>1, <3>1, <3>2
  <2>3. \A s \in Rows : born'[s] = born[s] /\ outcome'[s] = outcome[s]
    BY <2>1 DEF Rows, InsertTask, TypeOK
  <2>4. \A s \in Tasks : Submitted(s)'
    BY <1>2, <2>1 DEF CreateTask, CreateTaskFails, InsertTask, Submitted, TypeOK
  <2>5. \A s \in Tasks : Recorded(s)' /\ Truthful(s)'
    BY <2>1 DEF InsertTask, Recorded, Truthful, TypeOK, FinalStatuses
  <2>6. \A w \in Workers : Worked(w)'
    BY <2>1, <2>2, <2>3, SameWork
  <2> QED
    BY <2>2, <2>4, <2>5, <2>6
<1> QED
  BY <1>1, <1>2 DEF Submit

LEMMA JobKeepsInv ==
  ASSUME IInv, TypeOK', NEW t \in Tasks, JobMoves(t)
  PROVE  IInv'
<1> USE DEF IInv
<1>1. UNCHANGED <<submission, row, born, batch, found>> /\ Rows' = Rows
  BY DEF JobMoves, Rows
<1>2. \A s \in Tasks : outcome[s] # "none" => outcome'[s] = outcome[s]
  BY DEF JobMoves, Recorded, TypeOK
<1>3. \A s \in Tasks : Submitted(s)' /\ Recorded(s)'
  BY <1>1 DEF JobMoves, Submitted, Recorded, TypeOK
<1>4. \A s \in Tasks : Truthful(s)'
  BY <1>1, <1>2 DEF Truthful, FinalStatuses
<1>5. \A w \in Workers : Worked(w)'
  <2> SUFFICES ASSUME NEW w \in Workers PROVE Worked(w)'
    OBVIOUS
  <2>1. ASSUME found[w] # "none", NEW s \in batch[w], AtHand(w, s)'
        PROVE  found[w] = outcome'[s]
    <3>1. AtHand(w, s)
      BY <1>1, <2>1 DEF AtHand
    <3>2. found[w] = outcome[s] /\ s \in Tasks
      BY <2>1, <3>1 DEF Worked, Rows
    <3> QED
      BY <1>2, <2>1, <3>2
  <2> QED
    BY <1>1, <2>1 DEF Worked
<1> QED
  BY <1>1, <1>3, <1>4, <1>5, SameRows

\* What a worker's step leaves to show: its own tasks.
LEMMA WorkKeepsInv ==
  ASSUME IInv, TypeOK', NEW w \in Workers, pollTasks(w)
  PROVE  IInv'
<1> USE DEF IInv
<1>1. UNCHANGED <<submission, job, outcome, born>>
  BY DEF pollTasks, Fetch, Poll, PollFails, UpdateTaskStatus, UpdateFails
<1>2. \A t \in Tasks : row'[t] = row[t]
                       \/ (row[t] # "none" /\ row'[t] \in FinalStatuses /\ row'[t] = outcome[t])
  <2>1. ASSUME NEW t \in Tasks, UpdateTaskStatus(w, t)
        PROVE  row[t] # "none" /\ row' = [row EXCEPT ![t] = found[w]]
               /\ found[w] = outcome[t] /\ found[w] \in FinalStatuses
    <3>1. t \in batch[w] /\ AtHand(w, t) /\ found[w] # "none"
          /\ row' = [row EXCEPT ![t] = found[w]]
      BY <2>1 DEF UpdateTaskStatus, AtHand
    <3> QED
      BY <3>1 DEF Worked, TypeOK, Rows
  <2>2. CASE \E t \in Tasks : UpdateTaskStatus(w, t)
    <3>1. PICK t \in Tasks : UpdateTaskStatus(w, t)
      BY <2>2
    <3> QED
      BY <2>1, <3>1 DEF TypeOK
  <2>3. CASE UNCHANGED row
    BY <2>3
  <2> QED
    BY <2>2, <2>3 DEF pollTasks, Fetch, Poll, PollFails, UpdateFails
<1>3. Rows' = Rows
  BY <1>2 DEF Rows, FinalStatuses
<1>4. \A t \in Tasks : Submitted(t)' /\ Recorded(t)' /\ Truthful(t)'
  BY <1>1, <1>2 DEF Submitted, Recorded, Truthful, FinalStatuses
<1>5. \A v \in Workers : v # w => batch'[v] = batch[v] /\ found'[v] = found[v]
  BY DEF pollTasks, Fetch, Poll, PollFails, UpdateTaskStatus, UpdateFails, Drop, TypeOK
<1>6. \A v \in Workers : v # w => Worked(v)'
  BY <1>1, <1>3, <1>5, SameWork
<1>7. Worked(w)'
  <2>1. ASSUME batch'[w] \subseteq Rows, found'[w] = "none" PROVE Worked(w)'
    BY <1>3, <2>1 DEF Worked
  <2>2. CASE Fetch(w)
    <3>1. batch'[w] = GetPendingTasks /\ found'[w] = found[w] /\ batch[w] = {}
      BY <2>2 DEF Fetch, TypeOK
    <3>2. GetPendingTasks \subseteq Rows
      BY DEF GetPendingTasks, OpenTasks, OpenStatuses, Rows
    <3>3. found[w] = "none"
      BY <3>1 DEF Worked
    <3> QED
      BY <2>1, <3>1, <3>2, <3>3
  <2>3. ASSUME NEW t \in Tasks,
               PollFails(w, t) \/ UpdateTaskStatus(w, t) \/ UpdateFails(w, t)
        PROVE  Worked(w)'
    <3>1. batch'[w] \subseteq batch[w] /\ found'[w] = "none"
      BY <2>3 DEF PollFails, UpdateTaskStatus, UpdateFails, Drop, TypeOK
    <3> QED
      BY <2>1, <3>1 DEF Worked
  <2>4. ASSUME NEW t \in Tasks, Poll(w, t) PROVE Worked(w)'
    <3> DEFINE status == normalizeTaskStatus(job[t])
    <3>1. CASE status \notin FinalStatuses
      <4>1. batch'[w] \subseteq batch[w] /\ found'[w] = "none"
        BY <2>4, <3>1 DEF Poll, Drop, TypeOK
      <4> QED
        BY <2>1, <4>1 DEF Worked
    <3>2. CASE status \in FinalStatuses
      <4>1. batch' = batch /\ found'[w] = status /\ AtHand(w, t)
        BY <2>4, <3>2 DEF Poll, TypeOK
      <4>2. status = outcome[t]
        <5>1. job[t] \in JobStates
          BY DEF TypeOK
        <5> QED
          BY <3>2, <5>1, Normalized DEF Recorded, FinalStatuses
      <4>3. ASSUME NEW s \in batch'[w], AtHand(w, s)' PROVE s = t
        <5>1. s \in Rows /\ t \in Rows /\ s \in Tasks
          BY <4>1 DEF Worked, AtHand, Rows
        <5>2. born[s] <= born[t] /\ born[t] <= born[s]
          BY <1>1, <4>1, <4>3 DEF AtHand
        <5>3. born[s] \in Nat /\ born[t] \in Nat
          BY <5>1 DEF TypeOK
        <5>4. born[s] = born[t]
          BY <5>2, <5>3
        <5> QED
          BY <5>1, <5>4 DEF Ages
      <4>4. batch'[w] \subseteq Rows' /\ batch'[w] # {}
        BY <1>3, <4>1 DEF Worked, AtHand
      <4>5. found'[w] = outcome'[t]
        BY <1>1, <4>1, <4>2
      <4> HIDE DEF status
      <4> QED
        BY <4>3, <4>4, <4>5 DEF Worked
    <3> QED
      BY <3>1, <3>2
  <2> QED
    BY <2>2, <2>3, <2>4 DEF pollTasks
<1> QED
  BY <1>1, <1>3, <1>4, <1>6, <1>7, SameRows

LEMMA CrashKeepsInv ==
  ASSUME IInv, TypeOK', Crash
  PROVE  IInv'
<1> USE DEF IInv
<1>1. UNCHANGED <<job, outcome, row, born>> /\ Rows' = Rows
  BY DEF Crash, Rows
<1>2. \A t \in Tasks : Submitted(t)' /\ Recorded(t)' /\ Truthful(t)'
  BY <1>1 DEF Crash, Submitted, Recorded, Truthful, TypeOK
<1>3. \A w \in Workers : Worked(w)'
  BY DEF Crash, Worked
<1> QED
  BY <1>1, <1>2, <1>3, SameRows

LEMMA InvNext == IInv /\ [Next]_vars => IInv'
<1> SUFFICES ASSUME IInv, [Next]_vars PROVE IInv'
  OBVIOUS
<1>1. TypeOK'
  BY TypeNext DEF IInv
<1>2. CASE UNCHANGED vars
  <2>1. Rows' = Rows
    BY <1>2 DEF vars, Rows
  <2>2. \A t \in Tasks : Submitted(t)' /\ Recorded(t)' /\ Truthful(t)'
    BY <1>2 DEF IInv, vars, Submitted, Recorded, Truthful
  <2>3. \A w \in Workers : Worked(w)'
    BY <1>2, <2>1, SameWork DEF IInv, vars
  <2> QED
    BY <1>1, <1>2, <2>1, <2>2, <2>3, SameRows DEF IInv, vars
<1>3. CASE Idle
  BY <1>2, <1>3 DEF Idle
<1> QED
  BY <1>1, <1>2, <1>3, SubmitKeepsInv, JobKeepsInv, WorkKeepsInv, CrashKeepsInv DEF Next

\* The inductive invariant of the task engine holds of every behaviour.
LEMMA Invariant == Spec => []IInv
BY InvInit, InvNext, PTL DEF Spec

\* A client that got an id can read its task.
THEOREM AcceptedStored == Spec => []AcceptedIsStored
<1>1. IInv => AcceptedIsStored
  BY DEF IInv, Submitted, AcceptedIsStored
<1> QED
  BY <1>1, Invariant, PTL

\* A final status is how the job ended, however old the poll that found it.
THEOREM FinalTrue == Spec => []FinalIsTrue
<1>1. IInv => FinalIsTrue
  BY DEF IInv, Truthful, FinalIsTrue
<1> QED
  BY <1>1, Invariant, PTL
-----------------------------------------------------------------------------
(* Refinement. *)

\* The engine implements AsyncJobs: a task is opened once, and told once, and
\* truly, how it ended.
THEOREM Implementation == Spec => ImplementsJobs
<1>1. Init => Jobs!Init
  BY DEF Init, Jobs!Init
<1>2. IInv /\ [Next]_vars => [Jobs!Next]_Jobs!jobsVars
  <2> SUFFICES ASSUME IInv, [Next]_vars PROVE [Jobs!Next]_Jobs!jobsVars
    OBVIOUS
  <2> USE DEF IInv
  <2>1. CASE UNCHANGED <<outcome, row>>
    BY <2>1 DEF Jobs!jobsVars
  <2>2. ASSUME NEW t \in Tasks, Submit(t) PROVE [Jobs!Next]_Jobs!jobsVars
    <3>1. CASE InsertTask(t) /\ submission[t] = "created" /\ UNCHANGED outcome
      BY <3>1 DEF InsertTask, Submitted, Jobs!Next, Jobs!Open
    <3> QED
      BY <2>1, <2>2, <3>1 DEF Submit, SubmitRefused, SubmitUpstream, CreateTask, CreateTaskFails
  <2>3. ASSUME NEW t \in Tasks, JobMoves(t) PROVE [Jobs!Next]_Jobs!jobsVars
    <3>1. UNCHANGED row
      BY <2>3 DEF JobMoves
    <3>2. \/ UNCHANGED outcome
          \/ outcome[t] = "none"
             /\ \E o \in {"completed", "failed"} : outcome' = [outcome EXCEPT ![t] = o]
      BY <2>3 DEF JobMoves, Recorded
    <3> QED
      BY <2>1, <3>1, <3>2 DEF Jobs!Next, Jobs!End
  <2>4. ASSUME NEW w \in Workers, NEW t \in Tasks, UpdateTaskStatus(w, t)
        PROVE  [Jobs!Next]_Jobs!jobsVars
    <3>1. /\ row' = [row EXCEPT ![t] = outcome[t]] /\ UNCHANGED outcome
          /\ outcome[t] \in FinalStatuses /\ t \in Rows
      BY <2>4 DEF UpdateTaskStatus, Worked, AtHand, TypeOK
    <3>2. CASE row[t] \in FinalStatuses
      <4>1. row[t] = outcome[t]
        BY <3>2 DEF Truthful
      <4>2. row' = row
        BY <3>1, <4>1 DEF TypeOK
      <4> QED
        BY <2>1, <3>1, <4>2
    <3>3. CASE row[t] = "submitted"
      BY <3>1, <3>3 DEF Jobs!Next, Jobs!Tell, FinalStatuses
    <3> QED
      BY <3>1, <3>2, <3>3 DEF Rows, TypeOK
  <2>5. ASSUME NEW w \in Workers, pollTasks(w) PROVE [Jobs!Next]_Jobs!jobsVars
    BY <2>1, <2>4, <2>5 DEF pollTasks, Fetch, Poll, PollFails, UpdateFails
  <2>6. CASE Crash \/ Idle \/ UNCHANGED vars
    BY <2>1, <2>6 DEF Crash, Idle, vars
  <2> QED
    BY <2>2, <2>3, <2>5, <2>6 DEF Next
<1> QED
  BY <1>1, <1>2, Invariant, PTL DEF Spec, ImplementsJobs, Jobs!Spec

-----------------------------------------------------------------------------
(* The stream (StreamRelay). *)

-----------------------------------------------------------------------------
(* Sequences. *)

\* An element appended to the second of two sequences is appended to both.
LEMMA AppendConcat ==
  ASSUME NEW S, NEW s \in Seq(S), NEW t \in Seq(S), NEW e \in S
  PROVE  s \o Append(t, e) = Append(s \o t, e)
<1>1. Append(t, e) = t \o <<e>> /\ Append(s \o t, e) = (s \o t) \o <<e>>
  BY AppendIsConcat, ConcatProperties
<1>2. <<e>> \in Seq(S)
  OBVIOUS
<1> QED
  BY <1>1, <1>2, ConcatAssociative

\* A sequence is its head followed by its tail.
LEMMA HeadFirst ==
  ASSUME NEW S, NEW u \in Seq(S), u # <<>>
  PROVE  Head(u) \in S /\ Tail(u) \in Seq(S) /\ <<Head(u)>> \o Tail(u) = u
<1>1. Head(u) \in S /\ Tail(u) \in Seq(S) /\ <<Head(u)>> \in Seq(S)
  BY HeadTailProperties
<1>2. Len(<<Head(u)>> \o Tail(u)) = Len(u)
  BY <1>1, HeadTailProperties, ConcatProperties, LenProperties
<1>3. ASSUME NEW i \in 1 .. Len(u) PROVE (<<Head(u)>> \o Tail(u))[i] = u[i]
  BY <1>1, <1>3, HeadTailProperties, ConcatProperties, LenProperties
<1> QED
  BY <1>1, <1>2, <1>3, SeqEqual, ConcatProperties

\* So the head may go to the sequence before.
LEMMA HeadRegrouped ==
  ASSUME NEW S, NEW s \in Seq(S), NEW u \in Seq(S), u # <<>>
  PROVE  (s \o <<Head(u)>>) \o Tail(u) = s \o u
<1> DEFINE h == <<Head(u)>>
           t == Tail(u)
<1>1. h \in Seq(S) /\ t \in Seq(S) /\ h \o t = u
  BY HeadFirst
<1> HIDE DEF h, t
<1>2. ASSUME NEW x \in Seq(S), NEW y \in Seq(S), NEW z \in Seq(S)
      PROVE  (x \o y) \o z = x \o (y \o z)
  BY ConcatAssociative, SMTT(30)
<1>3. (s \o h) \o t = s \o (h \o t)
  BY <1>1, <1>2, Zenon
<1>4. (s \o h) \o t = s \o u
  BY <1>1, <1>3, Zenon
<1> QED
  BY <1>4 DEF h, t

-----------------------------------------------------------------------------
(* Types. *)

\* A stage that holds at most one chunk is a sequence of chunks.
LEMMA Singles == OneOrNone \subseteq Seq(Chunks)
<1>1. ASSUME NEW i \in Chunks PROVE <<i>> \in Seq(Chunks)
  BY <1>1
<1>2. <<>> \in Seq(Chunks)
  OBVIOUS
<1> QED
  BY <1>1, <1>2 DEF OneOrNone

LEMMA RelayTypeInit == RelayInit => RelayTypeOK
<1> SUFFICES ASSUME RelayInit PROVE RelayTypeOK
  OBVIOUS
<1>1. PICK n \in 0 .. MaxChunks : script \in [1 .. n -> BOOLEAN]
  BY DEF RelayInit
<1>2. n \in Nat /\ n <= MaxChunks
  BY <1>1, StreamConstants
<1>3. script \in Seq(BOOLEAN) /\ Len(script) = n
  BY <1>1, <1>2
<1> QED
  BY <1>2, <1>3, StreamConstants DEF RelayInit, RelayTypeOK, OneOrNone, Unbilled, Chunks

LEMMA RelayTypeStep == RelayTypeOK /\ [RelayNext]_relayVars => RelayTypeOK'
<1> SUFFICES ASSUME RelayTypeOK, [RelayNext]_relayVars PROVE RelayTypeOK'
  OBVIOUS
<1> USE StreamConstants
<1>1. CASE InitiationFails
  BY <1>1 DEF RelayTypeOK, InitiationFails, producerVars, wrapperVars, writerVars, Unbilled
<1>2. CASE Initiate
  BY <1>2 DEF RelayTypeOK, Initiate, producerVars, wrapperVars, writerVars, Unbilled
<1>3. CASE Produce
  <2>1. read + 1 \in Chunks /\ read + 1 \in 0 .. Len(script)
    BY <1>3 DEF RelayTypeOK, Produce, Chunks
  <2>2. upstream' \in Seq(Chunks) /\ sent' \in Seq(Chunks) /\ Len(upstream') <= Buffer
    BY <1>3, <2>1 DEF RelayTypeOK, Produce
  <2> QED
    BY <1>3, <2>1, <2>2 DEF RelayTypeOK, Produce, answerVars, wrapperVars, writerVars, Unbilled
<1>4. CASE SkipChunk
  <2>1. read + 1 \in 0 .. Len(script)
    BY <1>4 DEF RelayTypeOK, SkipChunk
  <2> QED
    BY <1>4, <2>1 DEF RelayTypeOK, SkipChunk, answerVars, wrapperVars, writerVars, Unbilled
<1>5. CASE CloseUpstream
  BY <1>5 DEF RelayTypeOK, CloseUpstream, answerVars, wrapperVars, writerVars, Unbilled
<1>6. CASE Take
  <2>1. /\ Head(upstream) \in Chunks /\ Tail(upstream) \in Seq(Chunks)
        /\ Len(Tail(upstream)) <= Buffer
    BY <1>6, HeadTailProperties, LenProperties DEF RelayTypeOK, Take
  <2>2. hand' \in OneOrNone /\ hand' # <<>> /\ usage' \in 0 .. MaxChunks
    BY <1>6, <2>1 DEF RelayTypeOK, Take, OneOrNone, Chunks
  <2> QED
    BY <1>6, <2>1, <2>2 DEF RelayTypeOK, Take, answerVars, producerVars, writerVars, Unbilled
<1>7. CASE HandOver
  BY <1>7 DEF RelayTypeOK, HandOver, answerVars, producerVars, Unbilled, OneOrNone
<1>8. CASE StreamComplete
  BY <1>8 DEF RelayTypeOK, StreamComplete, answerVars, producerVars, writerVars, Unbilled
<1>9. CASE Settle
  <2>1. billed' \in 0 .. Unbilled
    BY <1>9 DEF RelayTypeOK, Settle, Unbilled
  <2> QED
    BY <1>9, <2>1 DEF RelayTypeOK, Settle, answerVars, producerVars, writerVars, Unbilled
<1>10. CASE FlushChunk
  <2>1. client' \in Seq(Chunks)
    BY <1>10, Singles, ConcatProperties DEF RelayTypeOK, FlushChunk
  <2> QED
    BY <1>10, <2>1 DEF RelayTypeOK, FlushChunk, answerVars, producerVars, wrapperVars, Unbilled,
        OneOrNone
<1>11. CASE FlushFails
  BY <1>11 DEF RelayTypeOK, FlushFails, answerVars, producerVars, wrapperVars, Unbilled, OneOrNone
<1>12. CASE Finish
  BY <1>12 DEF RelayTypeOK, Finish, answerVars, producerVars, wrapperVars, Unbilled
<1>13. CASE ClientLeaves
  BY <1>13 DEF RelayTypeOK, ClientLeaves, answerVars, producerVars, wrapperVars, writerVars,
      Unbilled
<1>14. CASE UNCHANGED relayVars
  BY <1>14 DEF RelayTypeOK, relayVars, answerVars, producerVars, wrapperVars, writerVars, Unbilled
<1> QED
  BY <1>1, <1>2, <1>3, <1>4, <1>5, <1>6, <1>7, <1>8, <1>9, <1>10, <1>11, <1>12, <1>13, <1>14
  DEF RelayNext, Producer, Wrapper, Writer, Quiescent

-----------------------------------------------------------------------------
(* The order of the chunks. *)

LEMMA FlowStep == RelayTypeOK /\ ChunksFlowInOrder /\ [RelayNext]_relayVars => ChunksFlowInOrder'
<1> SUFFICES ASSUME RelayTypeOK, ChunksFlowInOrder, [RelayNext]_relayVars, connected'
             PROVE  sent' = client' \o page' \o hand' \o upstream'
  BY DEF ChunksFlowInOrder
<1>c. connected
  BY DEF RelayNext, InitiationFails, Initiate, Producer, Produce, SkipChunk, CloseUpstream,
      Wrapper, Take,
         HandOver, StreamComplete, Settle, Writer, FlushChunk, FlushFails, Finish, ClientLeaves,
         Quiescent, relayVars
<1>f. sent = client \o page \o hand \o upstream
  BY <1>c DEF ChunksFlowInOrder
<1>t. /\ sent \in Seq(Chunks) /\ upstream \in Seq(Chunks) /\ client \in Seq(Chunks)
      /\ page \in Seq(Chunks) /\ hand \in Seq(Chunks)
      /\ client \o page \in Seq(Chunks) /\ client \o page \o hand \in Seq(Chunks)
  BY Singles, ConcatProperties DEF RelayTypeOK
<1>1. CASE Produce
  <2>1. read + 1 \in Chunks
    BY <1>1, StreamConstants DEF RelayTypeOK, Produce, Chunks
  <2>2. client' = client /\ page' = page /\ hand' = hand
    BY <1>1 DEF Produce, wrapperVars, writerVars
  <2>3. (client \o page \o hand) \o Append(upstream, read + 1)
          = Append((client \o page \o hand) \o upstream, read + 1)
    BY <1>t, <2>1, AppendConcat
  <2> QED
    BY <1>1, <1>f, <2>2, <2>3 DEF Produce
<1>2. CASE Take
  <2>1. /\ upstream # <<>> /\ hand = <<>> /\ hand' = <<Head(upstream)>>
        /\ upstream' = Tail(upstream) /\ client' = client /\ page' = page /\ sent' = sent
    BY <1>2 DEF Take, RelayTypeOK, writerVars, producerVars
  <2>2. /\ Tail(upstream) \in Seq(Chunks) /\ <<Head(upstream)>> \in Seq(Chunks)
        /\ <<Head(upstream)>> \o Tail(upstream) = upstream
    BY <1>t, <2>1, HeadFirst
  <2>3. (client \o page) \o hand = client \o page
    BY <1>t, <2>1, ConcatEmptySeq
  <2>4. ((client \o page) \o <<Head(upstream)>>) \o Tail(upstream) = (client \o page) \o upstream
    BY <1>t, <2>1, HeadRegrouped, Zenon
  <2> QED
    BY <1>f, <2>1, <2>3, <2>4
<1>3. CASE HandOver
  <2>1. /\ page = <<>> /\ page' = hand /\ hand' = <<>> /\ upstream' = upstream
        /\ client' = client /\ sent' = sent
    BY <1>3 DEF HandOver, RelayTypeOK, producerVars
  <2>2. client \o page = client /\ client \o hand \in Seq(Chunks)
    BY <1>t, <2>1, ConcatEmptySeq, ConcatProperties
  <2>3. (client \o hand) \o <<>> = client \o hand
    BY <2>2, ConcatEmptySeq
  <2> QED
    BY <1>f, <2>1, <2>2, <2>3
<1>4. CASE FlushChunk
  <2>1. /\ client' = client \o page /\ page' = <<>> /\ hand' = hand /\ upstream' = upstream
        /\ sent' = sent
    BY <1>4, <1>c DEF FlushChunk, producerVars, wrapperVars
  <2>2. (client \o page) \o <<>> = client \o page
    BY <1>t, ConcatEmptySeq
  <2> QED
    BY <1>f, <2>1, <2>2
<1>5. CASE ~(Produce \/ Take \/ HandOver \/ FlushChunk)
  <2>1. ~FlushFails
    BY <1>c DEF FlushFails
  <2>2. /\ sent' = sent /\ client' = client /\ page' = page /\ hand' = hand
        /\ upstream' = upstream
    BY <1>5, <2>1
    DEF RelayNext, InitiationFails, Initiate, Producer, SkipChunk, CloseUpstream, Wrapper,
        StreamComplete,
        Settle, Writer, Finish, ClientLeaves, Quiescent, relayVars, producerVars, wrapperVars,
            writerVars
  <2> QED
    BY <1>f, <2>2
<1> QED
  BY <1>1, <1>2, <1>3, <1>4, <1>5

-----------------------------------------------------------------------------
(* The bill. *)

\* How many chunks the wrapper has taken.
Taken == Len(sent) - Len(upstream)

\* The channel holds the chunks that were sent and not taken yet.
Waiting ==
  /\ Len(upstream) <= Len(sent)
  /\ \A i \in 1 .. Len(upstream) : upstream[i] = sent[Taken + i]

\* The remembered usage report is that of chunk k, the last with one among
\* those taken; 0 stands for none.
LastAt(k) ==
  /\ k = 0 => usage = 0
  /\ k # 0 => usage = sent[k] /\ script[sent[k]]
  /\ \A j \in k + 1 .. Taken : ~script[sent[j]]

Remembered == \E k \in 0 .. Taken : LastAt(k)

\* The wrapper settles when all is taken, with what it remembers; and a client
\* that is there sees the writer end only after that.
Settled ==
  /\ wrapper \in {"settling", "ended"} => producer = "ended" /\ upstream = <<>>
  /\ wrapper = "ended" => billed = usage
  /\ wrapper # "ended" => billed = Unbilled
  /\ connected => writer # "broken" /\ (writer = "ended" => wrapper = "ended")

RelayInv == RelayTypeOK /\ ChunksFlowInOrder /\ Waiting /\ Remembered /\ Settled

LEMMA WaitingStep == RelayTypeOK /\ Waiting /\ [RelayNext]_relayVars => Waiting'
<1> SUFFICES ASSUME RelayTypeOK, Waiting, [RelayNext]_relayVars PROVE Waiting'
  OBVIOUS
<1>t. /\ sent \in Seq(Chunks) /\ upstream \in Seq(Chunks)
      /\ Len(sent) \in Nat /\ Len(upstream) \in Nat
  BY LenProperties DEF RelayTypeOK
<1>1. CASE Produce
  <2>1. /\ Len(upstream') = Len(upstream) + 1 /\ Len(sent') = Len(sent) + 1 /\ Taken' = Taken
    BY <1>1, <1>t DEF Produce, Taken
  <2>2. ASSUME NEW i \in 1 .. Len(upstream') PROVE upstream'[i] = sent'[Taken' + i]
    <3>1. CASE i \in 1 .. Len(upstream)
      BY <1>1, <1>t, <2>1, <3>1 DEF Produce, Taken, Waiting
    <3>2. CASE i = Len(upstream) + 1
      BY <1>1, <1>t, <2>1, <3>2 DEF Produce, Taken, Waiting
    <3> QED
      BY <1>t, <2>1, <2>2, <3>1, <3>2
  <2> QED
    BY <1>t, <2>1, <2>2 DEF Waiting
<1>2. CASE Take
  <2>1. /\ sent' = sent /\ upstream' = Tail(upstream) /\ upstream # <<>>
    BY <1>2 DEF Take, producerVars
  <2>2. /\ Len(upstream') = Len(upstream) - 1
        /\ \A i \in 1 .. Len(upstream') : upstream'[i] = upstream[i + 1]
    BY <1>t, <2>1, HeadTailProperties
  <2>3. Taken' = Taken + 1 /\ Taken \in Int
    BY <1>t, <2>1, <2>2 DEF Taken
  <2>4. ASSUME NEW i \in 1 .. Len(upstream') PROVE upstream'[i] = sent'[Taken' + i]
    <3>1. i + 1 \in 1 .. Len(upstream) /\ Taken' + i = Taken + (i + 1)
      BY <1>t, <2>2, <2>3, <2>4
    <3> QED
      BY <2>1, <2>2, <2>4, <3>1 DEF Waiting
  <2> QED
    BY <1>t, <2>1, <2>2, <2>4 DEF Waiting
<1>3. CASE ~(Produce \/ Take)
  <2>1. sent' = sent /\ upstream' = upstream
    BY <1>3
    DEF RelayNext, InitiationFails, Initiate, Producer, SkipChunk, CloseUpstream, Wrapper, HandOver,
        StreamComplete, Settle, Writer, FlushChunk, FlushFails, Finish, ClientLeaves, Quiescent,
            relayVars,
        producerVars
  <2> QED
    BY <2>1 DEF Waiting, Taken
<1> QED
  BY <1>1, <1>2, <1>3

LEMMA RememberedStep == RelayTypeOK /\ Waiting /\ Remembered /\ [RelayNext]_relayVars => Remembered'
<1> SUFFICES ASSUME RelayTypeOK, Waiting, Remembered, [RelayNext]_relayVars PROVE Remembered'
  OBVIOUS
<1>t. /\ sent \in Seq(Chunks) /\ upstream \in Seq(Chunks)
      /\ Len(sent) \in Nat /\ Len(upstream) \in Nat /\ Taken \in Nat /\ Taken <= Len(sent)
  BY LenProperties DEF RelayTypeOK, Waiting, Taken
<1>k. PICK k \in 0 .. Taken : LastAt(k)
  BY DEF Remembered
<1>s. script' = script
  BY DEF RelayNext, InitiationFails, Initiate, Producer, Produce, SkipChunk, CloseUpstream,
      Wrapper, Take,
         HandOver, StreamComplete, Settle, Writer, FlushChunk, FlushFails, Finish, ClientLeaves,
         Quiescent, relayVars, answerVars
<1>1. CASE Produce
  <2>1. Taken' = Taken /\ usage' = usage
    BY <1>1, <1>t DEF Produce, Taken, wrapperVars
  <2>2. \A j \in 1 .. Len(sent) : sent'[j] = sent[j]
    BY <1>1, <1>t DEF Produce
  <2>3. LastAt(k)'
    BY <1>t, <1>k, <1>s, <2>1, <2>2 DEF LastAt
  <2> QED
    BY <1>k, <2>1, <2>3 DEF Remembered
<1>2. CASE Take
  <2>1. /\ sent' = sent /\ upstream # <<>> /\ upstream' = Tail(upstream)
        /\ usage' = IF script[Head(upstream)] THEN Head(upstream) ELSE usage
    BY <1>2 DEF Take, producerVars
  <2>2. Taken' = Taken + 1
    BY <1>t, <2>1, HeadTailProperties DEF Taken
  <2>3. Head(upstream) = sent[Taken + 1]
    <3>1. 1 \in 1 .. Len(upstream) /\ Head(upstream) = upstream[1]
      BY <1>t, <2>1, EmptySeq
    <3> QED
      BY <3>1 DEF Waiting
  <2>4. CASE script[Head(upstream)]
    <3>1. PICK n \in Nat : n = Taken + 1
      BY <1>t
    <3>2. LastAt(n)'
      BY <1>t, <1>s, <2>1, <2>2, <2>3, <2>4, <3>1 DEF LastAt
    <3>3. n \in 0 .. Taken'
      BY <1>t, <2>2, <3>1
    <3> QED
      BY <3>2, <3>3 DEF Remembered
  <2>5. CASE ~script[Head(upstream)]
    <3>1. \A j \in k + 1 .. Taken + 1 : j \in k + 1 .. Taken \/ j = Taken + 1
      BY <1>t
    <3>2. LastAt(k)'
      BY <1>k, <1>s, <2>1, <2>2, <2>3, <2>5, <3>1 DEF LastAt
    <3>3. k \in 0 .. Taken'
      BY <1>t, <1>k, <2>2
    <3> QED
      BY <3>2, <3>3 DEF Remembered
  <2> QED
    BY <2>4, <2>5
<1>3. CASE ~(Produce \/ Take)
  <2>1. sent' = sent /\ upstream' = upstream /\ usage' = usage
    BY <1>3
    DEF RelayNext, InitiationFails, Initiate, Producer, SkipChunk, CloseUpstream, Wrapper, HandOver,
        StreamComplete, Settle, Writer, FlushChunk, FlushFails, Finish, ClientLeaves, Quiescent,
            relayVars,
        producerVars, wrapperVars
  <2> QED
    BY <1>s, <1>k, <2>1 DEF Remembered, LastAt, Taken
<1> QED
  BY <1>1, <1>2, <1>3

LEMMA SettledStep == RelayTypeOK /\ Settled /\ [RelayNext]_relayVars => Settled'
BY DEF RelayTypeOK, Settled, RelayNext, InitiationFails, Initiate, Producer, Produce, SkipChunk,
    CloseUpstream,
    Wrapper, Take, HandOver, StreamComplete, Settle, Writer, FlushChunk, FlushFails, Finish,
       ClientLeaves, Quiescent, relayVars, answerVars, producerVars, wrapperVars, writerVars

-----------------------------------------------------------------------------
(* The properties. *)

LEMMA RelayInvInit == RelayInit => RelayInv
<1> SUFFICES ASSUME RelayInit PROVE RelayInv
  OBVIOUS
<1>1. RelayTypeOK
  BY RelayTypeInit
<1>2. ChunksFlowInOrder
  BY ConcatEmptySeq DEF RelayInit, ChunksFlowInOrder
<1>3. Len(sent) = 0 /\ Len(upstream) = 0
  BY DEF RelayInit
<1>4. Taken = 0 /\ Waiting
  BY <1>3 DEF Taken, Waiting
<1>5. Remembered
  <2>1. LastAt(0)
    BY <1>4 DEF LastAt, RelayInit
  <2> QED
    BY <1>4, <2>1 DEF Remembered
<1>6. Settled
  BY DEF RelayInit, Settled
<1> QED
  BY <1>1, <1>2, <1>4, <1>5, <1>6 DEF RelayInv

\* What the relay keeps at every step: its types, the order of the chunks, who is
\* still waited for, the last usage the wrapper remembers, and when a row is settled.
THEOREM RelayInvariant == RelaySpec => []RelayInv
<1>1. RelayInv /\ [RelayNext]_relayVars => RelayInv'
  BY RelayTypeStep, FlowStep, WaitingStep, RememberedStep, SettledStep DEF RelayInv
<1> QED
  BY <1>1, RelayInvInit, PTL DEF RelaySpec

\* The variables keep their types: among others, the producer's channel never
\* holds more than it has room for.
THEOREM RelayTypeCorrect == RelaySpec => []RelayTypeOK
<1>1. RelayInv => RelayTypeOK
  BY DEF RelayInv
<1> QED
  BY <1>1, RelayInvariant, PTL

\* The stages of the relay lose, repeat and reorder no chunk.
THEOREM FlowInOrder == RelaySpec => []ChunksFlowInOrder
<1>1. RelayInv => ChunksFlowInOrder
  BY DEF RelayInv
<1> QED
  BY <1>1, RelayInvariant, PTL

\* The bill rests on the last usage report that was sent.
THEOREM BilledByLast == RelaySpec => []BilledByLastUsage
<1>1. RelayInv => BilledByLastUsage
  <2> SUFFICES ASSUME RelayInv, billed # Unbilled PROVE billed = LastUsage(sent)
    BY DEF BilledByLastUsage
  <2> DEFINE reports == {i \in DOMAIN sent : script[sent[i]]}
  <2>1. billed = usage /\ upstream = <<>>
    BY DEF RelayInv, Settled
  <2>2. Taken = Len(sent) /\ Len(sent) \in Nat /\ DOMAIN sent = 1 .. Len(sent)
    BY <2>1, LenProperties DEF RelayInv, RelayTypeOK, Taken
  <2>3. PICK k \in 0 .. Taken : LastAt(k)
    BY DEF RelayInv, Remembered
  <2>4. CASE k = 0
    <3>1. reports = {}
      BY <2>2, <2>3, <2>4 DEF LastAt
    <3> QED
      BY <2>1, <2>3, <2>4, <3>1 DEF LastAt, LastUsage
  <2>5. CASE k # 0
    <3>1. k \in reports /\ \A j \in reports : j <= k
      BY <2>2, <2>3, <2>5 DEF LastAt
    <3>2. \A i \in reports : (\A j \in reports : j <= i) => i = k
      BY <2>2, <3>1
    <3>3. (CHOOSE i \in reports : \A j \in reports : j <= i) = k
      BY <3>1, <3>2
    <3> QED
      BY <2>1, <2>3, <2>5, <3>1, <3>3 DEF LastAt, LastUsage
  <2> QED
    BY <2>4, <2>5
<1> QED
  BY <1>1, RelayInvariant, PTL

\* A client that is there when [DONE] is written has the whole answer and finds
\* the call settled.
THEOREM DoneIsDone == RelaySpec => []DoneMeansDone
<1>1. RelayInv => DoneMeansDone
  <2> SUFFICES ASSUME RelayInv, connected, writer = "ended"
               PROVE  client = sent /\ billed # Unbilled
    BY DEF DoneMeansDone
  <2>1. wrapper = "ended" /\ upstream = <<>> /\ billed = usage
    BY DEF RelayInv, Settled
  <2>2. page = <<>> /\ hand = <<>> /\ client \in Seq(Chunks)
    BY <2>1 DEF RelayInv, RelayTypeOK
  <2>3. sent = client
    BY <2>1, <2>2, ConcatEmptySeq DEF RelayInv, ChunksFlowInOrder
  <2>4. billed # Unbilled
    BY <2>1, StreamConstants DEF RelayInv, RelayTypeOK, Unbilled
  <2> QED
    BY <2>3, <2>4
<1> QED
  BY <1>1, RelayInvariant, PTL

=============================================================================
