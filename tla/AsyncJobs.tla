----------------------------- MODULE AsyncJobs -----------------------------
(***************************************************************************)
(* What a client is promised about an asynchronous task: its status leaves *)
(* "submitted" once, and then says how the provider's job ended.           *)
(***************************************************************************)
CONSTANTS
  Tasks

VARIABLES
  outcome,   \* how the provider's job ended, "none" before it did
  told       \* the status the client can read, "none" before the task exists

jobsVars == <<outcome, told>>

Init ==
  /\ outcome = [t \in Tasks |-> "none"]
  /\ told = [t \in Tasks |-> "none"]

\* The provider's job ends, one way or the other.
End(t) ==
  /\ outcome[t] = "none"
  /\ \E o \in {"completed", "failed"} : outcome' = [outcome EXCEPT ![t] = o]
  /\ UNCHANGED told

\* The task becomes known to its client.
Open(t) ==
  /\ told[t] = "none"
  /\ told' = [told EXCEPT ![t] = "submitted"]
  /\ UNCHANGED outcome

\* The client is told the outcome.
Tell(t) ==
  /\ told[t] = "submitted" /\ outcome[t] # "none"
  /\ told' = [told EXCEPT ![t] = outcome[t]]
  /\ UNCHANGED outcome

Next == \E t \in Tasks : End(t) \/ Open(t) \/ Tell(t)

Spec == Init /\ [][Next]_jobsVars
=============================================================================
