------------------------------- MODULE Alerts -------------------------------
(***************************************************************************)
(* Alert events: one row per condition, whose status the administrators    *)
(* set.  Conditions are evaluated when someone looks at the alerts; rules  *)
(* of alerts are stored and listed, and evaluated by nothing.              *)
(***************************************************************************)
CONSTANTS
  Providers,  \* each a condition: the provider is not healthy
  ErrorRate   \* the condition of the error rate of the last hour

Conditions == Providers \cup {ErrorRate}
AlertStatuses == {"none", "open", "acknowledged", "resolved"}

ASSUME AlertConstants == ErrorRate \notin Providers

VARIABLES
  holds,   \* the conditions that hold
  alerts   \* alert_events.status of each condition's row

Raised == {c \in Conditions : alerts[c] # "none"}

\* Mutated form: an alert seen again is open again.
UpsertedReopened(c) == [alerts EXCEPT ![c] = "open"]

\* UpsertAlertEvent: a new row is open; a row that is there keeps its status,
\* whatever it is.
Upserted(c) == [alerts EXCEPT ![c] = IF @ = "none" THEN "open" ELSE @]

\* AcknowledgeAlertEvent.
Acknowledged(c) == [alerts EXCEPT ![c] = IF @ = "resolved" THEN @ ELSE "acknowledged"]

\* ResolveAlertEvent.
Resolved(c) == [alerts EXCEPT ![c] = "resolved"]

=============================================================================
