----------------------------- MODULE AuditTrail -----------------------------
(***************************************************************************)
(* The audit log.  Rows are numbered as they are inserted; of each, the    *)
(* day it was made counts.                                                 *)
(***************************************************************************)
EXTENDS Integers, Sequences, FiniteSets

CONSTANT Limits  \* how many rows a run may be asked to delete

ASSUME AuditConstants == Limits \subseteq Nat \ {0}

VARIABLES
  trail,  \* the day of each row ever inserted
  gone    \* the rows that were deleted

\* RecordAuditLog.
Recorded(day) == Append(trail, day)

\* The rows ListExpiredAuditLogs selects from.
ExpiredRows(day, kept) == {r \in DOMAIN trail \ gone : trail[r] < day - kept}

\* What it returns: the oldest, up to the limit.
ExpiredLists(day, kept, limit) ==
  {R \in SUBSET ExpiredRows(day, kept) :
     /\ Cardinality(R) <= limit
     /\ Cardinality(R) < limit => R = ExpiredRows(day, kept)
     /\ \A r \in R, s \in ExpiredRows(day, kept) \ R : trail[r] <= trail[s]}

=============================================================================
