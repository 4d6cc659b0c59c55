--------------------------- MODULE WebhookDelivery ---------------------------
(***************************************************************************)
(* The callback of a workflow run: a row in webhook_deliveries and a        *)
(* goroutine that posts the event up to three times and keeps the row      *)
(* up to date.  A module that announces events extends this one.           *)
(***************************************************************************)
EXTENDS Naturals

CONSTANTS
  Runs,       \* workflow runs; each has at most one delivery
  Unparsable, \* those whose callback may be one that validWebhookCallbackURL
              \* accepts and http.NewRequest does not, as http://h/?q#%zz: the
              \* one parses a request URI, without a fragment, the other a URL
  Faults      \* whether statements fail and processes die

ASSUME DeliveryConstants == Faults \in BOOLEAN /\ Unparsable \subseteq Runs

\* recordWorkflowWebhook: MaxAttempts of each delivery.
MaxAttempts == 3

VARIABLES
  delivery,   \* webhook_deliveries.status, or none
  attempts,   \* its attempt_count
  sender,     \* where the goroutine is: none, post, accepted, refused, unsent,
              \* over, lost
  attempt,    \* its loop variable
  posts,      \* history: how often the client was called; it may follow
              \* redirections by itself
  heard,      \* history: the runs whose callback received the event
  mislaid     \* history: runs whose delivery a failed statement left open

deliveryVars == <<delivery, attempts, sender, attempt, posts, heard, mislaid>>

DeliveryInit ==
  /\ delivery = [r \in Runs |-> "none"] /\ attempts = [r \in Runs |-> 0]
  /\ sender = [r \in Runs |-> "none"] /\ attempt = [r \in Runs |-> 0]
  /\ posts = [r \in Runs |-> 0]
  /\ heard = {} /\ mislaid = {}

-----------------------------------------------------------------------------
(* recordWorkflowWebhook. *)

\* The row is inserted and the goroutine started.
RecordDelivery(r) ==
  /\ delivery' = [delivery EXCEPT ![r] = "recorded"]
  /\ sender' = [sender EXCEPT ![r] = "post"]
  /\ attempt' = [attempt EXCEPT ![r] = 1]
  /\ UNCHANGED <<attempts, posts, heard, mislaid>>

\* The INSERT fails, or its answer is lost: nothing is sent.
RecordDeliveryFails(r) ==
  /\ Faults
  /\ \/ UNCHANGED delivery
     \/ delivery' = [delivery EXCEPT ![r] = "recorded"]
  /\ mislaid' = mislaid \cup {r}
  /\ UNCHANGED <<attempts, sender, attempt, posts, heard>>

-----------------------------------------------------------------------------
(* deliverWorkflowWebhook. *)

\* Mutated form: whatever comes back is a good answer.
PostTrusting(r) ==
  /\ sender[r] = "post"
  /\ posts' = [posts EXCEPT ![r] = @ + 1]
  /\ sender' = [sender EXCEPT ![r] = "accepted"]
  /\ heard' \in {heard, heard \cup {r}}
  /\ UNCHANGED <<delivery, attempts, attempt, mislaid>>

\* A request that no good answer came back to may have arrived all the same.
\* What a redirect makes the client post again is part of one attempt.
Post(r) ==
  /\ sender[r] = "post"
  /\ posts' = [posts EXCEPT ![r] = @ + 1]
  /\ \/ /\ sender' = [sender EXCEPT ![r] = "accepted"]
        /\ heard' = heard \cup {r}
     \/ /\ sender' = [sender EXCEPT ![r] = "refused"]
        /\ heard' \in {heard, heard \cup {r}}
  /\ UNCHANGED <<delivery, attempts, attempt, mislaid>>

\* No request can be made of the callback, as the first attempt shows: the
\* loop is left at once.
NoRequest(r) ==
  /\ sender[r] = "post" /\ r \in Unparsable /\ attempt[r] = 1
  /\ sender' = [sender EXCEPT ![r] = "unsent"]
  /\ UNCHANGED <<delivery, attempts, attempt, posts, heard, mislaid>>

\* UpdateWebhookDeliveryResult.  If it fails without effect, only a lost end is
\* never made up for.
UpdateResult(r, status, count) ==
  \/ /\ delivery' = [delivery EXCEPT ![r] = status]
     /\ attempts' = [attempts EXCEPT ![r] = count]
     /\ UNCHANGED mislaid
  \/ /\ Faults
     /\ mislaid' = IF status = "retrying" THEN mislaid ELSE mislaid \cup {r}
     /\ UNCHANGED <<delivery, attempts>>

\* Any 2xx ends the delivery, whether or not the UPDATE works.
MarkDelivered(r) ==
  /\ sender[r] = "accepted"
  /\ UpdateResult(r, "delivered", attempt[r])
  /\ sender' = [sender EXCEPT ![r] = "over"]
  /\ UNCHANGED <<attempt, posts, heard>>

\* After the pause the loop goes on.
MarkRetrying(r) ==
  /\ sender[r] = "refused" /\ attempt[r] < MaxAttempts
  /\ UpdateResult(r, "retrying", attempt[r])
  /\ sender' = [sender EXCEPT ![r] = "post"]
  /\ attempt' = [attempt EXCEPT ![r] = @ + 1]
  /\ UNCHANGED <<posts, heard>>

\* The loop is over, or was left; the row counts MaxAttempts either way.
MarkFailed(r) ==
  /\ \/ sender[r] = "refused" /\ attempt[r] = MaxAttempts
     \/ sender[r] = "unsent"
  /\ UpdateResult(r, "failed", MaxAttempts)
  /\ sender' = [sender EXCEPT ![r] = "over"]
  /\ UNCHANGED <<attempt, posts, heard>>

deliverWorkflowWebhook(r) ==
  Post(r) \/ NoRequest(r) \/ MarkDelivered(r) \/ MarkRetrying(r) \/ MarkFailed(r)

Sending == {r \in Runs : sender[r] \in {"post", "accepted", "refused", "unsent"}}

\* Goroutines die with the process, and nothing takes up what they left.
DeliveryCrash ==
  /\ sender' = [r \in Runs |-> IF r \in Sending THEN "lost" ELSE sender[r]]
  /\ UNCHANGED <<delivery, attempts, attempt, posts, heard, mislaid>>

-----------------------------------------------------------------------------
(* Properties. *)

DeliveryTypeOK ==
  /\ delivery \in [Runs -> {"none", "recorded", "retrying", "delivered", "failed"}]
  /\ attempts \in [Runs -> 0 .. MaxAttempts]
  /\ sender \in [Runs -> {"none", "post", "accepted", "refused", "unsent", "over", "lost"}]
  /\ attempt \in [Runs -> 0 .. MaxAttempts]
  /\ posts \in [Runs -> 0 .. MaxAttempts]
  /\ heard \subseteq Runs /\ mislaid \subseteq Runs

\* A delivery marked as delivered has arrived, after as many attempts as the
\* row counts; one marked as failed was tried as often as it may be, unless no
\* request could be made of its callback: then the row counts as many attempts,
\* but nothing was sent.
DeliveryTellsTheTruth ==
  \A r \in Runs :
    /\ delivery[r] = "delivered" => r \in heard /\ attempts[r] = posts[r]
    /\ delivery[r] = "failed" =>
         /\ attempts[r] = MaxAttempts
         /\ posts[r] = MaxAttempts \/ (r \in Unparsable /\ posts[r] = 0 /\ r \notin heard)
    /\ posts[r] <= MaxAttempts

Settled == {"delivered", "failed"}

=============================================================================
