------------------------------ MODULE ApiKeys ------------------------------
(***************************************************************************)
(* The table api_keys and the handlers that change it.                     *)
(*                                                                         *)
(* A user creates a key and revokes it; an administrator revokes it or     *)
(* updates it.  The update is a read, a change of the copy and a write of  *)
(* every column, in two statements of their own: adminUpdateAPIKey takes   *)
(* over what the request leaves out (is_active, permissions) from a copy   *)
(* that may be old by the time it is written.                              *)
(*                                                                         *)
(* A statement is one atomic step and may fail without effect.  There is   *)
(* no clock: a key with a time in expires_at may have expired or not.      *)
(***************************************************************************)
EXTENDS Naturals, WorkspaceRoles

CONSTANTS
  Keys,           \* keys that are or will be in the table
  Models,
  Admins,         \* goroutines that run an update of a key
  NewKeys,        \* the bodies of POST /api/user/keys: of the workspace or not
  UpdateRequests, \* the bodies of PUT /api/admin/keys/:id
  NoKey,          \* a key not created yet
  NoJob           \* an administrator that is not updating a key

\* expires: is there a time in the column expires_at?
KeyRows == [active : BOOLEAN, models : SUBSET Models, bound : BOOLEAN,
            expires : BOOLEAN]

\* Two fields may be left out: {}, or the one value given.  The others are
\* overwritten by their zero value when they are left out.
Optional(S) == {{}} \cup {{x} : x \in S}
UpdateBodies == [active : Optional(BOOLEAN), models : Optional(SUBSET Models),
                 bound : BOOLEAN, expires : BOOLEAN]

\* The copy an update works on: what of it may be written back unchanged.
Copies == [active : BOOLEAN, models : SUBSET Models]
Jobs == [key : Keys, body : UpdateBodies, read : Copies]

ASSUME ApiKeyConstants ==
  /\ NewKeys \subseteq BOOLEAN
  /\ UpdateRequests \subseteq UpdateBodies
  /\ NoKey \notin KeyRows
  /\ NoJob \notin Jobs

VARIABLES
  apiKeys,   \* the table: each key's row
  job,       \* the update an administrator has read the key for
  withdrawn  \* history: keys whose revocation was acknowledged when no copy
             \* read before it was waiting to be written back, and that
             \* nobody has asked to activate since

keyVars == <<apiKeys, job, withdrawn>>

KeyTypeOK ==
  /\ apiKeys \in [Keys -> KeyRows \cup {NoKey}]
  /\ job \in [Admins -> Jobs \cup {NoJob}]
  /\ withdrawn \subseteq Keys

KeyInit ==
  /\ apiKeys = [k \in Keys |-> NoKey]
  /\ job = [a \in Admins |-> NoJob]
  /\ withdrawn = {}

-----------------------------------------------------------------------------
(* Creation and revocation. *)

\* CreateAPIKeyWithProject without permissions: every model is allowed.
NewRow(bound) ==
  [active |-> TRUE, models |-> Models, bound |-> bound, expires |-> FALSE]

\* userCreateKey: a key of a workspace needs the permission in it.
CreateKey(k, bound, member) ==
  /\ apiKeys[k] = NoKey
  /\ bound => MemberHasPermission(member, "api_keys:create")
  /\ apiKeys' = [apiKeys EXCEPT ![k] = NewRow(bound)]
  /\ UNCHANGED <<job, withdrawn>>

\* userDeleteKey and adminRevokeAPIKey: one UPDATE of one column.
RevokeKey(k) ==
  /\ apiKeys[k] # NoKey
  /\ apiKeys' = [apiKeys EXCEPT ![k].active = FALSE]
  /\ withdrawn' = IF \E a \in Admins : job[a] # NoJob /\ job[a].key = k
                    THEN withdrawn ELSE withdrawn \cup {k}
  /\ UNCHANGED job

-----------------------------------------------------------------------------
(* adminUpdateAPIKey. *)

\* GetAPIKeyAdmin: the copy that the request's fields are put into.
ReadKey(a, k, body) ==
  /\ job[a] = NoJob /\ apiKeys[k] # NoKey
  /\ job' = [job EXCEPT ![a] = [key |-> k, body |-> body,
       read |-> [active |-> apiKeys[k].active, models |-> apiKeys[k].models]]]
  /\ UNCHANGED <<apiKeys, withdrawn>>

Kept(new, old) == IF new = {} THEN old ELSE CHOOSE x \in new : TRUE

\* Mutant: is_active defaults to true.
UpdatedRowActive(j) ==
  [active |-> Kept(j.body.active, TRUE),
   models |-> Kept(j.body.models, j.read.models),
   bound |-> j.body.bound,
   expires |-> j.body.expires]

\* The row that is written: two fields are taken over when left out, the
\* others are always overwritten.
UpdatedRow(j) ==
  [active |-> Kept(j.body.active, j.read.active),
   models |-> Kept(j.body.models, j.read.models),
   bound |-> j.body.bound,
   expires |-> j.body.expires]

\* UpdateAPIKeyAdmin: all columns of the copy, or the statement fails.
WriteKey(a) ==
  /\ job[a] # NoJob
  /\ apiKeys' = [apiKeys EXCEPT ![job[a].key] = UpdatedRow(job[a])]
  /\ withdrawn' = IF TRUE \in job[a].body.active THEN withdrawn \ {job[a].key} ELSE withdrawn
  /\ job' = [job EXCEPT ![a] = NoJob]

WriteKeyFails(a) ==
  /\ job[a] # NoJob
  /\ job' = [job EXCEPT ![a] = NoJob]
  /\ UNCHANGED <<apiKeys, withdrawn>>

-----------------------------------------------------------------------------
\* The WHERE clause of ValidateAPIKey: what it may find, and may not find.
MayBeValid(k) == apiKeys[k] # NoKey /\ apiKeys[k].active
MayBeInvalid(k) == MayBeValid(k) => apiKeys[k].expires
=============================================================================
