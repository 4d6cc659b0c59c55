---------------------------- MODULE ProviderKeys ----------------------------
(***************************************************************************)
(* The credentials of upstream providers: the table provider_keys, and the *)
(* query that picks one of them for a caller.                              *)
(*                                                                         *)
(* A key belongs to the platform, to a user or to a workspace, and is      *)
(* active until it is revoked.  Rows are numbered in the order in which    *)
(* they are created; the number of a row stands for its id and for its     *)
(* secret, which only that row holds.  last_used_at, which nothing but     *)
(* the lists shows, is left out.                                           *)
(***************************************************************************)
EXTENDS Integers, Sequences

CONSTANTS
  Providers,
  Owners,      \* users and workspaces
  Platform,    \* the owner of platform keys
  Nobody,      \* the caller has no user, or no workspace
  MaxKeys      \* bound: rows of provider_keys

ASSUME KeyConstants ==
  /\ Platform \notin Owners /\ Nobody \notin Owners /\ Nobody # Platform
  /\ MaxKeys \in Nat

VARIABLE keys  \* provider_keys, oldest first

KeyIds == 1..MaxKeys
NoKey == 0     \* the empty secret, and the empty id

KeyRows == [provider : Providers, owner : Owners \cup {Platform}, active : BOOLEAN]

\* CreateProviderKeyScoped.
InsertKey(p, o) ==
  /\ Len(keys) < MaxKeys
  /\ keys' = Append(keys, [provider |-> p, owner |-> o, active |-> TRUE])

\* RevokeProviderKey and RevokeUserProviderKey: a key revoked already is
\* revoked again.
RevokeKey(k) ==
  /\ k \in DOMAIN keys
  /\ keys' = [keys EXCEPT ![k].active = FALSE]

\* The keys of a table that GetScopedProviderKeySecretWithMetadata selects from.
Visible(table, p, user, workspace) ==
  {k \in DOMAIN table : /\ table[k].active /\ table[k].provider = p
                        /\ table[k].owner \in {workspace, user, Platform}}

Rank(table, k, user, workspace) ==
  CASE table[k].owner = workspace -> 1
    [] table[k].owner = user -> 2
    [] OTHER -> 3

\* Its ORDER BY: the narrower scope, then the newer key.
Precedes(table, j, k, user, workspace) ==
  LET rj == Rank(table, j, user, workspace)
      rk == Rank(table, k, user, workspace)
  IN  rj < rk \/ (rj = rk /\ j > k)

\* The keys a query may return: one, or none when nothing is selected.
Selected(table, p, user, workspace) ==
  LET found == Visible(table, p, user, workspace)
  IN  {k \in found : \A j \in found \ {k} : Precedes(table, k, j, user, workspace)}

\* GetScopedProviderKeySecretWithMetadata.
ScopedKey(table, p, user, workspace) ==
  LET best == Selected(table, p, user, workspace)
  IN  IF best = {} THEN NoKey ELSE CHOOSE k \in best : TRUE

=============================================================================
