--------------------------- MODULE MCUsageBilling ---------------------------
(***************************************************************************)
(* Instances of UsageBilling for TLC.                                      *)
(***************************************************************************)
EXTENDS UsageBilling, TLC

CONSTANTS u1, u2, c1, c2, c3, g1, g2, r1, r2, r3

\* Two calls of one user with ids of their own, and one top-up.
RaceOwner == (c1 :> u1) @@ (c2 :> u1) @@ (g1 :> u1)
RaceIds == (c1 :> r1) @@ (c2 :> r2)
RaceKinds == (c1 :> "chat") @@ (c2 :> "stream") @@ (g1 :> "topup")
RaceAmounts == (g1 :> 2)
RaceOpening == (u1 :> 2)

\* A call and its retry under the same id, next to a media call of another
\* user who also registers.
RetryOwner == (c1 :> u1) @@ (c2 :> u1) @@ (c3 :> u2) @@ (g1 :> u2)
RetryIds == (c1 :> r1) @@ (c2 :> r1) @@ (c3 :> r2)
RetryKinds == (c1 :> "chat") @@ (c2 :> "chat") @@ (c3 :> "media") @@ (g1 :> "register")
RetryAmounts == (g1 :> 1)
RetryOpening == (u1 :> 4) @@ (u2 :> 0)
=============================================================================
