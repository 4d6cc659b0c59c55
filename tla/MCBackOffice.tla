---------------------------- MODULE MCBackOffice -----------------------------
(* A small instance of BackOffice: charges of three days in two adjacent     *)
(* periods and the one that spans them.                                      *)
EXTENDS BackOffice, TLC

MCAmounts == {-2, 1}
MCPeriods == {<<2, 2>>, <<3, 3>>, <<2, 3>>}

\* Administrators are alike.
AdminSymmetry == Permutations(Admins)

=============================================================================
