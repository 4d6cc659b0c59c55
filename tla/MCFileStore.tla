---------------------------- MODULE MCFileStore ----------------------------
(* Instances of FileStore for TLC. *)
EXTENDS FileStore, TLC

\* For ever, or a day.
MCValues == {0, 1}

\* Retention runs are alike.
RunSymmetry == Permutations(Readers)

=============================================================================
