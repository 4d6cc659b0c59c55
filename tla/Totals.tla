------------------------------- MODULE Totals -------------------------------
(***************************************************************************)
(* The sum of a function with natural values over a finite set, written as *)
(* a cardinality: one element per unit of value.  TLC counts the elements; *)
(* TLAPS reasons about the sum with the library's facts on cardinalities,  *)
(* which a recursive sum would not allow.                                  *)
(***************************************************************************)
EXTENDS Integers, FiniteSets

\* One pair <<s, k>> for each of the f[s] units that s in S contributes.
Units(S, f) == UNION {{s} \X (1..f[s]) : s \in S}

\* The sum of f[s] over s in S.
TotalOver(S, f) == Cardinality(Units(S, f))
=============================================================================
