------------------------------- MODULE MCReports -------------------------------
(* Reports on small sets.  Players are interchangeable, and so are reasons.  *)
EXTENDS Reports, TLC

Symmetry == Permutations(Players) \cup Permutations(Reasons)
=============================================================================
