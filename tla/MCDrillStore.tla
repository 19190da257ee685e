---------------------------- MODULE MCDrillStore ----------------------------
(* Values for model-checking DrillStore. *)
EXTENDS DrillStore, TLC

\* Players, client ids, drills and readers are interchangeable: no action or safety
\* property tells two of them apart.
Symmetry == Permutations(Players) \cup Permutations(Clients)
                \cup Permutations(Drills) \cup Permutations(Readers)
=============================================================================
