---------------------------- MODULE MCDrillBoards ----------------------------
(* Values for model-checking DrillBoards. *)
EXTENDS DrillBoards, TLC

\* No action and no board tells two players, client ids or readers apart.
Symmetry == Permutations(Players) \cup Permutations(Clients)
                \cup Permutations(Readers)
=============================================================================
