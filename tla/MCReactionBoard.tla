---------------------------- MODULE MCReactionBoard ----------------------------
(* The Reaction board on small sets.  A time of 13 or more needs no backing,  *)
(* and 2 is the reach: Lucky is an anticipation, Paired two equal attempts,   *)
(* Slow a lone one that scores better than Paired.                            *)
EXTENDS ReactionBoard, TLC

Lucky  == [attempts |-> <<13, 10, 15>>, score |-> 9]
Paired == [attempts |-> <<10, 10>>, score |-> 5]
Slow   == [attempts |-> <<13>>, score |-> 7]

AllTrials == {Lucky, Paired, Slow}
TwoTrials == {Lucky, Paired}

Symmetry == Permutations(Players) \cup Permutations(Clients)
                \cup Permutations(Sources) \cup Permutations(Slots)
=============================================================================
