---------------------------- MODULE MCScoreBoard ----------------------------
(* ScoreBoard for TLC. *)
EXTENDS ScoreBoard, TLC

MC_Symmetry == Permutations(Players) \cup Permutations(Clues) \cup Permutations(Requests)
=============================================================================
