--------------------------- MODULE MCHermesMemory ---------------------------
EXTENDS HermesMemory, TLC

(* What happens together in one behaviour. *)
Together == { {"crash", "timeout", "join"}, {"recreate", "timeout", "join"}, {"reset", "recreate"},
              {"reset", "timeout"}, {"reset", "crash"}, {"crash", "patience", "write"},
              {"recreate", "lostCreate"} }

Symmetry == Permutations(Turns)
=============================================================================
