----------------------------- MODULE MCRunner -----------------------------
(* BenchRunner for TLC: every script by itself, and the pair whose cleanup was written
   to run side by side.                                                            *)
EXTENDS BenchRunner

Alone(p, k, n) ==
    [of |-> [c \in {"a"} |-> p], cells |-> k, runs |-> n, faults |-> 1]
Together(p, q) ==
    [of |-> [c \in {"a", "b"} |-> IF c = "a" THEN p ELSE q], cells |-> 1, runs |-> 1,
     faults |-> 1]

MC_Scenarios ==
    UNION {{Alone(p, 2, 1), Alone(p, 1, 2)} : p \in DOMAIN Scripts}
        \cup {Together("llmd_4_and_5", "dynamo_4_and_5")}
MC_Upgraded == {[Alone("dsv4_upgraded", 1, 2) EXCEPT !.faults = 0]}

ASSUME MC_SideBySide == \A s \in Scenarios : SideBySide(s)
===========================================================================
