----------------------------- MODULE MCRouters -----------------------------
(* The four routers, one at a time. *)
EXTENDS LlmdRouter, DynamoScriptRouter, LustreRouter, TLC

CONSTANTS s1, s2, s3

Symmetry == Permutations(Requests)

S(what, stages, sessions, existing, backends) ==
    [what |-> what, stages |-> stages, sessions |-> sessions, existing |-> existing,
     backend_limit |-> backends]
\* The other router's index: not there, or with the home s1 has not by its hash.
NoFile == [s \in Sessions |-> -1]
OldHome == [NoFile EXCEPT ![s1] = 1, ![s2] = 0]
Reset == S({"reset"}, {1, 5}, {s1, s2}, {NoFile}, 2)
Crash == S({"reset", "restart"}, {3}, {s1}, {NoFile, OldHome}, 2)
Leave == S({"leave", "fail"}, {}, {s1, s2}, {NoFile}, 1)
Three == S({"reset"}, {}, {s1, s2, s3}, {NoFile}, 2)
Together == {Reset, Crash, Leave, Three}
Hash == [s \in Sessions |-> IF s = s1 THEN 0 ELSE 1]

\* The Lustre router knows no stages and no 499; the script copy differs in /reset.
RoutersInit ==
    \/ LlmdInit /\ may \in {Reset, Crash, Leave}
    \/ DynInit("dynamo") /\ may \in {Reset, Crash, Leave}
    \/ ScriptInit /\ may = Reset
    \/ LustreInit /\ may \in {Crash, Leave, Three}
RoutersNext == LlmdNext \/ DynNext \/ ScriptNext \/ LustreNext
RoutersSpec == RoutersInit /\ [][RoutersNext]_vars
=============================================================================
