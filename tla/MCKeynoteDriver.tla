--------------------------- MODULE MCKeynoteDriver ---------------------------
EXTENDS KeynoteDriver

Body(hold, wakeOnly, total, conc) ==
    [hold |-> hold, wakeOnly |-> wakeOnly, total |-> total, conc |-> conc]

(* The dashboard's Wake button. *)
HoldBody == {Body(TRUE, FALSE, N, 0)}

(* -burst-concurrency 1. *)
OneAtATime == {Body(TRUE, FALSE, N, 1)}

(* Held and not held, wake-only and not, all agents or one, limited or not. *)
MixedBodies == { Body(TRUE, FALSE, N, 1), Body(TRUE, TRUE, N, 0),
                 Body(FALSE, FALSE, N, 0), Body(FALSE, TRUE, 1, 0) }
=============================================================================
