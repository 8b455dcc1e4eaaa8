------------------------------- MODULE MCMock -------------------------------
(* Bounded instances of the simulated driver (MCMock.cfg, MCMockEarly.cfg). *)
EXTENDS MockDriver, TLC

HeldBursts == {<<TRUE, TRUE>>, <<TRUE, FALSE>>}
\* The dashboard and the scripts ask for held bursts, wake-only or not; without hold never wake-only.
AskedBursts == HeldBursts \cup {<<FALSE, FALSE>>}
=============================================================================
