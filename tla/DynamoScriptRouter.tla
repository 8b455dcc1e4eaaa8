------------------------- MODULE DynamoScriptRouter -------------------------
(* src/day0/scripts/dynamo_multistage_router.py: the copy of the Dynamo router that
   the scripts ship.  Its handlers are those of DynamoRouter line by line; its
   /reset hands the old client to a task and aborts nothing, so it never awaits. *)
EXTENDS DynamoRouter

ScriptIs == router = "dynamo2"
ScriptInit == DynInit("dynamo2")

ScriptRoute(r) == DynArrive(r) \/ DynDelayOver(r)

ScriptForward(r) ==
    \/ DynHeaders(r) \/ DynPostFails(r) \/ DynRetry(r)
    \/ DynFirstToken(r) \/ DynStreamOver(r) \/ DynDisconnect(r)

ScriptReset == \E st \in may.stages, clear \in {"keep", "clear"} :
    DynZero(st, clear) /\ index' = tier' /\ UNCHANGED resetting

ScriptNext ==
    /\ ScriptIs
    /\ \/ \E r \in Requests : ScriptRoute(r) \/ ScriptForward(r)
       \/ ScriptReset \/ DynRestart
=============================================================================
