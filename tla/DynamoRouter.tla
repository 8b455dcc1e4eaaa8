---------------------------- MODULE DynamoRouter ----------------------------
(* src/day0/routers/dynamo_multistage_router.py.  Its use_sem is never set, so no
   handler takes a permit; a session's home is a hash; stage 1 ignores homes; and
   /reset zeroes everything before its first await, but writes the index file
   only after it has closed the old client and aborted the backends' requests.
   src/day0/scripts/dynamo_multistage_router.py is DynamoScriptRouter.         *)
EXTENDS RouterState

\* on_startup: EXISTING_LUSTRE_INDEX, which the Lustre router writes, and the
\* router's own index over it.
DynLoadsOlderLast(file) == Loaded(index, file)   \* mutant: the older file over it
DynLoads(file) == Loaded(file, index)

DynInit(program) ==
    /\ InitMaps /\ router = program
    /\ \E file \in may.existing : tier = DynLoads(file)
    /\ stage = 4 /\ use_sem = FALSE
    /\ limit = [e \in Epochs |-> PrefillLimit]
    /\ ttft = [e \in Epochs |-> [b \in Backends |-> PrefillLimit]]

DynHome(s) == IF tier[s] # None THEN tier[s] ELSE HashIdx[s]

\* After the delay: the run is noted, and nothing is awaited before the check.
DynAdmit(r, q) ==
    \/ /\ q.up
       /\ req' = [req EXCEPT ![r] = [q EXCEPT !.ph = "post", !.run = run_id]]
       /\ UNCHANGED lost
    \/ /\ ~q.up
       /\ lost' = IF q.pf THEN [lost EXCEPT ![q.idx].pf = @ + 1]
                          ELSE [lost EXCEPT ![q.idx].dec = @ + 1]
       /\ req' = [req EXCEPT ![r] = [Idle EXCEPT !.ph = "done"]]

DynMeasured(warm) == profiling \/ (seen /\ ~warm)

\* A request of session s, a warm-up or not, gets its backend.
DynAssign(r, s, warm) ==
    LET measured == DynMeasured(warm)
        robin == measured /\ stage = 1
        first == measured /\ ~robin /\ active[s] = None
        idx == IF robin THEN rr ELSE DynHome(s)
        pf == robin \/ (first /\ stage # 5)
        delayed == measured /\ (stage \in {1, 2} \/ (stage \in {3, 4} /\ pf))
        q == [Idle EXCEPT !.ph = "delay", !.s = s, !.idx = idx, !.pf = pf]
    IN  /\ req[r].ph = "idle"
        /\ profiling' = measured
        /\ seen' = (seen \/ (warm /\ ~profiling))
        /\ rr' = IF robin THEN 1 - rr ELSE rr
        /\ tier' = [tier EXCEPT ![s] = DynHome(s)]
        /\ active' = IF robin \/ first THEN [active EXCEPT ![s] = idx] ELSE active
        /\ assigned' = Charge(first, idx)
        /\ prefill' = IF pf THEN [prefill EXCEPT ![idx] = @ + BodyBytes] ELSE prefill
        /\ decode' = IF pf THEN decode ELSE [decode EXCEPT ![idx] = @ + 1]
        /\ \/ delayed /\ req' = [req EXCEPT ![r] = q] /\ UNCHANGED lost
           \/ ~delayed /\ DynAdmit(r, q)
    /\ UNCHANGED <<persisted, sems, swept, stage, run_id, admin>>

DynArrive(r) == \E s \in may.sessions, warm \in BOOLEAN : DynAssign(r, s, warm)

DynDelayOver(r) ==
    /\ req[r].ph = "delay"
    /\ DynAdmit(r, req[r])
    /\ UNCHANGED <<maps, prefill, decode, swept, sems, run, admin>>

\* The finally of the handler.
DynFinishAsDecode(r) ==
    /\ decode' = [decode EXCEPT ![req[r].idx] = Less(@, 1)]
    /\ req' = [req EXCEPT ![r] = [Idle EXCEPT !.ph = "done"]]
    /\ UNCHANGED <<maps, prefill, lost, swept, sems, run, admin>>
DynFinish(r) ==
    LET q == req[r] IN
    /\ prefill' = IF q.pf THEN [prefill EXCEPT ![q.idx] = Less(@, BodyBytes)] ELSE prefill
    /\ decode' = IF q.pf THEN decode ELSE [decode EXCEPT ![q.idx] = Less(@, 1)]
    /\ req' = [req EXCEPT ![r] = [Idle EXCEPT !.ph = "done"]]
    /\ UNCHANGED <<maps, lost, swept, sems, run, admin>>

DynHeaders(r) ==
    /\ req[r].ph = "post"
    /\ req' = [req EXCEPT ![r].ph = "stream"]
    /\ UNCHANGED <<maps, counters, sems, run, admin>>

DynPostFails(r) ==
    /\ req[r].ph = "post" /\ MayFail(r)
    /\ \/ /\ req[r].att < Attempts - 1 /\ req[r].run = run_id
          /\ req' = [req EXCEPT ![r].ph = "backoff", ![r].att = @ + 1]
          /\ UNCHANGED <<maps, counters, sems, run, admin>>
       \/ /\ ~(req[r].att < Attempts - 1 /\ req[r].run = run_id)
          /\ DynFinish(r)

DynRetry(r) ==
    /\ req[r].ph = "backoff"
    /\ req' = [req EXCEPT ![r].ph = "post"]
    /\ UNCHANGED <<maps, counters, sems, run, admin>>

DynFirstToken(r) ==
    LET q == req[r] IN
    /\ q.ph = "stream" /\ ~q.tok /\ q.run = run_id /\ q.up
    /\ prefill' = IF q.pf THEN [prefill EXCEPT ![q.idx] = Less(@, BodyBytes)] ELSE prefill
    /\ decode' = IF q.pf THEN [decode EXCEPT ![q.idx] = @ + 1] ELSE decode
    /\ persisted' = persisted \cup (IF stage \in {4, 5} THEN {q.s} ELSE {})
    /\ req' = [req EXCEPT ![r].tok = TRUE, ![r].pf = FALSE]
    /\ UNCHANGED <<tier, active, assigned, lost, swept, sems, run, admin>>

DynStreamOver(r) == req[r].ph = "stream" /\ DynFinish(r)

DynDisconnect(r) ==
    /\ Live(r) /\ req[r].up /\ leaves < MaxLeaves /\ "leave" \in may.what
    /\ req' = [req EXCEPT ![r].up = FALSE] /\ leaves' = leaves + 1
    /\ UNCHANGED <<maps, counters, sems, run, may, router, resetting, resets, restarts, index>>

\* What /reset does before it awaits anything.
DynZero(st, clear) ==
    /\ resetting = "no" /\ resets < MaxResets /\ "reset" \in may.what
    /\ stage' = st /\ run_id' = run_id + 1 /\ resets' = resets + 1
    /\ seen' = FALSE /\ profiling' = FALSE /\ rr' = 0
    /\ active' = Absent /\ assigned' = Zero
    /\ tier' = IF clear = "clear" THEN Absent ELSE tier
    /\ prefill' = Zero /\ decode' = Zero /\ lost' = NoLoss
    /\ swept' = (swept \/ \E r \in Requests : Live(r))
    /\ UNCHANGED <<persisted, sems, req, may, router, restarts, leaves>>

DynResetBegin == \E st \in may.stages, clear \in {"keep", "clear"} :
    DynZero(st, clear) /\ resetting' = clear /\ UNCHANGED index

DynResetEnd ==
    /\ resetting # "no"
    /\ index' = tier /\ resetting' = "no"
    /\ UNCHANGED <<maps, counters, sems, run, req, may, router, resets, restarts, leaves>>

DynRestart ==
    /\ restarts < MaxRestarts /\ "restart" \in may.what
    /\ restarts' = restarts + 1 /\ resetting' = "no"
    /\ stage' = 4 /\ run_id' = 0 /\ profiling' = FALSE /\ seen' = FALSE /\ rr' = 0
    /\ \E file \in may.existing : tier' = DynLoads(file)
    /\ active' = Absent /\ assigned' = Zero /\ persisted' = {}
    /\ prefill' = Zero /\ decode' = Zero /\ lost' = NoLoss /\ swept' = FALSE
    /\ req' = [r \in Requests |-> IF Live(r) THEN [Idle EXCEPT !.ph = "done"] ELSE req[r]]
    /\ UNCHANGED <<sems, index, may, router, resets, leaves>>

DynNext ==
    /\ router = "dynamo"
    /\ \/ \E r \in Requests :
            \/ DynArrive(r) \/ DynDelayOver(r) \/ DynHeaders(r) \/ DynPostFails(r)
            \/ DynRetry(r) \/ DynFirstToken(r) \/ DynStreamOver(r) \/ DynDisconnect(r)
       \/ DynResetBegin \/ DynResetEnd \/ DynRestart
=============================================================================
