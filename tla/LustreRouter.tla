---------------------------- MODULE LustreRouter ----------------------------
(* src/day0/routers/llmd_stage4_lustre_router.py: the router of the Lustre stage.
   It has no runs: /reset zeroes the counters and may replace the semaphores under
   handlers that stream on, and all of it in one step.                          *)
EXTENDS RouterState

LustreIs == router = "lustre"

LustreInit ==
    /\ InitMaps /\ LustreIs /\ tier = Absent
    /\ stage = 4 /\ use_sem = FALSE
    /\ limit = [e \in Epochs |-> PrefillLimit]
    /\ ttft = [e \in Epochs |-> [b \in Backends |-> PrefillLimit]]

LustreRest == <<persisted, lost, swept, bsem, epoch, limit, use_sem, run, admin>>

\* An active session stays where it is; one the tier knows goes there without a
\* prefill; a new one goes to the less loaded backend.
LustreArrive(r) == \E s \in may.sessions :
    LET first == active[s] = None
        new == first /\ tier[s] = None
        idx == IF ~first THEN active[s] ELSE IF new THEN LessLoaded ELSE tier[s]
        q == [Idle EXCEPT !.ph = "post", !.s = s, !.idx = idx, !.pf = new]
    IN  /\ LustreIs /\ req[r].ph = "idle"
        /\ active' = [active EXCEPT ![s] = idx]
        /\ tier' = IF new THEN [tier EXCEPT ![s] = idx] ELSE tier
        /\ assigned' = Charge(first, idx)
        /\ prefill' = IF new THEN [prefill EXCEPT ![idx] = @ + BodyBytes] ELSE prefill
        /\ decode' = IF new THEN decode ELSE [decode EXCEPT ![idx] = @ + 1]
        /\ \/ /\ ~(new /\ use_sem)
              /\ req' = [req EXCEPT ![r] = q] /\ UNCHANGED ttft
           \/ /\ new /\ use_sem /\ ttft[epoch][idx] > 0
              /\ req' = [req EXCEPT ![r] = [q EXCEPT !.th = epoch]]
              /\ ttft' = Take(ttft, epoch, idx)
           \/ /\ new /\ use_sem /\ ttft[epoch][idx] = 0
              /\ req' = [req EXCEPT ![r] = [q EXCEPT !.ph = "twait", !.ep = epoch]]
              /\ UNCHANGED ttft
        /\ UNCHANGED <<foreign, LustreRest>>

LustreGotPermit(r) ==
    LET q == req[r] IN
    /\ LustreIs /\ q.ph = "twait" /\ ttft[q.ep][q.idx] > 0
    /\ req' = [req EXCEPT ![r] = [q EXCEPT !.ph = "post", !.th = q.ep, !.ep = None]]
    /\ ttft' = Take(ttft, q.ep, q.idx)
    /\ UNCHANGED <<tier, active, assigned, prefill, decode, foreign, LustreRest>>

LustreFinish(r) ==
    LET q == req[r] IN
    /\ ttft' = Released(ttft, q.th, q) /\ foreign' = ForeignAfter(q)
    /\ prefill' = IF q.pf THEN [prefill EXCEPT ![q.idx] = Less(@, BodyBytes)] ELSE prefill
    /\ decode' = IF q.pf THEN decode ELSE [decode EXCEPT ![q.idx] = Less(@, 1)]
    /\ req' = [req EXCEPT ![r] = [Idle EXCEPT !.ph = "done"]]
    /\ UNCHANGED <<tier, active, assigned, LustreRest>>

LustreHeaders(r) ==
    /\ LustreIs /\ req[r].ph = "post"
    /\ req' = [req EXCEPT ![r].ph = "stream"]
    /\ UNCHANGED <<maps, counters, sems, run, admin>>

LustrePostFails(r) ==
    /\ LustreIs /\ req[r].ph = "post" /\ ("fail" \in may.what \/ resets > 0)
    /\ \/ /\ req[r].att < Attempts - 1
          /\ req' = [req EXCEPT ![r].ph = "backoff", ![r].att = @ + 1]
          /\ UNCHANGED <<maps, counters, sems, run, admin>>
       \/ /\ req[r].att = Attempts - 1
          /\ LustreFinish(r)

LustreRetry(r) ==
    /\ LustreIs /\ req[r].ph = "backoff"
    /\ req' = [req EXCEPT ![r].ph = "post"]
    /\ UNCHANGED <<maps, counters, sems, run, admin>>

LustreFirstToken(r) ==
    LET q == req[r] IN
    /\ LustreIs /\ q.ph = "stream" /\ ~q.tok
    /\ ttft' = Released(ttft, q.th, q) /\ foreign' = ForeignAfter(q)
    /\ prefill' = IF q.pf THEN [prefill EXCEPT ![q.idx] = Less(@, BodyBytes)] ELSE prefill
    /\ decode' = IF q.pf THEN [decode EXCEPT ![q.idx] = @ + 1] ELSE decode
    /\ persisted' = persisted \cup {q.s}
    /\ req' = [req EXCEPT ![r].tok = TRUE, ![r].th = None, ![r].pf = FALSE]
    /\ UNCHANGED <<tier, active, assigned, lost, swept, bsem, epoch, limit, use_sem, run, admin>>

\* The upstream's stream ends or fails, or writing to the client fails.
LustreStreamOver(r) ==
    /\ LustreIs /\ req[r].ph = "stream"
    /\ LustreFinish(r)

LustreResetIndexFirst == \E clear \in {"keep", "clear"}, small \in BOOLEAN :
    /\ LustreIs /\ resets < MaxResets /\ "reset" \in may.what
    /\ resets' = resets + 1
    /\ tier' = IF clear = "clear" THEN Absent ELSE Loaded(tier, index)
    /\ active' = Absent /\ assigned' = Zero
    /\ prefill' = Zero /\ decode' = Zero /\ swept' = (swept \/ \E r \in Requests : Live(r))
    /\ use_sem' = small
    /\ epoch' = IF small THEN epoch + 1 ELSE epoch
    /\ foreign' = IF small THEN NoForeign ELSE foreign
    /\ index' = Loaded(tier, index)
    /\ UNCHANGED <<persisted, lost, bsem, ttft, limit, run, req, may, router, resetting,
                   restarts, leaves>>

\* conc <= 32 makes new semaphores; the old ones stay when it is larger.
LustreReset == \E clear \in {"keep", "clear"}, small \in BOOLEAN :
    /\ LustreIs /\ resets < MaxResets /\ "reset" \in may.what
    /\ resets' = resets + 1
    /\ tier' = IF clear = "clear" THEN Absent ELSE Loaded(tier, index)
    /\ active' = Absent /\ assigned' = Zero
    /\ prefill' = Zero /\ decode' = Zero /\ swept' = (swept \/ \E r \in Requests : Live(r))
    /\ use_sem' = small
    /\ epoch' = IF small THEN epoch + 1 ELSE epoch
    /\ foreign' = IF small THEN NoForeign ELSE foreign
    /\ index' = tier'
    /\ UNCHANGED <<persisted, lost, bsem, ttft, limit, run, req, may, router, resetting,
                   restarts, leaves>>

LustreRestart ==
    /\ LustreIs /\ restarts < MaxRestarts /\ "restart" \in may.what
    /\ restarts' = restarts + 1
    /\ tier' = index /\ active' = Absent /\ assigned' = Zero /\ persisted' = {}
    /\ prefill' = Zero /\ decode' = Zero /\ swept' = FALSE
    /\ epoch' = epoch + 1 /\ use_sem' = FALSE /\ foreign' = NoForeign
    /\ req' = [r \in Requests |-> IF Live(r) THEN [Idle EXCEPT !.ph = "done"] ELSE req[r]]
    /\ UNCHANGED <<lost, bsem, ttft, limit, run, index, may, router, resetting, resets, leaves>>

LustreNext ==
    \/ \E r \in Requests : \/ LustreArrive(r) \/ LustreGotPermit(r) \/ LustreHeaders(r)
                           \/ LustrePostFails(r) \/ LustreRetry(r)
                           \/ LustreFirstToken(r) \/ LustreStreamOver(r)
    \/ LustreReset \/ LustreRestart
=============================================================================
