----------------------------- MODULE LlmdRouter -----------------------------
(* src/day0/routers/llmd_multistage_router.py: the router of the llm-d benchmark.
   A request's handler is delayed, takes a permit of its backend, one for its
   first token, streams, and uncounts itself; /reset starts the next run while
   handlers of the last one are anywhere in between.                          *)
EXTENDS RouterState

LlmdIs == router = "llmd"

\* on_startup: the router's own index, or, if that is missing or names no session,
\* EXISTING_LUSTRE_INDEX.  The second file is the Lustre router's, which may write
\* it at any time.
LlmdLoads(file) == IF index # Absent THEN index ELSE file

LlmdInit ==
    /\ InitMaps /\ LlmdIs
    /\ \E file \in may.existing : tier = LlmdLoads(file)
    /\ stage = 4 /\ use_sem = TRUE
    /\ limit = [e \in Epochs |-> TtftLimit]
    /\ ttft = [e \in Epochs |-> [b \in Backends |-> TtftLimit]]

LlmdHomeByLoad(s) == IF active[s] # None THEN active[s] ELSE LessLoaded
LlmdHome(s) == IF active[s] # None THEN active[s]
               ELSE IF tier[s] # None THEN tier[s] ELSE LessLoaded

LlmdReleaseBackendOnly(q, b, t) ==
    /\ bsem' = Released(b, q.bh, q) /\ ttft' = t
    /\ foreign' = ForeignAfter([q EXCEPT !.th = None])
LlmdReleaseTtftOnly(q, b, t) ==
    /\ bsem' = b /\ ttft' = Released(t, q.th, q)
    /\ foreign' = ForeignAfter([q EXCEPT !.bh = None])
LlmdRelease(q, b, t) ==
    /\ bsem' = Released(b, q.bh, q)
    /\ ttft' = Released(t, q.th, q)
    /\ foreign' = ForeignAfter(q)

\* The check after the semaphores: 499 when the run has changed since the delay or
\* the client is gone.  It gives the permits back and leaves the counters counted.
LlmdAdmit(r, q, b, t) ==
    \/ /\ q.run = run_id /\ q.up
       /\ req' = [req EXCEPT ![r] = [q EXCEPT !.ph = "post", !.ep = None]]
       /\ bsem' = b /\ ttft' = t
       /\ UNCHANGED <<foreign, lost>>
    \/ /\ q.run # run_id \/ ~q.up
       /\ LlmdRelease(q, b, t)
       /\ lost' = IF q.pf THEN [lost EXCEPT ![q.idx].pf = @ + 1]
                          ELSE [lost EXCEPT ![q.idx].dec = @ + 1]
       /\ req' = [req EXCEPT ![r] = [Idle EXCEPT !.ph = "done"]]

LlmdTakeTtft(r, q, b) ==
    \/ /\ ttft[epoch][q.idx] > 0
       /\ LlmdAdmit(r, [q EXCEPT !.th = epoch], b, Take(ttft, epoch, q.idx))
    \/ /\ ttft[epoch][q.idx] = 0
       /\ req' = [req EXCEPT ![r] = [q EXCEPT !.ph = "twait", !.ep = epoch]]
       /\ bsem' = b
       /\ UNCHANGED <<ttft, foreign, lost>>

LlmdGate(r, q, measured) ==
    \/ /\ ~(measured /\ use_sem)
       /\ LlmdAdmit(r, q, bsem, ttft)
    \/ /\ measured /\ use_sem /\ bsem[epoch][q.idx] > 0
       /\ LlmdTakeTtft(r, [q EXCEPT !.bh = epoch], Take(bsem, epoch, q.idx))
    \/ /\ measured /\ use_sem /\ bsem[epoch][q.idx] = 0
       /\ req' = [req EXCEPT ![r] = [q EXCEPT !.ph = "bwait", !.ep = epoch]]
       /\ UNCHANGED <<bsem, ttft, foreign, lost>>

\* Profiling begins with the first request after a warm-up that is not one itself.
LlmdMeasured(warm) == profiling \/ (seen /\ ~warm)

\* A request of session s, a warm-up or not, gets its backend.
LlmdAssign(r, s, warm) ==
    LET home == LlmdHome(s)
        measured == LlmdMeasured(warm)
        first == measured /\ active[s] = None
        pf == measured /\ (stage = 1 \/ first)
        delayed == measured /\ (stage \in {1, 2} \/ (stage \in {3, 4} /\ first))
        q == [Idle EXCEPT !.ph = "delay", !.s = s, !.idx = home, !.pf = pf]
    IN  /\ LlmdIs /\ req[r].ph = "idle"
        /\ profiling' = measured
        /\ seen' = (seen \/ (warm /\ ~profiling))
        /\ tier' = IF active[s] = None /\ tier[s] = None THEN [tier EXCEPT ![s] = home] ELSE tier
        /\ active' = IF first THEN [active EXCEPT ![s] = home] ELSE active
        /\ assigned' = Charge(first, home)
        /\ prefill' = IF pf THEN [prefill EXCEPT ![home] = @ + BodyBytes] ELSE prefill
        /\ decode' = IF pf THEN decode ELSE [decode EXCEPT ![home] = @ + 1]
        /\ \/ /\ delayed
              /\ req' = [req EXCEPT ![r] = q]
              /\ UNCHANGED <<bsem, ttft, foreign, lost>>
           \/ /\ ~delayed
              /\ LlmdGate(r, [q EXCEPT !.run = run_id], measured)
    /\ UNCHANGED <<persisted, epoch, limit, use_sem, swept, stage, run_id, rr, admin>>

LlmdArrive(r) == \E s \in may.sessions, warm \in BOOLEAN : LlmdAssign(r, s, warm)

\* The run is noted after the delay, so a reset in between goes unnoticed.
LlmdDelayOver(r) ==
    /\ LlmdIs /\ req[r].ph = "delay"
    /\ LlmdGate(r, [req[r] EXCEPT !.run = run_id], profiling)
    /\ UNCHANGED <<maps, prefill, decode, swept, epoch, limit, use_sem, run, admin>>

\* A permit of the semaphore r waits on, of whatever generation, becomes free.
LlmdGotBackend(r) ==
    /\ LlmdIs /\ req[r].ph = "bwait" /\ bsem[req[r].ep][req[r].idx] > 0
    /\ LlmdTakeTtft(r, [req[r] EXCEPT !.bh = req[r].ep], Take(bsem, req[r].ep, req[r].idx))
    /\ UNCHANGED <<maps, prefill, decode, swept, epoch, limit, use_sem, run, admin>>

LlmdGotTtft(r) ==
    /\ LlmdIs /\ req[r].ph = "twait" /\ ttft[req[r].ep][req[r].idx] > 0
    /\ LlmdAdmit(r, [req[r] EXCEPT !.th = req[r].ep], bsem, Take(ttft, req[r].ep, req[r].idx))
    /\ UNCHANGED <<maps, prefill, decode, swept, epoch, limit, use_sem, run, admin>>

\* The finally of the handler.
LlmdFinish(r) ==
    LET q == req[r] IN
    /\ LlmdRelease(q, bsem, ttft)
    /\ prefill' = IF q.pf THEN [prefill EXCEPT ![q.idx] = Less(@, BodyBytes)] ELSE prefill
    /\ decode' = IF q.pf THEN decode ELSE [decode EXCEPT ![q.idx] = Less(@, 1)]
    /\ req' = [req EXCEPT ![r] = [Idle EXCEPT !.ph = "done"]]
    /\ UNCHANGED <<maps, lost, swept, epoch, limit, use_sem, run, admin>>

LlmdHeaders(r) ==
    /\ LlmdIs /\ req[r].ph = "post"
    /\ req' = [req EXCEPT ![r].ph = "stream"]
    /\ UNCHANGED <<maps, counters, sems, run, admin>>

\* The connection, or its timeout, fails before a response is prepared: up to three
\* attempts in the same run, then 502.
LlmdPostFails(r) ==
    /\ LlmdIs /\ req[r].ph = "post" /\ MayFail(r)
    /\ \/ /\ req[r].att < Attempts - 1 /\ req[r].run = run_id
          /\ req' = [req EXCEPT ![r].ph = "backoff", ![r].att = @ + 1]
          /\ UNCHANGED <<maps, counters, sems, run, admin>>
       \/ /\ ~(req[r].att < Attempts - 1 /\ req[r].run = run_id)
          /\ LlmdFinish(r)

LlmdRetry(r) ==
    /\ LlmdIs /\ req[r].ph = "backoff"
    /\ req' = [req EXCEPT ![r].ph = "post"]
    /\ UNCHANGED <<maps, counters, sems, run, admin>>

LlmdStale(r) == req[r].run # run_id \/ ~req[r].up

LlmdFirstToken(r) ==
    LET q == req[r] IN
    /\ LlmdIs /\ q.ph = "stream" /\ ~q.tok /\ ~LlmdStale(r)
    /\ ttft' = Released(ttft, q.th, q)
    /\ foreign' = ForeignAfter([q EXCEPT !.bh = None])
    /\ prefill' = IF q.pf THEN [prefill EXCEPT ![q.idx] = Less(@, BodyBytes)] ELSE prefill
    /\ decode' = IF q.pf THEN [decode EXCEPT ![q.idx] = @ + 1] ELSE decode
    /\ persisted' = persisted \cup (IF stage \in {4, 5} THEN {q.s} ELSE {})
    /\ req' = [req EXCEPT ![r].tok = TRUE, ![r].th = None, ![r].pf = FALSE]
    /\ UNCHANGED <<tier, active, assigned, lost, swept, bsem, epoch, limit, use_sem, run, admin>>

\* The stream ends, fails, was closed by a reset, or the handler sees at a chunk
\* that it is stale and breaks off.
LlmdStreamOver(r) ==
    /\ LlmdIs /\ req[r].ph = "stream"
    /\ LlmdFinish(r)

LlmdDisconnect(r) ==
    /\ LlmdIs /\ Live(r) /\ req[r].up /\ leaves < MaxLeaves /\ "leave" \in may.what
    /\ req' = [req EXCEPT ![r].up = FALSE] /\ leaves' = leaves + 1
    /\ UNCHANGED <<maps, counters, sems, run, may, router, resetting, resets, restarts, index>>

\* /reset up to its sleep of 0.25 s: the new run has begun, and the streams are
\* closed: they are all of an older run, so none passes a chunk on any more.
LlmdResetBegin == \E st \in may.stages, clear \in {"keep", "clear"} :
    /\ LlmdIs /\ resetting = "no" /\ resets < MaxResets /\ "reset" \in may.what
    /\ stage' = st /\ run_id' = run_id + 1
    /\ seen' = FALSE /\ profiling' = FALSE
    /\ resetting' = clear /\ resets' = resets + 1
    /\ UNCHANGED <<rr, maps, counters, sems, req, may, router, restarts, leaves, index>>

\* The rest of /reset: everything is zeroed under the handlers that are still there,
\* the semaphores are replaced, and the index file is written.
LlmdResetEnd ==
    /\ LlmdIs /\ resetting # "no"
    /\ active' = Absent /\ assigned' = Zero
    /\ tier' = IF resetting = "clear" THEN Absent ELSE tier
    /\ prefill' = Zero /\ decode' = Zero /\ lost' = NoLoss
    /\ swept' = (swept \/ \E r \in Requests : Live(r))
    /\ epoch' = epoch + 1
    /\ limit' = [limit EXCEPT ![epoch + 1] = IF stage \in {4, 5} THEN WideLimit ELSE TtftLimit]
    /\ ttft' = [ttft EXCEPT ![epoch + 1] = [b \in Backends |-> limit'[epoch + 1]]]
    /\ bsem' = [bsem EXCEPT ![epoch + 1] = [b \in Backends |-> may.backend_limit]]
    /\ use_sem' = (stage \notin {4, 5}) /\ foreign' = NoForeign
    /\ index' = tier' /\ resetting' = "no"
    /\ UNCHANGED <<persisted, stage, run_id, profiling, seen, rr, req, may, router, resets, restarts, leaves>>

\* The process dies and starts again.
LlmdRestart ==
    /\ LlmdIs /\ restarts < MaxRestarts /\ "restart" \in may.what
    /\ restarts' = restarts + 1 /\ resetting' = "no"
    /\ stage' = 4 /\ run_id' = 0 /\ profiling' = FALSE /\ seen' = FALSE
    /\ \E file \in may.existing : tier' = LlmdLoads(file)
    /\ active' = Absent /\ assigned' = Zero /\ persisted' = {}
    /\ prefill' = Zero /\ decode' = Zero /\ lost' = NoLoss /\ swept' = FALSE
    /\ epoch' = epoch + 1 /\ use_sem' = TRUE /\ foreign' = NoForeign
    /\ limit' = [limit EXCEPT ![epoch + 1] = TtftLimit]
    /\ ttft' = [ttft EXCEPT ![epoch + 1] = [b \in Backends |-> TtftLimit]]
    /\ bsem' = [bsem EXCEPT ![epoch + 1] = [b \in Backends |-> may.backend_limit]]
    /\ req' = [r \in Requests |-> IF Live(r) THEN [Idle EXCEPT !.ph = "done"] ELSE req[r]]
    /\ UNCHANGED <<rr, index, may, router, resets, leaves>>

\* What the event loop, the upstream and its timeouts are bound to do for r.
LlmdProgress(r) == LlmdDelayOver(r) \/ LlmdGotBackend(r) \/ LlmdGotTtft(r) \/ LlmdHeaders(r)
                   \/ LlmdPostFails(r) \/ LlmdRetry(r) \/ LlmdStreamOver(r)

LlmdNext ==
    \/ \E r \in Requests : \/ LlmdArrive(r) \/ LlmdProgress(r)
                           \/ LlmdFirstToken(r) \/ LlmdDisconnect(r)
    \/ LlmdResetBegin \/ LlmdResetEnd \/ LlmdRestart
=============================================================================
