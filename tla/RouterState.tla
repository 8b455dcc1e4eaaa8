---------------------------- MODULE RouterState ----------------------------
(* The globals of a day0 router process and the properties every router shares:
   src/day0/routers/llmd_multistage_router.py (module LlmdRouter),
   dynamo_multistage_router.py (DynamoRouter), llmd_stage4_lustre_router.py
   (LustreRouter).  A router is one asyncio event loop: what a handler does
   between two awaits is one action.                                          *)
EXTENDS Integers, FiniteSets

CONSTANTS
    Requests,       \* chat requests, each posted at most once
    Sessions,       \* what extract_sig tells apart: one "[rid:...]" per session
    HashIdx,        \* md5(session) modulo 2, the home the Dynamo router gives it
    BodyBytes,      \* len(body), the same for every request
    Scenarios,      \* what happens together in one behaviour (record below)
    MaxResets,      \* bound on /reset calls
    MaxRestarts,    \* bound on restarts of the process
    MaxLeaves,      \* bound on clients that disconnect
    Attempts,       \* posts to a backend per request (3 in the code)
    TtftLimit,      \* ttft_sem in stages 1-3 (24 in the code)
    WideLimit,      \* ttft_sem in stages 4 and 5 (48)
    PrefillLimit    \* prefill_sem of the Lustre router (2)

Programs == {"llmd", "dynamo", "dynamo2", "lustre"}
Backends == {0, 1}
None == -1                            \* "not in the dictionary", "not held"
Epochs == 0..MaxResets + MaxRestarts  \* generations of the semaphore lists
HomeMaps == [Sessions -> Backends \cup {None}]

ASSUME SetsAssumption ==
    /\ IsFiniteSet(Requests)
    /\ HashIdx \in [Sessions -> Backends]
    /\ Scenarios \subseteq [what : SUBSET {"reset", "restart", "leave", "fail"},
                            stages : SUBSET (1..5),       \* of resets
                            sessions : SUBSET Sessions,
                            existing : (SUBSET HomeMaps) \ {{}},  \* see LlmdLoads, DynLoads
                            backend_limit : Nat \ {0}]    \* backend_sem (128 in the code)
ASSUME BoundsAssumption ==
    /\ {BodyBytes, MaxResets, MaxRestarts, MaxLeaves} \subseteq Nat
    /\ {Attempts, TtftLimit, WideLimit, PrefillLimit} \subseteq Nat \ {0}

VARIABLES
    may,         \* the scenario of this behaviour
    router,      \* which program this process runs
    stage,       \* current_stage
    run_id,
    use_sem,
    profiling,   \* profiling_active
    seen,        \* seen_accel_warmup
    rr,          \* rr_counter, its parity
    tier,        \* lustre_kv_tier_map: session -> backend
    active,      \* active_run_sessions: session -> backend
    assigned,    \* assigned_sessions
    persisted,   \* persisted_lustre_sigs
    prefill,     \* in_flight_prefill_bytes
    decode,      \* in_flight_decode_reqs
    epoch,       \* the generation of semaphores the globals name
    ttft,        \* ttft_sem (prefill_sem): permits of each generation
    bsem,        \* backend_sem: permits of each generation
    limit,       \* the size ttft_sem was created with, by generation
    index,       \* session_map of the router's own index file on Lustre
    resetting,   \* handle_reset is suspended in an await, and would clear the tier
    resets, restarts, leaves,
    req          \* the local variables of each request's handler

\* History: what the counters and permits cannot say themselves.
VARIABLES
    foreign,     \* permits of an older generation released into this one
    lost,        \* requests that were counted and left without being uncounted
    swept        \* a reset has zeroed counters that counted live requests

maps == <<tier, active, assigned, persisted>>
counters == <<prefill, decode, lost, swept>>
sems == <<epoch, ttft, bsem, limit, use_sem, foreign>>
run == <<stage, run_id, profiling, seen, rr>>
admin == <<may, router, resetting, resets, restarts, leaves, index>>
vars == <<may, router, stage, run_id, use_sem, profiling, seen, rr, tier, active, assigned,
          persisted, prefill, decode, epoch, ttft, bsem, limit, index, resetting, resets,
          restarts, leaves, req, foreign, lost, swept>>

\* Handlers suspended in: the delay, backend_sem, ttft_sem, client.post, the sleep
\* before a retry, the upstream's stream.
Waiting == {"delay", "bwait", "twait", "post", "backoff", "stream"}
Idle == [ph |-> "idle", s |-> None, idx |-> None, pf |-> FALSE, run |-> None, ep |-> None,
         bh |-> None, th |-> None, att |-> 0, tok |-> FALSE, up |-> TRUE]
Live(r) == req[r].ph \in Waiting

\* A counter indexed by backend and by kind of request.
Zero == [b \in Backends |-> 0]
NoLoss == [b \in Backends |-> [pf |-> 0, dec |-> 0]]
NoForeign == [b \in Backends |-> [t |-> 0, b |-> 0]]
Absent == [s \in Sessions |-> None]

Take(sem, e, b) == [sem EXCEPT ![e][b] = @ - 1]
Give(sem, e, b) == [sem EXCEPT ![e][b] = @ + 1]
LessUnclamped(n, k) == n - k
Less(n, k) == IF n > k THEN n - k ELSE 0            \* max(0, n - k)

\* A session's first measured request charges it to its backend.
Charge(first, b) == IF first THEN [assigned EXCEPT ![b] = @ + 1] ELSE assigned

\* A session that has no home goes to the less loaded backend.
Score(b) == prefill[b] + 200000 * assigned[b] + 50000 * decode[b]
LessLoaded == IF Score(0) <= Score(1) THEN 0 ELSE 1

\* The release of what q holds goes to the lists the globals name now, also when
\* q acquired it from lists that a reset has replaced since.
Released(sem, held, q) == IF held = None THEN sem ELSE Give(sem, epoch, q.idx)
ForeignAfter(q) ==
    [foreign EXCEPT ![q.idx].t = @ + (IF q.th \in {None, epoch} THEN 0 ELSE 1),
                    ![q.idx].b = @ + (IF q.bh \in {None, epoch} THEN 0 ELSE 1)]

\* A connection fails by itself, or because a reset closed the client it belongs to.
MayFail(r) == "fail" \in may.what \/ req[r].run # run_id

Loaded(map, file) == [s \in Sessions |-> IF file[s] = None THEN map[s] ELSE file[s]]

InitMaps ==
    /\ may \in Scenarios
    /\ active = Absent /\ assigned = Zero /\ persisted = {}
    /\ prefill = Zero /\ decode = Zero /\ lost = NoLoss /\ swept = FALSE
    /\ run_id = 0 /\ profiling = FALSE /\ seen = FALSE /\ rr = 0
    /\ index = Absent
    /\ epoch = 0 /\ foreign = NoForeign
    /\ bsem = [e \in Epochs |-> [b \in Backends |-> may.backend_limit]]
    /\ resetting = "no" /\ resets = 0 /\ restarts = 0 /\ leaves = 0
    /\ req = [r \in Requests |-> Idle]
-----------------------------------------------------------------------------
(* TypeOK: every variable has its type; permits and counters are never negative. *)
TypeOK ==
    /\ may \in Scenarios /\ router \in Programs /\ stage \in 1..5 /\ run_id \in 0..MaxResets
    /\ {use_sem, profiling, seen, swept} \subseteq BOOLEAN /\ rr \in {0, 1}
    /\ {tier, active, index} \subseteq HomeMaps
    /\ assigned \in [Backends -> Nat] /\ persisted \subseteq Sessions
    /\ prefill \in [Backends -> Nat] /\ decode \in [Backends -> Nat]
    /\ epoch \in Epochs /\ limit \in [Epochs -> Nat]
    /\ ttft \in [Epochs -> [Backends -> Nat]] /\ bsem \in [Epochs -> [Backends -> Nat]]
    /\ resetting \in {"no", "keep", "clear"}
    /\ resets \in 0..MaxResets /\ restarts \in 0..MaxRestarts /\ leaves \in 0..MaxLeaves
    /\ foreign \in [Backends -> [t : Nat, b : Nat]]
    /\ lost \in [Backends -> [pf : Nat, dec : Nat]]
    /\ req \in [Requests ->
           [ph : Waiting \cup {"idle", "done"}, s : Sessions \cup {None}, idx : Backends \cup {None},
            pf : BOOLEAN, run : 0..MaxResets \cup {None}, ep : Epochs \cup {None},
            bh : Epochs \cup {None}, th : Epochs \cup {None}, att : 0..Attempts - 1, tok : BOOLEAN,
            up : BOOLEAN]]

(* PermitsConserved: the permits of the semaphores in use and the requests that
   hold one of them add up to the size of the semaphore, plus the permits that
   requests of before the last reset gave back to it: no path through a handler
   (499, 502, retries, a closed stream, a disconnected client) forgets a permit
   or gives it back twice.                                                     *)
PermitsConserved == \A b \in Backends :
    /\ ttft[epoch][b] + Cardinality({r \in Requests : req[r].idx = b /\ req[r].th = epoch})
           = limit[epoch] + foreign[b].t
    /\ bsem[epoch][b] + Cardinality({r \in Requests : req[r].idx = b /\ req[r].bh = epoch})
           = may.backend_limit + foreign[b].b

Counted(b, kind) == Cardinality({r \in Requests : Live(r) /\ req[r].idx = b /\ req[r].pf = kind})

(* CountersExact: as long as no reset has zeroed the count of a live request, the
   counters are exactly the live requests and the 499s: the move from prefill
   to decode at the first token and the clamps at zero lose nothing.           *)
CountersExact == ~swept => \A b \in Backends :
    /\ prefill[b] = BodyBytes * (Counted(b, TRUE) + lost[b].pf)
    /\ decode[b] = Counted(b, FALSE) + lost[b].dec

(* OneHome: a session that is active in a run is served by the backend the KV tier
   names for it (the backend that holds its blocks), also across resets, clears
   and restarts.  Stage 1 of the Dynamo router is the round robin that has no home.
   Stage 1 of the llm-d router is not: it serves a session at home like any other
   stage (llmd_multistage_router.py:140), although the comment at :155 and the
   guides call it a stateless round robin (README, "Disagreements").              *)
OneHome == \A s \in Sessions : active[s] # None =>
    \/ active[s] = tier[s]
    \/ router \in {"dynamo", "dynamo2"} /\ stage = 1

(* IndexAgrees: the router's own index file never sends a session, after a restart,
   to another backend than the running router does.                             *)
IndexAgrees == resetting # "clear" =>
    \A s \in Sessions : index[s] # None /\ tier[s] # None => index[s] = tier[s]

(* KeepsHomes: the router implements the abstract tier of KvHomes: no interleaving of
   requests and resets moves a session that has a home, and no restart one whose
   home was saved, whatever the older index holds that a start also reads.       *)
Homes == INSTANCE KvHomes WITH home <- tier, saved <- index, older <- may.existing
KeepsHomes == Homes!Spec

(* WaitersAreServed: a request that waits for a permit of the semaphores in use has a
   permit to take or a live holder on the same backend that will give one back: no
   set of handlers waits for one another.  (Requests that wait on a list a reset
   has replaced are outside of it: releases no longer reach that list.)          *)
WaitersAreServed == \A r \in Requests : req[r].ep = epoch =>
    \/ req[r].ph = "twait" /\ ttft[epoch][req[r].idx] > 0
    \/ req[r].ph = "bwait" /\ bsem[epoch][req[r].idx] > 0
    \/ \E h \in Requests \ {r} :
          /\ Live(h) /\ req[h].idx = req[r].idx
          /\ \/ req[r].ph = "twait" /\ req[h].th = epoch /\ req[h].ph # "bwait"
             \/ req[r].ph = "bwait" /\ req[h].bh = epoch
=============================================================================
