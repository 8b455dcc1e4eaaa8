---------------------------- MODULE KeynoteDriver ----------------------------
(***************************************************************************)
(* The keynote driver's control of the agent fleet: bursts, the duty       *)
(* cycle, steady traffic, suspend-all and reconcile, against ate-api (the  *)
(* actors' true states) and atenet (the ingress that wakes an actor for    *)
(* every request it routes).                                               *)
(*                                                                         *)
(* Every goroutine of the Go program is a thread here; an action is the    *)
(* code between two points where a goroutine blocks: a critical section of *)
(* d.mu, or the effect of one RPC at ate-api (the driver's reaction to the *)
(* answer is a later action, so anything may happen in between).  The      *)
(* harness is "sandbox" (d.h = nil).                                       *)
(***************************************************************************)
EXTENDS Integers, FiniteSets

CONSTANTS
    N,              \* -agents
    Workers,        \* the goroutines dutyLoop starts
    MaxBursts,      \* bound: bursts (and suspend-all records) in one run
    BurstArgs,      \* the POST /api/burst bodies the operator sends
    Commands,       \* the other endpoints the operator uses
    Rates,          \* the rates POST /api/traffic is sent
    Faults,         \* what may go wrong outside the driver
    InitAte,        \* actor states the driver may find when it starts
    AutoTraffic,    \* -auto-traffic
    LlmAfterAll,    \* -llm-after-all
    OverloadRate,   \* -overload-rate, in multiples of the base rate
    SuspCap,        \* -suspend-concurrency
    DutyTarget,     \* dutyTarget()
    WakeSlack,      \* 6 in the source: the cap on active agents when waking
    PauseSlack,     \* 8 in the source: the cap beyond which workers pause
    FirstTries,     \* 4 in the source: tries of an agent's first request
    DutyTries,      \* 3 in the source: tries of a duty-cycle request
    MaxReq,         \* maxReqPerAgent, 2 in the source
    MaxInflight,    \* -max-inflight, 0 is no cap
    SweepPasses,    \* 6 in the source
    VerifyRounds    \* 3 in the source

Agent     == 1..N
BurstId   == 1..MaxBursts
AllFaults == { "slow",        \* a wait of 10 s or 15 s ends before the calls do
               "wake", "lost", "restore", "rest", "checkpoint", "create",
               "list", "crash", "restart" }

ASSUME ConstantAssumption ==
    /\ N \in Nat \ {0} /\ IsFiniteSet(Workers) /\ Workers # {}
    /\ MaxBursts \in Nat \ {0}
    /\ BurstArgs \subseteq [hold : BOOLEAN, wakeOnly : BOOLEAN, total : 1..N, conc : 0..N]
    /\ Commands \subseteq {"simulate", "stop", "traffic", "strategy", "suspend", "reconcile"}
    /\ Rates \subseteq 0..2 /\ Faults \subseteq AllFaults
    /\ AutoTraffic \in BOOLEAN /\ LlmAfterAll \in BOOLEAN /\ OverloadRate \in 0..1
    /\ {SuspCap, DutyTarget, FirstTries, DutyTries, MaxReq} \subseteq Nat \ {0}
    /\ {WakeSlack, PauseSlack, MaxInflight, SweepPasses, VerifyRounds} \subseteq Nat

AteStates == {"SUSPENDED", "RESUMING", "RUNNING", "SUSPENDING", "CRASHED", "MISSING"}
AteUp     == {"RESUMING", "RUNNING", "SUSPENDING"}     \* compute still held
ASSUME InitAteAssumption == InitAte \subseteq AteStates /\ InitAte # {}

Phases == {"idle", "waking", "running", "suspending", "reconciling"}
States == {"Suspended", "Waking", "Running", "Requesting", "Suspending", "Failed"}

VARIABLES
    phase, busy,    \* d.phase, d.busy
    rate,           \* d.tr.Rate: 0, 1 (the base rate) or 2 (above it)
    states, up,     \* d.states, d.up
    badSnap,        \* d.badSnap
    burstN, cur,    \* d.burstN and the number of the burst d.b points to (0 is nil)
    burst,          \* *d.b
    dutyOps, reqBusy, inflight,
    ctl,            \* the goroutine of the running burst, suspend-all or reconcile
    pc, tries,      \* where every other goroutine is; tries left of its request
    work,           \* what each duty worker handles
    dispatch,       \* what trafficLoop read before it calls pickIdle
    ate             \* ate-api: the actors' true states

grid == <<states, up, badSnap>>
req  == <<dutyOps, reqBusy, inflight>>
thr  == <<pc, tries, work>>
op   == <<phase, busy, rate, burstN, cur, burst, ctl>>
vars == <<op, grid, req, thr, dispatch, ate>>

Thread == ({"life", "sweep", "fix"} \X Agent \X {0})
            \cup ({"wave"} \X Agent \X BurstId)
            \cup ({"plain", "over"} \X Agent \X (1..MaxReq))
            \cup ({"duty"} \X Workers \X {0})
Life(a)    == <<"life", a, 0>>       \* agentLife
Sweep(a)   == <<"sweep", a, 0>>      \* suspendOne of runSuspendAll
Fix(a)     == <<"fix", a, 0>>        \* forEachLimited of preflight and verifyAtRest
Wave(a, b) == <<"wave", a, b>>       \* the initial wave of startDutyCycleLocked
Duty(w)    == <<"duty", w, 0>>       \* a worker of dutyLoop
Kind(t)    == t[1]
AgentOf(t) == IF Kind(t) = "duty" THEN work[t[2]].agent ELSE t[2]
BurstOf(t) == IF Kind(t) = "duty" THEN work[t[2]].b
              ELSE IF Kind(t) = "wave" THEN t[3] ELSE cur
All(kind)  == {t \in Thread : Kind(t) = kind}
Done(kind) == \A t \in All(kind) : pc[t] = "idle"

NoWork == [agent |-> 1, b |-> 0, counted |-> FALSE]
AllAgents == [hold |-> TRUE, wakeOnly |-> FALSE, total |-> N, conc |-> 0]
NoCtl  == [op |-> "none", pc |-> "none", args |-> AllAgents, pass |-> 0,
           list |-> [a \in Agent |-> "SUSPENDED"]]
newBurst(args) ==
    [args |-> args, woke |-> 0, failed |-> 0, dutyCycle |-> FALSE,
     wakeDone |-> FALSE, allRunning |-> FALSE, allSusp |-> FALSE]   \* the times set (>= 0)

Goto(t, p)   == pc' = [pc EXCEPT ![t] = p]
Set(a, s)    == states' = [states EXCEPT ![a] = s]
Spawn(ts, p) == pc' = [t \in Thread |-> IF t \in ts THEN p ELSE pc[t]]

-----------------------------------------------------------------------------
(* ate-api, as the driver uses it.  An RPC with its retries is one step     *)
(* with one outcome; "lost" is an answer that never came for a resume that  *)
(* still lands, "checkpoint" and "restore" the two failures inside runsc.   *)

ResumeOutcomes(s) ==
    {<<"woke", "RUNNING">> : x \in {s} \cap {"SUSPENDED", "RESUMING", "RUNNING"}}
      \cup {<<"wakeErr", s>> : x \in ({s} \ {"SUSPENDED", "RESUMING", "RUNNING"})
                                       \cup (Faults \cap {"wake"})}
      \cup {<<"wakeErr", "RESUMING">> : x \in {y \in Faults : y = "lost" /\ s = "SUSPENDED"}}
      \cup {<<"wakeBad", s>> : x \in {y \in Faults : y = "restore" /\ s = "SUSPENDED"}}

RestOutcomes(s) ==
    {<<"restOk", "SUSPENDED">> : x \in {s} \ {"CRASHED", "MISSING"}}
      \cup {<<"restErr", s>> : x \in ({s} \cap {"RESUMING", "CRASHED", "MISSING"})
                                       \cup (Faults \cap {"rest"})}
      \cup {<<"restBad", "SUSPENDING">> : x \in {y \in Faults : y = "checkpoint"
                                                    /\ s \in {"RUNNING", "SUSPENDING"}}}

(* A resume whose answer was lost lands; a sandbox dies. *)
AteLands(a) ==
    /\ ate[a] = "RESUMING" /\ ate' = [ate EXCEPT ![a] = "RUNNING"]
    /\ UNCHANGED <<op, grid, req, thr, dispatch>>
AteCrashes(a) ==
    /\ "crash" \in Faults /\ ate[a] = "RUNNING" /\ ate' = [ate EXCEPT ![a] = "CRASHED"]
    /\ UNCHANGED <<op, grid, req, thr, dispatch>>

-----------------------------------------------------------------------------
(* Helpers that run with d.mu held. *)

AutoRate   == 1 + OverloadRate
ActiveCount == Cardinality({a \in Agent : states[a] \notin {"Suspended", "Failed"}})
AllClean   == up = 0 /\ \A a \in Agent : states[a] = "Suspended"
StillDuty(b) == phase = "running" /\ cur = b /\ burst.dutyCycle
Resting(a)   == states[a] \in {"Suspending", "Suspended"}        \* agentResting
SemHolders == {t \in Thread : pc[t] \in {"wait", "call", "restOk", "restErr", "restBad", "create"}}
SemFree    == Cardinality(SemHolders) < SuspCap                  \* suspSem

(* Mutants: a state left out of the switch, and a stuck pause shown as at rest. *)
gridState_NoSuspending(s) == CASE s \in {"RUNNING", "RESUMING"} -> "Running"
                               [] s \in {"CRASHED", "MISSING"}  -> "Failed"
                               [] s = "SUSPENDED"              -> "Suspended"
                               [] OTHER                        -> "Unknown"
gridState_HidesStuck(s) == CASE s \in {"RUNNING", "RESUMING"} -> "Running"
                             [] s \in {"CRASHED", "MISSING"}  -> "Failed"
                             [] s \in {"SUSPENDED", "SUSPENDING"} -> "Suspended"

(* applyStates: the grid as ate-api has it; a broken agent stays failed, but *)
(* it still counts as up while ate-api has it up.                            *)
gridState(s) == CASE s \in {"RUNNING", "RESUMING"}  -> "Running"
                  [] s = "SUSPENDING"              -> "Suspending"
                  [] s \in {"CRASHED", "MISSING"}   -> "Failed"
                  [] s = "SUSPENDED"               -> "Suspended"
GridOf(st, bad) == [a \in Agent |-> IF a \in bad THEN "Failed" ELSE gridState(st[a])]
UpOf(st) == Cardinality({a \in Agent : gridState(st[a]) \in {"Running", "Suspending"}})
applyStates(st) == states' = GridOf(st, badSnap) /\ up' = UpOf(st)

markBroken(a) == badSnap' = badSnap \cup {a} /\ Set(a, "Failed") /\ UNCHANGED up

(* startDutyCycleLocked: the first DutyTarget agents of a shuffled list ask *)
(* once and then pause, the others only pause.                              *)
StartDutyCycle ==
    LET up23 == {a \in Agent : states[a] \in {"Running", "Waking"}}
    IN  /\ burst' = [burst EXCEPT !.dutyCycle = TRUE]
        /\ \E first \in SUBSET up23 :
             /\ Cardinality(first) = IF Cardinality(up23) < DutyTarget
                                     THEN Cardinality(up23) ELSE DutyTarget
             /\ pc' = [t \in Thread |-> IF Kind(t) # "wave" \/ t[3] # cur \/ t[2] \notin up23
                                        THEN pc[t]
                                        ELSE IF t[2] \in first THEN "first" ELSE "check"]

-----------------------------------------------------------------------------
(* wakeRPC: thread t waits for ResumeActor of its agent. *)
wakeRPC(t) ==
    LET a == AgentOf(t)
    IN  /\ pc[t] = "resume"
        /\ \E o \in ResumeOutcomes(ate[a]) :
             /\ Goto(t, o[1])
             /\ ate' = [ate EXCEPT ![a] = o[2]]
             /\ badSnap' = IF o[1] = "wakeBad" THEN badSnap \cup {a} ELSE badSnap
        /\ UNCHANGED <<op, states, up, req, tries, work, dispatch>>

(* restRPC: thread t waits for SuspendActor or PauseActor of its agent. *)
restRPC(t) ==
    LET a == AgentOf(t)
    IN  /\ pc[t] = "call"
        /\ \E o \in RestOutcomes(ate[a]) : Goto(t, o[1]) /\ ate' = [ate EXCEPT ![a] = o[2]]
        /\ UNCHANGED <<op, grid, req, tries, work, dispatch>>

(* waitNotBusy: the wait ends when no request is in flight on the agent, or *)
(* after 10 s.                                                              *)
waitNotBusy_NoWait(t) ==                                                 \* mutant
    /\ pc[t] = "wait" /\ Goto(t, "call")
    /\ UNCHANGED <<op, grid, req, tries, work, dispatch, ate>>

waitNotBusy(t) ==
    /\ pc[t] = "wait" /\ (reqBusy[AgentOf(t)] <= 0 \/ "slow" \in Faults)
    /\ Goto(t, "call")
    /\ UNCHANGED <<op, grid, req, tries, work, dispatch, ate>>

AcquireSem(t) ==
    /\ pc[t] \in {"claimed", "restQ", "createQ"} /\ SemFree
    /\ Goto(t, CASE pc[t] = "claimed" -> "wait" [] pc[t] = "restQ" -> "call"
                 [] pc[t] = "createQ" -> "create")
    /\ UNCHANGED <<op, grid, req, tries, work, dispatch, ate>>

-----------------------------------------------------------------------------
(* askJoke.  A request is claimed together with the state it is sent in;   *)
(* every try goes through atenet, which resumes an actor at rest.  A failed *)
(* try is repeated after a back-off, unless the agent is being put to rest. *)

Routed(a) == ate' = [ate EXCEPT ![a] = IF @ = "SUSPENDED" THEN "RUNNING" ELSE @]

BeginRequest(t, a, n) ==
    /\ Goto(t, "flight") /\ tries' = [tries EXCEPT ![t] = n - 1]
    /\ reqBusy' = [reqBusy EXCEPT ![a] = @ + 1] /\ inflight' = inflight + 1
    /\ Routed(a) /\ UNCHANGED dutyOps

EndRequest(t) ==
    /\ pc[t] = "flight"
    /\ reqBusy' = [reqBusy EXCEPT ![AgentOf(t)] = @ - 1] /\ inflight' = inflight - 1
    /\ tries' = [tries EXCEPT ![t] = 0] /\ UNCHANGED dutyOps

BackOff(t) ==
    /\ pc[t] = "flight" /\ tries[t] > 0 /\ ~Resting(AgentOf(t)) /\ Goto(t, "backoff")
    /\ UNCHANGED <<op, grid, req, tries, work, dispatch, ate>>

SendAgain(t) ==
    /\ pc[t] = "backoff" /\ Goto(t, "flight") /\ tries' = [tries EXCEPT ![t] = @ - 1]
    /\ Routed(AgentOf(t))
    /\ UNCHANGED <<op, grid, req, work, dispatch>>

(* "requesting" goes back to "running" when the agent's own request ends. *)
BackToRunning_Never(a) == UNCHANGED states                                \* mutant
BackToRunning(a) == Set(a, IF states[a] = "Requesting" THEN "Running" ELSE states[a])

-----------------------------------------------------------------------------
(* runFirstJoke, called by agentLife and by the initial wave. *)

AfterFirst(t) == IF Kind(t) = "wave" THEN "check"
                 ELSE IF burst.args.hold THEN "idle" ELSE "claim"

FirstJoke(t) ==
    LET a == AgentOf(t)
    IN  /\ pc[t] = "first"
        /\ Kind(t) = "life" /\ LlmAfterAll => burst.wakeDone
        /\ IF states[a] # "Running" \/ phase = "suspending"
           THEN Goto(t, AfterFirst(t)) /\ UNCHANGED <<states, req, tries, ate>>
           ELSE Set(a, "Requesting") /\ BeginRequest(t, a, FirstTries)
        /\ UNCHANGED <<op, up, badSnap, work, dispatch>>

FirstJokeDone(t) ==
    /\ Kind(t) \in {"life", "wave"} /\ EndRequest(t)
    /\ BackToRunning(AgentOf(t)) /\ Goto(t, AfterFirst(t))
    /\ UNCHANGED <<op, up, badSnap, work, dispatch, ate>>

(* The wave's check before it pauses its agent. *)
WaveCheck(t) ==
    /\ pc[t] = "check" /\ Goto(t, IF StillDuty(BurstOf(t)) THEN "pause" ELSE "idle")
    /\ UNCHANGED <<op, grid, req, tries, work, dispatch, ate>>

-----------------------------------------------------------------------------
(* dutyPauseOne, called by the wave and by the duty workers. *)

PauseReturn(t) == IF Kind(t) = "duty" THEN "ret" ELSE "idle"

(* Mutant: the agent is not looked at again once the semaphore is held. *)
dutyPauseClaim_NoRecheck(t) ==
    LET a == AgentOf(t)
    IN  /\ pc[t] = "pause" /\ SemFree
        /\ IF StillDuty(BurstOf(t))
           THEN Goto(t, "wait") /\ Set(a, "Suspending") /\ dutyOps' = dutyOps + 1
           ELSE Goto(t, PauseReturn(t)) /\ UNCHANGED <<states, dutyOps>>
        /\ UNCHANGED <<op, up, badSnap, reqBusy, inflight, tries, work, dispatch, ate>>

dutyPauseClaim(t) ==
    LET a == AgentOf(t)
    IN  /\ pc[t] = "pause" /\ SemFree
        /\ IF StillDuty(BurstOf(t)) /\ states[a] = "Running"
           THEN Goto(t, "wait") /\ Set(a, "Suspending") /\ dutyOps' = dutyOps + 1
           ELSE Goto(t, PauseReturn(t)) /\ UNCHANGED <<states, dutyOps>>
        /\ UNCHANGED <<op, up, badSnap, reqBusy, inflight, tries, work, dispatch, ate>>

dutyPauseLand(t) ==
    LET a == AgentOf(t)
    IN  /\ Kind(t) \in {"wave", "duty"} /\ pc[t] \in {"restOk", "restErr", "restBad"}
        /\ dutyOps' = dutyOps - 1 /\ Goto(t, PauseReturn(t))
        /\ IF states[a] # "Suspending" THEN UNCHANGED grid
           ELSE IF pc[t] = "restBad" THEN markBroken(a)
           ELSE IF pc[t] = "restErr" THEN Set(a, "Running") /\ UNCHANGED <<up, badSnap>>
           ELSE Set(a, "Suspended") /\ up' = up - 1 /\ UNCHANGED badSnap
        /\ UNCHANGED <<op, reqBusy, inflight, tries, work, dispatch, ate>>

-----------------------------------------------------------------------------
(* dutyLoop's workers and dutyWakeAndRequest. *)

DutyActive == phase = "running" /\ rate > 0 /\ cur # 0 /\ burst.dutyCycle

(* Too many active agents: the worker pauses one instead of waking one.  It  *)
(* counts them and picks one in two critical sections.                       *)
dutyOverCap(w) ==
    /\ pc[Duty(w)] = "idle" /\ DutyActive /\ ActiveCount > DutyTarget + PauseSlack
    /\ work' = [work EXCEPT ![w] = [agent |-> 1, b |-> cur, counted |-> FALSE]]
    /\ Goto(Duty(w), "over")
    /\ UNCHANGED <<op, grid, req, tries, dispatch, ate>>

dutyPick(w) ==
    LET t == Duty(w)
    IN  /\ pc[t] = "over"
        /\ IF \E a \in Agent : states[a] = "Running"
           THEN /\ Goto(t, "pause")
                /\ \E a \in Agent : /\ states[a] = "Running"
                                    /\ work' = [work EXCEPT ![w] = [@ EXCEPT !.agent = a]]
           ELSE Goto(t, "ret") /\ UNCHANGED work
        /\ UNCHANGED <<op, grid, req, tries, dispatch, ate>>

dutyWake(w) ==
    /\ pc[Duty(w)] = "idle" /\ DutyActive /\ ActiveCount <= DutyTarget + PauseSlack
    /\ ActiveCount < DutyTarget + WakeSlack
    /\ \E a \in Agent :
         /\ states[a] = "Suspended" /\ Set(a, "Waking")
         /\ work' = [work EXCEPT ![w] = [agent |-> a, b |-> cur, counted |-> TRUE]]
    /\ dutyOps' = dutyOps + 1 /\ Goto(Duty(w), "resume")
    /\ UNCHANGED <<op, up, badSnap, reqBusy, inflight, tries, dispatch, ate>>

(* Mutant: a wake that lands does not count its sandbox. *)
dutyWakeLand_NotCounted(w) ==
    LET t == Duty(w)
        a == AgentOf(t)
    IN  /\ pc[t] \in {"woke", "wakeErr", "wakeBad"}
        /\ IF states[a] # "Waking" THEN UNCHANGED grid
           ELSE IF pc[t] = "wakeBad" THEN markBroken(a)
           ELSE /\ Set(a, IF pc[t] = "wakeErr" THEN "Suspended" ELSE "Running")
                /\ UNCHANGED <<up, badSnap>>
        /\ Goto(t, IF pc[t] = "woke" /\ states[a] = "Waking" /\ StillDuty(BurstOf(t))
                   THEN "ask" ELSE "ret")
        /\ UNCHANGED <<op, req, tries, work, dispatch, ate>>

dutyWakeLand(w) ==
    LET t == Duty(w)
        a == AgentOf(t)
    IN  /\ pc[t] \in {"woke", "wakeErr", "wakeBad"}
        /\ IF states[a] # "Waking" THEN UNCHANGED grid
           ELSE IF pc[t] = "wakeBad" THEN markBroken(a)
           ELSE IF pc[t] = "wakeErr" THEN Set(a, "Suspended") /\ UNCHANGED <<up, badSnap>>
           ELSE Set(a, "Running") /\ up' = up + 1 /\ UNCHANGED badSnap
        /\ Goto(t, IF pc[t] = "woke" /\ states[a] = "Waking" /\ StillDuty(BurstOf(t))
                   THEN "ask" ELSE "ret")
        /\ UNCHANGED <<op, req, tries, work, dispatch, ate>>

dutyAsk(w) ==
    LET t == Duty(w)
        a == AgentOf(t)
    IN  /\ pc[t] = "ask"
        /\ IF StillDuty(BurstOf(t)) /\ rate > 0 /\ states[a] = "Running"
           THEN Set(a, "Requesting") /\ BeginRequest(t, a, DutyTries)
           ELSE Goto(t, "pause") /\ UNCHANGED <<states, req, tries, ate>>
        /\ UNCHANGED <<op, up, badSnap, work, dispatch>>

dutyAskDone(w) ==
    LET t == Duty(w)
    IN  /\ EndRequest(t) /\ BackToRunning(AgentOf(t))
        /\ Goto(t, IF StillDuty(BurstOf(t)) THEN "pause" ELSE "ret")
        /\ UNCHANGED <<op, up, badSnap, work, dispatch, ate>>

dutyReturn_KeepsOp(w) ==                                                 \* mutant
    /\ pc[Duty(w)] = "ret" /\ Goto(Duty(w), "idle")
    /\ work' = [work EXCEPT ![w] = NoWork]
    /\ UNCHANGED <<op, grid, req, tries, dispatch, ate>>

dutyReturn(w) ==
    /\ pc[Duty(w)] = "ret" /\ Goto(Duty(w), "idle")
    /\ dutyOps' = IF work[w].counted THEN dutyOps - 1 ELSE dutyOps
    /\ work' = [work EXCEPT ![w] = NoWork]
    /\ UNCHANGED <<op, grid, reqBusy, inflight, tries, dispatch, ate>>

-----------------------------------------------------------------------------
(* trafficLoop, pickIdle and trafficRequest.  The loop reads rate, phase    *)
(* and duty cycle first and picks an agent in a later critical section.     *)

DutyNow == cur # 0 /\ burst.dutyCycle

trafficLoop ==
    /\ dispatch = "none" /\ phase = "running" /\ rate > (IF DutyNow THEN 1 ELSE 0)
    /\ dispatch' = IF DutyNow THEN "over" ELSE "plain"
    /\ UNCHANGED <<op, grid, req, thr, ate>>

Eligible(a) == /\ reqBusy[a] < MaxReq
               /\ states[a] = "Running" \/ (dispatch = "over" /\ states[a] = "Requesting")
Pickable == IF phase # "running" \/ (MaxInflight > 0 /\ inflight >= MaxInflight) THEN {}
            ELSE {a \in Agent : Eligible(a)}

pickIdle ==
    /\ dispatch # "none" /\ dispatch' \in {dispatch, "none"}    \* a tick may send several
    /\ IF Pickable = {} THEN UNCHANGED <<states, req, pc, tries, ate>>
       ELSE \E a \in Pickable :
              LET t == <<dispatch, a, CHOOSE k \in 1..MaxReq : pc[<<dispatch, a, k>>] = "idle">>
              IN  /\ BeginRequest(t, a, 1)
                  /\ Set(a, IF dispatch = "plain" THEN "Requesting" ELSE states[a])
    /\ UNCHANGED <<op, up, badSnap, work>>

trafficDone(t) ==
    LET a == AgentOf(t)
    IN  /\ Kind(t) \in {"plain", "over"} /\ EndRequest(t) /\ Goto(t, "idle")
        /\ Set(a, IF Kind(t) = "plain" /\ states[a] = "Requesting" /\ reqBusy'[a] = 0
                  THEN "Running" ELSE states[a])
        /\ UNCHANGED <<op, up, badSnap, work, dispatch, ate>>

-----------------------------------------------------------------------------
(* suspendOne, called by agentLife and by suspend-all.  The agent is claimed *)
(* before the semaphore.                                                     *)

suspendClaim(t) ==
    LET a == AgentOf(t)
    IN  /\ pc[t] = "claim"
        /\ IF states[a] \in {"Running", "Requesting", "Waking"}
           THEN Goto(t, "claimed") /\ Set(a, "Suspending")
           ELSE Goto(t, "idle") /\ UNCHANGED states
        /\ UNCHANGED <<op, up, badSnap, req, tries, work, dispatch, ate>>

suspendLand(t) ==
    LET a == AgentOf(t)
    IN  /\ Kind(t) \in {"life", "sweep"} /\ pc[t] \in {"restOk", "restErr", "restBad"}
        /\ Goto(t, "idle")
        /\ IF pc[t] = "restBad" THEN markBroken(a)
           ELSE IF pc[t] = "restErr" THEN Set(a, "Running") /\ UNCHANGED <<up, badSnap>>
           ELSE Set(a, "Suspended") /\ up' = up - 1 /\ UNCHANGED badSnap
        /\ burst' = [burst EXCEPT !.allSusp =
                       @ \/ (Kind(t) = "sweep" /\ pc[t] = "restOk" /\ up = 1)]
        /\ UNCHANGED <<phase, busy, rate, burstN, cur, ctl, req, tries, work, dispatch, ate>>

-----------------------------------------------------------------------------
(* The goroutine of a burst, a reconcile or a suspend-all: ctl.  preflight   *)
(* serves the first two.                                                     *)

Ctl(p) == ctl' = [ctl EXCEPT !.pc = p]
AteList(p) == ctl' = [ctl EXCEPT !.pc = p, !.list = ate]     \* listStates answers
ListFails == "list" \in Faults                               \* or does not

NotAtRest(st) == {a \in Agent : st[a] \in AteUp}

PreflightDone ==
    IF ctl.op = "burst" THEN Ctl("go") /\ UNCHANGED <<phase, busy>>
    ELSE ctl' = NoCtl /\ phase' = "idle" /\ busy' = FALSE

PreflightList ==
    /\ ctl.pc = "list"
    /\ \/ /\ Spawn({Fix(a) : a \in NotAtRest(ate)}, "restQ")
          /\ AteList(IF NotAtRest(ate) = {} THEN "atRest" ELSE "relist")
          /\ UNCHANGED <<phase, busy>>
       \/ ListFails /\ PreflightDone /\ UNCHANGED pc
    /\ UNCHANGED <<rate, burstN, cur, burst, grid, req, tries, work, dispatch, ate>>

PreflightRelist ==
    /\ ctl.pc = "relist" /\ Done("fix")
    /\ \/ AteList("create") /\ UNCHANGED <<phase, busy>>
       \/ ListFails /\ PreflightDone
    /\ UNCHANGED <<rate, burstN, cur, burst, grid, req, thr, dispatch, ate>>

PreflightCreate ==
    LET toCreate == {a \in Agent : ctl.list[a] # "SUSPENDED" \/ a \in badSnap}
    IN  /\ ctl.pc \in {"atRest", "create"}
        /\ Spawn({Fix(a) : a \in toCreate}, "createQ")
        /\ Ctl(IF ctl.pc = "atRest" /\ toCreate = {} THEN "apply" ELSE "final")
        /\ UNCHANGED <<phase, busy, rate, burstN, cur, burst, grid, req, tries, work, dispatch, ate>>

PreflightFinal ==
    /\ ctl.pc = "final" /\ Done("fix")
    /\ \/ AteList("apply") /\ UNCHANGED <<phase, busy>>
       \/ ListFails /\ PreflightDone
    /\ UNCHANGED <<rate, burstN, cur, burst, grid, req, thr, dispatch, ate>>

PreflightApply ==
    /\ ctl.pc = "apply" /\ applyStates(ctl.list) /\ PreflightDone
    /\ UNCHANGED <<rate, burstN, cur, burst, badSnap, req, thr, dispatch, ate>>

recreate(t) ==
    LET a == AgentOf(t)
    IN  /\ pc[t] = "create" /\ Goto(t, "idle")
        /\ \/ ate' = [ate EXCEPT ![a] = "SUSPENDED"] /\ badSnap' = badSnap \ {a}
           \/ /\ "create" \in Faults /\ UNCHANGED badSnap
              /\ \E s \in {ate[a], "MISSING"} : ate' = [ate EXCEPT ![a] = s]
        /\ UNCHANGED <<op, states, up, req, tries, work, dispatch>>

(* A rest RPC of preflight or verifyAtRest has ended. *)
fixLand(t) ==
    /\ Kind(t) = "fix" /\ pc[t] \in {"restOk", "restErr", "restBad"} /\ Goto(t, "idle")
    /\ IF ctl.op = "suspend" /\ pc[t] = "restBad" THEN markBroken(AgentOf(t)) ELSE UNCHANGED grid
    /\ UNCHANGED <<op, req, tries, work, dispatch, ate>>

-----------------------------------------------------------------------------
(* A burst: startBurst, runBurst, agentLife. *)

startBurst(args) ==
    /\ ~busy /\ phase = "idle" /\ burstN < MaxBursts
    /\ busy' = TRUE /\ burstN' = burstN + 1
    /\ ctl' = [ctl EXCEPT !.op = "burst", !.pc = "decide", !.args = args]
    /\ UNCHANGED <<phase, rate, cur, burst, grid, req, thr, dispatch, ate>>

(* With a clean grid the preflight is skipped. *)
BurstDecide ==
    /\ ctl.pc = "decide" /\ Ctl(IF AllClean THEN "go" ELSE "list")
    /\ UNCHANGED <<phase, busy, rate, burstN, cur, burst, grid, req, thr, dispatch, ate>>

BurstGo ==
    /\ ctl.pc = "go" /\ Ctl("join") /\ phase' = "waking"
    /\ cur' = burstN /\ burst' = newBurst(ctl.args)
    /\ Spawn({Life(a) : a \in 1..ctl.args.total}, "start")
    /\ UNCHANGED <<busy, rate, burstN, grid, req, tries, work, dispatch, ate>>

LifeStart(t) ==
    /\ pc[t] = "start" /\ Goto(t, "resume") /\ Set(AgentOf(t), "Waking")
    /\ burst.args.conc = 0
         \/ Cardinality({l \in All("life") : pc[l] \notin {"idle", "start"}}) < burst.args.conc
    /\ UNCHANGED <<op, up, badSnap, req, tries, work, dispatch, ate>>

(* The rate a burst starts by itself. *)
AutoStart == IF burst.args.hold /\ ~burst.args.wakeOnly /\ AutoTraffic /\ rate = 0
             THEN AutoRate ELSE rate

(* Mutants: agents that failed to wake are forgotten, and counted as running. *)
checkWakeDone_OnlyWoke(woke, failed) ==
    LET last == woke = burst.args.total /\ ~burst.wakeDone
    IN  /\ burst' = [burst EXCEPT !.woke = woke, !.failed = failed, !.wakeDone = @ \/ last,
                        !.allRunning = @ \/ (woke > burst.woke /\ up' >= burst.args.total)]
        /\ phase' = IF last /\ burst.args.hold THEN "running" ELSE phase
        /\ rate' = IF last THEN AutoStart ELSE rate
checkWakeDone_AllTried(woke, failed) ==
    LET last == woke + failed = burst.args.total /\ ~burst.wakeDone
    IN  /\ burst' = [burst EXCEPT !.woke = woke, !.failed = failed, !.wakeDone = @ \/ last,
                        !.allRunning = @ \/ last]
        /\ phase' = IF last /\ burst.args.hold THEN "running" ELSE phase
        /\ rate' = IF last THEN AutoStart ELSE rate

(* checkWakeDoneLocked after one more agent woke or failed to. *)
checkWakeDone(woke, failed) ==
    LET last == woke + failed = burst.args.total /\ ~burst.wakeDone
    IN  /\ burst' = [burst EXCEPT !.woke = woke, !.failed = failed, !.wakeDone = @ \/ last,
                        !.allRunning = @ \/ (woke > burst.woke /\ up' >= burst.args.total)]
        /\ phase' = IF last /\ burst.args.hold THEN "running" ELSE phase
        /\ rate' = IF last THEN AutoStart ELSE rate

LifeLand(t) ==
    LET a == AgentOf(t)
    IN  /\ Kind(t) = "life" /\ pc[t] \in {"woke", "wakeErr", "wakeBad"}
        /\ IF pc[t] = "woke"
           THEN /\ Set(a, "Running") /\ up' = up + 1 /\ checkWakeDone(burst.woke + 1, burst.failed)
                /\ Goto(t, IF burst.args.wakeOnly THEN "idle" ELSE "first")
           ELSE /\ Set(a, "Failed") /\ UNCHANGED up /\ checkWakeDone(burst.woke, burst.failed + 1)
                /\ Goto(t, "idle")
        /\ UNCHANGED <<busy, burstN, cur, ctl, badSnap, req, tries, work, dispatch, ate>>

BurstEnd ==
    /\ ctl.pc = "join" /\ Done("life") /\ ctl' = NoCtl /\ busy' = FALSE
    /\ phase' = IF ~burst.args.hold THEN "idle" ELSE IF phase = "waking" THEN "running" ELSE phase
    /\ rate' = AutoStart
    /\ UNCHANGED <<burstN, cur, burst, grid, req, thr, dispatch, ate>>

-----------------------------------------------------------------------------
(* The operator's other commands. *)

startReconcile ==
    /\ "reconcile" \in Commands /\ ~busy /\ phase = "idle"
    /\ busy' = TRUE /\ phase' = "reconciling" /\ rate' = 0
    /\ ctl' = [ctl EXCEPT !.op = "reconcile", !.pc = "list"]
    /\ UNCHANGED <<burstN, cur, burst, grid, req, thr, dispatch, ate>>

SetRateAndCycle(r, start) ==
    /\ rate' = r
    /\ IF start /\ cur # 0 /\ ~burst.dutyCycle
       THEN StartDutyCycle ELSE UNCHANGED <<burst, pc>>
    /\ UNCHANGED <<phase, busy, burstN, cur, ctl, grid, req, tries, work, dispatch, ate>>

simulateTraffic ==
    /\ phase \in {"running", "waking"}
    /\ \/ "simulate" \in Commands /\ SetRateAndCycle(AutoRate, TRUE)
       \/ "stop" \in Commands /\ SetRateAndCycle(0, FALSE)

setTraffic(r) == "traffic" \in Commands /\ SetRateAndCycle(r, r > 0 /\ phase = "running")

setStrategy == /\ "strategy" \in Commands /\ AutoTraffic /\ phase = "running" /\ rate > 0
               /\ SetRateAndCycle(AutoRate, FALSE)

-----------------------------------------------------------------------------
(* Suspend-all: startSuspendAll, runSuspendAll, verifyAtRest. *)

startSuspendAll ==
    /\ "suspend" \in Commands /\ ~busy /\ phase \notin {"waking", "suspending"}
    /\ cur = 0 => burstN < MaxBursts
    /\ busy' = TRUE /\ phase' = "suspending" /\ rate' = 0
    /\ LET b == IF cur = 0 THEN burstN + 1 ELSE cur
       IN  /\ cur' = b /\ burstN' = IF cur = 0 THEN b ELSE burstN
           /\ burst' = IF cur = 0 THEN newBurst(AllAgents)
                       ELSE [burst EXCEPT !.dutyCycle = FALSE, !.allSusp = FALSE]
           /\ ctl' = [ctl EXCEPT !.op = "suspend", !.pc = "pass1", !.pass = 2]
    /\ UNCHANGED <<grid, req, thr, dispatch, ate>>

UpNow(withWaking) == {a \in Agent : \/ states[a] \in {"Running", "Requesting"}
                                    \/ withWaking /\ states[a] = "Waking"}

(* Every agent that is up is suspended as soon as its request ends ... *)
SuspendPass1 ==
    /\ ctl.pc = "pass1" /\ Ctl("drain") /\ Spawn({Sweep(a) : a \in UpNow(FALSE)}, "claim")
    /\ UNCHANGED <<phase, busy, rate, burstN, cur, burst, grid, req, tries, work, dispatch, ate>>

SuspendDrain_IgnoresDuty ==                                              \* mutant
    /\ inflight = 0 /\ ctl.pc = "drain" /\ Ctl("passes")
    /\ UNCHANGED <<phase, busy, rate, burstN, cur, burst, grid, req, thr, dispatch, ate>>

(* ... while, for at most 15 s, the wakes, pauses and requests in flight land. *)
SuspendDrain ==
    /\ (dutyOps = 0 /\ inflight = 0) \/ "slow" \in Faults
    /\ ctl.pc = "drain" /\ Ctl("passes")
    /\ UNCHANGED <<phase, busy, rate, burstN, cur, burst, grid, req, thr, dispatch, ate>>

SuspendPasses ==
    /\ ctl.pc = "passes" /\ Done("sweep")
    /\ IF UpNow(TRUE) = {} \/ ctl.pass > SweepPasses
       THEN /\ ctl' = [ctl EXCEPT !.pc = "verify", !.pass = 1]
            /\ burst' = [burst EXCEPT !.allSusp = @ \/ up <= 0] /\ UNCHANGED pc
       ELSE /\ ctl' = [ctl EXCEPT !.pass = @ + 1]
            /\ Spawn({Sweep(a) : a \in UpNow(TRUE)}, "claim") /\ UNCHANGED burst
    /\ UNCHANGED <<phase, busy, rate, burstN, cur, grid, req, tries, work, dispatch, ate>>

SuspendDone(allSusp) ==
    /\ ctl' = NoCtl /\ phase' = "idle" /\ busy' = FALSE
    /\ burst' = [burst EXCEPT !.allSusp = allSusp]

VerifyList ==
    /\ ctl.pc = "verify" /\ Done("fix")
    /\ \/ AteList("judge") /\ UNCHANGED <<phase, busy, burst>>
       \/ ListFails /\ SuspendDone(burst.allSusp)
    /\ UNCHANGED <<rate, burstN, cur, grid, req, thr, dispatch, ate>>

(* Mutants: the grid is not taken from the answer, and broken agents do not  *)
(* count as up.                                                              *)
VerifyDecide_KeepsGrid ==
    LET left == NotAtRest(ctl.list) \ badSnap
    IN  /\ ctl.pc = "judge"
        /\ IF left = {} \/ ctl.pass > VerifyRounds
           THEN SuspendDone(NotAtRest(ctl.list) = {}) /\ UNCHANGED <<pc, states, up>>
           ELSE /\ ctl' = [ctl EXCEPT !.pc = "verify", !.pass = @ + 1]
                /\ Spawn({Fix(a) : a \in left}, "restQ")
                /\ UNCHANGED <<phase, busy, burst, states, up>>
        /\ UNCHANGED <<rate, burstN, cur, badSnap, req, tries, work, dispatch, ate>>
VerifyDecide_SkipsBroken ==
    LET left == NotAtRest(ctl.list) \ badSnap
    IN  /\ ctl.pc = "judge"
        /\ IF left = {} \/ ctl.pass > VerifyRounds
           THEN applyStates(ctl.list) /\ SuspendDone(left = {}) /\ UNCHANGED pc
           ELSE /\ ctl' = [ctl EXCEPT !.pc = "verify", !.pass = @ + 1]
                /\ Spawn({Fix(a) : a \in left}, "restQ")
                /\ UNCHANGED <<phase, busy, burst, states, up>>
        /\ UNCHANGED <<rate, burstN, cur, badSnap, req, tries, work, dispatch, ate>>

VerifyDecide ==
    LET left == NotAtRest(ctl.list) \ badSnap
    IN  /\ ctl.pc = "judge"
        /\ IF left = {} \/ ctl.pass > VerifyRounds
           THEN /\ applyStates(ctl.list) /\ SuspendDone(NotAtRest(ctl.list) = {})
                /\ UNCHANGED pc
           ELSE /\ ctl' = [ctl EXCEPT !.pc = "verify", !.pass = @ + 1]
                /\ Spawn({Fix(a) : a \in left}, "restQ")
                /\ UNCHANGED <<phase, busy, burst, states, up>>
        /\ UNCHANGED <<rate, burstN, cur, badSnap, req, tries, work, dispatch, ate>>

-----------------------------------------------------------------------------
(* The driver starts, and starts again after a crash: the goroutines and     *)
(* d's fields are gone, the actors are not.                                  *)

Started(st, listed) ==
    /\ phase' = "idle" /\ busy' = FALSE /\ rate' = 0 /\ cur' = 0 /\ ctl' = NoCtl
    /\ badSnap' = {} /\ dutyOps' = 0 /\ inflight' = 0 /\ dispatch' = "none"
    /\ reqBusy' = [a \in Agent |-> 0] /\ work' = [w \in Workers |-> NoWork]
    /\ pc' = [t \in Thread |-> "idle"] /\ tries' = [t \in Thread |-> 0]
    /\ states' = IF listed THEN GridOf(st, {}) ELSE [a \in Agent |-> "Suspended"]
    /\ up' = IF listed THEN UpOf(st) ELSE 0

Restart ==
    /\ "restart" \in Faults /\ burstN < MaxBursts
    /\ \E listed \in {TRUE} \cup {~ListFails} : Started(ate, listed)
    /\ UNCHANGED <<burstN, burst, ate>>

Init ==
    /\ phase = "idle" /\ busy = FALSE /\ rate = 0 /\ cur = 0 /\ burstN = 0 /\ ctl = NoCtl
    /\ burst = newBurst(AllAgents)
    /\ badSnap = {} /\ dutyOps = 0 /\ inflight = 0 /\ dispatch = "none"
    /\ reqBusy = [a \in Agent |-> 0] /\ work = [w \in Workers |-> NoWork]
    /\ pc = [t \in Thread |-> "idle"] /\ tries = [t \in Thread |-> 0]
    /\ ate \in [Agent -> InitAte]
    /\ \/ states = GridOf(ate, {}) /\ up = UpOf(ate)
       \/ ListFails /\ states = [a \in Agent |-> "Suspended"] /\ up = 0

-----------------------------------------------------------------------------
ThreadStep(t) ==
    \/ wakeRPC(t) \/ restRPC(t) \/ waitNotBusy(t) \/ AcquireSem(t)
    \/ BackOff(t) \/ SendAgain(t) \/ FirstJoke(t) \/ FirstJokeDone(t) \/ trafficDone(t)
    \/ WaveCheck(t) \/ dutyPauseClaim(t) \/ dutyPauseLand(t)
    \/ suspendClaim(t) \/ suspendLand(t) \/ recreate(t) \/ fixLand(t)
    \/ LifeStart(t) \/ LifeLand(t)

WorkerStep(w) == dutyOverCap(w) \/ dutyPick(w) \/ dutyWake(w) \/ dutyWakeLand(w) \/ dutyAsk(w)
                   \/ dutyAskDone(w) \/ dutyReturn(w)

Control == \/ PreflightList \/ PreflightRelist \/ PreflightCreate \/ PreflightFinal
           \/ PreflightApply \/ BurstDecide \/ BurstGo \/ BurstEnd
           \/ SuspendPass1 \/ SuspendDrain \/ SuspendPasses \/ VerifyList \/ VerifyDecide

Operator == \/ \E args \in BurstArgs : startBurst(args)
            \/ startReconcile \/ simulateTraffic \/ setStrategy \/ startSuspendAll
            \/ \E r \in Rates : setTraffic(r)

Outside == Restart \/ \E a \in Agent : AteLands(a) \/ AteCrashes(a)

Next == \/ \E t \in Thread : ThreadStep(t)
        \/ \E w \in Workers : WorkerStep(w)
        \/ trafficLoop \/ pickIdle \/ Control \/ Operator \/ Outside

Spec == Init /\ [][Next]_vars

(* Goroutines are scheduled, and RPCs and requests end: every call has a    *)
(* timeout and every retry loop a bound.  Nothing is assumed of the operator *)
(* or of what happens outside.                                               *)
Fairness ==
    /\ \A t \in Thread : WF_vars(ThreadStep(t))
    /\ \A w \in Workers : WF_vars(WorkerStep(w))
    /\ WF_vars(pickIdle) /\ WF_vars(Control)

FairSpec == Spec /\ Fairness

-----------------------------------------------------------------------------
WakePcs == {"resume", "woke", "wakeErr", "wakeBad"}
RestPcs == {"wait", "call", "restOk", "restErr", "restBad"}
ReqPcs  == {"flight", "backoff"}

(* Where a goroutine of each kind can be. *)
PcsOf(kind) ==
    CASE kind = "life"  -> {"idle", "start", "first", "claim", "claimed"} \cup WakePcs
                             \cup ReqPcs \cup RestPcs
      [] kind = "sweep" -> {"idle", "claim", "claimed"} \cup RestPcs
      [] kind = "fix"   -> {"idle", "restQ", "createQ", "create"} \cup RestPcs
      [] kind = "wave"  -> {"idle", "first", "check", "pause"} \cup ReqPcs \cup RestPcs
      [] kind = "duty"  -> {"idle", "over", "ask", "pause", "ret"} \cup WakePcs \cup ReqPcs \cup RestPcs
      [] kind \in {"plain", "over"} -> {"idle"} \cup ReqPcs
Pcs == {"idle", "start", "first", "claim", "claimed", "restQ", "createQ", "create", "check",
        "pause", "over", "ask", "ret"} \cup WakePcs \cup ReqPcs \cup RestPcs

CtlPcs == {"none", "decide", "list", "atRest", "relist", "create", "final", "apply", "go",
           "join", "pass1", "drain", "passes", "verify", "judge"}
ArgsType  == [hold : BOOLEAN, wakeOnly : BOOLEAN, total : 1..N, conc : 0..N]
BurstType == [args : ArgsType, woke : Int, failed : Int, dutyCycle : BOOLEAN,
              wakeDone : BOOLEAN, allRunning : BOOLEAN, allSusp : BOOLEAN]

OpType ==
    /\ phase \in Phases /\ busy \in BOOLEAN /\ rate \in 0..2
    /\ burstN \in 0..MaxBursts /\ cur \in 0..MaxBursts /\ burst \in BurstType
    /\ ctl \in [op : {"none", "burst", "reconcile", "suspend"}, pc : CtlPcs, args : ArgsType,
                 pass : Nat, list : [Agent -> AteStates]]
GridType == states \in [Agent -> States] /\ up \in Int /\ badSnap \subseteq Agent
ReqType  == dutyOps \in Int /\ inflight \in Int /\ reqBusy \in [Agent -> Int]
PcType   == pc \in [Thread -> Pcs] /\ \A t \in Thread : pc[t] \in PcsOf(Kind(t))
WorkType == work \in [Workers -> [agent : Agent, b : 0..MaxBursts, counted : BOOLEAN]]
RestType == /\ tries \in [Thread -> Int] /\ dispatch \in {"none", "plain", "over"}
            /\ ate \in [Agent -> AteStates]

(* The types of the driver's fields and of the goroutines' positions. *)
TypeOK == OpType /\ GridType /\ ReqType /\ PcType /\ WorkType /\ RestType

(* No wake and no pause of the duty cycle is under way once suspend-all has  *)
(* begun its final sweep, nor in any later phase: dutyOps lets it wait for   *)
(* them all ("so no wake lands after its sweep").                            *)
NoLateDutyOp ==
    phase \in {"idle", "reconciling", "waking"} \/ (ctl.op = "suspend" /\ ctl.pc \in {"passes", "verify", "judge"})
      => \A t \in All("duty") \cup All("wave") : pc[t] \notin RestPcs \cup WakePcs

(* No two goroutines have a wake, pause, suspend or re-creation of the same  *)
(* agent under way: the grid's Waking and Suspending are locks.              *)
OneOperationPerAgent ==
    \A a \in Agent :
        Cardinality({t \in Thread : /\ pc[t] \in RestPcs \cup WakePcs \cup {"claimed", "create"}
                                    /\ AgentOf(t) = a}) <= 1

(* d.up counts every sandbox shown as up and none that is shown at rest; an  *)
(* agent shown as waking or failed may or may not hold one.                  *)
UpCountsSandboxes ==
    /\ Cardinality({a \in Agent : states[a] \in {"Running", "Requesting", "Suspending"}}) <= up
    /\ up <= Cardinality({a \in Agent : states[a] # "Suspended"})

(* An agent is shown requesting only while it has a request in flight. *)
RequestingHasRequest == \A a \in Agent : states[a] = "Requesting" => reqBusy[a] > 0

(* No duty-cycle pause and no suspend checkpoints an agent mid-request. *)
NeverMidRequest ==
    \A t \in Thread : Kind(t) # "fix" /\ pc[t] = "call" => reqBusy[AgentOf(t)] = 0

(* A burst skips its preflight when the grid is clean, so between operations *)
(* a clean grid means zero compute in ate-api.                               *)
CleanGridHonest ==
    phase = "idle" /\ ctl.pc \in {"none", "decide"} /\ AllClean => NotAtRest(ate) = {}

(* When suspend-all reports that all agents are suspended, ate-api has none  *)
(* up.  (A restart of the driver reports nothing: d.b is nil after it.)      *)
AllSuspendedHonest ==
    [][ctl.op = "suspend" /\ ctl'.op = "none" /\ cur' # 0 /\ burst'.allSusp
         => NotAtRest(ate) = {}]_vars

(* A burst closes its allUp channel exactly when its last agent woke or      *)
(* failed.                                                                   *)
WakeDoneExact ==
    ctl.pc = "join" => /\ burst.woke + burst.failed <= burst.args.total
                       /\ burst.wakeDone <=> burst.woke + burst.failed = burst.args.total

(* "All running" is timed when every agent of the burst woke, not earlier. *)
AllRunningExact ==
    ctl.pc = "join" /\ burst.allRunning => burst.woke = burst.args.total

(* Every burst, reconcile and suspend-all ends, and the next can be asked for. *)
OperationEnds == busy ~> ~busy
=============================================================================
