----------------------------- MODULE MockDriver -----------------------------
(* src/substrate/dashboard/mock_server.py: the simulated keynote driver that the stage
   dashboard is developed against.  Class Sim has one lock: an API call or one event
   of its heap is an action.  Time is abstracted: a scheduled event may fire at any
   later moment, except where the code orders two (begin follows preflight).
   The variable is the object: a record whose fields are its attributes.            *)
EXTENDS Integers, FiniteSets, Sequences, Bags

CONSTANTS
    TOTAL,          \* agents
    DUTY_WORKERS, SUSPEND_CAP, MAX_INFLIGHT,
    POOL_CAP,       \* POOL_CAP_PER_POD
    Calls,          \* the API calls of this instance
    MaxCalls,       \* bound on them
    MaxSteady,      \* bound on open-loop requests
    MaxDuty,        \* bound on the agents duty workers pick up
    Bursts          \* the kinds of burst asked for: <<hold, wake_only>>

ASSUME MockAssumption ==
    /\ {TOTAL, DUTY_WORKERS, SUSPEND_CAP, POOL_CAP} \subseteq Nat \ {0}
    /\ {MaxCalls, MaxSteady, MaxDuty, MAX_INFLIGHT} \subseteq Nat
    /\ Bursts \subseteq BOOLEAN \X BOOLEAN

Agents == 0..TOTAL - 1
States == {"suspended", "waking", "running", "requesting", "suspending", "failed"}
Phases == {"idle", "waking", "running", "suspending", "reconciling"}

VARIABLES self, calls, steady, picks
vars == <<self, calls, steady, picks>>

Sched(s, E) == [s EXCEPT !.ev = @ (+) SetToBag(E)]
Put(s, e) == Sched(s, {e})
Fire(e) == [self EXCEPT !.ev = @ (-) SetToBag({e})]
Pending == BagToSet(self.ev)
Set(s, i, x) == [s EXCEPT !.agents = [s.agents EXCEPT ![i] = x]]
Settle(s, I, x) == [s EXCEPT !.agents = [i \in Agents |-> IF i \in I THEN x ELSE s.agents[i]]]
In(s, X) == {i \in Agents : s.agents[i] \in X}
UpStates == {"running", "requesting", "suspending"}
SweptUp == UpStates                          \* mutant: a waking agent is left alone
Swept == UpStates \cup {"waking"}
Up(s) == In(s, UpStates \cup (IF s.duty THEN {"waking"} ELSE {}))

NewBurst(s, n, hold, wake_only) == [s EXCEPT
    !.t0 = TRUE, !.n = n, !.hold = hold, !.wake_only = wake_only, !.started = ~wake_only,
    !.duty = FALSE, !.owned = {}, !.workers = 0, !.conc = 0, !.susp_t0 = FALSE,
    !.woke = 0, !.wake_failed = 0, !.wake_done = FALSE, !.first_done = FALSE,
    !.all_susp = FALSE, !.pending = n, !.wake_wait = {}, !.wake_active = 0]

ResetAll ==
    [agents |-> [i \in Agents |-> "suspended"], phase |-> "idle", busy |-> FALSE, rate |-> 0,
     strategy |-> "roundrobin", pods |-> 2, ev |-> EmptyBag, fcq |-> <<>>, handoff |-> 0,
     epp |-> 0, inflight |-> 0, susp_active |-> 0, susp_wait |-> {}, susp_out |-> 0,
     t0 |-> FALSE, n |-> 0, hold |-> FALSE, wake_only |-> FALSE, started |-> FALSE,
     duty |-> FALSE, owned |-> {}, workers |-> 0, conc |-> 0, susp_t0 |-> FALSE, woke |-> 0,
     wake_failed |-> 0, wake_done |-> FALSE, first_done |-> FALSE, all_susp |-> FALSE,
     pending |-> 0, wake_wait |-> {}, wake_active |-> 0]

Init == self = ResetAll /\ calls = 0 /\ steady = 0 /\ picks = 0

Call(name) == name \in Calls /\ calls < MaxCalls /\ calls' = calls + 1 /\ UNCHANGED <<steady, picks>>
Runs(s) == self' = s /\ UNCHANGED <<calls, steady, picks>>
-----------------------------------------------------------------------------
(* llm-d's flow control and the two pods. *)
\* fcq holds the queued requests by tier, oldest first within one.
Enqueue(q, r) ==
    LET ahead == Cardinality({k \in DOMAIN q : q[k].band <= r.band})
    IN  [k \in 1..Len(q) + 1 |-> IF k <= ahead THEN q[k] ELSE IF k = ahead + 1 THEN r ELSE q[k - 1]]
PoolRoom(s) == POOL_CAP * s.pods - s.epp - s.handoff

\* The first k queued requests, each on its way to a pod.
Given(q, k) == LET sent(j) == <<"dispatch", q[j]>>
               IN  [e \in {sent(j) : j \in 1..k} |-> Cardinality({j \in 1..k : sent(j) = e})]

FcPump(s) ==
    LET k == IF s.strategy = "roundrobin" \/ PoolRoom(s) >= Len(s.fcq) THEN Len(s.fcq)
             ELSE IF PoolRoom(s) > 0 THEN PoolRoom(s) ELSE 0
    IN  [s EXCEPT !.fcq = [j \in 1..Len(@) - k |-> @[j + k]], !.handoff = @ + k,
                  !.ev = @ (+) Given(s.fcq, k)]

Request(s, i, first, after, band) ==
    [a |-> i, first |-> first, after |-> after, epp |-> s.strategy # "roundrobin", band |-> band]
Tiers(s) == IF s.strategy = "flow" THEN 0..2 ELSE {1}
Queued == {self.fcq[k] : k \in DOMAIN self.fcq}

SuspStart(s, i) == Put(Set([s EXCEPT !.susp_active = @ + 1], i, "suspending"), <<"sdone", i>>)
SuspRequest(s, i) == IF s.susp_active < SUSPEND_CAP THEN SuspStart(s, i)
                     ELSE [s EXCEPT !.susp_wait = @ \cup {i}]

CheckWakeDoneFrees(s) ==                     \* mutant: busy ends with the last wake
    IF s.woke + s.wake_failed < s.n \/ s.wake_done \/ ~s.hold THEN s
    ELSE [s EXCEPT !.wake_done = TRUE, !.phase = "running", !.busy = FALSE]
\* The wake phase of a burst is over with its last agent that woke or failed.
CheckWakeDone(s) ==
    LET quiet == s.wake_only /\ ~s.started IN
    IF s.woke + s.wake_failed < s.n \/ s.wake_done THEN s
    ELSE IF ~s.hold THEN [s EXCEPT !.wake_done = TRUE]
    ELSE [s EXCEPT !.wake_done = TRUE, !.phase = "running",
                   !.busy = IF quiet THEN FALSE ELSE @,
                   !.rate = IF ~quiet /\ @ = 0 THEN 1 ELSE @]

\* One agent of the burst has finished; the last one ends busy.
LifeDone(s) ==
    LET left == s.pending - 1 IN
    IF left > 0 \/ s.first_done THEN [s EXCEPT !.pending = IF left > 0 THEN left ELSE 0]
    ELSE [s EXCEPT
            !.pending = 0, !.first_done = TRUE, !.busy = FALSE,
            !.phase = IF ~s.hold THEN "idle" ELSE IF @ = "waking" THEN "running" ELSE @,
            !.rate = IF s.hold /\ s.phase \in {"waking", "running"} /\ @ = 0
                          /\ ~(s.wake_only /\ ~s.started) THEN 1 ELSE @]

ReqFinished(s, r) ==
    IF r.after
    THEN LET s1 == IF s.agents[r.a] = "requesting" THEN Set(s, r.a, "running") ELSE s
         IN  IF s1.phase = "running" /\ s1.agents[r.a] = "running"
             THEN Put(s1, <<"duty_park", r.a>>) ELSE s1
    ELSE LET s1 == IF s.agents[r.a] = "requesting" /\ ~s.duty THEN Set(s, r.a, "running") ELSE s
         IN  IF ~r.first \/ ~s.t0 THEN s1
             ELSE IF s1.hold THEN LifeDone(s1) ELSE SuspRequest(s1, r.a)

UncountAll(s, r) == [s EXCEPT !.inflight = @ - 1]        \* mutant: first requests too
Uncount(s, r) == IF r.first THEN s ELSE [s EXCEPT !.inflight = @ - 1]

DispatchedForgets(s, r) ==                   \* mutant: a failed request stays in flight
    IF s.pods = 0 THEN ReqFinished(s, r)
    ELSE Put([s EXCEPT !.epp = IF r.epp THEN @ + 1 ELSE @], <<"reply", r>>)
\* To a pod, or the failure of the request when none is up.
Dispatched(s, r) ==
    IF s.pods = 0 THEN ReqFinished(Uncount(s, r), r)
    ELSE Put([s EXCEPT !.epp = IF r.epp THEN @ + 1 ELSE @], <<"reply", r>>)

Submit(s, r) == Put([s EXCEPT !.inflight = @ + 1], <<"arrive", r>>)

Arrive == \E e \in Pending : /\ e[1] = "arrive"
    /\ LET s == Fire(e) IN
       Runs(IF ~e[2].epp \/ s.pods = 0 \/ (PoolRoom(s) > 0 /\ s.fcq = <<>>)
            THEN Dispatched(s, e[2]) ELSE [s EXCEPT !.fcq = Enqueue(@, e[2])])

Dispatch == \E e \in Pending : /\ e[1] = "dispatch"
    /\ Runs(Dispatched([Fire(e) EXCEPT !.handoff = @ - 1], e[2]))

\* mutant: the freed slot is not handed on
ReplyNoPump == \E e \in Pending : /\ e[1] = "reply"
    /\ LET s == [Fire(e) EXCEPT !.epp = IF e[2].epp THEN @ - 1 ELSE @]
       IN  Runs(ReqFinished(Uncount(s, e[2]), e[2]))
Reply == \E e \in Pending : /\ e[1] = "reply"
    /\ LET s == [Fire(e) EXCEPT !.epp = IF e[2].epp THEN @ - 1 ELSE @]
       IN  Runs(FcPump(ReqFinished(Uncount(s, e[2]), e[2])))
-----------------------------------------------------------------------------
(* A burst: preflight, gate, wakes, first replies. *)
StartBurst == \E n \in 1..TOTAL, conc \in {0, 1}, b \in Bursts :
    /\ conc <= n - 1                                  \* 0: all at once
    /\ Call("burst") /\ ~self.busy /\ self.phase = "idle"
    /\ self' = Put([self EXCEPT !.busy = TRUE], <<"preflight", <<n, b[1], conc, b[2]>>>>)

\* All leftovers are put to rest, or re-created.
PreflightDone == \E e \in Pending : /\ e[1] = "preflight"
    /\ Runs(Put(Settle(Fire(e), Agents, "suspended"), <<"begin", e[2]>>))

Started(s, I) ==
    [Sched(Settle(s, I, "waking"), {<<"wake", i>> : i \in I}) EXCEPT
        !.wake_wait = @ \ I, !.wake_active = @ + Cardinality(I)]

\* Which waiting agents _wake_fill starts: as many as the concurrency leaves room for.
WakeFill(s) ==
    LET room == s.conc - s.wake_active IN
    IF s.conc = 0 THEN {s.wake_wait}
    ELSE IF room <= 0 THEN {{}}
    ELSE {I \in SUBSET s.wake_wait :
            Cardinality(I) = IF room < Cardinality(s.wake_wait) THEN room
                             ELSE Cardinality(s.wake_wait)}

\* What a duty cycle sends, wakes and suspends is due within 0.94 s of its start; a burst
\* after it begins 1.05 s later at the earliest (SUSPEND_S, twice PREFLIGHT_S, GATE_S).  Parks
\* (1.59 s) and replies may outlive both.
Begin == \E e \in Pending : /\ e[1] = "begin"
    /\ \A d \in Pending : d[1] \notin {"duty_wake", "duty_send", "duty_susp_done"}
    /\ LET p == e[2]
           s == [NewBurst(Fire(e), p[1], p[2], p[4]) EXCEPT
                    !.conc = p[3], !.phase = "waking", !.wake_wait = 0..p[1] - 1]
       IN  \E I \in WakeFill(s) : Runs(Started(s, I))

Woken(s, i) ==
    LET quiet == s.wake_only /\ ~s.started
        up == IF quiet THEN Set(s, i, "running") ELSE Set(s, i, "requesting")
        s1 == CheckWakeDone([up EXCEPT !.woke = @ + 1])
    IN  IF quiet THEN {s1}
        ELSE {Dispatched(s1, Request(s1, i, TRUE, s1.duty, b)) : b \in Tiers(s1)}

WakeFailedUncounted(s, i) == LifeDone(CheckWakeDone(Set(s, i, "failed")))        \* mutant
WakeFailed(s, i) ==
    LET s1 == CheckWakeDone([Set(s, i, "failed") EXCEPT !.wake_failed = @ + 1])
    IN  IF s1.wake_only /\ ~s1.started THEN s1 ELSE LifeDone(s1)

WakeOutcomes(s, i) ==
    IF s.agents[i] # "waking" THEN {s}
    ELSE Woken(s, i) \cup (IF "fail_rate" \in Calls THEN {WakeFailed(s, i)} ELSE {})

Wake == \E e \in Pending : /\ e[1] = "wake"
    /\ LET s == [Fire(e) EXCEPT !.wake_active = self.wake_active - 1]
       IN  \E s1 \in {Started(s, I) : I \in WakeFill(s)} : \E s2 \in WakeOutcomes(s1, e[2]) : Runs(s2)
-----------------------------------------------------------------------------
(* Steady traffic and the duty cycle. *)
\* Some agents get a worker, which sends for them; the others are parked.
StartDutyCycle(s) ==
    LET awake == In(s, {"running", "waking"}) \cap 0..s.n - 1
        size == IF Cardinality(awake) < DUTY_WORKERS THEN Cardinality(awake) ELSE DUTY_WORKERS
        plan(I) == {<<IF i \in I THEN "duty_send" ELSE "duty_park", i>> : i \in awake}
    IN  {[Sched(s, plan(I)) EXCEPT
            !.started = TRUE, !.duty = TRUE, !.workers = size, !.owned = @ \cup I] :
         I \in {J \in SUBSET awake : Cardinality(J) = size}}

\* Accepted while a burst still wakes, too: the dashboard offers it then.
SimulateTraffic ==
    /\ Call("simulate") /\ self.phase \in {"running", "waking"}
    /\ \/ self' = [self EXCEPT !.rate = 0]                              \* stop, or toggle
       \/ LET s == [self EXCEPT !.rate = 1] IN
          IF s.t0 /\ ~s.duty THEN self' \in StartDutyCycle(s) ELSE self' = s

SetTraffic == \E rate \in 0..2 :                    \* 2: more than the base rate
    /\ Call("traffic")
    /\ LET s == [self EXCEPT !.rate = rate] IN
       IF rate > 0 /\ s.phase = "running" /\ s.t0 /\ ~s.duty THEN self' \in StartDutyCycle(s)
       ELSE self' = s

SetStrategy == \E mode \in {"roundrobin", "flow"} :
    /\ Call("strategy")
    /\ self' = FcPump([self EXCEPT !.strategy = mode,
                                   !.rate = IF self.phase = "running" /\ @ > 0 THEN 1 ELSE @])

ReleaseOwner(s, i) == [s EXCEPT !.owned = @ \ {i}]       \* mutant: the worker stays counted
Release(s, i) == IF i \in s.owned THEN [s EXCEPT !.owned = @ \ {i}, !.workers = @ - 1] ELSE s

Parked == In(self, {"suspended"})
Idle == In(self, {"running"})
Active == In(self, {"running", "requesting"})

\* A free worker takes a suspended agent and wakes it.
TickPick == \E i \in Parked :
    /\ self.phase = "running" /\ self.rate > 0 /\ self.duty /\ self.workers < DUTY_WORKERS
    /\ picks < MaxDuty /\ picks' = picks + 1 /\ UNCHANGED <<calls, steady>>
    /\ self' = Put(Set([self EXCEPT !.workers = @ + 1, !.owned = @ \cup {i}], i, "waking"),
                   <<"duty_wake", i>>)

\* Open-loop traffic: of a burst without a duty cycle, or above the duty cycle's rate.
TickSteady == \E i \in IF self.duty THEN Active ELSE Idle, b \in Tiers(self) :
    /\ self.phase = "running" /\ self.rate > (IF self.duty THEN 1 ELSE 0)
    /\ self.inflight < MAX_INFLIGHT
    /\ steady < MaxSteady /\ steady' = steady + 1 /\ UNCHANGED <<calls, picks>>
    /\ self' = Submit(IF self.duty THEN self ELSE Set(self, i, "requesting"),
                      Request(self, i, FALSE, FALSE, b))

DutyWake == \E e \in Pending : /\ e[1] = "duty_wake"
    /\ LET s == Fire(e)
           i == e[2]
       IN  IF s.phase = "running" /\ s.rate > 0 /\ s.agents[i] = "waking"
           THEN Runs(Put(Set(s, i, "running"), <<"duty_send", i>>))
           ELSE Runs(Release(IF s.agents[i] = "waking" /\ s.phase # "waking"
                             THEN Set(s, i, "suspended") ELSE s, i))

DutySend == \E e \in Pending : /\ e[1] = "duty_send"
    /\ LET s == Fire(e)
           i == e[2]
           up == s.agents[i] \in {"waking", "running", "requesting"}
       IN  IF s.phase # "running" \/ s.rate = 0
           THEN Runs(Release(IF up /\ s.phase # "suspending" THEN Set(s, i, "suspended") ELSE s, i))
           ELSE IF s.agents[i] \notin {"waking", "running"} THEN Runs(Release(s, i))
           ELSE \E b \in Tiers(s) :
                   Runs(Submit(Set(s, i, "requesting"), Request(s, i, FALSE, TRUE, b)))

DutyPark == \E e \in Pending : /\ e[1] = "duty_park"
    /\ LET s == Fire(e)
           i == e[2]
       IN  Runs(IF s.phase # "running" THEN s
                ELSE IF s.agents[i] \in {"waking", "running", "requesting"}
                     THEN Put(Set(s, i, "suspending"), <<"duty_susp_done", i>>)
                ELSE Release(s, i))

DutySuspDone == \E e \in Pending : /\ e[1] = "duty_susp_done"
    /\ LET s == Fire(e)
           i == e[2]
       IN  Runs(IF s.phase = "suspending" THEN s
                ELSE Release(IF s.agents[i] = "suspending" THEN Set(s, i, "suspended") ELSE s, i))
-----------------------------------------------------------------------------
(* Suspend all, reconcile, and the mock's own controls. *)
Suspend ==
    /\ Call("suspend") /\ ~self.busy /\ self.phase \notin {"waking", "suspending"}
    /\ self' = Put([self EXCEPT !.busy = TRUE, !.phase = "suspending", !.rate = 0], <<"drain", 0>>)

FinishSuspend(s) == [s EXCEPT !.all_susp = @ \/ Up(s) = {}, !.phase = "idle", !.busy = FALSE]

\* The sweep begins when nothing is in flight, or after DRAIN_MAX_S.
Drain == \E e \in Pending : /\ e[1] = "drain" /\ (self.inflight = 0 \/ "drain_late" \in Calls)
    /\ LET s0 == Fire(e)
           s == [(IF s0.t0 THEN s0 ELSE NewBurst(s0, TOTAL, TRUE, FALSE))
                    EXCEPT !.duty = FALSE, !.workers = 0, !.owned = {}, !.susp_t0 = TRUE]
           idx == In(s, Swept)
           s1 == [s EXCEPT !.all_susp = Up(s) = {}, !.susp_out = Cardinality(idx)]
           room == IF Cardinality(idx) < SUSPEND_CAP THEN Cardinality(idx) ELSE SUSPEND_CAP
           begun(I) == [Sched(Settle(s1, I, "suspending"), {<<"sdone", i>> : i \in I}) EXCEPT
                          !.susp_active = @ + Cardinality(I), !.susp_wait = @ \cup (idx \ I)]
       IN  IF idx = {} THEN Runs(FinishSuspend(s1))
           ELSE \E I \in {J \in SUBSET idx : Cardinality(J) = room} : Runs(begun(I))

SDone == \E e \in Pending : /\ e[1] = "sdone"
    /\ LET i == e[2]
           s == [Fire(e) EXCEPT !.susp_active = @ - 1]
           nexts == IF s.susp_wait = {} THEN {s}
                    ELSE {SuspStart([s EXCEPT !.susp_wait = @ \ {j}], j) : j \in s.susp_wait}
           ends == {"suspended"} \cup (IF "suspend_fail_rate" \in Calls THEN {"running"} ELSE {})
       IN  \E s1 \in nexts, x \in ends :
             LET s2 == IF s1.agents[i] = "suspending" THEN Set(s1, i, x) ELSE s1
                 s3 == [s2 EXCEPT !.all_susp = @ \/ (s2.susp_t0 /\ Up(s2) = {})]
                 s4 == [s3 EXCEPT !.susp_out = @ - 1]
             IN  Runs(IF s3.phase = "suspending"
                      THEN IF s4.susp_out <= 0 THEN FinishSuspend(s4) ELSE s4
                      ELSE IF s3.t0 /\ ~s3.hold THEN LifeDone(s3) ELSE s3)

Reconcile ==
    /\ Call("reconcile") /\ ~self.busy /\ self.phase = "idle"
    /\ self' = Put([self EXCEPT !.busy = TRUE, !.phase = "reconciling", !.rate = 0], <<"recon", 0>>)

ReconDone == \E e \in Pending : /\ e[1] = "recon"
    /\ Runs([Settle(Fire(e), Agents, "suspended") EXCEPT !.phase = "idle", !.busy = FALSE])

MockControl ==
    \* the attributes of a burst outlive a reset: of them only duty is read before the next one
    \/ Call("reset") /\ self' = [ResetAll EXCEPT !.pods = self.pods, !.duty = self.duty]
    \/ \E p \in 0..2 \ {self.pods} : Call("pods") /\ self' = FcPump([self EXCEPT !.pods = p])

Event == Arrive \/ Dispatch \/ Reply \/ PreflightDone \/ Begin \/ Wake \/ DutyWake \/ DutySend
         \/ DutyPark \/ DutySuspDone \/ Drain \/ SDone \/ ReconDone
Api == StartBurst \/ SimulateTraffic \/ SetTraffic \/ SetStrategy \/ Suspend \/ Reconcile \/ MockControl
Tick == TickPick \/ TickSteady
Next == Event \/ Api \/ Tick
\* The heap is drained by every tick: an event that is due fires.
Spec == Init /\ [][Next]_vars /\ WF_vars(Event)
-----------------------------------------------------------------------------
\* The copies of scheduled events, and what a request can be.
Copies(ev) == UNION {{e} \X (1..ev[e]) : e \in DOMAIN ev}
Count(s, E) == Cardinality({c \in Copies(s.ev) : c[1] \in E})
Requests == [a : Agents, first : BOOLEAN, after : BOOLEAN, epp : BOOLEAN, band : 0..2]
PacedRequests == {r \in Requests : ~r.first}
EppRequests == {r \in Requests : r.epp}
UnderWay == {"arrive", "dispatch", "reply"}

(* TypeOK: the fields that count have their types, none is negative. *)
TypeOK ==
    /\ self.agents \in [Agents -> States] /\ self.phase \in Phases
    /\ {self.inflight, self.epp, self.handoff, self.workers, self.wake_active, self.susp_active,
        self.susp_out, self.pending, self.woke, self.wake_failed} \subseteq Nat
    /\ IsABag(self.ev)

(* QuietWhenIdle: when the driver says it is idle no agent is waking, requesting or
   being suspended, whatever events of the duty cycle, of the last burst or of
   requests that outlived the drain fire late.                                    *)
QuietWhenIdle == self.phase = "idle" => In(self, {"waking", "requesting", "suspending"}) = {}

(* WakeAccounted: every agent of a burst that still wakes waits for a slot, is waking
   or is counted as woken or failed, so the end of the wake phase is reached.  Only
   traffic simulated before that may lose an agent (its worker suspends it), and
   none is ever counted twice.                                                     *)
Accounted == Cardinality(self.wake_wait) + self.wake_active + self.woke + self.wake_failed
WakeAccounted == self.phase = "waking" =>
    self.n >= Accounted /\ (~self.duty => self.n = Accounted)

(* AdmissionExact: the counters that admit requests (in flight, given a slot, sent by
   the endpoint picker) are those of the requests that are really under way.       *)
AdmissionExact ==
    /\ self.inflight = Count(self, UnderWay \X PacedRequests)
                       + Cardinality({k \in DOMAIN self.fcq : ~self.fcq[k].first})
    /\ self.handoff = Count(self, {"dispatch"} \X Requests)
    /\ self.epp = Count(self, {"reply"} \X EppRequests)

(* NoIdleSlotWhileQueued: no request stays in flow control while the pool has room. *)
NoIdleSlotWhileQueued == self.fcq # <<>> => PoolRoom(self) <= 0

(* WorkersBusy: a duty worker counted as busy has an agent, and something is still to
   happen for that agent that sets the worker free again: no worker is lost.       *)
WorkersBusy ==
    /\ self.workers = Cardinality(self.owned) /\ self.workers <= DUTY_WORKERS
    /\ self.phase = "running" => \A i \in self.owned :
          \/ \E e \in Pending : e[1] \in {"duty_wake", "duty_send", "duty_park", "duty_susp_done"}
                                /\ e[2] = i
          \/ \E e \in Pending : e[1] \in UnderWay /\ e[2].a = i /\ e[2].after
          \/ \E r \in Queued : r.a = i /\ r.after

FirstPending == \/ \E e \in Pending : e[1] \in UnderWay /\ e[2].first
                \/ \E r \in Queued : r.first

(* NoSuspendBeforeReplies: "the driver stays busy until every woken agent got its
   first reply: suspend is refused (409) until then".                              *)
NoSuspendBeforeReplies ==
    [][self.phase # "suspending" /\ self'.phase = "suspending" => ~FirstPending]_vars

(* BusyEnds: ... and not longer: every burst, suspend and reconcile ends. *)
BusyEnds == self.busy ~> ~self.busy
=============================================================================
