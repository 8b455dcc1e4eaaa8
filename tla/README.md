# Verification of jetski-playground

TLA+ models, model-checking configurations and machine-checked proofs for the
programs of this repository. The repository is a collection of projects; the one
with most logic of its own is `substrate/`, the demo of a thousand agents that wake,
ask a model and go back to zero compute. Its *keynote driver* is the core of this
development (sections 3 and 4), the simulated driver of its dashboard is section 6.
The other concurrent programs that are modelled are the multistage routers of `day0/`
(section 5), the campaigns that measure them (section 7) and the scoreboard of the
fault-injection lab (section 8).

## 1. Inventory

### substrate/ - a thousand agents on zero compute

| part | state it keeps | operations | hard behaviour |
|---|---|---|---|
| keynote driver, fleet control (`keynote_driver/main.go`) | phase, busy, one state byte per agent, sandboxes up, the running burst, counters of operations and requests in flight, broken agents | burst, simulate traffic, traffic rate, strategy, suspend-all, reconcile | about 1,200 goroutines on one mutex that is released around every RPC; timeouts; counters that must return to zero; ate-api is the truth and changes without the driver |
| Hermes harness (`keynote_driver/hermes.go`) | per agent: wakes, rests, codename taught, recalls; the generation; the proxy's slots | turn, wake/rest hooks, reset, save, proxy call | turns that end after a reset, a save that fails, a crash between saves |
| ate-api, atenet (another repository) | the actors' true states | resume, suspend, pause, create, delete, list; ingress that wakes | answers lost for calls that land; checkpoints and restores that fail for ever |
| fast-wake patches (`patches/`) | pending restores, worker bindings | resume answered before it is bound; restore queue | asynchronous completion overtaken by a suspend |
| benches (`burst_bench`, `agent_bench`, `poisson_wave`) | a pool, counters | claim, run, release | pool limits, partial failure |
| dashboard (`dashboard/`) | none (page); a simulated fleet (`mock_server.py`) | draws `/api/state`; the driver's life cycle as timed events | events of an earlier burst, duty cycle or suspend that fire late; flow control while pods come and go |
| operations scripts (`ops/`) | none | list, then suspend, delete, create | act on listings that are stale |

How they interact: the dashboard posts to the driver's `/api/*`; the driver calls
ate-api over gRPC (`ResumeActor`, `SuspendActor`, `PauseActor`, `CreateActor`,
`DeleteActor`, `ListActors`) and sends agents' requests through atenet, whose
ingress **resumes the target actor of every request it routes**; the agents call
the llm-d gateway. The driver's goroutines share one struct, `driver`, under
`d.mu`.

What makes the driver correct: two goroutines never handle one agent at a time;
the grid it shows is what ate-api has; `d.up` counts what is up; an agent is not
checkpointed while a request is in flight on it; suspend-all leaves nothing up and
says so only then; a burst starts from zero compute; every operation ends.

### day0/ - model serving day-zero recipes

| part | state it keeps | operations | hard behaviour |
|---|---|---|---|
| multistage routers (`routers/`, `scripts/dynamo_multistage_router.py`) | per backend: prefill bytes and decodes in flight, semaphores; per session: its home in the KV tier, its place in this run; an index file | chat request, `/reset`, start | asyncio: a reset replaces counters and semaphores under requests that hold or wait for them; retries, clients that go away, restarts |
| benchmark runners (`scripts/run_*.py`) | the cell of the campaign; files, router statistics and client processes that outlive it | clean up, reset, drain, run aiperf, read its export | timeouts, stray clients, leftovers of an earlier campaign, two campaigns in one pod |
| reports and slides | none | format results | - |

A runner resets a router, starts a client that loads it, and reads the router's
statistics and the client's files. Correct when counters and permits are given back on
every path, a session stays on the backend that holds its KV blocks, no request waits
for ever, and a result is that of the cell it is printed for.

### robotics/unitree-r1/ - a voice assistant on a robot

One Python process of many threads: microphone and voice detection, endpointing,
wake session, speculative prefill, the model's stream cut into sentences, a
synthesizer thread and a playback thread, LEDs, hand motion, proximity. C++ daemons
bridge to the vendor's SDK. Correct when no sentence is lost or spoken out of order,
the microphone never listens to the robot itself, and a turn ends.

### reliability/ - fault-injection experiments

Scripts and logs of experiments on training jobs (watchers, injectors, probes, one
set per run) and a small web app for labs: a page, and a server (`lab-webapp/server.py`)
that keeps a scoreboard in one JSON file, one thread per request. Correct when no score
is lost, counted twice or half written, and equal players rank by time.

### inference/ - recipes

Manifests and documents.

`PROJECT.json` lists every component with its status, and every hazard at its line.

## 2. Modules and plan

| modules | component | abstract specification | proofs |
|---|---|---|---|
| `KeynoteDriver`, `MCKeynoteDriver` | keynote driver | - | `KeynoteDriverProofs`, `KeynoteLockProofs` |
| `HermesMemory`, `MCHermesMemory` | Hermes harness | - | `HermesMemoryProofs` |
| `RouterState`; `LlmdRouter`, `DynamoRouter`, `DynamoScriptRouter`, `LustreRouter`; `MCRouters` | multistage routers | `KvHomes` | `RouterProofs`, `RouterPermitProofs` |
| `MockDriver`, `MCMock` | simulated driver of the dashboard | - | `MockDriverProofs` |
| `BenchScripts`, `BenchRunner`, `MCRunner` | benchmark runners | - | `BenchRunnerProofs` |
| `ScoreBoard`, `MCScoreBoard` | the lab's scoreboard | `ScoreLedger` | `ScoreBoardProofs` |

`RouterState` holds the state and the properties the four routers share and names the four
programs (`Programs`), each router is a module of actions over it, and `MCRouters` (for TLC)
and `RouterProofs` (for the proofs) put the four next-state relations together. `BenchRunner` is the one program of which the scripts are copies,
`BenchScripts` the data in which they differ.

What remains, in order:

1. The voice assistant's speech pipeline and turn-taking.
2. An abstract life cycle that both the keynote driver and the simulated one implement.

## 3. KeynoteDriver

### State

| variable | code |
|---|---|
| `phase`, `busy`, `rate`, `burstN` | `d.phase`, `d.busy`, `d.tr.Rate`, `d.burstN` |
| `states`, `up`, `badSnap` | `d.states`, `d.up`, `d.badSnap` |
| `cur`, `burst` | `d.b`: the number of the burst it points to (0: nil), and `*d.b` |
| `dutyOps`, `reqBusy`, `inflight` | the counters of the same names |
| `ctl` | the goroutine of the running burst, suspend-all or reconcile: where it is, its arguments, its pass, what `ListActors` answered |
| `pc`, `tries`, `work` | every other goroutine: where it is, tries left of its request, the agent and burst a duty worker handles |
| `dispatch` | `trafficLoop` between reading the rate and picking an agent |
| `ate` | the actors' states in ate-api |

A thread is named by its kind: `life` (agentLife), `sweep` (suspendOne of
suspend-all), `fix` (forEachLimited of preflight and verifyAtRest), `wave` (the first
wave of the duty cycle), `duty` (a worker of dutyLoop), `plain` and `over`
(trafficRequest outside and inside the duty cycle).

### Steps

An action is the code between two points where a goroutine can be overtaken: a
critical section of `d.mu`, or an RPC's effect at ate-api. The driver's reaction to
an RPC's answer is a later action, so a suspend-all, another agent's step or a crash
of the sandbox can come between. Guards are the code's conditions and early returns,
in their order. Named like the function it models; a function with several critical
sections has one action per section (`dutyWake`, `dutyWakeLand`, `dutyAsk`,
`dutyAskDone`, `dutyReturn` are `dutyWakeAndRequest`).

Merged or abstracted, and why nothing the properties speak of is lost:

- An RPC with its retries is one step with one outcome. What lies between two tries
  is a state ate-api can also be in before the first.
- A semaphore is the set of threads between its acquire and release. `dutyPauseOne`
  takes its slot and the lock in one step: it does nothing in between.
- `dutyLoop` reads whether to wake in one critical section and claims in the next; the
  second repeats the first one's conditions, so the claim is one action. Over the cap
  the second does not repeat them, so these are two (`dutyOverCap`, `dutyPick`).
- The first try of a request is sent in the step that claims it. Later tries are
  `BackOff` and `SendAgain`.
- A tick of `trafficLoop` sends any number of requests: `pickIdle` leaves `dispatch`
  as it is or ends the tick.
- PAUSED and SUSPENDED are one state (as are PAUSING and SUSPENDING): every place in
  the driver treats them alike, and `-rest-mode` chooses once which one occurs.
- The rate is 0, the base rate (1) or above it (2): all that `trafficLoop` asks.
- Left out: times other than whether they are set, counters of replies and tokens, the
  ticker, routing headers and strategies, metrics, run files, `-oneshot`, and the
  Hermes harness (section 4; `d.h` is nil here).

ate-api and atenet are not in this repository. `ResumeOutcomes` and `RestOutcomes`
say what the driver relies on: a resume ends with the actor up or fails; a rest call
ends with it at rest or fails; a failed restore and a failed checkpoint are permanent
(as `restoreFailed` and `pauseFailed` in the driver assume); an answer can be lost for
a resume that lands later. `Faults` says which of these can happen in a run.

### Properties

| property | says |
|---|---|
| `NoLateDutyOp` | from suspend-all's final sweep on, no wake or pause of the duty cycle is under way |
| `OneOperationPerAgent` | no two goroutines wake, pause, suspend or re-create one agent at a time |
| `UpCountsSandboxes` | `d.up` is at least the agents shown up and at most those not shown at rest |
| `RequestingHasRequest` | an agent shown as requesting has a request in flight |
| `NeverMidRequest` | no agent is checkpointed mid-request |
| `CleanGridHonest` | when a burst would skip its preflight, ate-api has nothing up |
| `AllSuspendedHonest` | when suspend-all reports all agents suspended, ate-api has none up (a restart of the driver reports nothing) |
| `WakeDoneExact` | `allUp` is closed exactly when the last agent woke or failed |
| `AllRunningExact` | "all running" is timed only when every agent woke |
| `OperationEnds` | every burst, suspend-all and reconcile ends (under `Fairness`) |

### Runs and bounds

Two agents and one duty worker in every run: a second agent is what the cap, the
semaphore (`SuspCap = 1`), "all" and "last" need, and an agent's threads of every kind
(its life, a wave, the worker, a sweep, a fix, requests) already compete for one agent.
`DutyTarget = 1`, `WakeSlack = 1`, `PauseSlack = 0` put both caps (6 and 8 above the
target in the source) within reach of two agents. `SweepPasses` and `VerifyRounds` are
6 and 3 in the source; smaller values reach the end of the loop sooner, with agents
left. `MaxBursts` bounds the operations that need a new burst record.

| run | configuration | shows |
|---|---|---|
| `duty` | one held burst; simulate, traffic, strategy, suspend-all; failed checkpoints, lost answers; 2 tries of a first request | locks, counters and verdicts hold in every interleaving (about 430,000 states) |
| `bursts` | two operations after one another, each actor at the start suspended, running, suspending or missing; failed wakes, restores, checkpoints and rests (`Faults` without `slow`, `lost`, `create`, `list`), crashes of sandboxes, a restart of the driver | preflight and reconcile leave an honest grid; a burst's counts are exact (about 106,000 states) |
| `live` | burst with one wake at a time, simulate, stop, suspend-all, reconcile; failed lists, restores and checkpoints; fairness | every operation ends |
| `after_all`, `slow_wake` | the smallest configuration each needs | the findings |

`NoLateDutyOp` and `NeverMidRequest` are checked without the fault `slow`, which ends a
wait of 10 s or 15 s before what it waits for: with it the code goes on regardless, and
says so for `NeverMidRequest` (main.go:1582). `AllSuspendedHonest` is checked without the
fault `list`: when the final `ListActors` fails, the code keeps its own bookkeeping's
verdict and notes that the check failed (main.go:2081).

Fairness is weak fairness of each goroutine, of the traffic loop's pick and of the
operation's goroutine: the Go scheduler runs every goroutine that can run, channel
semaphores are first come, first served, every RPC and request has a timeout, every
retry loop a bound. Nothing is assumed of the operator, of lost resumes or of crashes.
`after_all` needs `CHECK_DEADLOCK FALSE`: the system really stops there.

Every property of a passing run has a mutant in `PROJECT.json`: a definition changed as
a plausible mistake in the code would change it (a forgotten re-check, a counter not
decremented, a state left out of a switch), under which TLC finds the property violated.

### Findings

Two places where the code does not do what its comments say; each has a run.

1. `after_all` (main.go:1525): `-llm-after-all` with a wake concurrency below the number
   of agents never ends, and blocks every later operation.
2. `slow_wake` (main.go:2041): a wake slower than 15 s lands after suspend-all's sweep.

Three more came up while modelling and have no run of their own: the clock of suspend-all
stops when `d.up` is 0 while the duty cycle still wakes an agent (main.go:1957); with
`-overload-rate` an agent can stay "requesting" with nothing in flight, and the duty cycle
then never pauses it (main.go:2277; the passing runs have `OverloadRate = 0`); an agent
preflight could not put to rest is counted twice in `d.up` when it wakes (main.go:1506;
`UpCountsSandboxes` is checked where a burst starts from zero compute).

### Proofs (`KeynoteDriverProofs`)

For every number of agents, workers and bursts, every set of faults and all flags, from
the assumptions on the constants (`ConstantAssumption`, `InitAteAssumption`) alone:

- `TypeCorrect`: `Spec => []TypeOK`. `TypeOK` is inductive as it stands: it says for each
  kind of goroutine at which positions it can be, which is what rules out that an answer
  is handled by code that did not ask. One lemma per group of actions.
- `NoDutyOpOutlivesItsCycle`: `Spec => []NoLateDutyOp` if no wait runs into its deadline
  (`"slow" \notin Faults`). The property is not inductive: that nothing is under way when
  suspend-all stops waiting follows only from what `dutyOps` counts. `DutyInv` adds
  `ControlInv` (which phases go with which position of `ctl`), `LifeInv` and `WaveInv`
  (whose lives and waves can be running), `CountInv` (`dutyOps` is the number of workers
  that claimed an agent to wake it plus the threads that are pausing one), `ClaimInv`
  (which workers those are) and `QuietInv` (in the phases the property speaks of, both
  sets are empty). TLC checked `DutyInv` as an invariant before it was proved. The step
  that matters is `SuspendDrain`: `dutyOps = 0` makes both sets empty, and no step of a
  later phase adds to them because every claim of the duty cycle looks at the phase under
  the lock.

### Proofs (`KeynoteLockProofs`)

The other properties, again for every number of agents, workers and bursts, all flags and
every fault the hypotheses do not exclude:

| theorem | property | hypotheses |
|---|---|---|
| `BurstCountsEveryAgent` | `WakeDoneExact` | none |
| `RequestingIsInFlight` | `RequestingHasRequest` | `OverloadRate = 0`, `2 \notin Rates` |
| `OneOperationAtATime` | `OneOperationPerAgent` | no `slow` |
| `CheckpointsBetweenRequests` | `NeverMidRequest` | no `slow` |
| `SuspendedMeansZeroCompute` | `AllSuspendedHonest` | no `slow`, no `list` |
| `UpIsTheFleet` | `UpCountsSandboxes` for `k = 0` | no `slow`; any `k` |
| `AllRunningMeansAllWoke` | `AllRunningExact` for `k = 0` | no `slow`; any `k` |
| `CleanMeansAtRest` | `CleanGridHonest` for `M = {}` | no `slow`, no `list`; any `M` |

No hypothesis is there for the prover's sake. `slow` ends a wait of 10 s or 15 s before what
it waits for, after which the code goes on regardless. Without a listing, suspend-all reports
what its own books say. Above the base rate an agent can stay "requesting" with nothing in
flight.

The last three theorems quantify over a parameter instead of excluding behaviours. A burst
also starts when its preflight failed (main.go:1394-1437), and then an agent that is still up
is counted a second time when it wakes (main.go:1506). `UpIsTheFleet` says how wrong `d.up`
gets: `up` is never below the agents shown with a sandbox, in any behaviour, and if `k` bounds
the value of `up` with which bursts begin (`StartsWithin(k)`: `[][BurstGo => up <= k]_vars`)
it is never more than `k` above the agents not shown at rest; the same `k` bounds how many
agents may still be missing when "all running" is timed. Every behaviour with bursts that
began with at most `k` counted is covered by the theorem for that `k`, so no start is left
out; with `k = 0` the statements are the properties the runs check.

`CleanMeansAtRest` does the same for the agents that are asked while a preflight draws the
grid. TLC finds a behaviour of 25 steps, too long for the runs' instances, in which
`CleanGridHonest` fails: a burst that does not hold its agents ends while a goroutine of the
duty cycle's first wave has not yet sent its agent's first request; reconcile re-creates the
agent and lists it as suspended; the request is sent, and atenet resumes the agent it routes
to; the grid is then drawn from the listing, all at rest, and the agent is up. The theorem
says that nothing else can go wrong: if `M` holds the agents that have a request in flight
between a preflight's last listing and the grid drawn from it (`AskedWithin(M)`), a clean
grid leaves no agent up outside `M`. Every behaviour has such an `M`; where it is empty the
burst starts "from a clean, honest zero", as the comment on `preflight` has it (main.go:822).

- *The course of a burst.* `CourseInv` is the part of `DutyInv` that needs no counter, and
  `JoinInv` adds the account of the burst: woken, failed and not yet woken agents are all its
  agents, `allUp` is closed exactly when the third are none, and only then is the phase
  "running". Every agent's life counts itself once, when its wake lands.
- *The grid's locks.* One lemma (`ThreadGrid`) says of all 18 actions of a thread that it
  moves one thread and touches one agent, in one of six ways (it goes on, asks, releases,
  pauses, claims, starts). `LockInv` (who wakes an agent finds it "Waking", who rests it
  "Suspending") and `ApartInv` (two holders have different agents) are kept by each of them
  because a claim looks at the state under the lock. Two claims look at less: `suspendOne`
  may take an agent that is "Waking", and a preflight fixes agents without looking at all.
  `HoldInv`, `SweepInv` and `FixInv` show that then nobody else can be at the agent: a life
  claims only after its own wake and in a burst without duty cycle, suspend-all's first pass
  picks agents that run, and its later passes, the preflight and `verifyAtRest` work when the
  duty cycle is quiet, which is what `DutyInv` proves.
- *Requests.* `BusyInv` (`reqBusy` counts the requests of each agent) and `FlightInv`
  (`inflight` counts them all) are kept by three kinds of steps: `Begins`, `Ends`, `Keeps`.
  No request begins on an agent that is held, hence `NeverMidRequest`.
- *What suspend-all reports.* From the drain on no request is in flight (`StillInv`) and no
  wake under way, so nothing raises an agent that the last listing showed at rest
  (`ListInv`; lemma `Rises` lists all that can raise one).
- *What `d.up` counts.* Every step changes one agent and counts what it changes (`Graded`),
  and `applyStates` counts what it draws (`FreshCount`), so the agents shown with a sandbox
  are counted (`LowInv`). The upper bound is not inductive for the agents not shown at rest:
  a burst may show an agent waking that is already counted. It is inductive for those that
  are `Settled`, neither at rest nor waking nor due to be woken by the burst: a life that
  starts leaves that set alone and one that lands adds the agent it counts (`HighInv(k)`). No
  claim takes an agent in the middle of a wake, since whoever is shown "Waking" is being
  woken (`WakingInv`) and the claimers' own invariants exclude that wake. Until all agents
  of a burst were counted, `up` is at most `k` above the number that woke (`RunInv(k)`).

- *What a clean grid means.* Outside a running burst an agent shown at rest is at rest
  (`GroundInv(M)`, for the agents outside `M`). By itself this is not inductive, since a request raises its agent whatever
  the grid shows. `AskedInv` adds that no agent shown at rest has a request in flight then;
  `LandInv` that an agent whose suspend was called has none either, and is at rest once the
  call succeeded, so that it may be shown so; `DrawnInv` that what a preflight is about to
  draw is still true outside `M`: an agent outside `M` has no request in flight then, and
  lemma `Rises` names the thread that would have to raise it.

Only model-checked: `OperationEnds` (liveness is out of the prover's reach).

## 4. HermesMemory

With `-harness hermes` each agent runs a Hermes server inside its sandbox, and the
driver shows that what an agent was told survives the checkpoints: it teaches it a
codename once and asks for it on every later turn.

### State

| model | code |
|---|---|
| `gen`, `mem`, `dirty` | `memStore`: the generation, per agent what was taught, the rests counted, the rests when it was taught and those survived, under `m.mu` |
| `disk`, `saver` | `hermes_memory.json`, and the goroutine that saves every 5 s with its snapshot |
| `reset` | the handler of `/api/memory/reset`, between its check and `memReset` |
| `okCalls` | `slots[i].okCalls > 0`, under `pmu` |
| `turn` | the goroutines in `askHermes`, each with the generation and the question it read when it began |
| `life` | the agent between running and rest, as far as it decides what a turn and a hook may do |
| `hermes`, `learnt`, `rests` | outside the repository: what Hermes does with each message, from when on a session knows its codename, and the checkpoints each agent really went through |
| `proved` | history: the most rests a correct answer spanned |
| `crossed` | history: the agents of which a turn, or Hermes' work for one, was under way when the generation changed |
| `may` | which events the behaviour has; chosen at the start, never changed |

### Steps

A turn has a step per lock it takes and per answer it waits for: `TurnBegin` (`m.mu`),
`TurnResetSlot` (`pmu`), `TurnAttempt` (the check for an agent that is put to rest, then
the request), `TurnRetry` / `TurnGivesUp` / `TurnAnswered` (the answers told apart as the
code does: transport errors and every 5xx but 504 are retried, 504 and the rest are not),
`TurnChecksSlot` (`pmu`), `TurnRecords` (`m.mu`). After a 504 or a restart of the driver
Hermes may still be working on a message; its LLM call then goes through the proxy, which
records it in the slot of the agent, whoever's turn it is. The proxy relays the model's
answer first and records the call afterwards, so Hermes may answer in between.

Rests, wakes and re-creations are the hooks with the step before them that decides
whether the hook runs: a checkpoint and `memRested`, a re-creation and `memForget` (or
`recreate` failing because the answer of the creation was lost and every retry finds the
actor there).

The reset's handler (`ResetCheck`, main.go:3091-3100) looks at `phase` and `busy` and no
further. The driver is idle in that sense while agents run and turns go on: a burst with
`hold:false, wake_only:true` whose traffic began in `waking` ends with its agents running and
their first turns in flight (main.go:1445-1447, 1521, 1650-1655), suspend-all leaves a pause it
did not wait for, and atenet's 504 leaves Hermes working. So the model guards the check by no
more than that no agent is between the two halves of a re-creation, which only the busy
preflight and reconcile do, and `memReset` follows it after the lock was released. What
crosses it is in section 10.

What is abstracted: the codename is its generation (it is a function of agent and
generation, hermes.go:46); tokens, texts, timings and the counters that only grow
(`Wakes`, `RecallOK`, `RecallFail`, `AwakeMs`); the requests that the proxy answers itself
(models, warm-up). The memory flag is on (without it no turn touches the store). A request
that ends with a transport error is not worked on any more. The fleet control is reduced to
what it promises a turn (a turn begins on a running agent and its agent is checkpointed
after it, unless `waitNotBusy` gave up); that it does so is `NeverMidRequest` of
KeynoteDriver. A checkpoint takes longer than the proxy needs to record a call it has
relayed.

### Properties

- `TaughtIsKnown`: what the store calls taught, the agent's session of the current
  generation knows. It relates the driver's file to the state inside a sandbox, across
  restarts, 504s, two turns of one agent, and resets at any moment (also one that a restart
  takes back).
- `SurvivedHonest`: the number of rests shown as survived was really spanned by a right
  answer. The counters it is computed from are kept by hooks that run after the RPCs.
- `SavedIsOnDisk`: no update of the store is lost between the snapshot, the dirty flag and
  the file.

What the code does not keep is named in the properties. Both leave out an agent of which a
turn crosses a change of the generation (`crossed`): there the code is wrong, see section 10,
and TLC finds both properties violated as soon as `\ crossed` is taken out of them. `Overtaken`
names what must not come together for the first two, a restart that loads what the driver
knew of an agent re-created since. Further, a lost answer of CreateActor for `TaughtIsKnown`, a
checkpoint during a turn for `SurvivedHonest`, and a file that cannot be written for
`SavedIsOnDisk`. `PROJECT.json` lists each of these as a hazard.

### Runs and bounds

- `hermes` (3,390,167 states up to symmetry): one agent, two turns at a time, two
  attempts per turn, two generations, one checkpoint. Agents share only the generation and
  the file, which hold all of them at once, so one agent shows what can happen to each; two
  turns are the most the driver starts on an agent, and one that was given up is also one
  of them. One checkpoint is enough to tell rests before and after the teaching apart.
  Scenarios: restarts with 504s and overload traffic; re-creations with 504s and overload
  traffic; resets with re-creations; resets with 504s; resets with restarts; restarts with
  checkpoints during turns and writes that fail; re-creations that fail. No scenario has all
  eight events together; the theorems below have no such limit.

The number of successful turns is not promised by any property: the slot is one per agent
(hermes.go:352), so a turn whose own LLM call failed is counted as a success when another
turn of the agent had one.

No liveness is claimed: a turn ends because its attempts are bounded, and the saver is a
timer.

### Proofs (`HermesMemoryProofs`)

For every number of agents, turns, generations, rests and attempts, and every set of events
(the properties themselves say what they leave out, so no theorem has a hypothesis):

- `SavedStateIsOnDisk` (`SavedIsOnDisk`) stands alone. The property is not inductive, since it
  says nothing while the saver is writing. `SaverHasStore` adds that with nothing marked dirty
  the snapshot being written *is* the store. Every action either leaves store, saver and file
  alone (lemma `Elsewhere`) or marks the store dirty (lemma `Dirtied`); what remains are the
  saver's two steps and the restart, which is why the proof also carries that file and
  snapshot are whole stores.
- `MemoryTyped` (`TypeOK`), `TaughtAgentsKnow` (`TaughtIsKnown`) and `SurvivedRestsAreReal`
  (`SurvivedHonest`) rest on one inductive invariant in four parts, each proved from the ones
  before it. `ShapeInv`: types, and where the call of a turn can be at each position of it.
  `OrderInv`: no turn is under way at a re-creation, and every turn of an agent that crossed
  no change of the generation is of the current one, which a reset and a restart keep because
  they put the agents of all other turns among the crossed. `KnowledgeInv`: a slot, a reply or a record that says "success" speaks
  of an agent whose session knows the codename, which needs an account of every place a
  success can wait in (the slot, the saved file, a call that Hermes still works on).
  `SpanInv`: what the driver counts as survived lies within the rests since then, although
  the hook that counts a rest runs after it and a restart goes back to an older count.

Nothing of this module is only model-checked.

## 5. The multistage routers

Four aiohttp programs of the same design: `LlmdRouter`
(`routers/llmd_multistage_router.py`), `DynamoRouter`
(`routers/dynamo_multistage_router.py`), `DynamoScriptRouter` (its copy under `scripts/`,
which differs in `/reset`) and `LustreRouter` (`routers/llmd_stage4_lustre_router.py`).
Each is one event loop, so the code between two awaits is one action and every await is
a place where a reset, another request, a client that goes away or a restart comes in.

### State and steps

`RouterState` declares the globals of the process (`run_id`, `current_stage`, the maps
from session to backend, the counters, the index file) and per request the handler's
local variables `req[r]`: where it is suspended (`ph`), its backend, whether it is still
counted as a prefill, the run it noted, the permits it holds and from which generation of
semaphores (`bh`, `th`). A reset replaces the semaphore *lists*; a handler gives back to
the list the global names then. Permits are therefore kept per generation (`epoch`), and
`foreign` counts those given back to another generation than they came from.

A request goes through `Arrive` (backend, counters, map entries), `DelayOver`, `Gate` or
`GotBackend`/`GotTtft` (semaphores, then the 499 of a run that is over), `Headers`,
`FirstToken`, `StreamOver`/`Stale`/`PostFails`/`Retry` and `Finish` (the `finally`), each
prefixed with its router's name. A start reads two files: the router's own index (`index`)
and the Lustre router's, of which the model knows only what it may hold when it is read
(`may.existing`). llm-d takes the second only when its own is missing or empty
(`LlmdLoads`); Dynamo loads it first and its own over it (`DynLoads`); the Lustre router
has one file. `/reset` is two actions where the code awaits
(`ResetBegin`, `ResetEnd`), one in the copy and in the Lustre router.

Abstracted: a session is its `[rid:...]`; every body has `BodyBytes` bytes; the delays
differ only in whether there is one; the two backends are those of the code. Left out: the
tag put into a body, `/stats`, passthrough requests, the KV block files, which are
written once and never read, and a crash in the middle of writing the index file, which
`json.load` then refuses, so that the router starts as if it had none. `foreign`, `lost` (requests the code counts and never
uncounts) and `swept` (a reset zeroed the count of a live request) are history.

### Properties

- `PermitsConserved`: the permits of the semaphores in use and their holders add up to the
  size they were made with, plus what requests of an earlier run gave back to them. No path
  (499, 502, retry, closed stream, client gone) forgets a permit or returns it twice.
- `CountersExact`: the counters are the live requests plus the 499s, which the code really
  leaves counted, as long as no reset has zeroed a live request's count.
- `WaitersAreServed`: whoever waits for a permit of the semaphores in use has a free one or
  a live holder that will return it. A request waiting on a list that was replaced may wait
  until an old holder returns a permit to the *new* list, that is for ever; the property says
  so by leaving it out.
- `OneHome`, `IndexAgrees`, `KeepsHomes`: a session active in a run is served where the KV
  tier says; the index file never names another backend; and the router implements `KvHomes`,
  the abstract tier in which a home, once given, is kept until the tier is cleared and a
  start restores what was saved last; for a session whose home was not saved, it may take
  what the other file names. `OneHome` holds in stage 1 of the llm-d router, too, which the
  documents describe otherwise (section 10).

### Run and bounds

`routers` (about 683,000 states up to symmetry): three requests, two sessions (three in one scenario), two backends, one reset,
one restart, one client that leaves, two posts per request instead of three, one permit
where the code has 24, and one or two where it has 128. A scenario bounds what happens
together: resets into stages 1 and 5, restarts (with and without a second index file,
which names the other backend than the hash), leaving clients with failing posts, three
sessions. Three requests are a holder, a waiter and one of the next run; one
reset makes two generations. No fairness is needed: every property is a safety property.

### Proofs (`RouterProofs`)

For all four routers and any number of requests, sessions, resets and restarts
(`AnySpec`): `RoutersKeepHomes` (`KeepsHomes`, a refinement), `ServedAtHome` (`OneHome`)
and `IndexNeverMoves` (`IndexAgrees`). They share one inductive invariant, `HomesInv`:
the maps have their types, the file holds no home that the tier does not hold unless a
reset has cleared the tier and not written yet (`IndexWithin`), and `OneHome`.
`IndexAgrees` alone is not inductive, because a session without a home could be given
another one than the file has. `LlmdReads`, `DynReads` and `LustreReads` say that what a
program makes of the two files, whatever the second one holds, is what `KvHomes` allows a
start to do. Lemma `Elsewhere` covers the actions that touch no home,
`Housed` the arrival of a request.

### Proofs (`RouterPermitProofs`)

For the same specification, and semaphores of any size: `RoutersTyped` (`TypeOK`),
`NoPermitLost` (`PermitsConserved`), `LoadIsExact` (`CountersExact`) and `NoCircularWait`
(`WaitersAreServed`). The inductive invariant is `RouterInv`: `TypedInv` (the types, and for
each position of a handler what it can hold there), `PermitInv` (`PermitsConserved`, and the
lists that no reset has put in place yet are full), `CountInv` (`CountersExact`, and the Lustre
router loses no count) and `AbstainInv` (which router takes no permit of which kind). The
argument is a balance: a step of a handler changes one request, and what it takes from a
semaphore or adds to a counter is what that request holds more than before; so one lemma on
the cardinality of the holders and one per way a handler's holdings change cover all four
routers. `WaitersAreServed` follows because a semaphore without a permit has a holder of its
own generation. Whoever holds a permit for the first token waits for no permit at all, and
whoever holds the backend's at most for the one for the first token, so waiting is never
circular. Nothing of the routers is only model-checked.

## 6. MockDriver

`dashboard/mock_server.py` is what the stage dashboard is developed against: it
re-implements the driver on simulated time, in one class with one lock and a heap of
timed events. An action is an API call or an event; the variable `self` is the object, a
record with the attributes of the same names; `self.ev` is the bag of events on the heap.
An event may fire at any later moment, so events of an earlier burst, of the duty cycle or
of a suspend fire late in every order (an over-approximation of the random delays).
Left out: replies, tokens, timings, history, snapshots, the memory it makes up.

- `QuietWhenIdle`: an idle driver has no agent waking, requesting or suspending.
- `WakeAccounted`: while a burst wakes, every agent of it waits for a slot, is waking, or is
  counted once as woken or failed. Traffic that starts in that phase may lose an agent (its
  worker suspends it before its wake ends), and then none is counted twice.
- `AdmissionExact`, `NoIdleSlotWhileQueued`: flow control counts exactly the requests
  queued, handed over and with the endpoint picker, and no request is queued beside an idle
  slot, also when pods die and return or the strategy changes.
- `WorkersBusy`: a busy duty worker has an agent and an event that will free it.
- `NoSuspendBeforeReplies`: suspend is refused until every first reply is there
  (mock_server.py:18).
- `BusyEnds`: every operation ends. It fails in `mock_early`.

`mock` (about 2,381,000 states): two agents, one duty worker, one suspend at a time, one slot per pod, four API
calls of any kind, one open-loop request, one agent picked by a worker.
`CHECK_DEADLOCK FALSE`: when the calls are used up and nothing is scheduled, the instance
is at its end. Traffic may be started while the burst still wakes, as the code
(mock_server.py:521) and the page (index.html:1300) allow.

Finding (`mock_early`, mock_server.py:872): `simulate_traffic` is accepted while a burst
still wakes; the agents that wake after it send a first request whose end is not counted
as the end of their life, so `busy` is never cleared. Fairness there: an event on the
heap fires (every tick drains what is due); the calls are bounded, hence so are the events.

### Proofs (`MockDriverProofs`)

For any number of agents, duty workers, pods' slots, suspends at a time and calls, and with
traffic started at any moment: `TypeOKAlways` (`TypeOK`), `QuietWhenIdleAlways`
(`QuietWhenIdle`), `WakeAccountedAlways` (`WakeAccounted`), `AdmissionExactAlways`
(`AdmissionExact`), `NoIdleSlotWhileQueuedAlways` (`NoIdleSlotWhileQueued`),
`WorkersBusyAlways` (`WorkersBusy`) and `NoSuspendBeforeRepliesAlways`
(`NoSuspendBeforeReplies`). None has a hypothesis.

The code keeps counters of what it has scheduled, so the invariant says of each counter how
many events of which kind are on the heap. It has two halves.

- *Flow control* (`FlowOk`). `Balanced`: `inflight` is the paced requests under way plus
  the queue, `handoff` the dispatches on the heap, `epp` the replies the endpoint picker
  waits for; a bag may hold an event twice, so copies are counted (`Count`, and the lemmas
  `PutIs`, `LotStep` for one event more or less). `Paced`: only paced requests queue.
  `NoRoom`: the queue is not empty only when there is no room, which every action restores by
  pumping, and the lemmas on the pump (`PumpIs`, `BagGiven`) say what it hands on.
- *The life cycle* (`Live`), on top of `FlowOk`. `Core` counts: the agents of a burst are
  waiting, waking (one event each), woken or failed (`Wakes`); `pending` is at least the
  agents whose first reply or suspend is still to come, each in one place only (`Lives`:
  the first replies that early traffic leaves uncounted, the finding, only make it larger,
  so `busy` covers every first reply all the same); `susp_out` is what a sweep has left
  (`Susps`); a pending `drain`, `begin` or `recon` step says where the
  operation is (`Ops`). `Calm` says that an agent in a passing state has the event that ends
  it, and `Own` that a busy worker has an agent with something still to happen for it; in the
  wake phase that is a send of early traffic, which may put to rest an agent whose wake is
  still on the heap. So an agent may be past its wake when the wake ends (`Passed`), and
  `Wakes` bounds from one side once a duty cycle has started, and is exact before.

`WakeAccounted` or `QuietWhenIdle` alone are not inductive: that nothing is waking when a
sweep ends follows from what `susp_out` counts, which follows from no agent having two events.
Handlers are compositions (set a state, schedule, pump, check whether the wakes are done), so
the lemmas say of each helper what it counts up or down (the parameters of `Balanced`, `Core`,
`Calm` and `Own` are what is still owed in the middle of a handler), and `StepKeeps` has one
case per action. For the action property, `OnlySuspendSweeps` shows that no step but the
suspend call begins a sweep. TLC also checks `Inductive`, on the instance of `mock`: no
error. `BusyEnds` is a liveness property, which only TLC speaks of (`mock_early`).

## 7. The benchmark campaigns

`scripts/run_*.py` drive aiperf through the cells of a benchmark: clean up stray clients,
reset the router, perhaps wait until the engine is idle, start the client, wait with a
timeout, kill what is left, read the router's statistics and the client's export, print a
RESULT line. They are copies of one program that drifted apart. `BenchScripts` translates
each script's constants and choices (what it waits for, how it finds strays, whether it
drains, wipes and limits, what its RESULT reads, its cells); `BenchRunner` is the program.

Shared by whatever ever ran in the pod, and therefore state of the environment: the client
processes (`procs`: the one that writes the export and its workers, which may outlive the
script), the requests in the engine, what the router counted since its reset, the result
directory of each tag, and which servers answer. An `Id` is one execution of one cell by one
start of a script; everything remembers the `Id` it is from. A scenario allows one fault: a
client that fails, an HTTP call that fails, a script that crashes.

- `ResultIsOfThisAttempt` / `FreshResult`: a RESULT line is read from files its own attempt
  wrote. The first holds for all scripts in no run (finding); the second is what the one
  script that empties the directory achieves, against late writers too.
- `MeasuredAlone`: no other attempt's client loads the router while a cell is measured, as
  far as each way of finding strays can promise.
- `StatsUnmixed`: with cleanup by title the statistics printed count the cell's own client.
- `OnlyOwnClients`: two campaigns side by side that clean up by port spare each other.
- `DrainedWave`: the script that drains starts a client on an empty engine unless it gave up.
- `CampaignEnds`: a script with timeouts comes to its end, whatever clients and engine do.

`runners` (about 230,000 states): every script alone with two cells and one start, and with one cell and two
starts; and the pair for which the cleanup by port was written, side by side. Two cells (or
two starts) are what "an earlier attempt" needs. Fairness: a script that can take a step
takes it (its waits have deadlines, all but the one for its servers), and servers come up;
nothing is assumed of clients and requests. Scripts without a timeout are excluded from
`CampaignEnds`, since they may wait for their client for ever.

Proofs (`BenchRunnerProofs`), for every script and any number of cells, starts and faults:
`CampaignTyped` (`TypeOK`), `NoStrayClients` (`MeasuredAlone`), `StatsAreTheCells`
(`StatsUnmixed`), `ResultsAreFresh` (`FreshResult`), `StartsDrained` (`DrainedWave`) and
`NeighboursUnharmed` (`OnlyOwnClients`). All but the first assume of the scenarios what
`SideBySide` says: scripts that run in one pod have routers of their own, and none of them
cleans up by title, which would end every client. It is what the by-port cleanup was written
for, and TLC evaluates it for the scenarios of the runs (`MC_SideBySide`). The invariant,
`CampaignInv`, follows a cell: every process is one of an attempt at a cell (`ProcsInv`); from
the cleanup on, no client the cleanup looks for but the cell's own is at its router
(`OwnRouterInv`), and with a cleanup by title none at all (`AloneInv`); so what the router
counts, what `/stats` answers and what is merged into the export is the cell's own
(`CountedInv`), as is what the emptied directory holds (`WipedInv`); and an engine found empty
stays empty until the start (`DrainInv`). `ResultIsOfThisAttempt` holds for no script that keeps
its directory, and `CampaignEnds` is liveness: both are TLC's.

Finding (`stale_result`, run_dsv4_upgraded_sweep.py:193): started again, a script that keeps
its result directories and runs into a timeout reports the earlier campaign's export with this
attempt's statistics; `results/run_dsv4_upgraded_sweep.log` has such a line (c256). Also met,
without a run: `SCAFFOLDING_GUIDE.md` speaks of `POST /admin/set_stage` (the code posts to
`/reset`) and of draining the engine, which one script does, and does after the reset.

## 8. The scoreboard

`lab-webapp/server.py` is a threading HTTP server: each request's thread reads the time,
takes the lock, loads the JSON file, changes it, replaces it and answers. `ScoreBoard` has
an action for each of these (`Post`, `Refuse`, `Enter`, `Leave`, `Reply`) and `Crash`, which
drops every request under way and leaves the file. The page posts without waiting, so a
player's posts may overtake each other; `patient` says whether the page waits.
`Changed` is what each endpoint does to the file. Left out: nicknames, missions, passwords
(a refused request is `Refuse`), and the times no order depends on.

- `KeepsLedger`: it implements `ScoreLedger`, in which every request takes effect once, at
  one moment between being sent and its answer, or not at all if the server dies first. The
  mapping reads the points from the file; a request is waiting until its `Leave`.
- `TieBreakHonest`: `lastScoreAt`, which ranks equal players, is the time of the player's
  latest clue, if his posts do not overtake each other. Without that condition it is not:
  the time is read before the lock.

`scoreboard`: two players, two clues, three requests, one crash, points beyond the limit
(about 257,000 states up to symmetry). Three requests are two that compete and one that
finds what they left.

Proofs (`ScoreBoardProofs`), for any number of players, clues, requests and crashes:
`TypeCorrect`, `ServesEachRequestOnce` (`Spec => KeepsLedger`) and `RanksHonestly`
(`TieBreakHonest`). The refinement rests on
`OneWriter`: a thread between `Enter` and `Leave` holds the lock and its copy is the file as
it is, changed by its own request. So `Leave` is the step at which the request takes effect,
and all others are asking, dying or nothing. `RanksHonestly` needs that a patient player has
one request under way (`OneAtATime`) and that everything in the player's record is older than
that request (`InOrder`); then the player's time is that of the clue solved last (`Ranked`).

## 9. Not modelled

- **Voice assistant and robot daemons**: threads around a microphone, a voice-detection
  model and the vendor's SDK, with thresholds on audio time. The hand-over of sentences
  between its threads is worth a module and is the next step of the plan.
- **Fast-wake patches**: diffs against another repository; the store and the locks they
  change are not here.
- **Benches, operations scripts, watchers of the fault-injection runs**: they fan out
  calls or poll another system, and keep no state a property could be about.
- **Reports, slides, manifests, recipes, the dashboard's page**: formatting and deployment.
- **Times and amounts** everywhere: no property speaks of latencies, tokens or scores of
  benchmarks.
- Liveness is model-checked only (`OperationEnds`, `CampaignEnds`, and the finding on
  `BusyEnds`): it is out of the prover's reach, as are ENABLED and inductions over data. Every
  safety property of a passing run has a theorem, some under the hypotheses stated with it.

## 10. Disagreements without a run

Two places where the repository contradicts itself and the runs above pass, because the
properties say what the code does, or except the case by name.

1. **Stage 1 of the llm-d router is no round robin.** `handle_chat` sets `idx = home_idx`
   for every request (day0/routers/llmd_multistage_router.py:140) and the branch of stage 1
   (154-162) does not change it; `rr_counter` only numbers the requests. The comment of that
   branch (:155) says "Stage 1: Baseline Naive L7 Round-Robin (stateless cross-replica
   misses + HoL blocking)", day0/SCAFFOLDING_GUIDE.md:29 "Stage 1: Stateless L7 Round-Robin",
   :49 "Stateless round-robin across workers" for both routers, and day0/README.md:13
   "Stateless round-robin scatters consecutive turns of the same multi-turn session across
   replicas". The misses of that stage come from the tail put into the body. The Dynamo
   router does what the documents say (dynamo_multistage_router.py:145). In the model
   `LlmdAssign` serves a session at home in every stage; `OneHome` excepts stage 1 of Dynamo
   and not of llm-d, so that the run `routers` and the theorem `ServedAtHome` show of the
   llm-d router that in stage 1, too, all turns of a session go to one backend.
2. **A memory reset can be crossed by a turn.** The handler of `/api/memory/reset` looks at
   `phase` and `busy` only (keynote_driver/main.go:3096), although its refusal says "suspend
   all agents first" (:3100), and the recording of a turn does not compare the generation it
   asked in with the present one (hermes.go:372-382). Section 4 names the ways in which a
   turn is under way then. The turn has checked its slot, the reset passes its check,
   `memReset` starts a generation, and the turn records `Taught` in it: an agent counts as
   taught that was never told the new codename, against hermes.go:9-10 "the first turn in a
   memory generation gives the agent a codename; every later turn asks for it back", and
   hermes.go:242-243 "each agent starts from an empty history". With `\ crossed` taken out
   of `TaughtIsKnown`, TLC reaches this in 13 states of the run `hermes`; out of
   `SurvivedHonest`, a count of survived checkpoints from before the reset in 26.
