------------------------- MODULE KeynoteLockProofs -------------------------
(* Proofs about KeynoteDriver's locks and counts, for any number of agents,   *)
(* workers and bursts: the grid's Waking and Suspending as locks of an agent, *)
(* its requests in flight, the wakes a burst waits for, what suspend-all's    *)
(* verdict is worth, what d.up counts and when a clean grid means no compute. *)
EXTENDS KeynoteDriverProofs

(* What proves the duty cycle's counts without the count itself: it holds     *)
(* whether or not the waits are cut short.                                   *)
CourseInv == ControlInv /\ LifeInv /\ WaveInv

(* Where a goroutine has an operation on its agent under way.                *)
HolderPcs == RestPcs \cup WakePcs \cup {"claimed", "create"}

(* The agents of the burst that have neither woken nor failed to.            *)
Unwoken == {t \in Thread : Kind(t) = "life" /\ pc[t] \in {"start"} \cup WakePcs}

(* A burst counts every agent once, and runs only when all were counted.     *)
JoinInv == ctl.pc = "join" =>
    /\ burst.woke \in Nat /\ burst.failed \in Nat
    /\ burst.woke + burst.failed + Cardinality(Unwoken) = burst.args.total
    /\ burst.wakeDone <=> Unwoken = {}
    /\ phase = "running" => burst.wakeDone

(* A life suspends its agent only in a burst that does not hold.             *)
HoldInv == \A t \in Thread :
    Kind(t) = "life" /\ pc[t] \in {"claim", "claimed"} \cup RestPcs => ~burst.args.hold

(* suspend-all's first pass claims no agent that the duty cycle is waking.   *)
SweepInv == \A t \in Thread : Kind(t) = "sweep" /\ pc[t] # "idle" =>
    /\ ctl.pc \in {"drain", "passes"}
    /\ ctl.pc = "drain" /\ pc[t] = "claim" => states[t[2]] \in {"Running", "Requesting"}

(* preflight and verifyAtRest wait for the RPCs they start.                  *)
FixInv == \A t \in Thread :
    Kind(t) = "fix" /\ pc[t] # "idle" => ctl.pc \in {"relist", "final", "verify"}

(* The goroutine that works on an agent holds it, and holds it alone.        *)
Holds(t) == /\ pc[t] \in WakePcs => states[AgentOf(t)] = "Waking"
            /\ pc[t] \in RestPcs \cup {"claimed"} => states[AgentOf(t)] = "Suspending"
LockInv == \A t \in Thread : Kind(t) # "fix" => Holds(t)
ApartInv == \A t, u \in Thread :
    t # u /\ pc[t] \in HolderPcs /\ pc[u] \in HolderPcs => AgentOf(t) # AgentOf(u)

(* What a step of thread t does to the grid: it moves t to p, and touches no  *)
(* agent but a.                                                              *)
GridStep(t, a, p) ==
    /\ Goto(t, p) /\ work' = work
    /\ \A b \in Agent : b # a => states'[b] = states[b]
Moves(t, a, p) ==           \* t goes on, or starts an RPC of preflight or verifyAtRest
    /\ states'[a] = states[a] /\ pc[t] # "start" /\ p # "start"
    /\ Kind(t) # "fix" =>
         /\ p \in WakePcs <=> pc[t] \in WakePcs
         /\ p \in RestPcs \cup {"claimed"} <=> pc[t] \in RestPcs \cup {"claimed"}
         /\ p # "create"
    /\ Kind(t) = "life" => (p \in {"claim", "claimed"} \cup RestPcs =>
                              pc[t] \in {"claim", "claimed"} \cup RestPcs \/ ~burst.args.hold)
    /\ Kind(t) \in {"sweep", "fix"} => p # "claim" /\ pc[t] # "idle"
Asks(t, a, p) ==            \* a request begins or ends
    /\ pc[t] \notin HolderPcs /\ p \notin HolderPcs /\ Kind(t) \notin {"sweep", "fix"}
    /\ states[a] \in {"Running", "Requesting"} /\ states'[a] \in {"Running", "Requesting"}
    /\ Kind(t) = "life" => /\ p \in {"idle", "flight"} \/ (p = "claim" /\ ~burst.args.hold)
                           /\ pc[t] # "start"
Releases(t, p) ==           \* an operation on the agent ends
    /\ pc[t] \in HolderPcs /\ p \notin HolderPcs \cup {"claim", "start"}
    /\ Kind(t) = "life" /\ pc[t] \in WakePcs => LifeLand(t)
Pauses(t, a, p) ==          \* the duty cycle claims an agent to pause it
    /\ Kind(t) \in {"wave", "duty"} /\ p = "wait" /\ phase = "running"
    /\ states[a] = "Running" /\ states'[a] = "Suspending"
Claims(t, a, p) ==          \* suspendOne claims an agent
    /\ Kind(t) \in {"life", "sweep"} /\ pc[t] = "claim" /\ p = "claimed"
    /\ states[a] \in {"Running", "Requesting", "Waking"} /\ states'[a] = "Suspending"
Starts(t, a, p) ==          \* agentLife claims its agent to wake it
    /\ Kind(t) = "life" /\ pc[t] = "start" /\ p = "resume" /\ states'[a] = "Waking"

(* Every step of a thread is one of these.                                   *)
LEMMA ThreadGrid ==
    ASSUME TypeOK, NEW t \in Thread, ThreadStep(t)
    PROVE  \E p : /\ GridStep(t, AgentOf(t), p)
                  /\ \/ Moves(t, AgentOf(t), p) \/ Asks(t, AgentOf(t), p) \/ Releases(t, p)
                     \/ Pauses(t, AgentOf(t), p) \/ Claims(t, AgentOf(t), p)
                     \/ Starts(t, AgentOf(t), p)
<1> DEFINE a == AgentOf(t)
           Step(p) == /\ GridStep(t, a, p)
                      /\ \/ Moves(t, a, p) \/ Asks(t, a, p) \/ Releases(t, p)
                         \/ Pauses(t, a, p) \/ Claims(t, a, p) \/ Starts(t, a, p)
<1> USE DEF WakePcs, RestPcs, ReqPcs, HolderPcs
<1>0. /\ PcType /\ a \in Agent /\ states \in [Agent -> States]
      /\ Kind(t) \in {"life", "sweep", "fix", "wave", "plain", "over", "duty"}
  BY ThreadShape, AgentOfType DEF TypeOK, GridType
<1>s. /\ \A s : Set(a, s) => states'[a] = s /\ \A b \in Agent : b # a => states'[b] = states[b]
      /\ UNCHANGED states => \A b \in Agent : states'[b] = states[b]
  BY <1>0 DEF Set
<1>k. /\ pc[t] \in WakePcs => Kind(t) \in {"life", "duty"}
      /\ pc[t] \in RestPcs => Kind(t) \in {"life", "sweep", "fix", "wave", "duty"}
      /\ pc[t] \in ReqPcs => Kind(t) \in {"life", "wave", "duty", "plain", "over"}
      /\ pc[t] \in {"claim", "claimed"} => Kind(t) \in {"life", "sweep"}
      /\ pc[t] \in {"restQ", "createQ", "create"} => Kind(t) = "fix"
      /\ pc[t] = "first" => Kind(t) \in {"life", "wave"}
      /\ pc[t] = "check" => Kind(t) = "wave"
      /\ pc[t] = "pause" => Kind(t) \in {"wave", "duty"}
      /\ pc[t] = "start" => Kind(t) = "life"
  BY <1>0, PcKind
<1> HIDE DEF a, Step
<1>1. CASE wakeRPC(t)
  <2>1. PICK o \in ResumeOutcomes(ate[a]) : Goto(t, o[1])
    BY <1>1 DEF wakeRPC, a
  <2>2. o[1] \in {"woke", "wakeErr", "wakeBad"}
    BY <1>0, RPCOutcomes DEF TypeOK, RestType
  <2>3. Step(o[1])
    BY <1>0, <1>1, <1>k, <1>s, <2>1, <2>2 DEF wakeRPC, Step, GridStep, Moves
  <2> QED
    BY <2>3 DEF Step, a
<1>2. CASE restRPC(t)
  <2>1. PICK o \in RestOutcomes(ate[a]) : Goto(t, o[1])
    BY <1>2 DEF restRPC, a
  <2>2. o[1] \in {"restOk", "restErr", "restBad"}
    BY <1>0, RPCOutcomes DEF TypeOK, RestType
  <2>3. Step(o[1])
    BY <1>0, <1>2, <1>k, <1>s, <2>1, <2>2 DEF restRPC, Step, GridStep, Moves, grid
  <2> QED
    BY <2>3 DEF Step, a
<1>3. CASE waitNotBusy(t)
  <2>1. Step("call")
    BY <1>0, <1>3, <1>k, <1>s DEF waitNotBusy, Step, GridStep, Moves, grid
  <2> QED
    BY <2>1 DEF Step, a
<1>4. CASE AcquireSem(t)
  <2>1. PICK p \in {"wait", "call", "create"} :
          /\ Goto(t, p) /\ UNCHANGED <<states, work>>
          /\ (pc[t] = "claimed" /\ p = "wait") \/ pc[t] \in {"restQ", "createQ"}
    BY <1>4 DEF AcquireSem, grid
  <2>2. Step(p)
    BY <1>0, <1>k, <1>s, <2>1 DEF Step, GridStep, Moves
  <2> QED
    BY <2>2 DEF Step, a
<1>5. CASE BackOff(t) \/ SendAgain(t)
  <2>1. PICK p \in {"backoff", "flight"} : Goto(t, p) /\ UNCHANGED <<states, work>> /\ pc[t] \in ReqPcs
    BY <1>5 DEF BackOff, SendAgain, grid
  <2>2. Step(p)
    BY <1>0, <1>k, <1>s, <2>1 DEF Step, GridStep, Moves
  <2> QED
    BY <2>2 DEF Step, a
<1>a. /\ Kind(t) = "wave" => AfterFirst(t) = "check"
      /\ Kind(t) = "life" => AfterFirst(t) = "idle" \/ (AfterFirst(t) = "claim" /\ ~burst.args.hold)
  BY DEF AfterFirst
<1>6. CASE FirstJoke(t)
  <2>0. pc[t] = "first" /\ Kind(t) \in {"life", "wave"} /\ UNCHANGED work
    BY <1>6, <1>k DEF FirstJoke
  <2>1. CASE Goto(t, AfterFirst(t)) /\ UNCHANGED states
    <3>1. Step(AfterFirst(t))
      BY <1>0, <1>a, <1>s, <2>0, <2>1 DEF Step, GridStep, Moves
    <3> QED
      BY <3>1 DEF Step, a
  <2>2. CASE states[a] = "Running" /\ Set(a, "Requesting") /\ Goto(t, "flight")
    <3>1. Step("flight")
      BY <1>0, <1>s, <2>0, <2>2 DEF Step, GridStep, Asks
    <3> QED
      BY <3>1 DEF Step, a
  <2> QED
    BY <1>6, <2>1, <2>2 DEF FirstJoke, BeginRequest, a
<1>7. CASE FirstJokeDone(t)
  <2>1. /\ pc[t] = "flight" /\ Kind(t) \in {"life", "wave"} /\ UNCHANGED work /\ Goto(t, AfterFirst(t))
        /\ BackToRunning(a)
    BY <1>7 DEF FirstJokeDone, EndRequest, a
  <2>2. Step(AfterFirst(t))
    <3>1. CASE states[a] = "Requesting"
      BY <1>0, <1>a, <1>s, <2>1, <3>1 DEF Step, GridStep, Asks, BackToRunning
    <3>2. CASE states[a] # "Requesting"
      BY <1>0, <1>a, <1>s, <2>1, <3>2 DEF Step, GridStep, Moves, BackToRunning
    <3> QED
      BY <3>1, <3>2
  <2> QED
    BY <2>2 DEF Step, a
<1>8. CASE trafficDone(t)
  <2>1. /\ pc[t] = "flight" /\ Kind(t) \in {"plain", "over"} /\ UNCHANGED work /\ Goto(t, "idle")
        /\ \/ states[a] = "Requesting" /\ Set(a, "Running")
           \/ Set(a, states[a])
    BY <1>8 DEF trafficDone, EndRequest, a
  <2>2. Step("idle")
    BY <1>0, <1>s, <2>1 DEF Step, GridStep, Asks, Moves
  <2> QED
    BY <2>2 DEF Step, a
<1>9. CASE WaveCheck(t)
  <2>1. PICK p \in {"pause", "idle"} : Goto(t, p) /\ UNCHANGED <<states, work>> /\ pc[t] = "check"
    BY <1>9 DEF WaveCheck, grid
  <2>2. Step(p)
    BY <1>0, <1>k, <1>s, <2>1 DEF Step, GridStep, Moves
  <2> QED
    BY <2>2 DEF Step, a
<1>10. CASE dutyPauseClaim(t)
  <2>0. pc[t] = "pause" /\ Kind(t) \in {"wave", "duty"} /\ UNCHANGED work
    BY <1>10, <1>k DEF dutyPauseClaim
  <2>1. CASE phase = "running" /\ states[a] = "Running" /\ Goto(t, "wait") /\ Set(a, "Suspending")
    <3>1. Step("wait")
      BY <1>0, <1>s, <2>0, <2>1 DEF Step, GridStep, Pauses
    <3> QED
      BY <3>1 DEF Step, a
  <2>2. CASE Goto(t, PauseReturn(t)) /\ UNCHANGED states
    <3>1. Step(PauseReturn(t))
      BY <1>0, <1>s, <2>0, <2>2 DEF Step, GridStep, Moves, PauseReturn
    <3> QED
      BY <3>1 DEF Step, a
  <2> QED
    BY <1>10, <2>1, <2>2 DEF dutyPauseClaim, StillDuty, a
<1>11. CASE dutyPauseLand(t)
  <2>1. /\ \A b \in Agent : b # a => states'[b] = states[b]
    BY <1>11, <1>s DEF dutyPauseLand, markBroken, grid, a
  <2>2. Step(PauseReturn(t))
    BY <1>0, <1>11, <2>1 DEF dutyPauseLand, Step, GridStep, Releases, PauseReturn
  <2> QED
    BY <2>2 DEF Step, a
<1>12. CASE suspendClaim(t)
  <2>0. pc[t] = "claim" /\ Kind(t) \in {"life", "sweep"} /\ UNCHANGED work
    BY <1>12, <1>k DEF suspendClaim
  <2>1. CASE states[a] \in {"Running", "Requesting", "Waking"} /\ Goto(t, "claimed") /\ Set(a, "Suspending")
    <3>1. Step("claimed")
      BY <1>0, <1>s, <2>0, <2>1 DEF Step, GridStep, Claims
    <3> QED
      BY <3>1 DEF Step, a
  <2>2. CASE Goto(t, "idle") /\ UNCHANGED states
    <3>1. Step("idle")
      BY <1>0, <1>s, <2>0, <2>2 DEF Step, GridStep, Moves
    <3> QED
      BY <3>1 DEF Step, a
  <2> QED
    BY <1>12, <2>1, <2>2 DEF suspendClaim, a
<1>13. CASE suspendLand(t)
  <2>1. /\ \A b \in Agent : b # a => states'[b] = states[b]
    BY <1>13, <1>s DEF suspendLand, markBroken, a
  <2>2. Step("idle")
    BY <1>0, <1>13, <2>1 DEF suspendLand, Step, GridStep, Releases
  <2> QED
    BY <2>2 DEF Step, a
<1>14. CASE recreate(t) \/ fixLand(t)
  <2>1. /\ \A b \in Agent : b # a => states'[b] = states[b]
    BY <1>14, <1>s DEF recreate, fixLand, markBroken, grid, a
  <2>2. Step("idle")
    BY <1>0, <1>14, <2>1 DEF recreate, fixLand, Step, GridStep, Releases
  <2> QED
    BY <2>2 DEF Step, a
<1>15. CASE LifeStart(t)
  <2>1. Step("resume")
    BY <1>0, <1>15, <1>k, <1>s DEF LifeStart, Step, GridStep, Starts, a
  <2> QED
    BY <2>1 DEF Step, a
<1>16. CASE LifeLand(t)
  <2>1. \A b \in Agent : b # a => states'[b] = states[b]
    BY <1>16, <1>s DEF LifeLand, a
  <2>2. PICK p \in {"idle", "first"} : Goto(t, p)
    BY <1>16 DEF LifeLand
  <2>3. Step(p)
    BY <1>0, <1>16, <2>1, <2>2 DEF LifeLand, Step, GridStep, Releases
  <2> QED
    BY <2>3 DEF Step, a
<1> QED
  BY <1>1, <1>2, <1>3, <1>4, <1>5, <1>6, <1>7, <1>8, <1>9, <1>10, <1>11, <1>12, <1>13, <1>14,
     <1>15, <1>16 DEF ThreadStep

(* Only some kinds of threads hold an agent; the threads of an operation are  *)
(* at rest outside its phase, and those of the duty cycle while it is quiet.  *)
LEMMA Unheld ==
    ASSUME TypeOK, DutyInv, SweepInv, FixInv
    PROVE  /\ \A t \in Thread : pc[t] \in HolderPcs => Kind(t) \in {"life", "sweep", "fix", "wave", "duty"}
           /\ \A t \in Thread : Kind(t) = "life" /\ pc[t] \in HolderPcs => ctl.pc = "join"
           /\ \A t \in Thread : Kind(t) = "sweep" /\ pc[t] \in HolderPcs => ctl.pc \in {"drain", "passes"}
           /\ \A t \in Thread : Kind(t) = "fix" /\ pc[t] \in HolderPcs => ctl.pc \in {"relist", "final", "verify"}
           /\ Quiet => \A t \in Thread : Kind(t) \in {"wave", "duty"} => pc[t] \notin HolderPcs
<1>1. \A t \in Thread : pc[t] \in HolderPcs => pc[t] # "idle" /\ Kind(t) \in {"life", "sweep", "fix", "wave", "duty"}
  BY PcKind DEF HolderPcs, RestPcs, WakePcs, TypeOK
<1>2. ASSUME Quiet, NEW t \in Thread, Kind(t) \in {"wave", "duty"} PROVE pc[t] \notin HolderPcs
  <2>1. Counted = {} /\ Pausing = {}
    BY <1>2 DEF DutyInv, QuietInv
  <2>2. pc[t] \notin RestPcs
    BY <1>2, <2>1 DEF Pausing
  <2>3. pc[t] \notin WakePcs
    <3>1. CASE Kind(t) = "wave"
      BY <3>1, PcKind DEF TypeOK
    <3>2. CASE Kind(t) = "duty"
      BY <2>1, <3>2, ThreadShape DEF DutyInv, ClaimInv, Counted
    <3> QED
      BY <1>2, <3>1, <3>2
  <2>4. pc[t] \notin {"claimed", "create"}
    BY <1>2, PcKind DEF TypeOK
  <2> QED
    BY <2>2, <2>3, <2>4 DEF HolderPcs
<1> QED
  BY <1>1, <1>2 DEF DutyInv, LifeInv, SweepInv, FixInv

(* Two threads that wake or rest for a burst, a sweep or a preflight and      *)
(* handle one agent are of different kinds.                                  *)
LEMMA OneOfAKind ==
    ASSUME NEW t \in Thread, NEW u \in Thread, t # u, Kind(t) = Kind(u),
           Kind(t) \in {"life", "sweep", "fix"}
    PROVE  AgentOf(t) # AgentOf(u)
BY DEF Thread, Kind, AgentOf

(* The locks hold after a step that moves one thread and touches one agent,   *)
(* if the thread takes the agent alone and nobody else holds what it changes. *)
LEMMA LockKeeps ==
    ASSUME TypeOK, LockInv, ApartInv, NEW t \in Thread, NEW a \in Agent,
           \A u \in Thread : u # t => pc'[u] = pc[u] /\ AgentOf(u)' = AgentOf(u),
           \A b \in Agent : b # a => states'[b] = states[b],
           AgentOf(t)' = a,
           pc'[t] \in HolderPcs =>
              \/ pc[t] \in HolderPcs /\ AgentOf(t) = a
              \/ \A u \in Thread : u # t /\ pc[u] \in HolderPcs => AgentOf(u) # a,
           \/ states'[a] = states[a]
           \/ \A u \in Thread : u # t /\ Kind(u) # "fix" /\ pc[u] \in HolderPcs => AgentOf(u) # a,
           Kind(t) # "fix" => /\ pc'[t] \in WakePcs => states'[a] = "Waking"
                              /\ pc'[t] \in RestPcs \cup {"claimed"} => states'[a] = "Suspending"
    PROVE  LockInv' /\ ApartInv'
<1>1. ApartInv'
  BY DEF ApartInv
<1>2. LockInv'
  <2> SUFFICES ASSUME NEW u \in Thread, Kind(u) # "fix" PROVE Holds(u)'
    BY DEF LockInv
  <2>1. CASE u = t
    BY <2>1 DEF Holds
  <2>2. CASE u # t
    <3>1. Holds(u) /\ AgentOf(u) \in Agent
      BY AgentOfType DEF LockInv, TypeOK
    <3>2. pc[u] \in WakePcs \cup RestPcs \cup {"claimed"} => states'[AgentOf(u)] = states[AgentOf(u)]
      BY <2>2, <3>1 DEF HolderPcs
    <3> QED
      BY <2>2, <3>1, <3>2 DEF Holds
  <2> QED
    BY <2>1, <2>2
<1> QED
  BY <1>1, <1>2

(* A step that moves no thread to an operation and changes no held agent.     *)
LEMMA LockFrame ==
    ASSUME TypeOK, LockInv, ApartInv,
           \A u \in Thread : pc'[u] \in HolderPcs => pc'[u] = pc[u] /\ AgentOf(u)' = AgentOf(u),
           \A u \in Thread : Kind(u) # "fix" /\ pc[u] \in HolderPcs /\ pc'[u] \in HolderPcs
                               => states'[AgentOf(u)] = states[AgentOf(u)]
    PROVE  LockInv' /\ ApartInv'
<1>1. ApartInv'
  BY DEF ApartInv
<1>2. LockInv'
  BY DEF LockInv, Holds, HolderPcs
<1> QED
  BY <1>1, <1>2

(* A thread's step keeps the locks.                                          *)
LEMMA LockThreadStep ==
    ASSUME TypeOK, DutyInv, JoinInv, HoldInv, SweepInv, FixInv, LockInv, ApartInv,
           NEW t \in Thread, ThreadStep(t)
    PROVE  LockInv' /\ ApartInv'
<1> DEFINE a == AgentOf(t)
<1>0. a \in Agent /\ PcType
  BY AgentOfType DEF TypeOK
<1>1. PICK p : /\ GridStep(t, a, p)
               /\ \/ Moves(t, a, p) \/ Asks(t, a, p) \/ Releases(t, p)
                  \/ Pauses(t, a, p) \/ Claims(t, a, p) \/ Starts(t, a, p)
  BY ThreadGrid
<1>2. /\ pc'[t] = p /\ \A u \in Thread : u # t => pc'[u] = pc[u]
      /\ \A u \in Thread : AgentOf(u)' = AgentOf(u)
      /\ \A b \in Agent : b # a => states'[b] = states[b]
  BY <1>0, <1>1 DEF GridStep, Goto, PcType, AgentOf
<1>3. AgentOf(t)' = a
  BY <1>2
<1>5. ASSUME NEW u \in Thread, u # t, Kind(u) # "fix", pc[u] \in HolderPcs, AgentOf(u) = a
      PROVE  states[a] \in {"Waking", "Suspending"} /\ Kind(u) \in {"life", "sweep", "wave", "duty"}
  <2>1. Kind(u) \in {"life", "sweep", "wave", "duty"} /\ Holds(u)
    BY <1>5, Unheld DEF LockInv
  <2>2. pc[u] # "create"
    BY <1>0, <1>5, PcKind
  <2> QED
    BY <1>5, <2>1, <2>2 DEF Holds, HolderPcs
<1> HIDE DEF a
<1>6. CASE Moves(t, a, p)
  <2>1. CASE Kind(t) # "fix"
    <3>1. p \in HolderPcs => pc[t] \in HolderPcs
      BY <1>6, <2>1 DEF Moves, HolderPcs
    <3>2. /\ p \in WakePcs => states'[a] = "Waking"
          /\ p \in RestPcs \cup {"claimed"} => states'[a] = "Suspending"
      BY <1>6, <2>1 DEF Moves, LockInv, Holds, a
    <3>3. states'[a] = states[a]
      BY <1>6 DEF Moves
    <3> QED
      BY <1>0, <1>2, <1>3, <3>1, <3>2, <3>3, LockKeeps DEF a
  <2>2. CASE Kind(t) = "fix"
    <3>1. ctl.pc \in {"relist", "final", "verify"}
      BY <1>6, <2>2 DEF Moves, FixInv
    <3>2. Quiet
      BY <3>1 DEF DutyInv, ControlInv, PreflightPcs, Quiet
    <3>3. \A u \in Thread : u # t /\ pc[u] \in HolderPcs => Kind(u) = "fix"
      BY <3>1, <3>2, Unheld
    <3>4. \A u \in Thread : u # t /\ pc[u] \in HolderPcs => AgentOf(u) # a
      BY <2>2, <3>3, OneOfAKind DEF a
    <3>5. states'[a] = states[a]
      BY <1>6 DEF Moves
    <3> QED
      BY <1>0, <1>2, <1>3, <2>2, <3>4, <3>5, LockKeeps
  <2> QED
    BY <2>1, <2>2
<1>7. CASE Asks(t, a, p)
  <2>1. states[a] \in {"Running", "Requesting"} /\ p \notin HolderPcs
    BY <1>7 DEF Asks
  <2>2. \A u \in Thread : u # t /\ Kind(u) # "fix" /\ pc[u] \in HolderPcs => AgentOf(u) # a
    BY <1>5, <2>1
  <2> QED
    BY <1>0, <1>2, <1>3, <2>1, <2>2, LockKeeps DEF HolderPcs
<1>8. CASE Releases(t, p)
  <2>1. p \notin HolderPcs /\ pc[t] \in HolderPcs
    BY <1>8 DEF Releases
  <2>2. \A u \in Thread : u # t /\ Kind(u) # "fix" /\ pc[u] \in HolderPcs => AgentOf(u) # a
    BY <2>1 DEF ApartInv, a
  <2> QED
    BY <1>0, <1>2, <1>3, <2>1, <2>2, LockKeeps DEF HolderPcs
<1>9. ASSUME \A u \in Thread : u # t /\ pc[u] \in HolderPcs => AgentOf(u) # a,
             \/ p \in RestPcs \cup {"claimed"} /\ states'[a] = "Suspending"
             \/ p \in WakePcs /\ states'[a] = "Waking"
      PROVE  LockInv' /\ ApartInv'
  <2>1. /\ p \in WakePcs => states'[a] = "Waking"
        /\ p \in RestPcs \cup {"claimed"} => states'[a] = "Suspending"
    BY <1>9 DEF WakePcs, RestPcs
  <2> QED
    BY <1>0, <1>2, <1>3, <1>9, <2>1, LockKeeps
<1>10. CASE Pauses(t, a, p)
  <2>1. ctl.pc \notin {"relist", "final", "verify"}
    BY <1>10 DEF Pauses, DutyInv, ControlInv, PreflightPcs, SuspendPcs
  <2>2. \A u \in Thread : u # t /\ pc[u] \in HolderPcs => AgentOf(u) # a
    BY <1>5, <1>10, <2>1, Unheld DEF Pauses
  <2> QED
    BY <1>9, <1>10, <2>2 DEF Pauses, RestPcs
<1>11. CASE Claims(t, a, p)
  <2>1. CASE Kind(t) = "life"
    <3>1. ctl.pc = "join" /\ ~burst.args.hold
      BY <1>11, <2>1 DEF Claims, DutyInv, LifeInv, HoldInv
    <3>2. Quiet
      BY <3>1 DEF DutyInv, ControlInv, Quiet
    <3>3. \A u \in Thread : u # t /\ pc[u] \in HolderPcs => Kind(u) = "life"
      BY <3>1, <3>2, Unheld
    <3>4. \A u \in Thread : u # t /\ pc[u] \in HolderPcs => AgentOf(u) # a
      BY <2>1, <3>3, OneOfAKind DEF a
    <3> QED
      BY <1>9, <1>11, <3>4 DEF Claims
  <2>2. CASE Kind(t) = "sweep"
    <3>1. /\ ctl.pc \in {"drain", "passes"}
          /\ ctl.pc = "drain" => states[a] \in {"Running", "Requesting"}
      <4>1. a = t[2]
        BY <2>2 DEF a, AgentOf
      <4> QED
        BY <1>11, <2>2, <4>1 DEF Claims, SweepInv
    <3>2. ASSUME NEW u \in Thread, u # t, pc[u] \in HolderPcs, AgentOf(u) = a PROVE FALSE
      <4>1. Kind(u) \in {"sweep", "wave", "duty"}
        BY <3>1, <3>2, Unheld
      <4>2. CASE Kind(u) = "sweep"
        BY <2>2, <3>2, <4>2, OneOfAKind DEF a
      <4>3. CASE Kind(u) # "sweep" /\ ctl.pc = "drain"
        BY <1>5, <3>1, <3>2, <4>1, <4>3
      <4>4. CASE Kind(u) # "sweep" /\ ctl.pc = "passes"
        BY <3>2, <4>1, <4>4, Unheld DEF Quiet
      <4> QED
        BY <3>1, <4>2, <4>3, <4>4
    <3> QED
      BY <1>9, <1>11, <3>2 DEF Claims
  <2> QED
    BY <1>11, <2>1, <2>2 DEF Claims
<1>12. CASE Starts(t, a, p)
  <2>1. ctl.pc = "join"
    BY <1>12 DEF Starts, DutyInv, LifeInv
  <2>2. t \in Unwoken
    BY <1>12 DEF Starts, Unwoken
  <2>3. phase # "running"
    BY <2>1, <2>2 DEF JoinInv
  <2>4. Quiet
    BY <2>1, <2>3 DEF DutyInv, ControlInv, Quiet
  <2>5. \A u \in Thread : u # t /\ pc[u] \in HolderPcs => Kind(u) = "life"
    BY <2>1, <2>4, Unheld
  <2>6. Kind(t) = "life"
    BY <1>12 DEF Starts
  <2>7. \A u \in Thread : u # t /\ pc[u] \in HolderPcs => AgentOf(u) # a
    BY <2>5, <2>6, OneOfAKind DEF a
  <2> QED
    BY <1>9, <1>12, <2>7 DEF Starts, WakePcs
<1> QED
  BY <1>1, <1>6, <1>7, <1>8, <1>10, <1>11, <1>12

(* Changing what a worker handles changes no other thread's agent.           *)
LEMMA OtherAgents ==
    ASSUME TypeOK, NEW w \in Workers, \A v \in Workers : v # w => work'[v] = work[v]
    PROVE  /\ \A u \in Thread : u # Duty(w) => AgentOf(u)' = AgentOf(u)
           /\ AgentOf(Duty(w))' = work'[w].agent
BY ThreadShape DEF AgentOf, Duty, Kind

(* A worker's own step keeps them.                                           *)
LEMMA LockWorkerStep ==
    ASSUME TypeOK, DutyInv, SweepInv, FixInv, LockInv, ApartInv, NEW w \in Workers, WorkerStep(w)
    PROVE  LockInv' /\ ApartInv'
<1> DEFINE t == Duty(w)
<1>0. t \in Thread /\ Kind(t) = "duty" /\ t[2] = w /\ AgentOf(t) \in Agent /\ AgentOf(t) = work[w].agent
  BY DutyThread, AgentOfType DEF TypeOK, AgentOf
<1>1. /\ \A u \in Thread : u # t => pc'[u] = pc[u]
      /\ \A p : Goto(t, p) => pc'[t] = p
  BY <1>0, WorkerMoves DEF Goto, TypeOK, PcType
<1>2. /\ states \in [Agent -> States]
      /\ work \in [Workers -> [agent : Agent, b : 0..MaxBursts, counted : BOOLEAN]]
  BY DEF TypeOK, GridType, WorkType
<1>3. /\ \A a \in Agent : \A s : Set(a, s) => states'[a] = s /\ \A b \in Agent : b # a => states'[b] = states[b]
      /\ UNCHANGED states => \A b \in Agent : states'[b] = states[b]
  BY <1>2 DEF Set
<1>4. \A v \in Workers : v # w => work'[v] = work[v]
  BY <1>2 DEF WorkerStep, dutyOverCap, dutyPick, dutyWake, dutyWakeLand, dutyAsk, dutyAskDone, dutyReturn
<1>5. /\ \A u \in Thread : u # t => AgentOf(u)' = AgentOf(u)
      /\ AgentOf(t)' = work'[w].agent
  BY <1>4, OtherAgents
<1>6. \A u \in Thread, b \in Agent :
        Kind(u) # "fix" /\ pc[u] \in HolderPcs /\ AgentOf(u) = b => states[b] \in {"Waking", "Suspending"}
  <2> SUFFICES ASSUME NEW u \in Thread, Kind(u) # "fix", pc[u] \in HolderPcs
               PROVE  states[AgentOf(u)] \in {"Waking", "Suspending"}
    OBVIOUS
  <2>1. Holds(u) /\ pc[u] # "create"
    BY PcKind DEF LockInv, TypeOK
  <2> QED
    BY <2>1 DEF Holds, HolderPcs
<1> HIDE DEF t
<1>7. CASE dutyOverCap(w) \/ dutyPick(w) \/ dutyReturn(w)
  <2>1. pc'[t] \notin HolderPcs /\ UNCHANGED states
    BY <1>1, <1>7 DEF dutyOverCap, dutyPick, dutyReturn, grid, HolderPcs, RestPcs, WakePcs, t
  <2> QED
    BY <1>1, <1>5, <2>1, LockFrame
<1>8. CASE dutyWake(w)
  <2>1. PICK a \in Agent : /\ states[a] = "Suspended" /\ Set(a, "Waking")
                           /\ work' = [work EXCEPT ![w] = [agent |-> a, b |-> cur, counted |-> TRUE]]
    BY <1>8 DEF dutyWake
  <2>2. work'[w].agent = a
    BY <1>2, <2>1
  <2>3. phase = "running" /\ pc'[t] = "resume"
    BY <1>1, <1>8 DEF dutyWake, DutyActive, t
  <2>4. ctl.pc \notin {"relist", "final", "verify"}
    BY <2>3 DEF DutyInv, ControlInv, PreflightPcs, SuspendPcs
  <2>5. \A u \in Thread : u # t /\ pc[u] \in HolderPcs => AgentOf(u) # a
    BY <1>6, <2>1, <2>4, Unheld
  <2>6. AgentOf(t)' = a /\ states'[a] = "Waking" /\ \A b \in Agent : b # a => states'[b] = states[b]
    BY <1>3, <1>5, <2>1, <2>2
  <2>7. pc'[t] \notin RestPcs \cup {"claimed"}
    BY <2>3 DEF RestPcs
  <2> QED
    BY <1>0, <1>1, <1>5, <2>5, <2>6, <2>7, LockKeeps
<1>9. CASE dutyWakeLand(w)
  <2>1. pc[t] \in HolderPcs /\ pc'[t] \notin HolderPcs /\ work' = work
    BY <1>1, <1>9 DEF dutyWakeLand, HolderPcs, RestPcs, WakePcs, t
  <2>2. \A b \in Agent : b # AgentOf(t) => states'[b] = states[b]
    BY <1>0, <1>3, <1>9 DEF dutyWakeLand, markBroken, grid, t
  <2>3. \A u \in Thread : u # t /\ Kind(u) # "fix" /\ pc[u] \in HolderPcs => AgentOf(u) # AgentOf(t)
    BY <1>0, <2>1 DEF ApartInv
  <2>4. AgentOf(t)' = AgentOf(t)
    BY <1>0, <1>5, <2>1
  <2> QED
    BY <1>0, <1>1, <1>5, <2>1, <2>2, <2>3, <2>4, LockKeeps DEF HolderPcs
<1>10. CASE dutyAsk(w) \/ dutyAskDone(w)
  <2>1. pc'[t] \notin HolderPcs /\ work' = work
    BY <1>1, <1>10 DEF dutyAsk, dutyAskDone, BeginRequest, HolderPcs, RestPcs, WakePcs, t
  <2>2. /\ \A b \in Agent : b # AgentOf(t) => states'[b] = states[b]
        /\ states'[AgentOf(t)] = states[AgentOf(t)] \/ states[AgentOf(t)] \in {"Running", "Requesting"}
    BY <1>0, <1>3, <1>10 DEF dutyAsk, dutyAskDone, BackToRunning, t
  <2>3. \/ states'[AgentOf(t)] = states[AgentOf(t)]
        \/ \A u \in Thread : u # t /\ Kind(u) # "fix" /\ pc[u] \in HolderPcs => AgentOf(u) # AgentOf(t)
    BY <1>0, <1>6, <2>2
  <2>4. AgentOf(t)' = AgentOf(t)
    BY <1>0, <1>5, <2>1
  <2> QED
    BY <1>0, <1>1, <1>5, <2>1, <2>2, <2>3, <2>4, LockKeeps DEF HolderPcs
<1> QED
  BY <1>7, <1>8, <1>9, <1>10 DEF WorkerStep

(* So does steady traffic.                                                   *)
LEMMA LockTrafficStep ==
    ASSUME TypeOK, LockInv, ApartInv, trafficLoop \/ pickIdle
    PROVE  LockInv' /\ ApartInv'
<1>1. \A u \in Thread : AgentOf(u)' = AgentOf(u)
  BY TrafficMoves DEF AgentOf
<1>2. \A u \in Thread : pc'[u] \in HolderPcs => pc'[u] = pc[u]
  <2>1. \A u \in Thread : Kind(u) \notin {"plain", "over"} => pc'[u] = pc[u]
    BY TrafficMoves
  <2>2. \A u \in Thread : pc'[u] = pc[u] \/ pc'[u] = "flight"
    <3>1. CASE trafficLoop
      BY <3>1 DEF trafficLoop, thr
    <3>2. CASE pickIdle
      BY <3>2 DEF pickIdle, BeginRequest, Goto, TypeOK, PcType
    <3> QED
      BY <3>1, <3>2
  <2> QED
    BY <2>2 DEF HolderPcs, RestPcs, WakePcs
<1>3. \A b \in Agent : states'[b] = states[b] \/ states[b] \in {"Running", "Requesting"}
  <2>1. CASE trafficLoop
    BY <2>1 DEF trafficLoop, grid
  <2>2. CASE pickIdle /\ Pickable = {}
    BY <2>2 DEF pickIdle
  <2>3. CASE pickIdle /\ Pickable # {}
    BY <2>3 DEF pickIdle, Pickable, Eligible, Set, TypeOK, GridType
  <2> QED
    BY <2>1, <2>2, <2>3
<1>4. ASSUME NEW u \in Thread, Kind(u) # "fix", pc[u] \in HolderPcs
      PROVE  states'[AgentOf(u)] = states[AgentOf(u)]
  <2>1. Holds(u) /\ pc[u] # "create" /\ AgentOf(u) \in Agent
    BY <1>4, PcKind, AgentOfType DEF LockInv, TypeOK
  <2>2. states[AgentOf(u)] \in {"Waking", "Suspending"}
    BY <1>4, <2>1 DEF Holds, HolderPcs
  <2> QED
    BY <1>3, <2>1, <2>2
<1> QED
  BY <1>1, <1>2, <1>4, LockFrame

(* The steps of an operation and of the operator hold the locks: they start   *)
(* threads before their first RPC, and redraw the grid only when no agent is  *)
(* held.                                                                     *)
LEMMA LockControlStep ==
    ASSUME TypeOK, DutyInv, SweepInv, FixInv, LockInv, ApartInv, Control
    PROVE  LockInv' /\ ApartInv'
<1>1. \A u \in Thread : AgentOf(u)' = AgentOf(u)
  BY ControlMoves DEF AgentOf
<1>2. \A u \in Thread : pc'[u] = pc[u] \/ pc'[u] \in {"restQ", "createQ", "start", "claim"}
  BY DEF Control, PreflightList, PreflightRelist, PreflightCreate, PreflightFinal, PreflightApply,
         BurstDecide, BurstGo, BurstEnd, SuspendPass1, SuspendDrain, SuspendPasses, VerifyList,
         VerifyDecide, Spawn, thr
<1>3. \A u \in Thread : pc'[u] \in HolderPcs => pc'[u] = pc[u]
  BY <1>2 DEF HolderPcs, RestPcs, WakePcs
<1>4. UNCHANGED states \/ ctl.pc \in {"apply", "judge"}
  BY DEF Control, PreflightList, PreflightRelist, PreflightCreate, PreflightFinal, PreflightApply,
         BurstDecide, BurstGo, BurstEnd, SuspendPass1, SuspendDrain, SuspendPasses, VerifyList,
         VerifyDecide, grid
<1>5. ctl.pc \in {"apply", "judge"} => \A u \in Thread : Kind(u) # "fix" => pc[u] \notin HolderPcs
  <2> SUFFICES ASSUME ctl.pc \in {"apply", "judge"}, NEW u \in Thread, Kind(u) # "fix"
               PROVE  pc[u] \notin HolderPcs
    OBVIOUS
  <2>1. Quiet
    BY DEF Quiet, DutyInv, ControlInv, PreflightPcs
  <2> QED
    BY <2>1, Unheld
<1> QED
  BY <1>1, <1>3, <1>4, <1>5, LockFrame

LEMMA LockOperatorStep ==
    ASSUME TypeOK, LockInv, ApartInv, Operator
    PROVE  LockInv' /\ ApartInv'
<1>1. UNCHANGED <<work, states>>
  BY DEF Operator, startBurst, startReconcile, simulateTraffic, setStrategy, startSuspendAll,
         setTraffic, SetRateAndCycle, grid, thr
<1>2. \A u \in Thread : pc'[u] = pc[u] \/ pc'[u] \in {"first", "check"}
  BY OperatorMoves DEF startBurst, startReconcile, startSuspendAll, RateMoves, thr
<1>3. \A u \in Thread : pc'[u] \in HolderPcs => pc'[u] = pc[u]
  BY <1>2 DEF HolderPcs, RestPcs, WakePcs
<1>4. \A u \in Thread : AgentOf(u)' = AgentOf(u)
  BY <1>1 DEF AgentOf
<1> QED
  BY <1>1, <1>3, <1>4, LockFrame

(* Every step keeps the locks.                                               *)
LEMMA LockStep ==
    ASSUME TypeOK, DutyInv, JoinInv, HoldInv, SweepInv, FixInv, LockInv, ApartInv, [Next]_vars
    PROVE  LockInv' /\ ApartInv'
<1>1. CASE Restart
  <2>1. \A u \in Thread : pc'[u] \notin HolderPcs
    BY <1>1, RestartMoves DEF HolderPcs, RestPcs, WakePcs
  <2> QED
    BY <2>1, LockFrame
<1>2. CASE UNCHANGED vars \/ \E a \in Agent : AteLands(a) \/ AteCrashes(a)
  <2>1. UNCHANGED <<work, states, pc>>
    BY <1>2 DEF vars, grid, thr, AteLands, AteCrashes
  <2>2. \A u \in Thread : AgentOf(u)' = AgentOf(u)
    BY <2>1 DEF AgentOf
  <2> QED
    BY <2>1, <2>2, LockFrame
<1> QED
  BY <1>1, <1>2, LockThreadStep, LockWorkerStep, LockTrafficStep, LockControlStep, LockOperatorStep
     DEF Next, Outside

(***************************************************************************)
(* What the locks rest on: the threads of an operation.                    *)
(***************************************************************************)

(* Starting threads of one kind leaves the others where they are.            *)
LEMMA SpawnKeeps ==
    ASSUME NEW S, NEW p
    PROVE  /\ Spawn({Life(a) : a \in S}, p) => \A t \in Thread : Kind(t) # "life" => pc'[t] = pc[t]
           /\ Spawn({Sweep(a) : a \in S}, p) => \A t \in Thread : Kind(t) # "sweep" => pc'[t] = pc[t]
           /\ Spawn({Fix(a) : a \in S}, p) => \A t \in Thread : Kind(t) # "fix" => pc'[t] = pc[t]
BY DEF Spawn, Life, Sweep, Fix, Kind

(* preflight and verifyAtRest wait for the RPCs they start.                  *)
LEMMA FixInvStep ==
    ASSUME TypeOK, CourseInv, FixInv, [Next]_vars
    PROVE  FixInv'
<1>0. ctl \in CtlType
  BY DEF TypeOK, OpType, CtlType
<1>1. ASSUME UNCHANGED ctl, \A t \in Thread : Kind(t) = "fix" /\ pc'[t] # "idle" => pc[t] # "idle"
      PROVE  FixInv'
  BY <1>1 DEF FixInv
<1>2. ASSUME NEW t \in Thread, ThreadStep(t) PROVE FixInv'
  <2>1. PICK p : Goto(t, p)
    BY <1>2, ThreadMoves
  <2>2. UNCHANGED ctl /\ pc[t] # "idle" /\ \A l \in Thread : l # t => pc'[l] = pc[l]
    BY <1>2, <2>1, ThreadMoves DEF Goto, TypeOK, PcType
  <2> QED
    BY <1>1, <2>2
<1>3. ASSUME NEW w \in Workers, WorkerStep(w) PROVE FixInv'
  BY <1>1, <1>3, WorkerMoves, DutyThread DEF op
<1>4. CASE trafficLoop \/ pickIdle
  BY <1>1, <1>4, TrafficMoves DEF op
<1>5. CASE Control
  <2>1. CASE PreflightList \/ PreflightCreate
    <3>1. CASE ctl'.pc \in {"relist", "final"}
      BY <3>1 DEF FixInv
    <3>2. CASE ctl'.pc \notin {"relist", "final"}
      <4>1. ctl.pc \in {"list", "atRest"} /\ UNCHANGED pc
        <5>1. CASE PreflightList
          <6>1. CASE ListFails /\ PreflightDone /\ UNCHANGED pc
            BY <5>1, <6>1 DEF PreflightList
          <6>2. CASE /\ Spawn({Fix(a) : a \in NotAtRest(ate)}, "restQ")
                     /\ AteList(IF NotAtRest(ate) = {} THEN "atRest" ELSE "relist")
            <7>1. NotAtRest(ate) = {}
              BY <1>0, <3>2, <6>2 DEF AteList, CtlType
            <7>2. \A u \in Thread : pc'[u] = pc[u]
              BY <6>2, <7>1 DEF Spawn
            <7>3. pc' = [u \in Thread |-> pc[u]] /\ pc \in [Thread -> Pcs]
              BY <6>2, <7>1 DEF Spawn, TypeOK, PcType
            <7> QED
              BY <5>1, <7>3 DEF PreflightList
          <6> QED
            BY <5>1, <6>1, <6>2 DEF PreflightList
        <5>2. CASE PreflightCreate
          <6> DEFINE C == {a \in Agent : ctl.list[a] # "SUSPENDED" \/ a \in badSnap}
          <6>1. ctl.pc = "atRest" /\ C = {}
            BY <1>0, <3>2, <5>2 DEF PreflightCreate, Ctl, CtlType
          <6>2. Spawn({Fix(a) : a \in C}, "createQ")
            BY <5>2 DEF PreflightCreate
          <6>3. pc' = [u \in Thread |-> pc[u]] /\ pc \in [Thread -> Pcs]
            BY <6>1, <6>2 DEF Spawn, TypeOK, PcType
          <6> QED
            BY <6>1, <6>3
        <5> QED
          BY <2>1, <5>1, <5>2
      <4> QED
        BY <4>1 DEF FixInv
    <3> QED
      BY <3>1, <3>2
  <2>2. CASE PreflightRelist \/ PreflightFinal \/ VerifyList
    BY <2>2 DEF PreflightRelist, PreflightFinal, VerifyList, Done, All, thr, FixInv
  <2>3. CASE PreflightApply \/ BurstDecide \/ BurstEnd \/ SuspendDrain
    BY <2>3 DEF PreflightApply, BurstDecide, BurstEnd, SuspendDrain, thr, FixInv
  <2>4. CASE BurstGo \/ SuspendPass1 \/ SuspendPasses
    <3>1. \A u \in Thread : Kind(u) = "fix" => pc'[u] = pc[u]
      BY <2>4, SpawnKeeps DEF BurstGo, SuspendPass1, SuspendPasses
    <3>2. ctl.pc \in {"go", "pass1", "passes"}
      BY <2>4 DEF BurstGo, SuspendPass1, SuspendPasses
    <3> QED
      BY <3>1, <3>2 DEF FixInv
  <2>5. CASE VerifyDecide
    <3>1. ctl.pc = "judge" /\ (UNCHANGED pc \/ ctl'.pc = "verify")
      BY <1>0, <2>5 DEF VerifyDecide, CtlType
    <3> QED
      BY <3>1 DEF FixInv
  <2> QED
    BY <1>5, <2>1, <2>2, <2>3, <2>4, <2>5 DEF Control
<1>6. CASE Operator
  <2>1. CASE RateMoves
    BY <1>1, <2>1 DEF RateMoves
  <2>2. CASE (\E args \in BurstArgs : startBurst(args)) \/ startReconcile \/ startSuspendAll
    <3>1. ~busy /\ UNCHANGED pc
      BY <2>2 DEF startBurst, startReconcile, startSuspendAll, thr
    <3>2. ctl.pc = "none"
      BY <3>1 DEF CourseInv, ControlInv
    <3> QED
      BY <3>1, <3>2 DEF FixInv
  <2> QED
    BY <1>6, <2>1, <2>2, OperatorMoves
<1>7. CASE Restart
  BY <1>7, RestartMoves DEF FixInv
<1>8. CASE UNCHANGED vars \/ \E a \in Agent : AteLands(a) \/ AteCrashes(a)
  BY <1>1, <1>8 DEF vars, op, thr, AteLands, AteCrashes
<1> QED
  BY <1>2, <1>3, <1>4, <1>5, <1>6, <1>7, <1>8 DEF Next, Outside

(* What the goroutine of an operation does to the sweeps and to burst's       *)
(* arguments.                                                                *)
LEMMA ControlSweeps ==
    ASSUME TypeOK, Control
    PROVE  /\ \/ \A t \in Thread : Kind(t) = "sweep" => pc'[t] = pc[t]
              \/ SuspendPass1 \/ SuspendPasses
           /\ burst'.args = burst.args \/ BurstGo
<1>0. burst \in BurstType
  BY DEF TypeOK, OpType
<1>1. CASE PreflightList \/ PreflightCreate
  BY <1>1, SpawnKeeps DEF PreflightList, PreflightCreate
<1>2. CASE PreflightRelist \/ PreflightFinal \/ PreflightApply \/ BurstDecide \/ BurstEnd \/ SuspendDrain
  BY <1>2 DEF PreflightRelist, PreflightFinal, PreflightApply, BurstDecide, BurstEnd, SuspendDrain, thr
<1>3. CASE BurstGo
  BY <1>3, SpawnKeeps DEF BurstGo
<1>4. CASE SuspendPass1 \/ SuspendPasses
  BY <1>0, <1>4 DEF SuspendPass1, SuspendPasses, BurstType
<1>5. \A s : SuspendDone(s) => burst'.args = burst.args
  BY <1>0 DEF SuspendDone, BurstType
<1>6. CASE VerifyList
  BY <1>5, <1>6 DEF VerifyList, thr
<1>7. CASE VerifyDecide
  BY <1>5, <1>7, SpawnKeeps DEF VerifyDecide
<1> QED
  BY <1>1, <1>2, <1>3, <1>4, <1>6, <1>7 DEF Control

(* A life rests its agent only in a burst that does not hold.                *)
LEMMA HoldInvStep ==
    ASSUME TypeOK, CourseInv, HoldInv, [Next]_vars
    PROVE  HoldInv'
<1> DEFINE Ends == {"claim", "claimed"} \cup RestPcs
<1>1. ASSUME burst'.args = burst.args,
             \A t \in Thread : Kind(t) = "life" /\ pc'[t] \in Ends => pc[t] \in Ends \/ ~burst.args.hold
      PROVE  HoldInv'
  BY <1>1 DEF HoldInv
<1>2. ASSUME NEW t \in Thread, ThreadStep(t) PROVE HoldInv'
  <2>1. PICK p : /\ GridStep(t, AgentOf(t), p)
                 /\ \/ Moves(t, AgentOf(t), p) \/ Asks(t, AgentOf(t), p) \/ Releases(t, p)
                    \/ Pauses(t, AgentOf(t), p) \/ Claims(t, AgentOf(t), p)
                    \/ Starts(t, AgentOf(t), p)
    BY <1>2, ThreadGrid
  <2>2. burst'.args = burst.args
    BY <1>2, ThreadMoves
  <2>3. pc'[t] = p /\ \A u \in Thread : u # t => pc'[u] = pc[u]
    BY <2>1 DEF GridStep, Goto, TypeOK, PcType
  <2>4. Kind(t) = "life" /\ p \in Ends => pc[t] \in Ends \/ ~burst.args.hold
    BY <2>1 DEF Moves, Asks, Releases, Pauses, Claims, Starts, HolderPcs, RestPcs
  <2> QED
    BY <1>1, <2>2, <2>3, <2>4
<1>3. ASSUME NEW w \in Workers, WorkerStep(w) PROVE HoldInv'
  BY <1>1, <1>3, WorkerMoves, DutyThread DEF op
<1>4. CASE trafficLoop \/ pickIdle
  BY <1>1, <1>4, TrafficMoves DEF op
<1>5. CASE Control
  <2>1. CASE BurstGo
    <3>1. ctl.pc = "go"
      BY <2>1 DEF BurstGo
    <3>2. \A t \in Thread : Kind(t) = "life" => pc[t] = "idle"
      BY <3>1 DEF CourseInv, LifeInv
    <3>3. \A t \in Thread : Kind(t) = "life" => pc'[t] \in {"idle", "start"}
      BY <2>1, <3>2 DEF BurstGo, Spawn
    <3> QED
      BY <3>3 DEF HoldInv, RestPcs
  <2>2. CASE ~BurstGo
    BY <1>1, <1>5, <2>2, ControlMoves, ControlSweeps
  <2> QED
    BY <2>1, <2>2
<1>6. CASE Operator
  <2>1. CASE RateMoves
    BY <1>1, <2>1 DEF RateMoves
  <2>2. CASE (\E args \in BurstArgs : startBurst(args)) \/ startReconcile \/ startSuspendAll
    <3>1. ~busy /\ UNCHANGED pc
      BY <2>2 DEF startBurst, startReconcile, startSuspendAll, thr
    <3>2. \A t \in Thread : Kind(t) = "life" => pc[t] = "idle"
      BY <3>1 DEF CourseInv, ControlInv, LifeInv
    <3> QED
      BY <3>1, <3>2 DEF HoldInv, RestPcs
  <2> QED
    BY <1>6, <2>1, <2>2, OperatorMoves
<1>7. CASE Restart
  BY <1>7, RestartMoves DEF HoldInv, RestPcs
<1>8. CASE UNCHANGED vars \/ \E a \in Agent : AteLands(a) \/ AteCrashes(a)
  BY <1>1, <1>8 DEF vars, op, thr, AteLands, AteCrashes
<1> QED
  BY <1>2, <1>3, <1>4, <1>5, <1>6, <1>7, <1>8 DEF Next, Outside

(* suspend-all's first pass meets no wake of the duty cycle.                  *)
LEMMA SweepInvStep ==
    ASSUME TypeOK, DutyInv, SweepInv, FixInv, LockInv, [Next]_vars
    PROVE  SweepInv'
<1> DEFINE Up == {"Running", "Requesting"}
<1>0. /\ ctl \in CtlType /\ PcType /\ states \in [Agent -> States]
      /\ \A t \in Thread : Kind(t) = "sweep" => t[2] \in Agent /\ AgentOf(t) = t[2]
  BY ThreadShape DEF TypeOK, OpType, CtlType, GridType, AgentOf
<1>1. ASSUME UNCHANGED ctl, \A t \in Thread : Kind(t) = "sweep" => pc'[t] = pc[t],
             ctl.pc = "drain" => \A a \in Agent : states[a] \in Up => states'[a] \in Up
      PROVE  SweepInv'
  BY <1>0, <1>1 DEF SweepInv
<1>2. ASSUME NEW t \in Thread, ThreadStep(t) PROVE SweepInv'
  <2> DEFINE a == AgentOf(t)
  <2>1. PICK p : /\ GridStep(t, a, p)
                 /\ \/ Moves(t, a, p) \/ Asks(t, a, p) \/ Releases(t, p)
                    \/ Pauses(t, a, p) \/ Claims(t, a, p) \/ Starts(t, a, p)
    BY <1>2, ThreadGrid
  <2>2. /\ pc'[t] = p /\ \A u \in Thread : u # t => pc'[u] = pc[u]
        /\ \A b \in Agent : b # a => states'[b] = states[b]
    BY <1>0, <2>1 DEF GridStep, Goto, PcType
  <2>3. UNCHANGED ctl /\ pc[t] # "idle"
    BY <1>2, ThreadMoves
  <2>4. Kind(t) = "sweep" => p # "claim"
    BY <2>1 DEF Moves, Asks, Releases, Pauses, Claims, Starts
  <2>5. ASSUME ctl.pc = "drain", states[a] \in Up, ~(Kind(t) = "sweep" /\ pc[t] = "claim")
        PROVE  states'[a] \in Up
    <3>1. CASE Moves(t, a, p) \/ Asks(t, a, p)
      BY <2>5, <3>1 DEF Moves, Asks
    <3>2. ~Releases(t, p)
      <4>1. Kind(t) # "fix" => pc[t] \notin HolderPcs
        BY <1>0, <2>5, PcKind DEF LockInv, Holds, HolderPcs
      <4>2. Kind(t) = "fix" => FALSE
        BY <2>3, <2>5 DEF FixInv
      <4> QED
        BY <4>1, <4>2 DEF Releases
    <3>3. phase = "suspending"
      BY <2>5 DEF DutyInv, ControlInv, SuspendPcs
    <3>4. ~Pauses(t, a, p) /\ ~Claims(t, a, p) /\ ~Starts(t, a, p)
      BY <2>3, <2>5, <3>3 DEF Pauses, Claims, Starts, DutyInv, LifeInv
    <3> QED
      BY <2>1, <3>1, <3>2, <3>4
  <2>6. ASSUME NEW u \in Thread, Kind(u) = "sweep", pc'[u] # "idle"
        PROVE  /\ ctl.pc \in {"drain", "passes"}
               /\ ctl.pc = "drain" /\ pc'[u] = "claim" => states'[u[2]] \in Up
    <3>1. CASE u = t
      BY <2>2, <2>3, <2>4, <2>6, <3>1 DEF SweepInv
    <3>2. CASE u # t
      <4>1. ~(Kind(t) = "sweep" /\ a = u[2])
        BY <1>0, <2>6, <3>2, OneOfAKind
      <4>2. ctl.pc = "drain" /\ pc[u] = "claim" => states[u[2]] \in Up
        BY <2>2, <2>6, <3>2 DEF SweepInv
      <4> QED
        BY <1>0, <2>2, <2>5, <2>6, <3>2, <4>1, <4>2 DEF SweepInv
    <3> QED
      BY <3>1, <3>2
  <2> QED
    BY <2>3, <2>6 DEF SweepInv
<1>3. ASSUME NEW w \in Workers, WorkerStep(w) PROVE SweepInv'
  <2> DEFINE t == Duty(w)
  <2>1. UNCHANGED ctl /\ \A u \in Thread : Kind(u) = "sweep" => pc'[u] = pc[u]
    BY <1>3, WorkerMoves, DutyThread DEF op
  <2>2. ASSUME ctl.pc = "drain", NEW a \in Agent, states[a] \in Up PROVE states'[a] \in Up
    <3>1. phase = "suspending"
      BY <2>2 DEF DutyInv, ControlInv, SuspendPcs
    <3>2. CASE dutyOverCap(w) \/ dutyPick(w) \/ dutyReturn(w)
      BY <2>2, <3>2 DEF dutyOverCap, dutyPick, dutyReturn, grid
    <3>3. CASE dutyWake(w)
      BY <3>1, <3>3 DEF dutyWake, DutyActive
    <3>4. CASE dutyWakeLand(w)
      <4>1. states[AgentOf(t)] = "Waking"
        BY <3>4, DutyThread DEF dutyWakeLand, LockInv, Holds, WakePcs
      <4>2. a # AgentOf(t)
        BY <2>2, <4>1
      <4> QED
        BY <1>0, <2>2, <3>4, <4>2 DEF dutyWakeLand, markBroken, Set, grid
    <3>5. CASE dutyAsk(w)
      BY <2>2, <3>1, <3>5 DEF dutyAsk, StillDuty
    <3>6. CASE dutyAskDone(w)
      BY <1>0, <2>2, <3>6 DEF dutyAskDone, BackToRunning, Set
    <3> QED
      BY <1>3, <3>2, <3>3, <3>4, <3>5, <3>6 DEF WorkerStep
  <2> QED
    BY <1>1, <2>1, <2>2
<1>4. CASE trafficLoop \/ pickIdle
  <2>1. UNCHANGED ctl /\ \A u \in Thread : Kind(u) = "sweep" => pc'[u] = pc[u]
    BY <1>4, TrafficMoves DEF op
  <2>2. ctl.pc = "drain" => UNCHANGED states
    BY <1>4 DEF trafficLoop, pickIdle, Pickable, grid, DutyInv, ControlInv, SuspendPcs
  <2> QED
    BY <1>1, <2>1, <2>2
<1>5. CASE Control
  <2>1. CASE SuspendPass1
    <3>1. ctl'.pc = "drain" /\ ctl.pc = "pass1" /\ UNCHANGED states
      BY <1>0, <2>1 DEF SuspendPass1, Ctl, CtlType, grid
    <3>2. ASSUME NEW u \in Thread, Kind(u) = "sweep", pc'[u] # "idle" PROVE states[u[2]] \in Up
      <4>1. pc[u] = "idle"
        BY <3>1, <3>2 DEF SweepInv
      <4>2. u \in {Sweep(a) : a \in UpNow(FALSE)}
        BY <2>1, <3>2, <4>1 DEF SuspendPass1, Spawn
      <4> QED
        BY <4>2 DEF Sweep, UpNow
    <3> QED
      BY <3>1, <3>2 DEF SweepInv
  <2>2. CASE SuspendPasses
    <3>1. \/ ctl'.pc = "passes"
          \/ UNCHANGED pc /\ \A u \in Thread : Kind(u) = "sweep" => pc[u] = "idle"
      BY <1>0, <2>2 DEF SuspendPasses, CtlType, Done, All
    <3> QED
      BY <3>1 DEF SweepInv
  <2>3. CASE SuspendDrain
    <3>1. ctl'.pc = "passes"
      BY <1>0, <2>3 DEF SuspendDrain, Ctl, CtlType
    <3> QED
      BY <3>1 DEF SweepInv
  <2>4. CASE ~(SuspendPass1 \/ SuspendPasses \/ SuspendDrain)
    <3>1. ctl.pc \notin {"drain", "passes"}
      BY <1>5, <2>4 DEF Control, PreflightList, PreflightRelist, PreflightCreate, PreflightFinal,
         PreflightApply, BurstDecide, BurstGo, BurstEnd, VerifyList, VerifyDecide
    <3>2. \A u \in Thread : Kind(u) = "sweep" => pc[u] = "idle" /\ pc'[u] = pc[u]
      BY <1>5, <2>4, <3>1, ControlSweeps DEF SweepInv
    <3> QED
      BY <3>2 DEF SweepInv
  <2> QED
    BY <2>1, <2>2, <2>3, <2>4
<1>6. CASE Operator
  <2>0. UNCHANGED states
    BY <1>6 DEF Operator, startBurst, startReconcile, simulateTraffic, setStrategy, startSuspendAll,
       setTraffic, SetRateAndCycle, grid
  <2>1. CASE RateMoves
    BY <1>1, <2>0, <2>1 DEF RateMoves
  <2>2. CASE (\E args \in BurstArgs : startBurst(args)) \/ startReconcile \/ startSuspendAll
    <3>1. ~busy /\ UNCHANGED pc
      BY <2>2 DEF startBurst, startReconcile, startSuspendAll, thr
    <3>2. ctl.pc = "none"
      BY <3>1 DEF DutyInv, ControlInv
    <3> QED
      BY <3>1, <3>2 DEF SweepInv
  <2> QED
    BY <1>6, <2>1, <2>2, OperatorMoves
<1>7. CASE Restart
  BY <1>7, RestartMoves DEF SweepInv
<1>8. CASE UNCHANGED vars \/ \E a \in Agent : AteLands(a) \/ AteCrashes(a)
  BY <1>1, <1>8 DEF vars, op, thr, grid, AteLands, AteCrashes
<1> QED
  BY <1>2, <1>3, <1>4, <1>5, <1>6, <1>7, <1>8 DEF Next, Outside

(* A burst counts an agent when its wake lands, and nothing else of its count *)
(* changes then or otherwise.                                                *)
LEMMA CountedOnce ==
    ASSUME TypeOK, NEW t \in Thread, ThreadStep(t), ~LifeLand(t)
    PROVE  /\ UNCHANGED <<phase, ctl>> /\ Unwoken' = Unwoken
           /\ burst'.args = burst.args /\ burst'.woke = burst.woke /\ burst'.failed = burst.failed
           /\ burst'.wakeDone = burst.wakeDone
<1>0. burst \in BurstType
  BY DEF TypeOK, OpType
<1>1. suspendLand(t) => /\ phase' = phase
                        /\ burst'.args = burst.args /\ burst'.woke = burst.woke
                        /\ burst'.failed = burst.failed /\ burst'.wakeDone = burst.wakeDone
  BY <1>0 DEF suspendLand, BurstType
<1>2. ~suspendLand(t) => UNCHANGED <<phase, burst>>
  BY DEF ThreadStep, wakeRPC, restRPC, waitNotBusy, AcquireSem, BackOff, SendAgain, FirstJoke,
     FirstJokeDone, trafficDone, WaveCheck, dutyPauseClaim, dutyPauseLand, suspendClaim, recreate,
     fixLand, LifeStart, op
<1>3. PICK p : /\ GridStep(t, AgentOf(t), p)
               /\ \/ Moves(t, AgentOf(t), p) \/ Asks(t, AgentOf(t), p) \/ Releases(t, p)
                  \/ Pauses(t, AgentOf(t), p) \/ Claims(t, AgentOf(t), p)
                  \/ Starts(t, AgentOf(t), p)
  BY ThreadGrid
<1>4. pc'[t] = p /\ \A u \in Thread : u # t => pc'[u] = pc[u]
  BY <1>3 DEF GridStep, Goto, TypeOK, PcType
<1>5. Kind(t) = "life" => (p \in {"start"} \cup WakePcs <=> pc[t] \in {"start"} \cup WakePcs)
  BY <1>3 DEF Moves, Asks, Releases, Pauses, Claims, Starts, HolderPcs, RestPcs, WakePcs
<1>6. Unwoken' = Unwoken
  BY <1>4, <1>5 DEF Unwoken
<1>7. UNCHANGED ctl
  BY ThreadMoves
<1> QED
  BY <1>1, <1>2, <1>6, <1>7

(* The landing of a wake takes one agent from those that have not woken.      *)
LEMMA LandingCounts ==
    ASSUME TypeOK, CourseInv, JoinInv, NEW t \in Thread, LifeLand(t)
    PROVE  JoinInv'
<1>0. burst \in BurstType
  BY DEF TypeOK, OpType
<1>1. PICK woke, failed :
        /\ checkWakeDone(woke, failed)
        /\ \/ woke = burst.woke + 1 /\ failed = burst.failed
           \/ woke = burst.woke /\ failed = burst.failed + 1
  BY DEF LifeLand
<1>2. /\ ctl.pc = "join" /\ UNCHANGED ctl /\ t \in Unwoken
  BY DEF LifeLand, CourseInv, LifeInv, Unwoken, WakePcs
<1>3. PICK p \in {"idle", "first"} : Goto(t, p)
  BY DEF LifeLand
<1>4. pc'[t] = p /\ \A u \in Thread : u # t => pc'[u] = pc[u]
  BY <1>3 DEF Goto, TypeOK, PcType
<1>5. Unwoken' = Unwoken \ {t}
  BY <1>3, <1>4 DEF Unwoken, WakePcs
<1>6. IsFiniteSet(Unwoken) /\ Cardinality(Unwoken) \in Nat
  BY FiniteThreads DEF Unwoken
<1>7. IsFiniteSet(Unwoken') /\ Cardinality(Unwoken') = Cardinality(Unwoken) - 1
  BY <1>2, <1>5, <1>6, FS_RemoveElement
<1>8. Cardinality(Unwoken') = 0 <=> Unwoken' = {}
  BY <1>7, FS_EmptySet
<1>9. ~burst.wakeDone /\ phase # "running"
  BY <1>2 DEF JoinInv
<1>10. /\ burst.woke \in Nat /\ burst.failed \in Nat /\ burst.args.total \in Nat
       /\ burst.woke + burst.failed + Cardinality(Unwoken) = burst.args.total
  BY <1>0, <1>2 DEF JoinInv, BurstType, ArgsType
<1>11. woke \in Nat /\ failed \in Nat /\ woke + failed + Cardinality(Unwoken') = burst.args.total
  BY <1>1, <1>6, <1>7, <1>10
<1>12. woke + failed = burst.args.total <=> Unwoken' = {}
  BY <1>6, <1>7, <1>8, <1>10, <1>11
<1>13. /\ burst'.args = burst.args /\ burst'.woke = woke /\ burst'.failed = failed
       /\ burst'.wakeDone <=> woke + failed = burst.args.total
       /\ phase' = "running" => woke + failed = burst.args.total
  BY <1>0, <1>1, <1>9 DEF checkWakeDone, BurstType
<1> QED
  BY <1>11, <1>12, <1>13 DEF JoinInv

(* The lives of n agents are n threads.                                      *)
LEMMA LifeThreads ==
    ASSUME NEW n \in 1..N
    PROVE  /\ {Life(a) : a \in 1..n} \subseteq Thread
           /\ \A t \in {Life(a) : a \in 1..n} : Kind(t) = "life"
           /\ {Life(a) : a \in 1..n} # {}
           /\ Cardinality({Life(a) : a \in 1..n}) = n
<1> DEFINE A == 1..n
           L == {Life(a) : a \in A}
           f == [a \in A |-> Life(a)]
<1>0. N \in Nat /\ n \in Int /\ n >= 1 /\ A \subseteq Agent
  BY ConstantAssumption DEF Agent
<1>1. L \subseteq Thread /\ \A t \in L : Kind(t) = "life"
  BY <1>0 DEF Life, Thread, Kind
<1>2. Life(1) \in L
  BY <1>0
<1>3. IsFiniteSet(A) /\ Cardinality(A) = n
  BY <1>0, FS_Interval
<1>4. f \in [A -> L]
  OBVIOUS
<1>5. \A x, y \in A : f[x] = f[y] => x = y
  BY DEF Life
<1>6. \A l \in L : \E x \in A : f[x] = l
  OBVIOUS
<1>7. ExistsBijection(A, L)
  <2> HIDE DEF f, A, L
  <2>1. f \in Injection(A, L)
    BY <1>4, <1>5 DEF Injection, IsInjective
  <2>2. f \in Surjection(A, L)
    BY <1>4, <1>6, Zenon DEF Surjection
  <2> QED
    BY <2>1, <2>2, Zenon DEF ExistsBijection, Bijection
<1>8. Cardinality(L) = n
  <2> HIDE DEF A, L
  <2> QED
    BY <1>3, <1>7, FS_Bijection
<1> QED
  BY <1>1, <1>2, <1>8

(* A burst begins with all its agents to be woken.                           *)
LEMMA StartCounts ==
    ASSUME TypeOK, CourseInv, BurstGo
    PROVE  JoinInv'
<1> DEFINE L == {Life(a) : a \in 1..ctl.args.total}
<1>0. ctl.args.total \in 1..N /\ N \in Nat
  BY ConstantAssumption DEF TypeOK, OpType, ArgsType
<1>1. burst' = newBurst(ctl.args) /\ Spawn(L, "start") /\ phase' = "waking"
  BY DEF BurstGo
<1>2. \A t \in Thread : Kind(t) = "life" => pc[t] = "idle"
  BY DEF BurstGo, CourseInv, LifeInv
<1>3. /\ L \subseteq Thread /\ \A t \in L : Kind(t) = "life"
      /\ L # {} /\ Cardinality(L) = ctl.args.total
  BY <1>0, LifeThreads
<1> HIDE DEF L
<1>4. Unwoken' = L
  BY <1>1, <1>2, <1>3 DEF Spawn, Unwoken, WakePcs
<1>5. /\ burst'.args = ctl.args /\ burst'.woke = 0 /\ burst'.failed = 0 /\ burst'.wakeDone = FALSE
  BY <1>1 DEF newBurst
<1> QED
  BY <1>0, <1>1, <1>3, <1>4, <1>5 DEF JoinInv

(* Every step keeps the count.                                               *)
LEMMA JoinInvStep ==
    ASSUME TypeOK, CourseInv, JoinInv, [Next]_vars
    PROVE  JoinInv'
<1>0. burst \in BurstType /\ ctl \in CtlType
  BY DEF TypeOK, OpType, CtlType
<1>1. ASSUME UNCHANGED <<phase, ctl>>,
             \A t \in Thread : Kind(t) = "life" => pc'[t] = pc[t],
             burst'.args = burst.args, burst'.woke = burst.woke, burst'.failed = burst.failed,
             burst'.wakeDone = burst.wakeDone
      PROVE  JoinInv'
  <2>1. Unwoken' = Unwoken
    BY <1>1 DEF Unwoken
  <2> QED
    BY <1>1, <2>1 DEF JoinInv
<1>2. ASSUME NEW t \in Thread, ThreadStep(t) PROVE JoinInv'
  <2>1. CASE LifeLand(t)
    BY <2>1, LandingCounts
  <2>2. CASE ~LifeLand(t)
    BY <1>2, <2>2, CountedOnce DEF JoinInv
  <2> QED
    BY <2>1, <2>2
<1>3. ASSUME NEW w \in Workers, WorkerStep(w) PROVE JoinInv'
  BY <1>1, <1>3, WorkerMoves, DutyThread DEF op
<1>4. CASE trafficLoop \/ pickIdle
  BY <1>1, <1>4, TrafficMoves DEF op
<1>5. CASE Control
  <2>1. CASE BurstGo
    BY <2>1, StartCounts
  <2>2. CASE ~BurstGo
    <3>1. ctl'.pc # "join"
      <4>1. PreflightDone /\ ctl.pc # "join" => ctl'.pc # "join"
        BY <1>0 DEF PreflightDone, Ctl, CtlType, NoCtl
      <4>2. \A s : SuspendDone(s) => ctl'.pc # "join"
        BY DEF SuspendDone, NoCtl
      <4>3. CASE PreflightList \/ PreflightRelist \/ PreflightFinal \/ PreflightApply
        BY <1>0, <4>1, <4>3 DEF PreflightList, PreflightRelist, PreflightFinal, PreflightApply,
           AteList, CtlType
      <4>4. CASE PreflightCreate \/ BurstDecide \/ SuspendPass1 \/ SuspendDrain
        BY <1>0, <4>4 DEF PreflightCreate, BurstDecide, SuspendPass1, SuspendDrain, Ctl, CtlType
      <4>5. CASE BurstEnd
        BY <4>5 DEF BurstEnd, NoCtl
      <4>6. CASE SuspendPasses \/ VerifyList \/ VerifyDecide
        BY <1>0, <4>2, <4>6 DEF SuspendPasses, VerifyList, VerifyDecide, AteList, CtlType
      <4> QED
        BY <1>5, <2>2, <4>3, <4>4, <4>5, <4>6 DEF Control
    <3> QED
      BY <3>1 DEF JoinInv
  <2> QED
    BY <2>1, <2>2
<1>6. CASE Operator
  <2>1. CASE ctl.pc = "none"
    <3>1. UNCHANGED ctl \/ ctl'.pc \in {"decide", "list", "pass1"}
      BY <1>0, <1>6, OperatorMoves DEF startBurst, startReconcile, startSuspendAll, RateMoves, CtlType
    <3> QED
      BY <2>1, <3>1 DEF JoinInv
  <2>2. CASE ctl.pc # "none"
    <3>1. busy
      BY <2>2 DEF CourseInv, ControlInv
    <3>2. RateMoves
      BY <1>6, <3>1, OperatorMoves DEF startBurst, startReconcile, startSuspendAll
    <3>3. UNCHANGED burst \/ burst' = [burst EXCEPT !.dutyCycle = TRUE]
      BY <1>6, <3>1 DEF Operator, startBurst, startReconcile, startSuspendAll, simulateTraffic,
         setStrategy, setTraffic, SetRateAndCycle, StartDutyCycle
    <3>4. /\ burst'.args = burst.args /\ burst'.woke = burst.woke /\ burst'.failed = burst.failed
          /\ burst'.wakeDone = burst.wakeDone
      BY <1>0, <3>3 DEF BurstType
    <3>5. \A t \in Thread : Kind(t) = "life" => pc'[t] = pc[t]
      BY <3>2 DEF RateMoves
    <3> QED
      BY <1>1, <3>2, <3>4, <3>5 DEF RateMoves
  <2> QED
    BY <2>1, <2>2
<1>7. CASE Restart
  BY <1>7, RestartMoves DEF JoinInv, NoCtl
<1>8. CASE UNCHANGED vars \/ \E a \in Agent : AteLands(a) \/ AteCrashes(a)
  BY <1>1, <1>8 DEF vars, op, thr, AteLands, AteCrashes
<1> QED
  BY <1>2, <1>3, <1>4, <1>5, <1>6, <1>7, <1>8 DEF Next, Outside

(***************************************************************************)
(* Requests in flight.                                                     *)
(***************************************************************************)

(* reqBusy counts the requests of each agent.                                *)
Busy(a) == {t \in Thread : pc[t] \in ReqPcs /\ AgentOf(t) = a}
BusyInv == \A a \in Agent : reqBusy[a] = Cardinality(Busy(a))

(* With a rate of at most the base rate, nothing is sent beside the duty cycle. *)
RateInv == rate <= 1 /\ dispatch # "over" /\ \A t \in Thread : Kind(t) = "over" => pc[t] = "idle"

(* What a step does to the requests in flight.                               *)
Alone(t) == \A u \in Thread : u # t => pc'[u] = pc[u] /\ AgentOf(u)' = AgentOf(u)
Shown(a) == \A b \in Agent : b # a /\ states'[b] = "Requesting" => states[b] = "Requesting"
Begins(t, a) ==             \* thread t sends a request to an agent that is up
    /\ pc[t] \notin ReqPcs /\ pc'[t] \in ReqPcs /\ AgentOf(t)' = a /\ Alone(t) /\ Shown(a)
    /\ states[a] \in {"Running", "Requesting"} /\ phase # "suspending"
    /\ reqBusy' = [reqBusy EXCEPT ![a] = @ + 1] /\ inflight' = inflight + 1
Ends(t, a) ==               \* thread t's request of an agent ends
    /\ pc[t] \in ReqPcs /\ pc'[t] \notin ReqPcs \cup {"call"} /\ AgentOf(t) = a /\ Alone(t) /\ Shown(a)
    /\ states'[a] = "Requesting" => Kind(t) = "over" \/ reqBusy'[a] # 0
    /\ reqBusy' = [reqBusy EXCEPT ![a] = @ - 1] /\ inflight' = inflight - 1
Keeps ==                    \* no request begins or ends
    /\ reqBusy' = reqBusy /\ inflight' = inflight
    /\ \A a \in Agent : states'[a] = "Requesting" => states[a] = "Requesting"
    /\ \A u \in Thread :
         /\ pc'[u] \in ReqPcs <=> pc[u] \in ReqPcs
         /\ pc[u] \in ReqPcs \cup {"wait", "call"} => AgentOf(u)' = AgentOf(u)
         /\ Kind(u) # "fix" /\ pc'[u] = "call" =>
              \/ pc[u] = "call"
              \/ pc[u] = "wait" /\ (reqBusy[AgentOf(u)] <= 0 \/ "slow" \in Faults)

(* A thread's step is one of these.                                          *)
LEMMA RequestThreadStep ==
    ASSUME TypeOK, NEW t \in Thread, ThreadStep(t)
    PROVE  Keeps \/ Begins(t, AgentOf(t)) \/ Ends(t, AgentOf(t))
<1> DEFINE a == AgentOf(t)
<1>0. /\ a \in Agent /\ PcType /\ states \in [Agent -> States] /\ reqBusy \in [Agent -> Int]
      /\ Kind(t) \in {"life", "sweep", "fix", "wave", "plain", "over", "duty"}
  BY AgentOfType, ThreadShape DEF TypeOK, GridType, ReqType
<1>1. /\ \A p : Goto(t, p) => pc'[t] = p /\ \A u \in Thread : u # t => pc'[u] = pc[u]
      /\ \A u \in Thread : AgentOf(u)' = AgentOf(u)
  BY <1>0, ThreadMoves DEF Goto, PcType, AgentOf
<1>2. \A s : Set(a, s) => states'[a] = s /\ \A b \in Agent : b # a => states'[b] = states[b]
  BY <1>0 DEF Set
<1>3. ASSUME NEW p, Goto(t, p), UNCHANGED <<reqBusy, inflight>>,
             \A b \in Agent : states'[b] = "Requesting" => states[b] = "Requesting",
             p \in ReqPcs <=> pc[t] \in ReqPcs,
             p = "call" /\ Kind(t) # "fix" =>
                pc[t] = "wait" /\ (reqBusy[AgentOf(t)] <= 0 \/ "slow" \in Faults)
      PROVE  Keeps
  BY <1>1, <1>3 DEF Keeps
<1> HIDE DEF a
<1>4. CASE wakeRPC(t)
  <2>1. PICK o \in ResumeOutcomes(ate[a]) : Goto(t, o[1])
    BY <1>4 DEF wakeRPC, a
  <2>2. o[1] \in {"woke", "wakeErr", "wakeBad"}
    BY <1>0, RPCOutcomes DEF TypeOK, RestType
  <2> QED
    BY <1>3, <1>4, <2>1, <2>2 DEF wakeRPC, req, ReqPcs
<1>5. CASE restRPC(t)
  <2>1. PICK o \in RestOutcomes(ate[a]) : Goto(t, o[1])
    BY <1>5 DEF restRPC, a
  <2>2. o[1] \in {"restOk", "restErr", "restBad"}
    BY <1>0, RPCOutcomes DEF TypeOK, RestType
  <2> QED
    BY <1>3, <1>5, <2>1, <2>2 DEF restRPC, grid, req, ReqPcs
<1>6. CASE waitNotBusy(t)
  BY <1>3, <1>6 DEF waitNotBusy, grid, req, ReqPcs
<1>7. CASE AcquireSem(t)
  <2>1. PICK p \in {"wait", "call", "create"} :
          Goto(t, p) /\ (p = "call" => pc[t] = "restQ") /\ pc[t] \in {"claimed", "restQ", "createQ"}
    BY <1>7 DEF AcquireSem
  <2>2. p = "call" => Kind(t) = "fix"
    BY <1>0, <2>1, PcKind
  <2> QED
    BY <1>3, <1>7, <2>1, <2>2 DEF AcquireSem, grid, req, ReqPcs
<1>8. CASE BackOff(t) \/ SendAgain(t)
  <2>1. PICK p \in {"backoff", "flight"} : Goto(t, p) /\ pc[t] \in ReqPcs
    BY <1>8 DEF BackOff, SendAgain, ReqPcs
  <2> QED
    BY <1>3, <1>8, <2>1 DEF BackOff, SendAgain, grid, req, ReqPcs
<1>9. CASE FirstJoke(t)
  <2>1. CASE Goto(t, AfterFirst(t)) /\ UNCHANGED <<states, req>>
    BY <1>3, <1>9, <2>1 DEF FirstJoke, AfterFirst, req, ReqPcs
  <2>2. CASE states[a] = "Running" /\ phase # "suspending" /\ Set(a, "Requesting")
               /\ BeginRequest(t, a, FirstTries)
    <3>1. /\ pc[t] = "first" /\ pc'[t] = "flight" /\ Alone(t) /\ Shown(a) /\ inflight' = inflight + 1
          /\ phase # "suspending"
      BY <1>1, <1>2, <1>9, <2>2 DEF FirstJoke, BeginRequest, Alone, Shown
    <3>2. Begins(t, a)
      BY <1>1, <2>2, <3>1 DEF Begins, BeginRequest, ReqPcs, a
    <3> QED
      BY <3>2 DEF a
  <2> QED
    BY <1>9, <2>1, <2>2 DEF FirstJoke, a
<1>10. CASE FirstJokeDone(t)
  <2>1. /\ pc[t] = "flight" /\ pc'[t] = AfterFirst(t) /\ Alone(t)
        /\ Kind(t) \in {"life", "wave"} /\ reqBusy' = [reqBusy EXCEPT ![a] = @ - 1]
        /\ inflight' = inflight - 1
    BY <1>1, <1>10 DEF FirstJokeDone, EndRequest, Alone, a
  <2>2. states'[a] # "Requesting" /\ Shown(a)
    BY <1>0, <1>2, <1>10 DEF FirstJokeDone, BackToRunning, Shown, a
  <2>3. Ends(t, a)
    BY <2>1, <2>2 DEF Ends, AfterFirst, ReqPcs, a
  <2> QED
    BY <2>3 DEF a
<1>11. CASE trafficDone(t)
  <2>1. /\ pc[t] = "flight" /\ pc'[t] = "idle" /\ Alone(t)
        /\ reqBusy' = [reqBusy EXCEPT ![a] = @ - 1] /\ inflight' = inflight - 1
    BY <1>1, <1>11 DEF trafficDone, EndRequest, Alone, a
  <2>2. states'[a] = "Requesting" => Kind(t) = "over" \/ reqBusy'[a] # 0
    BY <1>2, <1>11 DEF trafficDone, a
  <2>3. Shown(a)
    BY <1>2, <1>11 DEF trafficDone, Shown, a
  <2>4. Ends(t, a)
    BY <2>1, <2>2, <2>3 DEF Ends, ReqPcs, a
  <2> QED
    BY <2>4 DEF a
<1>12. CASE WaveCheck(t)
  <2>1. PICK p \in {"pause", "idle"} : Goto(t, p) /\ pc[t] = "check"
    BY <1>12 DEF WaveCheck
  <2> QED
    BY <1>3, <1>12, <2>1 DEF WaveCheck, grid, req, ReqPcs
<1>13. CASE dutyPauseClaim(t)
  <2>1. PICK p \in {"wait", PauseReturn(t)} : Goto(t, p) /\ pc[t] = "pause"
    BY <1>13 DEF dutyPauseClaim
  <2>2. \A b \in Agent : states'[b] = "Requesting" => states[b] = "Requesting"
    BY <1>2, <1>13 DEF dutyPauseClaim, a
  <2> QED
    BY <1>3, <1>13, <2>1, <2>2 DEF dutyPauseClaim, PauseReturn, ReqPcs
<1>14. CASE dutyPauseLand(t)
  <2>1. \A b \in Agent : states'[b] = "Requesting" => states[b] = "Requesting"
    BY <1>2, <1>14 DEF dutyPauseLand, markBroken, grid, a
  <2> QED
    BY <1>3, <1>14, <2>1 DEF dutyPauseLand, PauseReturn, ReqPcs
<1>15. CASE suspendClaim(t)
  <2>1. PICK p \in {"claimed", "idle"} : Goto(t, p) /\ pc[t] = "claim"
    BY <1>15 DEF suspendClaim
  <2>2. \A b \in Agent : states'[b] = "Requesting" => states[b] = "Requesting"
    BY <1>2, <1>15 DEF suspendClaim, a
  <2> QED
    BY <1>3, <1>15, <2>1, <2>2 DEF suspendClaim, req, ReqPcs
<1>16. CASE suspendLand(t)
  <2>1. \A b \in Agent : states'[b] = "Requesting" => states[b] = "Requesting"
    BY <1>2, <1>16 DEF suspendLand, markBroken, a
  <2> QED
    BY <1>3, <1>16, <2>1 DEF suspendLand, req, ReqPcs
<1>17. CASE recreate(t) \/ fixLand(t)
  <2>1. \A b \in Agent : states'[b] = "Requesting" => states[b] = "Requesting"
    BY <1>2, <1>17 DEF recreate, fixLand, markBroken, grid, a
  <2> QED
    BY <1>3, <1>17, <2>1 DEF recreate, fixLand, req, ReqPcs
<1>18. CASE LifeStart(t)
  <2>1. \A b \in Agent : states'[b] = "Requesting" => states[b] = "Requesting"
    BY <1>2, <1>18 DEF LifeStart, a
  <2> QED
    BY <1>3, <1>18, <2>1 DEF LifeStart, req, ReqPcs
<1>19. CASE LifeLand(t)
  <2>1. \A b \in Agent : states'[b] = "Requesting" => states[b] = "Requesting"
    BY <1>2, <1>19 DEF LifeLand, a
  <2>2. PICK p \in {"idle", "first"} : Goto(t, p)
    BY <1>19 DEF LifeLand
  <2> QED
    BY <1>3, <1>19, <2>1, <2>2 DEF LifeLand, req, ReqPcs
<1> QED
  BY <1>4, <1>5, <1>6, <1>7, <1>8, <1>9, <1>10, <1>11, <1>12, <1>13, <1>14, <1>15, <1>16, <1>17,
     <1>18, <1>19 DEF ThreadStep

(* So is a worker's own step.                                                *)
LEMMA RequestWorkerStep ==
    ASSUME TypeOK, NEW w \in Workers, WorkerStep(w)
    PROVE  Keeps \/ Begins(Duty(w), AgentOf(Duty(w))) \/ Ends(Duty(w), AgentOf(Duty(w)))
<1> DEFINE t == Duty(w)
           a == AgentOf(t)
<1>0. /\ t \in Thread /\ Kind(t) = "duty" /\ a \in Agent /\ a = work[w].agent
      /\ states \in [Agent -> States] /\ reqBusy \in [Agent -> Int]
      /\ work \in [Workers -> [agent : Agent, b : 0..MaxBursts, counted : BOOLEAN]]
  BY DutyThread, AgentOfType DEF TypeOK, AgentOf, GridType, ReqType, WorkType
<1>1. /\ \A u \in Thread : u # t => pc'[u] = pc[u]
      /\ \A p : Goto(t, p) => pc'[t] = p
  BY <1>0, WorkerMoves DEF Goto, TypeOK, PcType
<1>2. \A b \in Agent : \A s : Set(b, s) => states'[b] = s /\ \A c \in Agent : c # b => states'[c] = states[c]
  BY <1>0 DEF Set
<1>3. \A v \in Workers : v # w => work'[v] = work[v]
  BY <1>0 DEF WorkerStep, dutyOverCap, dutyPick, dutyWake, dutyWakeLand, dutyAsk, dutyAskDone, dutyReturn
<1>4. /\ \A u \in Thread : u # t => AgentOf(u)' = AgentOf(u)
      /\ work' = work => AgentOf(t)' = a
  BY <1>0, <1>3, OtherAgents
<1> HIDE DEF t, a
<1>5. ASSUME NEW p \in {"over", "pause", "ret", "resume", "ask", "idle"}, Goto(t, p), UNCHANGED <<reqBusy, inflight>>,
             \A b \in Agent : states'[b] = "Requesting" => states[b] = "Requesting",
             pc[t] \in {"idle", "over", "ret", "ask"} \cup WakePcs
      PROVE  Keeps
  BY <1>1, <1>4, <1>5 DEF Keeps, ReqPcs, WakePcs
<1>6. CASE dutyOverCap(w) \/ dutyPick(w) \/ dutyReturn(w)
  <2>1. PICK p \in {"over", "pause", "ret", "idle"} : Goto(t, p)
    BY <1>6 DEF dutyOverCap, dutyPick, dutyReturn, t
  <2> QED
    BY <1>5, <1>6, <2>1 DEF dutyOverCap, dutyPick, dutyReturn, grid, req, t
<1>7. CASE dutyWake(w)
  <2>1. \A b \in Agent : states'[b] = "Requesting" => states[b] = "Requesting"
    BY <1>2, <1>7 DEF dutyWake
  <2> QED
    BY <1>5, <1>7, <2>1 DEF dutyWake, t
<1>8. CASE dutyWakeLand(w)
  <2>1. \A b \in Agent : states'[b] = "Requesting" => states[b] = "Requesting"
    BY <1>0, <1>2, <1>8 DEF dutyWakeLand, markBroken, grid, t, a
  <2>2. PICK p \in {"ask", "ret"} : Goto(t, p)
    BY <1>8 DEF dutyWakeLand, t
  <2> QED
    BY <1>5, <1>8, <2>1, <2>2 DEF dutyWakeLand, req, WakePcs, t
<1>9. CASE dutyAsk(w)
  <2>1. CASE Goto(t, "pause") /\ UNCHANGED <<states, req>>
    BY <1>5, <1>9, <2>1 DEF dutyAsk, req, t
  <2>2. CASE /\ states[a] = "Running" /\ Set(a, "Requesting") /\ BeginRequest(t, a, DutyTries)
             /\ StillDuty(BurstOf(t))
    <3>1. pc[t] = "ask" /\ pc'[t] = "flight" /\ Alone(t) /\ Shown(a) /\ AgentOf(t)' = a
      BY <1>0, <1>1, <1>2, <1>4, <1>9, <2>2 DEF dutyAsk, BeginRequest, Alone, Shown, t
    <3>2. Begins(t, a)
      BY <2>2, <3>1 DEF Begins, BeginRequest, StillDuty, ReqPcs
    <3> QED
      BY <3>2 DEF a, t
  <2> QED
    BY <1>9, <2>1, <2>2 DEF dutyAsk, a, t
<1>10. CASE dutyAskDone(w)
  <2>1. /\ pc[t] = "flight" /\ pc'[t] \in {"pause", "ret"} /\ Alone(t)
        /\ reqBusy' = [reqBusy EXCEPT ![a] = @ - 1] /\ inflight' = inflight - 1
    BY <1>1, <1>4, <1>10 DEF dutyAskDone, EndRequest, Alone, a, t
  <2>2. states'[a] # "Requesting" /\ Shown(a)
    BY <1>0, <1>2, <1>10 DEF dutyAskDone, BackToRunning, Shown, a, t
  <2>3. Ends(t, a)
    BY <2>1, <2>2 DEF Ends, ReqPcs, a
  <2> QED
    BY <2>3 DEF a, t
<1> QED
  BY <1>6, <1>7, <1>8, <1>9, <1>10 DEF WorkerStep

(* An agent with fewer than MaxReq requests has a slot for another.           *)
LEMMA FreeSlot ==
    ASSUME TypeOK, BusyInv, NEW d \in {"plain", "over"}, NEW a \in Agent, reqBusy[a] < MaxReq
    PROVE  \E k \in 1..MaxReq : pc[<<d, a, k>>] = "idle"
<1> DEFINE K == 1..MaxReq
           S == {<<d, a, k>> : k \in K}
           f == [k \in K |-> <<d, a, k>>]
<1>0. MaxReq \in Nat \ {0} /\ reqBusy[a] = Cardinality(Busy(a))
  BY ConstantAssumption DEF BusyInv
<1> SUFFICES ASSUME \A k \in K : pc[<<d, a, k>>] # "idle" PROVE FALSE
  OBVIOUS
<1>1. IsFiniteSet(K) /\ Cardinality(K) = MaxReq
  <2>1. 1 \in Int /\ MaxReq \in Int /\ MaxReq >= 1
    BY <1>0
  <2> QED
    BY <2>1, FS_Interval
<1>2. f \in [K -> S] /\ \A x, y \in K : f[x] = f[y] => x = y
  OBVIOUS
<1>3. \A s \in S : \E x \in K : f[x] = s
  OBVIOUS
<1>4. ExistsBijection(K, S)
  <2> HIDE DEF f, K, S
  <2>1. f \in Injection(K, S)
    BY <1>2 DEF Injection, IsInjective
  <2>2. f \in Surjection(K, S)
    BY <1>2, <1>3, Zenon DEF Surjection
  <2> QED
    BY <2>1, <2>2, Zenon DEF ExistsBijection, Bijection
<1>5. Cardinality(S) = MaxReq
  <2> HIDE DEF K, S
  <2> QED
    BY <1>1, <1>4, FS_Bijection
<1>6. S \subseteq Busy(a)
  <2> SUFFICES ASSUME NEW k \in K PROVE <<d, a, k>> \in Busy(a)
    OBVIOUS
  <2>1. <<d, a, k>> \in Thread /\ Kind(<<d, a, k>>) = d /\ AgentOf(<<d, a, k>>) = a
    BY DEF Thread, Kind, AgentOf
  <2>2. pc[<<d, a, k>>] \in {"idle"} \cup ReqPcs
    BY <2>1 DEF TypeOK, PcType, PcsOf
  <2> QED
    BY <2>1, <2>2 DEF Busy
<1>7. IsFiniteSet(Busy(a)) /\ Cardinality(Busy(a)) \in Nat
  BY FiniteThreads DEF Busy
<1>8. Cardinality(S) <= Cardinality(Busy(a))
  <2> HIDE DEF S
  <2> QED
    BY <1>6, <1>7, FS_Subset
<1> QED
  BY <1>0, <1>5, <1>7, <1>8

(* Steady traffic begins requests, or nothing.                               *)
LEMMA RequestTrafficStep ==
    ASSUME TypeOK, BusyInv, trafficLoop \/ pickIdle
    PROVE  Keeps \/ \E t \in Thread, a \in Agent : Begins(t, a)
<1>0. /\ states \in [Agent -> States] /\ \A u \in Thread : AgentOf(u)' = AgentOf(u)
  BY TrafficMoves DEF TypeOK, GridType, AgentOf
<1>1. CASE trafficLoop
  BY <1>0, <1>1 DEF trafficLoop, grid, req, thr, Keeps
<1>2. CASE pickIdle /\ Pickable = {}
  BY <1>0, <1>2 DEF pickIdle, req, Keeps
<1>3. CASE pickIdle /\ Pickable # {}
  <2> DEFINE Slot(a) == <<dispatch, a, CHOOSE k \in 1..MaxReq : pc[<<dispatch, a, k>>] = "idle">>
  <2>1. PICK a \in Pickable : /\ BeginRequest(Slot(a), a, 1)
                              /\ Set(a, IF dispatch = "plain" THEN "Requesting" ELSE states[a])
    BY <1>3 DEF pickIdle
  <2>2. /\ a \in Agent /\ reqBusy[a] < MaxReq /\ states[a] \in {"Running", "Requesting"} /\ phase = "running"
        /\ dispatch \in {"plain", "over"}
    BY <1>3, <2>1 DEF pickIdle, Pickable, Eligible, TypeOK, RestType
  <2>3. \E k \in 1..MaxReq : pc[<<dispatch, a, k>>] = "idle"
    BY <2>2, FreeSlot
  <2>4. PICK k \in 1..MaxReq : pc[<<dispatch, a, k>>] = "idle" /\ Slot(a) = <<dispatch, a, k>>
    BY <2>3
  <2>t. <<dispatch, a, k>> \in Thread
    BY <2>2 DEF Thread
  <2>s. PICK t \in Thread : t = <<dispatch, a, k>>
    BY <2>t
  <2>5. Kind(t) \in {"plain", "over"} /\ AgentOf(t) = a /\ pc[t] = "idle"
    BY <2>2, <2>4, <2>s DEF Kind, AgentOf
  <2>6. BeginRequest(t, a, 1)
    BY <2>1, <2>4, <2>s
  <2>7. pc'[t] = "flight" /\ Alone(t)
    BY <1>0, <2>5, <2>6 DEF BeginRequest, Goto, Alone, TypeOK, PcType
  <2>8. Shown(a)
    BY <1>0, <2>1, <2>2 DEF Set, Shown
  <2>9. AgentOf(t)' = a /\ reqBusy' = [reqBusy EXCEPT ![a] = @ + 1] /\ inflight' = inflight + 1
    BY <1>0, <2>5, <2>6 DEF BeginRequest
  <2>10. Begins(t, a)
    BY <2>2, <2>5, <2>7, <2>8, <2>9 DEF Begins, ReqPcs
  <2> QED
    BY <2>2, <2>5, <2>10
<1> QED
  BY <1>1, <1>2, <1>3

(* Every step keeps the requests in flight, begins one or ends one, or is a   *)
(* restart.                                                                  *)
LEMMA RequestSteps ==
    ASSUME TypeOK, CourseInv, BusyInv, [Next]_vars
    PROVE  \/ Keeps \/ Restart
           \/ \E t \in Thread, a \in Agent : Begins(t, a) \/ Ends(t, a)
<1>1. ASSUME NEW t \in Thread, ThreadStep(t)
      PROVE  Keeps \/ \E u \in Thread, a \in Agent : Begins(u, a) \/ Ends(u, a)
  BY <1>1, RequestThreadStep, AgentOfType DEF TypeOK
<1>2. ASSUME NEW w \in Workers, WorkerStep(w)
      PROVE  Keeps \/ \E u \in Thread, a \in Agent : Begins(u, a) \/ Ends(u, a)
  <2>1. Duty(w) \in Thread /\ AgentOf(Duty(w)) \in Agent
    BY DutyThread, AgentOfType DEF TypeOK
  <2> QED
    BY <1>2, <2>1, RequestWorkerStep
<1>3. CASE Control
  <2>1. \A u \in Thread : AgentOf(u)' = AgentOf(u)
    BY <1>3, ControlMoves DEF AgentOf
  <2>2. \A u \in Thread : pc'[u] = pc[u] \/ pc'[u] \in {"restQ", "createQ", "start", "claim"}
    BY <1>3 DEF Control, PreflightList, PreflightRelist, PreflightCreate, PreflightFinal, PreflightApply,
       BurstDecide, BurstGo, BurstEnd, SuspendPass1, SuspendDrain, SuspendPasses, VerifyList,
       VerifyDecide, Spawn, thr
  <2>3. \A u \in Thread : pc'[u] = pc[u] \/ pc[u] \notin ReqPcs
    <3> SUFFICES ASSUME NEW u \in Thread, pc[u] \in ReqPcs PROVE pc'[u] = pc[u]
      OBVIOUS
    <3>1. Kind(u) \in {"life", "wave", "duty", "plain", "over"}
      BY PcKind DEF TypeOK
    <3>2. CASE Kind(u) = "life"
      <4>1. ctl.pc = "join"
        BY <3>2 DEF ReqPcs, CourseInv, LifeInv
      <4> QED
        BY <1>3, <3>2, <4>1, ControlMoves DEF BurstGo
    <3> QED
      BY <1>3, <3>1, <3>2, ControlMoves
  <2>4. UNCHANGED <<reqBusy, inflight>>
    BY <1>3 DEF Control, PreflightList, PreflightRelist, PreflightCreate, PreflightFinal, PreflightApply,
       BurstDecide, BurstGo, BurstEnd, SuspendPass1, SuspendDrain, SuspendPasses, VerifyList,
       VerifyDecide, req
  <2>5. \A a \in Agent : states'[a] = "Requesting" => states[a] = "Requesting"
    <3>1. \A s \in AteStates : gridState(s) # "Requesting"
      BY DEF gridState, AteStates
    <3>2. UNCHANGED states \/ applyStates(ctl.list)
      BY <1>3 DEF Control, PreflightList, PreflightRelist, PreflightCreate, PreflightFinal, PreflightApply,
         BurstDecide, BurstGo, BurstEnd, SuspendPass1, SuspendDrain, SuspendPasses, VerifyList,
         VerifyDecide, grid
    <3> QED
      BY <3>1, <3>2 DEF applyStates, GridOf, TypeOK, OpType
  <2> QED
    BY <2>1, <2>2, <2>3, <2>4, <2>5 DEF Keeps, ReqPcs
<1>4. CASE Operator
  <2>1. UNCHANGED <<work, states, reqBusy, inflight>>
    BY <1>4 DEF Operator, startBurst, startReconcile, simulateTraffic, setStrategy, startSuspendAll,
       setTraffic, SetRateAndCycle, grid, req, thr
  <2>2. \A u \in Thread : AgentOf(u)' = AgentOf(u)
    BY <2>1 DEF AgentOf
  <2>3. \A u \in Thread : pc'[u] = pc[u] \/ (pc[u] = "idle" /\ pc'[u] \in {"first", "check"})
    <3>1. CASE UNCHANGED pc
      BY <3>1
    <3>2. CASE ~UNCHANGED pc
      <4>1. RateMoves
        BY <1>4, <3>2, OperatorMoves DEF startBurst, startReconcile, startSuspendAll, thr
      <4>2. /\ phase \in {"waking", "running"} /\ ~burst.dutyCycle
            /\ \A u \in Thread :
                 pc'[u] = pc[u] \/ (Kind(u) = "wave" /\ u[3] = cur /\ pc'[u] \in {"first", "check"})
        BY <3>2, <4>1 DEF RateMoves
      <4> QED
        BY <4>2 DEF CourseInv, WaveInv
    <3> QED
      BY <3>1, <3>2
  <2> QED
    BY <2>1, <2>2, <2>3 DEF Keeps, ReqPcs
<1>5. CASE UNCHANGED vars \/ \E a \in Agent : AteLands(a) \/ AteCrashes(a)
  <2>1. UNCHANGED <<work, states, pc, reqBusy, inflight>>
    BY <1>5 DEF vars, grid, req, thr, AteLands, AteCrashes
  <2>2. \A u \in Thread : AgentOf(u)' = AgentOf(u)
    BY <2>1 DEF AgentOf
  <2> QED
    BY <2>1, <2>2 DEF Keeps
<1> QED
  BY <1>1, <1>2, <1>3, <1>4, <1>5, RequestTrafficStep DEF Next, Outside

(* The agents' requests are counted exactly.                                 *)
LEMMA BusyInvStep ==
    ASSUME TypeOK, CourseInv, BusyInv, [Next]_vars
    PROVE  BusyInv'
<1>0. reqBusy \in [Agent -> Int]
  BY DEF TypeOK, ReqType
<1>1. \A a \in Agent : IsFiniteSet(Busy(a)) /\ Cardinality(Busy(a)) \in Nat
  BY FiniteThreads DEF Busy
<1>2. CASE Keeps
  <2>1. \A a \in Agent : Busy(a)' = Busy(a)
    BY <1>2 DEF Keeps, Busy
  <2> QED
    BY <1>2, <2>1 DEF Keeps, BusyInv
<1>3. ASSUME NEW t \in Thread, NEW a \in Agent, Begins(t, a) PROVE BusyInv'
  <2>1. Busy(a)' = Busy(a) \cup {t} /\ t \notin Busy(a)
    BY <1>3 DEF Begins, Alone, Busy
  <2>2. Cardinality(Busy(a)') = Cardinality(Busy(a)) + 1
    BY <1>1, <2>1, FS_AddElement
  <2>3. \A b \in Agent : b # a => Busy(b)' = Busy(b) /\ reqBusy'[b] = reqBusy[b]
    BY <1>0, <1>3 DEF Begins, Alone, Busy
  <2>4. reqBusy'[a] = reqBusy[a] + 1
    BY <1>0, <1>3 DEF Begins
  <2> QED
    BY <2>2, <2>3, <2>4 DEF BusyInv
<1>4. ASSUME NEW t \in Thread, NEW a \in Agent, Ends(t, a) PROVE BusyInv'
  <2>1. Busy(a)' = Busy(a) \ {t} /\ t \in Busy(a)
    BY <1>4 DEF Ends, Alone, Busy
  <2>2. Cardinality(Busy(a)') = Cardinality(Busy(a)) - 1
    BY <1>1, <2>1, FS_RemoveElement
  <2>3. \A b \in Agent : b # a => Busy(b)' = Busy(b) /\ reqBusy'[b] = reqBusy[b]
    BY <1>0, <1>4 DEF Ends, Alone, Busy
  <2>4. reqBusy'[a] = reqBusy[a] - 1
    BY <1>0, <1>4 DEF Ends
  <2> QED
    BY <2>2, <2>3, <2>4 DEF BusyInv
<1>5. CASE Restart
  <2>1. \A a \in Agent : reqBusy'[a] = 0
    BY <1>5 DEF Restart, Started
  <2>2. \A a \in Agent : Busy(a)' = {}
    BY <1>5, RestartMoves DEF Busy, ReqPcs
  <2> QED
    BY <2>1, <2>2, FS_EmptySet DEF BusyInv
<1> QED
  BY <1>2, <1>3, <1>4, <1>5, RequestSteps

(* A request in flight is counted.                                           *)
LEMMA BusyCounts ==
    ASSUME TypeOK, BusyInv, NEW t \in Thread, pc[t] \in ReqPcs
    PROVE  reqBusy[AgentOf(t)] > 0
<1>1. AgentOf(t) \in Agent
  BY AgentOfType DEF TypeOK
<1>2. t \in Busy(AgentOf(t)) /\ IsFiniteSet(Busy(AgentOf(t))) /\ Cardinality(Busy(AgentOf(t))) \in Nat
  BY FiniteThreads DEF Busy
<1>3. Cardinality(Busy(AgentOf(t))) # 0
  BY <1>2, FS_EmptySet
<1> QED
  BY <1>1, <1>2, <1>3 DEF BusyInv

(* A held agent gets no request between the wait for its requests and the     *)
(* end of the call.                                                          *)
LEMMA NeverMidRequestStep ==
    ASSUME "slow" \notin Faults, TypeOK, DutyInv, LockInv, BusyInv, NeverMidRequest, [Next]_vars
    PROVE  NeverMidRequest'
<1>0. reqBusy \in [Agent -> Int]
  BY DEF TypeOK, ReqType
<1> SUFFICES ASSUME NEW u \in Thread, Kind(u) # "fix", pc'[u] = "call"
             PROVE  reqBusy'[AgentOf(u)'] = 0
  BY DEF NeverMidRequest
<1>1. ASSUME NEW t \in Thread, NEW a \in Agent, Begins(t, a) \/ Ends(t, a)
      PROVE  reqBusy'[AgentOf(u)'] = 0
  <2>1. u # t /\ pc[u] = "call" /\ AgentOf(u)' = AgentOf(u)
    BY <1>1 DEF Begins, Ends, Alone, ReqPcs
  <2>2. reqBusy[AgentOf(u)] = 0 /\ states[AgentOf(u)] = "Suspending" /\ AgentOf(u) \in Agent
    BY <2>1, AgentOfType DEF NeverMidRequest, LockInv, Holds, RestPcs, TypeOK
  <2>3. AgentOf(u) # a
    <3>1. CASE Begins(t, a)
      BY <2>2, <3>1 DEF Begins
    <3>2. CASE Ends(t, a)
      <4>1. reqBusy[a] > 0
        BY <3>2, BusyCounts DEF Ends
      <4> QED
        BY <2>2, <4>1
    <3> QED
      BY <1>1, <3>1, <3>2
  <2> QED
    BY <1>0, <1>1, <2>1, <2>2, <2>3 DEF Begins, Ends
<1>2. CASE Keeps
  <2>1. pc[u] \in {"wait", "call"} /\ AgentOf(u)' = AgentOf(u) /\ reqBusy' = reqBusy
    BY <1>2 DEF Keeps
  <2>2. CASE pc[u] = "call"
    BY <2>1, <2>2 DEF NeverMidRequest
  <2>3. CASE pc[u] # "call"
    <3>1. AgentOf(u) \in Agent /\ reqBusy[AgentOf(u)] <= 0
      BY <1>2, <2>3, AgentOfType DEF Keeps, TypeOK
    <3>2. reqBusy[AgentOf(u)] \in Nat
      BY <3>1, FiniteThreads DEF BusyInv, Busy
    <3> QED
      BY <2>1, <3>1, <3>2
  <2> QED
    BY <2>2, <2>3
<1>3. CASE Restart
  BY <1>3, RestartMoves
<1> QED
  BY <1>1, <1>2, <1>3, RequestSteps DEF DutyInv, CourseInv

(* The rate and the choice of what to dispatch are left alone by all but      *)
(* the operator, a burst's own start of traffic, and the traffic loop.       *)
LEMMA RateKept ==
    ASSUME OverloadRate = 0, 2 \notin Rates, TypeOK, rate <= 1, [Next]_vars
    PROVE  /\ rate' <= 1
           /\ dispatch' # dispatch => trafficLoop \/ pickIdle \/ Restart
<1>0. rate \in 0..2 /\ AutoRate = 1
  BY DEF TypeOK, OpType, AutoRate
<1>1. \A woke, failed : checkWakeDone(woke, failed) => rate' <= 1
  BY <1>0 DEF checkWakeDone, AutoStart
<1>2. ASSUME NEW t \in Thread, ThreadStep(t) PROVE rate' <= 1 /\ dispatch' = dispatch
  <2>1. CASE LifeLand(t)
    BY <1>1, <2>1 DEF LifeLand
  <2>2. CASE wakeRPC(t) \/ restRPC(t) \/ waitNotBusy(t) \/ AcquireSem(t) \/ BackOff(t)
             \/ SendAgain(t) \/ FirstJoke(t) \/ FirstJokeDone(t) \/ trafficDone(t) \/ WaveCheck(t)
    BY <1>0, <2>2 DEF wakeRPC, restRPC, waitNotBusy, AcquireSem, BackOff, SendAgain, FirstJoke,
       FirstJokeDone, trafficDone, WaveCheck, op
  <2>3. CASE dutyPauseClaim(t) \/ dutyPauseLand(t) \/ suspendClaim(t) \/ suspendLand(t)
             \/ recreate(t) \/ fixLand(t) \/ LifeStart(t)
    BY <1>0, <2>3 DEF dutyPauseClaim, dutyPauseLand, suspendClaim, suspendLand, recreate, fixLand,
       LifeStart, op
  <2> QED
    BY <1>2, <2>1, <2>2, <2>3 DEF ThreadStep
<1>3. ASSUME NEW w \in Workers, WorkerStep(w) PROVE rate' <= 1 /\ dispatch' = dispatch
  <2>1. dispatch' = dispatch
    BY <1>3 DEF WorkerStep, dutyOverCap, dutyPick, dutyWake, dutyWakeLand, dutyAsk, dutyAskDone,
       dutyReturn
  <2> QED
    BY <1>0, <1>3, <2>1, WorkerMoves DEF op
<1>4. CASE trafficLoop \/ pickIdle
  BY <1>0, <1>4, TrafficMoves DEF op
<1>5. CASE Control
  <2>1. rate' = rate \/ rate' = AutoStart
    BY <1>5 DEF Control, PreflightList, PreflightRelist, PreflightCreate, PreflightFinal,
       PreflightApply, BurstDecide, BurstGo, BurstEnd, SuspendPass1, SuspendDrain, SuspendPasses,
       VerifyList, VerifyDecide
  <2>2. dispatch' = dispatch
    BY <1>5 DEF Control, PreflightList, PreflightRelist, PreflightCreate, PreflightFinal,
       PreflightApply, BurstDecide, BurstGo, BurstEnd, SuspendPass1, SuspendDrain, SuspendPasses,
       VerifyList, VerifyDecide
  <2> QED
    BY <1>0, <2>1, <2>2 DEF AutoStart
<1>6. CASE Operator
  <2>1. ASSUME NEW r, NEW start, SetRateAndCycle(r, start), r <= 1
        PROVE  rate' <= 1 /\ dispatch' = dispatch
    BY <2>1 DEF SetRateAndCycle
  <2>2. \A r \in Rates : r <= 1
    BY ConstantAssumption
  <2>3. CASE \E args \in BurstArgs : startBurst(args)
    BY <2>3 DEF startBurst
  <2>4. CASE startReconcile \/ startSuspendAll
    <3>1. rate' = 0 /\ dispatch' = dispatch
      BY <2>4 DEF startReconcile, startSuspendAll
    <3> QED
      BY <3>1
  <2>5. CASE simulateTraffic \/ setStrategy
    <3>1. \E start : SetRateAndCycle(0, start) \/ SetRateAndCycle(1, start)
      BY <1>0, <2>5 DEF simulateTraffic, setStrategy
    <3> QED
      BY <2>1, <3>1
  <2>6. CASE \E r \in Rates : setTraffic(r)
    BY <2>1, <2>2, <2>6 DEF setTraffic
  <2> QED
    BY <1>6, <2>3, <2>4, <2>5, <2>6 DEF Operator
<1>7. CASE Restart
  <2>1. rate' = 0
    BY <1>7 DEF Restart, Started
  <2> QED
    BY <1>7, <2>1
<1>8. CASE UNCHANGED vars \/ \E a \in Agent : AteLands(a) \/ AteCrashes(a)
  BY <1>0, <1>8 DEF vars, op, thr, AteLands, AteCrashes
<1> QED
  BY <1>2, <1>3, <1>4, <1>5, <1>6, <1>7, <1>8 DEF Next, Outside

(* At the base rate no request is sent beside the duty cycle.                *)
LEMMA RateInvStep ==
    ASSUME OverloadRate = 0, 2 \notin Rates, TypeOK, RateInv, [Next]_vars
    PROVE  RateInv'
<1>1. rate' <= 1 /\ (dispatch' # dispatch => trafficLoop \/ pickIdle \/ Restart)
  BY RateKept DEF RateInv
<1>2. dispatch' # "over"
  <2>1. rate \in 0..2
    BY DEF TypeOK, OpType
  <2>2. CASE trafficLoop
    BY <2>1, <2>2 DEF RateInv, trafficLoop
  <2>3. CASE pickIdle
    BY <2>3 DEF RateInv, pickIdle
  <2>4. CASE Restart
    BY <2>4 DEF Restart, Started
  <2> QED
    BY <1>1, <2>2, <2>3, <2>4 DEF RateInv
<1>3. SUFFICES ASSUME NEW u \in Thread, Kind(u) = "over" PROVE pc'[u] = "idle"
  BY <1>1, <1>2 DEF RateInv
<1>4. pc[u] = "idle"
  BY <1>3 DEF RateInv
<1>5. ASSUME NEW t \in Thread, ThreadStep(t) PROVE pc'[u] = "idle"
  <2>1. u # t /\ \E p : Goto(t, p)
    BY <1>4, <1>5, ThreadMoves
  <2> QED
    BY <1>4, <2>1 DEF Goto, TypeOK, PcType
<1>6. CASE \E w \in Workers : WorkerStep(w)
  BY <1>3, <1>4, <1>6, WorkerMoves, DutyThread
<1>7. CASE trafficLoop
  BY <1>4, <1>7 DEF trafficLoop, thr
<1>8. CASE pickIdle
  <2>1. CASE Pickable = {}
    BY <1>4, <1>8, <2>1 DEF pickIdle
  <2>2. CASE Pickable # {}
    <3>0. PICK a \in Pickable : \E k : BeginRequest(<<dispatch, a, k>>, a, 1)
      BY <1>8, <2>2 DEF pickIdle
    <3>1. PICK k : BeginRequest(<<dispatch, a, k>>, a, 1)
      BY <3>0
    <3>2. u # <<dispatch, a, k>>
      BY <1>3 DEF RateInv, Kind
    <3> QED
      BY <1>4, <3>1, <3>2 DEF BeginRequest, Goto, TypeOK, PcType
  <2> QED
    BY <2>1, <2>2
<1>9. CASE Control
  BY <1>3, <1>4, <1>9, ControlMoves
<1>10. CASE Operator
  BY <1>3, <1>4, <1>10, OperatorMoves DEF startBurst, startReconcile, startSuspendAll, RateMoves, thr
<1>11. CASE Restart
  BY <1>11, RestartMoves
<1>12. CASE UNCHANGED vars \/ \E a \in Agent : AteLands(a) \/ AteCrashes(a)
  BY <1>4, <1>12 DEF vars, thr, AteLands, AteCrashes
<1> QED
  BY <1>5, <1>6, <1>7, <1>8, <1>9, <1>10, <1>11, <1>12 DEF Next, Outside

(* At the base rate, an agent leaves Requesting with its last request.       *)
LEMMA RequestingHasRequestStep ==
    ASSUME OverloadRate = 0, 2 \notin Rates,
           TypeOK, CourseInv, BusyInv, RateInv, RequestingHasRequest, [Next]_vars
    PROVE  RequestingHasRequest'
<1>0. reqBusy \in [Agent -> Int]
  BY DEF TypeOK, ReqType
<1> SUFFICES ASSUME NEW b \in Agent, states'[b] = "Requesting" PROVE reqBusy'[b] > 0
  BY DEF RequestingHasRequest
<1>1. BusyInv'
  BY BusyInvStep
<1>2. reqBusy'[b] \in Nat
  <2>1. IsFiniteSet(Busy(b)') /\ Cardinality(Busy(b)') \in Nat
    BY FiniteThreads DEF Busy
  <2> QED
    BY <1>1, <2>1 DEF BusyInv
<1>3. states[b] = "Requesting" => reqBusy[b] > 0
  BY DEF RequestingHasRequest
<1>4. CASE Keeps
  BY <1>3, <1>4 DEF Keeps
<1>5. ASSUME NEW t \in Thread, NEW a \in Agent, Begins(t, a) PROVE reqBusy'[b] > 0
  <2>1. CASE a = b
    <3>1. reqBusy[a] \in Nat
      BY FiniteThreads DEF BusyInv, Busy
    <3> QED
      BY <1>0, <1>5, <2>1, <3>1 DEF Begins
  <2>2. CASE a # b
    BY <1>0, <1>3, <1>5, <2>2 DEF Begins, Shown
  <2> QED
    BY <2>1, <2>2
<1>6. ASSUME NEW t \in Thread, NEW a \in Agent, Ends(t, a) PROVE reqBusy'[b] > 0
  <2>1. CASE a = b
    <3>1. Kind(t) # "over"
      BY <1>6 DEF Ends, RateInv, ReqPcs
    <3>2. states'[a] = "Requesting" => reqBusy'[a] # 0
      BY <1>6, <3>1 DEF Ends
    <3> QED
      BY <1>2, <2>1, <3>2
  <2>2. CASE a # b
    BY <1>0, <1>3, <1>6, <2>2 DEF Ends, Shown
  <2> QED
    BY <2>1, <2>2
<1>7. CASE Restart
  <2>1. \A s \in AteStates : gridState(s) # "Requesting"
    BY DEF gridState, AteStates
  <2> QED
    BY <1>7, <2>1 DEF Restart, Started, GridOf, TypeOK, RestType
<1> QED
  BY <1>4, <1>5, <1>6, <1>7, RequestSteps

(* The driver starts with nobody at work, nothing requested and no burst.    *)
LEMMA InitLocks ==
    ASSUME Init
    PROVE  /\ CourseInv /\ JoinInv /\ HoldInv /\ SweepInv /\ FixInv /\ LockInv /\ ApartInv
           /\ BusyInv /\ NeverMidRequest /\ RequestingHasRequest
           /\ OverloadRate = 0 => RateInv
<1>1. \A t \in Thread : pc[t] = "idle"
  BY DEF Init
<1>2. CourseInv
  BY InitDutyInv DEF CourseInv, DutyInv
<1>3. ctl.pc = "none"
  BY DEF Init, NoCtl
<1>4. JoinInv /\ HoldInv /\ SweepInv /\ FixInv
  BY <1>1, <1>3 DEF JoinInv, HoldInv, SweepInv, FixInv, RestPcs
<1>5. LockInv /\ ApartInv /\ NeverMidRequest
  BY <1>1 DEF LockInv, ApartInv, NeverMidRequest, Holds, HolderPcs, RestPcs, WakePcs
<1>6. BusyInv
  <2>1. \A a \in Agent : Busy(a) = {}
    BY <1>1 DEF Busy, ReqPcs
  <2> QED
    BY <2>1, FS_EmptySet DEF Init, BusyInv
<1>7. RequestingHasRequest
  <2>1. \A s \in AteStates : gridState(s) # "Requesting"
    BY DEF gridState, AteStates
  <2>2. \A a \in Agent : ate[a] \in AteStates
    BY InitType DEF TypeOK, RestType
  <2>3. \A a \in Agent : states[a] # "Requesting"
    BY <2>1, <2>2 DEF Init, GridOf
  <2> QED
    BY <2>3 DEF RequestingHasRequest
<1>8. RateInv
  BY <1>1 DEF Init, RateInv
<1> QED
  BY <1>2, <1>4, <1>5, <1>6, <1>7, <1>8

(* The parts that hold whatever waits are cut short are kept by every step.  *)
LEMMA CourseStep ==
    ASSUME TypeOK, CourseInv, [Next]_vars
    PROVE  TypeOK' /\ CourseInv'
BY TypeStep, ControlInvStep, LifeInvStep, WaveInvStep DEF CourseInv

(* A burst's account of its agents is exact: every agent of it is counted     *)
(* once as woken or as failed, and allUp is closed by the step that counts    *)
(* the last of them, whatever wakes fail and in whatever order they land.    *)
THEOREM BurstCountsEveryAgent == Spec => []WakeDoneExact
<1> DEFINE Inv == TypeOK /\ CourseInv /\ JoinInv
<1>1. Init => Inv
  BY InitType, InitLocks
<1>2. Inv /\ [Next]_vars => Inv'
  BY CourseStep, JoinInvStep
<1>3. Inv => WakeDoneExact
  <2> SUFFICES ASSUME Inv, ctl.pc = "join"
               PROVE  /\ burst.woke + burst.failed <= burst.args.total
                      /\ burst.wakeDone <=> burst.woke + burst.failed = burst.args.total
    BY DEF WakeDoneExact
  <2>1. IsFiniteSet(Unwoken) /\ Cardinality(Unwoken) \in Nat
    BY FiniteThreads DEF Unwoken
  <2>2. Unwoken = {} <=> Cardinality(Unwoken) = 0
    BY <2>1, FS_EmptySet
  <2>3. burst.args.total \in Nat
    BY ConstantAssumption DEF TypeOK, OpType, BurstType, ArgsType
  <2> QED
    BY <2>1, <2>2, <2>3 DEF JoinInv
<1> HIDE DEF Inv
<1> QED
  BY <1>1, <1>2, <1>3, PTL DEF Spec

(* At the base rate, an agent is shown as Requesting only while one of its    *)
(* requests is in flight: the grid cannot show work that nobody does.  (With  *)
(* overload traffic beside the duty cycle, an overload request may be the     *)
(* last to end, and it leaves the square as it is.)                          *)
THEOREM RequestingIsInFlight ==
    ASSUME OverloadRate = 0, 2 \notin Rates
    PROVE  Spec => []RequestingHasRequest
<1> DEFINE Inv == TypeOK /\ CourseInv /\ BusyInv /\ RateInv /\ RequestingHasRequest
<1>1. Init => Inv
  BY InitType, InitLocks
<1>2. Inv /\ [Next]_vars => Inv'
  BY CourseStep, BusyInvStep, RateInvStep, RequestingHasRequestStep
<1>3. Inv => RequestingHasRequest
  OBVIOUS
<1> HIDE DEF Inv
<1> QED
  BY <1>1, <1>2, <1>3, PTL DEF Spec

(* The grid's locks and counts as one inductive invariant.                   *)
GridInv == /\ TypeOK /\ DutyInv
           /\ JoinInv /\ HoldInv /\ SweepInv /\ FixInv /\ LockInv /\ ApartInv
           /\ BusyInv /\ NeverMidRequest

(* It holds initially, and if no wait is cut short every step keeps it.      *)
LEMMA GridInvariant ==
    ASSUME "slow" \notin Faults
    PROVE  Spec => []GridInv
<1>1. Init => GridInv
  BY InitType, InitDutyInv, InitLocks DEF GridInv
<1>2. GridInv /\ [Next]_vars => GridInv'
  <2> SUFFICES ASSUME GridInv, [Next]_vars PROVE GridInv'
    OBVIOUS
  <2>1. CourseInv
    BY DEF GridInv, DutyInv, CourseInv
  <2>2. TypeOK' /\ DutyInv'
    BY <2>1, CourseStep, DutyStep DEF GridInv, DutyInv, CourseInv
  <2>3. JoinInv' /\ HoldInv' /\ SweepInv' /\ FixInv'
    BY <2>1, JoinInvStep, HoldInvStep, SweepInvStep, FixInvStep DEF GridInv
  <2>4. LockInv' /\ ApartInv'
    BY LockStep DEF GridInv
  <2>5. BusyInv' /\ NeverMidRequest'
    BY <2>1, BusyInvStep, NeverMidRequestStep DEF GridInv
  <2> QED
    BY <2>2, <2>3, <2>4, <2>5 DEF GridInv
<1> QED
  BY <1>1, <1>2, PTL DEF Spec

(* The grid's Waking and Suspending are locks: if no wait is cut short, no    *)
(* two goroutines have a wake, pause, suspend or re-creation of the same      *)
(* agent under way, whether bursts, the duty cycle, suspend-all, preflight    *)
(* and the operator's commands interleave and RPCs fail as they may.         *)
THEOREM OneOperationAtATime ==
    ASSUME "slow" \notin Faults
    PROVE  Spec => []OneOperationPerAgent
<1>1. GridInv => OneOperationPerAgent
  <2> SUFFICES ASSUME GridInv, NEW a \in Agent
               PROVE  Cardinality({t \in Thread : pc[t] \in HolderPcs /\ AgentOf(t) = a}) <= 1
    BY DEF OneOperationPerAgent, HolderPcs
  <2> DEFINE Holders == {t \in Thread : pc[t] \in HolderPcs /\ AgentOf(t) = a}
  <2>1. CASE Holders = {}
    BY <2>1, FS_EmptySet
  <2>2. CASE Holders # {}
    <3>1. PICK t : t \in Holders
      BY <2>2
    <3>2. Holders = {t}
      BY <3>1 DEF GridInv, ApartInv
    <3>3. Cardinality({t}) = 1
      BY FS_Singleton
    <3> QED
      BY <3>2, <3>3
  <2> QED
    BY <2>1, <2>2
<1> QED
  BY <1>1, GridInvariant, PTL

(* If no wait is cut short, a checkpoint of an agent begins only when none of *)
(* its requests is in flight, and none is sent to it before it is at rest:    *)
(* no pause and no suspend cuts a reply in two.                              *)
THEOREM CheckpointsBetweenRequests ==
    ASSUME "slow" \notin Faults
    PROVE  Spec => []NeverMidRequest
<1>1. GridInv => NeverMidRequest
  BY DEF GridInv
<1> QED
  BY <1>1, GridInvariant, PTL

(***************************************************************************)
(* Suspend-all: what it reports is what ate-api has.                       *)
(***************************************************************************)

(* inflight counts the requests of all agents.                               *)
InFlight == {t \in Thread : pc[t] \in ReqPcs}
FlightInv == inflight = Cardinality(InFlight)

(* Once suspend-all stopped waiting, no request is in flight ...              *)
SweptPcs == {"passes", "verify", "judge"}
StillInv == ctl.pc \in SweptPcs => InFlight = {}

(* ... so an agent that its last listing showed at rest is still at rest.    *)
ListInv == ctl.pc = "judge" => \A a \in Agent : ate[a] \in AteUp => ctl.list[a] \in AteUp

RestedInv == GridInv /\ FlightInv /\ StillInv /\ ListInv

LEMMA FlightInvStep ==
    ASSUME TypeOK, CourseInv, BusyInv, FlightInv, [Next]_vars
    PROVE  FlightInv'
<1>0. IsFiniteSet(InFlight) /\ Cardinality(InFlight) \in Nat
  BY FiniteThreads DEF InFlight
<1>1. CASE Keeps
  <2>1. InFlight' = InFlight
    BY <1>1 DEF Keeps, InFlight
  <2> QED
    BY <1>1, <2>1 DEF Keeps, FlightInv
<1>2. ASSUME NEW t \in Thread, NEW a \in Agent, Begins(t, a) PROVE FlightInv'
  <2>1. InFlight' = InFlight \cup {t} /\ t \notin InFlight
    BY <1>2 DEF Begins, Alone, InFlight
  <2>2. Cardinality(InFlight') = Cardinality(InFlight) + 1
    BY <1>0, <2>1, FS_AddElement
  <2> QED
    BY <1>2, <2>2 DEF Begins, FlightInv
<1>3. ASSUME NEW t \in Thread, NEW a \in Agent, Ends(t, a) PROVE FlightInv'
  <2>1. InFlight' = InFlight \ {t} /\ t \in InFlight
    BY <1>3 DEF Ends, Alone, InFlight
  <2>2. Cardinality(InFlight') = Cardinality(InFlight) - 1
    BY <1>0, <2>1, FS_RemoveElement
  <2> QED
    BY <1>3, <2>2 DEF Ends, FlightInv
<1>4. CASE Restart
  <2>1. inflight' = 0
    BY <1>4 DEF Restart, Started
  <2>2. InFlight' = {}
    BY <1>4, RestartMoves DEF InFlight, ReqPcs
  <2> QED
    BY <2>1, <2>2, FS_EmptySet DEF FlightInv
<1> QED
  BY <1>1, <1>2, <1>3, <1>4, RequestSteps

(* How the goroutine of an operation gets to its sweep and to its verdict.   *)
LEMMA Courses ==
    ASSUME TypeOK, ControlInv, [Next]_vars
    PROVE  /\ ctl'.pc \in SweptPcs => ctl.pc \in SweptPcs \/ SuspendDrain
           /\ ctl'.pc = "judge" => ctl' = ctl \/ VerifyList
           /\ ctl.op = "suspend" /\ ctl'.op = "none" => \/ VerifyList \/ Restart
                                                        \/ ctl.pc = "judge" /\ VerifyDecide
<1>0. ctl \in CtlType /\ NoCtl.pc = "none"
  BY DEF TypeOK, OpType, CtlType, NoCtl
<1>1. CASE ctl' = ctl
  BY <1>1
<1>2. CASE \/ PreflightList \/ PreflightRelist \/ PreflightCreate \/ PreflightFinal
           \/ PreflightApply
  <2>1. ctl.op # "suspend"
    BY <1>2 DEF PreflightList, PreflightRelist, PreflightCreate, PreflightFinal, PreflightApply,
       ControlInv, PreflightPcs
  <2>2. ctl'.pc \in PreflightPcs \cup {"go", "none"}
    BY <1>0, <1>2 DEF PreflightList, PreflightRelist, PreflightCreate, PreflightFinal, PreflightApply,
       PreflightDone, Ctl, AteList, PreflightPcs, CtlType
  <2> QED
    BY <2>1, <2>2 DEF PreflightPcs, SweptPcs
<1>3. CASE BurstDecide \/ BurstGo \/ BurstEnd \/ SuspendPass1
  <2>1. ctl'.pc \in {"go", "list", "join", "none", "drain"}
    BY <1>0, <1>3 DEF BurstDecide, BurstGo, BurstEnd, SuspendPass1, Ctl, CtlType
  <2>2. SuspendPass1 => ctl'.op = ctl.op
    BY <1>0 DEF SuspendPass1, Ctl, CtlType
  <2>3. ~SuspendPass1 => ctl.op # "suspend"
    BY <1>3 DEF BurstDecide, BurstGo, BurstEnd, ControlInv
  <2> QED
    BY <2>1, <2>2, <2>3 DEF SweptPcs
<1>4. CASE SuspendDrain \/ SuspendPasses
  BY <1>0, <1>4 DEF SuspendDrain, SuspendPasses, Ctl, CtlType, SweptPcs
<1>5. CASE VerifyList \/ VerifyDecide
  BY <1>0, <1>5 DEF VerifyList, VerifyDecide, AteList, SuspendDone, CtlType, SweptPcs
<1>6. CASE Restart
  BY <1>0, <1>6, RestartMoves DEF SweptPcs
<1>7. CASE Operator
  <2>1. ASSUME NEW args \in BurstArgs, startBurst(args)
        PROVE  ctl'.pc = "decide" /\ ctl'.op = "burst"
    BY <1>0, <2>1 DEF startBurst, CtlType
  <2>2. startReconcile => ctl'.pc = "list" /\ ctl'.op = "reconcile"
    BY <1>0 DEF startReconcile, CtlType
  <2>3. startSuspendAll => ctl'.pc = "pass1" /\ ctl'.op = "suspend"
    BY <1>0 DEF startSuspendAll, CtlType
  <2> QED
    BY <1>1, <1>7, <2>1, <2>2, <2>3, OperatorMoves DEF RateMoves, SweptPcs
<1>8. CASE \/ \E t \in Thread : ThreadStep(t)
           \/ \E w \in Workers : WorkerStep(w)
           \/ trafficLoop \/ pickIdle
  BY <1>1, <1>8, ThreadMoves, WorkerMoves, TrafficMoves DEF op
<1>9. CASE UNCHANGED vars \/ \E a \in Agent : AteLands(a) \/ AteCrashes(a)
  BY <1>1, <1>9 DEF vars, op, AteLands, AteCrashes
<1> QED
  BY <1>2, <1>3, <1>4, <1>5, <1>6, <1>7, <1>8, <1>9 DEF Next, Outside, Control

(* No request is sent while suspend-all sweeps.                              *)
LEMMA StillInvStep ==
    ASSUME "slow" \notin Faults, TypeOK, CourseInv, BusyInv, FlightInv, StillInv, [Next]_vars
    PROVE  StillInv'
<1>0. IsFiniteSet(InFlight)
  BY FiniteThreads DEF InFlight
<1> SUFFICES ASSUME ctl'.pc \in SweptPcs PROVE InFlight' = {}
  BY DEF StillInv
<1>1. ctl.pc \in SweptPcs \/ SuspendDrain
  BY Courses DEF CourseInv
<1>2. InFlight = {}
  <2>1. SuspendDrain => inflight = 0
    BY DEF SuspendDrain
  <2> QED
    BY <1>0, <1>1, <2>1, FS_EmptySet DEF FlightInv, StillInv
<1>3. phase = "suspending"
  BY <1>1 DEF CourseInv, ControlInv, SuspendPcs, SweptPcs, SuspendDrain
<1>4. CASE Keeps
  BY <1>2, <1>4 DEF Keeps, InFlight
<1>5. ASSUME NEW t \in Thread, NEW a \in Agent PROVE ~Begins(t, a) /\ ~Ends(t, a)
  BY <1>2, <1>3 DEF Begins, Ends, InFlight
<1>6. CASE Restart
  BY <1>6, RestartMoves DEF InFlight, ReqPcs
<1> QED
  BY <1>4, <1>5, <1>6, RequestSteps

(* An agent at rest goes up by a resume or a request of its own, or by a      *)
(* resume whose answer was lost, for which ate-api already holds compute.    *)
Raises(t, a) == \/ AgentOf(t) = a /\ pc[t] \in {"resume"} \cup ReqPcs
                \/ Begins(t, a)

LEMMA Rises ==
    ASSUME TypeOK, BusyInv, [Next]_vars, NEW a \in Agent, ate[a] \notin AteUp, ate'[a] \in AteUp
    PROVE  \E t \in Thread : Raises(t, a)
<1>0. ate \in [Agent -> AteStates] /\ PcType /\ ate'[a] # ate[a] /\ inflight \in Int
      /\ reqBusy \in [Agent -> Int]
  BY DEF TypeOK, RestType, ReqType
<1>1. ASSUME NEW t \in Thread, ThreadStep(t) PROVE Raises(t, a)
  <2>0. AgentOf(t) \in Agent
    BY AgentOfType DEF TypeOK
  <2>1. ASSUME restRPC(t) PROVE FALSE
    <3>1. PICK o \in RestOutcomes(ate[AgentOf(t)]) : ate' = [ate EXCEPT ![AgentOf(t)] = o[2]]
      BY <2>1 DEF restRPC
    <3>2. \A s \in AteStates : s \notin AteUp => \A x \in RestOutcomes(s) : x[2] \notin AteUp
      BY DEF RestOutcomes, AteStates, AteUp
    <3>3. a = AgentOf(t) /\ ate'[a] = o[2] /\ o \in RestOutcomes(ate[a])
      BY <1>0, <3>1
    <3> QED
      BY <1>0, <3>2, <3>3
  <2>2. ASSUME recreate(t) PROVE FALSE
    BY <1>0, <2>2 DEF recreate, AteUp
  <2>3. CASE wakeRPC(t)
    BY <1>0, <2>3 DEF wakeRPC, Raises
  <2>4. CASE SendAgain(t)
    BY <1>0, <2>4 DEF SendAgain, Routed, Raises, ReqPcs
  <2>5. CASE FirstJoke(t)
    <3>1. AgentOf(t) = a /\ inflight' = inflight + 1
      BY <1>0, <2>0, <2>5 DEF FirstJoke, BeginRequest, Routed
    <3> QED
      BY <1>0, <1>1, <3>1, RequestThreadStep DEF Keeps, Ends, Raises
  <2>6. ate' = ate \/ restRPC(t) \/ recreate(t) \/ wakeRPC(t) \/ SendAgain(t) \/ FirstJoke(t)
    BY <1>1 DEF ThreadStep, waitNotBusy, AcquireSem, BackOff,
       FirstJokeDone, EndRequest, trafficDone, WaveCheck, dutyPauseClaim, dutyPauseLand,
       suspendClaim, suspendLand, fixLand, LifeStart, LifeLand
  <2> QED
    BY <1>0, <2>1, <2>2, <2>3, <2>4, <2>5, <2>6
<1>2. ASSUME NEW w \in Workers, WorkerStep(w) PROVE Raises(Duty(w), a)
  <2>1. ate' = ate \/ BeginRequest(Duty(w), AgentOf(Duty(w)), DutyTries)
    BY <1>2 DEF WorkerStep, dutyOverCap, dutyPick, dutyWake, dutyWakeLand, dutyAsk, dutyAskDone,
       dutyReturn
  <2>2. AgentOf(Duty(w)) = a /\ inflight' = inflight + 1
    BY <1>0, <2>1 DEF BeginRequest, Routed
  <2> QED
    BY <1>0, <1>2, <2>2, RequestWorkerStep DEF Keeps, Ends, Raises
<1>3. CASE trafficLoop \/ pickIdle
  <2>1. PICK t, b, n : BeginRequest(t, b, n)
    BY <1>0, <1>3 DEF trafficLoop, pickIdle
  <2>2. a = b /\ inflight' = inflight + 1 /\ reqBusy'[a] = reqBusy[a] + 1
    BY <1>0, <2>1 DEF BeginRequest, Routed
  <2>3. PICK u \in Thread, c \in Agent : Begins(u, c)
    BY <1>0, <1>3, <2>2, RequestTrafficStep DEF Keeps
  <2>4. c = a
    BY <1>0, <2>2, <2>3 DEF Begins
  <2> QED
    BY <2>3, <2>4 DEF Raises
<1>4. CASE Control \/ Operator \/ Restart
  BY <1>0, <1>4 DEF Control, PreflightList, PreflightRelist, PreflightCreate, PreflightFinal,
     PreflightApply, BurstDecide, BurstGo, BurstEnd, SuspendPass1, SuspendDrain, SuspendPasses,
     VerifyList, VerifyDecide, Operator, startBurst, startReconcile, simulateTraffic, setStrategy,
     startSuspendAll, setTraffic, SetRateAndCycle, Restart
<1>5. CASE UNCHANGED vars
  BY <1>0, <1>5 DEF vars
<1>6. ASSUME NEW b \in Agent, AteLands(b) \/ AteCrashes(b) PROVE FALSE
  BY <1>0, <1>6 DEF AteLands, AteCrashes, AteUp
<1> QED
  BY <1>1, <1>2, <1>3, <1>4, <1>5, <1>6, DutyThread DEF Next, Outside

(* Between the last listing and the verdict nothing wakes an agent.          *)
LEMMA ListInvStep ==
    ASSUME TypeOK, DutyInv, BusyInv, StillInv, StillInv', ListInv, [Next]_vars
    PROVE  ListInv'
<1> SUFFICES ASSUME ctl'.pc = "judge", NEW a \in Agent, ate'[a] \in AteUp
             PROVE  ctl'.list[a] \in AteUp
  BY DEF ListInv
<1>0. ctl \in CtlType
  BY DEF TypeOK, OpType, CtlType
<1>1. ctl' = ctl \/ VerifyList
  BY Courses DEF DutyInv
<1>2. CASE VerifyList
  <2>1. AteList("judge") /\ ate' = ate
    BY <1>2 DEF VerifyList, SuspendDone, NoCtl
  <2> QED
    BY <1>0, <2>1 DEF AteList, CtlType
<1>3. CASE ctl' = ctl
  <2>1. ctl.pc = "judge" /\ InFlight = {} /\ InFlight' = {}
    BY <1>3 DEF StillInv, SweptPcs
  <2>2. \A t \in Thread : pc[t] # "resume"
    <3> SUFFICES ASSUME NEW t \in Thread, pc[t] = "resume" PROVE FALSE
      OBVIOUS
    <3>1. Kind(t) \in {"life", "duty"}
      BY PcKind DEF TypeOK, WakePcs
    <3>2. Kind(t) # "life"
      BY <2>1 DEF DutyInv, LifeInv
    <3>3. t[2] \in Workers /\ t = Duty(t[2])
      BY <3>1, <3>2, ThreadShape
    <3>4. work[t[2]].counted
      BY <3>3 DEF DutyInv, ClaimInv, WakePcs
    <3> QED
      BY <2>1, <3>3, <3>4 DEF DutyInv, QuietInv, Quiet, Counted
  <2>3. \A t \in Thread : ~Raises(t, a)
    BY <2>1, <2>2 DEF Raises, Begins, InFlight
  <2>4. ate[a] \in AteUp
    BY <2>3, Rises
  <2> QED
    BY <1>3, <2>1, <2>4 DEF ListInv
<1> QED
  BY <1>1, <1>2, <1>3

LEMMA RestedInvariant ==
    ASSUME "slow" \notin Faults
    PROVE  Spec => []RestedInv
<1>1. Init => FlightInv /\ StillInv /\ ListInv
  <2> SUFFICES ASSUME Init PROVE FlightInv /\ StillInv /\ ListInv
    OBVIOUS
  <2>1. InFlight = {} /\ inflight = 0
    BY DEF Init, InFlight, ReqPcs
  <2>2. ctl.pc = "none"
    BY DEF Init, NoCtl
  <2> QED
    BY <2>1, <2>2, FS_EmptySet DEF FlightInv, StillInv, ListInv, SweptPcs
<1>2. GridInv /\ FlightInv /\ StillInv /\ ListInv /\ [Next]_vars => FlightInv' /\ StillInv' /\ ListInv'
  <2> SUFFICES ASSUME GridInv, FlightInv, StillInv, ListInv, [Next]_vars
               PROVE  FlightInv' /\ StillInv' /\ ListInv'
    OBVIOUS
  <2>1. TypeOK /\ DutyInv /\ BusyInv /\ CourseInv
    BY DEF GridInv, DutyInv, CourseInv
  <2>2. FlightInv' /\ StillInv'
    BY <2>1, FlightInvStep, StillInvStep
  <2> QED
    BY <2>1, <2>2, ListInvStep
<1> QED
  BY <1>1, <1>2, GridInvariant, PTL DEF Spec, RestedInv

(* When suspend-all reports that all agents are suspended, ate-api holds      *)
(* compute for none, whatever RPCs failed, answers were lost and checkpoints  *)
(* went wrong before, if no wait is cut short and ate-api can be listed: the  *)
(* verdict is from a listing, and nothing wakes an agent after it.           *)
THEOREM SuspendedMeansZeroCompute ==
    ASSUME "slow" \notin Faults, "list" \notin Faults
    PROVE  Spec => AllSuspendedHonest
<1>1. RestedInv /\ [Next]_vars =>
        [ctl.op = "suspend" /\ ctl'.op = "none" /\ cur' # 0 /\ burst'.allSusp
           => NotAtRest(ate) = {}]_vars
  <2> SUFFICES ASSUME RestedInv, [Next]_vars, ctl.op = "suspend", ctl'.op = "none", cur' # 0,
                      burst'.allSusp
               PROVE  NotAtRest(ate) = {}
    OBVIOUS
  <2>0. ctl \in CtlType /\ burst \in BurstType /\ ControlInv /\ TypeOK
    BY DEF RestedInv, GridInv, DutyInv, TypeOK, OpType, CtlType
  <2>1. VerifyList \/ Restart \/ (ctl.pc = "judge" /\ VerifyDecide)
    BY <2>0, Courses
  <2>2. ~VerifyList
    BY <2>0 DEF VerifyList, AteList, ListFails, CtlType
  <2>3. ~Restart
    BY <2>0, RestartMoves
  <2>4. burst'.allSusp = (NotAtRest(ctl.list) = {})
    BY <2>0, <2>1, <2>2, <2>3 DEF VerifyDecide, SuspendDone, CtlType, BurstType
  <2> QED
    BY <2>1, <2>2, <2>3, <2>4 DEF RestedInv, ListInv, NotAtRest
<1> QED
  BY <1>1, RestedInvariant, PTL DEF Spec, AllSuspendedHonest

(***************************************************************************)
(* What d.up counts.                                                       *)
(***************************************************************************)

(* The preflight lets a burst begin although an RPC or a listing of it failed *)
(* and agents are still up; such an agent is counted again when it wakes.     *)
(* Let no burst begin with up above k: k is a parameter, and for every        *)
(* behaviour the largest count any of its bursts began with will do.         *)
StartsWithin(k) == [][BurstGo => up <= k]_vars

(* Every agent shown with a sandbox is counted.                              *)
UpStates == {"Running", "Requesting", "Suspending"}
ShownAs(K) == {a \in Agent : states[a] \in K}
LowInv == Cardinality(ShownAs(UpStates)) <= up

(* A grid that has just been drawn counts nothing else but broken agents.    *)
FreshCount == LowInv /\ up <= Cardinality(ShownAs(UpStates \cup {"Failed"}))

(* up is at most k above the agents that are neither at rest nor waking nor   *)
(* still due to wake: a wake that lands settles the agent it counts.         *)
Due == {a \in Agent : pc[Life(a)] = "start"}
Settled == {a \in Agent : states[a] \notin {"Suspended", "Waking"} /\ a \notin Due}
HighInv(k) == up <= Cardinality(Settled) + k

(* An agent shown waking is being woken.                                     *)
WakingInv == \A a \in Agent : states[a] = "Waking" =>
    \E t \in Thread : pc[t] \in WakePcs /\ AgentOf(t) = a

(* Until all of its agents have tried to wake, a burst's own and k others are *)
(* all the sandboxes that are counted.                                       *)
AllRunningWithin(k) == ctl.pc = "join" /\ burst.allRunning => burst.woke + k >= burst.args.total
RunInv(k) == AllRunningWithin(k) /\ (ctl.pc = "join" /\ ~burst.wakeDone => up <= burst.woke + k)

(* What a step may do to agent a and to up: a stays up or stays down, breaks, *)
(* comes up and is counted, comes to rest and is no longer counted, or a      *)
(* burst begins to wake it, whatever it was.                                 *)
Graded(a) ==
    /\ \A b \in Agent : b # a => states'[b] = states[b]
    /\ \/ /\ up' = up /\ (states[a] \in UpStates <=> states'[a] \in UpStates)
          /\ states[a] = "Failed" <=> states'[a] = "Failed"
       \/ up' = up /\ states'[a] = "Failed"
       \/ up' = up + 1 /\ states[a] = "Waking" /\ states'[a] = "Running"
       \/ up' = up - 1 /\ states[a] \in UpStates /\ states'[a] = "Suspended"
       \/ up' = up /\ states'[a] = "Waking" /\ a \in Due

(* One agent more or less is shown in some states.                           *)
LEMMA Recount ==
    ASSUME NEW a \in Agent, \A b \in Agent : b # a => states'[b] = states[b], NEW K
    PROVE  /\ Cardinality(ShownAs(K)) \in Nat /\ Cardinality(ShownAs(K)') \in Nat
           /\ (states[a] \in K <=> states'[a] \in K) => Cardinality(ShownAs(K)') = Cardinality(ShownAs(K))
           /\ states[a] \notin K /\ states'[a] \in K => Cardinality(ShownAs(K)') = Cardinality(ShownAs(K)) + 1
           /\ states[a] \in K /\ states'[a] \notin K => Cardinality(ShownAs(K)') = Cardinality(ShownAs(K)) - 1
<1>0. ShownAs(K) \in SUBSET Agent /\ ShownAs(K)' \in SUBSET Agent
  BY DEF ShownAs
<1>1. /\ IsFiniteSet(ShownAs(K)) /\ Cardinality(ShownAs(K)) \in Nat
      /\ IsFiniteSet(ShownAs(K)') /\ Cardinality(ShownAs(K)') \in Nat
  BY <1>0, AgentCount
<1>2. ASSUME states[a] \in K <=> states'[a] \in K
      PROVE  Cardinality(ShownAs(K)') = Cardinality(ShownAs(K))
  <2>1. ShownAs(K)' = ShownAs(K)
    BY <1>2 DEF ShownAs
  <2> QED
    BY <2>1
<1>3. ASSUME states[a] \notin K, states'[a] \in K
      PROVE  Cardinality(ShownAs(K)') = Cardinality(ShownAs(K)) + 1
  <2>1. ShownAs(K)' = ShownAs(K) \cup {a} /\ a \notin ShownAs(K)
    BY <1>3 DEF ShownAs
  <2> QED
    BY <1>1, <2>1, FS_AddElement
<1>4. ASSUME states[a] \in K, states'[a] \notin K
      PROVE  Cardinality(ShownAs(K)') = Cardinality(ShownAs(K)) - 1
  <2>1. ShownAs(K)' = ShownAs(K) \ {a} /\ a \in ShownAs(K)
    BY <1>4 DEF ShownAs
  <2> QED
    BY <1>1, <2>1, FS_RemoveElement
<1> QED
  BY <1>1, <1>2, <1>3, <1>4

LEMMA GradedKeeps ==
    ASSUME TypeOK, LowInv, NEW a \in Agent, Graded(a)
    PROVE  LowInv'
<1> DEFINE K == UpStates
           low == Cardinality(ShownAs(K))
<1>0. up \in Int /\ \A b \in Agent : b # a => states'[b] = states[b]
  BY DEF TypeOK, GridType, Graded
<1>1. /\ low \in Nat /\ low' \in Nat
      /\ (states[a] \in K <=> states'[a] \in K) => low' = low
      /\ states[a] \notin K /\ states'[a] \in K => low' = low + 1
      /\ states[a] \in K /\ states'[a] \notin K => low' = low - 1
  BY <1>0, Recount
<1>2. /\ low <= up
      /\ LowInv' <=> low' <= up'
  BY DEF LowInv
<1>3. "Failed" \notin K /\ "Waking" \notin K /\ "Suspended" \notin K /\ "Running" \in K
  BY DEF UpStates
<1>4. \/ up' = up /\ (states[a] \in K <=> states'[a] \in K)
      \/ up' = up /\ states'[a] = "Failed"
      \/ up' = up + 1 /\ states[a] = "Waking" /\ states'[a] = "Running"
      \/ up' = up - 1 /\ states[a] \in K /\ states'[a] = "Suspended"
      \/ up' = up /\ states'[a] = "Waking"
  BY DEF Graded
<1> HIDE DEF K, low
<1> QED
  BY <1>0, <1>1, <1>2, <1>3, <1>4

(* It also keeps the upper count, if no agent falls due and none that lands   *)
(* is due.                                                                   *)
LEMMA GradedSettles ==
    ASSUME TypeOK, NEW k \in Nat, HighInv(k), NEW a \in Agent, Graded(a), Due' \subseteq Due,
           \A b \in Agent : b # a => (b \in Due <=> b \in Due'),
           up' = up + 1 => a \notin Due'
    PROVE  HighInv(k)'
<1>0. up \in Int /\ states[a] \in States
  BY DEF TypeOK, GridType
<1>1. /\ Settled \in SUBSET Agent /\ Settled' \in SUBSET Agent
      /\ \A b \in Agent : b # a => (b \in Settled <=> b \in Settled')
  BY DEF Settled, Graded
<1>2. \/ up' <= up /\ (a \in Settled => a \in Settled')
      \/ up' = up + 1 /\ a \notin Settled /\ a \in Settled'
      \/ up' = up - 1
  <2>1. a \in Settled => states[a] \in UpStates \cup {"Failed"}
    BY <1>0 DEF Settled, States, UpStates
  <2> QED
    BY <1>0, <2>1 DEF Graded, Settled, UpStates
<1>3. /\ IsFiniteSet(Settled) /\ Cardinality(Settled) \in Nat
      /\ IsFiniteSet(Settled') /\ Cardinality(Settled') \in Nat
  BY <1>1, AgentCount
<1>4. /\ up <= Cardinality(Settled) + k
      /\ HighInv(k)' <=> up' <= Cardinality(Settled') + k
  BY DEF HighInv
<1>5. CASE up' <= up /\ (a \in Settled => a \in Settled')
  <2>1. Settled \subseteq Settled'
    BY <1>1, <1>5
  <2>2. Cardinality(Settled) <= Cardinality(Settled')
    BY <1>3, <2>1, FS_Subset
  <2>3. up' \in Int
    BY <1>0 DEF Graded
  <2> QED
    BY <1>0, <1>3, <1>4, <1>5, <2>2, <2>3
<1>6. CASE up' = up + 1 /\ a \notin Settled /\ a \in Settled'
  <2>1. Settled' = Settled \cup {a}
    BY <1>1, <1>6
  <2>2. Cardinality(Settled') = Cardinality(Settled) + 1
    BY <1>3, <1>6, <2>1, FS_AddElement
  <2> QED
    BY <1>0, <1>3, <1>4, <1>6, <2>2
<1>7. CASE up' = up - 1
  <2>1. Settled \ {a} \subseteq Settled' /\ IsFiniteSet(Settled \ {a})
    BY <1>1, <1>3, FS_RemoveElement
  <2>2. Cardinality(Settled \ {a}) >= Cardinality(Settled) - 1
    <3>1. CASE a \in Settled
      <4>1. Cardinality(Settled \ {a}) = Cardinality(Settled) - 1
        BY <1>3, <3>1, FS_RemoveElement
      <4> QED
        BY <1>3, <4>1
    <3>2. CASE a \notin Settled
      <4>1. Settled \ {a} = Settled
        BY <3>2
      <4> QED
        BY <1>3, <4>1
    <3> QED
      BY <3>1, <3>2
  <2>3. /\ Cardinality(Settled \ {a}) <= Cardinality(Settled')
        /\ Cardinality(Settled \ {a}) \in Nat
    BY <1>3, <2>1, FS_Subset, FS_CardinalityType
  <2> QED
    BY <1>0, <1>3, <1>4, <1>7, <2>2, <2>3
<1> QED
  BY <1>2, <1>5, <1>6, <1>7

(* No goroutine's step makes an agent due, and only its own makes it no       *)
(* longer due.                                                               *)
LEMMA DueFalls ==
    ASSUME TypeOK, NEW t \in Thread, ThreadStep(t)
    PROVE  /\ Due' \subseteq Due
           /\ \A b \in Agent : b # AgentOf(t) => (b \in Due <=> b \in Due')
           /\ Kind(t) = "life" => AgentOf(t) \notin Due'
<1>1. PICK p : /\ GridStep(t, AgentOf(t), p)
               /\ \/ Moves(t, AgentOf(t), p) \/ Asks(t, AgentOf(t), p) \/ Releases(t, p)
                  \/ Pauses(t, AgentOf(t), p) \/ Claims(t, AgentOf(t), p)
                  \/ Starts(t, AgentOf(t), p)
  BY ThreadGrid
<1>2. pc'[t] = p /\ \A u \in Thread : u # t => pc'[u] = pc[u]
  BY <1>1 DEF GridStep, Goto, TypeOK, PcType
<1>3. p # "start"
  <2>1. p = "start" => Kind(t) = "life"
    <3>1. PcType'
      BY TypeStep DEF TypeOK, Next
    <3>2. p \in PcsOf(Kind(t)) /\ Kind(t) \in {"life", "sweep", "fix", "wave", "plain", "over", "duty"}
      BY <1>2, <3>1, ThreadShape DEF PcType
    <3> QED
      BY <3>2 DEF PcsOf, WakePcs, ReqPcs, RestPcs
  <2> QED
    BY <1>1, <2>1 DEF Moves, Asks, Releases, Pauses, Claims, Starts
<1>4. \A b \in Agent : Life(b) \in Thread /\ (Life(b) = t => AgentOf(t) = b)
  BY DEF Life, Thread, AgentOf, Kind
<1>5. Kind(t) = "life" => t = Life(AgentOf(t))
  BY DEF Life, Thread, AgentOf, Kind
<1> QED
  BY <1>2, <1>3, <1>4, <1>5 DEF Due

(* While an agent is due the burst is still waking, and no worker wakes one.  *)
LEMMA DueIsQuiet ==
    ASSUME GridInv, Due # {}
    PROVE  /\ ctl.pc = "join" /\ ~burst.wakeDone
           /\ \A w \in Workers : pc[Duty(w)] \notin WakePcs
<1>0. TypeOK /\ DutyInv /\ SweepInv /\ FixInv /\ JoinInv /\ LifeInv /\ ControlInv
  BY DEF GridInv, DutyInv
<1>1. PICK b \in Agent : pc[Life(b)] = "start"
  BY DEF Due
<1>2. Life(b) \in Thread /\ Kind(Life(b)) = "life"
  BY DEF Life, Thread, Kind
<1>3. ctl.pc = "join" /\ ~burst.wakeDone
  BY <1>0, <1>1, <1>2 DEF LifeInv, JoinInv, Unwoken
<1>4. Quiet
  BY <1>0, <1>3 DEF JoinInv, ControlInv, Quiet
<1> QED
  BY <1>0, <1>3, <1>4, Unheld, DutyThread DEF HolderPcs

(* A thread's step counts the sandbox it wakes or puts to rest.              *)
LEMMA ThreadCounts ==
    ASSUME TypeOK, LockInv, NEW t \in Thread, ThreadStep(t),
           pc[t] = "claim" => states[AgentOf(t)] # "Waking"
    PROVE  /\ Graded(AgentOf(t))
           /\ up' <= up \/ LifeLand(t)
           /\ states'[AgentOf(t)] = "Waking" => states[AgentOf(t)] = "Waking" \/ LifeStart(t)
           /\ LifeLand(t) \/ (pc[t] \in WakePcs => pc'[t] \in WakePcs)
<1> DEFINE a == AgentOf(t)
           from == states[a]
           to == states'[a]
<1>0. PcType /\ a \in Agent /\ states \in [Agent -> States] /\ up \in Int
  BY AgentOfType DEF TypeOK, GridType
<1>s. /\ \A s : Set(a, s) => states'[a] = s /\ \A b \in Agent : b # a => states'[b] = states[b]
      /\ UNCHANGED states => states'[a] = states[a] /\ \A b \in Agent : states'[b] = states[b]
  BY <1>0 DEF Set
<1>p. \A p : Goto(t, p) => pc'[t] = p
  BY <1>0 DEF Goto, PcType
<1>g. ASSUME \A b \in Agent : b # a => states'[b] = states[b],
             \/ up' = up /\ from = to
             \/ up' = up /\ from \in UpStates /\ to \in UpStates
             \/ up' = up /\ from = "Suspended" /\ to = "Waking"
             \/ up' = up /\ to = "Failed"
             \/ up' = up + 1 /\ from = "Waking" /\ to = "Running"
             \/ up' = up - 1 /\ from \in UpStates /\ to = "Suspended"
             \/ up' = up /\ to = "Waking" /\ a \in Due
      PROVE  Graded(a)
  BY <1>g DEF Graded, UpStates
<1>h. Kind(t) # "fix" /\ pc[t] \in RestPcs => from = "Suspending"
  BY DEF LockInv, Holds
<1>w. Kind(t) # "fix" /\ pc[t] \in WakePcs => from = "Waking"
  BY DEF LockInv, Holds
<1> HIDE DEF a
<1>1. CASE wakeRPC(t)
  <2>1. PICK o \in ResumeOutcomes(ate[a]) : Goto(t, o[1])
    BY <1>1 DEF wakeRPC, a
  <2>2. pc'[t] \in WakePcs
    BY <1>0, <1>p, <2>1, RPCOutcomes DEF TypeOK, RestType, WakePcs
  <2> QED
    BY <1>0, <1>1, <1>s, <1>g, <2>2 DEF wakeRPC, a
<1>2. CASE restRPC(t) \/ waitNotBusy(t) \/ AcquireSem(t) \/ BackOff(t) \/ SendAgain(t) \/ WaveCheck(t)
           \/ recreate(t)
  <2>1. UNCHANGED <<states, up>> /\ pc[t] \notin WakePcs
    BY <1>2 DEF restRPC, waitNotBusy, AcquireSem, BackOff, SendAgain, WaveCheck, recreate, grid, WakePcs
  <2> QED
    BY <1>0, <1>s, <1>g, <2>1 DEF a
<1>3. CASE FirstJoke(t)
  <2>1. pc[t] \notin WakePcs /\ up' = up
    BY <1>3 DEF FirstJoke, WakePcs
  <2>2. UNCHANGED states \/ (from = "Running" /\ Set(a, "Requesting"))
    BY <1>3 DEF FirstJoke, a
  <2> QED
    BY <1>0, <1>s, <1>g, <2>1, <2>2 DEF a, UpStates
<1>4. CASE FirstJokeDone(t)
  <2>1. pc[t] \notin WakePcs /\ up' = up
    BY <1>4 DEF FirstJokeDone, EndRequest, WakePcs
  <2>2. (from = "Requesting" /\ to = "Running") \/ from = to
    BY <1>0, <1>4, <1>s DEF FirstJokeDone, BackToRunning, a
  <2>3. \A b \in Agent : b # a => states'[b] = states[b]
    BY <1>4, <1>s DEF FirstJokeDone, BackToRunning, a
  <2> QED
    BY <1>0, <1>g, <2>1, <2>2, <2>3 DEF a, UpStates
<1>5. CASE trafficDone(t)
  <2>1. pc[t] \notin WakePcs /\ up' = up
    BY <1>5 DEF trafficDone, EndRequest, WakePcs
  <2>2. (from = "Requesting" /\ Set(a, "Running")) \/ Set(a, from)
    BY <1>5 DEF trafficDone, a
  <2> QED
    BY <1>0, <1>s, <1>g, <2>1, <2>2 DEF a, UpStates
<1>6. CASE dutyPauseClaim(t)
  <2>1. pc[t] \notin WakePcs /\ up' = up
    BY <1>6 DEF dutyPauseClaim, WakePcs
  <2>2. UNCHANGED states \/ (from = "Running" /\ Set(a, "Suspending"))
    BY <1>6 DEF dutyPauseClaim, a
  <2> QED
    BY <1>0, <1>s, <1>g, <2>1, <2>2 DEF a, UpStates
<1>7. CASE dutyPauseLand(t) \/ suspendLand(t)
  <2>1. pc[t] \in {"restOk", "restErr", "restBad"} /\ Kind(t) # "fix"
    BY <1>7 DEF dutyPauseLand, suspendLand
  <2>2. from = "Suspending" /\ pc[t] \notin WakePcs
    BY <1>h, <2>1 DEF RestPcs, WakePcs
  <2>3. \/ Set(a, "Failed") /\ up' = up
        \/ Set(a, "Running") /\ up' = up
        \/ Set(a, "Suspended") /\ up' = up - 1
    BY <1>7, <2>2 DEF dutyPauseLand, suspendLand, markBroken, a
  <2> QED
    BY <1>0, <1>s, <1>g, <2>2, <2>3 DEF a, UpStates
<1>8. CASE suspendClaim(t)
  <2>1. pc[t] \notin WakePcs /\ up' = up /\ from # "Waking"
    BY <1>8 DEF suspendClaim, WakePcs, a
  <2>2. UNCHANGED states \/ (from \in {"Running", "Requesting"} /\ Set(a, "Suspending"))
    BY <1>8, <2>1 DEF suspendClaim, a
  <2> QED
    BY <1>0, <1>s, <1>g, <2>1, <2>2 DEF a, UpStates
<1>9. CASE fixLand(t)
  <2>1. pc[t] \notin WakePcs /\ up' = up
    BY <1>9 DEF fixLand, markBroken, grid, WakePcs
  <2>2. UNCHANGED states \/ (ctl.op = "suspend" /\ Set(a, "Failed"))
    BY <1>9 DEF fixLand, markBroken, grid, a
  <2> QED
    BY <1>0, <1>9, <1>s, <1>g, <2>1, <2>2 DEF a
<1>10. CASE LifeStart(t)
  <2>1. pc[t] \notin WakePcs /\ up' = up /\ Set(a, "Waking") /\ pc[t] = "start"
    BY <1>10 DEF LifeStart, WakePcs, a
  <2>2. a \in Due
    <3>1. Kind(t) = "life"
      BY <1>0, <2>1, PcKind
    <3>2. t = Life(a)
      BY <3>1 DEF Life, Thread, AgentOf, Kind, a
    <3> QED
      BY <1>0, <2>1, <3>2 DEF Due, a
  <2> QED
    BY <1>0, <1>10, <1>s, <1>g, <2>1, <2>2 DEF a
<1>11. CASE LifeLand(t)
  <2>1. from = "Waking"
    BY <1>11, <1>w DEF LifeLand, WakePcs
  <2>2. \/ Set(a, "Running") /\ up' = up + 1
        \/ Set(a, "Failed") /\ up' = up
    BY <1>11 DEF LifeLand, a
  <2> QED
    BY <1>0, <1>11, <1>s, <1>g, <2>1, <2>2 DEF a
<1> QED
  BY <1>1, <1>2, <1>3, <1>4, <1>5, <1>6, <1>7, <1>8, <1>9, <1>10, <1>11 DEF ThreadStep

(* So does a worker's: it claims an agent at rest and wakes it.              *)
LEMMA WorkerCounts ==
    ASSUME TypeOK, NEW w \in Workers, WorkerStep(w)
    PROVE  /\ \E a \in Agent :
                /\ Graded(a)
                /\ pc[Duty(w)] \in WakePcs => AgentOf(Duty(w)) = a /\ states'[a] # "Waking"
                /\ states'[a] = "Waking" => \/ states[a] = "Waking"
                                            \/ pc'[Duty(w)] \in WakePcs /\ AgentOf(Duty(w))' = a
           /\ up' <= up \/ pc[Duty(w)] \in WakePcs
<1> DEFINE t == Duty(w)
           Fits(a) == /\ Graded(a)
                      /\ pc[t] \in WakePcs => AgentOf(t) = a /\ states'[a] # "Waking"
                      /\ states'[a] = "Waking" => \/ states[a] = "Waking"
                                                  \/ pc'[t] \in WakePcs /\ AgentOf(t)' = a
<1>0. /\ t \in Thread /\ t[2] = w /\ AgentOf(t) \in Agent /\ AgentOf(t) = work[w].agent
      /\ states \in [Agent -> States] /\ up \in Int /\ PcType
      /\ work \in [Workers -> [agent : Agent, b : 0..MaxBursts, counted : BOOLEAN]]
  BY DutyThread, AgentOfType DEF TypeOK, AgentOf, GridType, WorkType
<1>s. /\ \A a \in Agent : \A s : Set(a, s) => states'[a] = s /\ \A b \in Agent : b # a => states'[b] = states[b]
      /\ UNCHANGED states => \A b \in Agent : states'[b] = states[b]
  BY <1>0 DEF Set
<1>p. \A p : Goto(t, p) => pc'[t] = p
  BY <1>0 DEF Goto, PcType
<1>o. \A v \in Workers : v # w => work'[v] = work[v]
  BY <1>0 DEF WorkerStep, dutyOverCap, dutyPick, dutyWake, dutyWakeLand, dutyAsk, dutyAskDone, dutyReturn
<1>5. AgentOf(t)' = work'[w].agent
  BY <1>o, OtherAgents
<1>g. ASSUME NEW a \in Agent,
             \A b \in Agent : b # a => states'[b] = states[b],
             \/ up' = up /\ states[a] = states'[a]
             \/ up' = up /\ states[a] \in UpStates /\ states'[a] \in UpStates
             \/ up' = up /\ states[a] \in {"Suspended", "Waking"} /\ states'[a] \in {"Suspended", "Waking"}
             \/ up' = up /\ states'[a] = "Failed"
             \/ up' = up + 1 /\ states[a] = "Waking" /\ states'[a] = "Running"
      PROVE  Graded(a)
  BY <1>g DEF Graded, UpStates
<1> SUFFICES (\E a \in Agent : Fits(a)) /\ (up' <= up \/ pc[t] \in WakePcs)
  OBVIOUS
<1> HIDE DEF t
<1>1. CASE dutyOverCap(w) \/ dutyPick(w) \/ dutyReturn(w)
  <2>1. UNCHANGED <<states, up>> /\ pc[t] \notin WakePcs
    BY <1>1 DEF dutyOverCap, dutyPick, dutyReturn, grid, WakePcs, t
  <2>2. Graded(AgentOf(t))
    BY <1>0, <1>s, <1>g, <2>1
  <2> QED
    BY <1>0, <1>s, <2>1, <2>2
<1>2. CASE dutyWake(w)
  <2>1. PICK a \in Agent : /\ states[a] = "Suspended" /\ Set(a, "Waking")
                           /\ work' = [work EXCEPT ![w] = [agent |-> a, b |-> cur, counted |-> TRUE]]
    BY <1>2 DEF dutyWake
  <2>2. work'[w].agent = a
    BY <1>0, <2>1
  <2>3. up' = up /\ pc[t] \notin WakePcs /\ pc'[t] \in WakePcs
    BY <1>2, <1>p DEF dutyWake, WakePcs, t
  <2>4. Graded(a)
    BY <1>s, <1>g, <2>1, <2>3
  <2>5. Fits(a)
    BY <1>2, <1>5, <2>2, <2>3, <2>4
  <2> QED
    BY <1>0, <2>3, <2>5
<1>3. CASE dutyWakeLand(w)
  <2> DEFINE a == AgentOf(t)
  <2>1. /\ pc[t] \in WakePcs
        /\ \/ UNCHANGED <<states, up>> /\ states[a] # "Waking"
           \/ states[a] = "Waking" /\ Set(a, "Failed") /\ up' = up
           \/ states[a] = "Waking" /\ Set(a, "Suspended") /\ up' = up
           \/ states[a] = "Waking" /\ Set(a, "Running") /\ up' = up + 1
    BY <1>3 DEF dutyWakeLand, markBroken, grid, WakePcs, t
  <2> HIDE DEF a
  <2>2. a \in Agent
    BY <1>0 DEF a
  <2>3. Graded(a)
    BY <1>s, <1>g, <2>1, <2>2
  <2>4. states'[a] # "Waking"
    BY <1>s, <2>1, <2>2
  <2> QED
    BY <2>1, <2>2, <2>3, <2>4 DEF a
<1>4. CASE dutyAsk(w) \/ dutyAskDone(w)
  <2> DEFINE a == AgentOf(t)
  <2>1. /\ pc[t] \notin WakePcs /\ up' = up
        /\ \/ UNCHANGED states
           \/ states[a] = "Running" /\ Set(a, "Requesting")
           \/ BackToRunning(a)
    BY <1>4 DEF dutyAsk, dutyAskDone, EndRequest, WakePcs, t
  <2> HIDE DEF a
  <2>2. a \in Agent
    BY <1>0 DEF a
  <2>3. /\ \A b \in Agent : b # a => states'[b] = states[b]
        /\ states'[a] = states[a] \/ (states[a] \in UpStates /\ states'[a] \in UpStates)
    BY <1>s, <2>1, <2>2 DEF BackToRunning, UpStates
  <2>4. Graded(a)
    BY <1>g, <2>1, <2>2, <2>3
  <2>5. Fits(a)
    BY <2>1, <2>3, <2>4 DEF UpStates
  <2> QED
    BY <1>0, <2>1, <2>2, <2>5
<1> QED
  BY <1>1, <1>2, <1>3, <1>4 DEF WorkerStep

(* Outside a thread's own steps, only applyStates and a start of the driver   *)
(* draw the grid anew, and they count what they draw.                        *)
LEMMA DrawnCounts ==
    ASSUME NEW st \in [Agent -> AteStates], NEW bad, NEW g, g = GridOf(st, bad)
    PROVE  /\ Cardinality({a \in Agent : g[a] \in UpStates}) <= UpOf(st)
           /\ UpOf(st) <= Cardinality({a \in Agent : g[a] \in UpStates \cup {"Failed"}})
           /\ \A a \in Agent : g[a] # "Waking"
<1> DEFINE K == {a \in Agent : g[a] \in UpStates}
           L == {a \in Agent : g[a] \in UpStates \cup {"Failed"}}
           U == {a \in Agent : gridState(st[a]) \in {"Running", "Suspending"}}
<1>1. \A s \in AteStates : gridState(s) \in {"Running", "Suspending", "Failed", "Suspended"}
  BY DEF gridState, AteStates
<1>2. \A a \in Agent : g[a] = IF a \in bad THEN "Failed" ELSE gridState(st[a])
  BY DEF GridOf
<1>3. K \subseteq U /\ U \subseteq L
  BY <1>1, <1>2 DEF UpStates
<1>4. U \in SUBSET Agent /\ L \in SUBSET Agent
  OBVIOUS
<1>5. IsFiniteSet(U) /\ IsFiniteSet(L)
  BY <1>4, AgentCount
<1>6. Cardinality(K) <= Cardinality(U) /\ Cardinality(U) <= Cardinality(L)
  BY <1>3, <1>5, FS_Subset
<1>7. UpOf(st) = Cardinality(U)
  BY DEF UpOf
<1> QED
  BY <1>1, <1>2, <1>6, <1>7

(* The steps of an operation, of the operator and of steady traffic, and what *)
(* happens outside, wake and rest no agent of the grid.                      *)
AsShown == up' = up /\ \A a \in Agent :
    states'[a] = states[a] \/ {states[a], states'[a]} \subseteq {"Running", "Requesting"}
Redrawn == /\ FreshCount' /\ \A a \in Agent : states'[a] # "Waking"
           /\ Restart \/ ctl.pc \in {"apply", "judge"}

LEMMA OtherCounts ==
    ASSUME TypeOK, LifeInv, trafficLoop \/ pickIdle \/ Control \/ Operator \/ Outside \/ UNCHANGED vars
    PROVE  /\ AsShown \/ Redrawn
           /\ Restart \/ \A u \in Thread : pc[u] \in WakePcs => pc'[u] = pc[u] /\ AgentOf(u)' = AgentOf(u)
           /\ BurstGo \/ \A u \in Thread : pc'[u] = "start" => pc[u] = "start"
<1>0. /\ PcType /\ states \in [Agent -> States] /\ ate \in [Agent -> AteStates]
      /\ ctl \in CtlType
  BY DEF TypeOK, GridType, RestType, OpType, CtlType
<1>k. \A u \in Thread : pc[u] \in WakePcs => Kind(u) \in {"life", "duty"}
  BY <1>0, PcKind
<1>1. CASE trafficLoop \/ pickIdle
  <2>1. \A u \in Thread : pc[u] \in WakePcs => pc'[u] = pc[u] /\ AgentOf(u)' = AgentOf(u)
    BY <1>1, <1>k, TrafficMoves DEF AgentOf
  <2>2. \A u \in Thread : pc'[u] = "start" => pc[u] = "start"
    <3>1. CASE trafficLoop
      BY <3>1 DEF trafficLoop, thr
    <3>2. CASE pickIdle
      BY <1>0, <3>2 DEF pickIdle, BeginRequest, Goto, PcType
    <3> QED
      BY <1>1, <3>1, <3>2
  <2>3. AsShown
    <3>1. CASE trafficLoop
      BY <3>1 DEF trafficLoop, grid, AsShown
    <3>2. CASE pickIdle /\ Pickable = {}
      BY <3>2 DEF pickIdle, AsShown
    <3>3. CASE pickIdle /\ Pickable # {}
      BY <1>0, <3>3 DEF pickIdle, Pickable, Eligible, Set, AsShown
    <3> QED
      BY <1>1, <3>1, <3>2, <3>3
  <2> QED
    BY <2>1, <2>2, <2>3
<1>2. CASE Control
  <2>1. \A u \in Thread : pc[u] \in WakePcs => pc'[u] = pc[u] /\ AgentOf(u)' = AgentOf(u)
    <3> SUFFICES ASSUME NEW u \in Thread, pc[u] \in WakePcs PROVE pc'[u] = pc[u] /\ work' = work
      BY DEF AgentOf
    <3>1. BurstGo => Kind(u) # "life"
      BY DEF BurstGo, LifeInv, WakePcs
    <3> QED
      BY <1>2, <1>k, <3>1, ControlMoves
  <2>2. BurstGo \/ \A u \in Thread : pc'[u] = "start" => pc[u] = "start"
    BY <1>2 DEF Control, PreflightList, PreflightRelist, PreflightCreate, PreflightFinal,
       PreflightApply, BurstDecide, BurstEnd, SuspendPass1, SuspendDrain, SuspendPasses, VerifyList,
       VerifyDecide, Spawn, thr
  <2>3. CASE UNCHANGED <<states, up>>
    BY <2>1, <2>2, <2>3 DEF AsShown
  <2>4. CASE applyStates(ctl.list) /\ ctl.pc \in {"apply", "judge"}
    <3>1. ctl.list \in [Agent -> AteStates]
      BY <1>0 DEF CtlType
    <3>2. Redrawn
      BY <2>4, <3>1, DrawnCounts DEF applyStates, Redrawn, FreshCount, LowInv, ShownAs
    <3> QED
      BY <2>1, <2>2, <3>2
  <2>5. UNCHANGED <<states, up>> \/ (applyStates(ctl.list) /\ ctl.pc \in {"apply", "judge"})
    BY <1>2 DEF Control, PreflightList, PreflightRelist, PreflightCreate, PreflightFinal,
       PreflightApply, BurstDecide, BurstGo, BurstEnd, SuspendPass1, SuspendDrain, SuspendPasses,
       VerifyList, VerifyDecide, grid
  <2> QED
    BY <2>3, <2>4, <2>5
<1>3. CASE Operator
  <2>1. UNCHANGED <<work, states, up>>
    BY <1>3 DEF Operator, startBurst, startReconcile, simulateTraffic, setStrategy, startSuspendAll,
       setTraffic, SetRateAndCycle, grid, thr
  <2>2. \A u \in Thread : pc'[u] = pc[u] \/ (Kind(u) = "wave" /\ pc'[u] \in {"first", "check"})
    BY <1>3, OperatorMoves DEF startBurst, startReconcile, startSuspendAll, RateMoves, thr
  <2>3. \A u \in Thread : pc[u] \in WakePcs => pc'[u] = pc[u] /\ AgentOf(u)' = AgentOf(u)
    BY <1>k, <2>1, <2>2 DEF AgentOf
  <2>4. \A u \in Thread : pc'[u] = "start" => pc[u] = "start"
    BY <2>2
  <2> QED
    BY <2>1, <2>3, <2>4 DEF AsShown
<1>4. CASE Restart
  <2>1. Redrawn
    <3>1. CASE states' = GridOf(ate, {}) /\ up' = UpOf(ate)
      BY <1>0, <1>4, <3>1, DrawnCounts DEF Redrawn, FreshCount, LowInv, ShownAs
    <3>2. CASE states' = [a \in Agent |-> "Suspended"] /\ up' = 0
      <4>1. ShownAs(UpStates)' = {} /\ ShownAs(UpStates \cup {"Failed"})' = {}
        BY <3>2 DEF ShownAs, UpStates
      <4>2. FreshCount'
        BY <3>2, <4>1, FS_EmptySet DEF FreshCount, LowInv
      <4> QED
        BY <1>4, <3>2, <4>2 DEF Redrawn
    <3>3. PICK listed \in BOOLEAN : Started(ate, listed)
      BY <1>4 DEF Restart, ListFails
    <3> QED
      BY <3>1, <3>2, <3>3 DEF Started
  <2>2. \A u \in Thread : pc'[u] # "start"
    BY <1>4, RestartMoves
  <2> QED
    BY <1>4, <2>1, <2>2
<1>5. CASE UNCHANGED vars \/ \E a \in Agent : AteLands(a) \/ AteCrashes(a)
  <2>1. UNCHANGED <<pc, work, states, up>>
    BY <1>5 DEF vars, grid, thr, AteLands, AteCrashes
  <2> QED
    BY <2>1 DEF AsShown, AgentOf
<1> QED
  BY <1>1, <1>2, <1>3, <1>4, <1>5 DEF Outside

(* suspendOne never claims an agent that is being woken: a life of a burst    *)
(* that does not hold does so after its own wake, suspend-all's first pass    *)
(* only agents that run, and its later ones when no wake is under way.        *)
LEMMA ClaimsNoWake ==
    ASSUME TypeOK, DutyInv, HoldInv, SweepInv, FixInv, WakingInv, NEW t \in Thread, pc[t] = "claim"
    PROVE  states[AgentOf(t)] # "Waking"
<1> SUFFICES ASSUME states[AgentOf(t)] = "Waking" PROVE FALSE
  OBVIOUS
<1>1. AgentOf(t) \in Agent /\ PcType
  BY AgentOfType DEF TypeOK
<1>2. PICK u \in Thread : pc[u] \in WakePcs /\ AgentOf(u) = AgentOf(t)
  BY <1>1 DEF WakingInv
<1>3. Kind(u) \in {"life", "duty"} /\ Kind(t) \in {"life", "sweep"} /\ u # t
  BY <1>1, <1>2, PcKind DEF WakePcs
<1>4. pc[u] \in HolderPcs
  BY <1>2 DEF HolderPcs
<1>5. CASE Kind(t) = "life"
  <2>1. ctl.pc = "join" /\ ~burst.args.hold
    BY <1>5 DEF DutyInv, LifeInv, HoldInv
  <2>2. Quiet
    BY <2>1 DEF DutyInv, ControlInv, Quiet
  <2>3. Kind(u) = "life"
    BY <1>3, <1>4, <2>2, Unheld
  <2> QED
    BY <1>2, <1>3, <1>5, <2>3, OneOfAKind
<1>6. CASE Kind(t) = "sweep"
  <2>1. ctl.pc = "passes"
    <3>1. t[2] = AgentOf(t)
      BY <1>6 DEF AgentOf
    <3> QED
      BY <1>6, <3>1 DEF SweepInv
  <2>2. Quiet
    BY <2>1 DEF Quiet
  <2>3. Kind(u) = "life" /\ ctl.pc = "join"
    BY <1>3, <1>4, <2>2, Unheld
  <2> QED
    BY <2>1, <2>3
<1> QED
  BY <1>3, <1>5, <1>6

(* A thread's step grades its own agent, a worker's the one it picks.        *)
LEMMA Grades ==
    ASSUME GridInv, WakingInv, [Next]_vars,
           ~(trafficLoop \/ pickIdle \/ Control \/ Operator \/ Outside \/ UNCHANGED vars)
    PROVE  \E a \in Agent : /\ Graded(a) /\ Due' \subseteq Due
                            /\ \A b \in Agent : b # a => (b \in Due <=> b \in Due')
                            /\ up' = up + 1 => a \notin Due'
<1>0. /\ TypeOK /\ DutyInv /\ LifeInv /\ HoldInv /\ SweepInv /\ FixInv /\ LockInv /\ up \in Int
  BY DEF GridInv, DutyInv, TypeOK, GridType
<1>1. ASSUME NEW t \in Thread, ThreadStep(t)
      PROVE  \E a \in Agent : /\ Graded(a) /\ Due' \subseteq Due
                              /\ \A b \in Agent : b # a => (b \in Due <=> b \in Due')
                              /\ up' = up + 1 => a \notin Due'
  <2>1. Graded(AgentOf(t)) /\ (up' <= up \/ LifeLand(t)) /\ AgentOf(t) \in Agent
    BY <1>0, <1>1, ClaimsNoWake, ThreadCounts, AgentOfType DEF TypeOK
  <2>2. up' = up + 1 => Kind(t) = "life"
    BY <1>0, <2>1 DEF LifeLand
  <2> QED
    BY <1>0, <1>1, <2>1, <2>2, DueFalls
<1>2. ASSUME NEW w \in Workers, WorkerStep(w)
      PROVE  \E a \in Agent : /\ Graded(a) /\ Due' \subseteq Due
                              /\ \A b \in Agent : b # a => (b \in Due <=> b \in Due')
                              /\ up' = up + 1 => a \notin Due'
  <2>1. PICK a \in Agent : Graded(a)
    BY <1>0, <1>2, WorkerCounts
  <2>2. Due' = Due
    <3>1. \A b \in Agent : Life(b) \in Thread /\ Life(b) # Duty(w)
      BY DEF Life, Duty, Thread
    <3> QED
      BY <1>0, <1>2, <3>1, WorkerMoves DEF Due
  <2>3. up' = up + 1 => Due = {}
    <3>1. up' <= up \/ pc[Duty(w)] \in WakePcs
      BY <1>0, <1>2, WorkerCounts
    <3> QED
      BY <1>0, <3>1, DueIsQuiet
  <2> QED
    BY <2>1, <2>2, <2>3
<1> QED
  BY <1>1, <1>2 DEF Next

LEMMA LowInvStep ==
    ASSUME GridInv, LowInv, WakingInv, [Next]_vars
    PROVE  LowInv'
<1>0. TypeOK /\ LifeInv
  BY DEF GridInv, DutyInv
<1>1. CASE trafficLoop \/ pickIdle \/ Control \/ Operator \/ Outside \/ UNCHANGED vars
  <2>1. CASE AsShown
    <3>1. ShownAs(UpStates)' = ShownAs(UpStates)
      BY <2>1 DEF AsShown, ShownAs, UpStates
    <3> QED
      BY <2>1, <3>1 DEF AsShown, LowInv
  <2> QED
    BY <1>0, <1>1, <2>1, OtherCounts DEF Redrawn, FreshCount
<1>2. CASE ~(trafficLoop \/ pickIdle \/ Control \/ Operator \/ Outside \/ UNCHANGED vars)
  <2>1. PICK a \in Agent : Graded(a)
    BY <1>2, Grades
  <2> QED
    BY <1>0, <2>1, GradedKeeps
<1> QED
  BY <1>1, <1>2

LEMMA HighInvStep ==
    ASSUME NEW k \in Nat, GridInv, WakingInv, HighInv(k), [Next]_vars, BurstGo => up <= k
    PROVE  HighInv(k)'
<1>0. TypeOK /\ LifeInv /\ up \in Int
  BY DEF GridInv, DutyInv, TypeOK, GridType
<1>1. /\ IsFiniteSet(Settled) /\ Cardinality(Settled) \in Nat
      /\ IsFiniteSet(Settled') /\ Cardinality(Settled') \in Nat
  <2>1. Settled \in SUBSET Agent /\ Settled' \in SUBSET Agent
    BY DEF Settled
  <2> QED
    BY <2>1, AgentCount
<1>2. CASE BurstGo
  <2>1. up' = up
    BY <1>2 DEF BurstGo, grid
  <2> QED
    BY <1>0, <1>1, <1>2, <2>1 DEF HighInv
<1>3. CASE (trafficLoop \/ pickIdle \/ Control \/ Operator \/ Outside \/ UNCHANGED vars) /\ ~BurstGo
  <2>1. AsShown \/ Redrawn
    BY <1>0, <1>3, OtherCounts
  <2>2. Due' \subseteq Due
    <3>1. \A u \in Thread : pc'[u] = "start" => pc[u] = "start"
      BY <1>0, <1>3, OtherCounts
    <3>2. \A b \in Agent : Life(b) \in Thread
      BY DEF Life, Thread
    <3> QED
      BY <3>1, <3>2 DEF Due
  <2>3. CASE AsShown
    <3>1. Settled \subseteq Settled' /\ up' = up
      BY <2>2, <2>3 DEF AsShown, Settled
    <3>2. Cardinality(Settled) <= Cardinality(Settled')
      BY <1>1, <3>1, FS_Subset
    <3> QED
      BY <1>0, <1>1, <3>1, <3>2 DEF HighInv
  <2>4. CASE Redrawn
    <3> DEFINE L == ShownAs(UpStates \cup {"Failed"})
    <3>1. Due' = {}
      <4>1. CASE Restart
        <5>1. \A u \in Thread : pc'[u] = "idle"
          BY <1>0, <4>1, RestartMoves
        <5>2. \A b \in Agent : Life(b) \in Thread
          BY DEF Life, Thread
        <5> QED
          BY <5>1, <5>2 DEF Due
      <4>2. CASE ctl.pc \in {"apply", "judge"}
        <5>1. Due = {}
          BY <4>2, DueIsQuiet
        <5> QED
          BY <2>2, <5>1
      <4> QED
        BY <2>4, <4>1, <4>2 DEF Redrawn
    <3>2. L' \subseteq Settled'
      BY <3>1 DEF Settled, ShownAs, UpStates
    <3>3. Cardinality(L') <= Cardinality(Settled') /\ Cardinality(L') \in Nat
      BY <1>1, <3>2, FS_Subset, FS_CardinalityType
    <3>4. up' <= Cardinality(L')
      BY <2>4 DEF Redrawn, FreshCount
    <3>5. up' \in Int
      BY <1>0, TypeStep DEF TypeOK, GridType
    <3> HIDE DEF L
    <3> QED
      BY <1>1, <3>3, <3>4, <3>5 DEF HighInv
  <2> QED
    BY <2>1, <2>3, <2>4
<1>4. CASE ~(trafficLoop \/ pickIdle \/ Control \/ Operator \/ Outside \/ UNCHANGED vars)
  BY <1>0, <1>4, Grades, GradedSettles
<1> QED
  BY <1>2, <1>3, <1>4

LEMMA WakingInvStep ==
    ASSUME GridInv, WakingInv, [Next]_vars
    PROVE  WakingInv'
<1>0. /\ TypeOK /\ DutyInv /\ LifeInv /\ HoldInv /\ SweepInv /\ FixInv /\ LockInv
  BY DEF GridInv, DutyInv
<1> SUFFICES ASSUME NEW a \in Agent, states'[a] = "Waking"
             PROVE  \E u \in Thread : pc'[u] \in WakePcs /\ AgentOf(u)' = a
  BY DEF WakingInv
<1>1. ASSUME NEW t \in Thread, ThreadStep(t)
      PROVE  \E u \in Thread : pc'[u] \in WakePcs /\ AgentOf(u)' = a
  <2>1. /\ Graded(AgentOf(t))
        /\ states'[AgentOf(t)] = "Waking" => states[AgentOf(t)] = "Waking" \/ LifeStart(t)
        /\ LifeLand(t) \/ (pc[t] \in WakePcs => pc'[t] \in WakePcs)
    BY <1>0, <1>1, ClaimsNoWake, ThreadCounts
  <2>2. \A u \in Thread : AgentOf(u)' = AgentOf(u)
    BY <1>0, <1>1, ThreadMoves DEF AgentOf
  <2>3. \E p : Goto(t, p)
    BY <1>0, <1>1, ThreadMoves
  <2>4. \A u \in Thread : u # t => pc'[u] = pc[u]
    BY <1>0, <2>3 DEF Goto, TypeOK, PcType
  <2>5. CASE LifeStart(t) /\ a = AgentOf(t)
    <3>1. pc'[t] \in WakePcs
      BY <1>0, <2>5 DEF LifeStart, Goto, TypeOK, PcType, WakePcs
    <3> QED
      BY <2>2, <2>5, <3>1
  <2>6. CASE states[a] = "Waking"
    <3>1. PICK u \in Thread : pc[u] \in WakePcs /\ AgentOf(u) = a
      BY <2>6 DEF WakingInv
    <3>2. u = t => pc'[t] \in WakePcs
      <4>1. LifeLand(t) => states'[AgentOf(t)] # "Waking"
        <5>1. AgentOf(t) \in Agent /\ states \in [Agent -> States]
          BY <1>0, AgentOfType DEF TypeOK, GridType
        <5> QED
          BY <5>1 DEF LifeLand, Set
      <4> QED
        BY <2>1, <3>1, <4>1
    <3> QED
      BY <2>2, <2>4, <3>1, <3>2
  <2> QED
    BY <2>1, <2>5, <2>6 DEF Graded
<1>2. ASSUME NEW w \in Workers, WorkerStep(w)
      PROVE  \E u \in Thread : pc'[u] \in WakePcs /\ AgentOf(u)' = a
  <2> DEFINE t == Duty(w)
  <2>1. PICK b \in Agent :
          /\ Graded(b)
          /\ pc[t] \in WakePcs => AgentOf(t) = b /\ states'[b] # "Waking"
          /\ states'[b] = "Waking" => \/ states[b] = "Waking"
                                      \/ (pc'[t] \in WakePcs /\ AgentOf(t)' = b)
    BY <1>0, <1>2, WorkerCounts
  <2>2. t \in Thread /\ \A u \in Thread : u # t => pc'[u] = pc[u]
    BY <1>0, <1>2, WorkerMoves, DutyThread
  <2>3. \A v \in Workers : v # w => work'[v] = work[v]
    BY <1>0, <1>2 DEF WorkerStep, dutyOverCap, dutyPick, dutyWake, dutyWakeLand, dutyAsk, dutyAskDone,
       dutyReturn, TypeOK, WorkType
  <2>4. \A u \in Thread : u # t => AgentOf(u)' = AgentOf(u)
    BY <1>0, <2>3, OtherAgents
  <2> HIDE DEF t
  <2>5. CASE states[a] = "Waking"
    <3>1. PICK u \in Thread : pc[u] \in WakePcs /\ AgentOf(u) = a
      BY <2>5 DEF WakingInv
    <3>2. u # t
      BY <2>1, <3>1
    <3> QED
      BY <2>2, <2>4, <3>1, <3>2
  <2>6. CASE states[a] # "Waking"
    <3>1. a = b
      BY <2>1, <2>6 DEF Graded
    <3> QED
      BY <2>1, <2>2, <2>6, <3>1
  <2> QED
    BY <2>5, <2>6
<1>3. CASE trafficLoop \/ pickIdle \/ Control \/ Operator \/ Outside \/ UNCHANGED vars
  <2>1. /\ AsShown \/ Redrawn
        /\ Restart \/ \A u \in Thread : pc[u] \in WakePcs => pc'[u] = pc[u] /\ AgentOf(u)' = AgentOf(u)
    BY <1>0, <1>3, OtherCounts
  <2>2. ~Redrawn
    BY DEF Redrawn
  <2>3. states[a] = "Waking"
    BY <2>1, <2>2 DEF AsShown
  <2>4. ~Restart
    <3>1. CASE Restart
      <4>1. \A st \in [Agent -> AteStates] : GridOf(st, {})[a] # "Waking"
        <5>1. \A s \in AteStates : gridState(s) # "Waking"
          BY DEF gridState, AteStates
        <5> QED
          BY <5>1 DEF GridOf
      <4>2. ate \in [Agent -> AteStates]
        BY <1>0 DEF TypeOK, RestType
      <4> QED
        BY <3>1, <4>1, <4>2 DEF Restart, Started
    <3> QED
      BY <3>1
  <2> QED
    BY <2>1, <2>3, <2>4 DEF WakingInv
<1> QED
  BY <1>1, <1>2, <1>3 DEF Next

(* While a burst waits for its agents nothing but their landing counts one.   *)
LEMMA RunInvStep ==
    ASSUME NEW k \in Nat, GridInv, WakingInv, RunInv(k), JoinInv', [Next]_vars, BurstGo => up <= k
    PROVE  RunInv(k)'
<1>0. /\ TypeOK /\ DutyInv /\ LifeInv /\ HoldInv /\ SweepInv /\ FixInv /\ LockInv /\ JoinInv
      /\ CourseInv
  BY DEF GridInv, DutyInv, CourseInv
<1>b. /\ burst \in BurstType /\ up \in Int /\ ctl \in CtlType
      /\ ctl.pc = "join" => burst.woke \in Nat
  BY <1>0 DEF TypeOK, OpType, GridType, JoinInv, CtlType
<1>1. ASSUME ctl'.pc = "join" => ctl.pc = "join" /\ (~burst.wakeDone => up' <= up),
             burst'.args = burst.args, burst'.woke = burst.woke, burst'.wakeDone = burst.wakeDone,
             burst'.allRunning = burst.allRunning, up' \in Int
      PROVE  RunInv(k)'
  BY <1>0, <1>1, <1>b DEF RunInv, AllRunningWithin
<1>u. up' \in Int
  BY <1>0, TypeStep DEF TypeOK, GridType
<1>2. ASSUME NEW t \in Thread, ThreadStep(t) PROVE RunInv(k)'
  <2>1. CASE LifeLand(t)
    <3>1. t \in Unwoken /\ ctl.pc = "join" /\ UNCHANGED ctl
      BY <1>0, <2>1 DEF LifeLand, Unwoken, WakePcs, LifeInv
    <3>2. PICK woke, failed :
            /\ checkWakeDone(woke, failed)
            /\ \/ woke = burst.woke + 1 /\ failed = burst.failed /\ up' = up + 1
               \/ woke = burst.woke /\ failed = burst.failed + 1 /\ up' = up
      BY <2>1 DEF LifeLand
    <3>3. ~burst.wakeDone /\ up <= burst.woke + k
      BY <1>0, <3>1 DEF JoinInv, RunInv
    <3>4. /\ burst'.args = burst.args /\ burst'.woke = woke
          /\ burst'.allRunning <=> burst.allRunning \/ (woke > burst.woke /\ up' >= burst.args.total)
      BY <1>b, <3>2 DEF checkWakeDone, BurstType
    <3>5. up' <= woke + k /\ woke \in Nat /\ woke >= burst.woke
      BY <1>b, <3>1, <3>2, <3>3
    <3>6. burst.args.total \in Nat
      BY <1>b, ConstantAssumption DEF BurstType, ArgsType
    <3>7. burst'.allRunning => burst'.woke + k >= burst'.args.total
      <4>1. burst.allRunning => burst.woke + k >= burst.args.total
        BY <3>1 DEF RunInv, AllRunningWithin
      <4> QED
        BY <1>b, <1>u, <3>1, <3>4, <3>5, <3>6, <4>1
    <3> QED
      BY <3>4, <3>5, <3>7 DEF RunInv, AllRunningWithin
  <2>2. CASE ~LifeLand(t)
    <3>1. up' <= up
      BY <1>0, <1>2, <2>2, ClaimsNoWake, ThreadCounts
    <3>2. /\ ctl' = ctl /\ burst'.args = burst.args /\ burst'.woke = burst.woke
          /\ burst'.wakeDone = burst.wakeDone
      BY <1>0, <1>2, <2>2, CountedOnce
    <3>3. burst'.allRunning = burst.allRunning
      <4>1. suspendLand(t) => burst'.allRunning = burst.allRunning
        BY <1>b DEF suspendLand, BurstType
      <4>2. ~suspendLand(t) => UNCHANGED burst
        BY <1>2, <2>2 DEF ThreadStep, wakeRPC, restRPC, waitNotBusy, AcquireSem, BackOff, SendAgain,
           FirstJoke, FirstJokeDone, trafficDone, WaveCheck, dutyPauseClaim, dutyPauseLand,
           suspendClaim, recreate, fixLand, LifeStart, op
      <4> QED
        BY <4>1, <4>2
    <3> QED
      BY <1>1, <1>u, <3>1, <3>2, <3>3
  <2> QED
    BY <2>1, <2>2
<1>3. ASSUME NEW w \in Workers, WorkerStep(w) PROVE RunInv(k)'
  <2>1. UNCHANGED op
    BY <1>0, <1>3, WorkerMoves
  <2>2. up' <= up \/ pc[Duty(w)] \in WakePcs
    BY <1>0, <1>3, WorkerCounts
  <2>3. ctl.pc = "join" /\ ~burst.wakeDone => pc[Duty(w)] \notin WakePcs
    <3> SUFFICES ASSUME ctl.pc = "join", ~burst.wakeDone PROVE pc[Duty(w)] \notin HolderPcs
      BY DEF HolderPcs
    <3>1. phase = "waking"
      BY <1>0 DEF JoinInv, DutyInv, ControlInv
    <3>2. Quiet
      BY <3>1 DEF Quiet
    <3> QED
      BY <1>0, <3>2, Unheld, DutyThread
  <2> QED
    BY <1>1, <1>u, <2>1, <2>2, <2>3 DEF op
<1>4. CASE trafficLoop \/ pickIdle
  <2>1. UNCHANGED op /\ up' = up
    BY <1>0, <1>4, TrafficMoves DEF trafficLoop, pickIdle, grid
  <2> QED
    BY <1>1, <1>b, <1>u, <2>1 DEF op
<1>5. CASE Control
  <2>1. CASE BurstGo
    <3>1. up' = up /\ burst' = newBurst(ctl.args)
      BY <2>1 DEF BurstGo, grid
    <3>2. burst'.woke = 0 /\ burst'.allRunning = FALSE
      BY <3>1 DEF newBurst
    <3> QED
      BY <2>1, <3>1, <3>2 DEF RunInv, AllRunningWithin
  <2>2. CASE ~BurstGo
    <3>1. ctl'.pc # "join"
      <4>1. PreflightDone /\ ctl.pc # "join" => ctl'.pc # "join"
        BY <1>b DEF PreflightDone, Ctl, CtlType, NoCtl
      <4>2. \A s : SuspendDone(s) => ctl'.pc # "join"
        BY DEF SuspendDone, NoCtl
      <4>3. CASE PreflightList \/ PreflightRelist \/ PreflightFinal \/ PreflightApply
        BY <1>b, <4>1, <4>3 DEF PreflightList, PreflightRelist, PreflightFinal, PreflightApply,
           AteList, CtlType
      <4>4. CASE PreflightCreate \/ BurstDecide \/ SuspendPass1 \/ SuspendDrain
        BY <1>b, <4>4 DEF PreflightCreate, BurstDecide, SuspendPass1, SuspendDrain, Ctl, CtlType
      <4>5. CASE BurstEnd
        BY <4>5 DEF BurstEnd, NoCtl
      <4>6. CASE SuspendPasses \/ VerifyList \/ VerifyDecide
        BY <1>b, <4>2, <4>6 DEF SuspendPasses, VerifyList, VerifyDecide, AteList, CtlType
      <4> QED
        BY <1>5, <2>2, <4>3, <4>4, <4>5, <4>6 DEF Control
    <3> QED
      BY <3>1 DEF RunInv, AllRunningWithin
  <2> QED
    BY <2>1, <2>2
<1>6. CASE Operator
  <2>0. up' = up
    BY <1>6 DEF Operator, startBurst, startReconcile, simulateTraffic, setStrategy, startSuspendAll,
       setTraffic, SetRateAndCycle, grid
  <2>1. CASE ctl.pc = "none"
    <3>1. UNCHANGED ctl \/ ctl'.pc \in {"decide", "list", "pass1"}
      BY <1>0, <1>6, <1>b, OperatorMoves DEF startBurst, startReconcile, startSuspendAll, RateMoves, CtlType
    <3> QED
      BY <2>1, <3>1 DEF RunInv, AllRunningWithin
  <2>2. CASE ctl.pc # "none"
    <3>1. busy
      BY <1>0, <2>2 DEF CourseInv, ControlInv
    <3>2. UNCHANGED ctl
      BY <1>0, <1>6, <3>1, OperatorMoves DEF startBurst, startReconcile, startSuspendAll, RateMoves
    <3>3. UNCHANGED burst \/ burst' = [burst EXCEPT !.dutyCycle = TRUE]
      BY <1>6, <3>1 DEF Operator, startBurst, startReconcile, startSuspendAll, simulateTraffic,
         setStrategy, setTraffic, SetRateAndCycle, StartDutyCycle
    <3>4. /\ burst'.args = burst.args /\ burst'.woke = burst.woke /\ burst'.wakeDone = burst.wakeDone
          /\ burst'.allRunning = burst.allRunning
      BY <1>b, <3>3 DEF BurstType
    <3> QED
      BY <1>1, <1>b, <1>u, <2>0, <3>2, <3>4
  <2> QED
    BY <2>1, <2>2
<1>7. CASE Restart
  BY <1>0, <1>7, RestartMoves DEF RunInv, AllRunningWithin, NoCtl
<1>8. CASE UNCHANGED vars \/ \E a \in Agent : AteLands(a) \/ AteCrashes(a)
  BY <1>1, <1>8, <1>b DEF vars, op, grid, AteLands, AteCrashes
<1> QED
  BY <1>2, <1>3, <1>4, <1>5, <1>6, <1>7, <1>8 DEF Next, Outside

LEMMA InitCounts == Init => FreshCount /\ WakingInv
<1> SUFFICES ASSUME Init PROVE FreshCount /\ WakingInv
  OBVIOUS
<1>1. CASE states = GridOf(ate, {}) /\ up = UpOf(ate)
  <2>1. ate \in [Agent -> AteStates]
    BY InitType DEF TypeOK, RestType
  <2>2. FreshCount /\ \A a \in Agent : states[a] # "Waking"
    BY <1>1, <2>1, DrawnCounts DEF FreshCount, LowInv, ShownAs
  <2> QED
    BY <2>2 DEF WakingInv
<1>2. CASE states = [a \in Agent |-> "Suspended"] /\ up = 0
  <2>1. ShownAs(UpStates) = {} /\ ShownAs(UpStates \cup {"Failed"}) = {}
    BY <1>2 DEF ShownAs, UpStates
  <2>2. FreshCount
    BY <1>2, <2>1, FS_EmptySet DEF FreshCount, LowInv
  <2> QED
    BY <1>2, <2>2 DEF WakingInv
<1> QED
  BY <1>1, <1>2 DEF Init

LEMMA LowInvariant ==
    ASSUME "slow" \notin Faults
    PROVE  Spec => [](GridInv /\ LowInv /\ WakingInv)
<1>1. Init => LowInv /\ WakingInv
  BY InitCounts DEF FreshCount
<1>2. GridInv /\ LowInv /\ WakingInv /\ [Next]_vars => LowInv' /\ WakingInv'
  BY LowInvStep, WakingInvStep
<1> QED
  BY <1>1, <1>2, GridInvariant, PTL DEF Spec

LEMMA HighInvariant ==
    ASSUME "slow" \notin Faults, NEW k \in Nat
    PROVE  Spec /\ StartsWithin(k) => [](GridInv /\ LowInv /\ HighInv(k) /\ RunInv(k))
<1>1. Init => HighInv(k) /\ RunInv(k)
  <2> SUFFICES ASSUME Init PROVE HighInv(k) /\ RunInv(k)
    OBVIOUS
  <2>1. ctl.pc = "none" /\ \A t \in Thread : pc[t] = "idle"
    BY DEF Init, NoCtl
  <2>2. RunInv(k)
    BY <2>1 DEF RunInv, AllRunningWithin
  <2> DEFINE L == ShownAs(UpStates \cup {"Failed"})
  <2>3. \A b \in Agent : Life(b) \in Thread
    BY DEF Life, Thread
  <2>4. L \subseteq Settled /\ Settled \in SUBSET Agent
    BY <2>1, <2>3 DEF Settled, Due, ShownAs, UpStates
  <2>5. IsFiniteSet(Settled) /\ Cardinality(Settled) \in Nat
    BY <2>4, AgentCount
  <2>6. Cardinality(L) <= Cardinality(Settled) /\ Cardinality(L) \in Nat
    BY <2>4, <2>5, FS_Subset, FS_CardinalityType
  <2>7. up <= Cardinality(L) /\ up \in Int
    BY InitCounts, InitType DEF FreshCount, TypeOK, GridType
  <2> HIDE DEF L
  <2>8. HighInv(k)
    BY <2>5, <2>6, <2>7 DEF HighInv
  <2> QED
    BY <2>2, <2>8
<1>2. /\ GridInv /\ GridInv' /\ LowInv /\ WakingInv /\ HighInv(k) /\ RunInv(k) /\ [Next]_vars
      /\ [BurstGo => up <= k]_vars
      => HighInv(k)' /\ RunInv(k)'
  <2> SUFFICES ASSUME GridInv, GridInv', WakingInv, HighInv(k), RunInv(k), [Next]_vars,
                      [BurstGo => up <= k]_vars
               PROVE  HighInv(k)' /\ RunInv(k)'
    OBVIOUS
  <2>1. JoinInv'
    BY DEF GridInv
  <2>2. BurstGo => up <= k
    <3>1. BurstGo => ctl' # ctl
      BY DEF BurstGo, Ctl, GridInv, TypeOK, OpType
    <3> QED
      BY <3>1 DEF vars, op
  <2> QED
    BY <2>1, <2>2, HighInvStep, RunInvStep
<1> QED
  BY <1>1, <1>2, GridInvariant, LowInvariant, PTL DEF Spec, StartsWithin

(* d.up counts every agent shown with a sandbox, in every behaviour, and at   *)
(* most k more than the agents not shown at rest, where k bounds the count    *)
(* any burst began with: the agents a failed preflight left up are counted    *)
(* again when they wake (main.go:1506), but once.  With k = 0, when bursts    *)
(* find nothing counted, the count is exact but for broken agents and those   *)
(* on their way up.  No wait is cut short.                                   *)
UpWithin(k) == up <= Cardinality({a \in Agent : states[a] # "Suspended"}) + k

THEOREM UpIsTheFleet ==
    ASSUME "slow" \notin Faults, NEW k \in Nat
    PROVE  /\ Spec => []LowInv
           /\ Spec /\ StartsWithin(k) => [](UpWithin(k) /\ (k = 0 => UpCountsSandboxes))
<1>1. GridInv /\ LowInv /\ HighInv(k) => UpWithin(k) /\ (k = 0 => UpCountsSandboxes)
  <2> SUFFICES ASSUME GridInv, LowInv, HighInv(k)
               PROVE  UpWithin(k) /\ (k = 0 => UpCountsSandboxes)
    OBVIOUS
  <2> DEFINE M == {a \in Agent : states[a] # "Suspended"}
  <2>1. Settled \subseteq M /\ M \in SUBSET Agent
    BY DEF Settled
  <2>2. IsFiniteSet(M) /\ Cardinality(M) \in Nat
    BY <2>1, AgentCount
  <2>3. Cardinality(Settled) <= Cardinality(M) /\ Cardinality(Settled) \in Nat
    BY <2>1, <2>2, FS_Subset, FS_CardinalityType
  <2>4. up <= Cardinality(Settled) + k /\ up \in Int
    BY DEF HighInv, GridInv, TypeOK, GridType
  <2>5. up <= Cardinality(M) + k
    BY <2>2, <2>3, <2>4
  <2>6. Cardinality({a \in Agent : states[a] \in {"Running", "Requesting", "Suspending"}}) <= up
    BY DEF LowInv, ShownAs, UpStates
  <2>7. k = 0 => up <= Cardinality(M)
    BY <2>2, <2>5
  <2> QED
    BY <2>5, <2>6, <2>7 DEF UpWithin, UpCountsSandboxes
<1>2. Spec => []LowInv
  BY LowInvariant, PTL
<1>3. Spec /\ StartsWithin(k) => [](UpWithin(k) /\ (k = 0 => UpCountsSandboxes))
  BY <1>1, HighInvariant, PTL
<1> QED
  BY <1>2, <1>3

(* A burst that reports that all its agents run falls short of it by at most  *)
(* the k sandboxes that were counted when it began, and if none was counted   *)
(* each of its agents woke.  No wait is cut short.                           *)
THEOREM AllRunningMeansAllWoke ==
    ASSUME "slow" \notin Faults, NEW k \in Nat
    PROVE  Spec /\ StartsWithin(k) => [](AllRunningWithin(k) /\ (k = 0 => AllRunningExact))
<1>1. GridInv /\ RunInv(k) => AllRunningWithin(k) /\ (k = 0 => AllRunningExact)
  <2> SUFFICES ASSUME GridInv, RunInv(k), ctl.pc = "join", burst.allRunning, k = 0
               PROVE  burst.woke = burst.args.total
    BY DEF RunInv, AllRunningExact
  <2>1. burst.woke >= burst.args.total /\ burst.woke \in Nat
    BY DEF RunInv, AllRunningWithin, GridInv, JoinInv
  <2>2. burst.woke <= burst.args.total
    <3>1. /\ burst.woke + burst.failed + Cardinality(Unwoken) = burst.args.total
          /\ burst.failed \in Nat
      BY DEF GridInv, JoinInv
    <3>2. Cardinality(Unwoken) \in Nat
      BY FiniteThreads DEF Unwoken
    <3> QED
      BY <2>1, <3>1, <3>2
  <2>3. burst.args.total \in Nat
    BY ConstantAssumption DEF GridInv, TypeOK, OpType, BurstType, ArgsType
  <2> QED
    BY <2>1, <2>2, <2>3
<1> QED
  BY <1>1, HighInvariant, PTL

(***************************************************************************)
(* A clean grid means zero compute, but for agents that were asked while a  *)
(* preflight drew it.                                                       *)
(***************************************************************************)

(* A first request of an earlier burst's duty cycle that comes between a      *)
(* preflight's last listing and the grid drawn from it wakes its agent behind *)
(* the listing.  Let M hold the agents that is ever so: M is a parameter, and *)
(* every behaviour has such a set.                                           *)
AskedWithin(M) == ctl.pc \in {"atRest", "apply"} => \A a \in Agent : reqBusy[a] > 0 => a \in M

(* While no burst is running, an agent shown at rest is at rest ...           *)
OffDuty == phase \in {"idle", "reconciling", "waking"}
GroundInv(M) == OffDuty =>
    \A a \in Agent : a \notin M /\ states[a] = "Suspended" => ate[a] \notin AteUp
(* ... and has no request that could wake it.                                *)
AskedInv(M) == OffDuty =>
    \A t \in InFlight : AgentOf(t) \in M \/ states[AgentOf(t)] # "Suspended"

(* From the call on, the agent that is put to rest has no request in flight, *)
(* and once the call succeeded it is at rest.                                *)
LandPcs == {"restOk", "restErr", "restBad"}
LandInv == \A t \in Thread : Kind(t) # "fix" /\ pc[t] \in LandPcs =>
    /\ reqBusy[AgentOf(t)] = 0
    /\ pc[t] = "restOk" => ate[AgentOf(t)] \notin AteUp

(* A listing that a preflight will draw is still true.                       *)
DrawnPcs == {"atRest", "apply"}
DrawnInv(M) == ctl.pc \in DrawnPcs =>
    \A a \in Agent : a \notin M /\ ate[a] \in AteUp => ctl.list[a] \in AteUp

(* An RPC lands where it was called.                                         *)
LEMMA Landings ==
    ASSUME TypeOK, [Next]_vars, NEW u \in Thread, Kind(u) # "fix", pc'[u] \in LandPcs
    PROVE  /\ AgentOf(u)' = AgentOf(u)
           /\ pc'[u] = pc[u] \/ restRPC(u)
<1>0. PcType
  BY DEF TypeOK
<1>1. ASSUME NEW t \in Thread, ThreadStep(t)
      PROVE  /\ AgentOf(u)' = AgentOf(u)
             /\ pc'[u] = pc[u] \/ restRPC(u)
  <2>1. AgentOf(u)' = AgentOf(u) /\ (u # t => pc'[u] = pc[u])
    BY <1>0, <1>1, ThreadMoves DEF AgentOf, Goto, PcType
  <2>2. ASSUME u = t PROVE restRPC(u)
    <3>0. \A p : Goto(u, p) => pc'[u] = p
      BY <1>0 DEF Goto, PcType
    <3>1. ~wakeRPC(u)
      <4>1. \A o \in ResumeOutcomes(ate[AgentOf(u)]) : o[1] \notin LandPcs
        BY AgentOfType, RPCOutcomes DEF TypeOK, RestType, LandPcs
      <4> QED
        BY <3>0, <4>1 DEF wakeRPC
    <3>2. ~waitNotBusy(u) /\ ~AcquireSem(u) /\ ~BackOff(u) /\ ~SendAgain(u)
      BY <3>0 DEF waitNotBusy, AcquireSem, BackOff, SendAgain, LandPcs
    <3>3. ~FirstJoke(u) /\ ~FirstJokeDone(u) /\ ~trafficDone(u) /\ ~WaveCheck(u)
      BY <3>0 DEF FirstJoke, FirstJokeDone, trafficDone, WaveCheck, BeginRequest, AfterFirst, LandPcs
    <3>4. ~dutyPauseClaim(u) /\ ~dutyPauseLand(u) /\ ~suspendClaim(u) /\ ~suspendLand(u)
      BY <3>0 DEF dutyPauseClaim, dutyPauseLand, suspendClaim, suspendLand, PauseReturn, LandPcs
    <3>5. ~recreate(u) /\ ~fixLand(u) /\ ~LifeStart(u) /\ ~LifeLand(u)
      BY <3>0 DEF recreate, fixLand, LifeStart, LifeLand, LandPcs
    <3> QED
      BY <1>1, <2>2, <3>1, <3>2, <3>3, <3>4, <3>5 DEF ThreadStep
  <2> QED
    BY <2>1, <2>2
<1>2. ASSUME NEW w \in Workers, WorkerStep(w)
      PROVE  AgentOf(u)' = AgentOf(u) /\ pc'[u] = pc[u]
  <2>1. Duty(w) \in Thread /\ \A p : Goto(Duty(w), p) => pc'[Duty(w)] = p
    BY <1>0, DutyThread DEF Goto, PcType
  <2>2. pc'[Duty(w)] \notin LandPcs
    BY <1>2, <2>1 DEF WorkerStep, dutyOverCap, dutyPick, dutyWake, dutyWakeLand, dutyAsk, dutyAskDone,
       dutyReturn, BeginRequest, LandPcs
  <2>3. \A v \in Workers : v # w => work'[v] = work[v]
    BY <1>2 DEF WorkerStep, dutyOverCap, dutyPick, dutyWake, dutyWakeLand, dutyAsk, dutyAskDone,
       dutyReturn, TypeOK, WorkType
  <2> QED
    BY <1>2, <2>2, <2>3, OtherAgents, WorkerMoves
<1>3. CASE trafficLoop \/ pickIdle
  <2>1. pc' = pc \/ \E t : Goto(t, "flight")
    BY <1>3 DEF trafficLoop, pickIdle, BeginRequest, thr
  <2>2. pc'[u] = pc[u]
    BY <1>0, <2>1 DEF Goto, PcType, LandPcs
  <2> QED
    BY <1>3, <2>2, TrafficMoves DEF AgentOf
<1>4. CASE Control
  <2>1. pc'[u] = pc[u] \/ pc'[u] \in {"restQ", "createQ", "start", "claim"}
    BY <1>4 DEF Control, PreflightList, PreflightRelist, PreflightCreate, PreflightFinal, PreflightApply,
       BurstDecide, BurstGo, BurstEnd, SuspendPass1, SuspendDrain, SuspendPasses, VerifyList,
       VerifyDecide, Spawn, thr
  <2> QED
    BY <1>4, <2>1, ControlMoves DEF AgentOf, LandPcs
<1>5. CASE Operator
  <2>1. UNCHANGED work /\ (pc'[u] = pc[u] \/ pc'[u] \in {"first", "check"})
    BY <1>5, OperatorMoves DEF startBurst, startReconcile, startSuspendAll, RateMoves, thr
  <2> QED
    BY <2>1 DEF AgentOf, LandPcs
<1>6. CASE UNCHANGED vars \/ \E a \in Agent : AteLands(a) \/ AteCrashes(a)
  BY <1>6 DEF vars, thr, AteLands, AteCrashes, AgentOf
<1>7. ~Restart
  BY RestartMoves DEF LandPcs
<1> QED
  BY <1>1, <1>2, <1>3, <1>4, <1>5, <1>6, <1>7 DEF Next, Outside

(* While the driver is off duty the grid is drawn anew, or an agent comes to  *)
(* be shown at rest because its suspend has ended well.                      *)
LEMMA ComesToRest ==
    ASSUME "list" \notin Faults, TypeOK, DutyInv, [Next]_vars, OffDuty',
           ~PreflightApply, ~VerifyDecide, ~Restart
    PROVE  /\ OffDuty
           /\ \A a \in Agent : states'[a] = "Suspended" /\ states[a] # "Suspended" =>
                \E t \in Thread : /\ Kind(t) # "fix" /\ pc[t] = "restOk" /\ AgentOf(t) = a
                                  /\ UNCHANGED <<ate, reqBusy, inflight>>
<1>0. states \in [Agent -> States]
  BY DEF TypeOK, GridType
<1>1. ASSUME NEW t \in Thread, ThreadStep(t), NEW a \in Agent, states'[a] = "Suspended", states[a] # "Suspended"
      PROVE  Kind(t) # "fix" /\ pc[t] = "restOk" /\ AgentOf(t) = a /\ UNCHANGED <<ate, reqBusy, inflight>>
  <2>0. AgentOf(t) \in Agent
    BY AgentOfType DEF TypeOK
  <2>1. CASE suspendLand(t)
    BY <1>0, <1>1, <2>0, <2>1 DEF suspendLand, Set, markBroken, req
  <2>2. CASE dutyPauseLand(t)
    BY <1>0, <1>1, <2>0, <2>2 DEF dutyPauseLand, Set, markBroken, grid
  <2>3. ~FirstJoke(t) /\ ~FirstJokeDone(t) /\ ~trafficDone(t)
    BY <1>0, <1>1, <2>0 DEF FirstJoke, FirstJokeDone, trafficDone, Set, BackToRunning
  <2>4. ~dutyPauseClaim(t) /\ ~suspendClaim(t) /\ ~LifeStart(t) /\ ~LifeLand(t) /\ ~fixLand(t)
    BY <1>0, <1>1, <2>0 DEF dutyPauseClaim, suspendClaim, LifeStart, LifeLand, fixLand, Set, markBroken, grid
  <2>5. ~wakeRPC(t) /\ ~restRPC(t) /\ ~waitNotBusy(t) /\ ~AcquireSem(t) /\ ~BackOff(t) /\ ~SendAgain(t)
        /\ ~WaveCheck(t) /\ ~recreate(t)
    BY <1>1 DEF wakeRPC, restRPC, waitNotBusy, AcquireSem, BackOff, SendAgain, WaveCheck, recreate, grid
  <2> QED
    BY <1>1, <2>1, <2>2, <2>3, <2>4, <2>5 DEF ThreadStep
<1>2. ASSUME NEW t \in Thread, ThreadStep(t) PROVE OffDuty
  BY <1>2, ThreadMoves DEF OffDuty
<1>3. ASSUME NEW w \in Workers, WorkerStep(w)
      PROVE  OffDuty /\ \A a \in Agent : states'[a] = "Suspended" => states[a] = "Suspended"
  <2>1. OffDuty
    BY <1>3, WorkerMoves DEF OffDuty, op
  <2>2. phase # "running" /\ ~work[w].counted
    BY <2>1 DEF OffDuty, Quiet, DutyInv, QuietInv, Counted
  <2>3. ~dutyWake(w) /\ ~dutyWakeLand(w)
    BY <2>2 DEF dutyWake, DutyActive, dutyWakeLand, DutyInv, ClaimInv, WakePcs
  <2>4. AgentOf(Duty(w)) \in Agent
    BY DutyThread, AgentOfType DEF TypeOK
  <2> QED
    BY <1>0, <1>3, <2>1, <2>3, <2>4 DEF WorkerStep, dutyOverCap, dutyPick, dutyAsk, dutyAskDone,
       dutyReturn, Set, BackToRunning, grid
<1>4. CASE trafficLoop \/ pickIdle
  <2>1. OffDuty
    BY <1>4, TrafficMoves DEF OffDuty, op
  <2>2. Pickable = {}
    BY <2>1 DEF OffDuty, Pickable
  <2> QED
    BY <1>4, <2>1, <2>2 DEF trafficLoop, pickIdle, grid
<1>5. CASE Control
  <2>1. ~SuspendPass1 /\ ~SuspendDrain /\ ~SuspendPasses /\ ~VerifyList
    BY DEF SuspendPass1, SuspendDrain, SuspendPasses, VerifyList, ListFails, DutyInv, ControlInv, SuspendPcs,
       OffDuty
  <2>2. BurstEnd => OffDuty
    BY DEF BurstEnd, OffDuty, DutyInv, ControlInv
  <2>3. ~BurstEnd => OffDuty
    BY <1>5, <2>1 DEF Control, PreflightList, PreflightRelist, PreflightCreate, PreflightFinal, BurstDecide,
       BurstGo, OffDuty, DutyInv, ControlInv, PreflightPcs
  <2>4. UNCHANGED states
    BY <1>5, <2>1 DEF Control, PreflightList, PreflightRelist, PreflightCreate, PreflightFinal, BurstDecide,
       BurstGo, BurstEnd, grid
  <2> QED
    BY <2>2, <2>3, <2>4
<1>6. CASE Operator
  <2>1. UNCHANGED states
    BY <1>6 DEF Operator, startBurst, startReconcile, simulateTraffic, setStrategy, startSuspendAll,
       setTraffic, SetRateAndCycle, grid
  <2>2. OffDuty
    BY <1>6, OperatorMoves DEF startBurst, startReconcile, startSuspendAll, RateMoves, OffDuty
  <2> QED
    BY <2>1, <2>2
<1>7. CASE UNCHANGED vars \/ \E a \in Agent : AteLands(a) \/ AteCrashes(a)
  BY <1>7 DEF vars, op, grid, AteLands, AteCrashes, OffDuty
<1> QED
  BY <1>1, <1>2, <1>3, <1>4, <1>5, <1>6, <1>7 DEF Next, Outside

(* A grid that is drawn anew shows at rest what is at rest.                  *)
LEMMA Redraws ==
    ASSUME "list" \notin Faults, NEW M, RestedInv, DrawnInv(M), OffDuty',
           PreflightApply \/ VerifyDecide \/ Restart
    PROVE  \A a \in Agent : a \notin M /\ states'[a] = "Suspended" => ate'[a] \notin AteUp
<1> SUFFICES ASSUME NEW a \in Agent, a \notin M, states'[a] = "Suspended" PROVE ate'[a] \notin AteUp
  OBVIOUS
<1>1. /\ ate \in [Agent -> AteStates] /\ ctl.list \in [Agent -> AteStates]
      /\ TypeOK /\ ControlInv
  BY DEF RestedInv, GridInv, TypeOK, OpType, RestType, DutyInv
<1>2. ASSUME NEW st \in [Agent -> AteStates], NEW bad, states' = GridOf(st, bad)
      PROVE  st[a] \notin AteUp
  BY <1>2 DEF GridOf, gridState, AteStates, AteUp
<1>3. CASE PreflightApply
  <2>1. states' = GridOf(ctl.list, badSnap) /\ ate' = ate /\ ctl.pc = "apply"
    BY <1>3 DEF PreflightApply, applyStates
  <2> QED
    BY <1>1, <1>2, <2>1 DEF DrawnInv, DrawnPcs
<1>4. CASE VerifyDecide
  <2>1. ctl.pc = "judge" /\ phase = "suspending"
    BY <1>1, <1>4 DEF VerifyDecide, ControlInv, SuspendPcs
  <2>2. states' = GridOf(ctl.list, badSnap) /\ ate' = ate
    BY <1>4, <2>1 DEF VerifyDecide, applyStates, OffDuty
  <2> QED
    BY <1>1, <1>2, <2>1, <2>2 DEF RestedInv, ListInv
<1>5. CASE Restart
  <2>1. states' = GridOf(ate, {}) /\ ate' = ate
    BY <1>5 DEF Restart, Started, ListFails
  <2> QED
    BY <1>1, <1>2, <2>1
<1> QED
  BY <1>3, <1>4, <1>5

(* The agent of a suspend that has been called gets no request and no wake.  *)
LEMMA LandInvStep ==
    ASSUME GridInv, LandInv, [Next]_vars
    PROVE  LandInv'
<1>0. /\ TypeOK /\ CourseInv /\ BusyInv /\ NeverMidRequest /\ LockInv /\ ApartInv
      /\ reqBusy \in [Agent -> Int] /\ ate \in [Agent -> AteStates]
  BY DEF GridInv, DutyInv, CourseInv, TypeOK, ReqType, RestType
<1> SUFFICES ASSUME NEW u \in Thread, Kind(u) # "fix", pc'[u] \in LandPcs
             PROVE  /\ reqBusy'[AgentOf(u)'] = 0
                    /\ pc'[u] = "restOk" => ate'[AgentOf(u)'] \notin AteUp
  BY DEF LandInv
<1> DEFINE a == AgentOf(u)
<1>1. AgentOf(u)' = a /\ a \in Agent /\ (pc'[u] = pc[u] \/ restRPC(u))
  BY <1>0, Landings, AgentOfType DEF TypeOK
<1>2. pc[u] \in LandPcs \cup {"call"} /\ pc[u] \in RestPcs
  BY <1>1 DEF restRPC, LandPcs, RestPcs
<1>3. reqBusy[a] = 0 /\ states[a] = "Suspending"
  BY <1>0, <1>2 DEF NeverMidRequest, LandInv, LockInv, Holds
<1>4. ASSUME NEW t \in Thread PROVE ~Begins(t, a) /\ ~Ends(t, a)
  BY <1>0, <1>3, BusyCounts DEF Begins, Ends
<1>5. reqBusy'[a] = 0
  <2>1. ASSUME NEW t \in Thread, NEW b \in Agent, Begins(t, b) \/ Ends(t, b) PROVE reqBusy'[a] = reqBusy[a]
    <3>1. b # a
      BY <1>4, <2>1
    <3> QED
      BY <1>0, <1>1, <2>1, <3>1 DEF Begins, Ends
  <2>2. CASE Keeps
    BY <1>3, <2>2 DEF Keeps
  <2>3. CASE Restart
    BY <1>1, <2>3 DEF Restart, Started
  <2> QED
    BY <1>0, <1>3, <2>1, <2>2, <2>3, RequestSteps
<1>6. ASSUME pc'[u] = "restOk" PROVE ate'[a] \notin AteUp
  <2>1. CASE restRPC(u)
    <3>1. PICK o \in RestOutcomes(ate[a]) : Goto(u, o[1]) /\ ate' = [ate EXCEPT ![a] = o[2]]
      BY <2>1 DEF restRPC
    <3>2. o[1] = "restOk" /\ ate'[a] = o[2]
      BY <1>0, <1>1, <1>6, <3>1 DEF Goto, TypeOK, PcType
    <3>3. o[2] = "SUSPENDED"
      BY <3>1, <3>2 DEF RestOutcomes
    <3> QED
      BY <3>2, <3>3 DEF AteUp
  <2>2. CASE pc[u] = "restOk"
    <3>1. ate[a] \notin AteUp
      BY <2>2 DEF LandInv, LandPcs
    <3>2. ASSUME NEW t \in Thread PROVE ~Raises(t, a)
      <4>1. ~(AgentOf(t) = a /\ pc[t] \in ReqPcs)
        BY <1>0, <1>3, BusyCounts
      <4>2. ~(AgentOf(t) = a /\ pc[t] = "resume")
        BY <1>0, <2>2 DEF ApartInv, HolderPcs, WakePcs, RestPcs
      <4> QED
        BY <1>4, <4>1, <4>2 DEF Raises
    <3> QED
      BY <1>0, <1>1, <3>1, <3>2, Rises
  <2> QED
    BY <1>1, <1>6, <2>1, <2>2
<1> QED
  BY <1>1, <1>5, <1>6

(* No agent comes to be shown at rest while it has a request in flight.      *)
LEMMA AskedInvStep ==
    ASSUME "list" \notin Faults, NEW M, RestedInv, AskedWithin(M), LandInv, AskedInv(M), [Next]_vars
    PROVE  AskedInv(M)'
<1>0. TypeOK /\ DutyInv /\ CourseInv /\ BusyInv /\ GridInv /\ reqBusy \in [Agent -> Int] /\ inflight \in Int
  BY DEF RestedInv, GridInv, DutyInv, CourseInv, TypeOK, ReqType
<1> SUFFICES ASSUME OffDuty', NEW u \in Thread, pc'[u] \in ReqPcs, states'[AgentOf(u)'] = "Suspended",
                    AgentOf(u)' \notin M
             PROVE  FALSE
  BY DEF AskedInv, InFlight
<1>1. ~PreflightApply
  <2> SUFFICES ASSUME PreflightApply PROVE FALSE
    OBVIOUS
  <2>1. UNCHANGED <<pc, work>> /\ ctl.pc = "apply"
    BY DEF PreflightApply, thr
  <2>2. pc[u] \in ReqPcs /\ AgentOf(u)' = AgentOf(u)
    BY <2>1 DEF AgentOf
  <2>3. reqBusy[AgentOf(u)] > 0 /\ AgentOf(u) \in Agent
    BY <1>0, <2>2, BusyCounts, AgentOfType DEF TypeOK
  <2> QED
    BY <2>1, <2>2, <2>3 DEF AskedWithin
<1>2. ~VerifyDecide
  <2> SUFFICES ASSUME VerifyDecide PROVE FALSE
    OBVIOUS
  <2>1. ctl.pc = "judge" /\ phase = "suspending"
    BY <1>0 DEF VerifyDecide, DutyInv, ControlInv, SuspendPcs
  <2>2. UNCHANGED pc
    BY <2>1 DEF VerifyDecide, OffDuty
  <2>3. InFlight = {}
    BY <2>1 DEF RestedInv, StillInv, SweptPcs
  <2> QED
    BY <2>2, <2>3 DEF InFlight
<1>3. ~Restart
  BY <1>0, RestartMoves DEF ReqPcs
<1>4. ASSUME NEW t \in Thread, NEW b \in Agent, Begins(t, b) PROVE reqBusy'[b] # reqBusy[b]
  BY <1>0, <1>4 DEF Begins
<1>5. ASSUME NEW t \in Thread, NEW b \in Agent, Ends(t, b) PROVE reqBusy'[b] # reqBusy[b]
  BY <1>0, <1>5 DEF Ends
<1>6. PICK a \in Agent : a = AgentOf(u)'
  <2>1. TypeOK'
    BY <1>0, TypeStep
  <2>2. \A w \in Workers : work'[w].agent \in Agent
    BY <2>1 DEF TypeOK, WorkType
  <2> QED
    BY <2>2, ThreadShape DEF AgentOf
<1>7. states[a] = "Suspended"
  <2> SUFFICES ASSUME states[a] # "Suspended" PROVE FALSE
    OBVIOUS
  <2>1. PICK t \in Thread : /\ Kind(t) # "fix" /\ pc[t] = "restOk" /\ AgentOf(t) = a
                           /\ UNCHANGED <<ate, reqBusy, inflight>>
    BY <1>0, <1>1, <1>2, <1>3, <1>6, ComesToRest
  <2>2. Keeps
    BY <1>0, <1>3, <1>4, <1>5, <2>1, RequestSteps
  <2>3. pc[u] \in ReqPcs /\ AgentOf(u) = a
    BY <1>6, <2>2 DEF Keeps
  <2>4. reqBusy[a] = 0
    BY <2>1 DEF LandInv, LandPcs
  <2> QED
    BY <1>0, <2>3, <2>4, BusyCounts
<1>8. \A v \in Thread : pc[v] \in ReqPcs => AgentOf(v) # a
  BY <1>0, <1>1, <1>2, <1>3, <1>6, <1>7, ComesToRest DEF AskedInv, InFlight
<1>9. CASE Keeps
  BY <1>6, <1>8, <1>9 DEF Keeps
<1>10. ASSUME NEW t \in Thread, NEW b \in Agent, Begins(t, b) \/ Ends(t, b) PROVE FALSE
  <2>1. CASE u = t
    BY <1>6, <1>7, <1>10, <2>1 DEF Begins, Ends
  <2>2. CASE u # t
    BY <1>6, <1>8, <1>10, <2>2 DEF Begins, Ends, Alone
  <2> QED
    BY <2>1, <2>2
<1> QED
  BY <1>0, <1>3, <1>9, <1>10, RequestSteps

(* While the driver is off duty an agent shown at rest stays at rest.        *)
LEMMA GroundInvStep ==
    ASSUME "list" \notin Faults, NEW M, RestedInv, LandInv, AskedInv(M), DrawnInv(M), GroundInv(M),
           [Next]_vars
    PROVE  GroundInv(M)'
<1>0. TypeOK /\ DutyInv /\ BusyInv /\ LockInv
  BY DEF RestedInv, GridInv
<1> SUFFICES ASSUME OffDuty', NEW a \in Agent, a \notin M, states'[a] = "Suspended", ate'[a] \in AteUp
             PROVE  FALSE
  BY DEF GroundInv
<1>1. ~PreflightApply /\ ~VerifyDecide /\ ~Restart
  BY Redraws
<1>2. CASE states[a] = "Suspended"
  <2>1. OffDuty
    BY <1>0, <1>1, ComesToRest
  <2>2. ate[a] \notin AteUp
    BY <1>2, <2>1 DEF GroundInv
  <2>3. PICK t \in Thread : Raises(t, a)
    BY <1>0, <2>2, Rises
  <2>4. ~(AgentOf(t) = a /\ pc[t] \in ReqPcs)
    BY <1>2, <2>1 DEF AskedInv, InFlight
  <2>5. ~(AgentOf(t) = a /\ pc[t] = "resume")
    <3> SUFFICES ASSUME AgentOf(t) = a, pc[t] = "resume" PROVE FALSE
      OBVIOUS
    <3>1. Kind(t) \in {"life", "duty"}
      BY <1>0, PcKind DEF TypeOK, WakePcs
    <3> QED
      BY <1>0, <1>2, <3>1 DEF LockInv, Holds, WakePcs
  <2> QED
    BY <1>2, <2>3, <2>4, <2>5 DEF Raises, Begins
<1>3. CASE states[a] # "Suspended"
  <2>1. PICK t \in Thread : /\ Kind(t) # "fix" /\ pc[t] = "restOk" /\ AgentOf(t) = a
                           /\ UNCHANGED <<ate, reqBusy, inflight>>
    BY <1>0, <1>1, <1>3, ComesToRest
  <2> QED
    BY <2>1 DEF LandInv, LandPcs
<1> QED
  BY <1>2, <1>3

(* A preflight draws from the listing it has just read, or from the one that  *)
(* showed it nothing to put to rest.                                         *)
LEMMA Drawings ==
    ASSUME TypeOK, ControlInv, [Next]_vars, ctl'.pc \in DrawnPcs
    PROVE  \/ ctl' = ctl
           \/ ctl'.list = ate /\ ate' = ate
           \/ ctl.pc = "atRest" /\ ctl'.list = ctl.list /\ ate' = ate
<1>0. ctl \in CtlType /\ NoCtl.pc = "none"
  BY DEF TypeOK, OpType, CtlType, NoCtl
<1>1. ~(PreflightDone /\ ctl'.pc \in DrawnPcs)
  BY <1>0 DEF PreflightDone, Ctl, CtlType, DrawnPcs
<1>2. \A p : AteList(p) => ctl'.list = ate
  BY <1>0 DEF AteList, CtlType
<1>3. CASE PreflightList
  BY <1>1, <1>2, <1>3 DEF PreflightList
<1>4. CASE PreflightFinal
  BY <1>1, <1>2, <1>4 DEF PreflightFinal
<1>5. CASE PreflightCreate
  <2>1. \A p : Ctl(p) => ctl'.pc = p /\ ctl'.list = ctl.list
    BY <1>0 DEF Ctl, CtlType
  <2> QED
    BY <1>5, <2>1 DEF PreflightCreate, DrawnPcs
<1>6. ~PreflightRelist /\ ~PreflightApply
  <2>1. AteList("create") => ctl'.pc = "create"
    BY <1>0 DEF AteList, CtlType
  <2> QED
    BY <1>1, <2>1 DEF PreflightRelist, PreflightApply, DrawnPcs
<1>7. ~BurstDecide /\ ~BurstGo /\ ~BurstEnd
  BY <1>0 DEF BurstDecide, BurstGo, BurstEnd, Ctl, CtlType, DrawnPcs
<1>8. ~SuspendPass1 /\ ~SuspendDrain /\ ~SuspendPasses /\ ~VerifyList /\ ~VerifyDecide
  BY <1>0 DEF SuspendPass1, SuspendDrain, SuspendPasses, VerifyList, VerifyDecide, AteList,
     SuspendDone, Ctl, CtlType, DrawnPcs
<1>9. ~Restart
  BY <1>0, RestartMoves DEF DrawnPcs
<1>10. CASE Operator
  <2>1. ASSUME NEW args \in BurstArgs, startBurst(args)
        PROVE  ctl'.pc = "decide"
    BY <1>0, <2>1 DEF startBurst, CtlType
  <2>2. startReconcile => ctl'.pc = "list"
    BY <1>0 DEF startReconcile, CtlType
  <2>3. startSuspendAll => ctl'.pc = "pass1"
    BY <1>0 DEF startSuspendAll, CtlType
  <2> QED
    BY <1>10, <2>1, <2>2, <2>3, OperatorMoves DEF RateMoves, DrawnPcs
<1>11. CASE \/ \E t \in Thread : ThreadStep(t)
            \/ \E w \in Workers : WorkerStep(w)
            \/ trafficLoop \/ pickIdle
  BY <1>11, ThreadMoves, WorkerMoves, TrafficMoves DEF op
<1>12. CASE UNCHANGED vars \/ \E a \in Agent : AteLands(a) \/ AteCrashes(a)
  BY <1>12 DEF vars, op, AteLands, AteCrashes
<1> QED
  BY <1>3, <1>4, <1>5, <1>6, <1>7, <1>8, <1>9, <1>10, <1>11, <1>12 DEF Next, Outside, Control

(* Nothing goes up between the listing and the grid.                         *)
LEMMA DrawnInvStep ==
    ASSUME NEW M, RestedInv, AskedWithin(M), AskedWithin(M)', DrawnInv(M), [Next]_vars
    PROVE  DrawnInv(M)'
<1>0. TypeOK /\ DutyInv /\ BusyInv /\ ControlInv /\ ctl \in CtlType /\ ate \in [Agent -> AteStates]
  BY DEF RestedInv, GridInv, DutyInv, TypeOK, OpType, CtlType, RestType
<1> SUFFICES ASSUME ctl'.pc \in DrawnPcs, NEW a \in Agent, a \notin M, ate'[a] \in AteUp
             PROVE  ctl'.list[a] \in AteUp
  BY DEF DrawnInv
<1>1. \/ ctl' = ctl
      \/ ctl'.list = ate /\ ate' = ate
      \/ ctl.pc = "atRest" /\ ctl'.list = ctl.list /\ ate' = ate
  BY <1>0, Drawings
<1>2. CASE ctl' = ctl
  <2>1. ctl.pc \in DrawnPcs /\ ~(reqBusy[a] > 0) /\ ~(reqBusy'[a] > 0)
    BY <1>2 DEF AskedWithin, DrawnPcs
  <2>2. \A t \in Thread : pc[t] # "resume"
    <3> SUFFICES ASSUME NEW t \in Thread, pc[t] = "resume" PROVE FALSE
      OBVIOUS
    <3>1. Kind(t) \in {"life", "duty"} /\ pc[t] \in HolderPcs
      BY <1>0, PcKind DEF TypeOK, WakePcs, HolderPcs
    <3>2. Quiet
      BY <1>0, <2>1 DEF ControlInv, Quiet, PreflightPcs, DrawnPcs
    <3> QED
      BY <1>0, <2>1, <3>1, <3>2, Unheld DEF RestedInv, GridInv, DrawnPcs
  <2>3. \A t \in Thread : AgentOf(t) = a => pc[t] \notin ReqPcs
    BY <1>0, <2>1, BusyCounts
  <2>4. \A t \in Thread : ~Begins(t, a)
    <3>1. reqBusy \in [Agent -> Int] /\ reqBusy[a] = Cardinality(Busy(a)) /\ Cardinality(Busy(a)) \in Nat
      BY <1>0, FiniteThreads DEF TypeOK, ReqType, BusyInv, Busy
    <3> QED
      BY <2>1, <3>1 DEF Begins
  <2>5. ate[a] \in AteUp
    BY <1>0, <2>2, <2>3, <2>4, Rises DEF Raises
  <2> QED
    BY <1>2, <2>1, <2>5 DEF DrawnInv
<1>3. CASE ctl'.list = ate /\ ate' = ate
  BY <1>3
<1>4. CASE ctl.pc = "atRest" /\ ctl'.list = ctl.list /\ ate' = ate
  BY <1>4 DEF DrawnInv, DrawnPcs
<1> QED
  BY <1>1, <1>2, <1>3, <1>4

LEMMA HonestInvariant ==
    ASSUME "slow" \notin Faults, "list" \notin Faults, NEW M \in SUBSET Agent
    PROVE  Spec /\ []AskedWithin(M) =>
             [](RestedInv /\ LandInv /\ AskedInv(M) /\ GroundInv(M) /\ DrawnInv(M))
<1>1. Init => LandInv /\ AskedInv(M) /\ GroundInv(M) /\ DrawnInv(M)
  <2> SUFFICES ASSUME Init PROVE LandInv /\ AskedInv(M) /\ GroundInv(M) /\ DrawnInv(M)
    OBVIOUS
  <2>1. InFlight = {} /\ \A t \in Thread : pc[t] = "idle"
    BY DEF Init, InFlight, ReqPcs
  <2>2. ctl.pc = "none"
    BY DEF Init, NoCtl
  <2>3. ate \in [Agent -> AteStates] /\ states = GridOf(ate, {})
    BY InitAteAssumption DEF Init, ListFails
  <2>4. GroundInv(M)
    BY <2>3 DEF GroundInv, GridOf, gridState, AteStates, AteUp
  <2> QED
    BY <2>1, <2>2, <2>4 DEF LandInv, AskedInv, DrawnInv, LandPcs, DrawnPcs
<1>2. /\ RestedInv /\ LandInv /\ AskedInv(M) /\ GroundInv(M) /\ DrawnInv(M)
      /\ AskedWithin(M) /\ AskedWithin(M)' /\ [Next]_vars
      => LandInv' /\ AskedInv(M)' /\ GroundInv(M)' /\ DrawnInv(M)'
  <2> SUFFICES ASSUME RestedInv, LandInv, AskedInv(M), GroundInv(M), DrawnInv(M),
                      AskedWithin(M), AskedWithin(M)', [Next]_vars
               PROVE  LandInv' /\ AskedInv(M)' /\ GroundInv(M)' /\ DrawnInv(M)'
    OBVIOUS
  <2>1. LandInv'
    BY LandInvStep DEF RestedInv
  <2>2. AskedInv(M)'
    BY AskedInvStep
  <2>3. GroundInv(M)'
    BY GroundInvStep
  <2>4. DrawnInv(M)'
    BY DrawnInvStep
  <2> QED
    BY <2>1, <2>2, <2>3, <2>4
<1> QED
  BY <1>1, <1>2, RestedInvariant, PTL DEF Spec

(* When no burst runs and every agent is shown at rest, ate-api holds no      *)
(* compute up but for the agents of M, those that had a request in flight     *)
(* between a preflight's last listing and the grid drawn from it; without any *)
(* such agent this is the "clean, honest zero" that a burst starts from       *)
(* (preflight, main.go:822).  No wait is cut short and listings are answered. *)
CleanBut(M) == phase = "idle" /\ ctl.pc \in {"none", "decide"} /\ AllClean => NotAtRest(ate) \subseteq M

THEOREM CleanMeansAtRest ==
    ASSUME "slow" \notin Faults, "list" \notin Faults, NEW M \in SUBSET Agent
    PROVE  Spec /\ []AskedWithin(M) => [](CleanBut(M) /\ (M = {} => CleanGridHonest))
<1>1. GroundInv(M) => CleanBut(M) /\ (M = {} => CleanGridHonest)
  BY DEF GroundInv, OffDuty, CleanBut, CleanGridHonest, AllClean, NotAtRest
<1> QED
  BY <1>1, HonestInvariant, PTL
=============================================================================
