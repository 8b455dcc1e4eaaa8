------------------------- MODULE KeynoteDriverProofs -------------------------
(* Proofs about KeynoteDriver, for any number of agents, workers and bursts. *)
EXTENDS KeynoteDriver, FiniteSetTheorems, TLAPS

(***************************************************************************)
(* Type correctness.                                                       *)
(***************************************************************************)

(* The count of some agents is a number. *)
LEMMA AgentCount ==
    ASSUME NEW S \in SUBSET Agent
    PROVE  IsFiniteSet(S) /\ Cardinality(S) \in Nat
<1>1. IsFiniteSet(1..N)
  BY ConstantAssumption, FS_Interval
<1>2. IsFiniteSet(S)
  BY <1>1, FS_Subset DEF Agent
<1> QED
  BY <1>2, FS_CardinalityType

(* ate-api answers with the outcomes and states wakeRPC and restRPC expect. *)
LEMMA RPCOutcomes ==
    ASSUME NEW s \in AteStates
    PROVE  /\ \A o \in ResumeOutcomes(s) : o[1] \in {"woke", "wakeErr", "wakeBad"} /\ o[2] \in AteStates
           /\ \A o \in RestOutcomes(s) : o[1] \in {"restOk", "restErr", "restBad"} /\ o[2] \in AteStates
BY DEF ResumeOutcomes, RestOutcomes, AteStates

(* applyStates turns any answer of ate-api into a grid. *)
LEMMA GridOfType ==
    ASSUME NEW st \in [Agent -> AteStates], NEW bad
    PROVE  GridOf(st, bad) \in [Agent -> States] /\ UpOf(st) \in Int
<1>1. \A s \in AteStates : gridState(s) \in States
  BY DEF gridState, AteStates, States
<1>2. "Failed" \in States
  BY DEF States
<1>3. UpOf(st) \in Nat
  <2> DEFINE S == {a \in Agent : gridState(st[a]) \in {"Running", "Suspending"}}
  <2>1. Cardinality(S) \in Nat
    BY AgentCount
  <2> QED
    BY <2>1 DEF UpOf
<1> QED
  BY <1>1, <1>2, <1>3 DEF GridOf

(* What a thread's name says. *)
LEMMA ThreadShape ==
    ASSUME NEW t \in Thread
    PROVE  /\ Kind(t) \in {"life", "sweep", "fix", "wave", "plain", "over", "duty"}
           /\ Kind(t) # "duty" => t[2] \in Agent
           /\ Kind(t) = "duty" => t[2] \in Workers /\ t = Duty(t[2])
           /\ Kind(t) = "wave" => t[3] \in BurstId /\ t = Wave(t[2], t[3])
BY DEF Thread, Kind, Duty, Wave

(* A duty worker's name. *)
LEMMA DutyThread ==
    ASSUME NEW w \in Workers
    PROVE  Duty(w) \in Thread /\ Kind(Duty(w)) = "duty" /\ Duty(w)[2] = w
BY DEF Thread, Kind, Duty

(* Every thread handles an agent. *)
LEMMA AgentOfType ==
    ASSUME WorkType, NEW t \in Thread
    PROVE  AgentOf(t) \in Agent
BY ThreadShape DEF WorkType, AgentOf

(* The driver starts in a state of these types. *)
LEMMA InitType == Init => TypeOK
<1> SUFFICES ASSUME Init PROVE TypeOK
  OBVIOUS
<1> USE ConstantAssumption, InitAteAssumption
<1>1. ate \in [Agent -> AteStates]
  BY DEF Init
<1>2. GridType
  BY <1>1, GridOfType DEF Init, States, GridType
<1>3. AllAgents \in ArgsType
  BY DEF AllAgents, ArgsType
<1>4. NoCtl \in [op : {"none", "burst", "reconcile", "suspend"}, pc : CtlPcs, args : ArgsType,
                 pass : Nat, list : [Agent -> AteStates]]
  BY <1>3 DEF NoCtl, CtlPcs, AteStates
<1>5. burst \in BurstType
  BY <1>3 DEF Init, newBurst, BurstType
<1>8. phase \in Phases /\ busy \in BOOLEAN /\ rate \in 0..2 /\ burstN \in 0..MaxBursts
      /\ cur \in 0..MaxBursts /\ ctl = NoCtl
  <2>1. phase = "idle" /\ busy = FALSE /\ rate = 0 /\ burstN = 0 /\ cur = 0 /\ ctl = NoCtl
    BY DEF Init
  <2>2. 0 \in 0..MaxBursts /\ 0 \in 0..2
    OBVIOUS
  <2> QED
    BY <2>1, <2>2 DEF Phases
<1>9. OpType
  BY <1>4, <1>5, <1>8 DEF OpType
<1>6. WorkType
  BY DEF Init, WorkType, NoWork, Agent
<1>7. PcType
  BY ThreadShape DEF Init, PcType, Pcs, PcsOf
<1> QED
  BY <1>1, <1>2, <1>6, <1>7, <1>9 DEF Init, TypeOK, ReqType, RestType

(* What a step leaves alone keeps its type. *)
LEMMA Same ==
    ASSUME TypeOK
    PROVE  /\ UNCHANGED op => OpType'
           /\ UNCHANGED grid => GridType'
           /\ UNCHANGED req => ReqType'
           /\ UNCHANGED pc => PcType'
           /\ UNCHANGED work => WorkType'
           /\ UNCHANGED <<tries, dispatch, ate>> => RestType'
<1>1. UNCHANGED op => OpType'
  BY DEF TypeOK, OpType, op
<1>2. UNCHANGED grid => GridType'
  BY DEF TypeOK, GridType, grid
<1>3. UNCHANGED req => ReqType'
  BY DEF TypeOK, ReqType, req
<1>4. UNCHANGED pc => PcType'
  BY DEF TypeOK, PcType
<1>5. UNCHANGED work => WorkType'
  BY DEF TypeOK, WorkType
<1>6. UNCHANGED <<tries, dispatch, ate>> => RestType'
  BY DEF TypeOK, RestType
<1> QED
  BY <1>1, <1>2, <1>3, <1>4, <1>5, <1>6

(* The kinds of threads that can be at each position. *)
LEMMA PcKind ==
    ASSUME PcType, NEW t \in Thread
    PROVE  /\ pc[t] \in WakePcs => Kind(t) \in {"life", "duty"}
           /\ pc[t] \in RestPcs => Kind(t) \in {"life", "sweep", "fix", "wave", "duty"}
           /\ pc[t] \in ReqPcs => Kind(t) \in {"life", "wave", "duty", "plain", "over"}
           /\ pc[t] \in {"claim", "claimed"} => Kind(t) \in {"life", "sweep"}
           /\ pc[t] \in {"restQ", "createQ", "create"} => Kind(t) = "fix"
           /\ pc[t] = "first" => Kind(t) \in {"life", "wave"}
           /\ pc[t] = "check" => Kind(t) = "wave"
           /\ pc[t] = "pause" => Kind(t) \in {"wave", "duty"}
           /\ pc[t] = "start" => Kind(t) = "life"
           /\ pc[t] \in {"ask", "ret"} => Kind(t) = "duty"
<1> DEFINE K == {"life", "sweep", "fix", "wave", "plain", "over", "duty"}
<1>1. Kind(t) \in K
  BY ThreadShape
<1>2. pc[t] \in PcsOf(Kind(t))
  BY DEF PcType
<1> QED
  BY <1>1, <1>2 DEF PcsOf, WakePcs, RestPcs, ReqPcs

(* Every position of a kind of thread is a position. *)
LEMMA PcsOfPcs == \A t \in Thread : PcsOf(Kind(t)) \subseteq Pcs
BY ThreadShape DEF PcsOf, Pcs, WakePcs, RestPcs, ReqPcs

(* A thread that moves to a position of its kind keeps the positions' type. *)
LEMMA GotoType ==
    ASSUME PcType, NEW t \in Thread, NEW p \in PcsOf(Kind(t)), Goto(t, p)
    PROVE  PcType'
BY PcsOfPcs DEF PcType, Goto

(* So do threads that are started at a position of their kind. *)
LEMMA SpawnType ==
    ASSUME PcType, NEW ts, NEW p, \A t \in Thread : t \in ts => p \in PcsOf(Kind(t)), Spawn(ts, p)
    PROVE  PcType'
BY PcsOfPcs DEF PcType, Spawn

(* A grid whose one agent changes is a grid. *)
LEMMA SetType ==
    ASSUME GridType, NEW a \in Agent, NEW s \in States, Set(a, s)
    PROVE  states' \in [Agent -> States]
BY DEF GridType, Set

(* markBrokenLocked keeps the grid's type. *)
LEMMA markBrokenType ==
    ASSUME GridType, NEW a \in Agent, markBroken(a)
    PROVE  GridType'
BY SetType DEF GridType, markBroken, States

(* A request that starts keeps the types of the counters and of the positions. *)
LEMMA BeginRequestType ==
    ASSUME TypeOK, NEW t, NEW a \in Agent, NEW n \in Nat, BeginRequest(t, a, n),
           Kind(t) \in {"life", "wave", "duty", "plain", "over"}
    PROVE  /\ PcType' /\ ReqType'
           /\ tries' \in [Thread -> Int] /\ ate' \in [Agent -> AteStates]
<1>1. "flight" \in PcsOf(Kind(t))
  BY DEF PcsOf, ReqPcs
<1>2. PcType'
  <2>1. CASE t \in Thread
    BY <1>1, <2>1, GotoType DEF BeginRequest, TypeOK
  <2>2. CASE t \notin Thread
    BY <2>2, Same DEF BeginRequest, Goto, TypeOK, PcType
  <2> QED
    BY <2>1, <2>2
<1>3. ReqType'
  BY DEF BeginRequest, TypeOK, ReqType
<1>4. tries' \in [Thread -> Int]
  <2>1. tries' = [x \in Thread |-> IF x = t THEN n - 1 ELSE tries[x]]
    BY DEF BeginRequest, TypeOK, RestType
  <2> QED
    BY <2>1 DEF TypeOK, RestType
<1>5. ate' \in [Agent -> AteStates]
  BY DEF BeginRequest, TypeOK, RestType, Routed, AteStates
<1> QED
  BY <1>2, <1>3, <1>4, <1>5

(* So does a request that ends, except for where its thread goes. *)
LEMMA EndRequestType ==
    ASSUME TypeOK, NEW t \in Thread, EndRequest(t)
    PROVE  ReqType' /\ tries' \in [Thread -> Int]
<1>1. AgentOf(t) \in Agent
  BY AgentOfType DEF TypeOK
<1>2. ReqType'
  BY <1>1 DEF EndRequest, TypeOK, ReqType
<1>3. tries' \in [Thread -> Int]
  BY DEF EndRequest, TypeOK, RestType
<1> QED
  BY <1>2, <1>3

(* A request that ends leaves a grid. *)
LEMMA BackToRunningType ==
    ASSUME GridType, NEW a \in Agent, BackToRunning(a)
    PROVE  states' \in [Agent -> States]
<1>1. (IF states[a] = "Requesting" THEN "Running" ELSE states[a]) \in States
  BY DEF GridType, States
<1> QED
  BY <1>1, SetType DEF BackToRunning

(* The steps every thread can take: RPCs, waits, requests. *)
LEMMA TypeCommon ==
    ASSUME TypeOK, NEW t \in Thread,
           wakeRPC(t) \/ restRPC(t) \/ waitNotBusy(t) \/ AcquireSem(t) \/ BackOff(t) \/ SendAgain(t)
    PROVE  TypeOK'
<1> DEFINE a == AgentOf(t)
<1>0. a \in Agent /\ PcType
  BY AgentOfType DEF TypeOK
<1>1. CASE wakeRPC(t)
  <2>1. PICK o \in ResumeOutcomes(ate[a]) :
          /\ Goto(t, o[1]) /\ ate' = [ate EXCEPT ![a] = o[2]]
          /\ badSnap' = IF o[1] = "wakeBad" THEN badSnap \cup {a} ELSE badSnap
    BY <1>1 DEF wakeRPC
  <2>2. o[1] \in {"woke", "wakeErr", "wakeBad"} /\ o[2] \in AteStates
    BY <1>0, RPCOutcomes DEF TypeOK, RestType
  <2>3. o[1] \in PcsOf(Kind(t))
    BY <1>0, <1>1, <2>2, PcKind DEF wakeRPC, PcsOf, WakePcs
  <2>4. PcType'
    BY <1>0, <2>1, <2>3, GotoType
  <2>5. RestType'
    BY <1>0, <1>1, <2>1, <2>2 DEF wakeRPC, TypeOK, RestType
  <2>6. GridType'
    BY <1>0, <1>1, <2>1 DEF wakeRPC, TypeOK, GridType
  <2> QED
    BY <1>1, <2>4, <2>5, <2>6, Same DEF wakeRPC, TypeOK
<1>2. CASE restRPC(t)
  <2>1. PICK o \in RestOutcomes(ate[a]) : Goto(t, o[1]) /\ ate' = [ate EXCEPT ![a] = o[2]]
    BY <1>2 DEF restRPC
  <2>2. o[1] \in {"restOk", "restErr", "restBad"} /\ o[2] \in AteStates
    BY <1>0, RPCOutcomes DEF TypeOK, RestType
  <2>3. o[1] \in PcsOf(Kind(t))
    BY <1>0, <1>2, <2>2, PcKind DEF restRPC, PcsOf, RestPcs
  <2>4. PcType'
    BY <1>0, <2>1, <2>3, GotoType
  <2>5. RestType'
    BY <1>0, <1>2, <2>1, <2>2 DEF restRPC, TypeOK, RestType
  <2> QED
    BY <1>2, <2>4, <2>5, Same DEF restRPC, TypeOK
<1>3. CASE waitNotBusy(t)
  <2>1. "call" \in PcsOf(Kind(t))
    BY <1>0, <1>3, PcKind DEF waitNotBusy, PcsOf, RestPcs
  <2>2. PcType'
    BY <1>0, <1>3, <2>1, GotoType DEF waitNotBusy
  <2> QED
    BY <1>3, <2>2, Same DEF waitNotBusy, TypeOK
<1>4. CASE AcquireSem(t)
  <2> DEFINE p == CASE pc[t] = "claimed" -> "wait" [] pc[t] = "restQ" -> "call"
                    [] pc[t] = "createQ" -> "create"
  <2>1. p \in PcsOf(Kind(t))
    BY <1>0, <1>4, PcKind DEF AcquireSem, PcsOf, RestPcs
  <2>2. PcType'
    BY <1>0, <1>4, <2>1, GotoType DEF AcquireSem
  <2> QED
    BY <1>4, <2>2, Same DEF AcquireSem, TypeOK
<1>5. CASE BackOff(t)
  <2>1. "backoff" \in PcsOf(Kind(t))
    BY <1>0, <1>5, PcKind DEF BackOff, PcsOf, ReqPcs
  <2>2. PcType'
    BY <1>0, <1>5, <2>1, GotoType DEF BackOff
  <2> QED
    BY <1>5, <2>2, Same DEF BackOff, TypeOK
<1>6. CASE SendAgain(t)
  <2>1. "flight" \in PcsOf(Kind(t))
    BY <1>0, <1>6, PcKind DEF SendAgain, PcsOf, ReqPcs
  <2>2. PcType'
    BY <1>0, <1>6, <2>1, GotoType DEF SendAgain
  <2>3. RestType'
    BY <1>0, <1>6 DEF SendAgain, Routed, TypeOK, RestType, AteStates
  <2> QED
    BY <1>6, <2>2, <2>3, Same DEF SendAgain, TypeOK
<1> QED
  BY <1>1, <1>2, <1>3, <1>4, <1>5, <1>6

(* First requests, steady traffic and the pauses of the duty cycle. *)
LEMMA TypeRequests ==
    ASSUME TypeOK, NEW t \in Thread,
           FirstJoke(t) \/ FirstJokeDone(t) \/ trafficDone(t) \/ WaveCheck(t)
             \/ dutyPauseClaim(t) \/ dutyPauseLand(t)
    PROVE  TypeOK'
<1> DEFINE a == AgentOf(t)
<1>0. a \in Agent /\ PcType /\ GridType
  BY AgentOfType DEF TypeOK
<1>1. CASE FirstJoke(t)
  <2>1. Kind(t) \in {"life", "wave"}
    BY <1>0, <1>1, PcKind DEF FirstJoke
  <2>2. CASE states[a] # "Running" \/ phase = "suspending"
    <3>1. Goto(t, AfterFirst(t)) /\ UNCHANGED <<states, req, tries, ate>>
      BY <1>1, <2>2 DEF FirstJoke
    <3>2. AfterFirst(t) \in PcsOf(Kind(t))
      BY <2>1 DEF AfterFirst, PcsOf
    <3>3. PcType'
      BY <1>0, <3>1, <3>2, GotoType
    <3> QED
      BY <1>1, <3>1, <3>3, Same DEF FirstJoke, TypeOK, GridType, RestType
  <2>3. CASE ~(states[a] # "Running" \/ phase = "suspending")
    <3>1. Set(a, "Requesting") /\ BeginRequest(t, a, FirstTries)
      BY <1>1, <2>3 DEF FirstJoke
    <3>2. FirstTries \in Nat
      BY ConstantAssumption
    <3>3. states' \in [Agent -> States]
      BY <1>0, <3>1, SetType DEF States
    <3>4. PcType' /\ ReqType' /\ tries' \in [Thread -> Int] /\ ate' \in [Agent -> AteStates]
      BY <1>0, <2>1, <3>1, <3>2, BeginRequestType
    <3> QED
      BY <1>1, <3>3, <3>4, Same DEF FirstJoke, TypeOK, GridType, RestType
  <2> QED
    BY <2>2, <2>3
<1>2. CASE FirstJokeDone(t)
  <2>1. AfterFirst(t) \in PcsOf(Kind(t))
    BY <1>2 DEF FirstJokeDone, AfterFirst, PcsOf
  <2>2. PcType'
    BY <1>0, <1>2, <2>1, GotoType DEF FirstJokeDone
  <2>3. ReqType' /\ tries' \in [Thread -> Int]
    BY <1>2, EndRequestType DEF FirstJokeDone
  <2>4. states' \in [Agent -> States]
    BY <1>0, <1>2, BackToRunningType DEF FirstJokeDone
  <2> QED
    BY <1>2, <2>2, <2>3, <2>4, Same DEF FirstJokeDone, TypeOK, GridType, RestType
<1>3. CASE trafficDone(t)
  <2>1. "idle" \in PcsOf(Kind(t))
    BY <1>3 DEF trafficDone, PcsOf
  <2>2. PcType'
    BY <1>0, <1>3, <2>1, GotoType DEF trafficDone
  <2>3. ReqType' /\ tries' \in [Thread -> Int]
    BY <1>3, EndRequestType DEF trafficDone
  <2>4. states' \in [Agent -> States]
    <3> DEFINE s == IF Kind(t) = "plain" /\ states[a] = "Requesting" /\ reqBusy'[a] = 0
                    THEN "Running" ELSE states[a]
    <3>1. s \in States
      BY <1>0 DEF GridType, States
    <3>2. Set(a, s)
      BY <1>3 DEF trafficDone
    <3> QED
      BY <1>0, <3>1, <3>2, SetType
  <2> QED
    BY <1>3, <2>2, <2>3, <2>4, Same DEF trafficDone, TypeOK, GridType, RestType
<1>4. CASE WaveCheck(t)
  <2>1. Kind(t) = "wave"
    BY <1>0, <1>4, PcKind DEF WaveCheck
  <2>2. PcType'
    BY <1>0, <1>4, <2>1, GotoType DEF WaveCheck, PcsOf
  <2> QED
    BY <1>4, <2>2, Same DEF WaveCheck, TypeOK
<1>5. CASE dutyPauseClaim(t)
  <2>1. Kind(t) \in {"wave", "duty"}
    BY <1>0, <1>5, PcKind DEF dutyPauseClaim
  <2>2. PcType'
    BY <1>0, <1>5, <2>1, GotoType DEF dutyPauseClaim, PauseReturn, PcsOf, RestPcs
  <2>3. states' \in [Agent -> States]
    BY <1>0, <1>5, SetType DEF dutyPauseClaim, States, GridType
  <2>4. ReqType'
    BY <1>5 DEF dutyPauseClaim, TypeOK, ReqType
  <2> QED
    BY <1>5, <2>2, <2>3, <2>4, Same DEF dutyPauseClaim, TypeOK, GridType
<1>6. CASE dutyPauseLand(t)
  <2>1. Kind(t) \in {"wave", "duty"}
    BY <1>6 DEF dutyPauseLand
  <2>2. PcType'
    BY <1>0, <1>6, <2>1, GotoType DEF dutyPauseLand, PauseReturn, PcsOf
  <2>3. GridType'
    <3>1. CASE states[a] # "Suspending"
      BY <1>6, <3>1, Same DEF dutyPauseLand
    <3>2. CASE states[a] = "Suspending" /\ pc[t] = "restBad"
      BY <1>0, <1>6, <3>2, markBrokenType DEF dutyPauseLand
    <3>3. CASE states[a] = "Suspending" /\ pc[t] # "restBad"
      BY <1>0, <1>6, <3>3 DEF dutyPauseLand, Set, GridType, States
    <3> QED
      BY <3>1, <3>2, <3>3
  <2>4. ReqType'
    BY <1>6 DEF dutyPauseLand, TypeOK, ReqType
  <2> QED
    BY <1>6, <2>2, <2>3, <2>4, Same DEF dutyPauseLand, TypeOK
<1> QED
  BY <1>1, <1>2, <1>3, <1>4, <1>5, <1>6

(* Suspends, re-creations and the life of an agent in a burst. *)
LEMMA TypeLife ==
    ASSUME TypeOK, NEW t \in Thread,
           suspendClaim(t) \/ suspendLand(t) \/ recreate(t) \/ fixLand(t)
             \/ LifeStart(t) \/ LifeLand(t)
    PROVE  TypeOK'
<1> DEFINE a == AgentOf(t)
<1>0. a \in Agent /\ PcType /\ GridType /\ OpType
  BY AgentOfType DEF TypeOK
<1>1. CASE suspendClaim(t)
  <2>1. Kind(t) \in {"life", "sweep"}
    BY <1>0, <1>1, PcKind DEF suspendClaim
  <2>2. PcType'
    BY <1>0, <1>1, <2>1, GotoType DEF suspendClaim, PcsOf
  <2>3. states' \in [Agent -> States]
    BY <1>0, <1>1, SetType DEF suspendClaim, States, GridType
  <2> QED
    BY <1>1, <2>2, <2>3, Same DEF suspendClaim, TypeOK, GridType
<1>2. CASE suspendLand(t)
  <2>1. PcType'
    BY <1>0, <1>2, GotoType DEF suspendLand, PcsOf
  <2>2. GridType'
    <3>1. CASE pc[t] = "restBad"
      BY <1>0, <1>2, <3>1, markBrokenType DEF suspendLand
    <3>2. CASE pc[t] # "restBad"
      BY <1>0, <1>2, <3>2 DEF suspendLand, Set, GridType, States
    <3> QED
      BY <3>1, <3>2
  <2>3. burst' \in BurstType
    BY <1>0, <1>2 DEF suspendLand, OpType, BurstType
  <2>4. OpType'
    BY <1>0, <1>2, <2>3 DEF suspendLand, OpType
  <2> QED
    BY <1>2, <2>1, <2>2, <2>4, Same DEF suspendLand, TypeOK
<1>3. CASE recreate(t)
  <2>1. Kind(t) = "fix"
    BY <1>0, <1>3, PcKind DEF recreate
  <2>2. PcType'
    BY <1>0, <1>3, <2>1, GotoType DEF recreate, PcsOf
  <2>3. RestType'
    BY <1>0, <1>3 DEF recreate, TypeOK, RestType, AteStates
  <2>4. GridType'
    BY <1>0, <1>3 DEF recreate, GridType
  <2> QED
    BY <1>3, <2>2, <2>3, <2>4, Same DEF recreate, TypeOK
<1>4. CASE fixLand(t)
  <2>1. PcType'
    BY <1>0, <1>4, GotoType DEF fixLand, PcsOf
  <2>2. GridType'
    BY <1>0, <1>4, markBrokenType, Same DEF fixLand
  <2> QED
    BY <1>4, <2>1, <2>2, Same DEF fixLand, TypeOK
<1>5. CASE LifeStart(t)
  <2>1. Kind(t) = "life"
    BY <1>0, <1>5, PcKind DEF LifeStart
  <2>2. PcType'
    BY <1>0, <1>5, <2>1, GotoType DEF LifeStart, PcsOf, WakePcs
  <2>3. states' \in [Agent -> States]
    BY <1>0, <1>5, SetType DEF LifeStart, States
  <2> QED
    BY <1>5, <2>2, <2>3, Same DEF LifeStart, TypeOK, GridType
<1>6. CASE LifeLand(t)
  <2>1. PcType'
    BY <1>0, <1>6, GotoType DEF LifeLand, PcsOf
  <2>2. GridType'
    BY <1>0, <1>6 DEF LifeLand, Set, GridType, States
  <2>3. PICK woke \in Int, failed \in Int : checkWakeDone(woke, failed)
    <3>1. burst.woke \in Int /\ burst.failed \in Int
      BY <1>0 DEF OpType, BurstType
    <3> QED
      BY <1>6, <3>1 DEF LifeLand
  <2>4. OpType'
    <3>1. burst' \in BurstType
      BY <1>0, <2>3 DEF checkWakeDone, OpType, BurstType
    <3>2. phase' \in Phases
      BY <1>0, <2>3 DEF checkWakeDone, OpType, Phases
    <3>3. rate' \in 0..2
      BY <1>0, <2>3, ConstantAssumption DEF checkWakeDone, OpType, AutoStart, AutoRate
    <3> QED
      BY <1>0, <1>6, <3>1, <3>2, <3>3 DEF LifeLand, OpType
  <2> QED
    BY <1>6, <2>1, <2>2, <2>4, Same DEF LifeLand, TypeOK
<1> QED
  BY <1>1, <1>2, <1>3, <1>4, <1>5, <1>6

(* The workers of the duty loop. *)
LEMMA TypeWorker ==
    ASSUME TypeOK, NEW w \in Workers, WorkerStep(w)
    PROVE  TypeOK'
<1> DEFINE t == Duty(w)
           a == AgentOf(t)
<1>0. t \in Thread /\ Kind(t) = "duty" /\ a \in Agent /\ PcType /\ GridType /\ WorkType
  BY DutyThread, AgentOfType DEF TypeOK
<1>1. CASE dutyOverCap(w)
  <2>1. PcType'
    BY <1>0, <1>1, GotoType DEF dutyOverCap, PcsOf
  <2>2. WorkType'
    BY <1>0, <1>1, ConstantAssumption DEF dutyOverCap, WorkType, TypeOK, OpType, Agent
  <2> QED
    BY <1>1, <2>1, <2>2, Same DEF dutyOverCap, TypeOK
<1>2. CASE dutyWake(w)
  <2>1. PcType'
    BY <1>0, <1>2, GotoType DEF dutyWake, PcsOf, WakePcs
  <2>2. WorkType'
    BY <1>0, <1>2 DEF dutyWake, WorkType, TypeOK, OpType
  <2>3. states' \in [Agent -> States]
    BY <1>0, <1>2, SetType DEF dutyWake, States
  <2>4. ReqType'
    BY <1>2 DEF dutyWake, TypeOK, ReqType
  <2> QED
    BY <1>2, <2>1, <2>2, <2>3, <2>4, Same DEF dutyWake, TypeOK, GridType
<1>3. CASE dutyWakeLand(w)
  <2>1. PcType'
    BY <1>0, <1>3, GotoType DEF dutyWakeLand, PcsOf
  <2>2. GridType'
    <3>1. CASE states[a] # "Waking"
      BY <1>3, <3>1, Same DEF dutyWakeLand
    <3>2. CASE states[a] = "Waking" /\ pc[t] = "wakeBad"
      BY <1>0, <1>3, <3>2, markBrokenType DEF dutyWakeLand
    <3>3. CASE states[a] = "Waking" /\ pc[t] # "wakeBad"
      BY <1>0, <1>3, <3>3 DEF dutyWakeLand, Set, GridType, States
    <3> QED
      BY <3>1, <3>2, <3>3
  <2> QED
    BY <1>3, <2>1, <2>2, Same DEF dutyWakeLand, TypeOK
<1>4. CASE dutyAsk(w)
  <2>1. CASE StillDuty(BurstOf(t)) /\ rate > 0 /\ states[a] = "Running"
    <3>1. Set(a, "Requesting") /\ BeginRequest(t, a, DutyTries) /\ DutyTries \in Nat
      BY <1>4, <2>1, ConstantAssumption DEF dutyAsk
    <3>2. states' \in [Agent -> States]
      BY <1>0, <3>1, SetType DEF States
    <3>3. PcType' /\ ReqType' /\ tries' \in [Thread -> Int] /\ ate' \in [Agent -> AteStates]
      BY <1>0, <3>1, BeginRequestType
    <3> QED
      BY <1>4, <3>2, <3>3, Same DEF dutyAsk, TypeOK, GridType, RestType
  <2>2. CASE ~(StillDuty(BurstOf(t)) /\ rate > 0 /\ states[a] = "Running")
    <3>1. Goto(t, "pause") /\ UNCHANGED <<states, req, tries, ate>>
      BY <1>4, <2>2 DEF dutyAsk
    <3>2. PcType'
      BY <1>0, <3>1, GotoType DEF PcsOf
    <3> QED
      BY <1>4, <3>1, <3>2, Same DEF dutyAsk, TypeOK, GridType, RestType
  <2> QED
    BY <2>1, <2>2
<1>5. CASE dutyAskDone(w)
  <2>1. PcType'
    BY <1>0, <1>5, GotoType DEF dutyAskDone, PcsOf
  <2>2. ReqType' /\ tries' \in [Thread -> Int]
    BY <1>0, <1>5, EndRequestType DEF dutyAskDone
  <2>3. states' \in [Agent -> States]
    BY <1>0, <1>5, BackToRunningType DEF dutyAskDone
  <2> QED
    BY <1>5, <2>1, <2>2, <2>3, Same DEF dutyAskDone, TypeOK, GridType, RestType
<1>6. CASE dutyReturn(w)
  <2>1. PcType'
    BY <1>0, <1>6, GotoType DEF dutyReturn, PcsOf
  <2>2. WorkType'
    BY <1>0, <1>6, ConstantAssumption DEF dutyReturn, WorkType, NoWork, Agent
  <2>3. ReqType'
    BY <1>6 DEF dutyReturn, TypeOK, ReqType
  <2> QED
    BY <1>6, <2>1, <2>2, <2>3, Same DEF dutyReturn, TypeOK
<1>7. CASE dutyPick(w)
  <2>1. PcType'
    BY <1>0, <1>7, GotoType DEF dutyPick, PcsOf
  <2>2. WorkType'
    BY <1>0, <1>7 DEF dutyPick, WorkType
  <2> QED
    BY <1>7, <2>1, <2>2, Same DEF dutyPick, TypeOK
<1> QED
  BY <1>1, <1>2, <1>3, <1>4, <1>5, <1>6, <1>7 DEF WorkerStep

(* trafficLoop and pickIdle. *)
LEMMA TypeTraffic ==
    ASSUME TypeOK, trafficLoop \/ pickIdle
    PROVE  TypeOK'
<1>1. CASE trafficLoop
  <2>1. RestType'
    BY <1>1 DEF trafficLoop, thr, TypeOK, RestType
  <2> QED
    BY <1>1, <2>1, Same DEF trafficLoop, thr, TypeOK
<1>2. CASE pickIdle /\ Pickable = {}
  <2>1. RestType'
    BY <1>2 DEF pickIdle, TypeOK, RestType
  <2> QED
    BY <1>2, <2>1, Same DEF pickIdle, TypeOK, GridType
<1>3. CASE pickIdle /\ Pickable # {}
  <2>1. PICK a \in Pickable :
          LET t == <<dispatch, a, CHOOSE k \in 1..MaxReq : pc[<<dispatch, a, k>>] = "idle">>
          IN  BeginRequest(t, a, 1) /\ Set(a, IF dispatch = "plain" THEN "Requesting" ELSE states[a])
    BY <1>3 DEF pickIdle
  <2> DEFINE k == CHOOSE k \in 1..MaxReq : pc[<<dispatch, a, k>>] = "idle"
             t == <<dispatch, a, k>>
  <2>2. a \in Agent /\ dispatch \in {"plain", "over"} /\ Kind(t) \in {"plain", "over"}
    BY <1>3 DEF pickIdle, Pickable, TypeOK, RestType, Kind
  <2>3. states' \in [Agent -> States]
    <3>1. (IF dispatch = "plain" THEN "Requesting" ELSE states[a]) \in States
      BY <2>2 DEF TypeOK, GridType, States
    <3> QED
      BY <2>1, <2>2, <3>1, SetType DEF TypeOK
  <2>4. PcType' /\ ReqType' /\ tries' \in [Thread -> Int] /\ ate' \in [Agent -> AteStates]
    BY <2>1, <2>2, BeginRequestType
  <2>5. dispatch' \in {"none", "plain", "over"}
    BY <1>3 DEF pickIdle, TypeOK, RestType
  <2> QED
    BY <1>3, <2>3, <2>4, <2>5, Same DEF pickIdle, TypeOK, GridType, RestType
<1> QED
  BY <1>1, <1>2, <1>3

(* The goroutine of a burst, a reconcile or a suspend-all. *)
CtlType == [op : {"none", "burst", "reconcile", "suspend"}, pc : CtlPcs, args : ArgsType,
            pass : Nat, list : [Agent -> AteStates]]

(* What the driver starts with is a control record and the arguments of a burst. *)
LEMMA NoCtlType == NoCtl \in CtlType /\ AllAgents \in ArgsType
<1>1. AllAgents \in ArgsType
  BY ConstantAssumption DEF AllAgents, ArgsType
<1> QED
  BY <1>1 DEF NoCtl, CtlType, CtlPcs, AteStates

(* A control record that moves, or takes what ate-api listed, is one. *)
LEMMA CtlTypes ==
    ASSUME TypeOK, NEW p \in CtlPcs
    PROVE  /\ Ctl(p) => ctl' \in CtlType
           /\ AteList(p) => ctl' \in CtlType
           /\ (ctl' = [ctl EXCEPT !.pc = p, !.pass = @ + 1]) => ctl' \in CtlType
           /\ (ctl' = [ctl EXCEPT !.pc = p, !.pass = 1]) => ctl' \in CtlType
<1>1. ctl \in CtlType /\ ate \in [Agent -> AteStates]
  BY DEF TypeOK, OpType, CtlType, RestType
<1>2. ctl.pass + 1 \in Nat /\ 1 \in Nat
  BY <1>1 DEF CtlType
<1>3. Ctl(p) => ctl' \in CtlType
  BY <1>1 DEF Ctl, CtlType
<1>4. AteList(p) => ctl' \in CtlType
  BY <1>1 DEF AteList, CtlType
<1>5. (ctl' = [ctl EXCEPT !.pc = p, !.pass = @ + 1]) => ctl' \in CtlType
  BY <1>1, <1>2 DEF CtlType
<1>6. (ctl' = [ctl EXCEPT !.pc = p, !.pass = 1]) => ctl' \in CtlType
  BY <1>1, <1>2 DEF CtlType
<1> QED
  BY <1>3, <1>4, <1>5, <1>6

(* The end of preflight keeps the types of what it changes. *)
LEMMA PreflightDoneType ==
    ASSUME TypeOK, PreflightDone
    PROVE  ctl' \in CtlType /\ phase' \in Phases /\ busy' \in BOOLEAN
<1>1. CASE ctl.op = "burst"
  BY <1>1, CtlTypes DEF PreflightDone, CtlPcs, TypeOK, OpType
<1>2. CASE ctl.op # "burst"
  BY <1>2, NoCtlType DEF PreflightDone, Phases
<1> QED
  BY <1>1, <1>2

(* So does the end of suspend-all. *)
LEMMA SuspendDoneType ==
    ASSUME TypeOK, NEW s \in BOOLEAN, SuspendDone(s)
    PROVE  ctl' \in CtlType /\ phase' \in Phases /\ busy' \in BOOLEAN /\ burst' \in BurstType
<1>1. burst' \in BurstType
  BY DEF SuspendDone, TypeOK, OpType, BurstType
<1> QED
  BY <1>1, NoCtlType DEF SuspendDone, Phases

(* OpType from its parts, for a step that leaves the rate and the burst alone. *)
LEMMA OpTypeFrom ==
    ASSUME TypeOK, ctl' \in CtlType, phase' \in Phases, busy' \in BOOLEAN, burst' \in BurstType,
           rate' \in 0..2, cur' \in 0..MaxBursts, burstN' \in 0..MaxBursts
    PROVE  OpType'
BY DEF OpType, CtlType

(* applyStates gives a grid and a count. *)
LEMMA applyStatesType ==
    ASSUME TypeOK, NEW st \in [Agent -> AteStates], applyStates(st)
    PROVE  states' \in [Agent -> States] /\ up' \in Int
BY GridOfType DEF applyStates

(* The threads ctl starts, and where they start. *)
LEMMA Spawned ==
    ASSUME TypeOK, NEW S \in SUBSET Agent
    PROVE  /\ \A p \in {"restQ", "createQ"} : Spawn({Fix(a) : a \in S}, p) => PcType'
           /\ Spawn({Sweep(a) : a \in S}, "claim") => PcType'
           /\ Spawn({Life(a) : a \in S}, "start") => PcType'
<1>1. \A t \in Thread : t \in {Fix(a) : a \in S} => Kind(t) = "fix"
  BY DEF Fix, Kind
<1>2. \A t \in Thread : t \in {Sweep(a) : a \in S} => Kind(t) = "sweep"
  BY DEF Sweep, Kind
<1>3. \A t \in Thread : t \in {Life(a) : a \in S} => Kind(t) = "life"
  BY DEF Life, Kind
<1>4. \A p \in {"restQ", "createQ"} : Spawn({Fix(a) : a \in S}, p) => PcType'
  BY <1>1, SpawnType DEF TypeOK, PcsOf
<1>5. Spawn({Sweep(a) : a \in S}, "claim") => PcType'
  BY <1>2, SpawnType DEF TypeOK, PcsOf
<1>6. Spawn({Life(a) : a \in S}, "start") => PcType'
  BY <1>3, SpawnType DEF TypeOK, PcsOf
<1> QED
  BY <1>4, <1>5, <1>6

(* The goroutine of a burst, a reconcile or a suspend-all. *)
LEMMA TypeControl ==
    ASSUME TypeOK, Control
    PROVE  TypeOK'
<1>0. /\ phase \in Phases /\ busy \in BOOLEAN /\ rate \in 0..2 /\ burst \in BurstType
      /\ burstN \in 0..MaxBursts /\ cur \in 0..MaxBursts /\ ctl \in CtlType
      /\ ctl.args \in ArgsType /\ ctl.list \in [Agent -> AteStates]
  BY DEF TypeOK, OpType, CtlType
<1>1. CASE PreflightList
  <2>1. ctl' \in CtlType /\ phase' \in Phases /\ busy' \in BOOLEAN
    BY <1>0, <1>1, CtlTypes, PreflightDoneType DEF PreflightList, CtlPcs
  <2>2. OpType'
    BY <1>0, <1>1, <2>1, OpTypeFrom DEF PreflightList
  <2>3. PcType'
    BY <1>1, Spawned, Same DEF PreflightList, NotAtRest
  <2> QED
    BY <1>1, <2>2, <2>3, Same DEF PreflightList, TypeOK
<1>2. CASE PreflightRelist
  <2>1. ctl' \in CtlType /\ phase' \in Phases /\ busy' \in BOOLEAN
    BY <1>0, <1>2, CtlTypes, PreflightDoneType DEF PreflightRelist, CtlPcs
  <2>2. OpType'
    BY <1>0, <1>2, <2>1, OpTypeFrom DEF PreflightRelist
  <2> QED
    BY <1>2, <2>2, Same DEF PreflightRelist, TypeOK, thr
<1>3. CASE PreflightCreate
  <2>1. ctl' \in CtlType
    BY <1>0, <1>3, CtlTypes DEF PreflightCreate, CtlPcs
  <2>2. OpType'
    BY <1>0, <1>3, <2>1, OpTypeFrom DEF PreflightCreate
  <2>3. PcType'
    BY <1>3, Spawned DEF PreflightCreate
  <2> QED
    BY <1>3, <2>2, <2>3, Same DEF PreflightCreate, TypeOK
<1>4. CASE PreflightFinal
  <2>1. ctl' \in CtlType /\ phase' \in Phases /\ busy' \in BOOLEAN
    BY <1>0, <1>4, CtlTypes, PreflightDoneType DEF PreflightFinal, CtlPcs
  <2>2. OpType'
    BY <1>0, <1>4, <2>1, OpTypeFrom DEF PreflightFinal
  <2> QED
    BY <1>4, <2>2, Same DEF PreflightFinal, TypeOK, thr
<1>5. CASE PreflightApply
  <2>1. ctl' \in CtlType /\ phase' \in Phases /\ busy' \in BOOLEAN
    BY <1>5, PreflightDoneType DEF PreflightApply
  <2>2. OpType'
    BY <1>0, <1>5, <2>1, OpTypeFrom DEF PreflightApply
  <2>3. GridType'
    BY <1>0, <1>5, applyStatesType DEF PreflightApply, TypeOK, GridType
  <2> QED
    BY <1>5, <2>2, <2>3, Same DEF PreflightApply, TypeOK, thr
<1>6. CASE BurstDecide
  <2>1. ctl' \in CtlType
    BY <1>0, <1>6, CtlTypes DEF BurstDecide, CtlPcs
  <2>2. OpType'
    BY <1>0, <1>6, <2>1, OpTypeFrom DEF BurstDecide
  <2> QED
    BY <1>6, <2>2, Same DEF BurstDecide, TypeOK, thr
<1>7. CASE BurstGo
  <2>1. ctl' \in CtlType /\ phase' \in Phases
    BY <1>0, <1>7, CtlTypes DEF BurstGo, CtlPcs, Phases
  <2>2. burst' \in BurstType
    BY <1>0, <1>7 DEF BurstGo, newBurst, BurstType
  <2>3. OpType'
    BY <1>0, <1>7, <2>1, <2>2, OpTypeFrom DEF BurstGo
  <2>4. PcType'
    <3>1. ctl.args.total \in 1..N /\ N \in Nat
      BY <1>0, ConstantAssumption DEF ArgsType
    <3>2. 1..ctl.args.total \in SUBSET Agent
      BY <3>1 DEF Agent
    <3> QED
      BY <1>7, <3>2, Spawned DEF BurstGo
  <2> QED
    BY <1>7, <2>3, <2>4, Same DEF BurstGo, TypeOK
<1>8. CASE BurstEnd
  <2>1. ctl' \in CtlType /\ busy' \in BOOLEAN /\ phase' \in Phases
    BY <1>0, <1>8, NoCtlType DEF BurstEnd, Phases
  <2>2. rate' \in 0..2
    BY <1>0, <1>8, ConstantAssumption DEF BurstEnd, AutoStart, AutoRate
  <2>3. OpType'
    BY <1>0, <1>8, <2>1, <2>2, OpTypeFrom DEF BurstEnd
  <2> QED
    BY <1>8, <2>3, Same DEF BurstEnd, TypeOK, thr
<1>9. CASE SuspendPass1
  <2>1. ctl' \in CtlType
    BY <1>0, <1>9, CtlTypes DEF SuspendPass1, CtlPcs
  <2>2. OpType'
    BY <1>0, <1>9, <2>1, OpTypeFrom DEF SuspendPass1
  <2>3. PcType'
    BY <1>9, Spawned DEF SuspendPass1, UpNow
  <2> QED
    BY <1>9, <2>2, <2>3, Same DEF SuspendPass1, TypeOK
<1>10. CASE SuspendDrain
  <2>1. ctl' \in CtlType
    BY <1>0, <1>10, CtlTypes DEF SuspendDrain, CtlPcs
  <2>2. OpType'
    BY <1>0, <1>10, <2>1, OpTypeFrom DEF SuspendDrain
  <2> QED
    BY <1>10, <2>2, Same DEF SuspendDrain, TypeOK, thr
<1>11. CASE SuspendPasses
  <2>1. ctl' \in CtlType
    <3>1. ctl' = [ctl EXCEPT !.pc = "verify", !.pass = 1] \/ ctl' = [ctl EXCEPT !.pass = @ + 1]
      BY <1>11 DEF SuspendPasses
    <3>2. ctl.pass + 1 \in Nat
      BY <1>0 DEF CtlType
    <3> QED
      BY <1>0, <3>1, <3>2, CtlTypes DEF CtlPcs, CtlType
  <2>2. burst' \in BurstType
    BY <1>0, <1>11 DEF SuspendPasses, BurstType
  <2>3. OpType'
    BY <1>0, <1>11, <2>1, <2>2, OpTypeFrom DEF SuspendPasses
  <2>4. PcType'
    BY <1>11, Spawned, Same DEF SuspendPasses, UpNow
  <2> QED
    BY <1>11, <2>3, <2>4, Same DEF SuspendPasses, TypeOK
<1>12. CASE VerifyList
  <2>1. burst.allSusp \in BOOLEAN
    BY <1>0 DEF BurstType
  <2>2. ctl' \in CtlType /\ phase' \in Phases /\ busy' \in BOOLEAN /\ burst' \in BurstType
    BY <1>0, <1>12, <2>1, CtlTypes, SuspendDoneType DEF VerifyList, CtlPcs
  <2>3. OpType'
    BY <1>0, <1>12, <2>2, OpTypeFrom DEF VerifyList
  <2> QED
    BY <1>12, <2>3, Same DEF VerifyList, TypeOK, thr
<1>13. CASE VerifyDecide
  <2> DEFINE left == NotAtRest(ctl.list) \ badSnap
  <2>1. CASE left = {} \/ ctl.pass > VerifyRounds
    <3>1. applyStates(ctl.list) /\ SuspendDone(NotAtRest(ctl.list) = {}) /\ UNCHANGED pc
      BY <1>13, <2>1 DEF VerifyDecide
    <3>2. ctl' \in CtlType /\ phase' \in Phases /\ busy' \in BOOLEAN /\ burst' \in BurstType
      BY <3>1, SuspendDoneType
    <3>3. states' \in [Agent -> States] /\ up' \in Int
      BY <1>0, <3>1, applyStatesType
    <3>4. OpType'
      BY <1>0, <1>13, <3>2, OpTypeFrom DEF VerifyDecide
    <3> QED
      BY <1>13, <3>1, <3>3, <3>4, Same DEF VerifyDecide, TypeOK, GridType
  <2>2. CASE ~(left = {} \/ ctl.pass > VerifyRounds)
    <3>1. /\ ctl' = [ctl EXCEPT !.pc = "verify", !.pass = @ + 1]
          /\ Spawn({Fix(a) : a \in left}, "restQ") /\ UNCHANGED <<phase, busy, burst, states, up>>
      BY <1>13, <2>2 DEF VerifyDecide
    <3>2. ctl' \in CtlType
      BY <3>1, CtlTypes DEF CtlPcs
    <3>3. left \in SUBSET Agent
      BY DEF NotAtRest
    <3>4. PcType'
      BY <3>1, <3>3, Spawned
    <3>5. OpType'
      BY <1>0, <1>13, <3>1, <3>2, OpTypeFrom DEF VerifyDecide
    <3> QED
      BY <1>13, <3>1, <3>4, <3>5, Same DEF VerifyDecide, TypeOK, GridType
  <2> QED
    BY <2>1, <2>2
<1> QED
  BY <1>1, <1>2, <1>3, <1>4, <1>5, <1>6, <1>7, <1>8, <1>9, <1>10, <1>11, <1>12, <1>13 DEF Control

(* The start of the duty cycle puts waves at positions of theirs. *)
LEMMA StartDutyCycleType ==
    ASSUME TypeOK, StartDutyCycle
    PROVE  burst' \in BurstType /\ PcType'
<1>1. burst' \in BurstType
  BY DEF StartDutyCycle, TypeOK, OpType, BurstType
<1>2. PICK first \in SUBSET Agent :
        pc' = [t \in Thread |-> IF Kind(t) # "wave" \/ t[3] # cur \/ t[2] \notin {a \in Agent : states[a] \in {"Running", "Waking"}}
                                THEN pc[t] ELSE IF t[2] \in first THEN "first" ELSE "check"]
  BY DEF StartDutyCycle
<1>3. PcType'
  BY <1>2, PcsOfPcs DEF TypeOK, PcType, PcsOf
<1> QED
  BY <1>1, <1>3

(* Every command that sets the rate keeps the types. *)
LEMMA SetRateType ==
    ASSUME TypeOK, NEW r \in 0..2, NEW start \in BOOLEAN, SetRateAndCycle(r, start)
    PROVE  TypeOK'
<1>0. /\ phase \in Phases /\ busy \in BOOLEAN /\ burst \in BurstType
      /\ burstN \in 0..MaxBursts /\ cur \in 0..MaxBursts /\ ctl \in CtlType
  BY DEF TypeOK, OpType, CtlType
<1>1. burst' \in BurstType /\ PcType'
  BY <1>0, StartDutyCycleType, Same DEF SetRateAndCycle
<1>2. OpType'
  BY <1>0, <1>1, OpTypeFrom DEF SetRateAndCycle
<1> QED
  BY <1>1, <1>2, Same DEF SetRateAndCycle, TypeOK

(* The operator's commands. *)
LEMMA TypeOperator ==
    ASSUME TypeOK, Operator
    PROVE  TypeOK'
<1>0. /\ phase \in Phases /\ busy \in BOOLEAN /\ rate \in 0..2 /\ burst \in BurstType
      /\ burstN \in 0..MaxBursts /\ cur \in 0..MaxBursts /\ ctl \in CtlType
  BY DEF TypeOK, OpType, CtlType
<1>1. AutoRate \in 0..2 /\ Rates \subseteq 0..2
  BY ConstantAssumption DEF AutoRate
<1>2. CASE \E args \in BurstArgs : startBurst(args)
  <2>1. PICK args \in BurstArgs : startBurst(args)
    BY <1>2
  <2>2. args \in ArgsType
    BY ConstantAssumption DEF ArgsType
  <2>3. ctl' \in CtlType
    BY <1>0, <2>1, <2>2 DEF startBurst, CtlType, CtlPcs
  <2>4. burstN' \in 0..MaxBursts
    BY <1>0, <2>1, ConstantAssumption DEF startBurst
  <2>5. OpType'
    BY <1>0, <2>1, <2>3, <2>4, OpTypeFrom DEF startBurst
  <2> QED
    BY <2>1, <2>5, Same DEF startBurst, TypeOK, thr
<1>3. CASE startReconcile
  <2>1. ctl' \in CtlType
    BY <1>0, <1>3 DEF startReconcile, CtlType, CtlPcs
  <2>2. phase' \in Phases /\ busy' \in BOOLEAN /\ rate' \in 0..2
    BY <1>3 DEF startReconcile, Phases
  <2>3. OpType'
    BY <1>0, <1>3, <2>1, <2>2, OpTypeFrom DEF startReconcile
  <2> QED
    BY <1>3, <2>3, Same DEF startReconcile, TypeOK, thr
<1>4. CASE simulateTraffic \/ setStrategy
  <2>1. SetRateAndCycle(AutoRate, TRUE) \/ SetRateAndCycle(0, FALSE) \/ SetRateAndCycle(AutoRate, FALSE)
    BY <1>4 DEF simulateTraffic, setStrategy
  <2>2. 0 \in 0..2
    OBVIOUS
  <2> QED
    BY <1>1, <2>1, <2>2, SetRateType
<1>5. CASE \E r \in Rates : setTraffic(r)
  <2>1. PICK r \in Rates : setTraffic(r)
    BY <1>5
  <2>2. r \in 0..2 /\ (r > 0 /\ phase = "running") \in BOOLEAN
    BY <1>1
  <2>3. SetRateAndCycle(r, r > 0 /\ phase = "running")
    BY <2>1 DEF setTraffic
  <2> QED
    BY <2>2, <2>3, SetRateType
<1>6. CASE startSuspendAll
  <2> DEFINE b == IF cur = 0 THEN burstN + 1 ELSE cur
  <2>1. ctl' \in CtlType
    BY <1>0, <1>6 DEF startSuspendAll, CtlType, CtlPcs
  <2>2. cur' \in 0..MaxBursts /\ burstN' \in 0..MaxBursts
    BY <1>0, <1>6, ConstantAssumption DEF startSuspendAll
  <2>3. burst' \in BurstType
    <3>1. newBurst(AllAgents) \in BurstType
      BY NoCtlType DEF newBurst, BurstType
    <3>2. [burst EXCEPT !.dutyCycle = FALSE, !.allSusp = FALSE] \in BurstType
      BY <1>0 DEF BurstType
    <3> QED
      BY <1>6, <3>1, <3>2 DEF startSuspendAll
  <2>4. phase' \in Phases /\ busy' \in BOOLEAN /\ rate' \in 0..2
    BY <1>6 DEF startSuspendAll, Phases
  <2>5. OpType'
    BY <2>1, <2>2, <2>3, <2>4, OpTypeFrom
  <2> QED
    BY <1>6, <2>5, Same DEF startSuspendAll, TypeOK, thr
<1> QED
  BY <1>2, <1>3, <1>4, <1>5, <1>6 DEF Operator

(* What happens outside the driver. *)
LEMMA TypeOutside ==
    ASSUME TypeOK, Outside
    PROVE  TypeOK'
<1>1. CASE Restart
  <2>0. PICK listed \in BOOLEAN : Started(ate, listed)
    BY <1>1 DEF Restart, ListFails
  <2>1. ate \in [Agent -> AteStates] /\ ate' = ate /\ burst' = burst /\ burstN' = burstN
    BY <1>1 DEF Restart, TypeOK, RestType
  <2>2. GridType'
    <3>1. states' \in [Agent -> States] /\ up' \in Int
      BY <2>0, <2>1, GridOfType DEF Started, States
    <3> QED
      BY <2>0, <3>1 DEF Started, GridType
  <2>3. OpType'
    <3>1. ctl' \in CtlType /\ phase' \in Phases /\ busy' \in BOOLEAN
      BY <2>0, NoCtlType DEF Started, Phases
    <3>2. burst' \in BurstType /\ burstN' \in 0..MaxBursts
      BY <2>1 DEF TypeOK, OpType
    <3>3. rate' \in 0..2 /\ cur' \in 0..MaxBursts
      BY <2>0, ConstantAssumption DEF Started
    <3> QED
      BY <3>1, <3>2, <3>3, OpTypeFrom
  <2>4. ReqType'
    BY <2>0 DEF Started, ReqType
  <2>5. WorkType'
    BY <2>0, ConstantAssumption DEF Started, WorkType, NoWork, Agent
  <2>6. PcType'
    BY <2>0, ThreadShape DEF Started, PcType, Pcs, PcsOf
  <2>7. RestType'
    BY <2>0, <2>1 DEF Started, RestType
  <2> QED
    BY <2>2, <2>3, <2>4, <2>5, <2>6, <2>7 DEF TypeOK
<1>2. ASSUME NEW a \in Agent, AteLands(a) \/ AteCrashes(a) PROVE TypeOK'
  <2>1. RestType'
    BY <1>2 DEF AteLands, AteCrashes, thr, TypeOK, RestType, AteStates
  <2> QED
    BY <1>2, <2>1, Same DEF AteLands, AteCrashes, TypeOK, thr
<1> QED
  BY <1>1, <1>2 DEF Outside

(* No step of anyone breaks the types. *)
LEMMA TypeStep == TypeOK /\ [Next]_vars => TypeOK'
<1> SUFFICES ASSUME TypeOK, [Next]_vars PROVE TypeOK'
  OBVIOUS
<1>1. ASSUME NEW t \in Thread, ThreadStep(t) PROVE TypeOK'
  BY <1>1, TypeCommon, TypeRequests, TypeLife DEF ThreadStep
<1>2. ASSUME NEW w \in Workers, WorkerStep(w) PROVE TypeOK'
  BY <1>2, TypeWorker
<1>3. CASE trafficLoop \/ pickIdle \/ Control \/ Operator \/ Outside
  BY <1>3, TypeTraffic, TypeControl, TypeOperator, TypeOutside
<1>4. CASE UNCHANGED vars
  BY <1>4, Same DEF vars, thr, TypeOK
<1> QED
  BY <1>1, <1>2, <1>3, <1>4 DEF Next

(* The driver's fields keep their types: no step of any goroutine, of the    *)
(* operator or of ate-api leaves a state the code has no case for.           *)
THEOREM TypeCorrect == Spec => []TypeOK
<1>1. Init => TypeOK
  BY InitType
<1>2. TypeOK /\ [Next]_vars => TypeOK'
  BY TypeStep
<1> QED
  BY <1>1, <1>2, PTL DEF Spec

(***************************************************************************)
(* No wake and no pause of the duty cycle outlives it.                     *)
(***************************************************************************)

PreflightPcs == {"list", "atRest", "relist", "create", "final", "apply"}
SuspendPcs   == {"pass1", "drain", "passes", "verify", "judge"}

(* What the goroutine of an operation says about phase and busy. *)
ControlInv ==
    /\ busy <=> ctl.op # "none"
    /\ ctl.pc = "none" <=> ctl.op = "none"
    /\ ctl.pc = "none" => phase \in {"idle", "running"}
    /\ ctl.pc \in {"decide", "go"} => ctl.op = "burst" /\ phase = "idle"
    /\ ctl.pc \in PreflightPcs => \/ ctl.op = "burst" /\ phase = "idle"
                                  \/ ctl.op = "reconcile" /\ phase = "reconciling"
    /\ ctl.pc = "join" => /\ ctl.op = "burst" /\ phase \in {"waking", "running"}
                          /\ ~burst.args.hold => phase = "waking"
    /\ ctl.pc \in SuspendPcs => ctl.op = "suspend" /\ phase = "suspending"

(* runBurst waits for every agentLife it started. *)
LifeInv == \A t \in Thread : Kind(t) = "life" /\ pc[t] # "idle" => ctl.pc = "join"

(* A burst whose duty cycle has not started has no wave; waves belong to      *)
(* bursts that have begun.                                                   *)
WaveInv ==
    /\ cur <= burstN
    /\ \A t \in Thread : Kind(t) = "wave" /\ pc[t] # "idle" =>
         /\ t[3] <= burstN
         /\ ctl.op = "burst" /\ ctl.pc # "join" => t[3] < burstN
         /\ phase \in {"waking", "running"} /\ ~burst.dutyCycle => t[3] # cur

(* dutyOps counts the workers that claimed an agent to wake it and the        *)
(* threads that claimed one to pause it.                                     *)
Counted == {w \in Workers : work[w].counted}
Pausing == {t \in Thread : Kind(t) \in {"wave", "duty"} /\ pc[t] \in RestPcs}
Quiet   == phase \in {"idle", "reconciling", "waking"} \/ ctl.pc \in {"passes", "verify", "judge"}

CountInv == dutyOps = Cardinality(Counted) + Cardinality(Pausing)
ClaimInv == \A w \in Workers : /\ pc[Duty(w)] = "idle" => ~work[w].counted
                               /\ pc[Duty(w)] \in WakePcs => work[w].counted
QuietInv == Quiet => Counted = {} /\ Pausing = {}

DutyInv == ControlInv /\ LifeInv /\ WaveInv /\ CountInv /\ ClaimInv /\ QuietInv

(* The triples over three finite sets are finitely many. *)
LEMMA FiniteTriples ==
    ASSUME NEW S, NEW T, NEW U, IsFiniteSet(S), IsFiniteSet(T), IsFiniteSet(U)
    PROVE  IsFiniteSet(S \X T \X U)
<1> DEFINE P == (S \X T) \X U
           f == [x \in P |-> <<x[1][1], x[1][2], x[2]>>]
<1>1. IsFiniteSet(S \X T)
  BY FS_Product
<1>2. IsFiniteSet(P)
  BY <1>1, FS_Product
<1>3. f \in Surjection(P, S \X T \X U)
  <2>1. f \in [P -> S \X T \X U]
    OBVIOUS
  <2>2. ASSUME NEW y \in S \X T \X U PROVE \E x \in P : f[x] = y
    <3>1. PICK s \in S, u \in T, v \in U : y = <<s, u, v>>
      OBVIOUS
    <3>2. <<<<s, u>>, v>> \in P /\ f[<<<<s, u>>, v>>] = y
      BY <3>1
    <3> QED
      BY <3>2
  <2> QED
    BY <2>1, <2>2 DEF Surjection
<1> QED
  BY <1>2, <1>3, FS_Surjection

(* The threads are finitely many, so what dutyOps counts can be counted. *)
LEMMA FiniteThreads ==
    /\ \A S \in SUBSET Thread : IsFiniteSet(S) /\ Cardinality(S) \in Nat
    /\ \A S \in SUBSET Workers : IsFiniteSet(S) /\ Cardinality(S) \in Nat
<1> DEFINE K == {"life", "sweep", "fix"}
           R == {"plain", "over"}
<1>1. IsFiniteSet(Agent) /\ IsFiniteSet(BurstId) /\ IsFiniteSet(1..MaxReq) /\ IsFiniteSet(Workers)
  <2>1. N \in Int /\ MaxBursts \in Int /\ MaxReq \in Int /\ IsFiniteSet(Workers)
    BY ConstantAssumption
  <2>2. IsFiniteSet(1..N) /\ IsFiniteSet(1..MaxBursts) /\ IsFiniteSet(1..MaxReq)
    BY <2>1, FS_Interval
  <2> QED
    BY <2>1, <2>2 DEF Agent, BurstId
<1>2. IsFiniteSet({"sweep", "fix"}) /\ IsFiniteSet(R)
  <2>1. {"sweep", "fix"} = {"sweep"} \cup {"fix"} /\ R = {"plain"} \cup {"over"}
    OBVIOUS
  <2>2. IsFiniteSet({"sweep"}) /\ IsFiniteSet({"plain"})
    BY FS_Singleton
  <2>3. IsFiniteSet({"sweep"} \cup {"fix"}) /\ IsFiniteSet({"plain"} \cup {"over"})
    BY <2>2, FS_AddElement
  <2> QED
    BY <2>1, <2>3
<1>3. IsFiniteSet(K)
  <2>1. K = {"sweep", "fix"} \cup {"life"}
    OBVIOUS
  <2> QED
    BY <1>2, <2>1, FS_AddElement
<1>4. IsFiniteSet({0}) /\ IsFiniteSet({"wave"}) /\ IsFiniteSet({"duty"})
  BY FS_Singleton
<1>5. IsFiniteSet(K \X Agent \X {0})
  BY <1>1, <1>3, <1>4, FiniteTriples
<1>6. IsFiniteSet({"wave"} \X Agent \X BurstId)
  BY <1>1, <1>4, FiniteTriples
<1>7. IsFiniteSet(R \X Agent \X (1..MaxReq))
  BY <1>1, <1>2, FiniteTriples
<1>8. IsFiniteSet({"duty"} \X Workers \X {0})
  BY <1>1, <1>4, FiniteTriples
<1>9. IsFiniteSet(Thread)
  <2> HIDE DEF K, R
  <2>1. IsFiniteSet((K \X Agent \X {0}) \cup ({"wave"} \X Agent \X BurstId))
    BY <1>5, <1>6, FS_Union
  <2>2. IsFiniteSet((K \X Agent \X {0}) \cup ({"wave"} \X Agent \X BurstId)
                       \cup (R \X Agent \X (1..MaxReq)))
    BY <1>7, <2>1, FS_Union
  <2>3. IsFiniteSet((K \X Agent \X {0}) \cup ({"wave"} \X Agent \X BurstId)
                       \cup (R \X Agent \X (1..MaxReq)) \cup ({"duty"} \X Workers \X {0}))
    BY <1>8, <2>2, FS_Union
  <2> QED
    BY <2>3 DEF Thread, K, R
<1> QED
  BY <1>1, <1>9, FS_Subset, FS_CardinalityType

(* How a thread's step moves it, and what it leaves alone. *)
LEMMA ThreadMoves ==
    ASSUME TypeOK, NEW t \in Thread, ThreadStep(t)
    PROVE  /\ UNCHANGED <<busy, burstN, cur, ctl, work>>
           /\ burst'.args = burst.args /\ burst'.dutyCycle = burst.dutyCycle
           /\ pc[t] # "idle"
           /\ \/ phase' = phase
              \/ Kind(t) = "life" /\ phase' = "running" /\ burst.args.hold
           /\ \E p : /\ Goto(t, p)
                     /\ Kind(t) = "duty" => p # "idle" /\ (p \in WakePcs => pc[t] \in WakePcs)
                     /\ \/ /\ dutyOps' = dutyOps
                           /\ Kind(t) \in {"wave", "duty"} => (p \in RestPcs <=> pc[t] \in RestPcs)
                        \/ /\ dutyOps' = dutyOps + 1 /\ phase = "running"
                           /\ Kind(t) \in {"wave", "duty"} /\ p \in RestPcs /\ pc[t] \notin RestPcs
                        \/ /\ dutyOps' = dutyOps - 1
                           /\ Kind(t) \in {"wave", "duty"} /\ p \notin RestPcs /\ pc[t] \in RestPcs
<1>0. PcType /\ burst \in BurstType /\ Kind(t) \in {"life", "sweep", "fix", "wave", "plain", "over", "duty"}
  BY ThreadShape DEF TypeOK, OpType
<1> USE DEF WakePcs, RestPcs
<1>1. CASE wakeRPC(t)
  <2>1. PICK o \in ResumeOutcomes(ate[AgentOf(t)]) : Goto(t, o[1])
    BY <1>1 DEF wakeRPC
  <2>2. o[1] \in {"woke", "wakeErr", "wakeBad"}
    BY AgentOfType, RPCOutcomes DEF TypeOK, RestType
  <2> QED
    BY <1>1, <2>1, <2>2 DEF wakeRPC, op, req
<1>2. CASE restRPC(t)
  <2>1. PICK o \in RestOutcomes(ate[AgentOf(t)]) : Goto(t, o[1])
    BY <1>2 DEF restRPC
  <2>2. o[1] \in {"restOk", "restErr", "restBad"}
    BY AgentOfType, RPCOutcomes DEF TypeOK, RestType
  <2> QED
    BY <1>2, <2>1, <2>2 DEF restRPC, op, req
<1>3. CASE waitNotBusy(t)
  BY <1>3 DEF waitNotBusy, op, req
<1>4. CASE AcquireSem(t)
  BY <1>0, <1>4, PcKind DEF AcquireSem, op, req
<1>5. CASE BackOff(t) \/ SendAgain(t)
  BY <1>5 DEF BackOff, SendAgain, op, req
<1>6. CASE FirstJoke(t)
  <2>1. Kind(t) \in {"life", "wave"}
    BY <1>0, <1>6, PcKind DEF FirstJoke
  <2> QED
    BY <1>6, <2>1 DEF FirstJoke, AfterFirst, BeginRequest, op, req
<1>7. CASE FirstJokeDone(t)
  BY <1>7 DEF FirstJokeDone, EndRequest, AfterFirst, op
<1>8. CASE trafficDone(t)
  BY <1>8 DEF trafficDone, EndRequest, op
<1>9. CASE WaveCheck(t)
  BY <1>0, <1>9, PcKind DEF WaveCheck, op, req
<1>10. CASE dutyPauseClaim(t)
  <2>1. Kind(t) \in {"wave", "duty"}
    BY <1>0, <1>10, PcKind DEF dutyPauseClaim
  <2> QED
    BY <1>10, <2>1 DEF dutyPauseClaim, PauseReturn, StillDuty, op
<1>11. CASE dutyPauseLand(t)
  BY <1>11 DEF dutyPauseLand, PauseReturn, op
<1>12. CASE suspendClaim(t)
  BY <1>0, <1>12, PcKind DEF suspendClaim, op, req
<1>13. CASE suspendLand(t)
  <2>1. burst'.args = burst.args /\ burst'.dutyCycle = burst.dutyCycle
    BY <1>0, <1>13 DEF suspendLand, BurstType
  <2> QED
    BY <1>13, <2>1 DEF suspendLand, req
<1>14. CASE recreate(t) \/ fixLand(t)
  BY <1>0, <1>14, PcKind DEF recreate, fixLand, op, req
<1>15. CASE LifeStart(t)
  BY <1>0, <1>15, PcKind DEF LifeStart, op, req
<1>16. CASE LifeLand(t)
  <2>1. PICK woke, failed : checkWakeDone(woke, failed)
    BY <1>16 DEF LifeLand
  <2>2. /\ burst'.args = burst.args /\ burst'.dutyCycle = burst.dutyCycle
        /\ phase' = phase \/ (phase' = "running" /\ burst.args.hold)
    BY <1>0, <2>1 DEF checkWakeDone, BurstType
  <2> QED
    BY <1>16, <2>2 DEF LifeLand, req
<1> QED
  BY <1>1, <1>2, <1>3, <1>4, <1>5, <1>6, <1>7, <1>8, <1>9, <1>10, <1>11, <1>12, <1>13, <1>14,
     <1>15, <1>16 DEF ThreadStep

(* The workers' own steps leave the operation alone. *)
LEMMA WorkerMoves ==
    ASSUME TypeOK, NEW w \in Workers, WorkerStep(w)
    PROVE  UNCHANGED op /\ \A t \in Thread : t # Duty(w) => pc'[t] = pc[t]
<1>1. \E p : Goto(Duty(w), p)
  BY DEF WorkerStep, dutyOverCap, dutyPick, dutyWake, dutyWakeLand, dutyAsk, dutyAskDone, dutyReturn,
         BeginRequest
<1>2. UNCHANGED op
  BY DEF WorkerStep, dutyOverCap, dutyPick, dutyWake, dutyWakeLand, dutyAsk, dutyAskDone, dutyReturn
<1> QED
  BY <1>1, <1>2 DEF Goto, TypeOK, PcType

(* Steady traffic leaves the operation alone, and every thread but its own. *)
LEMMA TrafficMoves ==
    ASSUME TypeOK, trafficLoop \/ pickIdle
    PROVE  /\ UNCHANGED <<op, work, dutyOps>>
           /\ \A t \in Thread : Kind(t) \notin {"plain", "over"} => pc'[t] = pc[t]
<1>1. CASE trafficLoop
  BY <1>1 DEF trafficLoop, thr, req
<1>2. CASE pickIdle /\ Pickable = {}
  BY <1>2 DEF pickIdle, req
<1>3. CASE pickIdle /\ Pickable # {}
  <2>0. PICK a \in Pickable : \E k : BeginRequest(<<dispatch, a, k>>, a, 1)
    BY <1>3 DEF pickIdle
  <2>1. PICK k : BeginRequest(<<dispatch, a, k>>, a, 1)
    BY <2>0
  <2>2. Kind(<<dispatch, a, k>>) \in {"plain", "over"}
    BY <1>3 DEF pickIdle, TypeOK, RestType, Kind
  <2>3. \A t \in Thread : Kind(t) \notin {"plain", "over"} => pc'[t] = pc[t]
    BY <2>1, <2>2 DEF BeginRequest, Goto, TypeOK, PcType
  <2> QED
    BY <1>3, <2>1, <2>3 DEF pickIdle, BeginRequest
<1> QED
  BY <1>1, <1>2, <1>3

(* The goroutine of an operation starts threads of other kinds than dutyOps   *)
(* counts.                                                                   *)
LEMMA SpawnMoves ==
    ASSUME NEW S \in SUBSET Agent, NEW p,
           \/ Spawn({Fix(a) : a \in S}, p) \/ Spawn({Sweep(a) : a \in S}, p)
    PROVE  \A t \in Thread : Kind(t) \notin {"sweep", "fix"} => pc'[t] = pc[t]
BY DEF Spawn, Fix, Sweep, Kind

(* How ctl's steps move the threads, and what they leave alone. *)
LEMMA ControlMoves ==
    ASSUME TypeOK, Control
    PROVE  /\ UNCHANGED <<dutyOps, work, burstN>>
           /\ \A t \in Thread : Kind(t) \notin {"life", "sweep", "fix"} => pc'[t] = pc[t]
           /\ BurstGo \/ \A t \in Thread : Kind(t) = "life" => pc'[t] = pc[t]
<1>1. CASE PreflightList
  BY <1>1, SpawnMoves DEF PreflightList, NotAtRest, req
<1>2. CASE PreflightRelist \/ PreflightFinal \/ PreflightApply \/ BurstDecide \/ BurstEnd
  BY <1>2 DEF PreflightRelist, PreflightFinal, PreflightApply, BurstDecide, BurstEnd, req, thr
<1>3. CASE PreflightCreate
  BY <1>3, SpawnMoves DEF PreflightCreate, req
<1>4. CASE BurstGo
  BY <1>4 DEF BurstGo, req, Spawn, Life, Kind
<1>5. CASE SuspendPass1 \/ SuspendPasses
  BY <1>5, SpawnMoves DEF SuspendPass1, SuspendPasses, UpNow, req
<1>6. CASE SuspendDrain \/ VerifyList
  BY <1>6 DEF SuspendDrain, VerifyList, req, thr
<1>7. CASE VerifyDecide
  BY <1>7, SpawnMoves DEF VerifyDecide, NotAtRest, req
<1> QED
  BY <1>1, <1>2, <1>3, <1>4, <1>5, <1>6, <1>7 DEF Control

(* A change of the rate starts no thread but waves of the current burst, and  *)
(* those only while the agents wake or run.                                  *)
RateMoves ==
    /\ UNCHANGED <<dutyOps, work, phase, busy, burstN, cur, ctl>> /\ burst'.args = burst.args
    /\ \/ UNCHANGED <<pc, burst>>
       \/ /\ phase \in {"waking", "running"} /\ ~burst.dutyCycle /\ burst'.dutyCycle
          /\ \A t \in Thread :
               pc'[t] = pc[t] \/ (Kind(t) = "wave" /\ t[3] = cur /\ pc'[t] \in {"first", "check"})

(* What each of the operator's commands leaves alone. *)
LEMMA OperatorMoves ==
    ASSUME TypeOK, Operator
    PROVE  \/ \E args \in BurstArgs : startBurst(args)
           \/ startReconcile \/ startSuspendAll \/ RateMoves
<1>1. ASSUME NEW r, NEW start \in BOOLEAN, SetRateAndCycle(r, start), start => phase \in {"waking", "running"}
      PROVE  RateMoves
  <2>1. CASE start /\ cur # 0 /\ ~burst.dutyCycle
    <3>1. StartDutyCycle
      BY <1>1, <2>1 DEF SetRateAndCycle
    <3>2. burst' = [burst EXCEPT !.dutyCycle = TRUE]
      BY <3>1 DEF StartDutyCycle
    <3>3. burst'.dutyCycle /\ burst'.args = burst.args
      BY <3>2 DEF TypeOK, OpType, BurstType
    <3>4. \A t \in Thread :
            pc'[t] = pc[t] \/ (Kind(t) = "wave" /\ t[3] = cur /\ pc'[t] \in {"first", "check"})
      BY <3>1 DEF StartDutyCycle
    <3> QED
      BY <1>1, <2>1, <3>3, <3>4 DEF SetRateAndCycle, req, RateMoves
  <2>2. CASE ~(start /\ cur # 0 /\ ~burst.dutyCycle)
    BY <1>1, <2>2 DEF SetRateAndCycle, req, RateMoves
  <2> QED
    BY <2>1, <2>2
<1>2. CASE simulateTraffic \/ setStrategy
  <2>1. \/ SetRateAndCycle(AutoRate, TRUE) /\ phase \in {"waking", "running"}
        \/ SetRateAndCycle(0, FALSE) \/ SetRateAndCycle(AutoRate, FALSE)
    BY <1>2 DEF simulateTraffic, setStrategy
  <2> QED
    BY <1>1, <2>1
<1>3. ASSUME NEW r \in Rates, setTraffic(r) PROVE RateMoves
  <2>1. SetRateAndCycle(r, r > 0 /\ phase = "running") /\ (r > 0 /\ phase = "running") \in BOOLEAN
    BY <1>3 DEF setTraffic
  <2> QED
    BY <1>1, <2>1
<1> QED
  BY <1>2, <1>3 DEF Operator

(* The driver and the actors as Restart leaves them. *)
LEMMA RestartMoves ==
    ASSUME TypeOK, Restart
    PROVE  /\ phase' = "idle" /\ busy' = FALSE /\ cur' = 0 /\ ctl' = NoCtl /\ burstN' = burstN
           /\ burst' = burst /\ dutyOps' = 0 /\ pc' = [t \in Thread |-> "idle"]
           /\ work' = [w \in Workers |-> NoWork]
BY DEF Restart, Started

(* ctl, phase and busy stay in step. *)
LEMMA ControlInvStep ==
    ASSUME TypeOK, ControlInv, LifeInv, [Next]_vars
    PROVE  ControlInv'
<1> USE DEF PreflightPcs, SuspendPcs
<1>0. burst \in BurstType /\ ctl \in CtlType
  BY DEF TypeOK, OpType, CtlType
<1>1. ASSUME NEW t \in Thread, ThreadStep(t) PROVE ControlInv'
  <2>1. /\ UNCHANGED <<busy, ctl>> /\ burst'.args = burst.args
        /\ phase' = phase \/ (ctl.pc = "join" /\ phase' = "running" /\ burst.args.hold)
    BY <1>1, ThreadMoves DEF LifeInv
  <2> QED
    BY <2>1 DEF ControlInv
<1>2. ASSUME UNCHANGED <<phase, busy, ctl>>, burst'.args = burst.args PROVE ControlInv'
  BY <1>2 DEF ControlInv
<1>3. ASSUME NEW w \in Workers, WorkerStep(w) PROVE ControlInv'
  BY <1>2, <1>3, WorkerMoves DEF op
<1>4. CASE trafficLoop \/ pickIdle
  BY <1>2, <1>4, TrafficMoves DEF op
<1>5. CASE Control
  <2>1. ctl.pc \in PreflightPcs /\ PreflightDone => ControlInv'
    <3>1. CASE ctl.op = "burst" /\ ctl.pc \in PreflightPcs /\ PreflightDone
      BY <1>0, <3>1 DEF ControlInv, PreflightDone, Ctl, CtlType
    <3>2. CASE ctl.op # "burst" /\ ctl.pc \in PreflightPcs /\ PreflightDone
      BY <3>2 DEF ControlInv, PreflightDone, NoCtl
    <3> QED
      BY <3>1, <3>2
  <2>2. \A s : SuspendDone(s) => ControlInv'
    BY DEF SuspendDone, ControlInv, NoCtl
  <2>3. CASE PreflightList \/ PreflightRelist \/ PreflightFinal \/ PreflightApply
    <3>1. ASSUME NEW p \in PreflightPcs, AteList(p), UNCHANGED <<phase, busy>>, ctl.pc \in PreflightPcs
          PROVE  ControlInv'
      <4>1. ctl'.op = ctl.op /\ ctl'.pc = p
        BY <1>0, <3>1 DEF AteList, CtlType
      <4> QED
        BY <3>1, <4>1 DEF ControlInv
    <3>2. CASE PreflightList
      BY <2>1, <3>1, <3>2 DEF PreflightList
    <3>3. CASE PreflightRelist
      BY <2>1, <3>1, <3>3 DEF PreflightRelist
    <3>4. CASE PreflightFinal
      BY <2>1, <3>1, <3>4 DEF PreflightFinal
    <3>5. CASE PreflightApply
      BY <2>1, <3>5 DEF PreflightApply
    <3> QED
      BY <2>3, <3>2, <3>3, <3>4, <3>5
  <2>4. CASE PreflightCreate \/ BurstDecide
    BY <1>0, <2>4 DEF PreflightCreate, BurstDecide, ControlInv, Ctl, CtlType
  <2>5. CASE BurstGo
    BY <1>0, <2>5 DEF BurstGo, ControlInv, Ctl, CtlType
  <2>6. CASE BurstEnd
    BY <2>6 DEF BurstEnd, ControlInv, NoCtl
  <2>7. CASE SuspendPass1 \/ SuspendDrain
    BY <1>0, <2>7 DEF SuspendPass1, SuspendDrain, ControlInv, Ctl, CtlType
  <2>8. CASE SuspendPasses
    BY <1>0, <2>8 DEF SuspendPasses, ControlInv, CtlType
  <2>9. CASE VerifyList
    <3>1. CASE AteList("judge") /\ UNCHANGED <<phase, busy, burst>>
      BY <1>0, <2>9, <3>1 DEF VerifyList, ControlInv, AteList, CtlType
    <3> QED
      BY <2>2, <2>9, <3>1 DEF VerifyList
  <2>10. CASE VerifyDecide
    BY <1>0, <2>2, <2>10 DEF VerifyDecide, ControlInv, CtlType
  <2> QED
    BY <1>5, <2>3, <2>4, <2>5, <2>6, <2>7, <2>8, <2>9, <2>10 DEF Control
<1>6. CASE Operator
  <2>1. CASE \E args \in BurstArgs : startBurst(args)
    BY <1>0, <2>1 DEF startBurst, ControlInv, CtlType
  <2>2. CASE startReconcile
    BY <1>0, <2>2 DEF startReconcile, ControlInv, CtlType
  <2>3. CASE startSuspendAll
    BY <1>0, <2>3 DEF startSuspendAll, ControlInv, CtlType
  <2>4. CASE RateMoves
    BY <1>2, <2>4 DEF RateMoves
  <2> QED
    BY <1>6, <2>1, <2>2, <2>3, <2>4, OperatorMoves
<1>7. CASE Outside
  <2>1. CASE Restart
    BY <2>1, RestartMoves DEF ControlInv, NoCtl
  <2>2. CASE \E a \in Agent : AteLands(a) \/ AteCrashes(a)
    BY <1>2, <2>2 DEF AteLands, AteCrashes, op
  <2> QED
    BY <1>7, <2>1, <2>2 DEF Outside
<1>8. CASE UNCHANGED vars
  BY <1>2, <1>8 DEF vars, op
<1> QED
  BY <1>1, <1>3, <1>4, <1>5, <1>6, <1>7, <1>8 DEF Next

(* Agents' lives run only while their burst is being joined. *)
LEMMA LifeInvStep ==
    ASSUME TypeOK, ControlInv, LifeInv, [Next]_vars
    PROVE  LifeInv'
<1> DEFINE Same2 == UNCHANGED ctl /\ \A l \in Thread : Kind(l) = "life" /\ pc'[l] # "idle" => pc[l] # "idle"
<1>0. Same2 => LifeInv'
  BY DEF LifeInv
<1>1. ASSUME NEW t \in Thread, ThreadStep(t) PROVE LifeInv'
  <2>1. PICK p : Goto(t, p)
    BY <1>1, ThreadMoves
  <2>2. UNCHANGED ctl /\ pc[t] # "idle"
    BY <1>1, ThreadMoves
  <2>3. \A l \in Thread : l # t => pc'[l] = pc[l]
    BY <2>1 DEF Goto, TypeOK, PcType
  <2> QED
    BY <1>0, <2>2, <2>3
<1>2. ASSUME NEW w \in Workers, WorkerStep(w) PROVE LifeInv'
  BY <1>0, <1>2, WorkerMoves, DutyThread DEF op
<1>3. CASE trafficLoop \/ pickIdle
  BY <1>0, <1>3, TrafficMoves DEF op
<1>4. CASE Control
  <2>1. CASE BurstGo
    BY <2>1 DEF BurstGo, Ctl, TypeOK, OpType, LifeInv
  <2>2. CASE BurstEnd
    BY <2>2 DEF BurstEnd, Done, All, LifeInv, thr
  <2>3. CASE ctl.pc # "join" /\ ~BurstGo
    BY <1>4, <2>3, ControlMoves DEF LifeInv
  <2>4. ctl.pc = "join" /\ ~BurstGo => BurstEnd
    BY <1>4 DEF Control, PreflightList, PreflightRelist, PreflightCreate, PreflightFinal,
       PreflightApply, BurstDecide, SuspendPass1, SuspendDrain, SuspendPasses, VerifyList, VerifyDecide
  <2> QED
    BY <2>1, <2>2, <2>3, <2>4
<1>5. CASE Operator
  <2>1. CASE RateMoves
    BY <1>0, <2>1 DEF RateMoves
  <2>2. CASE (\E args \in BurstArgs : startBurst(args)) \/ startReconcile \/ startSuspendAll
    <3>1. ~busy /\ UNCHANGED pc
      BY <2>2 DEF startBurst, startReconcile, startSuspendAll, thr
    <3>2. ctl.pc # "join"
      BY <3>1 DEF ControlInv
    <3> QED
      BY <3>1, <3>2 DEF LifeInv
  <2> QED
    BY <1>5, <2>1, <2>2, OperatorMoves
<1>6. CASE Outside
  <2>1. CASE Restart
    BY <2>1, RestartMoves DEF LifeInv
  <2>2. CASE \E a \in Agent : AteLands(a) \/ AteCrashes(a)
    BY <1>0, <2>2 DEF AteLands, AteCrashes, op, thr
  <2> QED
    BY <1>6, <2>1, <2>2 DEF Outside
<1>7. CASE UNCHANGED vars
  BY <1>0, <1>7 DEF vars, op, thr
<1> QED
  BY <1>1, <1>2, <1>3, <1>4, <1>5, <1>6, <1>7 DEF Next

(* Waves belong to bursts that have begun a duty cycle. *)
LEMMA WaveInvStep ==
    ASSUME TypeOK, ControlInv, LifeInv, WaveInv, [Next]_vars
    PROVE  WaveInv'
<1>0. /\ burst \in BurstType /\ ctl \in CtlType /\ burstN \in Int /\ cur \in Int
      /\ \A t \in Thread : Kind(t) = "wave" => t[3] \in Int
  BY ThreadShape DEF TypeOK, OpType, CtlType, BurstId
<1>1. ASSUME UNCHANGED <<burstN, cur, ctl>>, burst'.dutyCycle = burst.dutyCycle,
             phase' = phase \/ phase \in {"waking", "running"},
             \A t \in Thread : Kind(t) = "wave" /\ pc'[t] # "idle" => pc[t] # "idle"
      PROVE  WaveInv'
  BY <1>1 DEF WaveInv
<1>2. ASSUME NEW t \in Thread, ThreadStep(t) PROVE WaveInv'
  <2>1. PICK p : Goto(t, p)
    BY <1>2, ThreadMoves
  <2>2. /\ UNCHANGED <<burstN, cur, ctl>> /\ burst'.dutyCycle = burst.dutyCycle /\ pc[t] # "idle"
        /\ phase' = phase \/ Kind(t) = "life"
    BY <1>2, ThreadMoves
  <2>3. phase' = phase \/ phase \in {"waking", "running"}
    BY <2>2 DEF LifeInv, ControlInv
  <2>4. \A l \in Thread : l # t => pc'[l] = pc[l]
    BY <2>1 DEF Goto, TypeOK, PcType
  <2> QED
    BY <1>1, <2>2, <2>3, <2>4
<1>3. ASSUME NEW w \in Workers, WorkerStep(w) PROVE WaveInv'
  BY <1>1, <1>3, WorkerMoves, DutyThread DEF op
<1>4. CASE trafficLoop \/ pickIdle
  BY <1>1, <1>4, TrafficMoves DEF op
<1>5. CASE Control
  <2>1. burstN' = burstN /\ \A t \in Thread : Kind(t) = "wave" => pc'[t] = pc[t]
    BY <1>5, ControlMoves
  <2>2. ASSUME cur' = cur, phase' = "idle" \/ phase' = phase, burst'.dutyCycle = burst.dutyCycle,
               ctl'.op = "burst" => ctl'.pc # "join" /\ ctl.op = "burst" /\ ctl.pc # "join"
        PROVE  WaveInv'
    BY <2>1, <2>2 DEF WaveInv
  <2>3. ctl.pc \in PreflightPcs /\ PreflightDone =>
          /\ phase' = "idle" \/ phase' = phase
          /\ ctl'.op = "burst" => ctl'.pc # "join" /\ ctl.op = "burst" /\ ctl.pc # "join"
    BY <1>0 DEF PreflightDone, Ctl, CtlType, PreflightPcs, NoCtl
  <2>4. CASE PreflightList \/ PreflightRelist \/ PreflightFinal \/ PreflightApply
    <3>1. /\ phase' = "idle" \/ phase' = phase
          /\ ctl'.op = "burst" => ctl'.pc # "join" /\ ctl.op = "burst" /\ ctl.pc # "join"
      BY <1>0, <2>3, <2>4 DEF PreflightList, PreflightRelist, PreflightFinal, PreflightApply,
         PreflightPcs, AteList, CtlType
    <3> QED
      BY <2>2, <2>4, <3>1 DEF PreflightList, PreflightRelist, PreflightFinal, PreflightApply
  <2>5. CASE PreflightCreate \/ BurstDecide
    <3>1. ctl'.op = "burst" => ctl'.pc # "join" /\ ctl.op = "burst" /\ ctl.pc # "join"
      BY <1>0, <2>5 DEF PreflightCreate, BurstDecide, Ctl, CtlType
    <3> QED
      BY <2>2, <2>5, <3>1 DEF PreflightCreate, BurstDecide
  <2>6. CASE BurstGo
    <3>1. cur' = burstN /\ ctl'.pc = "join"
      BY <1>0, <2>6 DEF BurstGo, Ctl, CtlType
    <3>2. ctl.op = "burst" /\ ctl.pc = "go"
      BY <2>6 DEF BurstGo, ControlInv
    <3> QED
      BY <1>0, <2>1, <3>1, <3>2 DEF WaveInv
  <2>7. CASE BurstEnd
    <3>1. /\ cur' = cur /\ burst' = burst /\ ctl'.op = "none"
          /\ phase \in {"waking", "running"}
      BY <2>7 DEF BurstEnd, NoCtl, ControlInv
    <3> QED
      BY <2>1, <3>1 DEF WaveInv
  <2>8. CASE SuspendPass1 \/ SuspendDrain \/ SuspendPasses \/ VerifyList \/ VerifyDecide
    <3>1. ctl.op = "suspend"
      BY <2>8 DEF SuspendPass1, SuspendDrain, SuspendPasses, VerifyList, VerifyDecide,
         ControlInv, SuspendPcs
    <3>2. ctl'.op \in {"suspend", "none"} /\ (phase' = "idle" \/ phase' = phase) /\ cur' = cur
      <4>1. \A s : SuspendDone(s) => ctl'.op = "none" /\ phase' = "idle"
        BY DEF SuspendDone, NoCtl
      <4>2. CASE SuspendPass1 \/ SuspendDrain \/ SuspendPasses
        BY <1>0, <3>1, <4>2 DEF SuspendPass1, SuspendDrain, SuspendPasses, Ctl, CtlType
      <4>3. CASE VerifyList
        BY <1>0, <3>1, <4>1, <4>3 DEF VerifyList, AteList, CtlType
      <4>4. CASE VerifyDecide
        BY <1>0, <3>1, <4>1, <4>4 DEF VerifyDecide, CtlType
      <4> QED
        BY <2>8, <4>2, <4>3, <4>4
    <3>3. burst'.dutyCycle = burst.dutyCycle
      BY <1>0, <2>8 DEF SuspendPass1, SuspendDrain, SuspendPasses, VerifyList, VerifyDecide,
         SuspendDone, BurstType
    <3> QED
      BY <2>2, <3>2, <3>3
  <2> QED
    BY <1>5, <2>4, <2>5, <2>6, <2>7, <2>8 DEF Control
<1>6. CASE Operator
  <2>1. CASE \E args \in BurstArgs : startBurst(args)
    <3>1. burstN' = burstN + 1 /\ UNCHANGED <<phase, cur, pc>> /\ phase = "idle"
      BY <2>1 DEF startBurst, thr
    <3> QED
      BY <1>0, <3>1 DEF WaveInv
  <2>2. CASE startReconcile
    <3>1. UNCHANGED <<burstN, cur, pc>> /\ phase' = "reconciling" /\ ctl'.op = "reconcile"
      BY <1>0, <2>2 DEF startReconcile, thr, CtlType
    <3> QED
      BY <3>1 DEF WaveInv
  <2>3. CASE startSuspendAll
    <3>1. /\ UNCHANGED pc /\ phase' = "suspending" /\ ctl'.op = "suspend"
          /\ burstN' >= burstN /\ cur' <= burstN'
      BY <1>0, <2>3 DEF startSuspendAll, thr, CtlType, WaveInv
    <3> QED
      BY <1>0, <2>3, <3>1 DEF WaveInv, startSuspendAll
  <2>4. CASE RateMoves
    <3>1. CASE UNCHANGED <<pc, burst>>
      BY <1>1, <2>4, <3>1 DEF RateMoves
    <3>2. CASE ~UNCHANGED <<pc, burst>>
      <4>1. /\ UNCHANGED <<phase, burstN, cur, ctl>> /\ phase \in {"waking", "running"} /\ burst'.dutyCycle
            /\ \A t \in Thread : pc'[t] = pc[t] \/ (Kind(t) = "wave" /\ t[3] = cur)
        BY <2>4, <3>2 DEF RateMoves
      <4>2. ctl.op = "burst" => ctl.pc = "join"
        BY <4>1 DEF ControlInv, TypeOK, OpType, CtlPcs, PreflightPcs, SuspendPcs
      <4> QED
        BY <1>0, <4>1, <4>2 DEF WaveInv
    <3> QED
      BY <3>1, <3>2
  <2> QED
    BY <1>6, <2>1, <2>2, <2>3, <2>4, OperatorMoves
<1>7. CASE Outside
  <2>1. CASE Restart
    <3>1. cur' = 0 /\ burstN' = burstN /\ \A t \in Thread : pc'[t] = "idle"
      BY <2>1, RestartMoves
    <3>2. 0 <= burstN
      BY DEF TypeOK, OpType
    <3> QED
      BY <3>1, <3>2 DEF WaveInv
  <2>2. CASE \E a \in Agent : AteLands(a) \/ AteCrashes(a)
    BY <1>1, <2>2 DEF AteLands, AteCrashes, op, thr
  <2> QED
    BY <1>7, <2>1, <2>2 DEF Outside
<1>8. CASE UNCHANGED vars
  BY <1>1, <1>8 DEF vars, op, thr
<1> QED
  BY <1>2, <1>3, <1>4, <1>5, <1>6, <1>7, <1>8 DEF Next

(* A step after which the same threads pause and the same workers are         *)
(* counted; while the driver is quiet it can only stay so.                   *)
LEMMA DutyFrame ==
    ASSUME TypeOK, CountInv, ClaimInv, QuietInv,
           UNCHANGED <<dutyOps, work>>, Quiet' => Quiet,
           \A t \in Thread : Kind(t) \in {"wave", "duty"} => (pc'[t] \in RestPcs <=> pc[t] \in RestPcs),
           \A w \in Workers : /\ pc'[Duty(w)] = "idle" => pc[Duty(w)] = "idle"
                              /\ pc'[Duty(w)] \in WakePcs => pc[Duty(w)] \in WakePcs
    PROVE  CountInv' /\ ClaimInv' /\ QuietInv'
<1>1. Counted' = Counted /\ Pausing' = Pausing
  BY DEF Counted, Pausing
<1> QED
  BY <1>1 DEF CountInv, ClaimInv, QuietInv

(* A thread's step keeps the count of duty-cycle operations and the quiet. *)
LEMMA DutyThreadStep ==
    ASSUME TypeOK, ControlInv, LifeInv, CountInv, ClaimInv, QuietInv,
           NEW t \in Thread, ThreadStep(t)
    PROVE  CountInv' /\ ClaimInv' /\ QuietInv'
<1>1. PICK p : /\ Goto(t, p)
               /\ Kind(t) = "duty" => p # "idle" /\ (p \in WakePcs => pc[t] \in WakePcs)
               /\ \/ /\ dutyOps' = dutyOps
                     /\ Kind(t) \in {"wave", "duty"} => (p \in RestPcs <=> pc[t] \in RestPcs)
                  \/ /\ dutyOps' = dutyOps + 1 /\ phase = "running"
                     /\ Kind(t) \in {"wave", "duty"} /\ p \in RestPcs /\ pc[t] \notin RestPcs
                  \/ /\ dutyOps' = dutyOps - 1
                     /\ Kind(t) \in {"wave", "duty"} /\ p \notin RestPcs /\ pc[t] \in RestPcs
  BY ThreadMoves
<1>2. /\ UNCHANGED <<ctl, work>> /\ pc[t] # "idle"
      /\ phase' = phase \/ (Kind(t) = "life" /\ phase' = "running")
  BY ThreadMoves
<1>3. pc'[t] = p /\ \A u \in Thread : u # t => pc'[u] = pc[u]
  BY <1>1 DEF Goto, TypeOK, PcType
<1>4. Quiet' => Quiet
  BY <1>2 DEF Quiet, LifeInv, ControlInv
<1>5. Counted' = Counted
  BY <1>2 DEF Counted
<1>6. ClaimInv'
  BY <1>1, <1>2, <1>3, DutyThread DEF ClaimInv
<1>7. IsFiniteSet(Pausing) /\ Cardinality(Pausing) \in Nat /\ Cardinality(Counted) \in Nat
  BY FiniteThreads DEF Pausing, Counted
<1>8. CASE dutyOps' = dutyOps /\ (Kind(t) \in {"wave", "duty"} => (p \in RestPcs <=> pc[t] \in RestPcs))
  BY <1>1, <1>2, <1>3, <1>4, <1>8, DutyThread, DutyFrame
<1>9. CASE /\ dutyOps' = dutyOps + 1 /\ phase = "running"
           /\ Kind(t) \in {"wave", "duty"} /\ p \in RestPcs /\ pc[t] \notin RestPcs
  <2>1. Pausing' = Pausing \cup {t} /\ t \notin Pausing
    BY <1>3, <1>9 DEF Pausing
  <2>2. Cardinality(Pausing') = Cardinality(Pausing) + 1
    BY <1>7, <2>1, FS_AddElement
  <2>3. CountInv'
    BY <1>5, <1>7, <1>9, <2>2 DEF CountInv
  <2>4. ~Quiet
    BY <1>9 DEF Quiet, ControlInv, SuspendPcs
  <2> QED
    BY <1>4, <1>6, <2>3, <2>4 DEF QuietInv
<1>10. CASE /\ dutyOps' = dutyOps - 1
            /\ Kind(t) \in {"wave", "duty"} /\ p \notin RestPcs /\ pc[t] \in RestPcs
  <2>1. Pausing' = Pausing \ {t} /\ t \in Pausing
    BY <1>3, <1>10 DEF Pausing
  <2>2. Cardinality(Pausing') = Cardinality(Pausing) - 1
    BY <1>7, <2>1, FS_RemoveElement
  <2>3. CountInv'
    BY <1>5, <1>7, <1>10, <2>2 DEF CountInv
  <2> QED
    BY <1>4, <1>5, <1>6, <2>1, <2>3 DEF QuietInv
<1> QED
  BY <1>1, <1>8, <1>9, <1>10

(* So does a duty worker's own step. *)
LEMMA DutyWorkerStep ==
    ASSUME TypeOK, ControlInv, CountInv, ClaimInv, QuietInv, NEW w \in Workers, WorkerStep(w)
    PROVE  CountInv' /\ ClaimInv' /\ QuietInv'
<1> DEFINE t == Duty(w)
<1> USE DEF WakePcs, RestPcs
<1>0. t \in Thread /\ Kind(t) = "duty" /\ \A v \in Workers : v # w => Duty(v) # t
  BY DutyThread DEF Duty
<1>1. /\ \A u \in Thread : u # t => pc'[u] = pc[u]
      /\ \A v \in Workers : v # w => pc'[Duty(v)] = pc[Duty(v)]
      /\ Quiet' = Quiet
  BY <1>0, WorkerMoves, DutyThread DEF Quiet, op
<1>2. /\ Cardinality(Pausing) \in Nat /\ IsFiniteSet(Counted) /\ Cardinality(Counted) \in Nat
  BY FiniteThreads DEF Pausing, Counted
<1>3. \A p : Goto(t, p) => pc'[t] = p
  BY <1>0 DEF Goto, TypeOK, PcType
<1>4. work \in [Workers -> [agent : Agent, b : 0..MaxBursts, counted : BOOLEAN]]
  BY DEF TypeOK, WorkType
<1>5. CASE dutyOverCap(w)
  <2>1. pc[t] = "idle" /\ pc'[t] = "over" /\ dutyOps' = dutyOps /\ ~work[w].counted
    BY <1>3, <1>5 DEF dutyOverCap, req, ClaimInv
  <2>2. \A v \in Workers : work'[v].counted <=> work[v].counted
    <3>1. ~work'[w].counted /\ \A v \in Workers : v # w => work'[v] = work[v]
      BY <1>4, <1>5 DEF dutyOverCap
    <3> QED
      BY <2>1, <3>1
  <2>3. Counted' = Counted
    BY <2>2 DEF Counted
  <2>4. Pausing' = Pausing
    BY <1>1, <2>1 DEF Pausing
  <2>5. ClaimInv'
    BY <1>1, <2>1, <2>2 DEF ClaimInv
  <2> QED
    BY <1>1, <2>1, <2>3, <2>4, <2>5 DEF CountInv, QuietInv
<1>6. CASE dutyWake(w)
  <2>1. pc[t] = "idle" /\ pc'[t] = "resume" /\ dutyOps' = dutyOps + 1 /\ phase = "running"
    BY <1>3, <1>6 DEF dutyWake, DutyActive
  <2>2. ~work[w].counted /\ work'[w].counted /\ \A v \in Workers : v # w => work'[v] = work[v]
    BY <1>4, <1>6, <2>1 DEF dutyWake, ClaimInv
  <2>3. Counted' = Counted \cup {w} /\ w \notin Counted
    BY <2>2 DEF Counted
  <2>4. Cardinality(Counted') = Cardinality(Counted) + 1
    BY <1>2, <2>3, FS_AddElement
  <2>5. Pausing' = Pausing
    BY <1>1, <2>1 DEF Pausing
  <2>6. ClaimInv'
    BY <1>1, <2>1, <2>2 DEF ClaimInv
  <2>7. ~Quiet
    BY <2>1 DEF Quiet, ControlInv, SuspendPcs
  <2> QED
    BY <1>1, <1>2, <2>1, <2>4, <2>5, <2>6, <2>7 DEF CountInv, QuietInv
<1>7. CASE dutyWakeLand(w) \/ dutyAsk(w) \/ dutyAskDone(w)
  <2>1. /\ UNCHANGED <<dutyOps, work>> /\ pc[t] \notin RestPcs
        /\ \E p \in {"ask", "ret", "pause", "flight"} : Goto(t, p)
    BY <1>7 DEF dutyWakeLand, dutyAsk, dutyAskDone, BeginRequest, EndRequest, req
  <2>2. pc'[t] \notin RestPcs /\ pc'[t] # "idle" /\ pc'[t] \notin WakePcs
    BY <1>3, <2>1
  <2> QED
    BY <1>0, <1>1, <2>1, <2>2, DutyFrame
<1>8. CASE dutyReturn(w)
  <2>1. /\ pc[t] = "ret" /\ pc'[t] = "idle"
        /\ dutyOps' = IF work[w].counted THEN dutyOps - 1 ELSE dutyOps
    BY <1>3, <1>8 DEF dutyReturn
  <2>2. ~work'[w].counted /\ \A v \in Workers : v # w => work'[v] = work[v]
    BY <1>4, <1>8 DEF dutyReturn, NoWork
  <2>3. Counted' = Counted \ {w}
    BY <2>2 DEF Counted
  <2>4. Cardinality(Counted') = IF work[w].counted THEN Cardinality(Counted) - 1 ELSE Cardinality(Counted)
    BY <1>2, <2>3, FS_RemoveElement DEF Counted
  <2>5. Pausing' = Pausing
    BY <1>1, <2>1 DEF Pausing
  <2>6. ClaimInv'
    BY <1>1, <2>1, <2>2 DEF ClaimInv
  <2>7. CountInv'
    BY <1>2, <2>1, <2>4, <2>5 DEF CountInv, TypeOK, ReqType
  <2> QED
    BY <1>1, <2>3, <2>5, <2>6, <2>7 DEF QuietInv
<1>9. CASE dutyPick(w)
  <2>1. pc[t] = "over" /\ pc'[t] \in {"pause", "ret"} /\ dutyOps' = dutyOps
    BY <1>3, <1>9 DEF dutyPick, req
  <2>2. \A v \in Workers : work'[v].counted <=> work[v].counted
    BY <1>4, <1>9 DEF dutyPick
  <2>3. Counted' = Counted
    BY <2>2 DEF Counted
  <2>4. Pausing' = Pausing
    BY <1>1, <2>1 DEF Pausing
  <2>5. ClaimInv'
    BY <1>1, <2>1, <2>2 DEF ClaimInv
  <2> QED
    BY <1>1, <2>1, <2>3, <2>4, <2>5 DEF CountInv, QuietInv
<1> QED
  BY <1>5, <1>6, <1>7, <1>8, <1>9 DEF WorkerStep

(* The end of suspend-all's wait for dutyOps is where the driver gets quiet.  *)
LEMMA DutyControlStep ==
    ASSUME "slow" \notin Faults, TypeOK, ControlInv, LifeInv, CountInv, ClaimInv, QuietInv, Control
    PROVE  CountInv' /\ ClaimInv' /\ QuietInv'
<1>0. burst \in BurstType /\ ctl \in CtlType
  BY DEF TypeOK, OpType, CtlType
<1>1. /\ UNCHANGED <<dutyOps, work>>
      /\ \A t \in Thread : Kind(t) \in {"wave", "duty"} => pc'[t] = pc[t]
      /\ \A w \in Workers : pc'[Duty(w)] = pc[Duty(w)]
  BY ControlMoves, DutyThread
<1>2. (Quiet' => Quiet) => CountInv' /\ ClaimInv' /\ QuietInv'
  BY <1>1, DutyFrame
<1>3. CASE \/ PreflightList \/ PreflightRelist \/ PreflightCreate \/ PreflightFinal
           \/ PreflightApply \/ BurstDecide \/ BurstGo \/ VerifyList \/ VerifyDecide
  <2>1. Quiet
    BY <1>3 DEF PreflightList, PreflightRelist, PreflightCreate, PreflightFinal, PreflightApply,
       BurstDecide, BurstGo, VerifyList, VerifyDecide, ControlInv, PreflightPcs, Quiet
  <2> QED
    BY <1>2, <2>1
<1>4. CASE SuspendPasses
  BY <1>2, <1>4 DEF SuspendPasses, Quiet
<1>5. CASE BurstEnd
  <2>1. Quiet' => Quiet
    BY <1>5 DEF BurstEnd, NoCtl, ControlInv, Quiet
  <2> QED
    BY <1>2, <2>1
<1>6. CASE SuspendPass1
  <2>1. ~Quiet'
    BY <1>0, <1>6 DEF SuspendPass1, Ctl, CtlType, ControlInv, SuspendPcs, Quiet
  <2> QED
    BY <1>2, <2>1
<1>7. CASE SuspendDrain
  <2>1. dutyOps = 0
    BY <1>7 DEF SuspendDrain
  <2>2. /\ IsFiniteSet(Counted) /\ Cardinality(Counted) \in Nat
        /\ IsFiniteSet(Pausing) /\ Cardinality(Pausing) \in Nat
    BY FiniteThreads DEF Counted, Pausing
  <2>3. Cardinality(Counted) = 0 /\ Cardinality(Pausing) = 0
    BY <2>1, <2>2 DEF CountInv
  <2>4. Counted = {} /\ Pausing = {}
    BY <2>2, <2>3, FS_EmptySet
  <2>5. Counted' = {} /\ Pausing' = {}
    BY <1>1, <2>4 DEF Counted, Pausing
  <2>6. CountInv'
    BY <1>1, <2>4, <2>5 DEF CountInv
  <2>7. ClaimInv'
    BY <1>1 DEF ClaimInv
  <2> QED
    BY <2>5, <2>6, <2>7 DEF QuietInv
<1> QED
  BY <1>3, <1>4, <1>5, <1>6, <1>7 DEF Control

(* So do the operator's commands. *)
LEMMA DutyOperatorStep ==
    ASSUME TypeOK, ControlInv, WaveInv, CountInv, ClaimInv, QuietInv, Operator
    PROVE  CountInv' /\ ClaimInv' /\ QuietInv'
<1>0. ctl \in CtlType
  BY DEF TypeOK, OpType, CtlType
<1>1. CASE \E args \in BurstArgs : startBurst(args)
  <2>1. UNCHANGED <<dutyOps, work, pc>> /\ Quiet
    BY <1>1 DEF startBurst, thr, req, Quiet
  <2> QED
    BY <2>1, DutyFrame
<1>2. CASE startReconcile
  <2>1. UNCHANGED <<dutyOps, work, pc>> /\ Quiet
    BY <1>2 DEF startReconcile, thr, req, Quiet
  <2> QED
    BY <2>1, DutyFrame
<1>3. CASE startSuspendAll
  <2>1. UNCHANGED <<dutyOps, work, pc>> /\ phase' = "suspending"
    BY <1>3 DEF startSuspendAll, thr, req
  <2>2. ctl'.pc = "pass1"
    BY <1>0, <1>3 DEF startSuspendAll, CtlType
  <2> QED
    BY <2>1, <2>2, DutyFrame DEF Quiet
<1>4. CASE RateMoves
  <2>1. UNCHANGED <<dutyOps, work>> /\ Quiet' = Quiet
    BY <1>4 DEF RateMoves, Quiet
  <2>2. CASE UNCHANGED <<pc, burst>>
    BY <2>1, <2>2, DutyFrame
  <2>3. CASE ~UNCHANGED <<pc, burst>>
    <3>1. /\ phase \in {"waking", "running"} /\ ~burst.dutyCycle
          /\ \A t \in Thread :
               pc'[t] = pc[t] \/ (Kind(t) = "wave" /\ t[3] = cur /\ pc'[t] \in {"first", "check"})
      BY <1>4, <2>3 DEF RateMoves
    <3>2. \A t \in Thread : Kind(t) = "wave" /\ t[3] = cur => pc[t] = "idle"
      BY <3>1 DEF WaveInv
    <3>3. \A t \in Thread : pc'[t] \in RestPcs <=> pc[t] \in RestPcs
      BY <3>1, <3>2 DEF RestPcs
    <3>4. \A w \in Workers : pc'[Duty(w)] = pc[Duty(w)]
      BY <3>1, DutyThread
    <3> QED
      BY <2>1, <3>3, <3>4, DutyFrame
  <2> QED
    BY <2>2, <2>3
<1> QED
  BY <1>1, <1>2, <1>3, <1>4, OperatorMoves

(* So does every step. *)
LEMMA DutyStep ==
    ASSUME "slow" \notin Faults, TypeOK, DutyInv, [Next]_vars
    PROVE  CountInv' /\ ClaimInv' /\ QuietInv'
<1> USE DEF DutyInv
<1>1. ASSUME NEW t \in Thread, ThreadStep(t) PROVE CountInv' /\ ClaimInv' /\ QuietInv'
  BY <1>1, DutyThreadStep
<1>2. ASSUME NEW w \in Workers, WorkerStep(w) PROVE CountInv' /\ ClaimInv' /\ QuietInv'
  BY <1>2, DutyWorkerStep
<1>3. CASE trafficLoop \/ pickIdle
  <2>1. /\ UNCHANGED <<dutyOps, work>> /\ Quiet' = Quiet
        /\ \A t \in Thread : Kind(t) \in {"wave", "duty"} => pc'[t] = pc[t]
        /\ \A w \in Workers : pc'[Duty(w)] = pc[Duty(w)]
    BY <1>3, TrafficMoves, DutyThread DEF op, Quiet
  <2> QED
    BY <2>1, DutyFrame
<1>4. CASE Control
  BY <1>4, DutyControlStep
<1>5. CASE Operator
  BY <1>5, DutyOperatorStep
<1>6. CASE Restart
  <2>1. Counted' = {} /\ Pausing' = {} /\ dutyOps' = 0
    BY <1>6, RestartMoves DEF Counted, Pausing, NoWork, RestPcs
  <2>2. CountInv'
    BY <2>1, FS_EmptySet DEF CountInv
  <2>3. ClaimInv'
    BY <1>6, RestartMoves, DutyThread DEF ClaimInv, NoWork, WakePcs
  <2> QED
    BY <2>1, <2>2, <2>3 DEF QuietInv
<1>7. CASE UNCHANGED vars \/ \E a \in Agent : AteLands(a) \/ AteCrashes(a)
  <2>1. UNCHANGED <<dutyOps, work, pc, phase, ctl>>
    BY <1>7 DEF vars, op, req, thr, AteLands, AteCrashes
  <2> QED
    BY <2>1, DutyFrame DEF Quiet
<1> QED
  BY <1>1, <1>2, <1>3, <1>4, <1>5, <1>6, <1>7 DEF Next, Outside

(* The driver starts with nothing under way. *)
LEMMA InitDutyInv == Init => DutyInv
<1> SUFFICES ASSUME Init PROVE DutyInv
  OBVIOUS
<1>1. \A t \in Thread : pc[t] = "idle"
  BY DEF Init
<1>2. \A w \in Workers : ~work[w].counted /\ pc[Duty(w)] = "idle"
  BY <1>1, DutyThread DEF Init, NoWork
<1>3. ControlInv
  BY DEF Init, NoCtl, ControlInv, PreflightPcs, SuspendPcs
<1>4. LifeInv /\ WaveInv
  BY <1>1 DEF LifeInv, WaveInv, Init
<1>5. Counted = {} /\ Pausing = {}
  BY <1>1, <1>2 DEF Counted, Pausing, RestPcs
<1>6. CountInv
  BY <1>5, FS_EmptySet DEF CountInv, Init
<1>7. ClaimInv /\ QuietInv
  BY <1>2, <1>5 DEF ClaimInv, QuietInv, WakePcs
<1> QED
  BY <1>3, <1>4, <1>6, <1>7 DEF DutyInv

(* The duty cycle ends before what follows it begins: if no wait is cut      *)
(* short, no wake and no pause of the duty cycle is under way in the final   *)
(* sweep of suspend-all (runSuspendAll waits for dutyOps), in a later        *)
(* preflight, or in the next burst.                                          *)
THEOREM NoDutyOpOutlivesItsCycle ==
    ASSUME "slow" \notin Faults
    PROVE  Spec => []NoLateDutyOp
<1>1. Init => TypeOK /\ DutyInv
  BY InitType, InitDutyInv
<1>2. TypeOK /\ DutyInv /\ [Next]_vars => (TypeOK /\ DutyInv)'
  <2> SUFFICES ASSUME TypeOK, DutyInv, [Next]_vars PROVE (TypeOK /\ DutyInv)'
    OBVIOUS
  <2>1. TypeOK'
    BY TypeStep
  <2>2. ControlInv' /\ LifeInv' /\ WaveInv'
    BY ControlInvStep, LifeInvStep, WaveInvStep DEF DutyInv
  <2>3. CountInv' /\ ClaimInv' /\ QuietInv'
    BY DutyStep
  <2> QED
    BY <2>1, <2>2, <2>3 DEF DutyInv
<1>3. TypeOK /\ DutyInv => NoLateDutyOp
  <2> SUFFICES ASSUME TypeOK, DutyInv, Quiet, NEW t \in Thread, Kind(t) \in {"wave", "duty"}
               PROVE  pc[t] \notin RestPcs \cup WakePcs
    BY DEF NoLateDutyOp, Quiet, All
  <2>1. Counted = {} /\ Pausing = {}
    BY DEF DutyInv, QuietInv
  <2>2. pc[t] \notin RestPcs
    BY <2>1 DEF Pausing
  <2>3. pc[t] \notin WakePcs
    <3>1. CASE Kind(t) = "wave"
      BY <3>1, PcKind DEF TypeOK
    <3>2. CASE Kind(t) = "duty"
      BY <2>1, <3>2, ThreadShape DEF DutyInv, ClaimInv, Counted
    <3> QED
      BY <3>1, <3>2
  <2> QED
    BY <2>2, <2>3
<1> QED
  BY <1>1, <1>2, <1>3, PTL DEF Spec
=============================================================================
