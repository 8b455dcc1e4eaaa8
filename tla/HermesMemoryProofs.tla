-------------------------- MODULE HermesMemoryProofs --------------------------
(***************************************************************************)
(* Theorems about the memory demo, for every number of agents, turns,      *)
(* generations, rests and attempts, and every set of events.               *)
(*                                                                         *)
(* SavedStateIsOnDisk stands alone.  The others rest on one inductive      *)
(* invariant in four parts, each proved from the ones before it:           *)
(*   ShapeInv      types, and where a call is at each position of its turn *)
(*   OrderInv      no turn is under way at a re-creation, and every turn   *)
(*                 of an agent that crossed no change of the generation is *)
(*                 of the current one                                      *)
(*   KnowledgeInv  a slot, a reply or a record that says "success" speaks  *)
(*                 of an agent whose session knows the codename            *)
(*   SpanInv       the driver counts at most the rests since then          *)
(***************************************************************************)
EXTENDS HermesMemory, TLAPS

Current == [gen |-> gen, agents |-> mem]

Whole(s) == s = [gen |-> s.gen, agents |-> s.agents]

(* With nothing marked dirty, the store is what the saver is writing, or    *)
(* what it has written; the file is never half a store.                     *)
SaverHasStore ==
    /\ Whole(disk) /\ Whole(saver.raw)
    /\ "write" \notin may =>
        /\ saver.pc \in {"idle", "write"}
        /\ saver.pc = "idle" /\ ~dirty => disk = Current
        /\ saver.pc = "write" /\ ~dirty => saver.raw = Current

(* The actions that touch neither the store, the saver nor the file.        *)
LEMMA Elsewhere ==
    ASSUME SaverHasStore, UNCHANGED <<store, saver, disk, may>>
    PROVE  SaverHasStore'
BY DEF SaverHasStore, Current, Whole, store

(* The actions that mark the store dirty while the saver does nothing.      *)
LEMMA Dirtied ==
    ASSUME SaverHasStore, dirty' = TRUE, UNCHANGED <<saver, disk, may>>
    PROVE  SaverHasStore'
BY DEF SaverHasStore, Whole

(* A turn reads the store and, when it records, marks it dirty.             *)
LEMMA TurnKeepsSaver ==
    ASSUME SaverHasStore, NEW t \in Turns, Turn(t)
    PROVE  SaverHasStore'
<1>1. CASE \E a \in Agents : TurnBegin(t, a)
  BY <1>1, Elsewhere DEF TurnBegin
<1>2. CASE TurnResetSlot(t)
  BY <1>2, Elsewhere DEF TurnResetSlot
<1>3. CASE TurnAttempt(t)
  BY <1>3, Elsewhere DEF TurnAttempt
<1>4. CASE TurnRetry(t)
  BY <1>4, Elsewhere DEF TurnRetry
<1>5. CASE TurnGivesUp(t)
  BY <1>5, Elsewhere DEF TurnGivesUp
<1>6. CASE TurnAnswered(t)
  BY <1>6, Elsewhere DEF TurnAnswered
<1>7. CASE TurnChecksSlot(t)
  BY <1>7, Elsewhere DEF TurnChecksSlot
<1>8. CASE TurnRecords(t)
  BY <1>8, Dirtied DEF TurnRecords
<1> QED BY <1>1, <1>2, <1>3, <1>4, <1>5, <1>6, <1>7, <1>8 DEF Turn

(* Hermes and the proxy never touch the store.                              *)
LEMMA HermesKeepsSaver ==
    ASSUME SaverHasStore, NEW t \in Turns, Hermes(t)
    PROVE  SaverHasStore'
<1>1. CASE HermesReceives(t)
  BY <1>1, Elsewhere DEF HermesReceives, driver
<1>2. CASE ModelAnswers(t)
  BY <1>2, Elsewhere DEF ModelAnswers
<1>3. CASE ModelFails(t)
  BY <1>3, Elsewhere DEF ModelFails
<1>4. CASE ProxyRecords(t)
  BY <1>4, Elsewhere DEF ProxyRecords
<1> QED BY <1>1, <1>2, <1>3, <1>4 DEF Hermes

(* The hooks of the fleet control mark the store dirty when they change it. *)
LEMMA FleetKeepsSaver ==
    ASSUME SaverHasStore, NEW a \in Agents, Fleet(a)
    PROVE  SaverHasStore'
<1>1. CASE RestMark(a)
  BY <1>1, Elsewhere DEF RestMark, driver
<1>2. CASE Checkpoint(a)
  BY <1>2, Elsewhere DEF Checkpoint, driver
<1>3. CASE memRested(a)
  BY <1>3, Dirtied DEF memRested
<1>4. CASE memWoke(a)
  BY <1>4, Dirtied DEF memWoke
<1>5. CASE Recreate(a)
  BY <1>5, Elsewhere DEF Recreate
<1>6. CASE memForget(a)
  BY <1>6, Dirtied DEF memForget
<1>7. CASE RecreateFails(a)
  BY <1>7, Elsewhere DEF RecreateFails, driver
<1> QED BY <1>1, <1>2, <1>3, <1>4, <1>5, <1>6, <1>7 DEF Fleet

(* The two steps of the saver hand the store over to the file; a restart    *)
(* loads it from there.                                                     *)
LEMMA SaverStep ==
    ASSUME SaverHasStore, SaveSnapshot \/ SaveFile \/ Restart
    PROVE  SaverHasStore'
<1>1. CASE SaveSnapshot
  BY <1>1 DEF SaveSnapshot, SaverHasStore, Current, Whole
<1>2. CASE SaveFile
  BY <1>2 DEF SaveFile, SaverHasStore, Current, Whole, store, noFile
<1>3. CASE Restart
  <2>1. /\ saver' = [pc |-> "idle", raw |-> noFile]
        /\ disk' = disk /\ gen' = disk.gen /\ mem' = disk.agents
    BY <1>3 DEF Restart
  <2>2. Whole(disk)' /\ Whole(saver.raw)'
    BY <2>1 DEF SaverHasStore, Whole, noFile
  <2> QED
    BY <2>1, <2>2 DEF SaverHasStore, Current, Whole
<1> QED BY <1>1, <1>2, <1>3

(* What the store holds is on disk whenever the saver rests and nothing is  *)
(* marked dirty, if the file can be written.                                *)
THEOREM SavedStateIsOnDisk == Spec => []SavedIsOnDisk
<1>1. Init => SaverHasStore
  BY DEF Init, SaverHasStore, Current, Whole, noFile
<1>2. SaverHasStore /\ [Next]_vars => SaverHasStore'
  <2> SUFFICES ASSUME SaverHasStore, [Next]_vars
               PROVE  SaverHasStore'
    OBVIOUS
  <2>1. CASE \E t \in Turns : Turn(t) \/ Hermes(t)
    BY <2>1, TurnKeepsSaver, HermesKeepsSaver
  <2>2. CASE \E a \in Agents : Fleet(a)
    BY <2>2, FleetKeepsSaver
  <2>3. CASE SaveSnapshot \/ SaveFile \/ Restart
    BY <2>3, SaverStep
  <2>4. CASE ResetCheck
    BY <2>4, Elsewhere DEF ResetCheck
  <2>5. CASE memReset
    BY <2>5, Dirtied DEF memReset
  <2>6. CASE UNCHANGED vars
    BY <2>6, Elsewhere DEF vars, driver
  <2> QED BY <2>1, <2>2, <2>3, <2>4, <2>5, <2>6 DEF Next
<1>3. SaverHasStore => SavedIsOnDisk
  BY DEF SaverHasStore, SavedIsOnDisk, Current
<1> QED BY <1>1, <1>2, <1>3, PTL DEF Spec

-----------------------------------------------------------------------------
(* The shape of a state: types, where a call of Hermes is while its turn is *)
(* at each position, and the bounds the guards keep.                        *)
Stages     == {"idle", "slot", "attempt", "sent", "answered", "record"}
Calls      == {"none", "working", "relayed", "done"}
TurnRecord == [pc : Stages, agent : Agents, gen : Gens, kind : {"taught", "recall"},
               tries : 0..MaxAttempts, right : BOOLEAN]

Fits(t) ==
    /\ turn[t].pc = "idle" => hermes[t] \in {"none", "working", "relayed"}
    /\ turn[t].pc \in {"slot", "attempt"} => hermes[t] = "none"
    /\ turn[t].pc \in {"answered", "record"} => hermes[t] \in {"relayed", "done"}
    /\ turn[t].pc = "slot" => turn[t].tries = 0
    /\ turn[t].pc = "attempt" => turn[t].tries < MaxAttempts

ShapeInv ==
    /\ TypeOK
    /\ \A t \in Turns : Fits(t)
    /\ \A a \in Agents : life[a] = "marked" => rests[a] < MaxRests
    /\ reset = "checked" => gen < MaxGen

(* What a step of one turn, or of its call, leaves alone.                   *)
StepOf(t) ==
    /\ turn' \in [Turns -> TurnRecord] /\ hermes' \in [Turns -> Calls]
    /\ \A u \in Turns : u # t => turn'[u] = turn[u] /\ hermes'[u] = hermes[u]
    /\ Fits(t)'
    /\ Live(t)' => /\ turn'[t].agent = turn[t].agent
                   /\ turn'[t].gen = turn[t].gen
                   /\ turn'[t].kind = turn[t].kind

(* The turn is over; its call may go on.                                    *)
Over(t) ==
    \/ ~Live(t)'
    \/ /\ turn'[t].pc = "idle"
       /\ hermes'[t] = hermes[t] /\ hermes[t] \in {"working", "relayed"}

LEMMA QuietTyped == Quiet \in TurnRecord
BY ConstantAssumption DEF Quiet, TurnRecord, Stages, Gens

LEMMA ShapeTyped ==
    ASSUME ShapeInv
    PROVE  turn \in [Turns -> TurnRecord] /\ hermes \in [Turns -> Calls]
BY DEF ShapeInv, TypeOK, TurnRecord, Stages, Calls

LEMMA Bounds == MaxAttempts \in Nat /\ 0 < MaxAttempts /\ MaxRests \in Nat /\ MaxGen \in Nat
BY ConstantAssumption

LEMMA OrphanTyped ==
    ASSUME ShapeInv, NEW t \in Turns
    PROVE  /\ Orphan(t) \in TurnRecord /\ Orphan(t).pc = "idle"
           /\ Orphan(t).agent = turn[t].agent /\ Orphan(t).gen = turn[t].gen
           /\ Orphan(t).kind = turn[t].kind
<1>1. turn[t] \in TurnRecord /\ 0 \in 0..MaxAttempts
  BY ShapeTyped, Bounds
<1> QED BY <1>1 DEF Orphan, TurnRecord, Stages

(* A turn that ends keeps the shape; so does a call that ends.              *)
LEMMA EndsShape ==
    ASSUME ShapeInv, NEW t \in Turns, TurnEnds(t)
    PROVE  StepOf(t) /\ Over(t)
<1> USE ShapeTyped, QuietTyped
<1>2. CASE hermes[t] \in {"working", "relayed"}
  <2>1. turn' = [turn EXCEPT ![t] = Orphan(t)] /\ hermes' = hermes
    BY <1>2 DEF TurnEnds
  <2> QED BY <1>2, <2>1, OrphanTyped DEF StepOf, Over, Fits, Live
<1>3. CASE hermes[t] \notin {"working", "relayed"}
  <2>1. turn' = [turn EXCEPT ![t] = Quiet] /\ hermes' = [hermes EXCEPT ![t] = "none"]
    BY <1>3 DEF TurnEnds
  <2>2. Quiet.pc = "idle"
    BY DEF Quiet
  <2> QED BY <2>1, <2>2 DEF StepOf, Over, Fits, Live, Calls
<1> QED BY <1>2, <1>3

(* A turn whose record alone changes.                                       *)
LEMMA MovesShape ==
    ASSUME ShapeInv, NEW t \in Turns, NEW n \in TurnRecord, NEW h \in Calls,
           turn' = [turn EXCEPT ![t] = n], hermes' = [hermes EXCEPT ![t] = h],
           n.agent = turn[t].agent, n.gen = turn[t].gen, n.kind = turn[t].kind,
           n.pc = "idle" => h \in {"none", "working", "relayed"},
           n.pc \in {"slot", "attempt"} => h = "none",
           n.pc \in {"answered", "record"} => h \in {"relayed", "done"},
           n.pc = "slot" => n.tries = 0,
           n.pc = "attempt" => n.tries < MaxAttempts
    PROVE  StepOf(t) /\ turn'[t] = n /\ hermes'[t] = h
BY ShapeTyped DEF StepOf, Fits

LEMMA ResetSlotShape ==
    ASSUME ShapeInv, NEW t \in Turns, TurnResetSlot(t)
    PROVE  /\ StepOf(t) /\ turn'[t].pc = "attempt" /\ hermes'[t] = "none"
           /\ turn[t].pc = "slot" /\ turn'[t].right = turn[t].right
<1> DEFINE n == [turn[t] EXCEPT !.pc = "attempt"]
<1>1. turn[t] \in TurnRecord /\ hermes[t] = "none" /\ turn[t].pc = "slot" /\ turn[t].tries = 0
  BY ShapeTyped DEF TurnResetSlot, ShapeInv, Fits
<1>2. /\ n \in TurnRecord /\ n.pc = "attempt" /\ n.agent = turn[t].agent /\ n.tries = turn[t].tries
      /\ n.gen = turn[t].gen /\ n.kind = turn[t].kind /\ n.right = turn[t].right
  BY <1>1 DEF TurnRecord, Stages
<1>3. turn' = [turn EXCEPT ![t] = n] /\ hermes' = [hermes EXCEPT ![t] = "none"]
  BY <1>1, ShapeTyped DEF TurnResetSlot, sandbox
<1> HIDE DEF n
<1>4. n.tries < MaxAttempts /\ "none" \in Calls
  BY <1>1, <1>2, Bounds DEF Calls
<1> QED BY <1>1, <1>2, <1>3, <1>4, MovesShape

LEMMA AttemptShape ==
    ASSUME ShapeInv, NEW t \in Turns, TurnAttempt(t)
    PROVE  /\ StepOf(t) /\ turn[t].pc = "attempt" /\ hermes[t] = "none"
           /\ \/ Over(t)
              \/ turn'[t].pc = "sent" /\ hermes'[t] = "none" /\ turn'[t].right = turn[t].right
<1> DEFINE n == [turn[t] EXCEPT !.pc = "sent", !.tries = @ + 1]
<1>1. /\ turn[t] \in TurnRecord /\ hermes[t] = "none" /\ turn[t].pc = "attempt"
      /\ turn[t].tries < MaxAttempts
  BY ShapeTyped DEF TurnAttempt, ShapeInv, Fits
<1>2. CASE TurnEnds(t)
  BY <1>1, <1>2, EndsShape
<1>3. CASE ~(turn[t].tries > 0 /\ Resting(turn[t].agent))
  <2>0. turn[t].tries \in 0..MaxAttempts
    BY <1>1 DEF TurnRecord
  <2>0a. turn[t].tries + 1 \in 0..MaxAttempts
    BY <1>1, <2>0, Bounds
  <2>1. /\ n \in TurnRecord /\ n.pc = "sent" /\ n.agent = turn[t].agent
        /\ n.gen = turn[t].gen /\ n.kind = turn[t].kind /\ n.right = turn[t].right
    BY <1>1, <2>0a DEF TurnRecord, Stages
  <2>2. turn' = [turn EXCEPT ![t] = n] /\ hermes' = [hermes EXCEPT ![t] = "none"]
    BY <1>1, <1>3, ShapeTyped DEF TurnAttempt
  <2> HIDE DEF n
  <2> QED BY <1>1, <2>1, <2>2, MovesShape DEF Calls
<1> QED BY <1>2, <1>3 DEF TurnAttempt

LEMMA RetryShape ==
    ASSUME ShapeInv, NEW t \in Turns, TurnRetry(t)
    PROVE  /\ StepOf(t) /\ turn[t].pc = "sent"
           /\ \/ Over(t)
              \/ turn'[t].pc = "attempt" /\ hermes'[t] = "none" /\ turn'[t].right = FALSE
<1> DEFINE n == [turn[t] EXCEPT !.pc = "attempt", !.right = FALSE]
<1>1. turn[t] \in TurnRecord /\ turn[t].pc = "sent" /\ hermes' = [hermes EXCEPT ![t] = "none"]
  BY ShapeTyped DEF TurnRetry
<1>2. CASE turn[t].tries = MaxAttempts
  <2>1. turn' = [turn EXCEPT ![t] = Quiet]
    BY <1>2 DEF TurnRetry
  <2> QED BY <1>1, <2>1, ShapeTyped, QuietTyped DEF StepOf, Over, Fits, Live, Calls, Quiet
<1>3. CASE turn[t].tries # MaxAttempts
  <2>1. /\ n \in TurnRecord /\ n.pc = "attempt" /\ n.agent = turn[t].agent /\ n.tries = turn[t].tries
        /\ n.gen = turn[t].gen /\ n.kind = turn[t].kind /\ n.right = FALSE
    BY <1>1 DEF TurnRecord, Stages
  <2>2. turn' = [turn EXCEPT ![t] = n] /\ n.tries < MaxAttempts
    BY <1>1, <1>3, <2>1, ConstantAssumption DEF TurnRetry, TurnRecord
  <2> HIDE DEF n
  <2> QED BY <1>1, <2>1, <2>2, MovesShape DEF Calls
<1> QED BY <1>2, <1>3

LEMMA GivesUpShape ==
    ASSUME ShapeInv, NEW t \in Turns, TurnGivesUp(t)
    PROVE  /\ StepOf(t) /\ turn[t].pc = "sent" /\ Over(t)
           /\ "timeout" \in may \/ hermes[t] \notin {"working", "relayed"}
BY EndsShape DEF TurnGivesUp

LEMMA AnsweredShape ==
    ASSUME ShapeInv, NEW t \in Turns, TurnAnswered(t)
    PROVE  /\ StepOf(t) /\ turn[t].pc = "sent" /\ turn'[t].pc = "answered"
           /\ hermes'[t] = hermes[t] /\ turn'[t].right = turn[t].right
<1> DEFINE n == [turn[t] EXCEPT !.pc = "answered"]
<1>1. turn[t] \in TurnRecord /\ hermes[t] \in {"relayed", "done"}
  BY ShapeTyped DEF TurnAnswered
<1>2. /\ n \in TurnRecord /\ n.pc = "answered" /\ n.agent = turn[t].agent
      /\ n.gen = turn[t].gen /\ n.kind = turn[t].kind /\ n.right = turn[t].right
  BY <1>1 DEF TurnRecord, Stages
<1>3. turn' = [turn EXCEPT ![t] = n] /\ hermes' = [hermes EXCEPT ![t] = hermes[t]]
  BY <1>1, ShapeTyped DEF TurnAnswered, sandbox
<1> HIDE DEF n
<1> QED BY <1>1, <1>2, <1>3, MovesShape DEF TurnAnswered, Calls

LEMMA ChecksSlotShape ==
    ASSUME ShapeInv, NEW t \in Turns, TurnChecksSlot(t)
    PROVE  /\ StepOf(t) /\ turn[t].pc = "answered"
           /\ \/ Over(t)
              \/ /\ okCalls[turn[t].agent] /\ turn'[t].pc = "record"
                 /\ hermes'[t] = hermes[t] /\ turn'[t].right = turn[t].right
<1> DEFINE n == [turn[t] EXCEPT !.pc = "record"]
<1>1. /\ turn[t] \in TurnRecord /\ hermes[t] \in {"relayed", "done"}
      /\ turn[t].pc = "answered"
  BY ShapeTyped DEF TurnChecksSlot, ShapeInv, Fits
<1>2. CASE TurnEnds(t)
  BY <1>1, <1>2, EndsShape
<1>3. CASE okCalls[turn[t].agent]
  <2>1. /\ n \in TurnRecord /\ n.pc = "record" /\ n.agent = turn[t].agent
        /\ n.gen = turn[t].gen /\ n.kind = turn[t].kind /\ n.right = turn[t].right
    BY <1>1 DEF TurnRecord, Stages
  <2>2. turn' = [turn EXCEPT ![t] = n] /\ hermes' = [hermes EXCEPT ![t] = hermes[t]]
    BY <1>1, <1>3, ShapeTyped DEF TurnChecksSlot
  <2> HIDE DEF n
  <2> QED BY <1>1, <1>3, <2>1, <2>2, MovesShape DEF Calls
<1> QED BY <1>2, <1>3 DEF TurnChecksSlot

LEMMA RecordsShape ==
    ASSUME ShapeInv, NEW t \in Turns, TurnRecords(t)
    PROVE  StepOf(t) /\ turn[t].pc = "record" /\ Over(t)
BY EndsShape DEF TurnRecords

LEMMA BeginShape ==
    ASSUME ShapeInv, NEW t \in Turns, NEW a \in Agents, TurnBegin(t, a)
    PROVE  /\ turn' \in [Turns -> TurnRecord] /\ hermes' = hermes /\ hermes[t] = "none"
           /\ \A u \in Turns : u # t => turn'[u] = turn[u]
           /\ Fits(t)'
           /\ turn'[t].pc = "slot" /\ turn'[t].agent = a /\ turn'[t].gen = gen
           /\ turn'[t].kind = (IF mem[a].taught THEN "recall" ELSE "taught")
           /\ turn'[t].right = FALSE
<1> DEFINE n == [Quiet EXCEPT !.pc = "slot", !.agent = a, !.gen = gen,
                         !.kind = IF mem[a].taught THEN "recall" ELSE "taught"]
<1>1. /\ n \in TurnRecord /\ n.pc = "slot" /\ n.agent = a /\ n.gen = gen /\ n.tries = 0
      /\ n.kind = (IF mem[a].taught THEN "recall" ELSE "taught") /\ n.right = FALSE
  BY QuietTyped DEF TurnRecord, Stages, Quiet, ShapeInv, TypeOK
<1>2. turn' = [turn EXCEPT ![t] = n] /\ hermes' = hermes /\ hermes[t] = "none"
  BY DEF TurnBegin, sandbox
<1> HIDE DEF n
<1> QED BY <1>1, <1>2, ShapeTyped DEF Fits

(* The steps of Hermes and of the proxy, seen from the turn.                *)
LEMMA CallEndsShape ==
    ASSUME ShapeInv, NEW t \in Turns, HermesEnds(t), hermes[t] \in {"working", "relayed"}
    PROVE  /\ StepOf(t)
           /\ \/ ~Live(t)'
              \/ turn'[t] = turn[t] /\ turn[t].pc # "idle" /\ hermes'[t] = "done"
<1> USE ShapeTyped, QuietTyped
<1>1. CASE turn[t].pc = "idle"
  <2>1. turn' = [turn EXCEPT ![t] = Quiet] /\ hermes' = [hermes EXCEPT ![t] = "none"]
    BY <1>1 DEF HermesEnds
  <2> QED BY <2>1 DEF StepOf, Fits, Live, Calls, Quiet
<1>2. CASE turn[t].pc # "idle"
  <2>1. turn' = turn /\ hermes' = [hermes EXCEPT ![t] = "done"]
    BY <1>2 DEF HermesEnds
  <2>2. Fits(t)
    BY DEF ShapeInv
  <2> QED BY <1>2, <2>1, <2>2 DEF StepOf, Fits, Live, Calls
<1> QED BY <1>1, <1>2

LEMMA ReceivesShape ==
    ASSUME ShapeInv, NEW t \in Turns, HermesReceives(t)
    PROVE  /\ StepOf(t) /\ turn'[t] = turn[t] /\ turn[t].pc = "sent" /\ hermes'[t] = "working"
           /\ hermes[t] = "none" /\ Awake(turn[t].agent)
BY ShapeTyped DEF HermesReceives, driver, StepOf, Fits, Live, Calls

LEMMA FailsShape ==
    ASSUME ShapeInv, NEW t \in Turns, ModelFails(t)
    PROVE  /\ StepOf(t) /\ hermes[t] = "working"
           /\ \/ ~Live(t)'
              \/ turn'[t] = turn[t] /\ turn[t].pc # "idle" /\ hermes'[t] = "done"
BY CallEndsShape DEF ModelFails

LEMMA ProxyShape ==
    ASSUME ShapeInv, NEW t \in Turns, ProxyRecords(t)
    PROVE  /\ StepOf(t) /\ hermes[t] = "relayed"
           /\ \/ ~Live(t)'
              \/ turn'[t] = turn[t] /\ turn[t].pc # "idle" /\ hermes'[t] = "done"
BY CallEndsShape DEF ProxyRecords

(* The model's answer: a teaching turn makes the codename known, a recall   *)
(* is right only if it is, and then spans the rests since.                  *)
LEMMA AnswersShape ==
    ASSUME ShapeInv, NEW t \in Turns, ModelAnswers(t)
    PROVE  /\ StepOf(t) /\ hermes[t] = "working" /\ hermes'[t] = "relayed"
           /\ Awake(turn[t].agent) /\ turn'[t].pc = turn[t].pc
           /\ turn'[t].right = turn[t].right \/ turn[t].kind = "recall"
<1> DEFINE a == turn[t].agent
           n(r) == [turn[t] EXCEPT !.right = r]
<1>1. turn[t] \in TurnRecord /\ hermes[t] = "working" /\ Fits(t) /\ Awake(a)
      /\ hermes' = [hermes EXCEPT ![t] = "relayed"]
  BY ShapeTyped DEF ModelAnswers, ShapeInv
<1>2. \E r \in BOOLEAN : turn' = [turn EXCEPT ![t] = n(r)] /\ (r = turn[t].right \/ turn[t].kind = "recall")
  <2>1. CASE turn[t].kind = "taught"
    <3>1. turn' = turn /\ turn[t].right \in BOOLEAN /\ n(turn[t].right) = turn[t]
      BY <1>1, <2>1 DEF ModelAnswers, TurnRecord
    <3> HIDE DEF n
    <3> QED BY <3>1, ShapeTyped
  <2>2. CASE turn[t].kind # "taught"
    BY <1>1, <2>2 DEF ModelAnswers, TurnRecord
  <2> QED BY <2>1, <2>2
<1>3. PICK r \in BOOLEAN : turn' = [turn EXCEPT ![t] = n(r)] /\ (r = turn[t].right \/ turn[t].kind = "recall")
  BY <1>2
<1>4. /\ n(r) \in TurnRecord /\ n(r).pc = turn[t].pc /\ n(r).agent = turn[t].agent /\ n(r).right = r
      /\ n(r).gen = turn[t].gen /\ n(r).kind = turn[t].kind /\ n(r).tries = turn[t].tries
  BY <1>1 DEF TurnRecord, Stages
<1> HIDE DEF n
<1>5. turn[t].pc \notin {"slot", "attempt"}
  BY <1>1 DEF Fits
<1>6. StepOf(t) /\ turn'[t] = n(r)
  BY <1>1, <1>3, <1>4, <1>5, MovesShape DEF Fits, Calls
<1> QED BY <1>1, <1>3, <1>4, <1>6, ShapeTyped

(* The part of the state's shape a step of a turn cannot disturb.           *)
LEMMA TurnKeepsShape ==
    ASSUME ShapeInv, NEW t \in Turns, StepOf(t), UNCHANGED <<gen, disk, life, rests, reset, crossed, may>>,
           mem' \in [Agents -> Entry], dirty' \in BOOLEAN,
           saver' = saver, okCalls' \in [Agents -> BOOLEAN],
           learnt' \in [Agents -> [Gens -> Int]], proved' \in [Agents -> [Gens -> Int]]
    PROVE  ShapeInv'
<1>1. TypeOK'
  BY DEF ShapeInv, TypeOK, StepOf, TurnRecord, Stages, Calls
<1>2. \A u \in Turns : Fits(u)'
  BY DEF ShapeInv, StepOf, Fits
<1> QED BY <1>1, <1>2 DEF ShapeInv

(* What recording does to the store, in one equation per field.             *)
LEMMA RecordsStore ==
    ASSUME ShapeInv, NEW t \in Turns, TurnRecords(t)
    PROVE  LET a == turn[t].agent
               m == mem[a]
           IN  /\ mem' \in [Agents -> Entry] /\ a \in Agents
               /\ \A b \in Agents : b # a => mem'[b] = mem[b]
               /\ mem'[a].rests = m.rests
               /\ IF turn[t].kind = "taught"
                  THEN /\ mem'[a].taught = TRUE /\ mem'[a].restsAtTeach = m.rests
                       /\ mem'[a].survived = m.survived
                  ELSE /\ mem'[a].taught = m.taught /\ mem'[a].restsAtTeach = m.restsAtTeach
                       /\ \/ mem'[a].survived = m.survived
                          \/ turn[t].right /\ mem'[a].survived = m.rests - m.restsAtTeach
<1> DEFINE a == turn[t].agent
           m == mem[a]
           taughtNow == [m EXCEPT !.taught = TRUE, !.restsAtTeach = m.rests]
           spanNow   == [m EXCEPT !.survived = m.rests - m.restsAtTeach]
<1>1. a \in Agents /\ m \in Entry /\ mem \in [Agents -> Entry] /\ turn[t] \in TurnRecord
  BY ShapeTyped DEF TurnRecord, ShapeInv, TypeOK
<1>2. /\ taughtNow \in Entry /\ taughtNow.rests = m.rests /\ taughtNow.taught = TRUE
      /\ taughtNow.restsAtTeach = m.rests /\ taughtNow.survived = m.survived
  BY <1>1 DEF Entry
<1>3. m.rests \in Nat /\ m.restsAtTeach \in Nat
  BY <1>1 DEF Entry
<1>4. m.rests - m.restsAtTeach \in Int
  BY <1>3
<1>5. /\ spanNow \in Entry /\ spanNow.rests = m.rests /\ spanNow.taught = m.taught
      /\ spanNow.restsAtTeach = m.restsAtTeach /\ spanNow.survived = m.rests - m.restsAtTeach
  BY <1>1, <1>4 DEF Entry
<1>6. mem' = [mem EXCEPT ![a] = IF turn[t].kind = "taught" THEN taughtNow
                                ELSE IF turn[t].right THEN spanNow ELSE m]
  BY DEF TurnRecords
<1> HIDE DEF taughtNow, spanNow
<1>7. CASE turn[t].kind = "taught"
  <2>1. mem' = [mem EXCEPT ![a] = taughtNow]
    BY <1>6, <1>7
  <2> QED BY <1>1, <1>2, <1>7, <2>1
<1>8. CASE turn[t].kind # "taught" /\ turn[t].right
  <2>1. mem' = [mem EXCEPT ![a] = spanNow]
    BY <1>6, <1>8
  <2> QED BY <1>1, <1>5, <1>8, <2>1
<1>9. CASE turn[t].kind # "taught" /\ ~turn[t].right
  <2>1. mem' = [mem EXCEPT ![a] = m]
    BY <1>6, <1>9
  <2> QED BY <1>1, <1>9, <2>1
<1> QED BY <1>7, <1>8, <1>9

(* What an answer of the model does to what Hermes knows, and to the most   *)
(* rests a right answer spanned.                                            *)
LEMMA AnswersFacts ==
    ASSUME ShapeInv, NEW t \in Turns, ModelAnswers(t)
    PROVE  LET a == turn[t].agent
               g == turn[t].gen
           IN  /\ a \in Agents /\ g \in Gens
               /\ learnt' \in [Agents -> [Gens -> Int]] /\ proved' \in [Agents -> [Gens -> Int]]
               /\ \A b \in Agents, h \in Gens :
                     /\ \/ learnt'[b][h] = learnt[b][h]
                        \/ /\ ~Knows(b, h) /\ learnt'[b][h] = rests[b]
                           /\ b = a /\ h = g /\ turn[t].kind = "taught"
                     /\ proved[b][h] <= proved'[b][h]
               /\ turn[t].kind = "taught" => learnt'[a][g] # Unknown /\ turn'[t].right = turn[t].right
               /\ turn[t].kind = "recall" /\ turn'[t].right =>
                     Knows(a, g) /\ rests[a] - learnt[a][g] <= proved'[a][g]
<1> DEFINE a == turn[t].agent
           g == turn[t].gen
           span == rests[a] - learnt[a][g]
<1>1. /\ a \in Agents /\ g \in Gens /\ turn[t] \in TurnRecord
      /\ learnt \in [Agents -> [Gens -> Int]] /\ proved \in [Agents -> [Gens -> Int]]
      /\ rests \in [Agents -> 0..MaxRests]
  BY ShapeTyped DEF TurnRecord, ShapeInv, TypeOK
<1>2. /\ rests[a] \in Int /\ learnt[a][g] \in Int /\ rests[a] # Unknown
      /\ \A b \in Agents, h \in Gens : proved[b][h] \in Int
  BY <1>1, Bounds DEF Unknown
<1>3. span \in Int
  BY <1>2
<1>4. CASE turn[t].kind = "taught"
  <2>1. /\ learnt' = [learnt EXCEPT ![a][g] = IF Knows(a, g) THEN @ ELSE rests[a]]
        /\ turn' = turn /\ proved' = proved
    BY <1>4 DEF ModelAnswers
  <2>2. CASE Knows(a, g)
    <3>1. learnt' = learnt
      BY <1>1, <2>1, <2>2
    <3> QED BY <1>1, <1>2, <1>4, <2>1, <2>2, <3>1 DEF Knows
  <2>3. CASE ~Knows(a, g)
    <3>1. learnt' = [learnt EXCEPT ![a][g] = rests[a]]
      BY <2>1, <2>3
    <3> QED BY <1>1, <1>2, <1>4, <2>1, <2>3, <3>1
  <2> QED BY <2>2, <2>3
<1>5. CASE turn[t].kind = "recall"
  <2>1. PICK right \in IF Knows(a, g) THEN BOOLEAN ELSE {FALSE} :
               /\ turn' = [turn EXCEPT ![t].right = right]
               /\ proved' = IF right /\ span > proved[a][g]
                            THEN [proved EXCEPT ![a][g] = span] ELSE proved
               /\ UNCHANGED learnt
    BY <1>5 DEF ModelAnswers
  <2>2. turn'[t].right = right /\ (right => Knows(a, g)) /\ learnt' = learnt
    BY <2>1, <1>1, ShapeTyped DEF TurnRecord
  <2>3. /\ proved' \in [Agents -> [Gens -> Int]]
        /\ (\A b \in Agents, h \in Gens : proved[b][h] <= proved'[b][h])
        /\ right => span <= proved'[a][g]
    <3> HIDE DEF span, a, g
    <3>1. CASE right /\ span > proved[a][g]
      <4>1. proved' = [proved EXCEPT ![a][g] = span]
        BY <2>1, <3>1
      <4>2. /\ proved' \in [Agents -> [Gens -> Int]] /\ proved'[a][g] = span
            /\ \A b \in Agents, h \in Gens : ~(b = a /\ h = g) => proved'[b][h] = proved[b][h]
        BY <1>1, <1>3, <4>1
      <4> QED BY <1>2, <1>3, <3>1, <4>2
    <3>2. CASE ~(right /\ span > proved[a][g])
      <4>1. proved' = proved
        BY <2>1, <3>2
      <4> QED BY <1>1, <1>2, <1>3, <3>2, <4>1
    <3> QED BY <3>1, <3>2
  <2> QED BY <1>1, <1>2, <1>5, <2>2, <2>3
<1> QED BY <1>1, <1>4, <1>5 DEF TurnRecord

(* Every step keeps the shape.                                              *)
LEMMA TurnShapeStep ==
    ASSUME ShapeInv, NEW t \in Turns, Turn(t)
    PROVE  ShapeInv'
<1> USE TurnKeepsShape
<1>0. /\ mem \in [Agents -> Entry] /\ dirty \in BOOLEAN /\ okCalls \in [Agents -> BOOLEAN]
      /\ learnt \in [Agents -> [Gens -> Int]] /\ proved \in [Agents -> [Gens -> Int]]
  BY DEF ShapeInv, TypeOK
<1>1. ASSUME NEW a \in Agents, TurnBegin(t, a)
      PROVE  ShapeInv'
  <2>1. TypeOK'
    BY <1>1, BeginShape DEF TurnBegin, ShapeInv, TypeOK, TurnRecord, Stages, store, sandbox
  <2>2. \A u \in Turns : Fits(u)'
    <3>1. /\ Fits(t)' /\ hermes' = hermes
          /\ \A u \in Turns : u # t => turn'[u] = turn[u] /\ Fits(u)
      BY <1>1, BeginShape DEF ShapeInv
    <3> QED BY <3>1 DEF Fits
  <2> QED BY <1>1, <2>1, <2>2 DEF TurnBegin, ShapeInv, store, sandbox
<1>2. CASE TurnResetSlot(t)
  BY <1>0, <1>2, ResetSlotShape DEF TurnResetSlot, store, sandbox
<1>3. CASE TurnAttempt(t)
  BY <1>0, <1>3, AttemptShape DEF TurnAttempt, store
<1>4. CASE TurnRetry(t)
  BY <1>0, <1>4, RetryShape DEF TurnRetry, store
<1>5. CASE TurnGivesUp(t)
  BY <1>0, <1>5, GivesUpShape DEF TurnGivesUp, store
<1>6. CASE TurnAnswered(t)
  BY <1>0, <1>6, AnsweredShape DEF TurnAnswered, store, sandbox
<1>7. CASE TurnChecksSlot(t)
  BY <1>0, <1>7, ChecksSlotShape DEF TurnChecksSlot, store
<1>8. CASE TurnRecords(t)
  BY <1>0, <1>8, RecordsShape, RecordsStore DEF TurnRecords
<1> QED BY <1>1, <1>2, <1>3, <1>4, <1>5, <1>6, <1>7, <1>8 DEF Turn

LEMMA HermesShapeStep ==
    ASSUME ShapeInv, NEW t \in Turns, Hermes(t)
    PROVE  ShapeInv'
<1> USE TurnKeepsShape
<1>0. /\ mem \in [Agents -> Entry] /\ dirty \in BOOLEAN /\ okCalls \in [Agents -> BOOLEAN]
      /\ learnt \in [Agents -> [Gens -> Int]] /\ proved \in [Agents -> [Gens -> Int]]
  BY DEF ShapeInv, TypeOK
<1>1. CASE HermesReceives(t)
  BY <1>0, <1>1, ReceivesShape DEF HermesReceives, driver, store
<1>2. CASE ModelAnswers(t)
  BY <1>0, <1>2, AnswersShape, AnswersFacts DEF ModelAnswers, store
<1>3. CASE ModelFails(t)
  BY <1>0, <1>3, FailsShape DEF ModelFails, store
<1>4. CASE ProxyRecords(t)
  BY <1>0, <1>4, ProxyShape DEF ProxyRecords, store
<1> QED BY <1>1, <1>2, <1>3, <1>4 DEF Hermes

LEMMA FreshTyped == fresh \in Entry
BY DEF fresh, Entry

LEMMA NoFileTyped == noFile \in Store /\ noFile.gen = 1
BY FreshTyped, ConstantAssumption DEF noFile, Store, Gens

LEMMA FleetShapeStep ==
    ASSUME ShapeInv, NEW a \in Agents, Fleet(a)
    PROVE  ShapeInv'
<1> USE DEF ShapeInv, TypeOK, Fits
<1>1. CASE RestMark(a)
  BY <1>1 DEF RestMark, driver, sandbox, store
<1>2. CASE Checkpoint(a)
  BY <1>2, Bounds DEF Checkpoint, driver, store
<1>3. CASE memRested(a)
  <2>0. mem[a] \in Entry
    OBVIOUS
  <2>1. [mem[a] EXCEPT !.rests = @ + 1] \in Entry
    <3>1. mem[a].rests + 1 \in Nat
      BY <2>0 DEF Entry
    <3> DEFINE n == mem[a].rests + 1
    <3> HIDE DEF n
    <3>2. n \in Nat => [mem[a] EXCEPT !.rests = n] \in Entry
      BY <2>0 DEF Entry
    <3> QED BY <3>1, <3>2 DEF n
  <2>2. mem' = [mem EXCEPT ![a] = [mem[a] EXCEPT !.rests = @ + 1]]
    BY <1>3 DEF memRested
  <2>3. mem' \in [Agents -> Entry]
    BY <2>1, <2>2
  <2> QED BY <1>3, <2>3 DEF memRested, sandbox
<1>4. CASE memWoke(a)
  BY <1>4 DEF memWoke, sandbox
<1>5. CASE Recreate(a)
  <2>1. /\ learnt' = [learnt EXCEPT ![a] = [g \in Gens |-> Unknown]]
        /\ hermes' = [t \in Turns |-> IF turn[t].agent = a THEN "none" ELSE hermes[t]]
        /\ turn' = [t \in Turns |-> IF turn[t].agent = a THEN Quiet ELSE turn[t]]
        /\ life' = [life EXCEPT ![a] = "recreated"]
        /\ UNCHANGED <<gen, mem, dirty, saver, reset, okCalls, disk, rests, proved, crossed, may>>
    BY <1>5 DEF Recreate, store
  <2>2. turn' \in [Turns -> TurnRecord] /\ hermes' \in [Turns -> Calls]
    BY <2>1, ShapeTyped, QuietTyped DEF Calls
  <2>3. learnt' \in [Agents -> [Gens -> Int]]
    BY <2>1 DEF Unknown
  <2>4. TypeOK'
    BY <2>1, <2>2, <2>3 DEF TurnRecord, Stages, Calls
  <2>5. \A t \in Turns : Fits(t)'
    BY <2>1 DEF Quiet
  <2>6. (\A b \in Agents : life[b] = "marked" => rests[b] < MaxRests)'
    BY <2>1
  <2> HIDE DEF TypeOK, Fits
  <2> QED BY <2>1, <2>4, <2>5, <2>6
<1>6. CASE memForget(a)
  BY <1>6, FreshTyped DEF memForget, sandbox
<1>7. CASE RecreateFails(a)
  BY <1>7 DEF RecreateFails, driver, sandbox, store
<1> QED BY <1>1, <1>2, <1>3, <1>4, <1>5, <1>6, <1>7 DEF Fleet

LEMMA StoreShapeStep ==
    ASSUME ShapeInv, SaveSnapshot \/ SaveFile \/ ResetCheck \/ memReset \/ Restart
    PROVE  ShapeInv'
<1> USE DEF ShapeInv, TypeOK, Fits
<1>1. CASE SaveSnapshot
  BY <1>1 DEF SaveSnapshot, sandbox, Store
<1>2. CASE SaveFile
  BY <1>2, NoFileTyped DEF SaveFile, sandbox, store
<1>3. CASE ResetCheck
  BY <1>3 DEF ResetCheck, sandbox, store
<1>4. CASE memReset
  <2>1. gen' \in Gens
    BY <1>4, Bounds DEF memReset, Gens
  <2>2. \A b \in Agents : [fresh EXCEPT !.rests = mem[b].rests] \in Entry
    BY FreshTyped DEF Entry
  <2>3. mem' \in [Agents -> Entry]
    BY <1>4, <2>2 DEF memReset
  <2>4. crossed' \subseteq Agents
    BY <1>4, ShapeTyped DEF memReset, TurnRecord
  <2> QED BY <1>4, <2>1, <2>3, <2>4 DEF memReset, sandbox
<1>5. CASE Restart
  <2>1. /\ gen' = disk.gen /\ mem' = disk.agents /\ dirty' = FALSE
        /\ saver' = [pc |-> "idle", raw |-> noFile] /\ reset' = "idle"
        /\ okCalls' = [a \in Agents |-> FALSE]
        /\ turn' = [t \in Turns |-> IF hermes[t] = "working" THEN Orphan(t) ELSE Quiet]
        /\ hermes' = [t \in Turns |-> IF hermes[t] = "working" THEN "working" ELSE "none"]
        /\ life' = [a \in Agents |-> IF Awake(a) THEN "running" ELSE "rested"]
        /\ UNCHANGED <<disk, learnt, rests, proved, may>>
    BY <1>5 DEF Restart
  <2>2. crossed' \subseteq Agents
    BY <1>5, ShapeTyped DEF Restart, TurnRecord
  <2>3. turn' \in [Turns -> TurnRecord] /\ hermes' \in [Turns -> Calls]
    BY <2>1, OrphanTyped, QuietTyped DEF Calls
  <2>4. \A t \in Turns : turn'[t].pc = "idle" /\ hermes'[t] \in {"none", "working"}
    BY <2>1, OrphanTyped DEF Quiet
  <2>5. \A t \in Turns : Fits(t)'
    BY <2>4
  <2>6. TypeOK'
    BY <2>1, <2>2, <2>3, NoFileTyped DEF TurnRecord, Stages, Calls, Store
  <2>7. \A b \in Agents : life'[b] # "marked"
    BY <2>1
  <2> HIDE DEF TypeOK, Fits
  <2> QED BY <2>1, <2>5, <2>6, <2>7
<1> QED BY <1>1, <1>2, <1>3, <1>4, <1>5

LEMMA ShapeInit == Init => ShapeInv
<1> SUFFICES ASSUME Init PROVE ShapeInv
  OBVIOUS
<1>1. may \in SUBSET AllEvents
  BY ConstantAssumption DEF Init
<1>2. TypeOK
  <2>1. /\ gen \in Gens /\ mem \in [Agents -> Entry] /\ dirty \in BOOLEAN
        /\ disk \in Store /\ saver \in [pc : {"idle", "write"}, raw : Store]
        /\ reset \in {"idle", "checked"} /\ okCalls \in [Agents -> BOOLEAN]
    BY NoFileTyped DEF Init, Store
  <2>2. turn \in [Turns -> TurnRecord] /\ hermes \in [Turns -> Calls]
    BY QuietTyped DEF Init, Calls
  <2>3. /\ learnt \in [Agents -> [Gens -> Int]] /\ rests \in [Agents -> 0..MaxRests]
        /\ proved \in [Agents -> [Gens -> Int]]
    BY Bounds DEF Init, Unknown
  <2> QED BY <1>1, <2>1, <2>2, <2>3 DEF Init, TypeOK, TurnRecord, Stages, Calls
<1>3. \A t \in Turns : Fits(t)
  BY DEF Init, Fits, Quiet
<1> QED BY <1>2, <1>3 DEF Init, ShapeInv

LEMMA ShapeStep == ShapeInv /\ [Next]_vars => ShapeInv'
<1> SUFFICES ASSUME ShapeInv, [Next]_vars PROVE ShapeInv'
  OBVIOUS
<1>1. CASE UNCHANGED vars
  BY <1>1 DEF vars, driver, store, sandbox, ShapeInv, TypeOK, Fits
<1> QED BY <1>1, TurnShapeStep, HermesShapeStep, FleetShapeStep, StoreShapeStep DEF Next

(* Whatever happens, every state has its type.                              *)
THEOREM MemoryTyped == Spec => []TypeOK
<1>1. ShapeInv => TypeOK
  BY DEF ShapeInv
<1> QED BY ShapeInit, ShapeStep, <1>1, PTL DEF Spec

-----------------------------------------------------------------------------
(* The order of things: no turn and no call is under way when an agent is   *)
(* re-created, an agent is awake while it is busy, and every turn is of the *)
(* current generation, but for the agents that crossed a change of it.      *)
Apart(a) ==
    /\ life[a] = "recreated" => /\ "recreate" \in may
                                /\ \A t \in Turns : turn[t].agent = a => ~Live(t)
    /\ "patience" \notin may /\ Busy(a) => Awake(a)

OrderInv ==
    /\ \A a \in Agents : Apart(a)
    /\ \A t \in Turns : Live(t) /\ turn[t].agent \notin crossed => turn[t].gen = gen

(* The order survives a step of a turn that was live before.                *)
LEMMA TurnKeepsOrder ==
    ASSUME ShapeInv, OrderInv, NEW t \in Turns, StepOf(t),
           UNCHANGED <<gen, life, crossed, may>>,
           Live(t)' => Live(t),
           turn'[t].pc # "idle" => turn[t].pc # "idle"
    PROVE  OrderInv'
<1>1. \A u \in Turns : /\ turn'[u].pc # "idle" => turn[u].pc # "idle" /\ turn'[u].agent = turn[u].agent
                       /\ Live(u)' => /\ Live(u) /\ turn'[u].agent = turn[u].agent
                                      /\ turn'[u].gen = turn[u].gen
  BY DEF StepOf, Live
<1>2. \A a \in Agents : /\ Busy(a)' => Busy(a)
                        /\ Awake(a)' = Awake(a)
  BY <1>1 DEF Busy, Awake
<1>3. \A a \in Agents : Apart(a)'
  BY <1>1, <1>2 DEF OrderInv, Apart
<1> QED BY <1>1, <1>3 DEF OrderInv

LEMMA TurnOrderStep ==
    ASSUME ShapeInv, OrderInv, NEW t \in Turns, Turn(t)
    PROVE  OrderInv'
<1> USE TurnKeepsOrder
<1>1. ASSUME NEW a \in Agents, TurnBegin(t, a)
      PROVE  OrderInv'
  <2>1. /\ UNCHANGED <<gen, life, crossed, may, hermes>> /\ life[a] = "running"
        /\ hermes[t] = "none"
    BY <1>1 DEF TurnBegin, store, sandbox
  <2>2. /\ turn'[t].pc = "slot" /\ turn'[t].agent = a /\ turn'[t].gen = gen
        /\ \A u \in Turns : u # t => turn'[u] = turn[u]
    BY <1>1, BeginShape
  <2>3. \A b \in Agents : b # a => (Busy(b)' => Busy(b))
    BY <2>2 DEF Busy
  <2>4. \A b \in Agents : Apart(b)'
    <3> SUFFICES ASSUME NEW b \in Agents PROVE Apart(b)'
      OBVIOUS
    <3>1. CASE b = a
      BY <2>1, <3>1 DEF Apart, Awake
    <3>2. CASE b # a
      <4>1. Apart(b)
        BY DEF OrderInv
      <4> QED BY <2>1, <2>2, <2>3, <3>2, <4>1 DEF Apart, Awake, Live
    <3> QED BY <3>1, <3>2
  <2>5. \A u \in Turns : Live(u)' /\ turn'[u].agent \notin crossed => turn'[u].gen = gen
    BY <2>1, <2>2 DEF OrderInv, Live
  <2> QED BY <2>1, <2>4, <2>5 DEF OrderInv
<1>2. CASE TurnResetSlot(t)
  BY <1>2, ResetSlotShape DEF TurnResetSlot, store, sandbox, Live
<1>3. CASE TurnAttempt(t)
  BY <1>3, AttemptShape DEF TurnAttempt, store, Live, Over
<1>4. CASE TurnRetry(t)
  BY <1>4, RetryShape DEF TurnRetry, store, Live, Over
<1>5. CASE TurnGivesUp(t)
  BY <1>5, GivesUpShape DEF TurnGivesUp, store, Live, Over
<1>6. CASE TurnAnswered(t)
  BY <1>6, AnsweredShape DEF TurnAnswered, store, sandbox, Live
<1>7. CASE TurnChecksSlot(t)
  BY <1>7, ChecksSlotShape DEF TurnChecksSlot, store, Live, Over
<1>8. CASE TurnRecords(t)
  BY <1>8, RecordsShape DEF TurnRecords, Live, Over
<1> QED BY <1>1, <1>2, <1>3, <1>4, <1>5, <1>6, <1>7, <1>8 DEF Turn

LEMMA HermesOrderStep ==
    ASSUME ShapeInv, OrderInv, NEW t \in Turns, Hermes(t)
    PROVE  OrderInv'
<1> USE TurnKeepsOrder
<1>1. CASE HermesReceives(t)
  BY <1>1, ReceivesShape DEF HermesReceives, driver, store, Live
<1>2. CASE ModelAnswers(t)
  BY <1>2, AnswersShape DEF ModelAnswers, store, Live
<1>3. CASE ModelFails(t)
  BY <1>3, FailsShape DEF ModelFails, store, Live
<1>4. CASE ProxyRecords(t)
  BY <1>4, ProxyShape DEF ProxyRecords, store, Live
<1> QED BY <1>1, <1>2, <1>3, <1>4 DEF Hermes

(* The order survives a step of the fleet that starts no turn.              *)
LEMMA FleetOrderStep ==
    ASSUME ShapeInv, OrderInv, NEW a \in Agents, Fleet(a)
    PROVE  OrderInv'
<1>a. life \in [Agents -> {"running", "marked", "checkpointed", "rested", "recreated"}]
  BY DEF ShapeInv, TypeOK
<1>1. CASE RestMark(a)
  BY <1>1, <1>a DEF RestMark, driver, sandbox, store, OrderInv, Apart, Awake, Busy, Live
<1>2. CASE Checkpoint(a)
  <2>1. /\ life' = [life EXCEPT ![a] = "checkpointed"] /\ life[a] = "marked"
        /\ (Busy(a) => "patience" \in may)
        /\ UNCHANGED <<gen, may, turn, hermes, crossed>>
    BY <1>2 DEF Checkpoint, driver, store
  <2> QED BY <2>1, <1>a DEF OrderInv, Apart, Awake, Busy, Live
<1>3. CASE memRested(a)
  BY <1>3, <1>a DEF memRested, sandbox, store, OrderInv, Apart, Awake, Busy, Live
<1>4. CASE memWoke(a)
  BY <1>4, <1>a DEF memWoke, sandbox, store, OrderInv, Apart, Awake, Busy, Live
<1>5. CASE Recreate(a)
  <2>1. /\ hermes' = [t \in Turns |-> IF turn[t].agent = a THEN "none" ELSE hermes[t]]
        /\ turn' = [t \in Turns |-> IF turn[t].agent = a THEN Quiet ELSE turn[t]]
        /\ life' = [life EXCEPT ![a] = "recreated"] /\ life[a] = "rested" /\ "recreate" \in may
        /\ UNCHANGED <<gen, crossed, may>>
    BY <1>5 DEF Recreate, store
  <2>2. \A t \in Turns : \/ turn'[t] = turn[t] /\ hermes'[t] = hermes[t] /\ turn[t].agent # a
                         \/ turn'[t].pc = "idle" /\ hermes'[t] = "none"
    BY <2>1, ShapeTyped DEF Quiet
  <2>3. \A b \in Agents : (Busy(b)' => b # a /\ Busy(b)) /\ (b # a => (Awake(b)' <=> Awake(b)))
    BY <2>1, <2>2 DEF Busy, Awake
  <2>4. \A b \in Agents : Apart(b)'
    BY <2>1, <2>2, <2>3, <1>a DEF OrderInv, Apart, Live
  <2>5. \A t \in Turns : Live(t)' /\ turn'[t].agent \notin crossed => turn'[t].gen = gen
    BY <2>1, <2>2 DEF OrderInv, Live
  <2> QED BY <2>1, <2>4, <2>5 DEF OrderInv
<1>6. CASE memForget(a)
  BY <1>6, <1>a DEF memForget, sandbox, store, OrderInv, Apart, Awake, Busy, Live
<1>7. CASE RecreateFails(a)
  BY <1>7, <1>a DEF RecreateFails, driver, sandbox, store, OrderInv, Apart, Awake, Busy, Live
<1> QED BY <1>1, <1>2, <1>3, <1>4, <1>5, <1>6, <1>7 DEF Fleet

(* A restart ends the turns, and of an agent that crossed no change of the  *)
(* generation keeps the calls Hermes works on.                              *)
LEMMA Restarted ==
    ASSUME ShapeInv, Restart, NEW t \in Turns
    PROVE  /\ turn'[t].pc = "idle" /\ crossed \subseteq crossed'
           /\ \/ hermes'[t] = "none"
              \/ /\ hermes'[t] = "working" /\ hermes[t] = "working"
                 /\ turn'[t].agent = turn[t].agent /\ turn'[t].gen = turn[t].gen
                 /\ turn'[t].kind = turn[t].kind
                 /\ turn[t].agent \notin crossed' => gen' = gen
<1>1. /\ gen' = disk.gen
      /\ turn' = [u \in Turns |-> IF hermes[u] = "working" THEN Orphan(u) ELSE Quiet]
      /\ hermes' = [u \in Turns |-> IF hermes[u] = "working" THEN "working" ELSE "none"]
      /\ crossed' = IF disk.gen = gen THEN crossed
                    ELSE crossed \cup {turn[u].agent : u \in {v \in Turns : hermes[v] = "working"}}
  BY DEF Restart
<1>2. CASE hermes[t] = "working"
  BY <1>1, <1>2, OrphanTyped
<1>3. CASE hermes[t] # "working"
  BY <1>1, <1>3 DEF Quiet
<1> QED BY <1>2, <1>3

(* After a reset, the turns under way are of agents that crossed it.        *)
LEMMA ResetCrosses ==
    ASSUME memReset, NEW t \in Turns, turn[t].agent \notin crossed'
    PROVE  ~Live(t) /\ turn[t].agent \notin crossed
BY DEF memReset

LEMMA StoreOrderStep ==
    ASSUME ShapeInv, OrderInv, SaveSnapshot \/ SaveFile \/ ResetCheck \/ memReset \/ Restart
    PROVE  OrderInv'
<1>1. CASE SaveSnapshot
  BY <1>1 DEF SaveSnapshot, sandbox, OrderInv, Apart, Awake, Busy, Live
<1>2. CASE SaveFile
  BY <1>2 DEF SaveFile, sandbox, store, OrderInv, Apart, Awake, Busy, Live
<1>3. CASE ResetCheck
  BY <1>3 DEF ResetCheck, sandbox, store, OrderInv, Apart, Awake, Busy, Live
<1>4. CASE memReset
  <2>1. UNCHANGED <<turn, life, hermes, may>>
    BY <1>4 DEF memReset, sandbox
  <2>2. \A t \in Turns : Live(t)' => turn'[t].agent \in crossed'
    BY <1>4, <2>1, ResetCrosses DEF Live
  <2> QED BY <2>1, <2>2 DEF OrderInv, Apart, Awake, Busy, Live
<1>5. CASE Restart
  <2>1. /\ life' = [a \in Agents |-> IF Awake(a) THEN "running" ELSE "rested"]
        /\ UNCHANGED may
    BY <1>5 DEF Restart
  <2>2. \A t \in Turns : turn'[t].pc = "idle"
    BY <1>5, Restarted
  <2>3. \A a \in Agents : ~Busy(a)' /\ life'[a] # "recreated"
    BY <2>1, <2>2 DEF Busy
  <2>4. \A a \in Agents : Apart(a)'
    BY <2>1, <2>3 DEF Apart
  <2>5. \A t \in Turns : Live(t)' /\ turn'[t].agent \notin crossed' => turn'[t].gen = gen'
    <3> SUFFICES ASSUME NEW t \in Turns, Live(t)', turn'[t].agent \notin crossed'
                 PROVE  turn'[t].gen = gen'
      OBVIOUS
    <3>1. /\ hermes[t] = "working" /\ turn'[t].agent = turn[t].agent
          /\ turn'[t].gen = turn[t].gen /\ gen' = gen /\ turn[t].agent \notin crossed
      BY <1>5, Restarted DEF Live
    <3> QED BY <3>1 DEF OrderInv, Live
  <2> QED BY <2>4, <2>5 DEF OrderInv
<1> QED BY <1>1, <1>2, <1>3, <1>4, <1>5

LEMMA OrderInit == Init => OrderInv
<1> SUFFICES ASSUME Init PROVE OrderInv
  OBVIOUS
<1>1. \A t \in Turns : turn[t].pc = "idle" /\ hermes[t] = "none"
  BY DEF Init, Quiet
<1>2. \A a \in Agents : life[a] = "rested"
  BY DEF Init
<1>3. \A a \in Agents : Apart(a)
  BY <1>1, <1>2 DEF Apart, Busy
<1> QED BY <1>1, <1>3 DEF OrderInv, Live

LEMMA OrderStep == ShapeInv /\ OrderInv /\ [Next]_vars => OrderInv'
<1> SUFFICES ASSUME ShapeInv, OrderInv, [Next]_vars PROVE OrderInv'
  OBVIOUS
<1>1. CASE UNCHANGED vars
  BY <1>1 DEF vars, driver, store, sandbox, OrderInv, Apart, Awake, Busy, Live
<1> QED BY <1>1, TurnOrderStep, HermesOrderStep, FleetOrderStep, StoreOrderStep DEF Next

-----------------------------------------------------------------------------
(* What is known.  The proxy's slot speaks of the agent, not of the turn:   *)
(* that it may be trusted rests on what every live turn of the agent asks   *)
(* for, and in which generation.  Of an agent that crossed a change of the  *)
(* generation nothing is known.                                             *)
Sound(a) == ~Overtaken /\ a \notin crossed

(* The session of the current generation knows the codename; or the answer  *)
(* of a CreateActor was lost and the driver cannot know that it does not.   *)
Aware(a) == Knows(a, gen) \/ ({"lostCreate", "recreate"} \subseteq may /\ mem[a].taught)

(* What a turn, its call and the slot it looks at say is true of its agent; *)
(* a turn still teaches only if there is something to teach.                *)
Grounded(t) ==
    /\ hermes[t] = "relayed" => Aware(turn[t].agent)
    /\ turn[t].pc \in {"attempt", "sent", "answered"} /\ okCalls[turn[t].agent]
          => Aware(turn[t].agent)
    /\ turn[t].pc = "record" => Aware(turn[t].agent)
    /\ Live(t) /\ turn[t].kind = "recall" => Aware(turn[t].agent)
    /\ Live(t) /\ turn[t].kind = "taught" =>
          Knows(turn[t].agent, gen) \/ ~mem[turn[t].agent].taught

SavedKnown(s) ==
    \A a \in Agents : Sound(a) /\ s.agents[a].taught => Knows(a, s.gen)

KnowledgeInv ==
    /\ \A t \in Turns : Sound(turn[t].agent) => Grounded(t)
    /\ \A a \in Agents : Sound(a) /\ mem[a].taught /\ life[a] # "recreated" => Aware(a)
    /\ "crash" \in may => SavedKnown(disk) /\ (saver.pc = "write" => SavedKnown(saver.raw))

LEMMA StoresTyped ==
    ASSUME ShapeInv
    PROVE  /\ disk.gen \in Gens /\ saver.raw.gen \in Gens /\ gen \in Gens
           /\ \A t \in Turns : turn[t].agent \in Agents /\ turn[t].gen \in Gens
                               /\ turn[t].kind \in {"taught", "recall"}
BY DEF ShapeInv, TypeOK, Store

(* A step of a turn, or of its call, that makes nobody forget, and after    *)
(* which the turn itself is grounded.                                       *)
LEMMA TurnKeepsKnowledge ==
    ASSUME ShapeInv, KnowledgeInv, NEW t \in Turns, StepOf(t),
           UNCHANGED <<gen, disk, life, crossed, may, saver>>,
           Live(t)' => Live(t),
           \A b \in Agents, g \in Gens : Knows(b, g) => Knows(b, g)',
           \A b \in Agents : mem[b].taught => mem'[b].taught,
           \A b \in Agents : Sound(b) /\ mem'[b].taught => mem[b].taught \/ Knows(b, gen),
           \A b \in Agents : Sound(b) /\ okCalls'[b] => okCalls[b] \/ Aware(b),
           Sound(turn[t].agent) =>
               /\ hermes'[t] = "relayed" => Aware(turn[t].agent)'
               /\ turn'[t].pc \in {"attempt", "sent", "answered"} /\ okCalls'[turn[t].agent]
                     => Aware(turn[t].agent)
               /\ turn'[t].pc = "record" => Aware(turn[t].agent)
    PROVE  KnowledgeInv'
<1>0. \A b \in Agents : Sound(b)' = Sound(b)
  BY DEF Sound, Overtaken
<1>1. \A a \in Agents : Aware(a) => Aware(a)'
  BY StoresTyped DEF Aware
<1>2. \A a \in Agents : Sound(a) /\ mem'[a].taught => mem[a].taught \/ Knows(a, gen)'
  BY StoresTyped
<1>3. \A a \in Agents : Sound(a)' /\ mem'[a].taught /\ life'[a] # "recreated" => Aware(a)'
  BY <1>0, <1>1, <1>2 DEF KnowledgeInv, Aware
<1>4. "crash" \in may => SavedKnown(disk)' /\ (saver.pc = "write" => SavedKnown(saver.raw)')
  BY <1>0, StoresTyped DEF KnowledgeInv, SavedKnown
<1>5. ASSUME NEW u \in Turns, u # t, Sound(turn[u].agent)'
      PROVE  Grounded(u)'
  <2>1. PICK b \in Agents : b = turn[u].agent
    BY StoresTyped
  <2>2. turn'[u] = turn[u] /\ hermes'[u] = hermes[u]
    BY <1>5 DEF StepOf
  <2>3. Sound(b) /\ Grounded(u)
    BY <1>0, <1>5, <2>1, <2>2 DEF KnowledgeInv
  <2>4. /\ okCalls'[b] => okCalls[b] \/ Aware(b)
        /\ Aware(b) => Aware(b)'
        /\ Knows(b, gen) => Knows(b, gen)'
        /\ mem'[b].taught => mem[b].taught \/ Knows(b, gen)'
    BY <1>1, <1>2, <2>3, StoresTyped
  <2> QED BY <2>1, <2>2, <2>3, <2>4 DEF Grounded, Live, Aware, Knows
<1>6. ASSUME Sound(turn[t].agent)'
      PROVE  Grounded(t)'
  <2>1. PICK b \in Agents : b = turn[t].agent
    BY StoresTyped
  <2>2. CASE ~Live(t)'
    BY <2>2 DEF Grounded, Live
  <2>3. CASE Live(t)'
    <3>1. turn'[t].agent = b /\ turn'[t].kind = turn[t].kind /\ Live(t)
      BY <2>1, <2>3 DEF StepOf
    <3>2. Sound(b) /\ Grounded(t)
      BY <1>0, <1>6, <2>1, <3>1 DEF KnowledgeInv
    <3>3. /\ Aware(b) => Aware(b)'
          /\ Knows(b, gen) => Knows(b, gen)'
          /\ mem'[b].taught => mem[b].taught \/ Knows(b, gen)'
      BY <1>1, <1>2, <3>2, StoresTyped
    <3> QED BY <2>1, <2>3, <3>1, <3>2, <3>3 DEF Grounded, Aware, Knows
  <2> QED BY <2>2, <2>3
<1> QED BY <1>3, <1>4, <1>5, <1>6 DEF KnowledgeInv

LEMMA TurnKnowledgeStep ==
    ASSUME ShapeInv, OrderInv, KnowledgeInv, NEW t \in Turns, Turn(t)
    PROVE  KnowledgeInv'
<1> USE TurnKeepsKnowledge
<1>0. Sound(turn[t].agent) => Grounded(t)
  BY DEF KnowledgeInv
<1>a. turn[t].agent \in Agents
  BY StoresTyped
<1>b. ASSUME UNCHANGED <<gen, mem, learnt, may>>
      PROVE  /\ \A b \in Agents, g \in Gens : Knows(b, g) => Knows(b, g)'
             /\ \A b \in Agents : Aware(b)' = Aware(b)
  BY <1>b DEF Knows, Aware
<1>1. ASSUME NEW a \in Agents, TurnBegin(t, a)
      PROVE  KnowledgeInv'
  <2>1. /\ UNCHANGED <<gen, mem, saver, disk, life, learnt, crossed, may, okCalls, hermes>>
        /\ life[a] = "running" /\ hermes[t] = "none"
    BY <1>1 DEF TurnBegin, store, sandbox
  <2>2. /\ turn'[t].pc = "slot" /\ turn'[t].agent = a
        /\ turn'[t].kind = (IF mem[a].taught THEN "recall" ELSE "taught")
        /\ \A u \in Turns : u # t => turn'[u] = turn[u]
    BY <1>1, BeginShape
  <2>3. ASSUME NEW u \in Turns, Sound(turn[u].agent)'
        PROVE  Grounded(u)'
    <3>1. CASE u = t
      <4>1. mem[a].taught => Aware(a)
        BY <2>1, <2>2, <2>3, <3>1 DEF KnowledgeInv, Sound, Overtaken
      <4> QED BY <2>1, <2>2, <3>1, <4>1 DEF Grounded, Aware, Knows
    <3>2. CASE u # t
      <4>1. Grounded(u) /\ turn'[u] = turn[u]
        BY <2>1, <2>2, <2>3, <3>2 DEF KnowledgeInv, Sound, Overtaken
      <4> QED BY <2>1, <4>1 DEF Grounded, Aware, Knows, Live
    <3> QED BY <3>1, <3>2
  <2> QED BY <2>1, <2>3 DEF KnowledgeInv, Sound, Overtaken, Aware, Knows, SavedKnown
<1>2. CASE TurnResetSlot(t)
  <2>1. /\ UNCHANGED <<gen, mem, saver, disk, life, learnt, crossed, may>> /\ turn[t].pc = "slot"
        /\ okCalls' = [okCalls EXCEPT ![turn[t].agent] = FALSE]
    BY <1>2 DEF TurnResetSlot, store, sandbox
  <2>2. ~okCalls'[turn[t].agent] /\ \A b \in Agents : okCalls'[b] => okCalls[b]
    BY <1>a, <2>1 DEF ShapeInv, TypeOK
  <2> QED BY <1>2, <1>b, <2>1, <2>2, ResetSlotShape DEF Live
<1>3. CASE TurnAttempt(t)
  <2>1. UNCHANGED <<gen, mem, saver, disk, life, learnt, crossed, may, okCalls>>
    BY <1>3 DEF TurnAttempt, store
  <2> QED BY <1>0, <1>3, <1>b, <2>1, AttemptShape DEF Live, Over, Grounded
<1>4. CASE TurnRetry(t)
  <2>1. /\ UNCHANGED <<gen, mem, saver, disk, life, learnt, crossed, may, okCalls>>
        /\ hermes' = [hermes EXCEPT ![t] = "none"]
    BY <1>4 DEF TurnRetry, store
  <2>2. hermes'[t] = "none"
    BY <2>1, ShapeTyped
  <2> QED BY <1>0, <1>4, <1>b, <2>1, <2>2, RetryShape DEF Live, Over, Grounded
<1>5. CASE TurnGivesUp(t)
  <2>1. UNCHANGED <<gen, mem, saver, disk, life, learnt, crossed, may, okCalls>>
    BY <1>5 DEF TurnGivesUp, store
  <2>2. ASSUME hermes'[t] = "relayed", Sound(turn[t].agent)
        PROVE  Aware(turn[t].agent)'
    <3>1. turn'[t].agent = turn[t].agent /\ hermes[t] = hermes'[t]
      BY <1>5, <2>2, GivesUpShape DEF StepOf, Live, Over
    <3> QED BY <1>0, <2>1, <2>2, <3>1 DEF Grounded, Aware, Knows
  <2> QED BY <1>5, <1>b, <2>1, <2>2, GivesUpShape DEF Live, Over
<1>6. CASE TurnAnswered(t)
  <2>1. UNCHANGED <<gen, mem, saver, disk, life, learnt, crossed, may, okCalls>>
    BY <1>6 DEF TurnAnswered, store, sandbox
  <2>2. ASSUME hermes'[t] = "relayed", Sound(turn[t].agent)
        PROVE  Aware(turn[t].agent)'
    <3>1. turn'[t].agent = turn[t].agent /\ hermes[t] = hermes'[t]
      BY <1>6, <2>2, AnsweredShape DEF StepOf, Live
    <3> QED BY <1>0, <2>1, <2>2, <3>1 DEF Grounded, Aware, Knows
  <2> QED BY <1>0, <1>6, <1>b, <2>1, <2>2, AnsweredShape DEF Live, Grounded
<1>7. CASE TurnChecksSlot(t)
  <2>1. UNCHANGED <<gen, mem, saver, disk, life, learnt, crossed, may, okCalls>>
    BY <1>7 DEF TurnChecksSlot, store
  <2>2. ASSUME hermes'[t] = "relayed", Sound(turn[t].agent)
        PROVE  Aware(turn[t].agent)'
    <3>1. turn'[t].agent = turn[t].agent /\ hermes[t] = hermes'[t]
      BY <1>7, <2>2, ChecksSlotShape DEF StepOf, Live, Over
    <3> QED BY <1>0, <2>1, <2>2, <3>1 DEF Grounded, Aware, Knows
  <2> QED BY <1>0, <1>7, <1>b, <2>1, <2>2, ChecksSlotShape DEF Live, Over, Grounded
<1>8. CASE TurnRecords(t)
  <2>1. UNCHANGED <<gen, saver, disk, life, learnt, crossed, may, okCalls>>
    BY <1>8 DEF TurnRecords
  <2>2. /\ \A b \in Agents : b # turn[t].agent => mem'[b] = mem[b]
        /\ mem[turn[t].agent].taught => mem'[turn[t].agent].taught
        /\ turn[t].kind # "taught" => mem'[turn[t].agent].taught = mem[turn[t].agent].taught
    BY <1>8, RecordsStore
  <2>3. \A b \in Agents : mem[b].taught => mem'[b].taught
    BY <2>2
  <2>4. \A b \in Agents : Sound(b) /\ mem'[b].taught => mem[b].taught \/ Knows(b, gen)
    <3>1. Sound(turn[t].agent) => Aware(turn[t].agent)
      BY <1>0, <1>8 DEF Grounded, TurnRecords
    <3> QED BY <2>2, <3>1 DEF Aware
  <2>5. ASSUME hermes'[t] = "relayed", Sound(turn[t].agent)
        PROVE  Aware(turn[t].agent)'
    <3>1. turn'[t].agent = turn[t].agent /\ hermes[t] = hermes'[t]
      BY <1>8, <2>5, RecordsShape DEF StepOf, Live, Over
    <3> QED BY <1>0, <1>a, <2>1, <2>3, <2>5, <3>1 DEF Grounded, Aware, Knows
  <2>6. \A b \in Agents, g \in Gens : Knows(b, g) => Knows(b, g)'
    BY <2>1 DEF Knows
  <2> QED BY <1>8, <2>1, <2>3, <2>4, <2>5, <2>6, RecordsShape DEF Live, Over
<1> QED BY <1>1, <1>2, <1>3, <1>4, <1>5, <1>6, <1>7, <1>8 DEF Turn

LEMMA HermesKnowledgeStep ==
    ASSUME ShapeInv, OrderInv, KnowledgeInv, NEW t \in Turns, Hermes(t)
    PROVE  KnowledgeInv'
<1> USE TurnKeepsKnowledge
<1>0. Sound(turn[t].agent) => Grounded(t)
  BY DEF KnowledgeInv
<1>a. turn[t].agent \in Agents /\ turn[t].kind \in {"taught", "recall"}
  BY StoresTyped
<1>b. ASSUME UNCHANGED <<gen, mem, learnt, may>>
      PROVE  /\ \A b \in Agents, g \in Gens : Knows(b, g) => Knows(b, g)'
             /\ \A b \in Agents : Aware(b)' = Aware(b)
  BY <1>b DEF Knows, Aware
<1>1. CASE HermesReceives(t)
  <2>1. UNCHANGED <<gen, mem, saver, disk, life, learnt, crossed, may, okCalls>>
    BY <1>1 DEF HermesReceives, driver, store
  <2> QED BY <1>0, <1>1, <1>b, <2>1, ReceivesShape DEF Live, Grounded
<1>2. CASE ModelAnswers(t)
  <2>1. UNCHANGED <<gen, mem, saver, disk, life, crossed, may, okCalls>>
    BY <1>2 DEF ModelAnswers, store
  <2>2. \A b \in Agents, g \in Gens : Knows(b, g) => Knows(b, g)'
    BY <1>2, AnswersFacts DEF Knows
  <2>3. /\ turn'[t].agent = turn[t].agent /\ hermes[t] = "working" /\ turn'[t].pc = turn[t].pc
        /\ StepOf(t) /\ Live(t)
    BY <1>2, AnswersShape DEF StepOf, Live
  <2>4. Sound(turn[t].agent) => turn[t].gen = gen
    BY <2>3 DEF OrderInv, Sound
  <2>5. ASSUME Sound(turn[t].agent)
        PROVE  Aware(turn[t].agent)'
    <3>1. CASE turn[t].kind = "taught"
      BY <1>2, <2>1, <2>3, <2>4, <2>5, <3>1, AnswersFacts DEF Aware, Knows
    <3>2. CASE turn[t].kind = "recall"
      <4>1. Aware(turn[t].agent)
        BY <1>0, <2>3, <2>5, <3>2 DEF Grounded
      <4> QED BY <1>a, <2>1, <2>2, <2>3, <4>1, StoresTyped DEF Aware, Knows
    <3> QED BY <1>a, <3>1, <3>2
  <2> QED BY <1>0, <2>1, <2>2, <2>3, <2>5 DEF Grounded
<1>3. CASE ModelFails(t)
  <2>1. UNCHANGED <<gen, mem, saver, disk, life, learnt, crossed, may, okCalls>>
    BY <1>3 DEF ModelFails, store
  <2> QED BY <1>0, <1>3, <1>b, <2>1, FailsShape DEF Live, Grounded
<1>4. CASE ProxyRecords(t)
  <2>1. /\ UNCHANGED <<gen, mem, saver, disk, life, learnt, crossed, may>>
        /\ okCalls' = [okCalls EXCEPT ![turn[t].agent] = TRUE]
    BY <1>4 DEF ProxyRecords, store
  <2>2. Sound(turn[t].agent) => Aware(turn[t].agent)
    BY <1>0, <1>4 DEF Grounded, ProxyRecords
  <2>3. \A b \in Agents : Sound(b) /\ okCalls'[b] => okCalls[b] \/ Aware(b)
    BY <2>1, <2>2 DEF ShapeInv, TypeOK
  <2>4. ASSUME hermes'[t] = "relayed", Sound(turn[t].agent)
        PROVE  Aware(turn[t].agent)'
    <3>1. turn'[t].agent = turn[t].agent
      BY <1>4, <2>4, ProxyShape DEF StepOf, Live
    <3> QED BY <2>1, <2>2, <2>4, <3>1 DEF Aware, Knows
  <2> QED BY <1>0, <1>4, <1>b, <2>1, <2>2, <2>3, <2>4, ProxyShape DEF Live, Grounded
<1> QED BY <1>1, <1>2, <1>3, <1>4 DEF Hermes

(* A step that changes neither what anybody knows nor what is taught, and   *)
(* hides no agent that the driver takes for taught.                         *)
LEMMA FleetKeepsKnowledge ==
    ASSUME ShapeInv, KnowledgeInv,
           UNCHANGED <<gen, disk, saver, crossed, may, okCalls, turn, hermes, learnt>>,
           \A b \in Agents : mem'[b].taught = mem[b].taught,
           \A b \in Agents :
               life'[b] # "recreated" => life[b] # "recreated" \/ (mem[b].taught => Aware(b))
    PROVE  KnowledgeInv'
<1>1. \A b \in Agents : Aware(b)' = Aware(b)
  BY DEF Aware, Knows
<1>2. \A t \in Turns : Sound(turn[t].agent)' => Grounded(t)'
  BY <1>1, StoresTyped DEF KnowledgeInv, Sound, Overtaken, Grounded, Live, Knows, Aware
<1> QED BY <1>1, <1>2 DEF KnowledgeInv, Sound, Overtaken, SavedKnown, Knows

LEMMA FleetKnowledgeStep ==
    ASSUME ShapeInv, OrderInv, KnowledgeInv, NEW a \in Agents, Fleet(a)
    PROVE  KnowledgeInv'
<1> USE FleetKeepsKnowledge
<1>0. life \in [Agents -> {"running", "marked", "checkpointed", "rested", "recreated"}]
      /\ mem \in [Agents -> Entry]
  BY DEF ShapeInv, TypeOK
<1>1. CASE RestMark(a)
  BY <1>0, <1>1 DEF RestMark, driver, sandbox, store
<1>2. CASE Checkpoint(a)
  BY <1>0, <1>2 DEF Checkpoint, driver, store
<1>3. CASE memRested(a)
  BY <1>0, <1>3 DEF memRested, sandbox, store, Entry
<1>4. CASE memWoke(a)
  BY <1>0, <1>4 DEF memWoke, sandbox, store
<1>5. CASE Recreate(a)
  <2>1. /\ hermes' = [t \in Turns |-> IF turn[t].agent = a THEN "none" ELSE hermes[t]]
        /\ turn' = [t \in Turns |-> IF turn[t].agent = a THEN Quiet ELSE turn[t]]
        /\ learnt' = [learnt EXCEPT ![a] = [g \in Gens |-> Unknown]]
        /\ life' = [life EXCEPT ![a] = "recreated"] /\ "recreate" \in may
        /\ UNCHANGED <<gen, mem, saver, disk, crossed, may, okCalls>>
    BY <1>5 DEF Recreate, store
  <2>2. \A t \in Turns : \/ turn'[t] = turn[t] /\ hermes'[t] = hermes[t] /\ turn[t].agent # a
                         \/ turn'[t].pc = "idle" /\ hermes'[t] = "none"
    BY <2>1, ShapeTyped DEF Quiet
  <2>3. \A b \in Agents : b # a => Aware(b)' = Aware(b) /\ (Knows(b, gen)' = Knows(b, gen))
    BY <2>1 DEF Aware, Knows, ShapeInv, TypeOK
  <2>4. ASSUME NEW t \in Turns, Sound(turn[t].agent)'
        PROVE  Grounded(t)'
    <3>1. CASE turn'[t].pc = "idle" /\ hermes'[t] = "none"
      BY <3>1 DEF Grounded, Live
    <3>2. CASE turn'[t] = turn[t] /\ hermes'[t] = hermes[t] /\ turn[t].agent # a
      <4>1. Grounded(t) /\ turn[t].agent \in Agents
        BY <2>1, <2>4, <3>2, StoresTyped DEF KnowledgeInv, Sound, Overtaken
      <4>2. learnt'[turn[t].agent] = learnt[turn[t].agent]
        BY <2>1, <3>2, <4>1 DEF ShapeInv, TypeOK
      <4> QED BY <2>1, <3>2, <4>1, <4>2 DEF Grounded, Live, Aware, Knows
    <3> QED BY <2>2, <3>1, <3>2
  <2>5. ~Overtaken => "crash" \notin may
    BY <2>1 DEF Overtaken
  <2>6. \A b \in Agents : Sound(b) /\ mem[b].taught /\ life'[b] # "recreated" => Aware(b)'
    BY <1>0, <2>1, <2>3 DEF KnowledgeInv
  <2>7. \A b \in Agents : Sound(b)' = Sound(b)
    BY <2>1 DEF Sound, Overtaken
  <2>8. "crash" \in may => \A b \in Agents : ~Sound(b)
    BY <2>5 DEF Sound
  <2> QED BY <2>1, <2>4, <2>6, <2>7, <2>8 DEF KnowledgeInv, SavedKnown
<1>6. CASE memForget(a)
  <2>1. /\ life' = [life EXCEPT ![a] = "rested"] /\ mem' = [mem EXCEPT ![a] = fresh]
        /\ life[a] = "recreated"
        /\ UNCHANGED <<gen, saver, disk, crossed, may, okCalls, turn, hermes, learnt>>
    BY <1>6 DEF memForget, sandbox
  <2>2. \A b \in Agents : /\ Knows(b, gen)' = Knows(b, gen)
                          /\ b # a => Aware(b)' = Aware(b)
    BY <1>0, <2>1 DEF Aware, Knows
  <2>3. ASSUME NEW t \in Turns, Sound(turn[t].agent)'
        PROVE  Grounded(t)'
    <3>1. Grounded(t) /\ turn[t].agent \in Agents
      BY <2>1, <2>3, StoresTyped DEF KnowledgeInv, Sound, Overtaken
    <3>2. CASE turn[t].agent = a
      <4>1. ~Live(t)
        BY <2>1, <3>2 DEF OrderInv, Apart
      <4> QED BY <2>1, <4>1 DEF Grounded, Live
    <3>3. CASE turn[t].agent # a
      BY <1>0, <2>1, <3>1, <3>3 DEF Grounded, Live, Aware, Knows
    <3> QED BY <3>2, <3>3
  <2>4. \A b \in Agents : Sound(b) /\ mem'[b].taught /\ life'[b] # "recreated" => Aware(b)'
    <3>1. ~mem'[a].taught
      BY <1>0, <2>1 DEF fresh
    <3> QED BY <1>0, <2>1, <2>2, <3>1 DEF KnowledgeInv
  <2> QED BY <2>1, <2>3, <2>4 DEF KnowledgeInv, Sound, Overtaken, SavedKnown, Knows
<1>7. CASE RecreateFails(a)
  <2>1. /\ life' = [life EXCEPT ![a] = "rested"] /\ "lostCreate" \in may /\ life[a] = "recreated"
        /\ UNCHANGED <<gen, mem, saver, disk, crossed, may, okCalls, turn, hermes, learnt>>
    BY <1>7 DEF RecreateFails, driver, sandbox, store
  <2>2. mem[a].taught => Aware(a)
    BY <2>1 DEF OrderInv, Apart, Aware
  <2>3. \A b \in Agents : b # a => life'[b] = life[b]
    BY <1>0, <2>1
  <2> QED BY <2>1, <2>2, <2>3
<1> QED BY <1>1, <1>2, <1>3, <1>4, <1>5, <1>6, <1>7 DEF Fleet

LEMMA RestartCrosses == Restart => \A b \in Agents : Sound(b)' => Sound(b)
BY DEF Restart, Sound, Overtaken

LEMMA StoreKnowledgeStep ==
    ASSUME ShapeInv, OrderInv, KnowledgeInv,
           SaveSnapshot \/ SaveFile \/ ResetCheck \/ memReset \/ Restart
    PROVE  KnowledgeInv'
<1>1. CASE SaveSnapshot
  <2>1. /\ saver' = [pc |-> "write", raw |-> [gen |-> gen, agents |-> mem]]
        /\ UNCHANGED <<gen, mem, turn, hermes, learnt, okCalls, life, disk, crossed, may>>
    BY <1>1 DEF SaveSnapshot, sandbox
  <2>2. saver'.raw.gen = gen /\ saver'.raw.agents = mem
    BY <2>1
  <2>3. \A t \in Turns : Sound(turn[t].agent)' => Grounded(t)'
    BY <2>1 DEF KnowledgeInv, Sound, Overtaken, Grounded, Live, Aware, Knows
  <2>4. ASSUME "crash" \in may, NEW b \in Agents, Sound(b), mem[b].taught
        PROVE  Knows(b, gen)
    <3>1. life[b] # "recreated" /\ "recreate" \notin may
      BY <2>4 DEF OrderInv, Apart, Sound, Overtaken
    <3> QED BY <2>4, <3>1 DEF KnowledgeInv, Aware
  <2>5. "crash" \in may => SavedKnown(saver.raw)'
    BY <2>1, <2>2, <2>4 DEF SavedKnown, Knows, Sound, Overtaken
  <2> QED BY <2>1, <2>3, <2>5 DEF KnowledgeInv, Sound, Overtaken, SavedKnown, Knows, Aware
<1>2. CASE SaveFile
  <2>1. /\ saver' = [pc |-> "idle", raw |-> noFile] /\ saver.pc = "write"
        /\ disk' = saver.raw \/ disk' = disk
        /\ UNCHANGED <<gen, mem, turn, hermes, learnt, okCalls, life, crossed, may>>
    BY <1>2 DEF SaveFile, sandbox, store
  <2>2. \A t \in Turns : Sound(turn[t].agent)' => Grounded(t)'
    BY <2>1 DEF KnowledgeInv, Sound, Overtaken, Grounded, Live, Aware, Knows
  <2>3. "crash" \in may => SavedKnown(disk)'
    BY <2>1 DEF KnowledgeInv, Sound, Overtaken, SavedKnown, Knows
  <2> QED BY <2>1, <2>2, <2>3 DEF KnowledgeInv, Sound, Overtaken, Knows, Aware
<1>3. CASE ResetCheck
  BY <1>3, FleetKeepsKnowledge DEF ResetCheck, sandbox, store
<1>4. CASE memReset
  <2>1. /\ mem' = [a \in Agents |-> [fresh EXCEPT !.rests = mem[a].rests]]
        /\ crossed \subseteq crossed'
        /\ UNCHANGED <<saver, disk, learnt, turn, hermes, okCalls, life, may>>
    BY <1>4 DEF memReset, sandbox
  <2>2. ASSUME NEW t \in Turns, Sound(turn[t].agent)'
        PROVE  Grounded(t)'
    <3>1. ~Live(t)
      BY <1>4, <2>1, <2>2, ResetCrosses DEF Sound
    <3> QED BY <2>1, <3>1 DEF Grounded, Live
  <2>3. \A b \in Agents : ~mem'[b].taught
    BY <2>1 DEF fresh
  <2>4. \A b \in Agents : Sound(b)' => Sound(b)
    BY <2>1 DEF Sound, Overtaken
  <2>5. "crash" \in may => SavedKnown(disk)' /\ (saver.pc = "write" => SavedKnown(saver.raw)')
    BY <2>1, <2>4 DEF KnowledgeInv, SavedKnown, Knows
  <2> QED BY <2>1, <2>2, <2>3, <2>5 DEF KnowledgeInv
<1>5. CASE Restart
  <2>1. /\ gen' = disk.gen /\ mem' = disk.agents /\ "crash" \in may
        /\ saver' = [pc |-> "idle", raw |-> noFile]
        /\ okCalls' = [a \in Agents |-> FALSE]
        /\ UNCHANGED <<disk, learnt, may>>
    BY <1>5 DEF Restart
  <2>2. \A b \in Agents : Sound(b)' => Sound(b)
    BY <1>5, RestartCrosses
  <2>3. SavedKnown(disk)
    BY <2>1 DEF KnowledgeInv
  <2>4. \A b \in Agents : Sound(b)' /\ mem'[b].taught => Knows(b, gen)'
    BY <2>1, <2>2, <2>3 DEF SavedKnown, Knows
  <2>5. ASSUME NEW t \in Turns, Sound(turn[t].agent)'
        PROVE  Grounded(t)'
    <3>1. turn'[t].pc = "idle"
      BY <1>5, Restarted
    <3>2. CASE hermes'[t] = "none"
      BY <3>1, <3>2 DEF Grounded, Live
    <3>3. CASE hermes'[t] # "none"
      <4>1. PICK b \in Agents : b = turn[t].agent
        BY StoresTyped
      <4>2. /\ hermes'[t] = "working" /\ hermes[t] = "working"
            /\ turn'[t].agent = b /\ turn'[t].kind = turn[t].kind
        BY <1>5, <3>3, <4>1, Restarted
      <4>3. Sound(b) /\ gen' = gen
        BY <1>5, <2>2, <2>5, <3>3, <4>1, <4>2, Restarted DEF Sound
      <4>4. turn[t].kind = "recall" => Aware(b)
        BY <4>1, <4>2, <4>3 DEF KnowledgeInv, Grounded, Live
      <4>5. Aware(b) => Knows(b, gen)
        BY <2>1, <4>3 DEF Aware, Sound, Overtaken
      <4>6. Knows(b, gen) => Knows(b, gen)'
        BY <2>1, <4>3 DEF Knows
      <4>7. mem'[b].taught => Knows(b, gen)'
        BY <2>4, <2>5, <4>2
      <4> QED BY <3>1, <4>2, <4>4, <4>5, <4>6, <4>7 DEF Grounded, Live, Aware
    <3> QED BY <3>2, <3>3
  <2>6. SavedKnown(disk)'
    BY <2>1, <2>2, <2>3 DEF SavedKnown, Knows
  <2>7. saver'.pc = "idle"
    BY <2>1
  <2> QED BY <2>4, <2>5, <2>6, <2>7 DEF KnowledgeInv, Aware
<1> QED BY <1>1, <1>2, <1>3, <1>4, <1>5

LEMMA KnowledgeInit == Init => KnowledgeInv
<1> SUFFICES ASSUME Init PROVE KnowledgeInv
  OBVIOUS
<1>1. \A t \in Turns : turn[t].pc = "idle" /\ hermes[t] = "none"
  BY DEF Init, Quiet
<1>2. \A a \in Agents : ~mem[a].taught /\ ~disk.agents[a].taught
  BY DEF Init, noFile, fresh
<1>3. saver.pc = "idle"
  BY DEF Init
<1> QED BY <1>1, <1>2, <1>3 DEF KnowledgeInv, Grounded, Live, SavedKnown

LEMMA KnowledgeStep == ShapeInv /\ OrderInv /\ KnowledgeInv /\ [Next]_vars => KnowledgeInv'
<1> SUFFICES ASSUME ShapeInv, OrderInv, KnowledgeInv, [Next]_vars PROVE KnowledgeInv'
  OBVIOUS
<1>1. CASE UNCHANGED vars
  BY <1>1, FleetKeepsKnowledge DEF vars, driver, store, sandbox
<1> QED BY <1>1, TurnKnowledgeStep, HermesKnowledgeStep, FleetKnowledgeStep, StoreKnowledgeStep
    DEF Next

(* An agent the driver takes for taught knows its codename, unless one of   *)
(* its turns crossed a change of the generation, the answer of a            *)
(* CreateActor is lost or what Overtaken names comes together: the memory   *)
(* may be reset at any moment (main.go:3096), also during a turn.           *)
THEOREM TaughtAgentsKnow == Spec => []TaughtIsKnown
<1>1. ShapeInv /\ OrderInv /\ KnowledgeInv => TaughtIsKnown
  BY DEF KnowledgeInv, TaughtIsKnown, Sound, Aware
<1> QED BY ShapeInit, ShapeStep, OrderInit, OrderStep, KnowledgeInit, KnowledgeStep, <1>1, PTL
    DEF Spec

-----------------------------------------------------------------------------
(* What the dashboard claims.  The driver counts rests when memRested is    *)
(* called, after the checkpoint; what it counts between teaching and recall *)
(* is never more than the agent went through since Hermes learnt.           *)

(* A checkpoint taken but not yet counted.                                  *)
Lag(a) == IF life[a] = "checkpointed" THEN 1 ELSE 0

SavedSpan(s) ==
    \A a \in Agents : Sound(a) =>
        /\ s.agents[a].taught =>
              s.agents[a].rests + learnt[a][s.gen] <= rests[a] + s.agents[a].restsAtTeach
        /\ s.agents[a].survived <= proved[a][s.gen]

Spanned(t) ==
    turn[t].pc # "idle" /\ Sound(turn[t].agent) =>
        /\ turn[t].kind = "recall" => mem[turn[t].agent].taught
        /\ turn[t].right => /\ Knows(turn[t].agent, gen)
                            /\ rests[turn[t].agent]
                                  <= proved[turn[t].agent][gen] + learnt[turn[t].agent][gen]

SpanInv ==
    /\ \A a \in Agents, g \in Gens : learnt[a][g] <= rests[a] /\ 0 <= proved[a][g]
    /\ "patience" \notin may =>
        /\ \A a \in Agents : Sound(a) => mem[a].survived <= proved[a][gen]
        /\ \A a \in Agents : Sound(a) /\ mem[a].taught /\ Knows(a, gen) =>
               mem[a].rests + Lag(a) + learnt[a][gen] <= rests[a] + mem[a].restsAtTeach
        /\ \A t \in Turns : Spanned(t)
        /\ "crash" \in may => SavedSpan(disk) /\ (saver.pc = "write" => SavedSpan(saver.raw))

LEMMA SoundStays ==
    ASSUME UNCHANGED <<crossed, may>>
    PROVE  \A a \in Agents : Sound(a)' = Sound(a)
BY DEF Sound, Overtaken

LEMMA CountsTyped ==
    ASSUME ShapeInv, NEW a \in Agents, NEW g \in Gens
    PROVE  /\ rests[a] \in Nat /\ learnt[a][g] \in Int /\ proved[a][g] \in Int
           /\ mem[a].rests \in Nat /\ mem[a].restsAtTeach \in Nat /\ mem[a].survived \in Int
           /\ disk.agents[a].rests \in Nat /\ disk.agents[a].restsAtTeach \in Nat
           /\ disk.agents[a].survived \in Int
           /\ saver.raw.agents[a].rests \in Nat /\ saver.raw.agents[a].restsAtTeach \in Nat
           /\ saver.raw.agents[a].survived \in Int
           /\ Lag(a) \in {0, 1}
<1>1. mem[a] \in Entry /\ disk.agents[a] \in Entry /\ saver.raw.agents[a] \in Entry
  BY DEF ShapeInv, TypeOK, Store
<1>2. rests[a] \in Nat /\ learnt[a][g] \in Int /\ proved[a][g] \in Int
  BY Bounds DEF ShapeInv, TypeOK
<1> QED BY <1>1, <1>2 DEF Entry, Lag

(* A step of a turn that records nothing.                                   *)
LEMMA TurnKeepsSpan ==
    ASSUME ShapeInv, ShapeInv', KnowledgeInv, SpanInv, NEW t \in Turns, StepOf(t),
           UNCHANGED <<gen, mem, disk, life, crossed, may, saver, rests>>,
           turn'[t].pc # "idle" => turn[t].pc # "idle",
           \A b \in Agents, g \in Gens :
               /\ learnt'[b][g] = learnt[b][g] \/ (~Knows(b, g) /\ learnt'[b][g] = rests[b])
               /\ proved[b][g] <= proved'[b][g],
           \A b \in Agents : Sound(b) /\ mem[b].taught => learnt'[b][gen] = learnt[b][gen],
           Sound(turn[t].agent) /\ turn'[t].pc # "idle" /\ turn'[t].right =>
               \/ turn[t].right
               \/ /\ Knows(turn[t].agent, gen)'
                  /\ rests[turn[t].agent]
                        <= proved'[turn[t].agent][gen] + learnt'[turn[t].agent][gen]
    PROVE  SpanInv'
<1>1. \A b \in Agents, g \in Gens : learnt'[b][g] <= rests'[b] /\ 0 <= proved'[b][g]
  <2> TAKE b \in Agents, g \in Gens
  <2>1. learnt[b][g] <= rests[b] /\ 0 <= proved[b][g]
    BY DEF SpanInv
  <2>2. /\ rests[b] \in Nat /\ proved[b][g] \in Int /\ proved'[b][g] \in Int
        /\ proved[b][g] <= proved'[b][g]
    BY CountsTyped DEF ShapeInv, TypeOK
  <2> QED BY <2>1, <2>2
<1>0. \A b \in Agents : Sound(b)' = Sound(b)
  BY SoundStays
<1> SUFFICES ASSUME "patience" \notin may
             PROVE  /\ \A a \in Agents : Sound(a) => mem'[a].survived <= proved'[a][gen']
                    /\ \A a \in Agents : Sound(a) /\ mem'[a].taught /\ Knows(a, gen)' =>
                           mem'[a].rests + Lag(a)' + learnt'[a][gen'] <= rests'[a] + mem'[a].restsAtTeach
                    /\ \A u \in Turns : Spanned(u)'
                    /\ "crash" \in may => SavedSpan(disk)' /\ (saver.pc = "write" => SavedSpan(saver.raw)')
  BY <1>0, <1>1 DEF SpanInv
<1>2. ASSUME NEW a \in Agents, Sound(a)
      PROVE  mem'[a].survived <= proved'[a][gen']
  <2>1. mem[a].survived <= proved[a][gen] /\ gen \in Gens
    BY <1>2, StoresTyped DEF SpanInv
  <2>2. /\ mem[a].survived \in Int /\ proved[a][gen] \in Int /\ proved'[a][gen] \in Int
        /\ proved[a][gen] <= proved'[a][gen]
    BY <2>1, CountsTyped DEF ShapeInv, TypeOK
  <2> QED BY <2>1, <2>2
<1>3. \A a \in Agents : Sound(a) /\ mem'[a].taught /\ Knows(a, gen)' =>
          mem'[a].rests + Lag(a)' + learnt'[a][gen'] <= rests'[a] + mem'[a].restsAtTeach
  BY DEF SpanInv, Knows, Lag
<1>4. ASSUME NEW u \in Turns
      PROVE  Spanned(u)'
  <2>1. PICK b \in Agents : b = turn[u].agent
    BY StoresTyped
  <2>1a. mem[b].taught /\ Sound(b) => learnt'[b][gen] = learnt[b][gen]
    OBVIOUS
  <2>2. ASSUME Knows(b, gen), rests[b] <= proved[b][gen] + learnt[b][gen]
        PROVE  Knows(b, gen)' /\ rests[b] <= proved'[b][gen] + learnt'[b][gen]
    <3>1. gen \in Gens
      BY StoresTyped
    <3>2. learnt'[b][gen] = learnt[b][gen] /\ proved[b][gen] <= proved'[b][gen]
      BY <2>2, <3>1
    <3>3. /\ rests[b] \in Nat /\ learnt[b][gen] \in Int /\ proved[b][gen] \in Int
          /\ proved'[b][gen] \in Int
      BY <3>1, CountsTyped DEF ShapeInv, TypeOK
    <3> QED BY <2>2, <3>2, <3>3 DEF Knows
  <2>3. Spanned(u)
    BY DEF SpanInv
  <2>4. CASE u # t
    <3>1. turn'[u] = turn[u]
      BY <2>4 DEF StepOf
    <3> QED BY <1>0, <2>1, <2>2, <2>3, <3>1 DEF Spanned, Knows
  <2>5. CASE u = t /\ turn'[t].pc # "idle"
    <3>1. turn'[t].agent = b /\ turn'[t].kind = turn[t].kind /\ turn[t].pc # "idle"
      BY <2>1, <2>5 DEF StepOf, Live
    <3>2. Sound(b) /\ turn'[t].right =>
             Knows(b, gen)' /\ rests[b] <= proved'[b][gen] + learnt'[b][gen]
      BY <2>1, <2>2, <2>3, <2>5, <3>1 DEF Spanned, Knows
    <3> QED BY <1>0, <2>1, <2>3, <2>5, <3>1, <3>2 DEF Spanned, Knows
  <2> QED BY <2>4, <2>5 DEF Spanned
<1>5. ASSUME "crash" \in may, NEW s, SavedSpan(s), SavedKnown(s), s.gen \in Gens,
             \A a \in Agents : s.agents[a].survived \in Int
      PROVE  \A a \in Agents : Sound(a) =>
                /\ s.agents[a].taught =>
                      s.agents[a].rests + learnt'[a][s.gen] <= rests[a] + s.agents[a].restsAtTeach
                /\ s.agents[a].survived <= proved'[a][s.gen]
  <2> TAKE a \in Agents
  <2> HAVE Sound(a)
  <2>1. s.agents[a].taught => learnt'[a][s.gen] = learnt[a][s.gen]
    BY <1>5 DEF SavedKnown
  <2>2. s.agents[a].survived <= proved'[a][s.gen]
    <3>1. /\ s.agents[a].survived \in Int /\ proved[a][s.gen] \in Int /\ proved'[a][s.gen] \in Int
          /\ proved[a][s.gen] <= proved'[a][s.gen] /\ s.agents[a].survived <= proved[a][s.gen]
      BY <1>5, CountsTyped DEF ShapeInv, TypeOK, SavedSpan
    <3> QED BY <3>1
  <2> QED BY <1>5, <2>1, <2>2 DEF SavedSpan
<1>6. "crash" \in may => SavedSpan(disk)' /\ (saver.pc = "write" => SavedSpan(saver.raw)')
  <2>1. \A a \in Agents : disk.agents[a].survived \in Int /\ saver.raw.agents[a].survived \in Int
    BY CountsTyped, StoresTyped
  <2> QED BY <1>0, <1>5, <2>1, StoresTyped DEF SavedSpan, SpanInv, KnowledgeInv
<1> QED BY <1>2, <1>3, <1>4, <1>6

LEMMA RecordsKeepsSpan ==
    ASSUME ShapeInv, OrderInv, KnowledgeInv, SpanInv, NEW t \in Turns, TurnRecords(t)
    PROVE  SpanInv'
<1>1. /\ UNCHANGED <<gen, saver, disk, life, learnt, rests, proved, crossed, may>>
      /\ turn[t].pc = "record"
  BY DEF TurnRecords
<1>0. \A b \in Agents : Sound(b)' = Sound(b)
  BY <1>1, SoundStays
<1>2. PICK a \in Agents : a = turn[t].agent
  BY StoresTyped
<1>3. /\ \A b \in Agents : b # a => mem'[b] = mem[b]
      /\ mem'[a].rests = mem[a].rests
      /\ turn[t].kind = "taught" =>
            /\ mem'[a].taught = TRUE /\ mem'[a].restsAtTeach = mem[a].rests
            /\ mem'[a].survived = mem[a].survived
      /\ turn[t].kind # "taught" =>
            /\ mem'[a].taught = mem[a].taught /\ mem'[a].restsAtTeach = mem[a].restsAtTeach
            /\ \/ mem'[a].survived = mem[a].survived
               \/ turn[t].right /\ mem'[a].survived = mem[a].rests - mem[a].restsAtTeach
  BY <1>2, RecordsStore
<1>4. gen \in Gens /\ turn[t].kind \in {"taught", "recall"}
  BY StoresTyped
<1>5. \A b \in Agents : mem[b].taught => mem'[b].taught
  BY <1>3
<1> SUFFICES ASSUME "patience" \notin may
             PROVE  /\ \A b \in Agents : Sound(b) => mem'[b].survived <= proved[b][gen]
                    /\ \A b \in Agents : Sound(b) /\ mem'[b].taught /\ Knows(b, gen) =>
                           mem'[b].rests + Lag(b) + learnt[b][gen] <= rests[b] + mem'[b].restsAtTeach
                    /\ \A u \in Turns : Spanned(u)'
  BY <1>0, <1>1 DEF SpanInv, Knows, Lag, SavedSpan
<1>6. Busy(a) /\ Lag(a) = 0
  <2>1. Busy(a)
    BY <1>1, <1>2 DEF Busy
  <2> QED BY <2>1 DEF OrderInv, Apart, Awake, Lag
<1>7. Sound(a) =>
      /\ mem[a].survived <= proved[a][gen] /\ learnt[a][gen] <= rests[a]
      /\ mem[a].taught /\ Knows(a, gen) =>
             mem[a].rests + Lag(a) + learnt[a][gen] <= rests[a] + mem[a].restsAtTeach
      /\ turn[t].kind = "recall" => mem[a].taught
      /\ turn[t].right => Knows(a, gen) /\ rests[a] <= proved[a][gen] + learnt[a][gen]
  BY <1>1, <1>2, <1>4 DEF SpanInv, Spanned
<1>8. /\ rests[a] \in Nat /\ learnt[a][gen] \in Int /\ proved[a][gen] \in Int
      /\ mem[a].rests \in Nat /\ mem[a].restsAtTeach \in Nat /\ mem[a].survived \in Int
  BY <1>4, CountsTyped
<1>9. ASSUME Sound(a)
      PROVE  mem'[a].survived <= proved[a][gen]
  <2>1. CASE mem'[a].survived = mem[a].survived
    BY <1>7, <1>9, <2>1
  <2>2. CASE /\ turn[t].kind = "recall" /\ turn[t].right
             /\ mem'[a].survived = mem[a].rests - mem[a].restsAtTeach
    <3>1. /\ mem[a].rests + 0 + learnt[a][gen] <= rests[a] + mem[a].restsAtTeach
          /\ rests[a] <= proved[a][gen] + learnt[a][gen]
      BY <1>6, <1>7, <1>9, <2>2
    <3>2. mem[a].rests - mem[a].restsAtTeach <= proved[a][gen]
      BY <1>8, <3>1
    <3> QED BY <2>2, <3>2
  <2> QED BY <1>3, <1>4, <2>1, <2>2
<1>10. Sound(a) /\ mem'[a].taught /\ Knows(a, gen) =>
           mem'[a].rests + Lag(a) + learnt[a][gen] <= rests[a] + mem'[a].restsAtTeach
  <2>1. CASE turn[t].kind = "taught"
    <3>1. learnt[a][gen] <= rests[a]
      BY <1>4 DEF SpanInv
    <3>2. mem[a].rests + 0 + learnt[a][gen] <= rests[a] + mem[a].rests
      BY <1>8, <3>1
    <3> QED BY <1>3, <1>6, <2>1, <3>2
  <2>2. CASE turn[t].kind # "taught"
    BY <1>3, <1>7, <2>2
  <2> QED BY <2>1, <2>2
<1>11. ASSUME NEW u \in Turns
       PROVE  Spanned(u)'
  <2>1. CASE u = t
    BY <2>1, RecordsShape DEF Over, Live, Spanned
  <2>2. CASE u # t
    <3>1. turn'[u] = turn[u] /\ Spanned(u) /\ turn[u].agent \in Agents
      BY <2>2, RecordsShape, StoresTyped DEF StepOf, SpanInv
    <3> QED BY <1>0, <1>1, <1>5, <3>1 DEF Spanned, Knows
  <2> QED BY <2>1, <2>2
<1>12. \A b \in Agents : b # a /\ Sound(b) =>
           /\ mem'[b].survived <= proved[b][gen]
           /\ mem'[b].taught /\ Knows(b, gen) =>
                  mem'[b].rests + Lag(b) + learnt[b][gen] <= rests[b] + mem'[b].restsAtTeach
  BY <1>3 DEF SpanInv
<1> QED BY <1>9, <1>10, <1>11, <1>12

LEMMA TurnSpanStep ==
    ASSUME ShapeInv, ShapeInv', OrderInv, KnowledgeInv, SpanInv, NEW t \in Turns, Turn(t)
    PROVE  SpanInv'
<1>0. ASSUME UNCHANGED <<learnt, proved>>
      PROVE  \A b \in Agents, g \in Gens :
               /\ learnt'[b][g] = learnt[b][g] \/ (~Knows(b, g) /\ learnt'[b][g] = rests[b])
               /\ proved[b][g] <= proved'[b][g]
  BY <1>0, CountsTyped
<1>1. ASSUME NEW a \in Agents, TurnBegin(t, a)
      PROVE  SpanInv'
  <2>1. UNCHANGED <<gen, mem, saver, disk, life, learnt, rests, proved, crossed, may>>
    BY <1>1 DEF TurnBegin, store, sandbox
  <2>2. /\ turn'[t].agent = a /\ turn'[t].right = FALSE
        /\ turn'[t].kind = (IF mem[a].taught THEN "recall" ELSE "taught")
        /\ \A u \in Turns : u # t => turn'[u] = turn[u]
    BY <1>1, BeginShape
  <2>3. ASSUME "patience" \notin may, NEW u \in Turns
        PROVE  Spanned(u)'
    <3>1. CASE u = t
      BY <2>1, <2>2, <3>1 DEF Spanned
    <3>2. CASE u # t
      BY <2>1, <2>2, <2>3, <3>2 DEF Spanned, Sound, Overtaken, SpanInv, Knows
    <3> QED BY <3>1, <3>2
  <2> QED BY <2>1, <2>3 DEF SpanInv, Sound, Overtaken, Knows, Lag, SavedSpan
<1>2. CASE TurnResetSlot(t)
  <2>1. UNCHANGED <<gen, mem, saver, disk, life, learnt, rests, proved, crossed, may>>
    BY <1>2 DEF TurnResetSlot, store, sandbox
  <2> QED BY <1>0, <1>2, <2>1, ResetSlotShape, TurnKeepsSpan
<1>3. CASE TurnAttempt(t)
  <2>1. UNCHANGED <<gen, mem, saver, disk, life, learnt, rests, proved, crossed, may>>
    BY <1>3 DEF TurnAttempt, store
  <2> QED BY <1>0, <1>3, <2>1, AttemptShape, TurnKeepsSpan DEF Over, Live
<1>4. CASE TurnRetry(t)
  <2>1. UNCHANGED <<gen, mem, saver, disk, life, learnt, rests, proved, crossed, may>>
    BY <1>4 DEF TurnRetry, store
  <2> QED BY <1>0, <1>4, <2>1, RetryShape, TurnKeepsSpan DEF Over, Live
<1>5. CASE TurnGivesUp(t)
  <2>1. UNCHANGED <<gen, mem, saver, disk, life, learnt, rests, proved, crossed, may>>
    BY <1>5 DEF TurnGivesUp, store
  <2> QED BY <1>0, <1>5, <2>1, GivesUpShape, TurnKeepsSpan DEF Over, Live
<1>6. CASE TurnAnswered(t)
  <2>1. UNCHANGED <<gen, mem, saver, disk, life, learnt, rests, proved, crossed, may>>
    BY <1>6 DEF TurnAnswered, store, sandbox
  <2> QED BY <1>0, <1>6, <2>1, AnsweredShape, TurnKeepsSpan
<1>7. CASE TurnChecksSlot(t)
  <2>1. UNCHANGED <<gen, mem, saver, disk, life, learnt, rests, proved, crossed, may>>
    BY <1>7 DEF TurnChecksSlot, store
  <2> QED BY <1>0, <1>7, <2>1, ChecksSlotShape, TurnKeepsSpan DEF Over, Live
<1>8. CASE TurnRecords(t)
  BY <1>8, RecordsKeepsSpan
<1> QED BY <1>1, <1>2, <1>3, <1>4, <1>5, <1>6, <1>7, <1>8 DEF Turn

LEMMA HermesSpanStep ==
    ASSUME ShapeInv, ShapeInv', OrderInv, KnowledgeInv, SpanInv, NEW t \in Turns, Hermes(t)
    PROVE  SpanInv'
<1>0. ASSUME UNCHANGED <<learnt, proved>>
      PROVE  \A b \in Agents, g \in Gens :
               /\ learnt'[b][g] = learnt[b][g] \/ (~Knows(b, g) /\ learnt'[b][g] = rests[b])
               /\ proved[b][g] <= proved'[b][g]
  BY <1>0, CountsTyped
<1>1. CASE HermesReceives(t)
  <2>1. UNCHANGED <<gen, mem, saver, disk, life, learnt, rests, proved, crossed, may>>
    BY <1>1 DEF HermesReceives, driver, store
  <2> QED BY <1>0, <1>1, <2>1, ReceivesShape, TurnKeepsSpan
<1>2. CASE ModelAnswers(t)
  <2>1. UNCHANGED <<gen, mem, saver, disk, life, rests, crossed, may>>
    BY <1>2 DEF ModelAnswers, store
  <2>2. PICK a \in Agents : a = turn[t].agent
    BY StoresTyped
  <2>3. /\ StepOf(t) /\ hermes[t] = "working" /\ hermes'[t] = "relayed"
        /\ turn'[t].pc = turn[t].pc
        /\ turn'[t].right = turn[t].right \/ turn[t].kind = "recall"
    BY <1>2, AnswersShape
  <2>4. Sound(a) => turn[t].gen = gen /\ Grounded(t)
    BY <2>2, <2>3 DEF OrderInv, KnowledgeInv, Live, Sound
  <2>5. /\ \A b \in Agents, g \in Gens :
             /\ \/ learnt'[b][g] = learnt[b][g]
                \/ /\ ~Knows(b, g) /\ learnt'[b][g] = rests[b]
                   /\ b = a /\ g = turn[t].gen /\ turn[t].kind = "taught"
             /\ proved[b][g] <= proved'[b][g]
        /\ turn[t].kind = "recall" /\ turn'[t].right =>
             /\ Knows(a, turn[t].gen)
             /\ rests[a] - learnt[a][turn[t].gen] <= proved'[a][turn[t].gen]
    BY <1>2, <2>2, AnswersFacts
  <2>6. \A b \in Agents : Sound(b) /\ mem[b].taught => learnt'[b][gen] = learnt[b][gen]
    BY <2>2, <2>3, <2>4, <2>5, StoresTyped DEF Grounded, Live
  <2>7. ASSUME Sound(a), turn'[t].pc # "idle", turn'[t].right, ~turn[t].right
        PROVE  Knows(a, gen)' /\ rests[a] <= proved'[a][gen] + learnt'[a][gen]
    <3>1. turn[t].kind = "recall"
      BY <2>3, <2>7
    <3>2. Knows(a, gen) /\ rests[a] - learnt[a][gen] <= proved'[a][gen]
      BY <2>4, <2>5, <2>7, <3>1
    <3>3. learnt'[a][gen] = learnt[a][gen]
      BY <2>5, <3>1, StoresTyped
    <3>4. rests[a] \in Nat /\ learnt[a][gen] \in Int /\ proved'[a][gen] \in Int
      BY CountsTyped, StoresTyped DEF ShapeInv, TypeOK
    <3>5. rests[a] <= proved'[a][gen] + learnt[a][gen]
      BY <3>2, <3>4
    <3> QED BY <2>1, <3>2, <3>3, <3>5 DEF Knows
  <2>8. Sound(turn[t].agent) /\ turn'[t].pc # "idle" /\ turn'[t].right =>
               \/ turn[t].right
               \/ /\ Knows(turn[t].agent, gen)'
                  /\ rests[turn[t].agent]
                        <= proved'[turn[t].agent][gen] + learnt'[turn[t].agent][gen]
    <3>1. turn'[t].agent = a
      BY <2>2, <2>3 DEF StepOf, Live
    <3> QED BY <2>2, <2>7, <3>1 DEF Knows
  <2> HIDE <2>7
  <2> QED BY <2>1, <2>3, <2>5, <2>6, <2>8, TurnKeepsSpan
<1>3. CASE ModelFails(t)
  <2>1. UNCHANGED <<gen, mem, saver, disk, life, learnt, rests, proved, crossed, may>>
    BY <1>3 DEF ModelFails, store
  <2> QED BY <1>0, <1>3, <2>1, FailsShape, TurnKeepsSpan DEF Live
<1>4. CASE ProxyRecords(t)
  <2>1. UNCHANGED <<gen, mem, saver, disk, life, learnt, rests, proved, crossed, may>>
    BY <1>4 DEF ProxyRecords, store
  <2> QED BY <1>0, <1>4, <2>1, ProxyShape, TurnKeepsSpan DEF Live
<1> QED BY <1>1, <1>2, <1>3, <1>4 DEF Hermes

(* A step of the fleet that changes neither what Hermes knows nor what was  *)
(* right, and at most moves a rest from taken to counted.                   *)
LEMMA FleetKeepsSpan ==
    ASSUME ShapeInv, ShapeInv', SpanInv, NEW a \in Agents,
           UNCHANGED <<gen, disk, saver, crossed, may, turn, learnt, rests, proved>>,
           \A b \in Agents : /\ mem'[b].taught = mem[b].taught
                             /\ mem'[b].survived = mem[b].survived
                             /\ mem'[b].restsAtTeach = mem[b].restsAtTeach
                             /\ mem'[b].rests + Lag(b)' <= mem[b].rests + Lag(b)
    PROVE  SpanInv'
<1>1. ASSUME "patience" \notin may, NEW b \in Agents, Sound(b), mem'[b].taught, Knows(b, gen)'
      PROVE  mem'[b].rests + Lag(b)' + learnt'[b][gen'] <= rests'[b] + mem'[b].restsAtTeach
  <2>1. mem[b].rests + Lag(b) + learnt[b][gen] <= rests[b] + mem[b].restsAtTeach
    BY <1>1 DEF SpanInv, Knows
  <2>2. /\ mem[b].rests \in Nat /\ mem[b].restsAtTeach \in Nat /\ rests[b] \in Nat
        /\ mem'[b].rests \in Nat /\ Lag(b) \in {0, 1} /\ learnt[b][gen] \in Int
    BY CountsTyped, StoresTyped DEF ShapeInv, TypeOK, Entry
  <2>3. Lag(b)' \in {0, 1}
    BY DEF Lag
  <2>4. mem'[b].rests + Lag(b)' <= mem[b].rests + Lag(b)
    OBVIOUS
  <2> QED BY <2>1, <2>2, <2>3, <2>4
<1>2. ASSUME "patience" \notin may, NEW t \in Turns
      PROVE  Spanned(t)'
  <2>1. Spanned(t) /\ turn[t].agent \in Agents
    BY <1>2, StoresTyped DEF SpanInv
  <2> QED BY <2>1 DEF Spanned, Knows, Sound, Overtaken
<1> QED BY <1>1, <1>2 DEF SpanInv, Sound, Overtaken, SavedSpan

LEMMA FleetSpanStep ==
    ASSUME ShapeInv, ShapeInv', OrderInv, KnowledgeInv, SpanInv, NEW a \in Agents, Fleet(a)
    PROVE  SpanInv'
<1>0. /\ life \in [Agents -> {"running", "marked", "checkpointed", "rested", "recreated"}]
      /\ mem \in [Agents -> Entry] /\ rests \in [Agents -> 0..MaxRests]
      /\ learnt \in [Agents -> [Gens -> Int]]
      /\ \A b \in Agents : mem[b].rests \in Nat /\ mem[b] \in Entry
  BY DEF ShapeInv, TypeOK, Entry
<1>1. CASE RestMark(a)
  <2>1. /\ life' = [life EXCEPT ![a] = "marked"] /\ life[a] = "running"
        /\ UNCHANGED <<gen, mem, disk, saver, crossed, may, turn, learnt, rests, proved>>
    BY <1>1 DEF RestMark, driver, sandbox, store
  <2>2. \A b \in Agents : Lag(b)' = Lag(b)
    BY <1>0, <2>1 DEF Lag
  <2>3. \A b \in Agents : mem'[b].rests + Lag(b)' <= mem[b].rests + Lag(b)
    BY <1>0, <2>1, <2>2 DEF Lag
  <2> QED BY <2>1, <2>3, FleetKeepsSpan
<1>2. CASE Checkpoint(a)
  <2>1. /\ life[a] = "marked" /\ (Busy(a) => "patience" \in may)
        /\ rests' = [rests EXCEPT ![a] = @ + 1]
        /\ life' = [life EXCEPT ![a] = "checkpointed"]
        /\ UNCHANGED <<gen, mem, disk, saver, crossed, may, turn, learnt, proved>>
    BY <1>2 DEF Checkpoint, driver, store
  <2>2. /\ \A b \in Agents : b # a => rests'[b] = rests[b] /\ Lag(b)' = Lag(b)
        /\ rests'[a] = rests[a] + 1 /\ Lag(a) = 0 /\ Lag(a)' = 1
    BY <1>0, <2>1 DEF Lag
  <2>3. \A b \in Agents : rests[b] \in Nat /\ rests'[b] \in Nat /\ rests[b] <= rests'[b]
    BY <1>0, <2>2, Bounds
  <2>4. \A b \in Agents, g \in Gens : learnt[b][g] <= rests'[b] /\ 0 <= proved[b][g]
    BY <1>0, <2>3 DEF SpanInv
  <2>5. ASSUME "patience" \notin may, NEW b \in Agents, Sound(b), mem[b].taught, Knows(b, gen)
        PROVE  mem[b].rests + Lag(b)' + learnt[b][gen] <= rests'[b] + mem[b].restsAtTeach
    <3>1. mem[b].rests + Lag(b) + learnt[b][gen] <= rests[b] + mem[b].restsAtTeach
      BY <2>5 DEF SpanInv
    <3>2. CASE b # a
      BY <2>2, <3>1, <3>2
    <3>3. CASE b = a
      <4>1. /\ mem[a].rests \in Nat /\ mem[a].restsAtTeach \in Nat /\ rests[a] \in Nat
            /\ learnt[a][gen] \in Int
        BY CountsTyped, StoresTyped
      <4>2. mem[a].rests + 0 + learnt[a][gen] <= rests[a] + mem[a].restsAtTeach
        BY <2>2, <3>1, <3>3
      <4>3. mem[a].rests + 1 + learnt[a][gen] <= rests[a] + 1 + mem[a].restsAtTeach
        BY <4>1, <4>2
      <4> QED BY <2>2, <3>3, <4>3
    <3> QED BY <3>2, <3>3
  <2>6. ASSUME "patience" \notin may, NEW t \in Turns
        PROVE  Spanned(t)'
    <3>1. Spanned(t) /\ turn[t].agent \in Agents
      BY <2>6, StoresTyped DEF SpanInv
    <3>2. turn[t].pc # "idle" => turn[t].agent # a
      BY <2>1, <2>6 DEF Busy
    <3> QED BY <2>1, <2>2, <3>1, <3>2 DEF Spanned, Knows, Sound, Overtaken
  <2>7. ASSUME NEW s, SavedSpan(s), s.gen \in Gens,
               \A b \in Agents : s.agents[b].rests \in Nat /\ s.agents[b].restsAtTeach \in Nat
        PROVE  \A b \in Agents : Sound(b) =>
                  /\ s.agents[b].taught =>
                        s.agents[b].rests + learnt[b][s.gen] <= rests'[b] + s.agents[b].restsAtTeach
                  /\ s.agents[b].survived <= proved[b][s.gen]
    <3> TAKE b \in Agents
    <3> HAVE Sound(b)
    <3>1. /\ s.agents[b].rests \in Nat /\ s.agents[b].restsAtTeach \in Nat
          /\ learnt[b][s.gen] \in Int
      BY <1>0, <2>7
    <3>2. ASSUME s.agents[b].taught
          PROVE  s.agents[b].rests + learnt[b][s.gen] <= rests'[b] + s.agents[b].restsAtTeach
      <4>1. s.agents[b].rests + learnt[b][s.gen] <= rests[b] + s.agents[b].restsAtTeach
        BY <2>7, <3>2 DEF SavedSpan
      <4> QED BY <2>3, <3>1, <4>1
    <3> QED BY <2>7, <3>2 DEF SavedSpan
  <2>8. \A b \in Agents : /\ disk.agents[b].rests \in Nat /\ disk.agents[b].restsAtTeach \in Nat
                          /\ saver.raw.agents[b].rests \in Nat
                          /\ saver.raw.agents[b].restsAtTeach \in Nat
    BY CountsTyped, StoresTyped
  <2>9. (SavedSpan(disk) => SavedSpan(disk)') /\ (SavedSpan(saver.raw) => SavedSpan(saver.raw)')
    BY <2>1, <2>7, <2>8, StoresTyped, SoundStays DEF SavedSpan
  <2> HIDE <2>7
  <2> QED BY <2>1, <2>4, <2>5, <2>6, <2>9 DEF SpanInv, Sound, Overtaken, Knows
<1>3. CASE memRested(a)
  <2>1. /\ life' = [life EXCEPT ![a] = "rested"] /\ life[a] = "checkpointed"
        /\ mem' = [mem EXCEPT ![a].rests = @ + 1]
        /\ UNCHANGED <<gen, disk, saver, crossed, may, turn, learnt, rests, proved>>
    BY <1>3 DEF memRested, sandbox
  <2>2. /\ \A b \in Agents : b # a => mem'[b] = mem[b] /\ Lag(b)' = Lag(b)
        /\ Lag(a) = 1 /\ Lag(a)' = 0
    BY <1>0, <2>1 DEF Lag
  <2>3. /\ mem'[a].taught = mem[a].taught /\ mem'[a].survived = mem[a].survived
        /\ mem'[a].restsAtTeach = mem[a].restsAtTeach /\ mem'[a].rests = mem[a].rests + 1
    BY <1>0, <2>1 DEF Entry
  <2>4. \A b \in Agents : mem'[b].rests + Lag(b)' <= mem[b].rests + Lag(b)
    <3> TAKE b \in Agents
    <3>1. CASE b = a
      <4>1. mem[a].rests + 1 + 0 <= mem[a].rests + 1
        BY <1>0
      <4> QED BY <2>2, <2>3, <3>1, <4>1
    <3>2. CASE b # a
      BY <1>0, <2>2, <3>2 DEF Lag
    <3> QED BY <3>1, <3>2
  <2> QED BY <2>1, <2>2, <2>3, <2>4, FleetKeepsSpan
<1>4. CASE memWoke(a)
  <2>1. /\ life' = [life EXCEPT ![a] = "running"] /\ life[a] = "rested"
        /\ UNCHANGED <<gen, mem, disk, saver, crossed, may, turn, learnt, rests, proved>>
    BY <1>4 DEF memWoke, sandbox
  <2>2. \A b \in Agents : mem'[b].rests + Lag(b)' <= mem[b].rests + Lag(b)
    BY <1>0, <2>1 DEF Lag
  <2> QED BY <2>1, <2>2, FleetKeepsSpan
<1>5. CASE Recreate(a)
  <2>1. /\ learnt' = [learnt EXCEPT ![a] = [g \in Gens |-> Unknown]]
        /\ turn' = [t \in Turns |-> IF turn[t].agent = a THEN Quiet ELSE turn[t]]
        /\ life' = [life EXCEPT ![a] = "recreated"] /\ life[a] = "rested" /\ "recreate" \in may
        /\ UNCHANGED <<gen, mem, disk, saver, crossed, may, rests, proved>>
    BY <1>5 DEF Recreate, store
  <2>2. /\ \A b \in Agents : b # a => learnt'[b] = learnt[b] /\ Lag(b)' = Lag(b)
        /\ \A g \in Gens : learnt'[a][g] = Unknown
    BY <1>0, <2>1 DEF Lag
  <2>3. \A b \in Agents, g \in Gens : learnt'[b][g] <= rests[b] /\ 0 <= proved[b][g]
    BY <1>0, <2>2, Bounds DEF SpanInv, Unknown
  <2>4. \A t \in Turns : turn'[t].pc = "idle" \/ (turn'[t] = turn[t] /\ turn[t].agent # a)
    BY <2>1, ShapeTyped DEF Quiet
  <2>5. ASSUME "patience" \notin may, NEW t \in Turns
        PROVE  Spanned(t)'
    <3>1. Spanned(t) /\ turn[t].agent \in Agents
      BY <2>5, StoresTyped DEF SpanInv
    <3> QED BY <2>1, <2>2, <2>4, <3>1 DEF Spanned, Knows, Sound, Overtaken
  <2>6. \A b \in Agents : Sound(b) /\ "patience" \notin may /\ mem[b].taught /\ Knows(b, gen)' =>
            mem[b].rests + Lag(b)' + learnt'[b][gen] <= rests[b] + mem[b].restsAtTeach
    BY <2>1, <2>2, StoresTyped DEF SpanInv, Knows
  <2>7. "crash" \in may => \A b \in Agents : ~Sound(b)
    BY <2>1 DEF Sound, Overtaken
  <2>8. \A b \in Agents : Sound(b)' = Sound(b)
    BY <2>1, SoundStays
  <2> QED BY <2>1, <2>3, <2>5, <2>6, <2>7, <2>8 DEF SpanInv, SavedSpan
<1>6. CASE memForget(a)
  <2>1. /\ life' = [life EXCEPT ![a] = "rested"] /\ mem' = [mem EXCEPT ![a] = fresh]
        /\ life[a] = "recreated"
        /\ UNCHANGED <<gen, saver, disk, crossed, may, turn, hermes, learnt, rests, proved>>
    BY <1>6 DEF memForget, sandbox
  <2>2. /\ \A b \in Agents : b # a => mem'[b] = mem[b] /\ Lag(b)' = Lag(b)
        /\ ~mem'[a].taught /\ mem'[a].survived = 0
    BY <1>0, <2>1 DEF Lag, fresh
  <2>3. ASSUME "patience" \notin may, NEW t \in Turns
        PROVE  Spanned(t)'
    <3>1. Spanned(t) /\ turn[t].agent \in Agents
      BY <2>3, StoresTyped DEF SpanInv
    <3>2. turn[t].pc # "idle" => turn[t].agent # a
      BY <2>1, <2>3 DEF OrderInv, Apart, Live
    <3> QED BY <2>1, <2>2, <3>1, <3>2 DEF Spanned, Knows, Sound, Overtaken
  <2>4. ASSUME "patience" \notin may, NEW b \in Agents, Sound(b)
        PROVE  /\ mem'[b].survived <= proved[b][gen]
               /\ mem'[b].taught /\ Knows(b, gen) =>
                      mem'[b].rests + Lag(b)' + learnt[b][gen] <= rests[b] + mem'[b].restsAtTeach
    BY <2>2, <2>4, StoresTyped DEF SpanInv
  <2> QED BY <2>1, <2>3, <2>4 DEF SpanInv, Sound, Overtaken, Knows, SavedSpan
<1>7. CASE RecreateFails(a)
  <2>1. /\ life' = [life EXCEPT ![a] = "rested"] /\ life[a] = "recreated"
        /\ UNCHANGED <<gen, mem, saver, disk, crossed, may, turn, learnt, rests, proved>>
    BY <1>7 DEF RecreateFails, driver, sandbox, store
  <2>2. \A b \in Agents : mem'[b].rests + Lag(b)' <= mem[b].rests + Lag(b)
    BY <1>0, <2>1 DEF Lag
  <2> QED BY <2>1, <2>2, FleetKeepsSpan
<1> QED BY <1>1, <1>2, <1>3, <1>4, <1>5, <1>6, <1>7 DEF Fleet

LEMMA StoreSpanStep ==
    ASSUME ShapeInv, ShapeInv', OrderInv, KnowledgeInv, SpanInv,
           SaveSnapshot \/ SaveFile \/ ResetCheck \/ memReset \/ Restart
    PROVE  SpanInv'
<1>1. CASE SaveSnapshot
  <2>1. /\ saver' = [pc |-> "write", raw |-> [gen |-> gen, agents |-> mem]]
        /\ UNCHANGED <<gen, mem, turn, learnt, rests, proved, life, disk, crossed, may>>
    BY <1>1 DEF SaveSnapshot, sandbox
  <2>2. saver'.raw.gen = gen /\ saver'.raw.agents = mem
    BY <2>1
  <2>3. ASSUME "patience" \notin may, "crash" \in may, NEW b \in Agents, Sound(b), mem[b].taught
        PROVE  mem[b].rests + learnt[b][gen] <= rests[b] + mem[b].restsAtTeach
    <3>1. "recreate" \notin may /\ life[b] # "recreated"
      BY <2>3 DEF OrderInv, Apart, Sound, Overtaken
    <3>2. Knows(b, gen)
      BY <2>3, <3>1 DEF KnowledgeInv, Aware
    <3>3. mem[b].rests + Lag(b) + learnt[b][gen] <= rests[b] + mem[b].restsAtTeach
      BY <2>3, <3>2 DEF SpanInv
    <3>4. /\ mem[b].rests \in Nat /\ mem[b].restsAtTeach \in Nat /\ rests[b] \in Nat
          /\ learnt[b][gen] \in Int /\ Lag(b) \in {0, 1}
      BY CountsTyped, StoresTyped
    <3> QED BY <3>3, <3>4
  <2>5. \A b \in Agents : Sound(b)' = Sound(b)
    BY <2>1, SoundStays
  <2>6. "patience" \notin may /\ "crash" \in may => SavedSpan(saver.raw)'
    BY <2>1, <2>2, <2>3, <2>5 DEF SavedSpan, SpanInv
  <2>4. ASSUME "patience" \notin may, NEW t \in Turns
        PROVE  Spanned(t)'
    BY <2>1, <2>4 DEF Spanned, Sound, Overtaken, SpanInv, Knows
  <2> QED BY <2>1, <2>4, <2>5, <2>6 DEF SpanInv, Knows, Lag, SavedSpan
<1>2. CASE SaveFile
  <2>1. /\ saver' = [pc |-> "idle", raw |-> noFile] /\ saver.pc = "write"
        /\ disk' = saver.raw \/ disk' = disk
        /\ UNCHANGED <<gen, mem, turn, learnt, rests, proved, life, crossed, may>>
    BY <1>2 DEF SaveFile, sandbox, store
  <2>2. ASSUME "patience" \notin may, NEW t \in Turns
        PROVE  Spanned(t)'
    BY <2>1, <2>2 DEF Spanned, Sound, Overtaken, SpanInv, Knows
  <2>3. ASSUME "patience" \notin may, "crash" \in may
        PROVE  SavedSpan(disk)'
    BY <2>1, <2>3, SoundStays DEF SpanInv, SavedSpan
  <2> QED BY <2>1, <2>2, <2>3 DEF SpanInv, Sound, Overtaken, Knows, Lag
<1>3. CASE ResetCheck
  <2>1. UNCHANGED <<gen, mem, saver, turn, learnt, rests, proved, life, disk, crossed, may>>
    BY <1>3 DEF ResetCheck, sandbox, store
  <2>2. ASSUME "patience" \notin may, NEW t \in Turns
        PROVE  Spanned(t)'
    BY <2>1, <2>2 DEF Spanned, Sound, Overtaken, SpanInv, Knows
  <2> QED BY <2>1, <2>2 DEF SpanInv, Sound, Overtaken, Knows, Lag, SavedSpan
<1>4. CASE memReset
  <2>1. /\ mem' = [a \in Agents |-> [fresh EXCEPT !.rests = mem[a].rests]]
        /\ crossed \subseteq crossed'
        /\ UNCHANGED <<saver, disk, learnt, rests, proved, turn, life, may>>
    BY <1>4 DEF memReset, sandbox
  <2>2. \A t \in Turns : Spanned(t)'
    BY <1>4, <2>1, ResetCrosses DEF Live, Spanned, Sound
  <2>3. \A b \in Agents : ~mem'[b].taught /\ mem'[b].survived = 0
    BY <2>1 DEF fresh
  <2>4. gen' \in Gens
    BY DEF ShapeInv, TypeOK
  <2>5. \A b \in Agents : Sound(b)' => Sound(b)
    BY <2>1 DEF Sound, Overtaken
  <2>6. (SavedSpan(disk) => SavedSpan(disk)') /\ (SavedSpan(saver.raw) => SavedSpan(saver.raw)')
    BY <2>1, <2>5 DEF SavedSpan
  <2> QED BY <2>1, <2>2, <2>3, <2>4, <2>6 DEF SpanInv
<1>5. CASE Restart
  <2>1. /\ gen' = disk.gen /\ mem' = disk.agents /\ "crash" \in may
        /\ saver' = [pc |-> "idle", raw |-> noFile]
        /\ life' = [a \in Agents |-> IF Awake(a) THEN "running" ELSE "rested"]
        /\ UNCHANGED <<disk, learnt, rests, proved, may>>
    BY <1>5 DEF Restart
  <2>2. /\ \A t \in Turns : turn'[t].pc = "idle"
        /\ \A b \in Agents : Sound(b)' => Sound(b)
    BY <1>5, Restarted, RestartCrosses
  <2>3. \A b \in Agents : Lag(b)' = 0
    BY <2>1 DEF Lag
  <2>4. ASSUME "patience" \notin may, NEW b \in Agents, Sound(b)'
        PROVE  /\ mem'[b].survived <= proved[b][gen']
               /\ mem'[b].taught => mem'[b].rests + 0 + learnt[b][gen'] <= rests[b] + mem'[b].restsAtTeach
    <3>1. /\ disk.agents[b].taught =>
                 disk.agents[b].rests + learnt[b][disk.gen] <= rests[b] + disk.agents[b].restsAtTeach
          /\ disk.agents[b].survived <= proved[b][disk.gen]
      BY <2>1, <2>2, <2>4 DEF SpanInv, SavedSpan
    <3>2. disk.agents[b].rests + 0 = disk.agents[b].rests
      BY CountsTyped, StoresTyped
    <3> QED BY <2>1, <3>1, <3>2
  <2>5. "patience" \notin may => SavedSpan(disk)'
    BY <2>1, <2>2 DEF SpanInv, SavedSpan
  <2> QED BY <2>1, <2>2, <2>3, <2>4, <2>5 DEF SpanInv, Spanned
<1> QED BY <1>1, <1>2, <1>3, <1>4, <1>5

LEMMA SpanInit == Init => SpanInv
<1> SUFFICES ASSUME Init PROVE SpanInv
  OBVIOUS
<1>1. \A t \in Turns : turn[t].pc = "idle"
  BY DEF Init, Quiet
<1>2. \A a \in Agents : /\ ~mem[a].taught /\ mem[a].survived = 0
                        /\ ~disk.agents[a].taught /\ disk.agents[a].survived = 0
  BY DEF Init, noFile, fresh
<1>3. saver.pc = "idle" /\ gen \in Gens /\ disk.gen \in Gens
  BY ShapeInit, StoresTyped DEF Init
<1>4. \A a \in Agents, g \in Gens : learnt[a][g] = -1 /\ rests[a] = 0 /\ proved[a][g] = 0
  BY DEF Init, Unknown
<1> QED BY <1>1, <1>2, <1>3, <1>4 DEF SpanInv, Spanned, SavedSpan

LEMMA SpanStep ==
    ShapeInv /\ ShapeInv' /\ OrderInv /\ KnowledgeInv /\ SpanInv /\ [Next]_vars => SpanInv'
<1> SUFFICES ASSUME ShapeInv, ShapeInv', OrderInv, KnowledgeInv, SpanInv, [Next]_vars
             PROVE  SpanInv'
  OBVIOUS
<1>1. CASE UNCHANGED vars
  <2>1. UNCHANGED <<gen, mem, saver, turn, learnt, rests, proved, life, disk, crossed, may>>
    BY <1>1 DEF vars, driver, sandbox, store
  <2>2. ASSUME "patience" \notin may, NEW t \in Turns
        PROVE  Spanned(t)'
    BY <2>1, <2>2 DEF Spanned, Sound, Overtaken, SpanInv, Knows
  <2> QED BY <2>1, <2>2 DEF SpanInv, Sound, Overtaken, Knows, Lag, SavedSpan
<1> QED BY <1>1, TurnSpanStep, HermesSpanStep, FleetSpanStep, StoreSpanStep DEF Next

(* The dashboard never claims more survived rests than an agent went        *)
(* through between learning its codename and recalling it, for any number   *)
(* of agents and joined turns and resets at any moment (main.go:3096),      *)
(* unless a turn of the agent crossed a change of the generation, an agent  *)
(* is checkpointed during a turn or what Overtaken names comes together.    *)
THEOREM SurvivedRestsAreReal == Spec => []SurvivedHonest
<1>1. SpanInv => SurvivedHonest
  BY DEF SpanInv, SurvivedHonest, Sound
<1> QED BY ShapeInit, ShapeStep, OrderInit, OrderStep, KnowledgeInit, KnowledgeStep, SpanInit, SpanStep,
        <1>1, PTL DEF Spec
=============================================================================
