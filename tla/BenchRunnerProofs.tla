------------------------- MODULE BenchRunnerProofs -------------------------
(* Proofs about BenchRunner, for every script and any number of cells, reruns *)
(* and faults, and any scripts side by side that SideBySide allows.          *)
EXTENDS BenchRunner, SequenceTheorems, TLAPS

ByTitles(c) == P(c).kills.by = "title"

(* A process is one of an attempt at a cell of a plan, and sends to the       *)
(* router of that cell.                                                      *)
ProcsInv == \A p \in procs : /\ p.id[3] \in DOMAIN P(p.id[1]).plan
                             /\ p.router = P(p.id[1]).plan[p.id[3]].router
CellInv == \A c \in Running : cell[c] \in DOMAIN P(c).plan

(* From the cleanup on, no client but the cell's own sends to its router.    *)
MeasuredPcs == {"reset", "drain", "launch", "run", "expired", "stats"}
OwnRouterInv ==
    \A c \in Running : pc[c] \in MeasuredPcs =>
        \A p \in procs : p.router = Cell(c).router =>
            \/ p.id = Id(c)
            \/ P(c).kills.by = "port" /\ p.kind = "worker"
            \/ P(c).kills.by = "nothing"

(* With the cleanup by title no process is left before the start, none but    *)
(* the cell's own after it, and not the one that writes once it returned.    *)
EmptyPcs == {"reset", "drain", "launch"}
AfterPcs == {"expired", "stats", "merge", "report"}
AloneInv ==
    \A c \in Running : ByTitles(c) =>
        /\ pc[c] \in EmptyPcs => procs = {}
        /\ pc[c] \in {"run"} \cup AfterPcs => \A p \in procs : p.id = Id(c)
        /\ pc[c] \in AfterPcs => \A p \in procs : p.kind = "worker"

(* What the router counts, GET /stats returns and the export gets is the      *)
(* cell's own.                                                               *)
CountedInv ==
    \A c \in Running : ByTitles(c) =>
        /\ pc[c] \in {"drain", "launch", "run", "expired", "stats"} =>
             counted[Cell(c).router] \subseteq {Id(c)}
        /\ pc[c] = "merge" => got[c] \subseteq {Id(c)}
        /\ pc[c] = "report" => \/ disk[Cell(c).tag].export \in {None, Torn}
                               \/ disk[Cell(c).tag].stats.of \subseteq {Id(c)}

(* In an emptied directory only the cell's own client writes.                *)
WipedInv ==
    \A c \in Running : P(c).cell.wipes /\ pc[c] \in {"run"} \cup AfterPcs =>
        /\ disk[Cell(c).tag].export \in {None, Id(c)}
        /\ disk[Cell(c).tag].metrics \in {None, Id(c)}

(* An empty engine stays empty until the start.                              *)
DrainInv ==
    \A c \in Running : P(c).cell.drains /\ pc[c] = "launch" => gave[c] \/ engine = {}

(* The files of a result directory, and the lines.                           *)
FilesInv == /\ disk \in [Tags -> [export : Ids \cup {None, Torn},
                                  stats : [by : Ids, of : SUBSET Ids] \cup {None},
                                  metrics : Ids \cup {None}]]
            /\ DOMAIN line = Running

-----------------------------------------------------------------------------
(* What every script has in common.                                          *)
IsPlan(s) == \E S : /\ s \in Seq(S) /\ s # <<>>
                    /\ \A x \in S : x.router \in Routers

(* A loop over concurrencies is a part of a plan.                            *)
LEMMA SweepIsPlan ==
    ASSUME NEW name, NEW router \in Routers, NEW stage, NEW concs \in Seq(Nat), concs # <<>>
    PROVE  IsPlan(Sweep(name, router, stage, concs))
<1> DEFINE S == {[tag |-> <<name, k>>, router |-> router, stage |-> stage, conc |-> k] : k \in Nat}
<1>1. /\ Len(concs) \in Nat \ {0} /\ DOMAIN concs = 1..Len(concs)
      /\ \A i \in 1..Len(concs) : concs[i] \in Nat
  BY EmptySeq, LenProperties, ElementOfSeq
<1>2. PICK sweep : sweep = Sweep(name, router, stage, concs)
  OBVIOUS
<1>3. sweep \in [1..Len(concs) -> S]
  BY <1>1, <1>2 DEF Sweep
<1>4. sweep \in Seq(S)
  <2>1. Seq(S) = UNION {[1..n -> S] : n \in Nat}
    BY SeqDef
  <2> HIDE DEF S
  <2> QED
    BY <1>1, <1>3, <2>1
<1>5. 1 \in DOMAIN sweep
  BY <1>1, <1>2 DEF Sweep
<1>6. sweep # <<>>
  BY <1>5
<1>7. \A x \in S : x.router \in Routers
  OBVIOUS
<1> HIDE DEF S
<1> QED
  BY <1>2, <1>4, <1>6, <1>7 DEF IsPlan

(* So are two parts in a row.                                                *)
LEMMA PlansConcat ==
    ASSUME NEW s, NEW t, IsPlan(s), IsPlan(t)
    PROVE  IsPlan(s \o t)
<1>1. PICK S : s \in Seq(S) /\ s # <<>> /\ \A x \in S : x.router \in Routers
  BY DEF IsPlan
<1>2. PICK T : t \in Seq(T) /\ t # <<>> /\ \A x \in T : x.router \in Routers
  BY DEF IsPlan
<1>3. s \in Seq(S \cup T) /\ t \in Seq(S \cup T)
  BY <1>1, <1>2, SeqMonotonic
<1>4. s \o t \in Seq(S \cup T) /\ s \o t # <<>>
  BY <1>1, <1>3, ConcatProperties, ConcatEqualIffEmpty
<1>5. \A x \in S \cup T : x.router \in Routers
  BY <1>1, <1>2
<1> QED
  BY <1>4, <1>5 DEF IsPlan

(* The loops of the scripts.                                                 *)
LoopsPlanned(name, router, stage) ==
    /\ IsPlan(Sweep(name, router, stage, <<8>>))
    /\ IsPlan(Sweep(name, router, stage, <<256>>))
    /\ IsPlan(Sweep(name, router, stage, <<2, 8>>))
    /\ IsPlan(Sweep(name, router, stage, <<8, 16>>))
    /\ IsPlan(Sweep(name, router, stage, <<64, 128>>))
    /\ IsPlan(Sweep(name, router, stage, <<16, 64, 128>>))
    /\ IsPlan(Sweep(name, router, stage, <<32, 64, 128>>))
    /\ IsPlan(Sweep(name, router, stage, <<64, 128, 256>>))
    /\ IsPlan(Sweep(name, router, stage, <<16, 32, 64, 128>>))
    /\ IsPlan(Sweep(name, router, stage, <<8, 16, 32, 64, 128>>))
    /\ IsPlan(Sweep(name, router, stage, <<16, 32, 64, 128, 256>>))
    /\ IsPlan(Sweep(name, router, stage, <<2, 8, 16, 32, 64, 128>>))
    /\ IsPlan(Sweep(name, router, stage, <<8, 16, 32, 64, 128, 256>>))
    /\ IsPlan(Sweep(name, router, stage, <<1, 4, 8, 16, 32, 64, 128>>))
    /\ IsPlan(Sweep(name, router, stage, <<2, 8, 16, 32, 64, 128, 256>>))
LEMMA LoopsArePlans ==
    ASSUME NEW name, NEW router \in Routers, NEW stage
    PROVE  LoopsPlanned(name, router, stage)
<1> DEFINE Loops == Seq(Nat) \ {<<>>}
           Planned(concs) == IsPlan(Sweep(name, router, stage, concs))
<1>1. \A concs \in Loops : Planned(concs)
  BY SweepIsPlan
<1>2. /\ <<8>> \in Loops /\ <<256>> \in Loops /\ <<2, 8>> \in Loops
      /\ <<8, 16>> \in Loops /\ <<64, 128>> \in Loops
  OBVIOUS
<1>3. /\ <<16, 64, 128>> \in Loops /\ <<32, 64, 128>> \in Loops /\ <<64, 128, 256>> \in Loops
      /\ <<16, 32, 64, 128>> \in Loops /\ <<8, 16, 32, 64, 128>> \in Loops
  OBVIOUS
<1>4. /\ <<16, 32, 64, 128, 256>> \in Loops /\ <<2, 8, 16, 32, 64, 128>> \in Loops
      /\ <<8, 16, 32, 64, 128, 256>> \in Loops /\ <<1, 4, 8, 16, 32, 64, 128>> \in Loops
      /\ <<2, 8, 16, 32, 64, 128, 256>> \in Loops
  OBVIOUS
<1>5. SUFFICES /\ Planned(<<8>>) /\ Planned(<<256>>) /\ Planned(<<2, 8>>) /\ Planned(<<8, 16>>)
               /\ Planned(<<64, 128>>) /\ Planned(<<16, 64, 128>>) /\ Planned(<<32, 64, 128>>)
               /\ Planned(<<64, 128, 256>>) /\ Planned(<<16, 32, 64, 128>>)
               /\ Planned(<<8, 16, 32, 64, 128>>) /\ Planned(<<16, 32, 64, 128, 256>>)
               /\ Planned(<<2, 8, 16, 32, 64, 128>>) /\ Planned(<<8, 16, 32, 64, 128, 256>>)
               /\ Planned(<<1, 4, 8, 16, 32, 64, 128>>) /\ Planned(<<2, 8, 16, 32, 64, 128, 256>>)
  BY Zenon DEF LoopsPlanned
<1> HIDE DEF Loops, Planned
<1>6. /\ Planned(<<8>>) /\ Planned(<<256>>) /\ Planned(<<2, 8>>)
      /\ Planned(<<8, 16>>) /\ Planned(<<64, 128>>)
  BY <1>1, <1>2, Zenon
<1>7. /\ Planned(<<16, 64, 128>>) /\ Planned(<<32, 64, 128>>) /\ Planned(<<64, 128, 256>>)
      /\ Planned(<<16, 32, 64, 128>>) /\ Planned(<<8, 16, 32, 64, 128>>)
  BY <1>1, <1>3, Zenon
<1>8. /\ Planned(<<16, 32, 64, 128, 256>>) /\ Planned(<<2, 8, 16, 32, 64, 128>>)
      /\ Planned(<<8, 16, 32, 64, 128, 256>>) /\ Planned(<<1, 4, 8, 16, 32, 64, 128>>)
      /\ Planned(<<2, 8, 16, 32, 64, 128, 256>>)
  BY <1>1, <1>4, Zenon
<1> QED
  BY <1>6, <1>7, <1>8, Zenon

(* The plans of the scripts.                                                 *)
LEMMA PlansArePlans ==
    /\ IsPlan(Llmd14Plan) /\ IsPlan(Dynamo14Plan) /\ IsPlan(Llmd45Plan) /\ IsPlan(Dynamo45Plan)
    /\ IsPlan(RemainingPlan) /\ IsPlan(SequentialPlan) /\ IsPlan(UpgradedPlan)
    /\ IsPlan(GlmLlmd14Plan) /\ IsPlan(GlmDynamo14Plan) /\ IsPlan(GlmLlmd45Plan)
    /\ IsPlan(GlmDynamo15Plan) /\ IsPlan(GlmUpgradedDynamoPlan) /\ IsPlan(GlmUpgradedLlmdPlan)
    /\ IsPlan(KimiDynamoPlan) /\ IsPlan(KimiLlmdPlan)
<1>1. \A name, router, stage : router \in Routers => LoopsPlanned(name, router, stage)
  BY LoopsArePlans
<1>2. \A s, t : IsPlan(s) /\ IsPlan(t) => IsPlan(s \o t)
  BY PlansConcat
<1>3. "llmd" \in Routers /\ "dynamo" \in Routers
  BY DEF Routers
<1>4. IsPlan(Llmd14Plan)
  BY <1>1, <1>2, <1>3 DEF LoopsPlanned, Llmd14Plan
<1>5. IsPlan(Dynamo14Plan)
  BY <1>1, <1>2, <1>3 DEF LoopsPlanned, Dynamo14Plan
<1>6. IsPlan(Llmd45Plan)
  BY <1>1, <1>2, <1>3 DEF LoopsPlanned, Llmd45Plan
<1>7. IsPlan(Dynamo45Plan)
  BY <1>1, <1>2, <1>3 DEF LoopsPlanned, Dynamo45Plan
<1>8. IsPlan(RemainingPlan)
  BY <1>1, <1>2, <1>3 DEF LoopsPlanned, RemainingPlan
<1>9. IsPlan(SequentialPlan)
  BY <1>1, <1>2, <1>3 DEF LoopsPlanned, SequentialPlan
<1>10. IsPlan(UpgradedPlan)
  BY <1>1, <1>2, <1>3 DEF LoopsPlanned, UpgradedPlan
<1>11. IsPlan(GlmLlmd14Plan)
  BY <1>1, <1>2, <1>3 DEF LoopsPlanned, GlmLlmd14Plan
<1>12. IsPlan(GlmDynamo14Plan)
  BY <1>1, <1>2, <1>3 DEF LoopsPlanned, GlmDynamo14Plan
<1>13. IsPlan(GlmLlmd45Plan)
  BY <1>1, <1>2, <1>3 DEF LoopsPlanned, GlmLlmd45Plan
<1>14. IsPlan(GlmDynamo15Plan)
  BY <1>1, <1>2, <1>3 DEF LoopsPlanned, GlmDynamo15Plan
<1>15. IsPlan(GlmUpgradedDynamoPlan)
  BY <1>1, <1>2, <1>3 DEF LoopsPlanned, GlmUpgradedDynamoPlan
<1>16. IsPlan(GlmUpgradedLlmdPlan)
  BY <1>1, <1>2, <1>3 DEF LoopsPlanned, GlmUpgradedLlmdPlan
<1>17. IsPlan(KimiDynamoPlan)
  BY <1>1, <1>2, <1>3 DEF LoopsPlanned, KimiDynamoPlan
<1>18. IsPlan(KimiLlmdPlan)
  BY <1>1, <1>2, <1>3 DEF LoopsPlanned, KimiLlmdPlan
<1> QED
  BY <1>4, <1>5, <1>6, <1>7, <1>8, <1>9, <1>10, <1>11, <1>12, <1>13, <1>14, <1>15, <1>16, <1>17, <1>18

(* What every script has in common: it has a plan, and it empties directories *)
(* and drains the engine only if it looks for stray clients by their titles. *)
Common(p) == /\ IsPlan(p.plan) /\ p.kills.by \in {"nothing", "title", "port"}
             /\ p.cell.wipes \/ p.cell.drains => p.kills.by = "title"
LEMMA ScriptsInCommon ==
    ASSUME NEW name \in DOMAIN Scripts
    PROVE  Common(Scripts[name])
<1> USE DEF Program, Nothing, ByTitle, ByTitleFirst, ByPort, Plain, Limited, LimitedDrainedWiped, Common
<1>1. Common(Llmd14)
  BY PlansArePlans DEF Llmd14, Llmd14Cell
<1>2. Common(Dynamo14)
  BY PlansArePlans DEF Dynamo14, Dynamo14Cell
<1>3. Common(Llmd45)
  BY PlansArePlans DEF Llmd45, Llmd45Kills, Llmd45Cell
<1>4. Common(Dynamo45)
  BY PlansArePlans DEF Dynamo45, Dynamo45Kills, Dynamo45Cell
<1>5. Common(Remaining)
  BY PlansArePlans DEF Remaining, RemainingKills, RemainingCell
<1>6. Common(Sequential)
  BY PlansArePlans DEF Sequential, SequentialKills, SequentialCell
<1>7. Common(Upgraded)
  BY PlansArePlans DEF Upgraded, UpgradedKills, UpgradedCell
<1>8. Common(GlmLlmd14)
  BY PlansArePlans DEF GlmLlmd14, GlmLlmd14Kills, GlmLlmd14Cell
<1>9. Common(GlmDynamo14)
  BY PlansArePlans DEF GlmDynamo14, GlmDynamo14Kills, GlmDynamo14Cell
<1>10. Common(GlmLlmd45)
  BY PlansArePlans DEF GlmLlmd45, GlmLlmd45Kills, GlmLlmd45Cell
<1>11. Common(GlmDynamo15)
  BY PlansArePlans DEF GlmDynamo15, GlmDynamo15Kills, GlmDynamo15Cell
<1>12. Common(GlmUpgradedDynamo)
  BY PlansArePlans DEF GlmUpgradedDynamo, GlmUpgradedKills, GlmUpgradedCell
<1>13. Common(GlmUpgradedLlmd)
  BY PlansArePlans DEF GlmUpgradedLlmd, GlmUpgradedKills, GlmUpgradedCell
<1>14. Common(KimiDynamo)
  BY PlansArePlans DEF KimiDynamo, KimiDynamoKills, KimiDynamoCell
<1>15. Common(KimiLlmd)
  BY PlansArePlans DEF KimiLlmd, KimiLlmdKills, KimiLlmdCell
<1> HIDE DEF Common
<1> QED
  BY <1>1, <1>2, <1>3, <1>4, <1>5, <1>6, <1>7, <1>8, <1>9, <1>10, <1>11, <1>12, <1>13, <1>14, <1>15 DEF Scripts

(* A plan has a first cell, and every cell a router.                         *)
LEMMA PlanCells ==
    ASSUME NEW p, IsPlan(p)
    PROVE  1 \in DOMAIN p /\ \A i \in DOMAIN p : p[i].router \in Routers
<1>1. PICK S : p \in Seq(S) /\ p # <<>> /\ \A x \in S : x.router \in Routers
  BY DEF IsPlan
<1>2. Len(p) \in Nat \ {0} /\ DOMAIN p = 1..Len(p)
  BY <1>1, EmptySeq, LenProperties
<1>3. \A i \in 1..Len(p) : p[i] \in S
  BY <1>1, ElementOfSeq
<1> QED
  BY <1>1, <1>2, <1>3

(* What a scenario bounds, and what it runs.                                 *)
LEMMA SceneOf ==
    ASSUME scene \in Scenarios
    PROVE  /\ scene.cells \in Nat \ {0} /\ scene.runs \in Nat \ {0} /\ scene.faults \in Nat
           /\ \A c \in Running : /\ Common(P(c)) /\ 1 \in DOMAIN P(c).plan
                                 /\ \A i \in DOMAIN P(c).plan : P(c).plan[i].router \in Routers
<1>1. \A c \in Running : scene.of[c] \in DOMAIN Scripts
  BY ScenariosAssumption DEF Running
<1>2. \A c \in Running : Common(P(c))
  BY <1>1, ScriptsInCommon DEF P
<1>3. \A c \in Running : IsPlan(P(c).plan)
  BY <1>2 DEF Common
<1> QED
  BY <1>2, <1>3, PlanCells, ScenariosAssumption

(* The attempt a script is at, and where it measures and writes.             *)
LEMMA AttemptOf ==
    ASSUME TypeOK, CellInv, NEW c \in Running
    PROVE  /\ cell[c] \in 1..scene.cells /\ runs[c] \in 1..scene.runs /\ Id(c) \in Ids
           /\ Cell(c).router \in Routers /\ Cell(c).tag \in Tags
           /\ Tag(Id(c)) = Cell(c).tag
<1>1. cell[c] \in 1..scene.cells /\ runs[c] \in 1..scene.runs
  BY DEF TypeOK
<1>2. Cell(c).router \in Routers
  BY SceneOf DEF TypeOK, CellInv, Cell
<1> QED
  BY <1>1, <1>2 DEF Id, Ids, Tags, Cell, Tag

(* A scenario never changes.                                                 *)
LEMMA SceneStays ==
    ASSUME [Next]_vars
    PROVE  scene' = scene
BY DEF Next, vars, script, Environment, Step, Start, BackendsReady, Clean, Reset, Drained, DrainGivesUp,
   Launch, Returns, Timeout, CleanAfterTimeout, Stats, Merge, Report, ReportFails, CallFails, Crash,
   Rerun, ServerUp, ClientWrites, ClientEnds, ClientFails, Sends, Answers

(* So what it says stays the same.                                           *)
LEMMA SceneTerms ==
    ASSUME scene' = scene
    PROVE  /\ Running' = Running /\ Ids' = Ids /\ Tags' = Tags
           /\ \A c : P(c)' = P(c)
BY DEF Running, Ids, Tags, P

-----------------------------------------------------------------------------
(* Types.                                                                    *)
TypedInv == TypeOK /\ FilesInv /\ CellInv

(* The campaign starts in a state of these types.                            *)
LEMMA InitTyped == Init => TypedInv
<1> SUFFICES ASSUME Init PROVE TypedInv
  OBVIOUS
<1>1. scene \in Scenarios
  BY DEF Init
<1>2. CellInv
  BY <1>1, SceneOf DEF Init, CellInv
<1>3. 1 \in 1..scene.cells /\ 1 \in 1..scene.runs /\ 0 \in 0..scene.faults
  BY <1>1, SceneOf
<1>4. TypeOK
  BY <1>3 DEF Init, TypeOK, NoResult, Ended
<1>5. FilesInv
  BY DEF Init, FilesInv, NoResult
<1> QED
  BY <1>2, <1>4, <1>5 DEF TypedInv

(* A script's step keeps the types.                                          *)
LEMMA ScriptTyped ==
    ASSUME TypedInv, NEW c \in Running, Step(c)
    PROVE  TypedInv'
<1> USE DEF TypedInv
<1>0. /\ scene' = scene /\ Running' = Running /\ Ids' = Ids /\ Tags' = Tags
      /\ \A d : P(d)' = P(d)
  BY SceneTerms DEF Step, script, Start, BackendsReady, Clean, Reset, Drained, DrainGivesUp, Launch,
     Returns, Timeout, CleanAfterTimeout, Stats, Merge, Report, ReportFails
<1>1. /\ Id(c) \in Ids /\ Cell(c).router \in Routers /\ Cell(c).tag \in Tags
      /\ scene \in Scenarios
  BY AttemptOf DEF TypeOK
<1>2. CASE Start(c) \/ Clean(c) \/ Timeout(c) \/ CleanAfterTimeout(c)
  <2>1. /\ UNCHANGED <<script, results, cell, gave, up, engine, counted, faults>>
        /\ procs' \subseteq procs
        /\ \E l \in {"wait", "reset", "expired", "stats"} : Goto(c, l)
    BY <1>2 DEF Start, Clean, Timeout, CleanAfterTimeout, CleanUp
  <2> QED
    BY <1>0, <2>1 DEF TypeOK, FilesInv, CellInv, script, results, Goto
<1>3. CASE BackendsReady(c) \/ Drained(c) \/ Returns(c) \/ ReportFails(c) \/ DrainGivesUp(c)
  <2>1. /\ UNCHANGED <<script, results, cell, outside, faults>>
        /\ gave' = gave \/ gave' = [gave EXCEPT ![c] = TRUE]
        /\ \E l \in {"clean", "launch", "stats", "aborted"} : Goto(c, l)
    BY <1>3 DEF BackendsReady, Drained, Returns, ReportFails, DrainGivesUp
  <2>2. pc' \in [Running -> Ended \cup {"start", "wait", "clean", "reset", "drain", "launch",
                                        "run", "expired", "stats", "merge", "report"}]
    BY <2>1 DEF TypeOK, Goto, Ended
  <2>3. gave' \in [Running -> BOOLEAN]
    BY <2>1 DEF TypeOK
  <2>4. TypeOK'
    BY <1>0, <2>1, <2>2, <2>3 DEF TypeOK, script, results, outside
  <2> QED
    BY <1>0, <2>1, <2>4 DEF FilesInv, CellInv, script, results
<1>4. CASE Reset(c)
  <2>1. \E l \in {"drain", "launch"} : Goto(c, l)
    BY <1>4 DEF Reset
  <2> QED
    BY <1>0, <1>1, <1>4, <2>1 DEF Reset, TypeOK, FilesInv, CellInv, script, results, Goto
<1>5. CASE Launch(c)
  <2>1. procs' \subseteq [id : Ids, kind : {"main", "worker"}, router : Routers]
    BY <1>1, <1>5 DEF Launch, TypeOK, Client1
  <2>2. FilesInv'
    BY <1>0, <1>1, <1>5 DEF Launch, FilesInv, NoResult
  <2>3. \A t \in DOMAIN disk' : disk'[t].export \in Ids \cup {None, Torn} /\ disk'[t].metrics \in Ids \cup {None}
    BY <1>0, <2>2 DEF FilesInv
  <2> QED
    BY <1>0, <1>5, <2>1, <2>2, <2>3 DEF Launch, TypeOK, CellInv, script, Goto
<1>6. CASE Stats(c)
  BY <1>0, <1>1, <1>6 DEF Stats, TypeOK, FilesInv, CellInv, script, outside, Goto
<1>7. CASE Merge(c)
  <2>1. got[c] \subseteq Ids
    BY DEF TypeOK
  <2>2. FilesInv'
    BY <1>0, <1>1, <1>7, <2>1 DEF Merge, FilesInv
  <2>3. \A t \in DOMAIN disk' : disk'[t].export \in Ids \cup {None, Torn} /\ disk'[t].metrics \in Ids \cup {None}
    BY <1>0, <2>2 DEF FilesInv
  <2> QED
    BY <1>0, <1>7, <2>2, <2>3 DEF Merge, TypeOK, CellInv, script, outside, Goto
<1>8. CASE Report(c)
  <2>1. /\ UNCHANGED <<script, got, disk, gave, outside, faults>> /\ DOMAIN line' = DOMAIN line
        /\ Advance(c)
    BY <1>8 DEF Report
  <2>2. CASE cell[c] + 1 \in Cells(c)
    <3>1. cell[c] + 1 \in 1..scene.cells /\ cell[c] + 1 \in DOMAIN P(c).plan
      BY <2>2, SceneOf DEF Cells, TypeOK
    <3>2. cell' = [cell EXCEPT ![c] = cell[c] + 1] /\ Goto(c, "clean")
      BY <2>1, <2>2 DEF Advance
    <3> QED
      BY <1>0, <2>1, <3>1, <3>2 DEF TypeOK, FilesInv, CellInv, script, outside, Goto
  <2>3. CASE cell[c] + 1 \notin Cells(c)
    BY <1>0, <2>1, <2>3 DEF Advance, TypeOK, FilesInv, CellInv, script, outside, Goto, Ended
  <2> QED
    BY <2>2, <2>3
<1> QED
  BY <1>2, <1>3, <1>4, <1>5, <1>6, <1>7, <1>8 DEF Step

(* So does everything else.                                                  *)
LEMMA TypedStep ==
    ASSUME TypedInv, [Next]_vars
    PROVE  TypedInv'
<1> USE DEF TypedInv
<1>0. /\ scene' = scene /\ Running' = Running /\ Ids' = Ids /\ Tags' = Tags
      /\ \A d : P(d)' = P(d)
  BY SceneTerms, SceneStays
<1>1. scene.faults \in Nat
  BY SceneOf DEF TypeOK
<1>2. Fault => faults' \in 0..scene.faults
  BY <1>1 DEF Fault, TypeOK
<1>3. ASSUME NEW c \in Running, CallFails(c) PROVE TypedInv'
  BY <1>0, <1>2, <1>3 DEF CallFails, TypeOK, FilesInv, CellInv, script, results, outside, Goto, Ended
<1>4. ASSUME NEW c \in Running, Crash(c) PROVE TypedInv'
  <2>1. Cell(c).tag \in Tags
    BY AttemptOf
  <2>2. FilesInv'
    <3>1. disk' = disk \/ disk' = [disk EXCEPT ![Cell(c).tag].export = Torn]
      BY <1>4 DEF Crash
    <3>2. line' = line
      BY <1>4 DEF Crash
    <3> QED
      BY <1>0, <2>1, <3>1, <3>2 DEF FilesInv
  <2>3. \A t \in DOMAIN disk' : disk'[t].export \in Ids \cup {None, Torn} /\ disk'[t].metrics \in Ids \cup {None}
    BY <1>0, <2>2 DEF FilesInv
  <2>4. procs' \subseteq procs
    BY <1>4 DEF Crash
  <2> QED
    BY <1>0, <1>2, <1>4, <2>2, <2>3, <2>4 DEF Crash, TypeOK, CellInv, script, Goto, Ended
<1>5. ASSUME NEW c \in Running, Rerun(c) PROVE TypedInv'
  <2>1. runs[c] + 1 \in 1..scene.runs /\ 1 \in 1..scene.cells /\ 1 \in DOMAIN P(c).plan
    BY <1>5, SceneOf DEF Rerun, TypeOK
  <2> QED
    BY <1>0, <1>5, <2>1 DEF Rerun, TypeOK, FilesInv, CellInv, results, outside, Goto
<1>6. ASSUME NEW s \in Servers, ServerUp(s) PROVE TypedInv'
  BY <1>0, <1>6 DEF ServerUp, TypeOK, FilesInv, CellInv, script, results
<1>7. ASSUME NEW p \in procs, ClientWrites(p, "export") \/ ClientWrites(p, "metrics") PROVE TypedInv'
  <2>1. p.id \in Ids /\ Tag(p.id) \in Tags
    BY DEF TypeOK, Ids, Tag, Tags
  <2>2. FilesInv'
    <3>1. PICK t \in Tags : t = Tag(p.id)
      BY <2>1
    <3>2. \/ disk' = [disk EXCEPT ![t] = [@ EXCEPT !.export = p.id, !.stats = None]]
          \/ disk' = [disk EXCEPT ![t] = [@ EXCEPT !.metrics = p.id]]
      BY <1>7, <3>1 DEF ClientWrites
    <3>3. line' = line
      BY <1>7 DEF ClientWrites
    <3> DEFINE Dir == [export : Ids \cup {None, Torn}, stats : [by : Ids, of : SUBSET Ids] \cup {None},
                       metrics : Ids \cup {None}]
    <3>4. disk \in [Tags -> Dir] /\ disk[t] \in Dir
      BY DEF FilesInv
    <3>5. [disk[t] EXCEPT !.export = p.id, !.stats = None] \in Dir /\ [disk[t] EXCEPT !.metrics = p.id] \in Dir
      BY <2>1, <3>4
    <3> HIDE DEF Dir
    <3>6. disk' \in [Tags -> Dir]
      BY <3>2, <3>4, <3>5
    <3> QED
      BY <1>0, <3>3, <3>6 DEF FilesInv, Dir
  <2>3. \A t \in DOMAIN disk' : disk'[t].export \in Ids \cup {None, Torn} /\ disk'[t].metrics \in Ids \cup {None}
    BY <1>0, <2>2 DEF FilesInv
  <2> QED
    BY <1>0, <1>7, <2>2, <2>3 DEF ClientWrites, TypeOK, CellInv, script, outside
<1>8. ASSUME NEW p \in procs, ClientEnds(p) \/ ClientFails(p) PROVE TypedInv'
  <2>1. /\ procs' \subseteq procs /\ UNCHANGED <<script, results, pc, cell, gave, up, engine, counted>>
        /\ faults' = faults \/ Fault
    BY <1>8 DEF ClientEnds, ClientFails
  <2> QED
    BY <1>0, <1>2, <2>1 DEF TypeOK, FilesInv, CellInv, script, results
<1>9. ASSUME NEW p \in procs, Sends(p) PROVE TypedInv'
  <2>1. p.id \in Ids /\ p.router \in Routers
    BY DEF TypeOK
  <2> QED
    BY <1>0, <1>9, <2>1 DEF Sends, TypeOK, FilesInv, CellInv, script, results
<1>10. ASSUME NEW id \in engine, Answers(id) PROVE TypedInv'
  BY <1>0, <1>10 DEF Answers, TypeOK, FilesInv, CellInv, script, results
<1>11. CASE UNCHANGED vars
  BY <1>0, <1>11 DEF vars, TypeOK, FilesInv, CellInv
<1> QED
  BY <1>3, <1>4, <1>5, <1>6, <1>7, <1>8, <1>9, <1>10, <1>11, ScriptTyped DEF Next, Environment

(* A campaign keeps its types.                                               *)
THEOREM CampaignTyped == Spec => []TypeOK
<1>1. TypedInv => TypeOK
  BY DEF TypedInv
<1> QED
  BY <1>1, InitTyped, TypedStep, PTL DEF Spec

-----------------------------------------------------------------------------
(* Who does what.                                                            *)

(* A step that is none of script c's: it leaves c where it is.               *)
Passive(c) == /\ pc'[c] = pc[c] /\ runs'[c] = runs[c] /\ cell'[c] = cell[c]
              /\ got'[c] = got[c] /\ line'[c] = line[c] /\ gave'[c] = gave[c]

(* Every step is one of script c's, or leaves it where it is.                *)
LEMMA OwnOrPassive ==
    ASSUME TypedInv, [Next]_vars, NEW c \in Running
    PROVE  Step(c) \/ CallFails(c) \/ Crash(c) \/ Rerun(c) \/ Passive(c)
<1>0. /\ pc \in [Running -> Ended \cup {"start", "wait", "clean", "reset", "drain", "launch",
                                          "run", "expired", "stats", "merge", "report"}]
      /\ runs \in [Running -> 1..scene.runs] /\ cell \in [Running -> 1..scene.cells]
      /\ got \in [Running -> SUBSET Ids] /\ gave \in [Running -> BOOLEAN]
      /\ DOMAIN line = Running
  BY DEF TypedInv, TypeOK, FilesInv
<1>1. ASSUME NEW d \in Running, d # c, Step(d) PROVE Passive(c)
  <2>1. CASE Start(d) \/ BackendsReady(d) \/ Clean(d) \/ Reset(d) \/ Drained(d) \/ DrainGivesUp(d)
    BY <1>0, <1>1, <2>1 DEF Start, BackendsReady, Clean, Reset, Drained, DrainGivesUp, Goto, script,
       results, Passive
  <2>2. CASE Launch(d) \/ Returns(d) \/ Timeout(d) \/ CleanAfterTimeout(d) \/ Stats(d) \/ Merge(d)
    BY <1>0, <1>1, <2>2 DEF Launch, Returns, Timeout, CleanAfterTimeout, Stats, Merge, Goto, script,
       results, Passive
  <2>3. CASE Report(d) \/ ReportFails(d)
    BY <1>0, <1>1, <2>3 DEF Report, ReportFails, Advance, Goto, script, results, Passive
  <2> QED
    BY <1>1, <2>1, <2>2, <2>3 DEF Step
<1>2. ASSUME NEW d \in Running, d # c, CallFails(d) \/ Crash(d) \/ Rerun(d) PROVE Passive(c)
  BY <1>0, <1>2 DEF CallFails, Crash, Rerun, Goto, script, results, Passive
<1>3. ASSUME NEW p, \/ ClientWrites(p, "export") \/ ClientWrites(p, "metrics")
                    \/ ClientEnds(p) \/ ClientFails(p) \/ Sends(p) \/ Answers(p) \/ ServerUp(p)
      PROVE  Passive(c)
  BY <1>3 DEF ClientWrites, ClientEnds, ClientFails, Sends, Answers, ServerUp, script, results, Passive
<1>4. CASE UNCHANGED vars
  BY <1>4 DEF vars, Passive
<1>5. ASSUME NEW d \in Running, d = c, Step(d) \/ CallFails(d) \/ Crash(d) \/ Rerun(d)
      PROVE  Step(c) \/ CallFails(c) \/ Crash(c) \/ Rerun(c)
  BY <1>5
<1> QED
  BY <1>1, <1>2, <1>3, <1>4, <1>5 DEF Next, Environment

(* Clients come from the start of a cell alone.                              *)
LEMMA ClientsComeFrom ==
    ASSUME [Next]_vars
    PROVE  procs' \subseteq procs \/ \E d \in Running : Launch(d)
<1>1. ASSUME NEW d \in Running, Step(d), ~Launch(d) PROVE procs' \subseteq procs
  BY <1>1 DEF Step, Start, BackendsReady, Clean, Reset, Drained, DrainGivesUp, Returns, Timeout,
     CleanAfterTimeout, Stats, Merge, Report, ReportFails, CleanUp, outside
<1>2. ASSUME NEW d \in Running, CallFails(d) \/ Crash(d) \/ Rerun(d) PROVE procs' \subseteq procs
  BY <1>2 DEF CallFails, Crash, Rerun, outside
<1>3. ASSUME NEW p, \/ ClientWrites(p, "export") \/ ClientWrites(p, "metrics")
                    \/ ClientEnds(p) \/ ClientFails(p) \/ Sends(p) \/ Answers(p) \/ ServerUp(p)
      PROVE  procs' \subseteq procs
  BY <1>3 DEF ClientWrites, ClientEnds, ClientFails, Sends, Answers, ServerUp, outside
<1>4. CASE UNCHANGED vars
  BY <1>4 DEF vars
<1> QED
  BY <1>1, <1>2, <1>3, <1>4 DEF Next, Environment

(* An attempt's cell, and a script's own while it stays at it.               *)
LEMMA CellTerms ==
    ASSUME scene' = scene, NEW c, runs'[c] = runs[c], cell'[c] = cell[c]
    PROVE  Cell(c)' = Cell(c) /\ Id(c)' = Id(c) /\ P(c)' = P(c)
BY DEF Cell, Id, P

(* A client sends to the router of its cell.                                 *)
LEMMA ProcsStep ==
    ASSUME TypedInv, ProcsInv, [Next]_vars
    PROVE  ProcsInv'
<1>0. scene' = scene /\ \A d : P(d)' = P(d)
  BY SceneStays, SceneTerms
<1> SUFFICES ASSUME NEW p \in procs'
             PROVE  /\ p.id[3] \in DOMAIN Scripts[scene.of[p.id[1]]].plan
                    /\ p.router = Scripts[scene.of[p.id[1]]].plan[p.id[3]].router
  BY <1>0 DEF ProcsInv, P
<1>1. CASE p \in procs
  BY <1>1 DEF ProcsInv, P
<1>2. ASSUME NEW c \in Running, Launch(c), p \notin procs
      PROVE  /\ p.id[3] \in DOMAIN Scripts[scene.of[p.id[1]]].plan
             /\ p.router = Scripts[scene.of[p.id[1]]].plan[p.id[3]].router
  <2>1. p.id = Id(c) /\ p.router = Cell(c).router
    BY <1>2 DEF Launch, Client1
  <2>2. p.id[1] = c /\ p.id[3] = cell[c]
    BY <2>1 DEF Id
  <2> QED
    BY <2>1, <2>2 DEF TypedInv, CellInv, Cell, P
<1> QED
  BY <1>1, <1>2, ClientsComeFrom

(* Scripts side by side have routers of their own, and none cleans up by title. *)
LEMMA RoutersApart ==
    ASSUME TypedInv, ProcsInv, SideBySide(scene), NEW c \in Running, NEW d \in Running, c # d
    PROVE  /\ Cell(c).router # Cell(d).router /\ P(c).kills.by # "title"
           /\ \A p \in procs : p.id[1] = d => p.router # Cell(c).router
<1>1. cell[c] \in DOMAIN P(c).plan /\ cell[d] \in DOMAIN P(d).plan
  BY DEF TypedInv, CellInv
<1>2. \A i \in DOMAIN P(c).plan, j \in DOMAIN P(d).plan : P(c).plan[i].router # P(d).plan[j].router
  BY DEF SideBySide, Running, P
<1>3. P(c).kills.by # "title"
  BY DEF SideBySide, Running, P
<1>4. \A p \in procs : p.id[1] = d => p.id[3] \in DOMAIN P(d).plan /\ p.router = P(d).plan[p.id[3]].router
  BY DEF ProcsInv
<1> QED
  BY <1>1, <1>2, <1>3, <1>4 DEF Cell

(* So one that cleans up by title is alone, and every client is its own.     *)
LEMMA TitleIsAlone ==
    ASSUME TypedInv, ProcsInv, SideBySide(scene), NEW c \in Running, ByTitles(c)
    PROVE  /\ Running = {c}
           /\ \A p \in procs : p.id \in Ids /\ p.id[1] = c /\ p.kind \in {"main", "worker"}
                               /\ (p.id = Id(c) => p = Client1(c, p.kind))
<1>1. \A d \in Running : d = c
  BY RoutersApart DEF ByTitles
<1>2. \A p \in procs : /\ p = [id |-> p.id, kind |-> p.kind, router |-> p.router]
                       /\ p.id \in Ids /\ p.kind \in {"main", "worker"}
  BY DEF TypedInv, TypeOK
<1>3. \A p \in procs : p.id = Id(c) => p.router = Cell(c).router
  BY DEF ProcsInv, Id, Cell
<1> QED
  BY <1>1, <1>2, <1>3 DEF Ids, Client1

(* While a cell is measured, only its own client is on its router.           *)
LEMMA OwnRouterStep ==
    ASSUME TypedInv, ProcsInv, SideBySide(scene), OwnRouterInv, [Next]_vars
    PROVE  OwnRouterInv'
<1>0. /\ scene' = scene /\ Running' = Running
      /\ pc \in [Running -> Ended \cup {"start", "wait", "clean", "reset", "drain", "launch",
                                          "run", "expired", "stats", "merge", "report"}]
  BY SceneStays, SceneTerms DEF TypedInv, TypeOK
<1> DEFINE Fine(c, p) == \/ p.id = Id(c)
                         \/ P(c).kills.by = "port" /\ p.kind = "worker"
                         \/ P(c).kills.by = "nothing"
<1> SUFFICES ASSUME NEW c \in Running, pc'[c] \in MeasuredPcs,
                    NEW p \in procs', p.router = Cell(c)'.router
             PROVE  Fine(c, p)'
  BY <1>0 DEF OwnRouterInv
<1>1. \A q \in procs : q.router = Cell(c).router /\ pc[c] \in MeasuredPcs => Fine(c, q)
  BY DEF OwnRouterInv
<1>2. runs'[c] = runs[c] /\ cell'[c] = cell[c] =>
        Cell(c)' = Cell(c) /\ (Fine(c, p)' <=> Fine(c, p))
  BY <1>0, CellTerms
<1> HIDE DEF Fine
<1>3. CASE Clean(c)
  <2>1. procs' = {q \in procs : ~Finds(c, q)} /\ Cell(c)' = Cell(c) /\ (Fine(c, p)' <=> Fine(c, p))
    BY <1>2, <1>3 DEF Clean, CleanUp, script
  <2>2. p \in procs /\ ~Finds(c, p) /\ p.kind \in {"main", "worker"} /\ p.router = Cell(c).router
    BY <2>1 DEF TypedInv, TypeOK
  <2>3. P(c).kills.by \in {"nothing", "title", "port"}
    BY SceneOf DEF TypedInv, TypeOK, Common
  <2> QED
    BY <2>1, <2>2, <2>3 DEF Finds, Fine
<1>4. CASE Launch(c)
  <2>1. /\ procs' = procs \cup {Client1(c, "main"), Client1(c, "worker")} /\ pc[c] = "launch"
        /\ Cell(c)' = Cell(c) /\ (Fine(c, p)' <=> Fine(c, p))
    BY <1>2, <1>4 DEF Launch, script, At
  <2>2. CASE p \in procs
    BY <1>1, <2>1, <2>2 DEF MeasuredPcs
  <2>3. CASE p \notin procs
    BY <2>1, <2>3 DEF Client1, Fine
  <2> QED
    BY <2>2, <2>3
<1>5. CASE Reset(c) \/ Drained(c) \/ DrainGivesUp(c) \/ Returns(c) \/ Timeout(c) \/ CleanAfterTimeout(c)
  <2>1. /\ pc[c] \in MeasuredPcs /\ p \in procs
        /\ Cell(c)' = Cell(c) /\ (Fine(c, p)' <=> Fine(c, p))
    BY <1>2, <1>5 DEF Reset, Drained, DrainGivesUp, Returns, Timeout, CleanAfterTimeout, CleanUp, script,
       outside, At, MeasuredPcs
  <2> QED
    BY <1>1, <2>1
<1>6. CASE Start(c) \/ BackendsReady(c) \/ Stats(c) \/ Merge(c) \/ Report(c) \/ ReportFails(c)
           \/ CallFails(c) \/ Crash(c) \/ Rerun(c)
  <2>1. pc'[c] \in {"wait", "clean", "merge", "report", "done", "aborted", "crashed", "start"}
    BY <1>0, <1>6 DEF Start, BackendsReady, Stats, Merge, Report, Advance, ReportFails, CallFails, Crash,
       Rerun, Goto
  <2> QED
    BY <2>1 DEF MeasuredPcs
<1>7. CASE Passive(c)
  <2>1. pc[c] \in MeasuredPcs /\ Cell(c)' = Cell(c) /\ (Fine(c, p)' <=> Fine(c, p))
    BY <1>2, <1>7 DEF Passive
  <2>2. CASE p \in procs
    BY <1>1, <2>1, <2>2
  <2>3. CASE p \notin procs
    <3>1. PICK d \in Running : Launch(d)
      BY <2>3, ClientsComeFrom
    <3>2. p.router = Cell(d).router /\ pc'[d] # pc[d]
      BY <1>0, <2>3, <3>1 DEF Launch, Client1, At, Goto
    <3>3. d # c
      BY <1>7, <3>2 DEF Passive
    <3> QED
      BY <2>1, <3>2, <3>3, RoutersApart
  <2> QED
    BY <2>2, <2>3
<1> QED
  BY <1>3, <1>4, <1>5, <1>6, <1>7, OwnOrPassive DEF Step

(* Cleanup by title leaves nobody behind.                                    *)
LEMMA AloneStep ==
    ASSUME TypedInv, ProcsInv, SideBySide(scene), AloneInv, [Next]_vars
    PROVE  AloneInv'
<1>0. /\ scene' = scene /\ Running' = Running
      /\ pc \in [Running -> Ended \cup {"start", "wait", "clean", "reset", "drain", "launch",
                                          "run", "expired", "stats", "merge", "report"}]
  BY SceneStays, SceneTerms DEF TypedInv, TypeOK
<1> SUFFICES ASSUME NEW c \in Running, P(c)'.kills.by = "title"
             PROVE  /\ pc'[c] \in EmptyPcs => procs' = {}
                    /\ pc'[c] \in {"run"} \cup AfterPcs => \A p \in procs' : p.id = Id(c)'
                    /\ pc'[c] \in AfterPcs => \A p \in procs' : p.kind = "worker"
  BY <1>0 DEF AloneInv, ByTitles
<1>1. ByTitles(c)
  BY <1>0 DEF ByTitles, P
<1>2. /\ pc[c] \in EmptyPcs => procs = {}
      /\ pc[c] \in {"run"} \cup AfterPcs => \A p \in procs : p.id = Id(c)
      /\ pc[c] \in AfterPcs => \A p \in procs : p.kind = "worker"
  BY <1>1 DEF AloneInv
<1>3. /\ Running = {c}
      /\ \A p \in procs : p.kind \in {"main", "worker"} /\ (p.id = Id(c) => p = Client1(c, p.kind))
  BY <1>1, TitleIsAlone
<1>4. UNCHANGED script /\ cell' = cell => Id(c)' = Id(c)
  BY DEF script, Id
<1> USE DEF EmptyPcs, AfterPcs
<1>5. CASE Clean(c) \/ CleanAfterTimeout(c)
  <2>1. procs' = {}
    BY <1>1, <1>5 DEF Clean, CleanAfterTimeout, CleanUp, Finds, ByTitles
  <2> QED
    BY <2>1
<1>6. CASE Launch(c)
  <2>1. /\ pc[c] = "launch" /\ pc'[c] = "run" /\ Id(c)' = Id(c)
        /\ procs' = procs \cup {Client1(c, "main"), Client1(c, "worker")}
    BY <1>0, <1>4, <1>6 DEF Launch, At, Goto
  <2> QED
    BY <1>2, <2>1 DEF Client1
<1>7. CASE Returns(c) \/ Timeout(c)
  <2>1. /\ pc[c] = "run" /\ Id(c)' = Id(c) /\ procs' \subseteq procs /\ Client1(c, "main") \notin procs'
    BY <1>4, <1>7 DEF Returns, Timeout, At, outside
  <2>2. pc'[c] \in {"stats", "expired"}
    BY <1>0, <1>7 DEF Returns, Timeout, Goto
  <2>3. ASSUME NEW p \in procs' PROVE p.id = Id(c) /\ p.kind = "worker"
    <3>1. p.id = Id(c) /\ p = Client1(c, p.kind) /\ p.kind \in {"main", "worker"}
      BY <1>2, <1>3, <2>1
    <3>2. CASE p.kind = "main"
      BY <2>1, <3>1, <3>2
    <3> QED
      BY <3>1, <3>2
  <2> QED
    BY <2>1, <2>2, <2>3
<1>8. CASE Reset(c) \/ Drained(c) \/ DrainGivesUp(c)
  <2>1. pc[c] \in EmptyPcs /\ procs' = procs
    BY <1>8 DEF Reset, Drained, DrainGivesUp, At, outside
  <2> QED
    BY <1>2, <2>1
<1>9. CASE Stats(c) \/ Merge(c)
  <2>1. pc[c] \in AfterPcs /\ pc'[c] \in AfterPcs /\ procs' = procs /\ Id(c)' = Id(c)
    BY <1>0, <1>4, <1>9 DEF Stats, Merge, At, Goto, outside
  <2> QED
    BY <1>2, <2>1
<1>10. CASE Start(c) \/ BackendsReady(c) \/ Report(c) \/ ReportFails(c)
            \/ CallFails(c) \/ Crash(c) \/ Rerun(c)
  <2>1. pc'[c] \in {"wait", "clean", "done", "aborted", "crashed", "start"}
    BY <1>0, <1>10 DEF Start, BackendsReady, Report, Advance, ReportFails, CallFails, Crash, Rerun, Goto
  <2> QED
    BY <2>1
<1>11. CASE Passive(c)
  <2>1. pc'[c] = pc[c] /\ Id(c)' = Id(c)
    BY <1>0, <1>11, CellTerms DEF Passive
  <2>2. procs' \subseteq procs
    BY <1>0, <1>3, <2>1, ClientsComeFrom DEF Launch, At, Goto
  <2> QED
    BY <1>2, <2>1, <2>2
<1> QED
  BY <1>5, <1>6, <1>7, <1>8, <1>9, <1>10, <1>11, OwnOrPassive DEF Step

(* What the environment does to the counts, the engine and the files.        *)
LEMMA PassiveMoves ==
    ASSUME TypedInv, [Next]_vars, NEW c \in Running, Running = {c}, Passive(c)
    PROVE  \/ UNCHANGED <<counted, engine, disk>>
           \/ \E p \in procs : ClientWrites(p, "export") \/ ClientWrites(p, "metrics")
           \/ \E p \in procs : Sends(p)
           \/ \E id \in engine : Answers(id)
<1>0. pc \in [Running -> Ended \cup {"start", "wait", "clean", "reset", "drain", "launch",
                                       "run", "expired", "stats", "merge", "report"}]
  BY DEF TypedInv, TypeOK
<1>1. ~Step(c)
  <2>1. \A l \in {"wait", "clean", "reset", "drain", "launch", "run", "expired", "stats", "merge",
                  "report", "done", "aborted"} : pc[c] # l => ~Goto(c, l)
    BY <1>0 DEF Goto, Passive
  <2> QED
    BY <2>1 DEF Step, Start, BackendsReady, Clean, Reset, Drained, DrainGivesUp, Launch, Returns,
       Timeout, CleanAfterTimeout, Stats, Merge, Report, Advance, ReportFails, At
<1>2. ~CallFails(c) /\ ~Crash(c) /\ ~Rerun(c)
  BY <1>0 DEF CallFails, Crash, Rerun, Goto, Ended, Passive
<1>3. ASSUME NEW p, ClientEnds(p) \/ ClientFails(p) \/ ServerUp(p)
      PROVE  UNCHANGED <<counted, engine, disk>>
  BY <1>3 DEF ClientEnds, ClientFails, ServerUp, results
<1>4. CASE UNCHANGED vars
  BY <1>4 DEF vars
<1> QED
  BY <1>1, <1>2, <1>3, <1>4 DEF Next, Environment

(* With the cleanup by title, what is counted is the cell's own.             *)
LEMMA CountedStep ==
    ASSUME TypedInv, ProcsInv, SideBySide(scene), AloneInv, CountedInv, [Next]_vars
    PROVE  CountedInv'
<1>0. /\ scene' = scene /\ Running' = Running
      /\ pc \in [Running -> Ended \cup {"start", "wait", "clean", "reset", "drain", "launch",
                                          "run", "expired", "stats", "merge", "report"}]
      /\ got \in [Running -> SUBSET Ids] /\ counted \in [Routers -> SUBSET Ids]
  BY SceneStays, SceneTerms DEF TypedInv, TypeOK
<1> DEFINE Pcs == {"drain", "launch", "run", "expired", "stats"}
           Now(c) == /\ pc[c] \in Pcs => counted[Cell(c).router] \subseteq {Id(c)}
                     /\ pc[c] = "merge" => got[c] \subseteq {Id(c)}
                     /\ pc[c] = "report" => \/ disk[Cell(c).tag].export \in {None, Torn}
                                            \/ disk[Cell(c).tag].stats.of \subseteq {Id(c)}
<1> SUFFICES ASSUME NEW c \in Running, P(c)'.kills.by = "title" PROVE Now(c)'
  BY <1>0 DEF CountedInv, ByTitles
<1>1. ByTitles(c)
  BY <1>0 DEF ByTitles, P
<1>2. Now(c)
  BY <1>1 DEF CountedInv
<1>3. Cell(c).router \in Routers /\ Cell(c).tag \in Tags
  BY AttemptOf DEF TypedInv
<1>4. UNCHANGED script /\ cell' = cell => Id(c)' = Id(c) /\ Cell(c)' = Cell(c)
  BY CellTerms DEF script
<1>5. CASE Reset(c)
  <2>1. counted' = [counted EXCEPT ![Cell(c).router] = {}] /\ Cell(c)' = Cell(c)
    BY <1>4, <1>5 DEF Reset
  <2>2. pc'[c] \in {"drain", "launch"}
    BY <1>0, <1>5 DEF Reset, Goto
  <2>3. counted'[Cell(c).router] = {}
    BY <1>0, <1>3, <2>1
  <2> QED
    BY <2>1, <2>2, <2>3
<1>6. CASE Drained(c) \/ DrainGivesUp(c) \/ Launch(c) \/ Returns(c) \/ Timeout(c) \/ CleanAfterTimeout(c)
  <2>1. /\ counted' = counted /\ Id(c)' = Id(c) /\ Cell(c)' = Cell(c)
        /\ pc[c] \in Pcs /\ pc'[c] \in Pcs
    BY <1>0, <1>4, <1>6 DEF Drained, DrainGivesUp, Launch, Returns, Timeout, CleanAfterTimeout, At, Goto,
       outside
  <2> QED
    BY <1>2, <2>1
<1>7. CASE Stats(c)
  <2>1. /\ pc[c] = "stats" /\ pc'[c] = "merge" /\ Id(c)' = Id(c) /\ got'[c] = counted[Cell(c).router]
    BY <1>0, <1>4, <1>7 DEF Stats, At, Goto
  <2> QED
    BY <1>2, <2>1
<1>8. CASE Merge(c)
  <2>1. /\ pc[c] = "merge" /\ pc'[c] = "report" /\ Id(c)' = Id(c) /\ Cell(c)' = Cell(c)
        /\ disk' = IF disk[Cell(c).tag].export \in {None, Torn} THEN disk
                   ELSE [disk EXCEPT ![Cell(c).tag].stats = [by |-> Id(c), of |-> got[c]]]
    BY <1>0, <1>4, <1>8 DEF Merge, At, Goto
  <2>2. CASE disk[Cell(c).tag].export \in {None, Torn}
    BY <2>1, <2>2
  <2>3. CASE disk[Cell(c).tag].export \notin {None, Torn}
    <3>1. disk'[Cell(c).tag].stats = [by |-> Id(c), of |-> got[c]]
      BY <1>3, <2>1, <2>3 DEF TypedInv, FilesInv
    <3> QED
      BY <1>2, <2>1, <3>1
  <2> QED
    BY <2>2, <2>3
<1>9. CASE Start(c) \/ BackendsReady(c) \/ Clean(c) \/ Report(c) \/ ReportFails(c)
           \/ CallFails(c) \/ Crash(c) \/ Rerun(c)
  <2>1. pc'[c] \in {"wait", "clean", "reset", "done", "aborted", "crashed", "start"}
    BY <1>0, <1>9 DEF Start, BackendsReady, Clean, Report, Advance, ReportFails, CallFails, Crash, Rerun,
       Goto
  <2> QED
    BY <2>1
<1>10. CASE Passive(c)
  <2>0. Running = {c} /\ \A p \in procs : p.id \in Ids /\ p.id[1] = c
    BY <1>1, TitleIsAlone
  <2>1. pc'[c] = pc[c] /\ got'[c] = got[c] /\ Id(c)' = Id(c) /\ Cell(c)' = Cell(c)
    BY <1>0, <1>10, CellTerms DEF Passive
  <2>2. CASE UNCHANGED <<counted, engine, disk>> \/ \E id \in engine : Answers(id)
    <3>1. UNCHANGED <<counted, disk>>
      BY <2>2 DEF Answers, results
    <3> QED
      BY <1>2, <2>1, <3>1
  <2>3. ASSUME NEW p \in procs, ClientWrites(p, "export") \/ ClientWrites(p, "metrics") PROVE Now(c)'
    <3>1. p.kind # "worker" /\ counted' = counted
      BY <2>3 DEF ClientWrites, outside
    <3>2. pc[c] # "report"
      BY <1>1, <3>1 DEF AloneInv, AfterPcs
    <3> QED
      BY <1>2, <2>1, <3>1, <3>2
  <2>4. ASSUME NEW p \in procs, Sends(p) PROVE Now(c)'
    <3>1. disk' = disk /\ counted' = [counted EXCEPT ![p.router] = @ \cup {p.id}]
      BY <2>4 DEF Sends, results
    <3>2. pc[c] \in Pcs => p.id = Id(c)
      BY <1>1 DEF AloneInv, AfterPcs, EmptyPcs
    <3>3. counted'[Cell(c).router] \subseteq counted[Cell(c).router] \cup {p.id}
      BY <1>0, <1>3, <3>1
    <3> QED
      BY <1>2, <2>1, <3>1, <3>2, <3>3
  <2> QED
    BY <1>10, <2>0, <2>2, <2>3, <2>4, PassiveMoves
<1> QED
  BY <1>5, <1>6, <1>7, <1>8, <1>9, <1>10, OwnOrPassive DEF Step

(* In an emptied directory only the cell's own client writes.                *)
LEMMA WipedStep ==
    ASSUME TypedInv, ProcsInv, SideBySide(scene), AloneInv, WipedInv, [Next]_vars
    PROVE  WipedInv'
<1>0. /\ scene' = scene /\ Running' = Running
      /\ pc \in [Running -> Ended \cup {"start", "wait", "clean", "reset", "drain", "launch",
                                          "run", "expired", "stats", "merge", "report"}]
  BY SceneStays, SceneTerms DEF TypedInv, TypeOK
<1> DEFINE Pcs == {"run"} \cup AfterPcs
           Now(c) == pc[c] \in Pcs => /\ disk[Cell(c).tag].export \in {None, Id(c)}
                                      /\ disk[Cell(c).tag].metrics \in {None, Id(c)}
<1> SUFFICES ASSUME NEW c \in Running, P(c)'.cell.wipes PROVE Now(c)'
  BY <1>0 DEF WipedInv
<1> USE DEF AfterPcs
<1>1. P(c).cell.wipes /\ ByTitles(c)
  <2>1. P(c).cell.wipes
    BY <1>0 DEF P
  <2> QED
    BY <2>1, SceneOf DEF TypedInv, TypeOK, Common, ByTitles
<1>2. Now(c)
  BY <1>1 DEF WipedInv
<1>3. /\ Cell(c).tag \in Tags /\ Tag(Id(c)) = Cell(c).tag
      /\ disk \in [Tags -> [export : Ids \cup {None, Torn},
                            stats : [by : Ids, of : SUBSET Ids] \cup {None},
                            metrics : Ids \cup {None}]]
  BY AttemptOf DEF TypedInv, FilesInv
<1>4. UNCHANGED script /\ cell' = cell => Id(c)' = Id(c) /\ Cell(c)' = Cell(c)
  BY CellTerms DEF script
<1>5. CASE Launch(c)
  <2>1. disk' = [disk EXCEPT ![Cell(c).tag] = NoResult] /\ Cell(c)' = Cell(c)
    BY <1>1, <1>4, <1>5 DEF Launch
  <2>2. disk'[Cell(c).tag] = NoResult
    BY <1>3, <2>1
  <2> QED
    BY <2>1, <2>2 DEF NoResult
<1>6. CASE Returns(c) \/ Timeout(c) \/ CleanAfterTimeout(c) \/ Stats(c)
  <2>1. disk' = disk /\ Id(c)' = Id(c) /\ Cell(c)' = Cell(c) /\ pc[c] \in Pcs
    BY <1>4, <1>6 DEF Returns, Timeout, CleanAfterTimeout, Stats, At, results
  <2> QED
    BY <1>2, <2>1
<1>7. CASE Merge(c)
  <2>1. /\ pc[c] = "merge" /\ Id(c)' = Id(c) /\ Cell(c)' = Cell(c)
        /\ disk' = disk \/ \E s : disk' = [disk EXCEPT ![Cell(c).tag].stats = s]
    BY <1>4, <1>7 DEF Merge, At
  <2>2. /\ disk'[Cell(c).tag].export = disk[Cell(c).tag].export
        /\ disk'[Cell(c).tag].metrics = disk[Cell(c).tag].metrics
    <3>1. CASE disk' = disk
      BY <3>1
    <3>2. ASSUME NEW s, disk' = [disk EXCEPT ![Cell(c).tag].stats = s]
          PROVE  /\ disk'[Cell(c).tag].export = disk[Cell(c).tag].export
                 /\ disk'[Cell(c).tag].metrics = disk[Cell(c).tag].metrics
      <4>1. disk'[Cell(c).tag] = [disk[Cell(c).tag] EXCEPT !.stats = s]
        BY <1>3, <3>2
      <4> QED
        BY <1>3, <4>1
    <3> QED
      BY <2>1, <3>1, <3>2
  <2> QED
    BY <1>2, <2>1, <2>2
<1>8. CASE Start(c) \/ BackendsReady(c) \/ Clean(c) \/ Reset(c) \/ Drained(c) \/ DrainGivesUp(c)
           \/ Report(c) \/ ReportFails(c) \/ CallFails(c) \/ Crash(c) \/ Rerun(c)
  <2>1. pc'[c] \notin Pcs
    BY <1>0, <1>8 DEF Start, BackendsReady, Clean, Reset, Drained, DrainGivesUp, Report, Advance,
       ReportFails, CallFails, Crash, Rerun, Goto
  <2> QED
    BY <2>1
<1>9. CASE Passive(c)
  <2>0. Running = {c}
    BY <1>1, TitleIsAlone
  <2>1. pc'[c] = pc[c] /\ Id(c)' = Id(c) /\ Cell(c)' = Cell(c)
    BY <1>0, <1>9, CellTerms DEF Passive
  <2>2. CASE \/ UNCHANGED <<counted, engine, disk>>
             \/ \E p \in procs : Sends(p)
             \/ \E id \in engine : Answers(id)
    <3>1. disk' = disk
      BY <2>2 DEF Sends, Answers, results
    <3> QED
      BY <1>2, <2>1, <3>1
  <2>3. ASSUME NEW p \in procs, ClientWrites(p, "export") \/ ClientWrites(p, "metrics"), pc[c] \in Pcs
        PROVE  Now(c)'
    <3>1. p.id = Id(c)
      BY <1>1, <2>3 DEF AloneInv
    <3>2. \/ disk' = [disk EXCEPT ![Cell(c).tag] = [@ EXCEPT !.export = Id(c), !.stats = None]]
          \/ disk' = [disk EXCEPT ![Cell(c).tag] = [@ EXCEPT !.metrics = Id(c)]]
      BY <1>3, <2>3, <3>1 DEF ClientWrites
    <3>3. \/ disk'[Cell(c).tag] = [disk[Cell(c).tag] EXCEPT !.export = Id(c), !.stats = None]
          \/ disk'[Cell(c).tag] = [disk[Cell(c).tag] EXCEPT !.metrics = Id(c)]
      BY <1>3, <3>2
    <3>4. /\ disk'[Cell(c).tag].export \in {disk[Cell(c).tag].export, Id(c)}
          /\ disk'[Cell(c).tag].metrics \in {disk[Cell(c).tag].metrics, Id(c)}
      <4>1. PICK d : d = disk[Cell(c).tag]
        OBVIOUS
      <4>2. DOMAIN d = {"export", "stats", "metrics"}
        BY <1>3, <4>1
      <4> QED
        BY <3>3, <4>1, <4>2
    <3> QED
      BY <1>2, <2>1, <2>3, <3>4
  <2> QED
    BY <1>9, <2>0, <2>1, <2>2, <2>3, PassiveMoves
<1> QED
  BY <1>5, <1>6, <1>7, <1>8, <1>9, OwnOrPassive DEF Step

(* An empty engine stays empty until the start of the client.                *)
LEMMA DrainStep ==
    ASSUME TypedInv, ProcsInv, SideBySide(scene), AloneInv, DrainInv, [Next]_vars
    PROVE  DrainInv'
<1>0. /\ scene' = scene /\ Running' = Running
      /\ pc \in [Running -> Ended \cup {"start", "wait", "clean", "reset", "drain", "launch",
                                          "run", "expired", "stats", "merge", "report"}]
      /\ gave \in [Running -> BOOLEAN]
  BY SceneStays, SceneTerms DEF TypedInv, TypeOK
<1> SUFFICES ASSUME NEW c \in Running, P(c)'.cell.drains, pc'[c] = "launch"
             PROVE  gave'[c] \/ engine' = {}
  BY <1>0 DEF DrainInv
<1>1. P(c).cell.drains /\ ByTitles(c)
  <2>1. P(c).cell.drains
    BY <1>0 DEF P
  <2> QED
    BY <2>1, SceneOf DEF TypedInv, TypeOK, Common, ByTitles
<1>2. CASE Drained(c)
  BY <1>2 DEF Drained, outside
<1>3. CASE DrainGivesUp(c)
  BY <1>0, <1>3 DEF DrainGivesUp
<1>4. CASE Reset(c)
  BY <1>0, <1>1, <1>4 DEF Reset, Goto
<1>5. CASE Start(c) \/ BackendsReady(c) \/ Clean(c) \/ Launch(c) \/ Returns(c) \/ Timeout(c)
           \/ CleanAfterTimeout(c) \/ Stats(c) \/ Merge(c) \/ Report(c) \/ ReportFails(c)
           \/ CallFails(c) \/ Crash(c) \/ Rerun(c)
  <2>1. pc'[c] # "launch"
    BY <1>0, <1>5 DEF Start, BackendsReady, Clean, Launch, Returns, Timeout, CleanAfterTimeout, Stats,
       Merge, Report, Advance, ReportFails, CallFails, Crash, Rerun, Goto
  <2> QED
    BY <2>1
<1>6. CASE Passive(c)
  <2>1. pc[c] = "launch" /\ gave'[c] = gave[c] /\ (gave[c] \/ engine = {})
    BY <1>1, <1>6 DEF Passive, DrainInv
  <2>2. procs = {} /\ Running = {c}
    BY <1>1, <2>1, TitleIsAlone DEF AloneInv, EmptyPcs
  <2>3. UNCHANGED <<counted, engine, disk>> \/ \E id \in engine : Answers(id)
    BY <1>6, <2>2, PassiveMoves
  <2> QED
    BY <2>1, <2>3 DEF Answers
<1> QED
  BY <1>2, <1>3, <1>4, <1>5, <1>6, OwnOrPassive DEF Step

(* A line is printed by the report of its script alone.                      *)
LEMMA LineMoves ==
    ASSUME TypedInv, [Next]_vars, NEW c \in Running
    PROVE  line'[c] = line[c] \/ Report(c)
<1>1. ASSUME Step(c), ~Report(c) PROVE line' = line
  BY <1>1 DEF Step, Start, BackendsReady, Clean, Reset, Drained, DrainGivesUp, Launch, Returns, Timeout,
     CleanAfterTimeout, Stats, Merge, ReportFails, results
<1>2. ASSUME CallFails(c) \/ Crash(c) \/ Rerun(c) PROVE line' = line
  BY <1>2 DEF CallFails, Crash, Rerun, results
<1> QED
  BY <1>1, <1>2, OwnOrPassive DEF Passive

(* What a line says, when it is printed.                                     *)
LEMMA LinePrinted ==
    ASSUME TypedInv, NEW c \in Running, Report(c)
    PROVE  \/ line'[c] = [NoLine EXCEPT !.id = Id(c)]
           \/ line'[c] = Read(c) /\ disk[Cell(c).tag].export \notin {None, Torn}
<1>1. DOMAIN line = Running
  BY DEF TypedInv, FilesInv
<1> QED
  BY <1>1 DEF Report

(* A line of a script that cleans up by title counts the cell's own requests. *)
LEMMA StatsStep ==
    ASSUME TypedInv, ProcsInv, CountedInv, StatsUnmixed, [Next]_vars
    PROVE  StatsUnmixed'
<1>0. scene' = scene /\ Running' = Running
  BY SceneStays, SceneTerms
<1> SUFFICES ASSUME NEW c \in Running, P(c)'.kills.by = "title", line'[c].stats # None
             PROVE  line'[c].stats.of \subseteq {line'[c].id}
  BY <1>0 DEF StatsUnmixed
<1>1. ByTitles(c)
  BY <1>0 DEF ByTitles, P
<1>2. CASE line'[c] = line[c]
  BY <1>1, <1>2 DEF StatsUnmixed, ByTitles
<1>3. CASE Report(c)
  <2>1. CASE line'[c] = [NoLine EXCEPT !.id = Id(c)]
    BY <2>1 DEF NoLine
  <2>2. CASE line'[c] = Read(c) /\ disk[Cell(c).tag].export \notin {None, Torn}
    <3>1. disk[Cell(c).tag].stats.of \subseteq {Id(c)}
      BY <1>1, <1>3, <2>2 DEF CountedInv, Report, At
    <3>2. line'[c].stats = disk[Cell(c).tag].stats /\ line'[c].id = Id(c)
      BY <2>2 DEF Read
    <3> QED
      BY <3>1, <3>2
  <2> QED
    BY <1>3, <2>1, <2>2, LinePrinted
<1> QED
  BY <1>2, <1>3, LineMoves

(* A line of the script that empties the directory is read from its files.   *)
LEMMA FreshStep ==
    ASSUME TypedInv, ProcsInv, WipedInv, FreshResult, [Next]_vars
    PROVE  FreshResult'
<1>0. scene' = scene /\ Running' = Running
  BY SceneStays, SceneTerms
<1> SUFFICES ASSUME NEW c \in Running, P(c)'.cell.wipes PROVE Own(line'[c])
  BY <1>0 DEF FreshResult, Own
<1>1. P(c).cell.wipes
  BY <1>0 DEF P
<1>2. CASE line'[c] = line[c]
  BY <1>1, <1>2 DEF FreshResult
<1>3. CASE Report(c)
  <2>1. CASE line'[c] = [NoLine EXCEPT !.id = Id(c)]
    BY <2>1 DEF NoLine, Own
  <2>2. CASE line'[c] = Read(c)
    <3>1. /\ disk[Cell(c).tag].export \in {None, Id(c)}
          /\ disk[Cell(c).tag].metrics \in {None, Id(c)}
      BY <1>1, <1>3 DEF WipedInv, Report, At, AfterPcs
    <3>2. /\ line'[c].export = disk[Cell(c).tag].export /\ line'[c].id = Id(c)
          /\ line'[c].metrics \in {None, disk[Cell(c).tag].metrics}
      BY <2>2 DEF Read
    <3> QED
      BY <3>1, <3>2 DEF Own
  <2> QED
    BY <1>3, <2>1, <2>2, LinePrinted
<1> QED
  BY <1>2, <1>3, LineMoves

-----------------------------------------------------------------------------
(* The campaign's invariant.                                                 *)
CampaignInv == /\ TypedInv /\ ProcsInv /\ OwnRouterInv /\ AloneInv
               /\ CountedInv /\ WipedInv /\ DrainInv

(* It holds at the start.                                                    *)
LEMMA CampaignStart == Init => CampaignInv /\ StatsUnmixed /\ FreshResult
<1> SUFFICES ASSUME Init PROVE CampaignInv /\ StatsUnmixed /\ FreshResult
  OBVIOUS
<1>1. procs = {} /\ \A c \in Running : pc[c] = "start" /\ line[c] = NoLine
  BY DEF Init
<1>2. ProcsInv /\ OwnRouterInv /\ AloneInv /\ CountedInv /\ WipedInv /\ DrainInv
  BY <1>1 DEF ProcsInv, OwnRouterInv, MeasuredPcs, AloneInv, EmptyPcs, AfterPcs, CountedInv, WipedInv,
     DrainInv
<1>3. StatsUnmixed /\ FreshResult
  BY <1>1 DEF StatsUnmixed, FreshResult, NoLine, Own
<1> QED
  BY <1>2, <1>3, InitTyped DEF CampaignInv

(* Every step keeps it, if the scripts side by side are ones that may be.    *)
LEMMA CampaignStep ==
    ASSUME \A s \in Scenarios : SideBySide(s), CampaignInv, [Next]_vars
    PROVE  CampaignInv'
<1>1. SideBySide(scene)
  BY DEF CampaignInv, TypedInv, TypeOK
<1> QED
  BY <1>1, TypedStep, ProcsStep, OwnRouterStep, AloneStep, CountedStep, WipedStep, DrainStep DEF CampaignInv

(* Whatever clients, scripts and calls fail, and however often a script is    *)
(* started: while a cell is measured, no stray client is running against its  *)
(* router that the cleanup looks for.                                        *)
THEOREM NoStrayClients ==
    ASSUME \A s \in Scenarios : SideBySide(s)
    PROVE  Spec => []MeasuredAlone
<1>1. CampaignInv => MeasuredAlone
  BY DEF CampaignInv, OwnRouterInv, MeasuredPcs, MeasuredAlone
<1> QED
  BY <1>1, CampaignStart, CampaignStep, PTL DEF Spec

(* With the cleanup by title, the statistics of a RESULT line count requests  *)
(* of the cell's own client only.                                            *)
THEOREM StatsAreTheCells ==
    ASSUME \A s \in Scenarios : SideBySide(s)
    PROVE  Spec => []StatsUnmixed
<1>1. CampaignInv /\ StatsUnmixed /\ [Next]_vars => StatsUnmixed'
  BY StatsStep DEF CampaignInv
<1> QED
  BY <1>1, CampaignStart, CampaignStep, PTL DEF Spec

(* A script that empties the result directory prints nothing that another     *)
(* attempt has written.                                                      *)
THEOREM ResultsAreFresh ==
    ASSUME \A s \in Scenarios : SideBySide(s)
    PROVE  Spec => []FreshResult
<1>1. CampaignInv /\ FreshResult /\ [Next]_vars => FreshResult'
  BY FreshStep DEF CampaignInv
<1> QED
  BY <1>1, CampaignStart, CampaignStep, PTL DEF Spec

(* The script that drains starts a client on an empty engine, or gave up.    *)
THEOREM StartsDrained ==
    ASSUME \A s \in Scenarios : SideBySide(s)
    PROVE  Spec => DrainedWave
<1>1. CampaignInv => [\A c \in Running :
                          P(c).cell.drains /\ pc[c] = "launch" /\ pc'[c] = "run" =>
                             gave[c] \/ engine = {}]_vars
  BY DEF CampaignInv, DrainInv
<1> QED
  BY <1>1, CampaignStart, CampaignStep, PTL DEF Spec, DrainedWave

(* Of two scripts side by side neither ends the other's client.              *)
THEOREM NeighboursUnharmed ==
    ASSUME \A s \in Scenarios : SideBySide(s)
    PROVE  Spec => OnlyOwnClients
<1>1. CampaignInv /\ [Next]_vars =>
        [\A c, d \in Running :
            c # d /\ P(c).kills.by = "port" /\ pc[c] # pc'[c] /\ pc[d] = pc'[d] =>
               \A p \in procs : p.id[1] = d => p \in procs']_vars
  <2> SUFFICES ASSUME CampaignInv, [Next]_vars, NEW c \in Running, NEW d \in Running, c # d,
                      P(c).kills.by = "port", pc[c] # pc'[c], NEW p \in procs, p.id[1] = d
               PROVE  p \in procs'
    OBVIOUS
  <2>1. p.router # Cell(c).router /\ p.id # Id(c)
    <3>1. SideBySide(scene)
      BY DEF CampaignInv, TypedInv, TypeOK
    <3>2. p.router # Cell(c).router
      BY <3>1, RoutersApart DEF CampaignInv
    <3> QED
      BY <3>2 DEF Id
  <2>2. ~Finds(c, p) /\ p # Client1(c, "main")
    BY <2>1 DEF Finds, Client1
  <2>3. CASE Start(c) \/ Clean(c) \/ Timeout(c) \/ CleanAfterTimeout(c)
    BY <2>2, <2>3 DEF Start, Clean, Timeout, CleanAfterTimeout, CleanUp
  <2>4. CASE \/ BackendsReady(c) \/ Reset(c) \/ Drained(c) \/ DrainGivesUp(c) \/ Launch(c) \/ Returns(c)
             \/ Stats(c) \/ Merge(c) \/ Report(c) \/ ReportFails(c)
    BY <2>4 DEF BackendsReady, Reset, Drained, DrainGivesUp, Launch, Returns, Stats, Merge, Report,
       ReportFails, outside
  <2>5. CASE CallFails(c) \/ Crash(c) \/ Rerun(c)
    BY <2>1, <2>5 DEF CallFails, Crash, Rerun, outside
  <2>6. ~Passive(c)
    BY DEF Passive
  <2> QED
    BY <2>3, <2>4, <2>5, <2>6, OwnOrPassive DEF Step, CampaignInv
<1> QED
  BY <1>1, CampaignStart, CampaignStep, PTL DEF Spec, OnlyOwnClients
=============================================================================
