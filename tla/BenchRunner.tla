----------------------------- MODULE BenchRunner -----------------------------
(* A day0 benchmark campaign: one of src/day0/scripts/run_*.py drives aiperf, cell by
   cell, against a multistage router and prints a RESULT line per cell.  The client
   is a tree of processes that can outlive the script's patience, its own parent or
   the script; its result files, the router's statistics and the engine's queue are
   shared by everything that ever ran for the same tag or router.  The steps are those
   of run_kimik3_llmd_stages_1_to_5.py, which has all of them; BenchScripts says which
   ones a script has.                                                                *)
EXTENDS BenchScripts, FiniteSets

CONSTANTS
    Scenarios,      \* what runs side by side in the pod, and the bounds (record below)
    Campaigns       \* the scripts running at the same time

\* A scenario bounds the cells of a plan (its first ones), how often a script is
\* started, and how many clients fail, calls fail and scripts crash.
ASSUME ScenariosAssumption ==
    \A s \in Scenarios : /\ DOMAIN s.of \subseteq Campaigns /\ DOMAIN s.of # {}
                         /\ \A c \in DOMAIN s.of : s.of[c] \in DOMAIN Scripts
                         /\ {s.cells, s.runs} \subseteq Nat \ {0} /\ s.faults \in Nat

\* What may run side by side: scripts with routers of their own, none of which cleans
\* up by title, which ends every client in the pod.
SideBySide(s) ==
    \A c, d \in DOMAIN s.of : c # d =>
        /\ Scripts[s.of[c]].kills.by # "title"
        /\ \A i \in DOMAIN Scripts[s.of[c]].plan, j \in DOMAIN Scripts[s.of[d]].plan :
             Scripts[s.of[c]].plan[i].router # Scripts[s.of[d]].plan[j].router

VARIABLES
    scene,      \* the scenario of this behaviour
    pc,         \* where it is in main() and run_aiperf
    runs,       \* how often it was started
    cell,       \* the cell it is at
    got,        \* stats_txt: the attempts behind what GET /stats answered
    line,       \* what the line summarize_result printed last was read from
    gave,       \* wait_for_vllm_idle returned at its deadline for this cell
    up,         \* the servers whose /health answers 200
    procs,      \* the client processes alive in the pod
    engine,     \* the attempts with requests in the engine that a script drains
    counted,    \* per router, the attempts whose requests it counted since /reset
    disk,       \* per tag, the result directory
    faults

vars == <<scene, pc, runs, cell, got, line, gave, up, procs, engine, counted, disk, faults>>
script == <<scene, runs>>
results == <<got, line, disk>>
outside == <<up, procs, engine, counted>>

\* An attempt is one execution of a cell by one start of a script.
Running == DOMAIN scene.of
P(c) == Scripts[scene.of[c]]
Cells(c) == {i \in DOMAIN P(c).plan : i <= scene.cells}
Cell(c) == P(c).plan[cell[c]]
Id(c) == <<c, runs[c], cell[c]>>
Ids == Running \X (1..scene.runs) \X (1..scene.cells)
Tag(id) == P(id[1]).plan[id[3]].tag
Tags == {P(c).plan[i].tag : c \in Running, i \in 1..scene.cells}

None == <<>>            \* no such file, no such field
Torn == <<"torn">>      \* a file that json.load cannot read
NoResult == [export |-> None, stats |-> None, metrics |-> None]
NoLine == [id |-> None, export |-> None, stats |-> None, metrics |-> None, hit |-> FALSE]

Client1(c, kind) == [id |-> Id(c), kind |-> kind, router |-> Cell(c).router]
Ended == {"done", "aborted", "crashed"}
At(c, label) == pc[c] = label
Goto(c, label) == pc' = [pc EXCEPT ![c] = label]
Fault == faults < scene.faults /\ faults' = faults + 1

\* cleanup_stray_aiperf: the processes it finds, and their end.  The managers of the
\* client, which the shorter lists of titles miss, send no requests: left out.
FindsAnyPort(c, p) == P(c).kills.by # "nothing"
Finds(c, p) ==
    CASE P(c).kills.by = "title" -> TRUE
      [] P(c).kills.by = "port" -> p.kind = "main" /\ p.router = Cell(c).router
      [] OTHER -> FALSE
CleanUpMains(c) == procs' = {p \in procs : ~(Finds(c, p) /\ p.kind = "main")}
CleanUp(c) == procs' = {p \in procs : ~Finds(c, p)}
-----------------------------------------------------------------------------
Init ==
    /\ scene \in Scenarios
    /\ pc = [c \in Running |-> "start"]
    /\ runs = [c \in Running |-> 1] /\ cell = [c \in Running |-> 1]
    /\ got = [c \in Running |-> {}] /\ line = [c \in Running |-> NoLine]
    /\ gave = [c \in Running |-> FALSE]
    /\ up = {} /\ procs = {}
    /\ engine = {} /\ counted = [r \in Routers |-> {}]
    /\ disk = [t \in Tags |-> NoResult] /\ faults = 0

\* main(): two scripts clean up before they wait for the backends.
Start(c) ==
    /\ At(c, "start") /\ Goto(c, "wait")
    /\ IF P(c).kills.first THEN CleanUp(c) ELSE UNCHANGED procs
    /\ UNCHANGED <<script, results, cell, gave, up, engine, counted, faults>>

\* wait_for_backends: the round in which every server of the script answers.
BackendsReady(c) ==
    /\ At(c, "wait") /\ P(c).waits \subseteq up
    /\ Goto(c, "clean")
    /\ UNCHANGED <<script, results, cell, gave, outside, faults>>

\* run_aiperf, to the first call that can fail.
Clean(c) ==
    /\ At(c, "clean") /\ Goto(c, "reset")
    /\ CleanUp(c)
    /\ UNCHANGED <<script, results, cell, gave, up, engine, counted, faults>>

\* POST /reset: the router starts to count anew.
Reset(c) ==
    /\ At(c, "reset")
    /\ Goto(c, IF P(c).cell.drains THEN "drain" ELSE "launch")
    /\ counted' = [counted EXCEPT ![Cell(c).router] = {}]
    /\ gave' = [gave EXCEPT ![c] = FALSE]
    /\ UNCHANGED <<script, results, cell, up, procs, engine, faults>>

\* An error of POST /reset or GET /stats is not caught: the campaign ends there.
CallFails(c) ==
    /\ pc[c] \in {"reset", "stats"} /\ Fault
    /\ Goto(c, "aborted")
    /\ UNCHANGED <<script, results, cell, gave, outside>>

\* wait_for_vllm_idle: the engine is empty, or 90 seconds are over.
DrainedAtOnce(c) ==
    /\ At(c, "drain")
    /\ Goto(c, "launch")
    /\ UNCHANGED <<script, results, cell, gave, outside, faults>>
Drained(c) ==
    /\ At(c, "drain") /\ engine = {}
    /\ Goto(c, "launch")
    /\ UNCHANGED <<script, results, cell, gave, outside, faults>>

DrainGivesUp(c) ==
    /\ At(c, "drain") /\ Goto(c, "launch")
    /\ gave' = [gave EXCEPT ![c] = TRUE]
    /\ UNCHANGED <<script, results, cell, outside, faults>>

\* The result directory is emptied, or only created, and the client started.
LaunchOver(c) ==
    /\ At(c, "launch") /\ Goto(c, "run")
    /\ procs' = procs \cup {Client1(c, "main"), Client1(c, "worker")}
    /\ UNCHANGED <<script, results, cell, gave, up, engine, counted, faults>>
Launch(c) ==
    /\ At(c, "launch") /\ Goto(c, "run")
    /\ disk' = IF P(c).cell.wipes THEN [disk EXCEPT ![Cell(c).tag] = NoResult] ELSE disk
    /\ procs' = procs \cup {Client1(c, "main"), Client1(c, "worker")}
    /\ UNCHANGED <<script, got, line, cell, gave, up, engine, counted, faults>>

\* subprocess.run returns when the process it started is gone, whatever its status
\* (check=False), or raises after its timeout, having killed that one process.
Returns(c) ==
    /\ At(c, "run") /\ Client1(c, "main") \notin procs
    /\ Goto(c, "stats")
    /\ UNCHANGED <<script, results, cell, gave, outside, faults>>

TimeoutOfDrained(c) ==
    /\ At(c, "run") /\ P(c).cell.drains /\ Client1(c, "main") \in procs
    /\ Goto(c, "expired")
    /\ procs' = procs \ {Client1(c, "main")}
    /\ UNCHANGED <<script, results, cell, gave, up, engine, counted, faults>>
Timeout(c) ==
    /\ At(c, "run") /\ P(c).cell.limited /\ Client1(c, "main") \in procs
    /\ Goto(c, "expired")
    /\ procs' = procs \ {Client1(c, "main")}
    /\ UNCHANGED <<script, results, cell, gave, up, engine, counted, faults>>

CleanAfterTimeout(c) ==
    /\ At(c, "expired") /\ Goto(c, "stats")
    /\ CleanUp(c)
    /\ UNCHANGED <<script, results, cell, gave, up, engine, counted, faults>>

\* GET /stats.
Stats(c) ==
    /\ At(c, "stats") /\ Goto(c, "merge")
    /\ got' = [got EXCEPT ![c] = counted[Cell(c).router]]
    /\ UNCHANGED <<script, line, disk, cell, gave, outside, faults>>

\* The statistics go into the export that is there.  An export that cannot be read is
\* left alone (the exception is swallowed).
Merge(c) ==
    /\ At(c, "merge") /\ Goto(c, "report")
    /\ disk' = IF disk[Cell(c).tag].export \in {None, Torn} THEN disk
               ELSE [disk EXCEPT ![Cell(c).tag].stats = [by |-> Id(c), of |-> got[c]]]
    /\ UNCHANGED <<script, got, line, cell, gave, outside, faults>>

\* summarize_result, and the next cell.  It loads the export unprotected.
Published(router) == IF router = "llmd" THEN Vllm ELSE Sglang
Read(c) ==
    LET d == disk[Cell(c).tag] IN
    [id |-> Id(c), export |-> d.export, stats |-> d.stats,
     metrics |-> IF P(c).result.metrics THEN d.metrics ELSE None,
     hit |-> d.stats # None /\ Published(Cell(c).router) \in P(c).result.hits]
AdvancePast(c) ==
    IF cell[c] \in Cells(c)
    THEN cell' = [cell EXCEPT ![c] = @ + 1] /\ Goto(c, "clean")
    ELSE cell' = cell /\ Goto(c, "done")
Advance(c) ==
    IF cell[c] + 1 \in Cells(c)
    THEN cell' = [cell EXCEPT ![c] = @ + 1] /\ Goto(c, "clean")
    ELSE cell' = cell /\ Goto(c, "done")

Report(c) ==
    /\ At(c, "report") /\ disk[Cell(c).tag].export # Torn
    /\ line' = [line EXCEPT ![c] = IF disk[Cell(c).tag].export = None
                                   THEN [NoLine EXCEPT !.id = Id(c)]        \* WARNING
                                   ELSE Read(c)]
    /\ Advance(c)
    /\ UNCHANGED <<script, got, disk, gave, outside, faults>>

ReportFails(c) ==
    /\ At(c, "report") /\ disk[Cell(c).tag].export = Torn
    /\ Goto(c, "aborted")
    /\ UNCHANGED <<script, results, cell, gave, outside, faults>>

\* The script dies, and its client with it or not.  While it rewrites the export it
\* leaves a torn one.
Crash(c) ==
    /\ pc[c] \notin Ended /\ Fault
    /\ Goto(c, "crashed")
    /\ procs' \in {procs, {p \in procs : p.id # Id(c)}}
    /\ disk' \in {disk} \cup
         (IF At(c, "merge") /\ disk[Cell(c).tag].export # None
          THEN {[disk EXCEPT ![Cell(c).tag].export = Torn]} ELSE {})
    /\ UNCHANGED <<script, got, line, cell, gave, up, engine, counted>>

\* The operator starts the script again.
Rerun(c) ==
    /\ pc[c] \in Ended /\ runs[c] < scene.runs
    /\ Goto(c, "start")
    /\ runs' = [runs EXCEPT ![c] = @ + 1] /\ cell' = [cell EXCEPT ![c] = 1]
    /\ UNCHANGED <<scene, results, gave, outside, faults>>
-----------------------------------------------------------------------------
\* The servers, the client and the engines: not in src/, as the scripts rely on them.
ServerUp(s) ==
    /\ s \notin up /\ \E c \in Running : At(c, "wait")
    /\ up' = up \cup {s}
    /\ UNCHANGED <<script, results, pc, cell, gave, procs, engine, counted, faults>>

ClientWrites(p, file) ==
    /\ p.kind = "main" /\ disk[Tag(p.id)][file] # p.id
    /\ file = "metrics" => P(p.id[1]).result.metrics        \* aiperf --server-metrics
    /\ disk' = [disk EXCEPT ![Tag(p.id)] =
                   IF file = "export" THEN [@ EXCEPT !.export = p.id, !.stats = None]
                                      ELSE [@ EXCEPT !.metrics = p.id]]
    /\ UNCHANGED <<script, got, line, pc, cell, gave, outside, faults>>

ClientEnds(p) ==
    /\ p.kind = "main" /\ disk[Tag(p.id)].export = p.id
    /\ procs' = {q \in procs : q.id # p.id}
    /\ UNCHANGED <<script, results, pc, cell, gave, up, engine, counted, faults>>

\* The process the script waits for fails; its workers may stay behind.
ClientFails(p) ==
    /\ p.kind = "main" /\ Fault
    /\ procs' \in {procs \ {p}, {q \in procs : q.id # p.id}}
    /\ UNCHANGED <<script, results, pc, cell, gave, up, engine, counted>>

\* A worker sends a request: the router counts it and passes it on.  What is in an
\* engine is kept for the script that asks its engine, on the router of that script.
DrainedBy(id) == P(id[1]).cell.drains
Sends(p) ==
    /\ p.kind = "worker"
    /\ engine' = IF DrainedBy(p.id) THEN engine \cup {p.id} ELSE engine
    /\ counted' = [counted EXCEPT ![p.router] = @ \cup {p.id}]
    /\ UNCHANGED <<script, results, pc, cell, gave, up, procs, faults>>

Answers(id) ==
    /\ engine' = engine \ {id}
    /\ UNCHANGED <<script, results, pc, cell, gave, up, procs, counted, faults>>

Step(c) ==
    \/ Start(c) \/ BackendsReady(c) \/ Clean(c) \/ Reset(c) \/ Drained(c) \/ DrainGivesUp(c)
    \/ Launch(c) \/ Returns(c) \/ Timeout(c) \/ CleanAfterTimeout(c) \/ Stats(c) \/ Merge(c)
    \/ Report(c) \/ ReportFails(c)

Environment ==
    \/ \E c \in Running : CallFails(c) \/ Crash(c) \/ Rerun(c)
    \/ \E s \in Servers : ServerUp(s)
    \/ \E p \in procs : \/ ClientWrites(p, "export") \/ ClientWrites(p, "metrics")
                        \/ ClientEnds(p) \/ ClientFails(p) \/ Sends(p)
    \/ \E id \in engine : Answers(id)

Next == Environment \/ \E c \in Running : Step(c)

\* A script that can take a step takes it (it is a running process, and its waits have
\* deadlines, save the one for the backends); the servers come up.
Fairness ==
    /\ \A c \in Campaigns : WF_vars(c \in Running /\ Step(c))
    /\ \A s \in Servers : WF_vars(ServerUp(s))

Spec == Init /\ [][Next]_vars
LiveSpec == Spec /\ Fairness
-----------------------------------------------------------------------------
(* TypeOK: every variable has its type. *)
TypeOK ==
    /\ scene \in Scenarios /\ faults \in 0..scene.faults
    /\ pc \in [Running -> Ended \cup {"start", "wait", "clean", "reset", "drain", "launch",
                                          "run", "expired", "stats", "merge", "report"}]
    /\ runs \in [Running -> 1..scene.runs] /\ cell \in [Running -> 1..scene.cells]
    /\ got \in [Running -> SUBSET Ids] /\ gave \in [Running -> BOOLEAN]
    /\ up \subseteq Servers
    /\ procs \subseteq [id : Ids, kind : {"main", "worker"}, router : Routers]
    /\ engine \subseteq Ids /\ counted \in [Routers -> SUBSET Ids]
    /\ \A t \in DOMAIN disk : /\ disk[t].export \in Ids \cup {None, Torn}
                             /\ disk[t].metrics \in Ids \cup {None}

(* ResultIsOfThisAttempt: a RESULT line is read from files that the attempt it is
   printed for has written. *)
Own(l) == l.export \in {None, l.id} /\ l.metrics \in {None, l.id}
ResultIsOfThisAttempt == \A c \in Running : Own(line[c])

(* FreshResult: the script that empties the result directory before it starts the
   client prints nothing that an earlier campaign, a timed-out client or a client that
   outlived its script has written. *)
FreshResult == \A c \in Running : P(c).cell.wipes => Own(line[c])

(* MeasuredAlone: while a cell is measured no other attempt's client is running
   against the same router: with the cleanup by title no process of one, with the
   cleanup by port at least not the process that owns the result file. *)
MeasuredAlone ==
    \A c \in Running : pc[c] \in {"run", "expired", "stats"} =>
        \A p \in procs : p.router = Cell(c).router =>
            \/ p.id = Id(c)
            \/ P(c).kills.by = "port" /\ p.kind = "worker"
            \/ P(c).kills.by = "nothing"

(* StatsUnmixed: with the cleanup by title the statistics a RESULT line prints count
   requests of the cell's own client only, although orphans of earlier cells, runs and
   crashes sent requests through the same router. *)
StatsUnmixed ==
    \A c \in Running :
        P(c).kills.by = "title" /\ line[c].stats # None => line[c].stats.of \subseteq {line[c].id}

(* OnlyOwnClients: of two campaigns side by side that clean up by the port of their
   router, neither ends the other's client. *)
OnlyOwnClients ==
    [][\A c, d \in Running :
          c # d /\ P(c).kills.by = "port" /\ pc[c] # pc'[c] /\ pc[d] = pc'[d] =>
             \A p \in procs : p.id[1] = d => p \in procs']_vars

(* DrainedWave: the script that drains starts a client only on an empty engine, unless
   it gave up waiting: nothing refills the engine between the wait and the start. *)
DrainedWave ==
    [][\A c \in Running :
          P(c).cell.drains /\ pc[c] = "launch" /\ pc'[c] = "run" =>
             gave[c] \/ engine = {}]_vars

(* CampaignEnds: a script whose clients have a timeout comes to its end, whatever its
   clients and the engine do; one without may wait for its client for ever. *)
CampaignEnds ==
    \A c \in Campaigns :
        (c \in Running /\ pc[c] = "start" /\ P(c).cell.limited)
            ~> (c \in Running /\ pc[c] \in Ended)
=============================================================================
