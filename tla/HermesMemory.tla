----------------------------- MODULE HermesMemory -----------------------------
(***************************************************************************)
(* The memory demo of the keynote driver (-harness hermes): what the       *)
(* driver believes each agent remembers (memStore), the agent turns that   *)
(* teach and ask for a codename (askHermes), the LLM proxy's slots         *)
(* (llmProxy), the file the store is kept in, and the hooks that rests,    *)
(* re-creations and the memory reset call.  The fleet control that starts  *)
(* turns and rests is KeynoteDriver; here it is reduced to what it grants  *)
(* a turn: one runs only on a running agent, and an agent is checkpointed  *)
(* after its turns ended (waitNotBusy).                                    *)
(*                                                                         *)
(* Hermes itself, inside the agent's sandbox, is outside the repository:   *)
(* it keeps one history per session id, and a message that reached the     *)
(* model stays in the history through checkpoints.                         *)
(***************************************************************************)
EXTENDS Integers, FiniteSets

CONSTANTS
    Agents,
    Turns,          \* the goroutines that may be in askHermes at one time
    MaxGen,         \* bound: generations
    MaxRests,       \* bound: checkpoints of one agent
    MaxAttempts,    \* 6 in the source
    Scenarios       \* what may happen in one behaviour besides turns and rests

AllEvents == { "reset",       \* the operator resets the memory
               "crash",       \* the driver's process ends and starts again
               "write",       \* the memory file cannot be written
               "timeout",     \* atenet answers 504 while Hermes works on
               "join",        \* overload traffic: two turns of one agent
               "patience",    \* waitNotBusy gives up after 10 s
               "recreate",    \* preflight deletes and re-creates an agent
               "lostCreate" } \* CreateActor takes effect, its answer is lost

ASSUME ConstantAssumption ==
    /\ IsFiniteSet(Agents) /\ Agents # {} /\ IsFiniteSet(Turns)
    /\ MaxGen \in Nat \ {0} /\ MaxRests \in Nat /\ MaxAttempts \in Nat \ {0}
    /\ Scenarios \subseteq SUBSET AllEvents

VARIABLES
    gen, mem, dirty,    \* memStore
    disk,               \* hermes_memory.json
    saver,              \* the goroutine of hermesInit, in save
    reset,              \* the handler of POST /api/memory/reset
    okCalls,            \* slots[a].okCalls > 0
    turn,               \* the turns in askHermes
    life,               \* where each agent is between running and at rest
    hermes,             \* what Hermes does with the message of each turn
    learnt,             \* per agent and generation: rests before Hermes first knew
                        \* the codename, or Unknown
    rests,              \* checkpoints each agent really went through
    proved,             \* per agent and generation: the most rests a right answer spanned
    crossed,            \* the agents of which a turn was under way when the generation changed
    may

store   == <<gen, mem, dirty>>
driver  == <<store, saver, reset, okCalls, turn>>
sandbox == <<hermes, learnt, rests, proved>>
vars    == <<driver, disk, life, sandbox, crossed, may>>

Gens    == 1..MaxGen
Unknown == -1
fresh   == [taught |-> FALSE, rests |-> 0, restsAtTeach |-> 0, survived |-> 0]
noFile  == [gen |-> 1, agents |-> [a \in Agents |-> fresh]]   \* what a start without a file uses

Quiet == [pc |-> "idle", agent |-> CHOOSE a \in Agents : TRUE, gen |-> 1, kind |-> "taught",
          tries |-> 0, right |-> FALSE]

Busy(a)    == \E t \in Turns : turn[t].pc # "idle" /\ turn[t].agent = a    \* reqBusy > 0
Resting(a) == life[a] # "running"                                          \* agentResting
Awake(a)   == life[a] \in {"running", "marked"}                            \* its sandbox runs
Knows(a, g) == learnt[a][g] # Unknown

(* A turn that has not ended, or whose call Hermes has not finished.        *)
Live(t) == turn[t].pc # "idle" \/ hermes[t] # "none"

Init ==
    /\ gen = 1 /\ mem = noFile.agents /\ dirty = FALSE /\ disk = noFile
    /\ saver = [pc |-> "idle", raw |-> noFile] /\ reset = "idle"
    /\ okCalls = [a \in Agents |-> FALSE]
    /\ turn = [t \in Turns |-> Quiet]
    /\ life = [a \in Agents |-> "rested"]
    /\ hermes = [t \in Turns |-> "none"]
    /\ learnt = [a \in Agents |-> [g \in Gens |-> Unknown]]
    /\ rests = [a \in Agents |-> 0]
    /\ proved = [a \in Agents |-> [g \in Gens |-> 0]] /\ crossed = {}
    /\ may \in Scenarios

-----------------------------------------------------------------------------
(* askHermes.  Beginning a turn reads the generation and whether the agent  *)
(* was taught, under m.mu; the slot is reset later, under pmu.              *)
TurnBegin(t, a) ==
    /\ turn[t].pc = "idle" /\ hermes[t] = "none"
    /\ life[a] = "running" /\ (Busy(a) => "join" \in may)
    /\ turn' = [turn EXCEPT ![t] =
           [Quiet EXCEPT !.pc = "slot", !.agent = a, !.gen = gen,
                         !.kind = IF mem[a].taught THEN "recall" ELSE "taught"]]
    /\ UNCHANGED <<store, saver, reset, okCalls, disk, life, sandbox, crossed, may>>

TurnResetSlot(t) ==
    /\ turn[t].pc = "slot"
    /\ okCalls' = [okCalls EXCEPT ![turn[t].agent] = FALSE]
    /\ turn' = [turn EXCEPT ![t].pc = "attempt"]
    /\ UNCHANGED <<store, saver, reset, disk, life, sandbox, crossed, may>>

(* askHermes returns; a call that Hermes has not finished goes on.          *)
Orphan(t) == [turn[t] EXCEPT !.pc = "idle", !.tries = 0, !.right = FALSE]

TurnEnds(t) ==
    IF hermes[t] \in {"working", "relayed"}
    THEN turn' = [turn EXCEPT ![t] = Orphan(t)] /\ UNCHANGED hermes
    ELSE turn' = [turn EXCEPT ![t] = Quiet] /\ hermes' = [hermes EXCEPT ![t] = "none"]

TurnAttempt(t) ==
    /\ turn[t].pc = "attempt"
    /\ IF turn[t].tries > 0 /\ Resting(turn[t].agent) THEN TurnEnds(t)
       ELSE turn' = [turn EXCEPT ![t].pc = "sent", ![t].tries = @ + 1] /\ UNCHANGED hermes
    /\ UNCHANGED <<store, saver, reset, okCalls, disk, life, learnt, rests, proved, crossed, may>>

(* Mutant of TurnRetry: no limit on the attempts.                           *)
TurnRetriesForever(t) ==
    /\ turn[t].pc = "sent" /\ hermes[t] # "relayed"
    /\ hermes' = [hermes EXCEPT ![t] = "none"]
    /\ turn' = [turn EXCEPT ![t].pc = "attempt", ![t].right = FALSE]
    /\ UNCHANGED <<store, saver, reset, okCalls, disk, life, learnt, rests, proved, crossed, may>>

(* A transport error, or a 5xx other than 504: before the message reached   *)
(* Hermes, or after.  Whatever Hermes was doing with it ends.               *)
TurnRetry(t) ==
    /\ turn[t].pc = "sent" /\ hermes[t] # "relayed"
    /\ hermes' = [hermes EXCEPT ![t] = "none"]
    /\ turn' = [turn EXCEPT ![t] = IF @.tries = MaxAttempts THEN Quiet
                                   ELSE [@ EXCEPT !.pc = "attempt", !.right = FALSE]]
    /\ UNCHANGED <<store, saver, reset, okCalls, disk, life, learnt, rests, proved, crossed, may>>

(* 504: atenet gave up waiting; Hermes may still be working.  Any other     *)
(* status below 500, or a reply that cannot be read, ends the turn too.     *)
TurnGivesUp(t) ==
    /\ turn[t].pc = "sent" /\ ("timeout" \in may \/ hermes[t] \notin {"working", "relayed"})
    /\ TurnEnds(t)
    /\ UNCHANGED <<store, saver, reset, okCalls, disk, life, learnt, rests, proved, crossed, may>>

TurnAnswered(t) ==
    /\ turn[t].pc = "sent" /\ hermes[t] \in {"relayed", "done"}
    /\ turn' = [turn EXCEPT ![t].pc = "answered"]
    /\ UNCHANGED <<store, saver, reset, okCalls, disk, life, sandbox, crossed, may>>

(* Mutant of TurnChecksSlot: every reply is a success.                      *)
TurnTrustsReply(t) ==
    /\ turn[t].pc = "answered"
    /\ turn' = [turn EXCEPT ![t].pc = "record"]
    /\ UNCHANGED <<store, saver, reset, okCalls, disk, life, sandbox, crossed, may>>

(* A reply is a success only if the proxy saw a successful call.            *)
TurnChecksSlot(t) ==
    /\ turn[t].pc = "answered"
    /\ IF okCalls[turn[t].agent]
       THEN turn' = [turn EXCEPT ![t].pc = "record"] /\ UNCHANGED hermes
       ELSE TurnEnds(t)
    /\ UNCHANGED <<store, saver, reset, okCalls, disk, life, learnt, rests, proved, crossed, may>>

(* Mutant of TurnRecords: the rests at the time of teaching are not kept.   *)
TurnForgetsRests(t) ==
    LET a == turn[t].agent
        m == mem[a]
    IN  /\ turn[t].pc = "record"
        /\ mem' = [mem EXCEPT ![a] =
               IF turn[t].kind = "taught" THEN [m EXCEPT !.taught = TRUE]
               ELSE IF turn[t].right THEN [m EXCEPT !.survived = m.rests - m.restsAtTeach]
               ELSE m]
        /\ dirty' = TRUE
        /\ TurnEnds(t)
        /\ UNCHANGED <<gen, saver, reset, okCalls, disk, life, learnt, rests, proved, crossed, may>>

TurnRecords(t) ==
    LET a == turn[t].agent
        m == mem[a]
    IN  /\ turn[t].pc = "record"
        /\ mem' = [mem EXCEPT ![a] =
               IF turn[t].kind = "taught"
               THEN [m EXCEPT !.taught = TRUE, !.restsAtTeach = m.rests]
               ELSE IF turn[t].right THEN [m EXCEPT !.survived = m.rests - m.restsAtTeach]
               ELSE m]
        /\ dirty' = TRUE
        /\ TurnEnds(t)
        /\ UNCHANGED <<gen, saver, reset, okCalls, disk, life, learnt, rests, proved, crossed, may>>

-----------------------------------------------------------------------------
(* Hermes and the LLM proxy.  The proxy relays the model's answer and then  *)
(* records the call in the slot of the agent: whose turn it is by then, it  *)
(* does not know.                                                           *)
HermesEnds(t) ==
    IF turn[t].pc = "idle"
    THEN turn' = [turn EXCEPT ![t] = Quiet] /\ hermes' = [hermes EXCEPT ![t] = "none"]
    ELSE hermes' = [hermes EXCEPT ![t] = "done"] /\ UNCHANGED turn

HermesReceives(t) ==
    /\ turn[t].pc = "sent" /\ hermes[t] = "none" /\ Awake(turn[t].agent)
    /\ hermes' = [hermes EXCEPT ![t] = "working"]
    /\ UNCHANGED <<driver, disk, life, learnt, rests, proved, crossed, may>>

ModelAnswers(t) ==
    LET a == turn[t].agent
        g == turn[t].gen
        span == rests[a] - learnt[a][g]
    IN  /\ hermes[t] = "working" /\ Awake(a)
        /\ hermes' = [hermes EXCEPT ![t] = "relayed"]
        /\ IF turn[t].kind = "taught"
           THEN /\ learnt' = [learnt EXCEPT ![a][g] = IF Knows(a, g) THEN @ ELSE rests[a]]
                /\ UNCHANGED <<turn, proved>>
           ELSE \E right \in IF Knows(a, g) THEN BOOLEAN ELSE {FALSE} :
                /\ turn' = [turn EXCEPT ![t].right = right]
                /\ proved' = IF right /\ span > proved[a][g]
                             THEN [proved EXCEPT ![a][g] = span] ELSE proved
                /\ UNCHANGED learnt
        /\ UNCHANGED <<store, saver, reset, okCalls, disk, life, rests, crossed, may>>

ModelFails(t) ==
    /\ hermes[t] = "working" /\ Awake(turn[t].agent)
    /\ HermesEnds(t)
    /\ UNCHANGED <<store, saver, reset, okCalls, disk, life, learnt, rests, proved, crossed, may>>

ProxyRecords(t) ==
    /\ hermes[t] = "relayed"
    /\ okCalls' = [okCalls EXCEPT ![turn[t].agent] = TRUE]
    /\ HermesEnds(t)
    /\ UNCHANGED <<store, saver, reset, disk, life, learnt, rests, proved, crossed, may>>

-----------------------------------------------------------------------------
(* save: the snapshot is taken and dirty cleared under m.mu, the file is    *)
(* written afterwards and renamed into place.                               *)
SaveSnapshot ==
    /\ saver.pc = "idle" /\ dirty
    /\ saver' = [pc |-> "write", raw |-> [gen |-> gen, agents |-> mem]]
    /\ dirty' = FALSE
    /\ UNCHANGED <<gen, mem, reset, okCalls, turn, disk, life, sandbox, crossed, may>>

(* Mutant of SaveFile: dirty is cleared when the file was written.          *)
SaveFileClearsDirty ==
    /\ saver.pc = "write"
    /\ saver' = [pc |-> "idle", raw |-> noFile]
    /\ disk' = saver.raw \/ ("write" \in may /\ disk' = disk)
    /\ dirty' = FALSE
    /\ UNCHANGED <<gen, mem, reset, okCalls, turn, life, sandbox, crossed, may>>

SaveFile ==
    /\ saver.pc = "write"
    /\ saver' = [pc |-> "idle", raw |-> noFile]
    /\ disk' = saver.raw \/ ("write" \in may /\ disk' = disk)
    /\ UNCHANGED <<store, reset, okCalls, turn, life, sandbox, crossed, may>>

-----------------------------------------------------------------------------
(* The hooks, and the part of the fleet control that calls them.            *)
RestMark(a) ==
    /\ life[a] = "running" /\ rests[a] < MaxRests
    /\ life' = [life EXCEPT ![a] = "marked"]
    /\ UNCHANGED <<driver, disk, sandbox, crossed, may>>

(* A checkpoint takes longer than the proxy needs to record a call it has   *)
(* relayed.                                                                 *)
Checkpoint(a) ==
    /\ life[a] = "marked" /\ (Busy(a) => "patience" \in may)
    /\ \A t \in Turns : turn[t].agent = a => hermes[t] # "relayed"
    /\ rests' = [rests EXCEPT ![a] = @ + 1]
    /\ life' = [life EXCEPT ![a] = "checkpointed"]
    /\ UNCHANGED <<driver, disk, hermes, learnt, proved, crossed, may>>

memRested(a) ==
    /\ life[a] = "checkpointed"
    /\ life' = [life EXCEPT ![a] = "rested"]
    /\ mem' = [mem EXCEPT ![a].rests = @ + 1] /\ dirty' = TRUE
    /\ UNCHANGED <<gen, saver, reset, okCalls, turn, disk, sandbox, crossed, may>>

memWoke(a) ==
    /\ life[a] = "rested"
    /\ life' = [life EXCEPT ![a] = "running"]
    /\ dirty' = TRUE
    /\ UNCHANGED <<gen, mem, saver, reset, okCalls, turn, disk, sandbox, crossed, may>>

Recreate(a) ==
    /\ life[a] = "rested" /\ ~Busy(a) /\ "recreate" \in may
    /\ life' = [life EXCEPT ![a] = "recreated"]
    /\ learnt' = [learnt EXCEPT ![a] = [g \in Gens |-> Unknown]]
    /\ hermes' = [t \in Turns |-> IF turn[t].agent = a THEN "none" ELSE hermes[t]]
    /\ turn' = [t \in Turns |-> IF turn[t].agent = a THEN Quiet ELSE turn[t]]
    /\ UNCHANGED <<store, saver, reset, okCalls, disk, rests, proved, crossed, may>>

memForget(a) ==
    /\ life[a] = "recreated"
    /\ life' = [life EXCEPT ![a] = "rested"]
    /\ mem' = [mem EXCEPT ![a] = fresh] /\ dirty' = TRUE
    /\ UNCHANGED <<gen, saver, reset, okCalls, turn, disk, sandbox, crossed, may>>

(* The actor exists, but every further CreateActor answers AlreadyExists,   *)
(* so recreate returns an error and memForget is not called.                *)
RecreateFails(a) ==
    /\ life[a] = "recreated" /\ "lostCreate" \in may
    /\ life' = [life EXCEPT ![a] = "rested"]
    /\ UNCHANGED <<driver, disk, sandbox, crossed, may>>

(* The handler looks at the driver's phase and its busy flag, and no        *)
(* further: while it is idle, agents run that a wake-only burst has left    *)
(* running, a pause that suspend-all did not wait for goes on, and so does  *)
(* a turn.  Only preflight and reconcile, which re-create agents, are busy. *)
(* The lock is given up before memReset takes the other one, so a burst can *)
(* begin in between.                                                        *)
ResetCheck ==
    /\ reset = "idle" /\ gen < MaxGen /\ "reset" \in may
    /\ \A a \in Agents : life[a] # "recreated"
    /\ reset' = "checked"
    /\ UNCHANGED <<store, saver, okCalls, turn, disk, life, sandbox, crossed, may>>

memReset ==
    /\ reset = "checked"
    /\ reset' = "idle"
    /\ gen' = gen + 1 /\ dirty' = TRUE
    /\ mem' = [a \in Agents |-> [fresh EXCEPT !.rests = mem[a].rests]]
    /\ crossed' = crossed \cup {turn[t].agent : t \in {u \in Turns : Live(u)}}
    /\ UNCHANGED <<saver, okCalls, turn, disk, life, sandbox, may>>

(* The process ends and starts again: hermesInit loads the file; turns, the *)
(* saver and the proxy's calls are gone, the agents and Hermes are not.  If *)
(* a reset had not been saved, the file brings the generation before back.  *)
Restart ==
    /\ "crash" \in may
    /\ gen' = disk.gen /\ mem' = disk.agents /\ dirty' = FALSE
    /\ saver' = [pc |-> "idle", raw |-> noFile] /\ reset' = "idle"
    /\ okCalls' = [a \in Agents |-> FALSE]
    /\ turn' = [t \in Turns |-> IF hermes[t] = "working" THEN Orphan(t) ELSE Quiet]
    /\ hermes' = [t \in Turns |-> IF hermes[t] = "working" THEN "working" ELSE "none"]
    /\ life' = [a \in Agents |-> IF Awake(a) THEN "running" ELSE "rested"]
    /\ crossed' = IF disk.gen = gen THEN crossed
                  ELSE crossed \cup {turn[t].agent : t \in {u \in Turns : hermes[u] = "working"}}
    /\ UNCHANGED <<disk, learnt, rests, proved, may>>

-----------------------------------------------------------------------------
Turn(t) ==
    \/ \E a \in Agents : TurnBegin(t, a)
    \/ TurnResetSlot(t) \/ TurnAttempt(t) \/ TurnRetry(t) \/ TurnGivesUp(t)
    \/ TurnAnswered(t) \/ TurnChecksSlot(t) \/ TurnRecords(t)

Hermes(t) == HermesReceives(t) \/ ModelAnswers(t) \/ ModelFails(t) \/ ProxyRecords(t)

Fleet(a) == RestMark(a) \/ Checkpoint(a) \/ memRested(a) \/ memWoke(a)
            \/ Recreate(a) \/ memForget(a) \/ RecreateFails(a)

Next ==
    \/ \E t \in Turns : Turn(t) \/ Hermes(t)
    \/ \E a \in Agents : Fleet(a)
    \/ SaveSnapshot \/ SaveFile \/ ResetCheck \/ memReset \/ Restart

Spec == Init /\ [][Next]_vars

-----------------------------------------------------------------------------
(* Types.                                                                   *)
Entry == [taught : BOOLEAN, rests : Nat, restsAtTeach : Nat, survived : Int]
Store == [gen : Gens, agents : [Agents -> Entry]]

TypeOK ==
    /\ gen \in Gens /\ mem \in [Agents -> Entry] /\ dirty \in BOOLEAN
    /\ disk \in Store /\ saver \in [pc : {"idle", "write"}, raw : Store]
    /\ reset \in {"idle", "checked"} /\ okCalls \in [Agents -> BOOLEAN]
    /\ turn \in [Turns -> [pc : {"idle", "slot", "attempt", "sent", "answered", "record"},
                           agent : Agents, gen : Gens, kind : {"taught", "recall"},
                           tries : 0..MaxAttempts, right : BOOLEAN]]
    /\ life \in [Agents -> {"running", "marked", "checkpointed", "rested", "recreated"}]
    /\ hermes \in [Turns -> {"none", "working", "relayed", "done"}]
    /\ learnt \in [Agents -> [Gens -> Int]] /\ rests \in [Agents -> 0..MaxRests]
    /\ proved \in [Agents -> [Gens -> Int]] /\ crossed \subseteq Agents /\ may \subseteq AllEvents

(* A restart loads what the driver knew of an agent; if preflight has       *)
(* re-created it since the file was written, that is wrong.                 *)
Overtaken == {"crash", "recreate"} \subseteq may

(* An agent the driver asks for its codename was given it: its session of   *)
(* the current generation knows it, also after resets, a restart of the     *)
(* driver (which may undo a reset), a turn that was given up and went on,   *)
(* or a call recorded in another turn's slot (hermes.go:44-45, 230).  Not   *)
(* promised of an agent of which a turn crosses a change of the generation: *)
(* askHermes records without comparing the generation (hermes.go:372-376),  *)
(* so there the driver is wrong.  Nor when CreateActor's answer is lost, or *)
(* in what Overtaken names.                                                 *)
TaughtIsKnown ==
    ~Overtaken /\ "lostCreate" \notin may =>
        \A a \in Agents \ crossed : mem[a].taught /\ life[a] # "recreated" => Knows(a, gen)

(* The dashboard never claims more rests between teaching and a correct     *)
(* recall than the agent went through before it answered (hermes.go:60).    *)
(* Not promised of an agent of which a turn crosses a change of the         *)
(* generation, nor when an agent is checkpointed during a turn, nor in what *)
(* Overtaken names.                                                         *)
SurvivedHonest ==
    ~Overtaken /\ "patience" \notin may =>
        \A a \in Agents \ crossed : mem[a].survived <= proved[a][gen]

(* When the saver rests and nothing is marked dirty, a restart finds all    *)
(* there is (hermes.go:53): no update falls between the snapshot, the flag  *)
(* and the file.  Not promised when the file cannot be written.             *)
SavedIsOnDisk ==
    "write" \notin may /\ saver.pc = "idle" /\ ~dirty =>
        disk = [gen |-> gen, agents |-> mem]
=============================================================================
