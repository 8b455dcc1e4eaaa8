----------------------------- MODULE ScoreBoard -----------------------------
(* The scoreboard of the fault-injection lab (src/reliability/lab-webapp/server.py): a
   ThreadingHTTPServer, one thread per request, every thread loading, changing and
   replacing one JSON file under one lock.  The page posts without waiting for the
   reply to its last post, so a player's requests can overtake each other.
   Nicknames, missions and the dates that no order depends on are left out.        *)
EXTENDS Integers

CONSTANTS
    Players, Clues,
    Requests,       \* the requests of a behaviour, each sent once
    Points,         \* "points" of a post, before the server clamps it
    MaxCrashes      \* bound on crashes of the server

ASSUME PointsAssumption == Points \subseteq Int /\ MaxCrashes \in Nat

VARIABLES
    patient,    \* the page waits for each reply before the next post of its player
    clock,      \* time.time()
    file,       \* scoreboard.json
    lock,       \* _lock: the thread that holds it
    req,        \* each request and its handler's local variables
    crashes

vars == <<patient, clock, file, lock, req, crashes>>

None == -1              \* no record of a clue
Free == "free"
ASSUME FreeAssumption == Free \notin Requests

\* A player's record: for every clue its points and solvedAt, and lastScoreAt.  All of
\* it is -1 for a player the file does not hold.
NoClue == [points |-> None, at |-> None]
Unknown == [clues |-> [c \in Clues |-> NoClue], last |-> None]
NoPlayers == [p \in Players |-> Unknown]
Fresh(now) == [Unknown EXCEPT !.last = now]

Calls ==
    [op : {"register", "reset"}, p : Players]
    \cup [op : {"score"}, p : Players, c : Clues, points : Points, revealed : BOOLEAN]
    \cup [op : {"reset_all", "get", "refused"}]
Silent == [ph |-> "idle", call |-> [op |-> "get"], now |-> 0, db |-> NoPlayers]

\* _load_db: an absent file is an empty scoreboard, and os.replace leaves none that
\* cannot be read.
Loaded == file

Clamp(n) == IF n < 0 THEN 0 ELSE IF n > 1000 THEN 1000 ELSE n
EarnedUnclamped(call) == IF call.revealed THEN 0 ELSE call.points
Earned(call) == IF call.revealed THEN 0 ELSE Clamp(call.points)
Earnings == {0} \cup {Clamp(n) : n \in Points}

\* /api/register: a new player, or the record that is there.
Registered(db, p, now) ==
    IF db[p].last = None THEN [db EXCEPT ![p] = Fresh(now)] ELSE db

\* /api/score: the first points of a clue count, later ones are ignored.
Scored(db, call, now) ==
    IF db[call.p].clues[call.c] # NoClue THEN db
    ELSE [db EXCEPT ![call.p] =
             [clues |-> [@.clues EXCEPT ![call.c] = [points |-> Earned(call), at |-> now]],
              last |-> now]]

\* /api/reset-player: an unknown player is left alone.
WipedLate(db, p, now) ==
    IF db[p].last = None THEN db ELSE [db EXCEPT ![p] = [@ EXCEPT !.last = now]]
Wiped(db, p, now) ==
    IF db[p].last = None THEN db ELSE [db EXCEPT ![p] = Fresh(now)]

Changed(db, call, now) ==
    CASE call.op = "register" -> Registered(db, call.p, now)
      [] call.op = "score" -> Scored(db, call, now)
      [] call.op = "reset" -> Wiped(db, call.p, now)
      [] call.op = "reset_all" -> NoPlayers
      [] OTHER -> db
-----------------------------------------------------------------------------
Init ==
    /\ patient \in BOOLEAN /\ clock = 1 /\ file = NoPlayers /\ lock = Free /\ crashes = 0
    /\ req = [r \in Requests |-> Silent]

Is(r, ph) == req[r].ph = ph
Pending(r) == req[r].ph \in {"posted", "loaded", "replaced"}
Of(call) == IF call.op \in {"register", "score", "reset"} THEN {call.p} ELSE {}

\* The page sends a request; do_POST notes the time before it waits for the lock.
Post(r, call) ==
    /\ Is(r, "idle")
    /\ patient => \A q \in Requests : Pending(q) => Of(req[q].call) \cap Of(call) = {}
    /\ req' = [req EXCEPT ![r] = [Silent EXCEPT !.ph = "posted", !.call = call, !.now = clock]]
    /\ clock' = clock + 1
    /\ UNCHANGED <<patient, file, lock, crashes>>

\* A missing field, a wrong password or an unknown path is refused before the lock.
Refuse(r) ==
    /\ Is(r, "posted") /\ req[r].call.op = "refused"
    /\ req' = [req EXCEPT ![r] = [@ EXCEPT !.ph = "done"]]
    /\ UNCHANGED <<patient, clock, file, lock, crashes>>

\* with _lock: db = _load_db(), and the change to it.  /api/reset-scoreboard alone
\* does not load.
EnterUnlocked(r) ==
    /\ Is(r, "posted") /\ req[r].call.op # "refused"
    /\ lock' = r
    /\ req' = [req EXCEPT ![r] = [@ EXCEPT !.ph = "loaded",
                                    !.db = Changed(Loaded, req[r].call, req[r].now)]]
    /\ UNCHANGED <<patient, clock, file, crashes>>
Enter(r) ==
    /\ Is(r, "posted") /\ req[r].call.op # "refused"
    /\ lock = Free /\ lock' = r
    /\ req' = [req EXCEPT ![r] = [req[r] EXCEPT !.ph = "loaded",
                                    !.db = Changed(Loaded, req[r].call, req[r].now)]]
    /\ UNCHANGED <<patient, clock, file, crashes>>

\* _save_db writes a temporary file and puts it in place with os.replace; the lock is
\* released.  A read, and a reset of an unknown player, save nothing.
Leave(r) ==
    /\ Is(r, "loaded")
    /\ file' = IF req[r].call.op = "get" THEN file ELSE req[r].db
    /\ lock' = Free
    /\ req' = [req EXCEPT ![r] = [req[r] EXCEPT !.ph = "replaced", !.db = NoPlayers]]
    /\ UNCHANGED <<patient, clock, crashes>>

Reply(r) ==
    /\ Is(r, "replaced")
    /\ req' = [req EXCEPT ![r] = [req[r] EXCEPT !.ph = "done"]]
    /\ UNCHANGED <<patient, clock, file, lock, crashes>>

\* The server dies and is started again.  What was written so far of the temporary
\* file stays there and is never read.
Crash ==
    /\ crashes < MaxCrashes /\ crashes' = crashes + 1
    /\ lock' = Free
    /\ req' = [r \in Requests |-> IF Pending(r) THEN [req[r] EXCEPT !.ph = "lost", !.db = NoPlayers]
                                  ELSE req[r]]
    /\ UNCHANGED <<patient, clock, file>>

Handle(r) == Refuse(r) \/ Enter(r) \/ Leave(r) \/ Reply(r)

Next ==
    \/ \E r \in Requests : Handle(r) \/ \E call \in Calls : Post(r, call)
    \/ Crash

Spec == Init /\ [][Next]_vars
-----------------------------------------------------------------------------
(* TypeOK: every variable has its type. *)
Solved == [points : 0..1000, at : Nat]
Records == [clues : [Clues -> Solved \cup {NoClue}], last : Nat]
Boards == [Players -> Records \cup {Unknown}]
TypeOK ==
    /\ patient \in BOOLEAN /\ clock \in Nat /\ crashes \in 0..MaxCrashes
    /\ file \in Boards /\ lock \in Requests \cup {Free}
    /\ req \in [Requests -> [ph : {"idle", "posted", "loaded", "replaced", "done", "lost"},
                             call : Calls, now : Nat, db : Boards]]

(* KeepsLedger: the scoreboard implements ScoreLedger: whatever threads interleave and
   wherever the server dies, each request changes the points on file at once and once,
   by its own rule, and no recorded score is lost to another request, overwritten or
   counted twice.                                                                    *)
Meaning(call) ==
    CASE call.op = "score" -> [kind |-> "record", p |-> call.p, c |-> call.c, points |-> Earned(call)]
      [] call.op = "reset" -> [kind |-> "wipe", of |-> {call.p}]
      [] call.op = "reset_all" -> [kind |-> "wipe", of |-> Players]
      [] OTHER -> [kind |-> "wipe", of |-> {}]
PointsOf(db) == [p \in Players |-> [c \in Clues |-> db[p].clues[c].points]]
Unserved == {[id |-> r, call |-> Meaning(req[r].call)] :
                r \in {q \in Requests : req[q].ph \in {"posted", "loaded"}}}
Ledger == INSTANCE ScoreLedger
              WITH ledger <- PointsOf(file), waiting <- Unserved, Amounts <- Earnings
KeepsLedger == Ledger!Spec

(* TieBreakHonest: lastScoreAt, by which the board ranks equal players ("who reached
   that score first"), is the time of the player's latest recorded clue, for a player
   whose posts do not overtake each other.                                           *)
TieBreakHonest ==
    patient => \A p \in Players :
        LET times == {file[p].clues[c].at : c \in Clues} \ {None} IN
        times # {} => file[p].last \in times /\ \A t \in times : t <= file[p].last
=============================================================================
