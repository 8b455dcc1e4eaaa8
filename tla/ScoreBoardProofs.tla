-------------------------- MODULE ScoreBoardProofs --------------------------
(***************************************************************************)
(* The scoreboard keeps its ledger, for every number of players, clues,    *)
(* requests, points and crashes.  The argument: whoever holds the lock has *)
(* the file as it is and the change its request asks for, so replacing the *)
(* file is the one step at which that request takes effect.  For the       *)
(* ranking: a player whose posts do not overtake each other has no clue    *)
(* on file that is younger than the request under way.                     *)
(***************************************************************************)
EXTENDS ScoreBoard, TLAPS

Requested == [ph : {"idle", "posted", "loaded", "replaced", "done", "lost"},
              call : Calls, now : Nat, db : Boards]

(* The thread in the critical section holds the lock and has made its       *)
(* request's change to the file as it still is.                             *)
OneWriter == \A r \in Requests : req[r].ph = "loaded" =>
    lock = r /\ req[r].db = Changed(file, req[r].call, req[r].now)

(* What a clue earns is within the limit of points.                         *)
LEMMA EarnedBounded ==
    ASSUME NEW call \in Calls, call.op = "score"
    PROVE  Earned(call) \in 0..1000 /\ Earned(call) \in Earnings
<1>1. call.points \in Points /\ call.revealed \in BOOLEAN
  BY DEF Calls
<1>2. call.points \in Int
  BY <1>1, PointsAssumption
<1>3. Clamp(call.points) \in 0..1000
  <2>1. CASE call.points < 0
    BY <2>1 DEF Clamp
  <2>2. CASE call.points > 1000
    BY <1>2, <2>2 DEF Clamp
  <2>3. CASE call.points \in 0..1000
    BY <1>2, <2>3 DEF Clamp
  <2> QED BY <1>2, <2>1, <2>2, <2>3
<1>4. Clamp(call.points) \in Earnings
  BY <1>1 DEF Earnings
<1>5. 0 \in Earnings
  BY DEF Earnings
<1> QED BY <1>1, <1>3, <1>4, <1>5 DEF Earned

LEMMA NoPlayersIsBoard == NoPlayers \in Boards
BY DEF NoPlayers, Boards

LEMMA FreshIsRecord == ASSUME NEW now \in Nat PROVE Fresh(now) \in Records
BY DEF Fresh, Unknown, Records

(* Every request turns a scoreboard into a scoreboard.                      *)
LEMMA ChangedIsBoard ==
    ASSUME NEW db \in Boards, NEW call \in Calls, NEW now \in Nat
    PROVE  Changed(db, call, now) \in Boards
<1>1. CASE call.op = "register"
  <2>1. call.p \in Players
    BY <1>1 DEF Calls
  <2> QED BY <1>1, <2>1, FreshIsRecord DEF Changed, Registered, Boards
<1>2. CASE call.op = "score"
  <2>1. call.p \in Players /\ call.c \in Clues
    BY <1>2 DEF Calls
  <2>2. db[call.p].clues \in [Clues -> Solved \cup {NoClue}]
    BY <2>1 DEF Boards, Records, Unknown
  <2>3. [points |-> Earned(call), at |-> now] \in Solved
    BY <1>2, EarnedBounded DEF Solved
  <2>4. [clues |-> [db[call.p].clues EXCEPT ![call.c] = [points |-> Earned(call), at |-> now]],
         last |-> now] \in Records
    BY <2>1, <2>2, <2>3 DEF Records
  <2> QED BY <1>2, <2>1, <2>4 DEF Changed, Scored, Boards
<1>3. CASE call.op = "reset"
  <2>1. call.p \in Players
    BY <1>3 DEF Calls
  <2> QED BY <1>3, <2>1, FreshIsRecord DEF Changed, Wiped, Boards
<1>4. CASE call.op = "reset_all"
  BY <1>4, NoPlayersIsBoard DEF Changed
<1>5. CASE call.op \in {"get", "refused"}
  BY <1>5 DEF Changed
<1> QED BY <1>1, <1>2, <1>3, <1>4, <1>5 DEF Calls

-----------------------------------------------------------------------------
LEMMA InitTyped == Init => TypeOK
<1> SUFFICES ASSUME Init PROVE TypeOK
  OBVIOUS
<1>1. Silent \in Requested
  BY NoPlayersIsBoard DEF Silent, Requested, Calls
<1> QED BY <1>1, NoPlayersIsBoard, PointsAssumption DEF Init, TypeOK, Requested

(* A request that has moved on is still a request.                          *)
LEMMA MovedOn ==
    ASSUME TypeOK, NEW r \in Requests,
           NEW ph \in {"posted", "loaded", "replaced", "done", "lost"}, NEW db \in Boards
    PROVE  [req EXCEPT ![r] = [req[r] EXCEPT !.ph = ph, !.db = db]] \in [Requests -> Requested]
BY DEF TypeOK, Requested

LEMMA StepTyped == TypeOK /\ [Next]_vars => TypeOK'
<1> SUFFICES ASSUME TypeOK, [Next]_vars PROVE TypeOK'
  OBVIOUS
<1>1. ASSUME NEW r \in Requests, NEW call \in Calls, Post(r, call) PROVE TypeOK'
  <2>1. [Silent EXCEPT !.ph = "posted", !.call = call, !.now = clock] \in Requested
    BY NoPlayersIsBoard DEF TypeOK, Silent, Requested
  <2>2. req' \in [Requests -> Requested]
    BY <1>1, <2>1 DEF Post, TypeOK, Requested
  <2> QED BY <1>1, <2>2 DEF Post, TypeOK, Requested
<1>2. ASSUME NEW r \in Requests, Refuse(r) PROVE TypeOK'
  <2>1. req' \in [Requests -> Requested]
    BY <1>2 DEF Refuse, TypeOK, Requested
  <2> QED BY <1>2, <2>1 DEF Refuse, TypeOK, Requested
<1>3. ASSUME NEW r \in Requests, Enter(r) PROVE TypeOK'
  <2>1. Changed(Loaded, req[r].call, req[r].now) \in Boards
    BY ChangedIsBoard DEF TypeOK, Loaded
  <2>2. req' \in [Requests -> Requested]
    BY <1>3, <2>1, MovedOn DEF Enter
  <2> QED BY <1>3, <2>2 DEF Enter, TypeOK, Requested
<1>4. ASSUME NEW r \in Requests, Leave(r) PROVE TypeOK'
  <2>1. req' \in [Requests -> Requested]
    BY <1>4, NoPlayersIsBoard, MovedOn DEF Leave
  <2>2. file' \in Boards
    BY <1>4 DEF Leave, TypeOK
  <2> QED BY <1>4, <2>1, <2>2 DEF Leave, TypeOK, Requested
<1>5. ASSUME NEW r \in Requests, Reply(r) PROVE TypeOK'
  <2>1. req' \in [Requests -> Requested]
    BY <1>5 DEF Reply, TypeOK, Requested
  <2> QED BY <1>5, <2>1 DEF Reply, TypeOK, Requested
<1>6. ASSUME Crash PROVE TypeOK'
  <2>1. ASSUME NEW r \in Requests PROVE req'[r] \in Requested
    BY <1>6, NoPlayersIsBoard DEF Crash, TypeOK, Requested
  <2>2. req' \in [Requests -> Requested]
    BY <1>6, <2>1 DEF Crash
  <2>3. crashes' \in 0..MaxCrashes
    <3>1. crashes < MaxCrashes /\ crashes' = crashes + 1
      BY <1>6 DEF Crash
    <3>2. crashes \in 0..MaxCrashes
      BY DEF TypeOK
    <3>3. MaxCrashes \in Nat
      BY PointsAssumption
    <3> QED BY <3>1, <3>2, <3>3
  <2> QED BY <1>6, <2>2, <2>3 DEF Crash, TypeOK, Requested
<1>7. CASE UNCHANGED vars
  BY <1>7 DEF vars, TypeOK
<1> QED BY <1>1, <1>2, <1>3, <1>4, <1>5, <1>6, <1>7 DEF Next, Handle

(* TypeCorrect: no interleaving and no crash puts into the file, or into a  *)
(* thread's copy of it, anything but a scoreboard: a player is unknown or   *)
(* has a time of the last score, a clue is unsolved or has both a time and  *)
(* points within the limit.                                                 *)
THEOREM TypeCorrect == Spec => []TypeOK
BY InitTyped, StepTyped, PTL DEF Spec

-----------------------------------------------------------------------------
LEMMA StepOneWriter == TypeOK /\ OneWriter /\ [Next]_vars => OneWriter'
<1> SUFFICES ASSUME TypeOK, OneWriter, [Next]_vars,
                    NEW q \in Requests, req'[q].ph = "loaded"
             PROVE  lock' = q /\ req'[q].db = Changed(file', req'[q].call, req'[q].now)
  BY DEF OneWriter
<1>1. ASSUME NEW r \in Requests, NEW call \in Calls, Post(r, call)
      PROVE  q # r /\ req'[q] = req[q] /\ UNCHANGED <<file, lock>>
  BY <1>1 DEF Post, TypeOK, Silent
<1>2. ASSUME NEW r \in Requests, Refuse(r) \/ Reply(r)
      PROVE  q # r /\ req'[q] = req[q] /\ UNCHANGED <<file, lock>>
  BY <1>2 DEF Refuse, Reply, TypeOK
<1>3. ASSUME NEW r \in Requests, Enter(r)
      PROVE  lock' = q /\ req'[q].db = Changed(file', req'[q].call, req'[q].now)
  <2>1. q = r
    BY <1>3, FreeAssumption DEF Enter, OneWriter, TypeOK
  <2>2. req'[r].db = Changed(file, req[r].call, req[r].now)
        /\ req'[r].call = req[r].call /\ req'[r].now = req[r].now
    BY <1>3 DEF Enter, TypeOK, Loaded
  <2> QED BY <1>3, <2>1, <2>2 DEF Enter
<1>4. ASSUME NEW r \in Requests, Leave(r) PROVE FALSE
  BY <1>4 DEF Leave, Is, OneWriter, TypeOK
<1>5. ASSUME Crash PROVE FALSE
  BY <1>5 DEF Crash, Pending, TypeOK
<1>6. CASE UNCHANGED vars
  BY <1>6 DEF vars, OneWriter
<1> QED BY <1>1, <1>2, <1>3, <1>4, <1>5, <1>6 DEF Next, Handle, OneWriter

(* The lock does its work, for every interleaving and crash.                *)
LEMMA WriterCorrect == Spec => [](TypeOK /\ OneWriter)
<1>1. Init => OneWriter
  BY DEF Init, OneWriter, Silent
<1> QED BY <1>1, InitTyped, StepTyped, StepOneWriter, PTL DEF Spec
-----------------------------------------------------------------------------
LEMMA MeaningIsCall ==
    ASSUME NEW call \in Calls
    PROVE  Meaning(call) \in Ledger!Calls
<1>1. CASE call.op = "score"
  <2>1. call.p \in Players /\ call.c \in Clues
    BY <1>1 DEF Calls
  <2> QED BY <1>1, <2>1, EarnedBounded DEF Meaning, Ledger!Calls
<1>2. CASE call.op = "reset"
  <2>1. call.p \in Players
    BY <1>2 DEF Calls
  <2> QED BY <1>2, <2>1 DEF Meaning, Ledger!Calls
<1>3. CASE call.op \notin {"score", "reset"}
  BY <1>3 DEF Meaning, Ledger!Calls
<1> QED BY <1>1, <1>2, <1>3

LEMMA UnknownByTime ==
    ASSUME NEW rec \in Records \cup {Unknown}, rec.last = None
    PROVE  rec = Unknown
<1>1. rec \in Records => rec.last \in Nat
  BY DEF Records
<1>2. None \notin Nat
  BY DEF None
<1> QED BY <1>1, <1>2

LEMMA UnsolvedByPoints ==
    ASSUME NEW clue \in Solved \cup {NoClue}
    PROVE  clue = NoClue <=> clue.points = None
<1>1. clue \in Solved => clue.points \in 0..1000
  BY DEF Solved
<1>2. None \notin 0..1000
  BY DEF None
<1>3. NoClue.points = None
  BY DEF NoClue
<1> QED BY <1>1, <1>2, <1>3

LEMMA FreshClues == ASSUME NEW now PROVE Fresh(now).clues = Unknown.clues
BY DEF Fresh, Unknown

(* The change a handler makes to a scoreboard is the one the ledger gives    *)
(* its request.                                                              *)
LEMMA ChangeIsAfter ==
    ASSUME file \in Boards, NEW call \in Calls, NEW now \in Nat
    PROVE  PointsOf(Changed(file, call, now)) = Ledger!After(Meaning(call))
<1> DEFINE new == Changed(file, call, now)
<1>0. \A p \in Players : file[p] \in Records \cup {Unknown}
  BY DEF Boards
<1>1. CASE call.op = "register"
  <2>1. Meaning(call) = [kind |-> "wipe", of |-> {}] /\ call.p \in Players
    BY <1>1 DEF Meaning, Calls
  <2>2. \A p \in Players : new[p].clues = file[p].clues
    <3>1. new = IF file[call.p].last = None THEN [file EXCEPT ![call.p] = Fresh(now)] ELSE file
      BY <1>1 DEF Changed, Registered
    <3>2. file[call.p].last = None => file[call.p].clues = Fresh(now).clues
      BY <1>0, <2>1, UnknownByTime, FreshClues
    <3> HIDE DEF new
    <3> QED BY <2>1, <3>1, <3>2 DEF Boards
  <2> QED BY <2>1, <2>2 DEF Ledger!After, PointsOf
<1>2. CASE call.op = "score"
  <2> DEFINE p == call.p
             c == call.c
             was == file[p].clues
  <2>1. /\ Meaning(call) = [kind |-> "record", p |-> p, c |-> c, points |-> Earned(call)]
        /\ p \in Players /\ c \in Clues
    BY <1>2 DEF Meaning, Calls
  <2>2. was \in [Clues -> Solved \cup {NoClue}]
    BY <1>0, <2>1 DEF Records, Unknown
  <2>3. was[c] = NoClue <=> was[c].points = None
    BY <2>1, <2>2, UnsolvedByPoints
  <2>4. PointsOf(file)[p][c] = was[c].points
    BY <2>1 DEF PointsOf
  <2>5. CASE was[c] # NoClue
    <3>1. new = file
      BY <1>2, <2>5 DEF Changed, Scored
    <3>2. PointsOf(file)[p][c] # None
      BY <2>3, <2>4, <2>5
    <3>3. Ledger!After(Meaning(call)) = PointsOf(file)
      BY <2>1, <3>2 DEF Ledger!After
    <3> QED BY <3>1, <3>3
  <2>6. CASE was[c] = NoClue
    <3>1. new = [file EXCEPT ![p] =
                    [clues |-> [was EXCEPT ![c] = [points |-> Earned(call), at |-> now]],
                     last |-> now]]
      BY <1>2, <2>6 DEF Changed, Scored
    <3>2. \A q \in Players, d \in Clues :
              new[q].clues[d].points = IF q = p /\ d = c THEN Earned(call) ELSE file[q].clues[d].points
      BY <2>1, <2>2, <3>1 DEF Boards
    <3>3. Ledger!After(Meaning(call)) =
              [PointsOf(file) EXCEPT ![p] = [PointsOf(file)[p] EXCEPT ![c] = Earned(call)]]
      BY <2>1, <2>3, <2>4, <2>6 DEF Ledger!After
    <3> DEFINE sum == [q \in Players |-> [d \in Clues |->
                         IF q = p /\ d = c THEN Earned(call) ELSE file[q].clues[d].points]]
    <3> HIDE DEF new, p, c
    <3>4. PointsOf(new) = sum
      BY <3>2 DEF PointsOf
    <3>5. [PointsOf(file) EXCEPT ![p] = [PointsOf(file)[p] EXCEPT ![c] = Earned(call)]] = sum
      BY <2>1 DEF PointsOf
    <3> HIDE DEF sum
    <3>6. PointsOf(new) = Ledger!After(Meaning(call))
      BY <3>3, <3>4, <3>5
    <3> QED BY <3>6 DEF new
  <2> QED BY <2>5, <2>6
<1>3. CASE call.op = "reset"
  <2>1. Meaning(call) = [kind |-> "wipe", of |-> {call.p}] /\ call.p \in Players
    BY <1>3 DEF Meaning, Calls
  <2>2. \A q \in Players \ {call.p} : new[q] = file[q]
    BY <1>3 DEF Changed, Wiped, Boards
  <2>3. new[call.p].clues = [c \in Clues |-> NoClue]
    <3>1. new = IF file[call.p].last = None THEN file ELSE [file EXCEPT ![call.p] = Fresh(now)]
      BY <1>3 DEF Changed, Wiped
    <3>2. new[call.p].clues = Unknown.clues
      <4> HIDE DEF new
      <4>1. file[call.p].last = None => file[call.p].clues = Unknown.clues
        BY <1>0, <2>1, UnknownByTime
      <4> QED BY <2>1, <3>1, <4>1, FreshClues DEF Boards
    <3>3. Unknown.clues = [c \in Clues |-> NoClue]
      BY DEF Unknown
    <3> QED BY <3>2, <3>3
  <2> QED BY <2>1, <2>2, <2>3 DEF Ledger!After, PointsOf, NoClue
<1>4. CASE call.op = "reset_all"
  <2>1. Meaning(call) = [kind |-> "wipe", of |-> Players] /\ new = NoPlayers
    BY <1>4 DEF Meaning, Changed
  <2> QED BY <2>1 DEF Ledger!After, PointsOf, NoPlayers, Unknown, NoClue
<1>5. CASE call.op \in {"get", "refused"}
  <2>1. Meaning(call) = [kind |-> "wipe", of |-> {}] /\ new = file
    BY <1>5 DEF Meaning, Changed
  <2> QED BY <2>1 DEF Ledger!After, PointsOf
<1> QED BY <1>1, <1>2, <1>3, <1>4, <1>5 DEF Calls

LEMMA StepKeepsLedger ==
    TypeOK /\ TypeOK' /\ OneWriter /\ [Next]_vars => [Ledger!Next]_(Ledger!vars)
<1> SUFFICES ASSUME TypeOK, TypeOK', OneWriter, [Next]_vars
             PROVE  [Ledger!Next]_(Ledger!vars)
  OBVIOUS
<1> DEFINE mark(r) == [id |-> r, call |-> Meaning(req[r].call)]
<1>1. ASSUME NEW r \in Requests, NEW call \in Calls, Post(r, call)
      PROVE  Ledger!Ask(r, Meaning(call))
  <2>1. req' = [req EXCEPT ![r] = [Silent EXCEPT !.ph = "posted", !.call = call, !.now = clock]]
        /\ req[r].ph = "idle" /\ file' = file
    BY <1>1 DEF Post, Is
  <2>2. req'[r].ph = "posted" /\ req'[r].call = call /\ \A q \in Requests \ {r} : req'[q] = req[q]
    BY <2>1 DEF TypeOK, Silent
  <2>3. Unserved' = Unserved \cup {[id |-> r, call |-> Meaning(call)]}
    BY <2>1, <2>2 DEF Unserved
  <2> QED BY <2>1, <2>3 DEF Ledger!Ask
<1>2. ASSUME NEW r \in Requests, Refuse(r) PROVE Ledger!Carry(mark(r))
  <2>1. req' = [req EXCEPT ![r] = [req[r] EXCEPT !.ph = "done"]] /\ req[r].ph = "posted"
        /\ req[r].call.op = "refused" /\ file' = file
    BY <1>2 DEF Refuse, Is
  <2>2. req'[r].ph = "done" /\ \A q \in Requests \ {r} : req'[q] = req[q]
    BY <2>1 DEF TypeOK
  <2>3. Unserved' = Unserved \ {mark(r)}
    BY <2>1, <2>2 DEF Unserved
  <2>4. Meaning(req[r].call) = [kind |-> "wipe", of |-> {}]
    BY <2>1 DEF Meaning
  <2>5. PointsOf(file') = Ledger!After(mark(r).call)
    <3>1. mark(r).call = [kind |-> "wipe", of |-> {}]
      BY <2>4
    <3>2. Ledger!After([kind |-> "wipe", of |-> {}]) = PointsOf(file)
      BY DEF Ledger!After, PointsOf
    <3> HIDE DEF mark
    <3> QED BY <2>1, <3>1, <3>2
  <2> QED BY <2>3, <2>5 DEF Ledger!Carry
<1>3. ASSUME NEW r \in Requests, Enter(r) PROVE UNCHANGED Ledger!vars
  <2>1. req[r].ph = "posted" /\ file' = file /\ \A q \in Requests \ {r} : req'[q] = req[q]
    BY <1>3 DEF Enter, Is, TypeOK
  <2>2. req'[r].ph = "loaded" /\ req'[r].call = req[r].call
    BY <1>3 DEF Enter, TypeOK
  <2>3. Unserved' = Unserved
    BY <2>1, <2>2 DEF Unserved
  <2> QED BY <2>1, <2>3 DEF Ledger!vars
<1>4. ASSUME NEW r \in Requests, Leave(r) PROVE Ledger!Carry(mark(r))
  <2>1. req[r].ph = "loaded" /\ req'[r].ph = "replaced" /\ \A q \in Requests \ {r} : req'[q] = req[q]
    BY <1>4 DEF Leave, Is, TypeOK
  <2>2. Unserved' = Unserved \ {mark(r)}
    BY <2>1 DEF Unserved
  <2>3. req[r].db = Changed(file, req[r].call, req[r].now)
    BY <2>1 DEF OneWriter
  <2>4. file' = Changed(file, req[r].call, req[r].now)
    BY <1>4, <2>3 DEF Leave, Changed
  <2>5. PointsOf(file') = Ledger!After(mark(r).call)
    <3>1. file \in Boards /\ req[r].call \in Calls /\ req[r].now \in Nat
      BY DEF TypeOK
    <3>2. PointsOf(Changed(file, req[r].call, req[r].now)) = Ledger!After(Meaning(req[r].call))
      BY <3>1, ChangeIsAfter
    <3> QED BY <2>4, <3>2
  <2> QED BY <2>2, <2>5 DEF Ledger!Carry
<1>5. ASSUME NEW r \in Requests, Reply(r) PROVE UNCHANGED Ledger!vars
  <2>1. req[r].ph = "replaced" /\ req'[r].ph = "done" /\ file' = file
        /\ \A q \in Requests \ {r} : req'[q] = req[q]
    BY <1>5 DEF Reply, Is, TypeOK
  <2>2. Unserved' = Unserved
    BY <2>1 DEF Unserved
  <2> QED BY <2>1, <2>2 DEF Ledger!vars
<1>6. ASSUME Crash PROVE Ledger!Die
  <2>1. \A r \in Requests : req'[r].ph \notin {"posted", "loaded"}
    BY <1>6 DEF Crash, Pending, TypeOK
  <2>2. Unserved' = {}
    BY <2>1 DEF Unserved
  <2> QED BY <1>6, <2>2 DEF Ledger!Die, Crash
<1>7. CASE UNCHANGED vars
  BY <1>7 DEF vars, Ledger!vars, Unserved
<1>8. ASSUME NEW r \in Requests, req[r].ph \in {"posted", "loaded"} PROVE mark(r) \in Unserved
  BY <1>8 DEF Unserved
<1> QED
  <2>1. CASE Crash
    BY <2>1, <1>6 DEF Ledger!Next
  <2>2. ASSUME NEW r \in Requests, NEW call \in Calls, Post(r, call) PROVE Ledger!Next
    BY <2>2, <1>1, MeaningIsCall DEF Ledger!Next
  <2>3. ASSUME NEW r \in Requests, Refuse(r) \/ Leave(r) PROVE Ledger!Next
    <3>1. mark(r) \in Unserved
      BY <2>3, <1>8 DEF Refuse, Leave, Is
    <3> QED BY <2>3, <3>1, <1>2, <1>4 DEF Ledger!Next
  <2> QED BY <2>1, <2>2, <2>3, <1>3, <1>5, <1>7 DEF Next, Handle

(* ServesEachRequestOnce: KeepsLedger holds for any number of players,       *)
(* clues, requests and crashes: each request changes the scores on file at   *)
(* one moment and by its own rule, or, if the server dies first, not at all. *)
THEOREM ServesEachRequestOnce == Spec => KeepsLedger
<1>1. Init => Ledger!Init
  BY DEF Init, Ledger!Init, PointsOf, NoPlayers, Unknown, NoClue, Unserved, Silent
<1> QED BY <1>1, WriterCorrect, StepKeepsLedger, PTL DEF Spec, KeepsLedger, Ledger!Spec

-----------------------------------------------------------------------------
(* What a page that waits for its replies brings about: of one player, one   *)
(* request is on its way at a time, and nothing on file is younger than it.  *)
Outstanding(r) == req[r].ph \in {"posted", "loaded"}
Older(rec, t) == rec.last < t /\ \A c \in Clues : rec.clues[c].at < t
OneAtATime == \A q, r \in Requests :
    q # r /\ Pending(q) /\ Pending(r) => Of(req[q].call) \cap Of(req[r].call) = {}
InOrder == \A p \in Players :
    /\ Older(file[p], clock)
    /\ \A r \in Requests : Outstanding(r) => req[r].now < clock
    /\ \A r \in Requests : Outstanding(r) /\ p \in Of(req[r].call) => Older(file[p], req[r].now)

(* The time of a player's record is that of the clue solved last.            *)
Ranked(rec) ==
    LET times == {rec.clues[c].at : c \in Clues} \ {None} IN
    times # {} => rec.last \in times /\ \A t \in times : t <= rec.last
RankInv == patient => OneAtATime /\ InOrder /\ \A p \in Players : Ranked(file[p])

LEMMA FreshRanked == ASSUME NEW now PROVE Ranked(Fresh(now)) /\ Ranked(Unknown)
BY DEF Ranked, Fresh, Unknown, NoClue

(* A request changes the record of its own player only, or removes them all, *)
(* and what it writes is of its own time.                                    *)
LEMMA ChangeRanked ==
    ASSUME NEW db \in Boards, NEW call \in Calls, NEW now \in Nat, NEW p \in Players,
           Ranked(db[p]), p \in Of(call) => Older(db[p], now)
    PROVE  /\ Ranked(Changed(db, call, now)[p])
           /\ \/ Changed(db, call, now)[p] = db[p]
              \/ Changed(db, call, now)[p] = Unknown
              \/ p \in Of(call) /\ Older(Changed(db, call, now)[p], now + 1)
<1> DEFINE new == Changed(db, call, now)[p]
<1>0. db[p] \in Records \cup {Unknown}
  BY DEF Boards
<1>1. Older(Fresh(now), now + 1)
  BY DEF Older, Fresh, Unknown, NoClue, None
<1>2. CASE call.op = "register"
  <2>1. call.p \in Of(call)
    BY <1>2 DEF Of
  <2>2. new = IF db[call.p].last = None /\ call.p = p THEN Fresh(now) ELSE db[p]
    BY <1>2 DEF Changed, Registered, Boards
  <2> QED BY <1>1, <2>1, <2>2, FreshRanked
<1>3. CASE call.op = "score"
  <2>1. call.p \in Of(call) /\ call.c \in Clues
    BY <1>3 DEF Of, Calls
  <2>2. CASE p # call.p \/ db[call.p].clues[call.c] # NoClue
    <3>1. new = db[p]
      BY <1>3, <2>2 DEF Changed, Scored, Boards
    <3> QED BY <3>1
  <2>3. CASE p = call.p /\ db[p].clues[call.c] = NoClue
    <3> DEFINE was == db[p].clues
    <3>1. new = [clues |-> [was EXCEPT ![call.c] = [points |-> Earned(call), at |-> now]],
                 last |-> now]
      BY <1>3, <2>3 DEF Changed, Scored, Boards
    <3>2. was \in [Clues -> Solved \cup {NoClue}]
      BY <1>0 DEF Records, Unknown
    <3>3. \A c \in Clues : was[c].at < now
      BY <2>1, <2>3 DEF Older
    <3>4. \A c \in Clues : new.clues[c].at = IF c = call.c THEN now ELSE was[c].at
      BY <2>1, <3>1, <3>2
    <3>5. \A c \in Clues : was[c].at \in Int
      <4>1. \A clue \in Solved \cup {NoClue} : clue.at \in Int
        BY DEF Solved, NoClue, None
      <4> QED BY <3>2, <4>1
    <3>6. new.last = now
      BY <3>1
    <3> HIDE DEF new, was
    <3>7. Older(new, now + 1)
      BY <3>3, <3>4, <3>5, <3>6 DEF Older
    <3>8. now \in {new.clues[c].at : c \in Clues} \ {None}
      BY <2>1, <3>4 DEF None
    <3>9. Ranked(new)
      BY <3>3, <3>4, <3>5, <3>6, <3>8 DEF Ranked
    <3> QED BY <2>1, <2>3, <3>7, <3>9 DEF new
  <2> QED BY <2>2, <2>3
<1>4. CASE call.op = "reset"
  <2>1. call.p \in Of(call)
    BY <1>4 DEF Of
  <2>2. new = IF db[call.p].last # None /\ call.p = p THEN Fresh(now) ELSE db[p]
    BY <1>4 DEF Changed, Wiped, Boards
  <2> QED BY <1>1, <2>1, <2>2, FreshRanked
<1>5. CASE call.op = "reset_all"
  <2>1. new = Unknown
    BY <1>5 DEF Changed, NoPlayers
  <2> QED BY <2>1, FreshRanked
<1>6. CASE call.op \in {"get", "refused"}
  <2>1. new = db[p]
    BY <1>6 DEF Changed
  <2> QED BY <2>1
<1> QED BY <1>2, <1>3, <1>4, <1>5, <1>6 DEF Calls

LEMMA OlderLater ==
    ASSUME NEW rec \in Records \cup {Unknown}, NEW t \in Nat, NEW u \in Nat, t <= u, Older(rec, t)
    PROVE  Older(rec, u)
<1>1. rec.last \in Int /\ \A c \in Clues : rec.clues[c].at \in Int
  BY DEF Records, Solved, Unknown, NoClue, None
<1> QED BY <1>1 DEF Older

LEMMA UnknownOlder == ASSUME NEW t \in Nat PROVE Older(Unknown, t)
BY DEF Older, Unknown, NoClue, None

LEMMA StepRanked == TypeOK /\ OneWriter /\ RankInv /\ [Next]_vars => RankInv'
<1> SUFFICES ASSUME TypeOK, OneWriter, RankInv, [Next]_vars, patient'
             PROVE  (OneAtATime /\ InOrder /\ \A p \in Players : Ranked(file[p]))'
  BY DEF RankInv
<1>0. patient
  BY DEF Next, Handle, Post, Refuse, Enter, Leave, Reply, Crash, vars
<1>a. OneAtATime /\ InOrder /\ \A p \in Players : Ranked(file[p])
  BY <1>0 DEF RankInv
<1>b. /\ clock \in Nat
      /\ \A p \in Players : file[p] \in Records \cup {Unknown}
      /\ \A r \in Requests : req[r].now \in Nat /\ req[r].call \in Calls
  BY DEF TypeOK, Boards
<1>1. ASSUME NEW r \in Requests, NEW call \in Calls, Post(r, call)
      PROVE  (OneAtATime /\ InOrder /\ \A p \in Players : Ranked(file[p]))'
  <2>1. /\ req'[r].ph = "posted" /\ req'[r].call = call /\ req'[r].now = clock
        /\ \A q \in Requests \ {r} : req'[q] = req[q]
        /\ file' = file /\ clock' = clock + 1
    BY <1>1 DEF Post, TypeOK, Silent
  <2>2. \A q \in Requests : Pending(q) => Of(req[q].call) \cap Of(call) = {}
    BY <1>0, <1>1 DEF Post
  <2>3. OneAtATime'
    BY <1>a, <2>1, <2>2 DEF OneAtATime, Pending
  <2>4. \A p \in Players : Older(file[p], clock + 1)
    BY <1>a, <1>b, OlderLater DEF InOrder
  <2>5. InOrder'
    BY <1>a, <1>b, <2>1, <2>4 DEF InOrder, Outstanding
  <2> QED BY <1>a, <2>1, <2>3, <2>5
<1>2. ASSUME NEW r \in Requests, Refuse(r) \/ Enter(r) \/ Reply(r)
      PROVE  (OneAtATime /\ InOrder /\ \A p \in Players : Ranked(file[p]))'
  <2>1. /\ req'[r].call = req[r].call /\ req'[r].now = req[r].now
        /\ Outstanding(r)' => Outstanding(r)
        /\ Pending(r)' => Pending(r)
        /\ \A q \in Requests \ {r} : req'[q] = req[q]
        /\ file' = file /\ clock' = clock
    BY <1>2 DEF Refuse, Enter, Reply, Is, TypeOK, Outstanding, Pending
  <2>2. OneAtATime'
    BY <1>a, <2>1 DEF OneAtATime, Pending
  <2>3. InOrder'
    BY <1>a, <2>1 DEF InOrder, Outstanding
  <2> QED BY <1>a, <2>1, <2>2, <2>3
<1>3. ASSUME NEW r \in Requests, Leave(r)
      PROVE  (OneAtATime /\ InOrder /\ \A p \in Players : Ranked(file[p]))'
  <2>1. /\ Outstanding(r) /\ req[r].ph = "loaded" /\ req'[r].ph = "replaced"
        /\ req'[r].call = req[r].call
        /\ \A q \in Requests \ {r} : req'[q] = req[q]
        /\ clock' = clock
    BY <1>3 DEF Leave, Is, TypeOK, Outstanding
  <2>2. file' = Changed(file, req[r].call, req[r].now)
    BY <1>3, <2>1 DEF Leave, OneWriter, Changed
  <2>3. OneAtATime'
    BY <1>a, <2>1 DEF OneAtATime, Pending
  <2>4. ASSUME NEW p \in Players
        PROVE  /\ Ranked(file'[p])
               /\ \/ file'[p] = file[p] \/ file'[p] = Unknown
                  \/ p \in Of(req[r].call) /\ Older(file'[p], req[r].now + 1)
    <3>1. p \in Of(req[r].call) => Older(file[p], req[r].now)
      BY <1>a, <2>1 DEF InOrder
    <3> QED BY <1>a, <1>b, <2>2, <3>1, ChangeRanked DEF TypeOK
  <2>5. file' \in Boards
    BY <1>b, <2>2, ChangedIsBoard DEF TypeOK
  <2>6. ASSUME NEW p \in Players PROVE Older(file'[p], clock)
    <3>1. req[r].now + 1 <= clock
      BY <1>a, <1>b, <2>1 DEF InOrder
    <3>2. file'[p] \in Records \cup {Unknown}
      BY <2>5 DEF Boards
    <3> QED BY <1>a, <1>b, <2>4, <3>1, <3>2, UnknownOlder, OlderLater DEF InOrder
  <2>7. ASSUME NEW p \in Players, NEW q \in Requests, Outstanding(q)', p \in Of(req'[q].call)
        PROVE  Older(file'[p], req'[q].now)
    <3>1. q # r /\ Outstanding(q) /\ req'[q] = req[q]
      BY <2>1, <2>7 DEF Outstanding
    <3>2. p \notin Of(req[r].call)
      BY <1>a, <2>1, <2>7, <3>1 DEF OneAtATime, Pending, Outstanding
    <3> QED BY <1>a, <1>b, <2>4, <2>7, <3>1, <3>2, UnknownOlder DEF InOrder
  <2>8. InOrder'
    BY <1>a, <2>1, <2>6, <2>7 DEF InOrder, Outstanding
  <2> QED BY <2>3, <2>4, <2>8
<1>4. CASE Crash
  <2>1. \A r \in Requests : ~Pending(r)'
    BY <1>4 DEF Crash, Pending, TypeOK
  <2>2. file' = file /\ clock' = clock
    BY <1>4 DEF Crash
  <2> QED BY <1>a, <2>1, <2>2 DEF OneAtATime, InOrder, Outstanding, Pending
<1>5. CASE UNCHANGED vars
  BY <1>5, <1>a DEF vars, OneAtATime, InOrder, Outstanding, Pending
<1> QED BY <1>1, <1>2, <1>3, <1>4, <1>5 DEF Next, Handle

(* RanksHonestly: TieBreakHonest for any number of players, clues, requests   *)
(* and crashes: as long as a player's posts do not overtake each other, the   *)
(* time by which equal players are ranked is that of the clue solved last.    *)
THEOREM RanksHonestly == Spec => []TieBreakHonest
<1>1. Init => RankInv
  <2> SUFFICES ASSUME Init PROVE OneAtATime /\ InOrder /\ \A p \in Players : Ranked(file[p])
    BY DEF RankInv
  <2>1. \A p \in Players : file[p] = Unknown /\ Older(Unknown, clock)
    BY UnknownOlder DEF Init, NoPlayers
  <2>2. \A r \in Requests : req[r].ph = "idle"
    BY DEF Init, Silent
  <2> QED BY <2>1, <2>2, FreshRanked DEF OneAtATime, InOrder, Outstanding, Pending
<1>2. RankInv => TieBreakHonest
  BY DEF RankInv, Ranked, TieBreakHonest
<1> QED BY <1>1, <1>2, WriterCorrect, StepRanked, PTL DEF Spec
=============================================================================
