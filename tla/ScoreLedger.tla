---------------------------- MODULE ScoreLedger ----------------------------
(* What the lab's scoreboard promises: every request takes effect once and at one
   moment, between the time it is sent and its answer, or, if the server dies first,
   not at all.  ScoreBoard, with its threads, its lock and its file, implements it.  *)
EXTENDS Integers

CONSTANTS
    Players, Clues, Requests,
    Amounts,        \* the points a clue can be worth
    None            \* a clue without points

VARIABLES
    ledger,         \* the points of each player's clues
    waiting         \* the requests that have not taken effect

vars == <<ledger, waiting>>

\* A call either records a clue or wipes some players (none, for a call that only reads).
Calls ==
    [kind : {"record"}, p : Players, c : Clues, points : Amounts]
    \cup [kind : {"wipe"}, of : SUBSET Players]

\* The points of a clue are recorded once.
After(call) ==
    IF call.kind = "wipe"
    THEN [p \in Players |-> IF p \in call.of THEN [c \in Clues |-> None] ELSE ledger[p]]
    ELSE IF ledger[call.p][call.c] # None THEN ledger
         ELSE [ledger EXCEPT ![call.p] = [@ EXCEPT ![call.c] = call.points]]

Init == ledger = [p \in Players |-> [c \in Clues |-> None]] /\ waiting = {}

Ask(r, call) ==
    /\ waiting' = waiting \cup {[id |-> r, call |-> call]}
    /\ UNCHANGED ledger

Carry(w) ==
    /\ ledger' = After(w.call)
    /\ waiting' = waiting \ {w}

Die == waiting' = {} /\ UNCHANGED ledger

Next ==
    \/ \E r \in Requests, call \in Calls : Ask(r, call)
    \/ \E w \in waiting : Carry(w)
    \/ Die

Spec == Init /\ [][Next]_vars
=============================================================================
