------------------------- MODULE RouterPermitProofs -------------------------
(***************************************************************************)
(* The permits and the counters of the routers, for all four of them and   *)
(* any number of requests, sessions, resets, restarts and clients that     *)
(* leave.  The argument is one of balance: a step of a handler changes one *)
(* request, and what it takes from a semaphore or adds to a counter is     *)
(* what the request holds more than before; what a reset replaces is       *)
(* accounted for by the history of permits given back to newer lists.      *)
(***************************************************************************)
EXTENDS RouterProofs, FiniteSetTheorems

Semaphores == [Epochs -> [Backends -> Nat]]
Counts == [Backends -> Nat]
Foreigns == [Backends -> [t : Nat, b : Nat]]
Losses == [Backends -> [pf : Nat, dec : Nat]]
Handlers ==
    [ph : Waiting \cup {"idle", "done"}, s : Sessions \cup {None}, idx : Backends \cup {None},
     pf : BOOLEAN, run : 0..MaxResets \cup {None}, ep : Epochs \cup {None},
     bh : Epochs \cup {None}, th : Epochs \cup {None}, att : 0..Attempts - 1, tok : BOOLEAN,
     up : BOOLEAN]

(* A handler on its way knows its backend and names no list of semaphores    *)
(* that does not exist yet.                                                  *)
Serving(q, e) ==
    /\ q \in Handlers /\ q.idx \in Backends /\ q.s \in Sessions
    /\ {q.ep, q.bh, q.th} \subseteq 0..e \cup {None}

(* What a handler holds where it is suspended: it waits with no permit of    *)
(* the list it waits on, and a request that is not being served holds none.  *)
Suspended(q, e) ==
    /\ q \in Handlers
    /\ q.ph \in Waiting => Serving(q, e)
    /\ q.ph \in {"bwait", "twait"} <=> q.ep # None
    /\ q.ph \in {"idle", "done", "delay", "bwait"} => q.bh = None
    /\ q.ph \in {"idle", "done", "delay", "bwait", "twait"} => q.th = None

(* Every reset that has replaced the semaphores, and every restart, is one   *)
(* of those the bounds allow.                                                *)
Generations ==
    /\ epoch \in Nat /\ resets \in 0..MaxResets /\ restarts \in 0..MaxRestarts
    /\ epoch + (IF router = "llmd" /\ resetting # "no" THEN 1 ELSE 0) <= resets + restarts
    /\ run_id \in 0..resets

Controls ==
    /\ router \in Programs /\ stage \in 1..5
    /\ use_sem \in BOOLEAN /\ profiling \in BOOLEAN /\ seen \in BOOLEAN /\ swept \in BOOLEAN
    /\ resetting \in {"no", "keep", "clear"} /\ leaves \in 0..MaxLeaves
Sems == ttft \in Semaphores /\ bsem \in Semaphores /\ foreign \in Foreigns /\ limit \in [Epochs -> Nat \ {0}]
Tallies ==
    /\ assigned \in Counts /\ prefill \in Counts /\ decode \in Counts
    /\ lost \in Losses /\ persisted \subseteq Sessions
AllSuspended == req \in [Requests -> Handlers] /\ \A r \in Requests : Suspended(req[r], epoch)
TypedInv == HomesInv /\ Generations /\ Controls /\ Sems /\ Tallies /\ AllSuspended

(* The lists that no reset has put in place yet are full.                    *)
Unused == \A e \in Epochs, b \in Backends :
    e > epoch => ttft[e][b] = limit[e] /\ bsem[e][b] = may.backend_limit
PermitInv == PermitsConserved /\ Unused

(* The Lustre router answers no 499, and zeroes no count of one.             *)
CountInv == CountersExact /\ (router = "lustre" => lost = NoLoss)

(* Only the llm-d router takes a permit of a backend, and the Dynamo routers *)
(* take none.                                                                *)
Abstains(q) ==
    /\ router # "llmd" => q.bh = None
    /\ router \in {"dynamo", "dynamo2"} => q.th = None
AbstainInv == \A r \in Requests : Abstains(req[r])

RouterInv == TypedInv /\ PermitInv /\ CountInv /\ AbstainInv

-----------------------------------------------------------------------------
(* The operators the handlers share.                                         *)
LEMMA Bounds ==
    /\ BodyBytes \in Nat /\ MaxResets \in Nat /\ MaxRestarts \in Nat /\ MaxLeaves \in Nat
    /\ Attempts \in Nat \ {0} /\ TtftLimit \in Nat \ {0} /\ WideLimit \in Nat \ {0}
    /\ PrefillLimit \in Nat \ {0}
BY BoundsAssumption

LEMMA TakeIs ==
    ASSUME NEW sem \in Semaphores, NEW e \in Epochs, NEW b \in Backends, sem[e][b] > 0
    PROVE  /\ Take(sem, e, b) \in Semaphores
           /\ \A f \in Epochs, c \in Backends :
                  Take(sem, e, b)[f][c] = IF f = e /\ c = b THEN sem[f][c] - 1 ELSE sem[f][c]
BY DEF Take, Semaphores

LEMMA GiveIs ==
    ASSUME NEW sem \in Semaphores, NEW e \in Epochs, NEW b \in Backends
    PROVE  /\ Give(sem, e, b) \in Semaphores
           /\ \A f \in Epochs, c \in Backends :
                  Give(sem, e, b)[f][c] = IF f = e /\ c = b THEN sem[f][c] + 1 ELSE sem[f][c]
BY DEF Give, Semaphores

LEMMA ReleasedIs ==
    ASSUME NEW sem \in Semaphores, epoch \in Epochs, NEW q, q.idx \in Backends, NEW held
    PROVE  /\ Released(sem, held, q) \in Semaphores
           /\ \A f \in Epochs, c \in Backends :
                  Released(sem, held, q)[f][c] =
                      IF held # None /\ f = epoch /\ c = q.idx THEN sem[f][c] + 1 ELSE sem[f][c]
BY GiveIs DEF Released

LEMMA ForeignAfterIs ==
    ASSUME foreign \in Foreigns, NEW q, q.idx \in Backends
    PROVE  /\ ForeignAfter(q) \in Foreigns
           /\ \A c \in Backends :
                  /\ ForeignAfter(q)[c].t = foreign[c].t +
                         (IF c = q.idx /\ q.th \notin {None, epoch} THEN 1 ELSE 0)
                  /\ ForeignAfter(q)[c].b = foreign[c].b +
                         (IF c = q.idx /\ q.bh \notin {None, epoch} THEN 1 ELSE 0)
<1> DEFINE k == IF q.th \in {None, epoch} THEN 0 ELSE 1
           m == IF q.bh \in {None, epoch} THEN 0 ELSE 1
<1>1. k \in Nat /\ m \in Nat
  OBVIOUS
<1>2. ForeignAfter(q) = [foreign EXCEPT ![q.idx].t = @ + k, ![q.idx].b = @ + m]
  BY DEF ForeignAfter
<1> HIDE DEF k, m
<1>3. ForeignAfter(q) \in Foreigns
      /\ \A c \in Backends :
            /\ ForeignAfter(q)[c].t = foreign[c].t + (IF c = q.idx THEN k ELSE 0)
            /\ ForeignAfter(q)[c].b = foreign[c].b + (IF c = q.idx THEN m ELSE 0)
  BY <1>1, <1>2 DEF Foreigns
<1> QED BY <1>3 DEF k, m

LEMMA LessNat == ASSUME NEW n \in Nat, NEW k \in Nat PROVE Less(n, k) \in Nat
BY DEF Less

LEMMA EpochKnown == ASSUME Generations PROVE epoch \in Epochs /\ 0..epoch \subseteq Epochs
BY Bounds DEF Generations, Epochs

LEMMA IdleSuspended == ASSUME NEW e, NEW ph \in {"idle", "done"}
    PROVE Suspended([Idle EXCEPT !.ph = ph], e) /\ [Idle EXCEPT !.ph = ph] \in Handlers
<1>1. Idle \in Handlers
  BY Bounds DEF Idle, Handlers
<1>2. Idle.ep = None /\ Idle.bh = None /\ Idle.th = None
  BY DEF Idle
<1> DEFINE q == [Idle EXCEPT !.ph = ph]
<1>3. q \in Handlers /\ q.ph = ph /\ q.ep = None /\ q.bh = None /\ q.th = None
  BY <1>1, <1>2 DEF Handlers
<1> HIDE DEF q
<1>4. Suspended(q, e) /\ q \in Handlers
  BY <1>3 DEF Suspended, Waiting
<1> QED BY <1>4 DEF q

-----------------------------------------------------------------------------
(* One step of one handler, r: what it holds and what it is counted for.     *)
HeldT(q, c) == IF q.idx = c /\ q.th = epoch THEN 1 ELSE 0
HeldB(q, c) == IF q.idx = c /\ q.bh = epoch THEN 1 ELSE 0
ShareP(q, c) == IF q.idx = c /\ q.pf = TRUE THEN 1 ELSE 0
ShareD(q, c) == IF q.idx = c /\ q.pf = FALSE THEN 1 ELSE 0
WeightP(q, c) == IF q.ph \in Waiting THEN ShareP(q, c) ELSE 0
WeightD(q, c) == IF q.ph \in Waiting THEN ShareD(q, c) ELSE 0

(* From locals q and permits b and t, the step leaves r with locals n and    *)
(* the permits balanced.                                                     *)
Balanced(r, n, q, b, t) ==
    /\ req' = [req EXCEPT ![r] = n] /\ Suspended(n, epoch)
    /\ bsem' \in Semaphores /\ ttft' \in Semaphores /\ foreign' \in Foreigns
    /\ \A c \in Backends :
          /\ ttft'[epoch][c] + HeldT(n, c) + foreign[c].t
                 = t[epoch][c] + HeldT(q, c) + foreign'[c].t
          /\ bsem'[epoch][c] + HeldB(n, c) + foreign[c].b
                 = b[epoch][c] + HeldB(q, c) + foreign'[c].b
    /\ \A e \in Epochs, c \in Backends :
          e > epoch => ttft'[e][c] = t[e][c] /\ bsem'[e][c] = b[e][c]

(* A request that does not go on is counted as lost.                         *)
LostOrCounted(n, q) ==
    /\ lost' \in Losses
    /\ \A c \in Backends :
          /\ WeightP(n, c) + lost'[c].pf = ShareP(q, c) + lost[c].pf
          /\ WeightD(n, c) + lost'[c].dec = ShareD(q, c) + lost[c].dec

Moved(r, q, b, t) == \E n : Balanced(r, n, q, b, t) /\ LostOrCounted(n, q)

LEMMA ReleaseBalances ==
    ASSUME Sems, epoch \in Epochs, NEW r \in Requests, NEW q, Serving(q, epoch),
           NEW b \in Semaphores, NEW t \in Semaphores, LlmdRelease(q, b, t),
           NEW n, n = [Idle EXCEPT !.ph = "done"], req' = [req EXCEPT ![r] = n]
    PROVE  Balanced(r, n, q, b, t)
<1>1. Suspended(n, epoch)
  BY IdleSuspended
<1>2. n.th = None /\ n.bh = None
  BY DEF Idle
<1>3. /\ bsem' = Released(b, q.bh, q) /\ ttft' = Released(t, q.th, q)
      /\ foreign' = ForeignAfter(q)
  BY DEF LlmdRelease
<1>4. q.idx \in Backends /\ epoch # None /\ epoch \in Nat
  BY DEF Serving, Epochs, None
<1>5. bsem' \in Semaphores /\ ttft' \in Semaphores /\ foreign' \in Foreigns
  BY <1>3, <1>4, ReleasedIs, ForeignAfterIs DEF Sems
<1>6. \A c \in Backends : HeldT(n, c) = 0 /\ HeldB(n, c) = 0
  BY <1>2, <1>4 DEF HeldT, HeldB
<1>7. ASSUME NEW c \in Backends
      PROVE  /\ ttft'[epoch][c] + HeldT(n, c) + foreign[c].t
                    = t[epoch][c] + HeldT(q, c) + foreign'[c].t
             /\ bsem'[epoch][c] + HeldB(n, c) + foreign[c].b
                    = b[epoch][c] + HeldB(q, c) + foreign'[c].b
  <2>1. /\ ttft'[epoch][c] = IF q.th # None /\ c = q.idx THEN t[epoch][c] + 1 ELSE t[epoch][c]
        /\ bsem'[epoch][c] = IF q.bh # None /\ c = q.idx THEN b[epoch][c] + 1 ELSE b[epoch][c]
    BY <1>3, <1>4, ReleasedIs
  <2>2. /\ foreign'[c].t = foreign[c].t + (IF c = q.idx /\ q.th \notin {None, epoch} THEN 1 ELSE 0)
        /\ foreign'[c].b = foreign[c].b + (IF c = q.idx /\ q.bh \notin {None, epoch} THEN 1 ELSE 0)
    BY <1>3, <1>4, ForeignAfterIs DEF Sems
  <2>3. /\ t[epoch][c] \in Nat /\ b[epoch][c] \in Nat
        /\ foreign[c].t \in Nat /\ foreign[c].b \in Nat
    BY DEF Semaphores, Sems, Foreigns
  <2> QED BY <1>4, <1>6, <2>1, <2>2, <2>3 DEF HeldT, HeldB
<1>8. ASSUME NEW e \in Epochs, NEW c \in Backends, e > epoch
      PROVE  ttft'[e][c] = t[e][c] /\ bsem'[e][c] = b[e][c]
  BY <1>3, <1>4, <1>8, ReleasedIs DEF Epochs
<1> QED BY <1>1, <1>5, <1>7, <1>8 DEF Balanced

LEMMA AdmitBalances ==
    ASSUME TypedInv, NEW r \in Requests, NEW q, Serving(q, epoch), NEW b \in Semaphores,
           NEW t \in Semaphores, LlmdAdmit(r, q, b, t)
    PROVE  Moved(r, q, b, t)
<1>0. /\ epoch \in Epochs /\ req \in [Requests -> Handlers] /\ Sems /\ lost \in Losses
      /\ q \in Handlers /\ q.idx \in Backends
  BY EpochKnown DEF TypedInv, AllSuspended, Tallies, Serving
<1>1. CASE q.run = run_id /\ q.up
  <2> DEFINE n == [q EXCEPT !.ph = "post", !.ep = None]
  <2>1. /\ req' = [req EXCEPT ![r] = n] /\ bsem' = b /\ ttft' = t
        /\ foreign' = foreign /\ lost' = lost
    BY <1>1 DEF LlmdAdmit
  <2>2. /\ n \in Handlers /\ n.ph = "post" /\ n.ep = None
        /\ n.idx = q.idx /\ n.s = q.s /\ n.bh = q.bh /\ n.th = q.th /\ n.pf = q.pf
    BY <1>0 DEF Handlers, Waiting
  <2> HIDE DEF n
  <2>3. Suspended(n, epoch)
    BY <2>2 DEF Suspended, Serving, Waiting
  <2>4. \A c \in Backends : HeldT(n, c) = HeldT(q, c) /\ HeldB(n, c) = HeldB(q, c)
    BY <2>2 DEF HeldT, HeldB
  <2>5. Balanced(r, n, q, b, t)
    BY <1>0, <2>1, <2>3, <2>4 DEF Balanced, Sems
  <2>6. \A c \in Backends : WeightP(n, c) = ShareP(q, c) /\ WeightD(n, c) = ShareD(q, c)
    BY <2>2 DEF WeightP, WeightD, ShareP, ShareD, Waiting
  <2> QED BY <1>0, <2>1, <2>5, <2>6 DEF LostOrCounted, Moved
<1>2. CASE ~(q.run = run_id /\ q.up)
  <2>1. /\ req' = [req EXCEPT ![r] = [Idle EXCEPT !.ph = "done"]] /\ LlmdRelease(q, b, t)
        /\ lost' = IF q.pf THEN [lost EXCEPT ![q.idx].pf = @ + 1]
                           ELSE [lost EXCEPT ![q.idx].dec = @ + 1]
    BY <1>2 DEF LlmdAdmit
  <2> DEFINE n == [Idle EXCEPT !.ph = "done"]
  <2>2. Balanced(r, n, q, b, t)
    <3> HIDE DEF n
    <3>1. n = [Idle EXCEPT !.ph = "done"] /\ req' = [req EXCEPT ![r] = n]
      BY <2>1 DEF n
    <3> QED BY <1>0, <2>1, <3>1, ReleaseBalances
  <2>3. q.pf \in BOOLEAN
    BY <1>0 DEF Handlers
  <2>4. lost' \in Losses /\ \A c \in Backends :
            /\ lost'[c].pf = lost[c].pf + ShareP(q, c)
            /\ lost'[c].dec = lost[c].dec + ShareD(q, c)
    BY <1>0, <2>1, <2>3 DEF Losses, ShareP, ShareD
  <2>5. n.ph \notin Waiting
    BY DEF Idle, Waiting
  <2> HIDE DEF n
  <2>6. \A c \in Backends : /\ lost[c].pf \in Int /\ lost[c].dec \in Int
                             /\ ShareP(q, c) \in Int /\ ShareD(q, c) \in Int
    BY <1>0 DEF Losses, ShareP, ShareD
  <2>7. \A c \in Backends : WeightP(n, c) = 0 /\ WeightD(n, c) = 0
    BY <2>5 DEF WeightP, WeightD
  <2>8. LostOrCounted(n, q)
    BY <2>4, <2>6, <2>7 DEF LostOrCounted
  <2> QED BY <2>2, <2>8 DEF Moved
<1> QED BY <1>1, <1>2

-----------------------------------------------------------------------------
(* Taking a permit before going on: from q, b and t to n, b1 and t1.         *)
Carries(q, b, t, n, b1, t1) ==
    /\ Serving(n, epoch) /\ b1 \in Semaphores /\ t1 \in Semaphores
    /\ \A c \in Backends :
          /\ t1[epoch][c] + HeldT(n, c) = t[epoch][c] + HeldT(q, c)
          /\ b1[epoch][c] + HeldB(n, c) = b[epoch][c] + HeldB(q, c)
          /\ ShareP(n, c) = ShareP(q, c) /\ ShareD(n, c) = ShareD(q, c)
    /\ \A e \in Epochs, c \in Backends :
          e > epoch => t1[e][c] = t[e][c] /\ b1[e][c] = b[e][c]

LEMMA Carried ==
    ASSUME Sems, NEW r, NEW q, NEW b \in Semaphores, NEW t \in Semaphores, epoch \in Epochs,
           NEW n, NEW b1, NEW t1, Carries(q, b, t, n, b1, t1), Moved(r, n, b1, t1)
    PROVE  Moved(r, q, b, t)
<1>1. PICK m : Balanced(r, m, n, b1, t1) /\ LostOrCounted(m, n)
  BY DEF Moved
<1>2. ASSUME NEW c \in Backends
      PROVE  /\ ttft'[epoch][c] + HeldT(m, c) + foreign[c].t
                    = t[epoch][c] + HeldT(q, c) + foreign'[c].t
             /\ bsem'[epoch][c] + HeldB(m, c) + foreign[c].b
                    = b[epoch][c] + HeldB(q, c) + foreign'[c].b
  BY <1>1 DEF Balanced, Carries
<1>3. \A e \in Epochs, c \in Backends :
          e > epoch => ttft'[e][c] = t[e][c] /\ bsem'[e][c] = b[e][c]
  BY <1>1 DEF Balanced, Carries
<1>4. Balanced(r, m, q, b, t)
  BY <1>1, <1>2, <1>3 DEF Balanced
<1>5. LostOrCounted(m, q)
  BY <1>1 DEF LostOrCounted, Carries
<1> QED BY <1>4, <1>5 DEF Moved

LEMMA TakenTtft ==
    ASSUME epoch \in Epochs, Sems, NEW q, Serving(q, epoch), q.th = None, NEW b \in Semaphores,
           NEW e \in 0..epoch, ttft[e][q.idx] > 0
    PROVE  Carries(q, b, ttft, [q EXCEPT !.th = e], b, Take(ttft, e, q.idx))
<1> DEFINE n == [q EXCEPT !.th = e]
           t1 == Take(ttft, e, q.idx)
<1>0. e \in Epochs /\ e # None /\ epoch \in Nat /\ epoch # None /\ ttft \in Semaphores
  BY Bounds DEF Epochs, None, Sems
<1>1. /\ n \in Handlers /\ n.th = e
      /\ n.idx = q.idx /\ n.s = q.s /\ n.bh = q.bh /\ n.ep = q.ep /\ n.pf = q.pf
  BY <1>0 DEF Handlers, Serving
<1>2. t1 \in Semaphores /\ \A f \in Epochs, c \in Backends :
          t1[f][c] = IF f = e /\ c = q.idx THEN ttft[f][c] - 1 ELSE ttft[f][c]
  BY <1>0, TakeIs DEF Serving
<1> HIDE DEF n, t1
<1>3. Serving(n, epoch)
  BY <1>1 DEF Serving
<1>4. ASSUME NEW c \in Backends
      PROVE  /\ t1[epoch][c] + HeldT(n, c) = ttft[epoch][c] + HeldT(q, c)
             /\ b[epoch][c] + HeldB(n, c) = b[epoch][c] + HeldB(q, c)
             /\ ShareP(n, c) = ShareP(q, c) /\ ShareD(n, c) = ShareD(q, c)
  <2>1. HeldT(q, c) = 0 /\ HeldT(n, c) = IF q.idx = c /\ e = epoch THEN 1 ELSE 0
    BY <1>0, <1>1 DEF HeldT
  <2>2. t1[epoch][c] = IF epoch = e /\ c = q.idx THEN ttft[epoch][c] - 1 ELSE ttft[epoch][c]
    BY <1>2
  <2>3. ttft[epoch][c] \in Nat
    BY <1>0 DEF Semaphores
  <2>4. t1[epoch][c] + HeldT(n, c) = ttft[epoch][c] + HeldT(q, c)
    BY <2>1, <2>2, <2>3
  <2> QED BY <1>1, <2>4 DEF HeldB, ShareP, ShareD
<1>5. \A f \in Epochs, c \in Backends : f > epoch => t1[f][c] = ttft[f][c]
  BY <1>0, <1>2
<1>6. Carries(q, b, ttft, n, b, t1)
  BY <1>2, <1>3, <1>4, <1>5 DEF Carries
<1> QED BY <1>6 DEF n, t1

LEMMA TakenBackend ==
    ASSUME epoch \in Epochs, Sems, NEW q, Serving(q, epoch), q.bh = None,
           NEW e \in 0..epoch, bsem[e][q.idx] > 0
    PROVE  Carries(q, bsem, ttft, [q EXCEPT !.bh = e], Take(bsem, e, q.idx), ttft)
<1> DEFINE n == [q EXCEPT !.bh = e]
           b1 == Take(bsem, e, q.idx)
<1>0. e \in Epochs /\ e # None /\ epoch \in Nat /\ epoch # None /\ bsem \in Semaphores /\ ttft \in Semaphores
  BY Bounds DEF Epochs, None, Sems
<1>1. /\ n \in Handlers /\ n.bh = e
      /\ n.idx = q.idx /\ n.s = q.s /\ n.th = q.th /\ n.ep = q.ep /\ n.pf = q.pf
  BY <1>0 DEF Handlers, Serving
<1>2. b1 \in Semaphores /\ \A f \in Epochs, c \in Backends :
          b1[f][c] = IF f = e /\ c = q.idx THEN bsem[f][c] - 1 ELSE bsem[f][c]
  BY <1>0, TakeIs DEF Serving
<1> HIDE DEF n, b1
<1>3. Serving(n, epoch)
  BY <1>1 DEF Serving
<1>4. ASSUME NEW c \in Backends
      PROVE  /\ b1[epoch][c] + HeldB(n, c) = bsem[epoch][c] + HeldB(q, c)
             /\ ttft[epoch][c] + HeldT(n, c) = ttft[epoch][c] + HeldT(q, c)
             /\ ShareP(n, c) = ShareP(q, c) /\ ShareD(n, c) = ShareD(q, c)
  <2>1. HeldB(q, c) = 0 /\ HeldB(n, c) = IF q.idx = c /\ e = epoch THEN 1 ELSE 0
    BY <1>0, <1>1 DEF HeldB
  <2>2. b1[epoch][c] = IF epoch = e /\ c = q.idx THEN bsem[epoch][c] - 1 ELSE bsem[epoch][c]
    BY <1>2
  <2>3. bsem[epoch][c] \in Nat
    BY <1>0 DEF Semaphores
  <2>4. b1[epoch][c] + HeldB(n, c) = bsem[epoch][c] + HeldB(q, c)
    BY <2>1, <2>2, <2>3
  <2> QED BY <1>1, <2>4 DEF HeldT, ShareP, ShareD
<1>5. \A f \in Epochs, c \in Backends : f > epoch => b1[f][c] = bsem[f][c]
  BY <1>0, <1>2
<1>6. Carries(q, bsem, ttft, n, b1, ttft)
  BY <1>0, <1>2, <1>3, <1>4, <1>5 DEF Carries
<1> QED BY <1>6 DEF n, b1

LEMMA AsleepTyped ==
    ASSUME NEW q \in Handlers, NEW ph \in Waiting, NEW e \in Epochs
    PROVE  [q EXCEPT !.ph = ph, !.ep = e] \in Handlers
BY DEF Handlers

(* A request that is put to sleep keeps what it has.                         *)
LEMMA SleepBalances ==
    ASSUME TypedInv, NEW r \in Requests, NEW q, Serving(q, epoch), NEW b \in Semaphores,
           NEW ph \in {"bwait", "twait"}, q.th = None, ph = "bwait" => q.bh = None,
           req' = [req EXCEPT ![r] = [q EXCEPT !.ph = ph, !.ep = epoch]],
           bsem' = b, UNCHANGED <<ttft, foreign, lost>>
    PROVE  Moved(r, q, b, ttft)
<1> DEFINE n == [q EXCEPT !.ph = ph, !.ep = epoch]
<1>0. /\ epoch \in Epochs /\ epoch \in Nat /\ epoch # None /\ req \in [Requests -> Handlers]
      /\ ttft \in Semaphores /\ foreign \in Foreigns /\ lost \in Losses
  BY EpochKnown DEF TypedInv, AllSuspended, Sems, Tallies, Generations, None
<1>1. /\ n \in Handlers /\ n.ph = ph /\ n.ep = epoch
      /\ n.idx = q.idx /\ n.s = q.s /\ n.bh = q.bh /\ n.th = q.th /\ n.pf = q.pf
  <2>1. n \in Handlers
    <3>1. q \in Handlers /\ ph \in Waiting
      BY DEF Serving, Waiting
    <3> QED BY <1>0, <3>1, AsleepTyped
  <2>2. /\ n.ph = ph /\ n.ep = epoch
        /\ n.idx = q.idx /\ n.s = q.s /\ n.bh = q.bh /\ n.th = q.th /\ n.pf = q.pf
    BY DEF Handlers, Serving
  <2> QED BY <2>1, <2>2
<1>2. req' = [req EXCEPT ![r] = n]
  OBVIOUS
<1> HIDE DEF n
<1>3. Suspended(n, epoch)
  BY <1>0, <1>1 DEF Suspended, Serving, Waiting
<1>4. \A c \in Backends : HeldT(n, c) = HeldT(q, c) /\ HeldB(n, c) = HeldB(q, c)
  BY <1>1 DEF HeldT, HeldB
<1>5. \A c \in Backends : WeightP(n, c) = ShareP(q, c) /\ WeightD(n, c) = ShareD(q, c)
  BY <1>1 DEF WeightP, WeightD, ShareP, ShareD, Waiting
<1> QED BY <1>0, <1>2, <1>3, <1>4, <1>5 DEF Balanced, LostOrCounted, Moved

LEMMA TakeTtftBalances ==
    ASSUME TypedInv, NEW r \in Requests, NEW q, Serving(q, epoch), q.th = None,
           NEW b \in Semaphores, LlmdTakeTtft(r, q, b)
    PROVE  Moved(r, q, b, ttft)
<1>0. epoch \in Epochs /\ epoch \in 0..epoch /\ Sems /\ ttft \in Semaphores
  BY EpochKnown DEF TypedInv, Sems, Generations
<1>1. CASE ttft[epoch][q.idx] > 0
          /\ LlmdAdmit(r, [q EXCEPT !.th = epoch], b, Take(ttft, epoch, q.idx))
  <2>1. Carries(q, b, ttft, [q EXCEPT !.th = epoch], b, Take(ttft, epoch, q.idx))
    BY <1>0, <1>1, TakenTtft
  <2>2. Serving([q EXCEPT !.th = epoch], epoch) /\ Take(ttft, epoch, q.idx) \in Semaphores
    BY <2>1 DEF Carries
  <2> QED BY <1>0, <1>1, <2>1, <2>2, AdmitBalances, Carried
<1>2. CASE /\ req' = [req EXCEPT ![r] = [q EXCEPT !.ph = "twait", !.ep = epoch]]
           /\ bsem' = b /\ UNCHANGED <<ttft, foreign, lost>>
  BY <1>2, SleepBalances
<1> QED BY <1>1, <1>2 DEF LlmdTakeTtft

LEMMA GateBalances ==
    ASSUME TypedInv, NEW r \in Requests, NEW q, Serving(q, epoch), q.th = None, q.bh = None,
           NEW measured, LlmdGate(r, q, measured)
    PROVE  Moved(r, q, bsem, ttft)
<1>0. epoch \in Epochs /\ epoch \in 0..epoch /\ Sems /\ ttft \in Semaphores /\ bsem \in Semaphores
  BY EpochKnown DEF TypedInv, Sems, Generations
<1>1. CASE LlmdAdmit(r, q, bsem, ttft)
  BY <1>0, <1>1, AdmitBalances
<1>2. CASE bsem[epoch][q.idx] > 0
          /\ LlmdTakeTtft(r, [q EXCEPT !.bh = epoch], Take(bsem, epoch, q.idx))
  <2>1. Carries(q, bsem, ttft, [q EXCEPT !.bh = epoch], Take(bsem, epoch, q.idx), ttft)
    BY <1>0, <1>2, TakenBackend
  <2> DEFINE n == [q EXCEPT !.bh = epoch]
             b1 == Take(bsem, epoch, q.idx)
  <2>2. n.th = None
    BY DEF Serving, Handlers
  <2> HIDE DEF n
  <2>3. Carries(q, bsem, ttft, n, b1, ttft) /\ LlmdTakeTtft(r, n, b1)
    BY <1>2, <2>1 DEF n
  <2> HIDE DEF b1
  <2>4. Serving(n, epoch) /\ b1 \in Semaphores
    BY <2>3 DEF Carries
  <2> QED BY <1>0, <2>2, <2>3, <2>4, TakeTtftBalances, Carried
<1>3. CASE /\ req' = [req EXCEPT ![r] = [q EXCEPT !.ph = "bwait", !.ep = epoch]]
           /\ UNCHANGED <<bsem, ttft, foreign, lost>>
  BY <1>0, <1>3, SleepBalances
<1> QED BY <1>1, <1>2, <1>3 DEF LlmdGate

-----------------------------------------------------------------------------
(* What one changed request does to a set of requests.                       *)
LEMMA CountOne ==
    ASSUME NEW S \in SUBSET Requests, NEW T \in SUBSET Requests, NEW r, S \ {r} = T \ {r}
    PROVE  /\ Cardinality(S) \in Nat /\ Cardinality(T) \in Nat
           /\ Cardinality(T) + (IF r \in S THEN 1 ELSE 0) = Cardinality(S) + (IF r \in T THEN 1 ELSE 0)
<1>1. IsFiniteSet(S) /\ IsFiniteSet(T)
  BY SetsAssumption, FS_Subset
<1>2. /\ IsFiniteSet(S \ {r})
      /\ Cardinality(S \ {r}) = IF r \in S THEN Cardinality(S) - 1 ELSE Cardinality(S)
      /\ Cardinality(T \ {r}) = IF r \in T THEN Cardinality(T) - 1 ELSE Cardinality(T)
  BY <1>1, FS_RemoveElement
<1>3. Cardinality(S) \in Nat /\ Cardinality(T) \in Nat
  BY <1>1, FS_CardinalityType
<1> QED BY <1>2, <1>3

HolderT(c) == {r \in Requests : req[r].idx = c /\ req[r].th = epoch}
HolderB(c) == {r \in Requests : req[r].idx = c /\ req[r].bh = epoch}

(* The steps of the handlers leave the lists of semaphores alone, their      *)
(* sizes and what resets and restarts change.                                *)
Frame ==
    /\ UNCHANGED <<may, router, epoch, limit, resetting, resets, restarts, run_id, swept>>
    /\ HomesInv' /\ Controls' /\ Tallies'

LEMMA BalancedKeeps ==
    ASSUME TypedInv, PermitInv, Frame, NEW r \in Requests, NEW n, Balanced(r, n, req[r], bsem, ttft)
    PROVE  TypedInv' /\ PermitInv'
<1>0. /\ req \in [Requests -> Handlers] /\ epoch' = epoch /\ limit' = limit /\ may' = may
      /\ epoch \in Epochs /\ Sems /\ n \in Handlers
  BY EpochKnown DEF TypedInv, AllSuspended, Frame, Balanced, Suspended
<1>1. req' \in [Requests -> Handlers] /\ req'[r] = n /\ \A q \in Requests \ {r} : req'[q] = req[q]
  BY <1>0 DEF Balanced
<1>2. AllSuspended'
  BY <1>0, <1>1 DEF AllSuspended, Balanced, TypedInv
<1>3. Sems'
  BY <1>0 DEF Sems, Balanced
<1>4. Generations'
  BY DEF Frame, Generations, TypedInv
<1>5. TypedInv'
  BY <1>2, <1>3, <1>4 DEF TypedInv, Frame
<1>6. Unused'
  BY <1>0 DEF Unused, PermitInv, Balanced
<1>7. ASSUME NEW c \in Backends
      PROVE  /\ ttft'[epoch'][c] + Cardinality(HolderT(c))' = limit'[epoch'] + foreign'[c].t
             /\ bsem'[epoch'][c] + Cardinality(HolderB(c))' = may'.backend_limit + foreign'[c].b
  <2> DEFINE S == HolderT(c)
             T == HolderT(c)'
             U == HolderB(c)
             V == HolderB(c)'
  <2>1. /\ S \in SUBSET Requests /\ T \in SUBSET Requests /\ S \ {r} = T \ {r}
        /\ U \in SUBSET Requests /\ V \in SUBSET Requests /\ U \ {r} = V \ {r}
    BY <1>0, <1>1 DEF HolderT, HolderB
  <2>2. /\ HeldT(req[r], c) = IF r \in S THEN 1 ELSE 0
        /\ HeldT(n, c) = IF r \in T THEN 1 ELSE 0
        /\ HeldB(req[r], c) = IF r \in U THEN 1 ELSE 0
        /\ HeldB(n, c) = IF r \in V THEN 1 ELSE 0
    BY <1>0, <1>1 DEF HolderT, HolderB, HeldT, HeldB
  <2>3. /\ ttft[epoch][c] + Cardinality(S) = limit[epoch] + foreign[c].t
        /\ bsem[epoch][c] + Cardinality(U) = may.backend_limit + foreign[c].b
    BY DEF PermitInv, PermitsConserved, HolderT, HolderB
  <2> HIDE DEF S, T, U, V
  <2>4. /\ Cardinality(S) \in Nat /\ Cardinality(T) \in Nat
        /\ Cardinality(T) + HeldT(req[r], c) = Cardinality(S) + HeldT(n, c)
        /\ Cardinality(U) \in Nat /\ Cardinality(V) \in Nat
        /\ Cardinality(V) + HeldB(req[r], c) = Cardinality(U) + HeldB(n, c)
    BY <2>1, <2>2, CountOne
  <2>5. /\ HeldT(req[r], c) \in Nat /\ HeldT(n, c) \in Nat
        /\ HeldB(req[r], c) \in Nat /\ HeldB(n, c) \in Nat
    BY <2>2
  <2>6. /\ ttft'[epoch][c] + HeldT(n, c) + foreign[c].t
               = ttft[epoch][c] + HeldT(req[r], c) + foreign'[c].t
        /\ bsem'[epoch][c] + HeldB(n, c) + foreign[c].b
               = bsem[epoch][c] + HeldB(req[r], c) + foreign'[c].b
    BY DEF Balanced
  <2> DEFINE t0 == ttft[epoch][c]
             t1 == ttft'[epoch][c]
             b0 == bsem[epoch][c]
             b1 == bsem'[epoch][c]
             f0 == foreign[c].t
             f1 == foreign'[c].t
             g0 == foreign[c].b
             g1 == foreign'[c].b
             k == limit[epoch]
             m == may.backend_limit
  <2>7. {t0, t1, b0, b1, f0, f1, g0, g1} \subseteq Nat
    BY <1>0 DEF Balanced, Sems, Semaphores, Foreigns
  <2>8. k \in Nat /\ m \in Nat
    BY <1>0, SetsAssumption DEF Sems, TypedInv, HomesInv, MapsTyped
  <2>9. /\ t0 + Cardinality(S) = k + f0 /\ t1 + HeldT(n, c) + f0 = t0 + HeldT(req[r], c) + f1
        /\ b0 + Cardinality(U) = m + g0 /\ b1 + HeldB(n, c) + g0 = b0 + HeldB(req[r], c) + g1
    BY <2>3, <2>6
  <2> HIDE DEF t0, t1, b0, b1, f0, f1, g0, g1, k, m
  <2>10. t1 + Cardinality(T) = k + f1 /\ b1 + Cardinality(V) = m + g1
    BY <2>4, <2>5, <2>7, <2>8, <2>9
  <2>11. /\ ttft'[epoch'][c] + Cardinality(T) = limit'[epoch'] + foreign'[c].t
         /\ bsem'[epoch'][c] + Cardinality(V) = may'.backend_limit + foreign'[c].b
    BY <1>0, <2>10 DEF t1, b1, f1, g1, k, m
  <2> QED BY <2>11 DEF T, V
<1>8. PermitsConserved'
  BY <1>7 DEF PermitsConserved, HolderT, HolderB
<1> QED BY <1>5, <1>6, <1>8 DEF PermitInv

-----------------------------------------------------------------------------
(* A counter follows its requests when it is moved by what they are worth.   *)
Follows(x, y, was, is, k) ==
    \/ is = was /\ y = x
    \/ is = was + 1 /\ y = x + k
    \/ was = is + 1 /\ y = Less(x, k)

Counting(r, n) ==
    /\ router = "lustre" => lost' = lost
    /\ \A c \in Backends :
          /\ Follows(prefill[c], prefill'[c], WeightP(req[r], c) + lost[c].pf,
                     WeightP(n, c) + lost'[c].pf, BodyBytes)
          /\ Follows(decode[c], decode'[c], WeightD(req[r], c) + lost[c].dec,
                     WeightD(n, c) + lost'[c].dec, 1)

LEMMA Products ==
    ASSUME NEW k \in Nat, NEW m \in Nat
    PROVE  k * m \in Nat /\ k * (m + 1) = k * m + k /\ Less(k * (m + 1), k) = k * m
<1>1. k * m \in Nat /\ k * (m + 1) = k * m + k
  BY Z3
<1> DEFINE z == k * m
<1>2. z \in Nat /\ k * (m + 1) = z + k
  BY <1>1
<1> HIDE DEF z
<1>3. Less(k * (m + 1), k) = z
  BY <1>2 DEF Less
<1> QED BY <1>1, <1>3 DEF z

Prefills(c) == {r \in Requests : Live(r) /\ req[r].idx = c /\ req[r].pf = TRUE}
Decodes(c) == {r \in Requests : Live(r) /\ req[r].idx = c /\ req[r].pf = FALSE}

LEMMA CountingKeeps ==
    ASSUME TypedInv, CountInv, Frame, NEW r \in Requests, NEW n \in Handlers,
           req' = [req EXCEPT ![r] = n], Counting(r, n)
    PROVE  CountInv'
<1>1. router' = router /\ swept' = swept /\ req \in [Requests -> Handlers] /\ Tallies /\ Tallies'
  BY DEF Frame, TypedInv, AllSuspended
<1>2. req'[r] = n /\ \A q \in Requests \ {r} : req'[q] = req[q]
  BY <1>1
<1>3. router' = "lustre" => lost' = NoLoss
  BY <1>1 DEF Counting, CountInv
<1>4. ASSUME ~swept', NEW c \in Backends
      PROVE  /\ prefill'[c] = BodyBytes * (Cardinality(Prefills(c)') + lost'[c].pf)
             /\ decode'[c] = Cardinality(Decodes(c)') + lost'[c].dec
  <2>1. /\ Prefills(c) \in SUBSET Requests /\ Prefills(c)' \in SUBSET Requests
        /\ Prefills(c) \ {r} = Prefills(c)' \ {r}
        /\ Decodes(c) \in SUBSET Requests /\ Decodes(c)' \in SUBSET Requests
        /\ Decodes(c) \ {r} = Decodes(c)' \ {r}
    BY <1>2 DEF Prefills, Decodes, Live
  <2>2. /\ WeightP(req[r], c) = IF r \in Prefills(c) THEN 1 ELSE 0
        /\ WeightP(n, c) = IF r \in Prefills(c)' THEN 1 ELSE 0
        /\ WeightD(req[r], c) = IF r \in Decodes(c) THEN 1 ELSE 0
        /\ WeightD(n, c) = IF r \in Decodes(c)' THEN 1 ELSE 0
    BY <1>2 DEF Prefills, Decodes, Live, WeightP, WeightD, ShareP, ShareD
  <2>3. /\ prefill[c] = BodyBytes * (Cardinality(Prefills(c)) + lost[c].pf)
        /\ decode[c] = Cardinality(Decodes(c)) + lost[c].dec
    BY <1>1, <1>4 DEF CountInv, CountersExact, Counted, Prefills, Decodes
  <2> DEFINE x0 == prefill[c]
             x1 == prefill'[c]
             y0 == decode[c]
             y1 == decode'[c]
             k0 == lost[c].pf
             k1 == lost'[c].pf
             l0 == lost[c].dec
             l1 == lost'[c].dec
             p0 == Cardinality(Prefills(c))
             p1 == Cardinality(Prefills(c)')
             d0 == Cardinality(Decodes(c))
             d1 == Cardinality(Decodes(c)')
             v0 == WeightP(req[r], c)
             v1 == WeightP(n, c)
             w0 == WeightD(req[r], c)
             w1 == WeightD(n, c)
  <2>4. {x0, x1, y0, y1, k0, k1, l0, l1} \subseteq Nat
    BY <1>1 DEF Tallies, Counts, Losses
  <2>5. {p0, p1, d0, d1, v0, v1, w0, w1} \subseteq Nat /\ p1 + v0 = p0 + v1 /\ d1 + w0 = d0 + w1
    BY <2>1, <2>2, CountOne
  <2>6. /\ Follows(x0, x1, v0 + k0, v1 + k1, BodyBytes)
        /\ Follows(y0, y1, w0 + l0, w1 + l1, 1)
    BY DEF Counting
  <2>7. x0 = BodyBytes * (p0 + k0) /\ y0 = d0 + l0
    BY <2>3
  <2> HIDE DEF x0, x1, y0, y1, k0, k1, l0, l1, p0, p1, d0, d1, v0, v1, w0, w1
  <2>8. x1 = BodyBytes * (p1 + k1)
    <3> DEFINE a == p0 + k0
               b == p1 + k1
    <3>1. /\ a \in Nat /\ b \in Nat /\ BodyBytes \in Nat /\ x0 = BodyBytes * a
          /\ \/ b = a /\ x1 = x0
             \/ b = a + 1 /\ x1 = x0 + BodyBytes
             \/ a = b + 1 /\ x1 = Less(x0, BodyBytes)
      BY <2>4, <2>5, <2>6, <2>7, Bounds DEF Follows
    <3> HIDE DEF a, b
    <3>2. CASE b = a /\ x1 = x0
      BY <3>1, <3>2 DEF b
    <3>3. CASE b = a + 1 /\ x1 = x0 + BodyBytes
      <4>1. BodyBytes * b = BodyBytes * a + BodyBytes
        BY <3>1, <3>3, Products
      <4> QED BY <3>1, <3>3, <4>1 DEF b
    <3>4. CASE a = b + 1 /\ x1 = Less(x0, BodyBytes)
      <4>1. Less(BodyBytes * a, BodyBytes) = BodyBytes * b
        BY <3>1, <3>4, Products
      <4> QED BY <3>1, <3>4, <4>1 DEF b
    <3> QED BY <3>1, <3>2, <3>3, <3>4
  <2>9. y1 = d1 + l1
    BY <2>4, <2>5, <2>6, <2>7 DEF Follows, Less
  <2> QED BY <2>8, <2>9 DEF x1, k1, p1, y1, l1, d1
<1>5. CountersExact'
  BY <1>4 DEF CountersExact, Counted, Prefills, Decodes
<1> QED BY <1>3, <1>5 DEF CountInv

-----------------------------------------------------------------------------
(* The steps of the handlers.                                                *)
Steps(r) == \E n : Balanced(r, n, req[r], bsem, ttft) /\ Counting(r, n)

LEMMA HandlerStep ==
    ASSUME RouterInv, Frame, AbstainInv', NEW r \in Requests, Steps(r)
    PROVE  RouterInv'
<1>1. PICK n : Balanced(r, n, req[r], bsem, ttft) /\ Counting(r, n)
  BY DEF Steps
<1>2. n \in Handlers /\ req' = [req EXCEPT ![r] = n]
  BY <1>1 DEF Balanced, Suspended
<1> QED BY <1>1, <1>2, BalancedKeeps, CountingKeeps DEF RouterInv

LEMMA HandlerTyped ==
    ASSUME RouterInv, NEW r \in Requests
    PROVE  /\ req \in [Requests -> Handlers] /\ req[r] \in Handlers /\ Suspended(req[r], epoch)
           /\ epoch \in Epochs /\ epoch \in Nat /\ epoch # None /\ Sems /\ Tallies
           /\ Controls /\ HomesInv /\ Generations /\ Abstains(req[r])
           /\ Live(r) => Serving(req[r], epoch)
<1>1. epoch \in Epochs /\ epoch \in Nat /\ epoch # None
  BY EpochKnown DEF RouterInv, TypedInv, Generations, None
<1> QED BY <1>1 DEF RouterInv, TypedInv, AllSuspended, AbstainInv, Live, Suspended

(* A handler that goes on without touching permits or counters.              *)
LEMMA Walk ==
    ASSUME RouterInv, NEW r \in Requests, Live(r), NEW n, Suspended(n, epoch), n.ph \in Waiting,
           n.idx = req[r].idx, n.bh = req[r].bh, n.th = req[r].th, n.pf = req[r].pf,
           req' = [req EXCEPT ![r] = n], UNCHANGED <<counters, sems>>
    PROVE  Steps(r)
<1>1. Sems /\ Tallies
  BY HandlerTyped
<1>2. \A c \in Backends : HeldT(n, c) = HeldT(req[r], c) /\ HeldB(n, c) = HeldB(req[r], c)
  BY DEF HeldT, HeldB
<1>3. Balanced(r, n, req[r], bsem, ttft)
  BY <1>1, <1>2 DEF Balanced, Sems, sems
<1>4. \A c \in Backends : WeightP(n, c) = WeightP(req[r], c) /\ WeightD(n, c) = WeightD(req[r], c)
  BY DEF WeightP, WeightD, ShareP, ShareD, Live
<1>5. Counting(r, n)
  BY <1>4 DEF Counting, Follows, counters
<1> QED BY <1>3, <1>5 DEF Steps

(* A handler that is admitted, refused or put to sleep where it is counted.  *)
LEMMA GoesOn ==
    ASSUME RouterInv, NEW r \in Requests, Live(r), Moved(r, req[r], bsem, ttft),
           UNCHANGED <<prefill, decode>>, router = "lustre" => lost' = lost
    PROVE  Steps(r)
<1>1. PICK n : Balanced(r, n, req[r], bsem, ttft) /\ LostOrCounted(n, req[r])
  BY DEF Moved
<1>2. \A c \in Backends : WeightP(req[r], c) = ShareP(req[r], c) /\ WeightD(req[r], c) = ShareD(req[r], c)
  BY DEF WeightP, WeightD, Live
<1>3. Counting(r, n)
  BY <1>1, <1>2 DEF Counting, Follows, LostOrCounted
<1> QED BY <1>1, <1>3 DEF Steps

(* A request that arrives is counted before it is admitted.                  *)
LEMMA Arrives ==
    ASSUME RouterInv, NEW r \in Requests, req[r].ph = "idle", NEW q, Serving(q, epoch),
           q.th = None, q.bh = None, Moved(r, q, bsem, ttft),
           prefill' = IF q.pf THEN [prefill EXCEPT ![q.idx] = @ + BodyBytes] ELSE prefill,
           decode' = IF q.pf THEN decode ELSE [decode EXCEPT ![q.idx] = @ + 1],
           router = "lustre" => lost' = lost
    PROVE  Steps(r) /\ prefill' \in Counts /\ decode' \in Counts
<1>0. /\ epoch # None /\ Tallies /\ Suspended(req[r], epoch) /\ q.idx \in Backends
      /\ q \in Handlers /\ q.pf \in BOOLEAN
  BY HandlerTyped DEF Serving, Handlers
<1>1. PICK n : Balanced(r, n, q, bsem, ttft) /\ LostOrCounted(n, q)
  BY DEF Moved
<1>2. \A c \in Backends : /\ HeldT(q, c) = 0 /\ HeldT(req[r], c) = 0
                           /\ HeldB(q, c) = 0 /\ HeldB(req[r], c) = 0
  BY <1>0 DEF HeldT, HeldB, Suspended
<1>3. Balanced(r, n, req[r], bsem, ttft)
  BY <1>1, <1>2 DEF Balanced
<1>4. \A c \in Backends : WeightP(req[r], c) = 0 /\ WeightD(req[r], c) = 0
  BY DEF WeightP, WeightD, Waiting
<1>5. /\ prefill' \in Counts /\ decode' \in Counts
      /\ \A c \in Backends :
            /\ \/ ShareP(q, c) = 0 /\ prefill'[c] = prefill[c]
               \/ ShareP(q, c) = 1 /\ prefill'[c] = prefill[c] + BodyBytes
            /\ \/ ShareD(q, c) = 0 /\ decode'[c] = decode[c]
               \/ ShareD(q, c) = 1 /\ decode'[c] = decode[c] + 1
  <2>1. CASE q.pf = TRUE
    <3>1. prefill' = [prefill EXCEPT ![q.idx] = @ + BodyBytes] /\ decode' = decode
      BY <2>1
    <3>2. \A c \in Backends : ShareD(q, c) = 0 /\ ShareP(q, c) = IF c = q.idx THEN 1 ELSE 0
      BY <2>1 DEF ShareP, ShareD
    <3>3. /\ prefill' \in Counts /\ decode' \in Counts
          /\ \A c \in Backends : prefill'[c] = IF c = q.idx THEN prefill[c] + BodyBytes ELSE prefill[c]
      BY <1>0, <3>1, Bounds DEF Tallies, Counts
    <3> QED BY <3>1, <3>2, <3>3
  <2>2. CASE q.pf = FALSE
    <3>1. decode' = [decode EXCEPT ![q.idx] = @ + 1] /\ prefill' = prefill
      BY <2>2
    <3>2. \A c \in Backends : ShareP(q, c) = 0 /\ ShareD(q, c) = IF c = q.idx THEN 1 ELSE 0
      BY <2>2 DEF ShareP, ShareD
    <3>3. /\ prefill' \in Counts /\ decode' \in Counts
          /\ \A c \in Backends : decode'[c] = IF c = q.idx THEN decode[c] + 1 ELSE decode[c]
      BY <1>0, <3>1 DEF Tallies, Counts
    <3> QED BY <3>1, <3>2, <3>3
  <2> QED BY <1>0, <2>1, <2>2
<1>6. \A c \in Backends : /\ lost[c].pf \in Nat /\ lost'[c].pf \in Nat
                           /\ lost[c].dec \in Nat /\ lost'[c].dec \in Nat
                           /\ WeightP(n, c) \in Nat /\ WeightD(n, c) \in Nat
  BY <1>0, <1>1 DEF Tallies, Losses, LostOrCounted, WeightP, WeightD, ShareP, ShareD
<1>7. Counting(r, n)
  <2> SUFFICES ASSUME NEW c \in Backends
               PROVE  /\ Follows(prefill[c], prefill'[c], WeightP(req[r], c) + lost[c].pf,
                                 WeightP(n, c) + lost'[c].pf, BodyBytes)
                      /\ Follows(decode[c], decode'[c], WeightD(req[r], c) + lost[c].dec,
                                 WeightD(n, c) + lost'[c].dec, 1)
    BY DEF Counting
  <2>1. /\ WeightP(n, c) + lost'[c].pf = ShareP(q, c) + lost[c].pf
        /\ WeightD(n, c) + lost'[c].dec = ShareD(q, c) + lost[c].dec
    BY <1>1 DEF LostOrCounted
  <2>2. Follows(prefill[c], prefill'[c], WeightP(req[r], c) + lost[c].pf,
                WeightP(n, c) + lost'[c].pf, BodyBytes)
    BY <1>4, <1>5, <1>6, <2>1 DEF Follows
  <2>3. Follows(decode[c], decode'[c], WeightD(req[r], c) + lost[c].dec,
                WeightD(n, c) + lost'[c].dec, 1)
    BY <1>4, <1>5, <1>6, <2>1 DEF Follows
  <2> QED BY <2>2, <2>3
<1> QED BY <1>3, <1>5, <1>7 DEF Steps

(* A handler's finally: it uncounts what it was counted for.                 *)
LEMMA Finishes ==
    ASSUME RouterInv, NEW r \in Requests, Live(r), NEW n, n = [Idle EXCEPT !.ph = "done"],
           Balanced(r, n, req[r], bsem, ttft), lost' = lost,
           prefill' = IF req[r].pf THEN [prefill EXCEPT ![req[r].idx] = Less(@, BodyBytes)] ELSE prefill,
           decode' = IF req[r].pf THEN decode ELSE [decode EXCEPT ![req[r].idx] = Less(@, 1)]
    PROVE  Steps(r) /\ prefill' \in Counts /\ decode' \in Counts
<1> DEFINE q == req[r]
<1>0. Tallies /\ q.idx \in Backends /\ q.pf \in BOOLEAN /\ q.ph \in Waiting
  BY HandlerTyped DEF Serving, Handlers, Live
<1> HIDE DEF q
<1>1. n.ph \notin Waiting
  BY DEF Idle, Waiting
<1>2. \A c \in Backends : WeightP(n, c) = 0 /\ WeightD(n, c) = 0
  BY <1>1 DEF WeightP, WeightD
<1>3. \A c \in Backends : Less(prefill[c], BodyBytes) \in Nat /\ Less(decode[c], 1) \in Nat
  BY <1>0, Bounds, LessNat DEF Tallies, Counts
<1>4. /\ prefill' \in Counts /\ decode' \in Counts
      /\ \A c \in Backends :
            /\ \/ WeightP(q, c) = 0 /\ prefill'[c] = prefill[c]
               \/ WeightP(q, c) = 1 /\ prefill'[c] = Less(prefill[c], BodyBytes)
            /\ \/ WeightD(q, c) = 0 /\ decode'[c] = decode[c]
               \/ WeightD(q, c) = 1 /\ decode'[c] = Less(decode[c], 1)
  <2>1. CASE q.pf = TRUE
    <3>1. prefill' = [prefill EXCEPT ![q.idx] = Less(@, BodyBytes)] /\ decode' = decode
      BY <2>1 DEF q
    <3>2. \A c \in Backends : WeightD(q, c) = 0 /\ WeightP(q, c) = IF c = q.idx THEN 1 ELSE 0
      BY <1>0, <2>1 DEF WeightP, WeightD, ShareP, ShareD
    <3>3. /\ prefill' \in Counts /\ decode' \in Counts
          /\ \A c \in Backends : prefill'[c] = IF c = q.idx THEN Less(prefill[c], BodyBytes) ELSE prefill[c]
      BY <1>0, <1>3, <3>1 DEF Tallies, Counts
    <3> QED BY <3>1, <3>2, <3>3
  <2>2. CASE q.pf = FALSE
    <3>1. decode' = [decode EXCEPT ![q.idx] = Less(@, 1)] /\ prefill' = prefill
      BY <2>2 DEF q
    <3>2. \A c \in Backends : WeightP(q, c) = 0 /\ WeightD(q, c) = IF c = q.idx THEN 1 ELSE 0
      BY <1>0, <2>2 DEF WeightP, WeightD, ShareP, ShareD
    <3>3. /\ prefill' \in Counts /\ decode' \in Counts
          /\ \A c \in Backends : decode'[c] = IF c = q.idx THEN Less(decode[c], 1) ELSE decode[c]
      BY <1>0, <1>3, <3>1 DEF Tallies, Counts
    <3> QED BY <3>1, <3>2, <3>3
  <2> QED BY <1>0, <2>1, <2>2
<1>5. \A c \in Backends : lost[c].pf \in Nat /\ lost[c].dec \in Nat
  BY <1>0 DEF Tallies, Losses
<1>6. Counting(r, n)
  BY <1>2, <1>4, <1>5 DEF Counting, Follows, q
<1> QED BY <1>4, <1>6 DEF Steps

(* The first token: a prefill becomes a decode, and its permit goes back.    *)
LEMMA Decoding ==
    ASSUME RouterInv, NEW r \in Requests, Live(r), NEW n, Balanced(r, n, req[r], bsem, ttft),
           n.ph \in Waiting, n.idx = req[r].idx, n.pf = FALSE, lost' = lost,
           prefill' = IF req[r].pf THEN [prefill EXCEPT ![req[r].idx] = Less(@, BodyBytes)] ELSE prefill,
           decode' = IF req[r].pf THEN [decode EXCEPT ![req[r].idx] = @ + 1] ELSE decode
    PROVE  Steps(r) /\ prefill' \in Counts /\ decode' \in Counts
<1> DEFINE q == req[r]
<1>0. Tallies /\ q.idx \in Backends /\ q.pf \in BOOLEAN /\ q.ph \in Waiting
  BY HandlerTyped DEF Serving, Handlers, Live
<1>1. n.idx = q.idx
  OBVIOUS
<1> HIDE DEF q
<1>2. \A c \in Backends : WeightP(n, c) = 0 /\ WeightD(n, c) = IF c = q.idx THEN 1 ELSE 0
  BY <1>1 DEF WeightP, WeightD, ShareP, ShareD
<1>3. \A c \in Backends : Less(prefill[c], BodyBytes) \in Nat
  BY <1>0, Bounds, LessNat DEF Tallies, Counts
<1>4. /\ prefill' \in Counts /\ decode' \in Counts
      /\ \A c \in Backends :
            /\ \/ WeightP(q, c) = 0 /\ prefill'[c] = prefill[c]
               \/ WeightP(q, c) = 1 /\ prefill'[c] = Less(prefill[c], BodyBytes)
            /\ \/ WeightD(q, c) = WeightD(n, c) /\ decode'[c] = decode[c]
               \/ WeightD(q, c) = 0 /\ WeightD(n, c) = 1 /\ decode'[c] = decode[c] + 1
  <2>1. CASE q.pf = TRUE
    <3>1. /\ prefill' = [prefill EXCEPT ![q.idx] = Less(@, BodyBytes)]
          /\ decode' = [decode EXCEPT ![q.idx] = @ + 1]
      BY <2>1 DEF q
    <3>2. \A c \in Backends : WeightD(q, c) = 0 /\ WeightP(q, c) = IF c = q.idx THEN 1 ELSE 0
      BY <1>0, <2>1 DEF WeightP, WeightD, ShareP, ShareD
    <3>3. /\ prefill' \in Counts /\ decode' \in Counts
          /\ \A c \in Backends :
                /\ prefill'[c] = IF c = q.idx THEN Less(prefill[c], BodyBytes) ELSE prefill[c]
                /\ decode'[c] = IF c = q.idx THEN decode[c] + 1 ELSE decode[c]
      BY <1>0, <1>3, <3>1 DEF Tallies, Counts
    <3> QED BY <1>2, <3>2, <3>3
  <2>2. CASE q.pf = FALSE
    <3>1. decode' = decode /\ prefill' = prefill
      BY <2>2 DEF q
    <3>2. \A c \in Backends : WeightP(q, c) = 0 /\ WeightD(q, c) = IF c = q.idx THEN 1 ELSE 0
      BY <1>0, <2>2 DEF WeightP, WeightD, ShareP, ShareD
    <3>3. prefill' \in Counts /\ decode' \in Counts
      BY <1>0, <3>1 DEF Tallies
    <3> QED BY <1>2, <3>1, <3>2, <3>3
  <2> QED BY <1>0, <2>1, <2>2
<1>5. \A c \in Backends : lost[c].pf \in Nat /\ lost[c].dec \in Nat
  BY <1>0 DEF Tallies, Losses
<1>6. Counting(r, n)
  <2> SUFFICES ASSUME NEW c \in Backends
               PROVE  /\ Follows(prefill[c], prefill'[c], WeightP(q, c) + lost[c].pf,
                                 WeightP(n, c) + lost'[c].pf, BodyBytes)
                      /\ Follows(decode[c], decode'[c], WeightD(q, c) + lost[c].dec,
                                 WeightD(n, c) + lost'[c].dec, 1)
    BY DEF Counting, q
  <2>1. WeightP(n, c) = 0
    BY <1>2
  <2>2. Follows(prefill[c], prefill'[c], WeightP(q, c) + lost[c].pf,
                WeightP(n, c) + lost'[c].pf, BodyBytes)
    BY <1>4, <1>5, <2>1 DEF Follows
  <2>3. Follows(decode[c], decode'[c], WeightD(q, c) + lost[c].dec,
                WeightD(n, c) + lost'[c].dec, 1)
    <3>1. CASE WeightD(q, c) = WeightD(n, c) /\ decode'[c] = decode[c]
      BY <3>1 DEF Follows
    <3>2. CASE WeightD(q, c) = 0 /\ WeightD(n, c) = 1 /\ decode'[c] = decode[c] + 1
      BY <1>5, <3>2 DEF Follows
    <3> QED BY <1>4, <3>1, <3>2
  <2> QED BY <2>2, <2>3
<1> QED BY <1>4, <1>6 DEF Steps

LEMMA TokenBalances ==
    ASSUME RouterInv, NEW r \in Requests, Live(r), NEW n, Suspended(n, epoch),
           n.idx = req[r].idx, n.bh = req[r].bh, n.th = None,
           NEW q1, q1.idx = req[r].idx, q1.th = req[r].th, q1.bh = None,
           req' = [req EXCEPT ![r] = n], bsem' = bsem,
           ttft' = Released(ttft, req[r].th, req[r]), foreign' = ForeignAfter(q1)
    PROVE  Balanced(r, n, req[r], bsem, ttft)
<1> DEFINE q == req[r]
<1>0. /\ epoch \in Epochs /\ epoch \in Nat /\ epoch # None /\ Sems /\ q.idx \in Backends
      /\ n.idx = q.idx /\ n.bh = q.bh /\ q1.idx = q.idx /\ q1.th = q.th
  BY HandlerTyped DEF Serving
<1>1. ttft' = Released(ttft, q.th, q) /\ req' = [req EXCEPT ![r] = n]
  OBVIOUS
<1> HIDE DEF q
<1>2. bsem' \in Semaphores /\ ttft' \in Semaphores /\ foreign' \in Foreigns
  BY <1>0, <1>1, ReleasedIs, ForeignAfterIs DEF Sems
<1>3. ASSUME NEW c \in Backends
      PROVE  /\ ttft'[epoch][c] + HeldT(n, c) + foreign[c].t
                    = ttft[epoch][c] + HeldT(q, c) + foreign'[c].t
             /\ bsem'[epoch][c] + HeldB(n, c) + foreign[c].b
                    = bsem[epoch][c] + HeldB(q, c) + foreign'[c].b
  <2>1. ttft'[epoch][c] = IF q.th # None /\ c = q.idx THEN ttft[epoch][c] + 1 ELSE ttft[epoch][c]
    BY <1>0, <1>1, ReleasedIs DEF Sems
  <2>2. /\ foreign'[c].t = foreign[c].t + (IF c = q.idx /\ q.th \notin {None, epoch} THEN 1 ELSE 0)
        /\ foreign'[c].b = foreign[c].b
    BY <1>0, ForeignAfterIs DEF Sems, Foreigns
  <2>3. ttft[epoch][c] \in Nat /\ bsem[epoch][c] \in Nat /\ foreign[c].t \in Nat
    BY <1>0 DEF Sems, Semaphores, Foreigns
  <2>4. HeldT(n, c) = 0 /\ HeldB(n, c) = HeldB(q, c)
    BY <1>0 DEF HeldT, HeldB
  <2>5. ttft'[epoch][c] + HeldT(n, c) + foreign[c].t = ttft[epoch][c] + HeldT(q, c) + foreign'[c].t
    BY <1>0, <2>1, <2>2, <2>3, <2>4 DEF HeldT
  <2> QED BY <2>2, <2>4, <2>5
<1>4. ASSUME NEW e \in Epochs, NEW c \in Backends, e > epoch
      PROVE  ttft'[e][c] = ttft[e][c] /\ bsem'[e][c] = bsem[e][c]
  BY <1>0, <1>1, <1>4, ReleasedIs DEF Epochs, Sems
<1> QED BY <1>1, <1>2, <1>3, <1>4 DEF Balanced, q

(* A handler that goes on with what it has.                                  *)
LEMMA Stays ==
    ASSUME RouterInv, NEW r \in Requests, NEW q, Suspended(q, epoch), q.ph \in Waiting,
           req' = [req EXCEPT ![r] = q], UNCHANGED <<foreign, lost>>,
           bsem' \in Semaphores, ttft' \in Semaphores
    PROVE  Moved(r, q, bsem', ttft')
<1>1. Sems /\ Tallies
  BY HandlerTyped
<1>2. Balanced(r, q, q, bsem', ttft')
  BY <1>1 DEF Balanced, Sems
<1>3. \A c \in Backends : WeightP(q, c) = ShareP(q, c) /\ WeightD(q, c) = ShareD(q, c)
  BY DEF WeightP, WeightD
<1>4. LostOrCounted(q, q)
  BY <1>1, <1>3 DEF LostOrCounted, Tallies
<1> QED BY <1>2, <1>4 DEF Moved

LEMMA IdleTyped == Idle \in Handlers /\ Idle.ep = None /\ Idle.bh = None /\ Idle.th = None
BY Bounds DEF Idle, Handlers

LEMMA Framed ==
    ASSUME RouterInv, HomesInv', UNCHANGED <<may, router, stage, epoch, limit, use_sem, resetting,
                                            resets, restarts, run_id, swept>>,
           profiling' \in BOOLEAN, seen' \in BOOLEAN, leaves' \in 0..MaxLeaves, assigned' \in Counts,
           prefill' \in Counts, decode' \in Counts, lost' \in Losses, persisted' \subseteq Sessions
    PROVE  Frame
BY DEF Frame, RouterInv, TypedInv, Controls, Tallies

(* A step of r that the permits and the counters account for.                *)
Accounted(r) ==
    /\ Steps(r) /\ prefill' \in Counts /\ decode' \in Counts
    /\ lost' \in Losses /\ persisted' \subseteq Sessions

(* Headers, a failed post, a retry and a client that leaves.                 *)
LEMMA Forwards ==
    ASSUME RouterInv, NEW r \in Requests, Live(r), UNCHANGED <<maps, counters, sems>>,
           \/ req[r].ph = "post" /\ req' = [req EXCEPT ![r].ph = "stream"]
           \/ req[r].ph = "backoff" /\ req' = [req EXCEPT ![r].ph = "post"]
           \/ /\ req[r].ph = "post" /\ req[r].att < Attempts - 1
              /\ req' = [req EXCEPT ![r].ph = "backoff", ![r].att = @ + 1]
           \/ req' = [req EXCEPT ![r].up = FALSE]
    PROVE  /\ Accounted(r)
           /\ req'[r].bh = req[r].bh /\ req'[r].th = req[r].th
<1> DEFINE q == req[r]
<1>0. /\ Sems /\ Tallies /\ req \in [Requests -> Handlers] /\ q \in Handlers
      /\ Suspended(q, epoch) /\ Serving(q, epoch) /\ q.ph \in Waiting
  BY HandlerTyped DEF Live
<1>1. ASSUME NEW n, n \in Handlers, n.ph \in Waiting, n.s = q.s, n.idx = q.idx, n.ep = q.ep,
              n.bh = q.bh, n.th = q.th, n.pf = q.pf,
              \/ n.ph = q.ph
              \/ n.ph \in {"post", "backoff", "stream"} /\ q.ph \in {"post", "backoff", "stream"},
              req' = [req EXCEPT ![r] = n]
      PROVE  /\ Accounted(r)
             /\ req'[r].bh = req[r].bh /\ req'[r].th = req[r].th
  <2>1. req'[r].bh = req[r].bh /\ req'[r].th = req[r].th
    BY <1>0, <1>1
  <2> HIDE DEF q
  <2>2. Suspended(n, epoch)
    BY <1>0, <1>1 DEF Suspended, Serving
  <2>3. Steps(r)
    BY <1>1, <2>2, Walk DEF q
  <2> QED BY <1>0, <2>1, <2>3 DEF counters, maps, Tallies, Accounted
<1>2. CASE q.ph = "post" /\ req' = [req EXCEPT ![r].ph = "stream"]
  <2> DEFINE n == [q EXCEPT !.ph = "stream"]
  <2>1. req' = [req EXCEPT ![r] = n]
    BY <1>2
  <2>2. /\ n \in Handlers /\ n.ph = "stream" /\ n.s = q.s /\ n.idx = q.idx /\ n.ep = q.ep
        /\ n.bh = q.bh /\ n.th = q.th /\ n.pf = q.pf
    BY <1>0 DEF Handlers, Waiting
  <2> HIDE DEF n, q
  <2> QED BY <1>1, <1>2, <2>1, <2>2 DEF Waiting
<1>3. CASE q.ph = "backoff" /\ req' = [req EXCEPT ![r].ph = "post"]
  <2> DEFINE n == [q EXCEPT !.ph = "post"]
  <2>1. req' = [req EXCEPT ![r] = n]
    BY <1>3
  <2>2. /\ n \in Handlers /\ n.ph = "post" /\ n.s = q.s /\ n.idx = q.idx /\ n.ep = q.ep
        /\ n.bh = q.bh /\ n.th = q.th /\ n.pf = q.pf
    BY <1>0 DEF Handlers, Waiting
  <2> HIDE DEF n, q
  <2> QED BY <1>1, <1>3, <2>1, <2>2 DEF Waiting
<1>4. CASE /\ q.ph = "post" /\ q.att < Attempts - 1
           /\ req' = [req EXCEPT ![r].ph = "backoff", ![r].att = @ + 1]
  <2> DEFINE n == [q EXCEPT !.ph = "backoff", !.att = @ + 1]
  <2>1. req' = [req EXCEPT ![r] = n]
    BY <1>4
  <2>2. q.att + 1 \in 0..Attempts - 1
    BY <1>0, <1>4, Bounds DEF Handlers
  <2>3. /\ n \in Handlers /\ n.ph = "backoff" /\ n.s = q.s /\ n.idx = q.idx /\ n.ep = q.ep
        /\ n.bh = q.bh /\ n.th = q.th /\ n.pf = q.pf
    BY <1>0, <2>2 DEF Handlers, Waiting
  <2> HIDE DEF n, q
  <2> QED BY <1>1, <1>4, <2>1, <2>3 DEF Waiting
<1>5. CASE req' = [req EXCEPT ![r].up = FALSE]
  <2> DEFINE n == [q EXCEPT !.up = FALSE]
  <2>1. req' = [req EXCEPT ![r] = n]
    BY <1>5
  <2>2. /\ n \in Handlers /\ n.ph = q.ph /\ n.s = q.s /\ n.idx = q.idx /\ n.ep = q.ep
        /\ n.bh = q.bh /\ n.th = q.th /\ n.pf = q.pf
    BY <1>0 DEF Handlers
  <2> HIDE DEF n, q
  <2> QED BY <1>0, <1>1, <2>1, <2>2
<1> QED BY <1>2, <1>3, <1>4, <1>5

-----------------------------------------------------------------------------
(* The llm-d router.                                                         *)
LEMMA MovedLosses ==
    ASSUME NEW r, NEW q, NEW b, NEW t, Moved(r, q, b, t)
    PROVE  lost' \in Losses
BY DEF Moved, LostOrCounted

LEMMA LlmdArriveStep ==
    ASSUME RouterInv, HomesInv', NEW r \in Requests, LlmdArrive(r)
    PROVE  RouterInv'
<1>0. /\ Sems /\ Tallies /\ Controls /\ HomesInv /\ Generations /\ epoch \in Epochs
      /\ req \in [Requests -> Handlers]
  BY HandlerTyped
<1>1. PICK s \in may.sessions, warm \in BOOLEAN : LlmdAssign(r, s, warm)
  BY DEF LlmdArrive
<1>2. /\ router = "llmd" /\ UNCHANGED <<persisted, epoch, limit, use_sem, swept, stage, run_id, rr, admin>>
  BY <1>1 DEF LlmdAssign, LlmdIs
<1>3. s \in Sessions
  BY <1>0, <1>1, SessionsKnown
<1> DEFINE home == LlmdHome(s)
           measured == LlmdMeasured(warm)
           first == measured /\ active[s] = None
           pf == measured /\ (stage = 1 \/ first)
           q == [Idle EXCEPT !.ph = "delay", !.s = s, !.idx = home, !.pf = pf]
           q1 == [q EXCEPT !.run = run_id]
<1>4. home \in Backends /\ measured \in BOOLEAN /\ pf \in BOOLEAN /\ first \in BOOLEAN
  BY <1>0, <1>1, <1>3, LessLoadedTyped
     DEF LlmdHome, HomesInv, MapsTyped, HomeMaps, LlmdMeasured, Controls
<1>5. assigned' \in Counts
  BY <1>0, <1>1, <1>4 DEF LlmdAssign, Charge, Tallies, Counts
<1>6. profiling' \in BOOLEAN /\ seen' \in BOOLEAN
  BY <1>0, <1>1, <1>4 DEF LlmdAssign, Controls
<1>7. /\ req[r].ph = "idle"
      /\ prefill' = IF pf THEN [prefill EXCEPT ![home] = @ + BodyBytes] ELSE prefill
      /\ decode' = IF pf THEN decode ELSE [decode EXCEPT ![home] = @ + 1]
  BY <1>1 DEF LlmdAssign
<1>8. \/ req' = [req EXCEPT ![r] = q] /\ UNCHANGED <<bsem, ttft, foreign, lost>>
      \/ LlmdGate(r, q1, measured)
  BY <1>1 DEF LlmdAssign
<1> HIDE DEF home, measured, first, pf
<1>9. /\ q \in Handlers /\ Serving(q, epoch) /\ q.ph = "delay" /\ q.s = s /\ q.idx = home /\ q.pf = pf
      /\ q.ep = None /\ q.bh = None /\ q.th = None
  <2>1. q = [Idle EXCEPT !.ph = "delay", !.s = s, !.idx = home, !.pf = pf]
    OBVIOUS
  <2> HIDE DEF q
  <2>2. /\ q \in Handlers /\ q.ph = "delay" /\ q.s = s /\ q.idx = home /\ q.pf = pf
        /\ q.ep = None /\ q.bh = None /\ q.th = None
    BY <1>3, <1>4, <2>1, IdleTyped DEF Handlers, Waiting
  <2> QED BY <1>3, <1>4, <2>2 DEF Serving
<1> HIDE DEF q
<1>10. /\ q1 \in Handlers /\ Serving(q1, epoch) /\ q1.idx = home /\ q1.pf = pf
       /\ q1.bh = None /\ q1.th = None
  <2>1. run_id \in 0..MaxResets
    BY <1>0, Bounds DEF Generations
  <2> QED BY <1>9, <2>1 DEF Handlers, Serving
<1> HIDE DEF q1
<1>11. \E q2 : /\ Serving(q2, epoch) /\ q2.idx = home /\ q2.pf = pf
               /\ q2.bh = None /\ q2.th = None /\ Moved(r, q2, bsem, ttft)
  <2>1. CASE req' = [req EXCEPT ![r] = q] /\ UNCHANGED <<bsem, ttft, foreign, lost>>
    <3>1. Suspended(q, epoch) /\ q.ph \in Waiting
      BY <1>9 DEF Suspended, Waiting
    <3>2. Moved(r, q, bsem, ttft)
      BY <1>0, <2>1, <3>1, Stays DEF Sems
    <3> QED BY <1>9, <3>2
  <2>2. CASE LlmdGate(r, q1, measured)
    BY <1>10, <2>2, GateBalances DEF RouterInv
  <2> QED BY <1>8, <2>1, <2>2
<1>12. PICK q2 : /\ Serving(q2, epoch) /\ q2.idx = home /\ q2.pf = pf
                 /\ q2.bh = None /\ q2.th = None /\ Moved(r, q2, bsem, ttft)
  BY <1>11
<1>13. Steps(r) /\ prefill' \in Counts /\ decode' \in Counts
  <2>1. /\ prefill' = IF q2.pf THEN [prefill EXCEPT ![q2.idx] = @ + BodyBytes] ELSE prefill
        /\ decode' = IF q2.pf THEN decode ELSE [decode EXCEPT ![q2.idx] = @ + 1]
    BY <1>7, <1>12
  <2> QED BY <1>2, <1>7, <1>12, <2>1, Arrives
<1>14. lost' \in Losses
  BY <1>12, MovedLosses
<1>15. leaves' \in 0..MaxLeaves /\ persisted' \subseteq Sessions
  BY <1>0, <1>2 DEF admin, Controls, Tallies
<1>16. Frame
  BY <1>2, <1>5, <1>6, <1>13, <1>14, <1>15, Framed DEF admin
<1>17. AbstainInv'
  BY <1>2 DEF admin, AbstainInv, Abstains
<1> QED BY <1>13, <1>16, <1>17, HandlerStep

(* The handlers after their arrival.                                         *)
LEMMA LlmdHandlerStep ==
    ASSUME RouterInv, HomesInv', NEW r \in Requests,
           LlmdProgress(r) \/ LlmdFirstToken(r) \/ LlmdDisconnect(r)
    PROVE  RouterInv'
<1> DEFINE q == req[r]
<1>0. /\ Sems /\ Tallies /\ Controls /\ Generations /\ epoch \in Epochs /\ epoch \in Nat
      /\ req \in [Requests -> Handlers] /\ q \in Handlers /\ Suspended(q, epoch)
      /\ epoch # None /\ run_id \in 0..MaxResets
  BY HandlerTyped, Bounds DEF Generations
<1>1. Live(r)
  BY DEF LlmdProgress, LlmdDelayOver, LlmdGotBackend, LlmdGotTtft, LlmdHeaders, LlmdPostFails,
         LlmdRetry, LlmdStreamOver, LlmdFirstToken, LlmdDisconnect, Live, Waiting
<1>2. Serving(q, epoch) /\ q.ph \in Waiting
  BY <1>1, HandlerTyped DEF Live
<1>3. /\ router = "llmd" /\ leaves' \in 0..MaxLeaves /\ assigned' = assigned
      /\ UNCHANGED <<may, router, stage, epoch, limit, use_sem, resetting, resets, restarts, run_id,
                     swept, profiling, seen>>
  BY <1>0, Bounds DEF LlmdProgress, LlmdDelayOver, LlmdGotBackend, LlmdGotTtft, LlmdHeaders, LlmdPostFails,
         LlmdRetry, LlmdStreamOver, LlmdFinish, LlmdFirstToken, LlmdDisconnect, LlmdIs,
         admin, run, maps, sems, counters, Controls
<1>4. AbstainInv'
  BY <1>3 DEF AbstainInv, Abstains
<1>5. SUFFICES Accounted(r)
  <2>1. ASSUME Accounted(r) PROVE RouterInv'
    <3>1. Frame
      BY <1>0, <1>3, <2>1, Framed DEF Controls, Tallies, Accounted
    <3> QED BY <1>4, <2>1, <3>1, HandlerStep DEF Accounted
  <2> QED BY <2>1
<1>6. CASE LlmdDelayOver(r)
  <2> DEFINE q1 == [q EXCEPT !.run = run_id]
  <2>1. /\ q.ph = "delay" /\ LlmdGate(r, q1, profiling)
        /\ UNCHANGED <<prefill, decode, persisted>>
    BY <1>6 DEF LlmdDelayOver, maps
  <2>2. q.bh = None /\ q.th = None
    BY <1>0, <2>1 DEF Suspended
  <2> HIDE DEF q
  <2>3. /\ Serving(q1, epoch) /\ q1.bh = None /\ q1.th = None /\ q1.idx = q.idx /\ q1.pf = q.pf
    BY <1>0, <1>2, <2>2 DEF Handlers, Serving
  <2> HIDE DEF q1
  <2>4. Moved(r, q1, bsem, ttft)
    BY <2>1, <2>3, GateBalances DEF RouterInv
  <2>5. PICK n : Balanced(r, n, q1, bsem, ttft) /\ LostOrCounted(n, q1)
    BY <2>4 DEF Moved
  <2>6. \A c \in Backends : /\ HeldT(q, c) = HeldT(q1, c) /\ HeldB(q, c) = HeldB(q1, c)
                             /\ ShareP(q, c) = ShareP(q1, c) /\ ShareD(q, c) = ShareD(q1, c)
    BY <2>2, <2>3 DEF HeldT, HeldB, ShareP, ShareD
  <2>7. Balanced(r, n, q, bsem, ttft) /\ LostOrCounted(n, q)
    BY <2>5, <2>6 DEF Balanced, LostOrCounted
  <2>8. Moved(r, q, bsem, ttft)
    BY <2>7 DEF Moved
  <2> QED BY <1>0, <1>1, <1>3, <2>1, <2>4, <2>8, GoesOn, MovedLosses DEF q, Tallies, Accounted
<1>7. CASE LlmdGotBackend(r)
  <2>1. /\ q.ph = "bwait" /\ bsem[q.ep][q.idx] > 0 /\ UNCHANGED <<prefill, decode, persisted>>
        /\ LlmdTakeTtft(r, [q EXCEPT !.bh = q.ep], Take(bsem, q.ep, q.idx))
    BY <1>7 DEF LlmdGotBackend, maps
  <2>2. q.bh = None /\ q.th = None /\ q.ep \in 0..epoch
    BY <1>0, <1>2, <2>1 DEF Suspended, Serving
  <2> HIDE DEF q
  <2>3. Carries(q, bsem, ttft, [q EXCEPT !.bh = q.ep], Take(bsem, q.ep, q.idx), ttft)
    BY <1>0, <1>2, <2>1, <2>2, TakenBackend
  <2> DEFINE n == [q EXCEPT !.bh = q.ep]
             b1 == Take(bsem, q.ep, q.idx)
  <2>4. n.th = None
    BY <1>0, <2>2 DEF Handlers
  <2>5. Carries(q, bsem, ttft, n, b1, ttft) /\ LlmdTakeTtft(r, n, b1)
    BY <2>1, <2>3
  <2> HIDE DEF n, b1
  <2>6. Serving(n, epoch) /\ b1 \in Semaphores
    BY <2>5 DEF Carries
  <2>7. Moved(r, n, b1, ttft)
    BY <2>4, <2>5, <2>6, TakeTtftBalances DEF RouterInv
  <2>8. Moved(r, q, bsem, ttft)
    BY <1>0, <2>5, <2>7, Carried DEF Sems
  <2> QED BY <1>0, <1>1, <1>3, <2>1, <2>8, GoesOn, MovedLosses DEF q, Tallies, Accounted
<1>8. CASE LlmdGotTtft(r)
  <2>1. /\ q.ph = "twait" /\ ttft[q.ep][q.idx] > 0 /\ UNCHANGED <<prefill, decode, persisted>>
        /\ LlmdAdmit(r, [q EXCEPT !.th = q.ep], bsem, Take(ttft, q.ep, q.idx))
    BY <1>8 DEF LlmdGotTtft, maps
  <2>2. q.th = None /\ q.ep \in 0..epoch
    BY <1>0, <1>2, <2>1 DEF Suspended, Serving
  <2> HIDE DEF q
  <2>3. Carries(q, bsem, ttft, [q EXCEPT !.th = q.ep], bsem, Take(ttft, q.ep, q.idx))
    BY <1>0, <1>2, <2>1, <2>2, TakenTtft DEF Sems
  <2> DEFINE n == [q EXCEPT !.th = q.ep]
             t1 == Take(ttft, q.ep, q.idx)
  <2>4. Carries(q, bsem, ttft, n, bsem, t1) /\ LlmdAdmit(r, n, bsem, t1)
    BY <2>1, <2>3
  <2> HIDE DEF n, t1
  <2>5. Serving(n, epoch) /\ t1 \in Semaphores /\ bsem \in Semaphores /\ ttft \in Semaphores
    BY <1>0, <2>4 DEF Carries, Sems
  <2>6. Moved(r, n, bsem, t1)
    BY <2>4, <2>5, AdmitBalances DEF RouterInv
  <2>7. Moved(r, q, bsem, ttft)
    BY <1>0, <2>4, <2>5, <2>6, Carried
  <2> QED BY <1>0, <1>1, <1>3, <2>1, <2>7, GoesOn, MovedLosses DEF q, Tallies, Accounted
<1>9. ASSUME LlmdFinish(r)
      PROVE  Accounted(r)
  <2> DEFINE n == [Idle EXCEPT !.ph = "done"]
  <2>1. /\ LlmdRelease(q, bsem, ttft) /\ req' = [req EXCEPT ![r] = n]
        /\ UNCHANGED <<lost, persisted>>
        /\ prefill' = IF req[r].pf THEN [prefill EXCEPT ![req[r].idx] = Less(@, BodyBytes)] ELSE prefill
        /\ decode' = IF req[r].pf THEN decode ELSE [decode EXCEPT ![req[r].idx] = Less(@, 1)]
    BY <1>9 DEF LlmdFinish, maps
  <2>2. n = [Idle EXCEPT !.ph = "done"]
    OBVIOUS
  <2> HIDE DEF n, q
  <2>3. Balanced(r, n, q, bsem, ttft)
    BY <1>0, <1>2, <2>1, <2>2, ReleaseBalances DEF Sems
  <2> QED BY <1>0, <1>1, <2>1, <2>2, <2>3, Finishes DEF q, Tallies, Accounted
<1>10. ASSUME LlmdHeaders(r) \/ LlmdRetry(r) \/ LlmdDisconnect(r) \/ (LlmdPostFails(r) /\ ~LlmdFinish(r))
       PROVE  Accounted(r)
  <2>1. /\ UNCHANGED <<maps, counters, sems>>
        /\ \/ req[r].ph = "post" /\ req' = [req EXCEPT ![r].ph = "stream"]
           \/ req[r].ph = "backoff" /\ req' = [req EXCEPT ![r].ph = "post"]
           \/ /\ req[r].ph = "post" /\ req[r].att < Attempts - 1
              /\ req' = [req EXCEPT ![r].ph = "backoff", ![r].att = @ + 1]
           \/ req' = [req EXCEPT ![r].up = FALSE]
    BY <1>10 DEF LlmdHeaders, LlmdRetry, LlmdDisconnect, LlmdPostFails
  <2> QED BY <1>1, <2>1, Forwards
<1>11. CASE LlmdPostFails(r)
  BY <1>9, <1>10, <1>11
<1>12. CASE LlmdStreamOver(r)
  BY <1>9, <1>12 DEF LlmdStreamOver
<1>13. CASE LlmdFirstToken(r)
  <2> DEFINE n == [q EXCEPT !.tok = TRUE, !.th = None, !.pf = FALSE]
             q1 == [q EXCEPT !.bh = None]
  <2>1. /\ q.ph = "stream" /\ req' = [req EXCEPT ![r] = n] /\ UNCHANGED <<lost, bsem>>
        /\ ttft' = Released(ttft, req[r].th, req[r]) /\ foreign' = ForeignAfter(q1)
        /\ prefill' = IF req[r].pf THEN [prefill EXCEPT ![req[r].idx] = Less(@, BodyBytes)] ELSE prefill
        /\ decode' = IF req[r].pf THEN [decode EXCEPT ![req[r].idx] = @ + 1] ELSE decode
        /\ persisted' \subseteq persisted \cup {q.s}
    BY <1>13 DEF LlmdFirstToken
  <2>2. /\ n \in Handlers /\ n.ph = "stream" /\ n.s = q.s /\ n.idx = q.idx /\ n.ep = q.ep
        /\ n.bh = q.bh /\ n.th = None /\ n.pf = FALSE
    BY <1>0, <2>1 DEF Handlers
  <2>3. q1.idx = q.idx /\ q1.th = q.th /\ q1.bh = None
    BY <1>0 DEF Handlers
  <2> HIDE DEF n, q1
  <2>4. Suspended(n, epoch)
    <3> HIDE DEF q
    <3> QED BY <1>0, <1>2, <2>1, <2>2 DEF Suspended, Serving, Waiting
  <2>5. Balanced(r, n, req[r], bsem, ttft)
    BY <1>1, <2>1, <2>2, <2>3, <2>4, TokenBalances
  <2>6. Steps(r) /\ prefill' \in Counts /\ decode' \in Counts
    BY <1>1, <2>1, <2>2, <2>5, Decoding DEF Waiting
  <2>7. persisted' \subseteq Sessions
    BY <1>0, <1>2, <2>1 DEF Tallies, Serving
  <2> QED BY <1>0, <2>1, <2>6, <2>7 DEF Tallies, Accounted
<1> QED BY <1>6, <1>7, <1>8, <1>10, <1>11, <1>12, <1>13 DEF LlmdProgress

-----------------------------------------------------------------------------
(* The Dynamo routers, whose handlers take no permit.                        *)
LEMMA StillAbstains ==
    ASSUME RouterInv, NEW r \in Requests, NEW n, req' = [req EXCEPT ![r] = n], router' = router, Abstains(n)
    PROVE  AbstainInv'
<1>1. \A h \in Requests : req'[h] = IF h = r THEN n ELSE req[h]
  BY HandlerTyped
<1> QED BY <1>1 DEF RouterInv, AbstainInv, Abstains

LEMMA DynAdmitMoves ==
    ASSUME RouterInv, NEW r \in Requests, NEW q, Serving(q, epoch), q.ep = None, q.bh = None,
           q.th = None, DynAdmit(r, q), UNCHANGED sems, router' = router
    PROVE  Moved(r, q, bsem, ttft) /\ AbstainInv'
<1>0. /\ Sems /\ Tallies /\ q \in Handlers /\ q.idx \in Backends /\ epoch # None
      /\ run_id \in 0..MaxResets /\ UNCHANGED <<bsem, ttft, foreign>>
  BY HandlerTyped, Bounds DEF Serving, Generations, sems
<1>1. CASE q.up
  <2> DEFINE n == [q EXCEPT !.ph = "post", !.run = run_id]
  <2>1. req' = [req EXCEPT ![r] = n] /\ lost' = lost
    BY <1>1 DEF DynAdmit
  <2>2. /\ n \in Handlers /\ n.ph = "post" /\ n.ep = None
        /\ n.idx = q.idx /\ n.s = q.s /\ n.bh = None /\ n.th = None /\ n.pf = q.pf
    BY <1>0 DEF Handlers, Waiting
  <2> HIDE DEF n
  <2>3. Suspended(n, epoch)
    BY <2>2 DEF Suspended, Serving, Waiting
  <2>4. \A c \in Backends : HeldT(n, c) = HeldT(q, c) /\ HeldB(n, c) = HeldB(q, c)
    BY <2>2 DEF HeldT, HeldB
  <2>5. Balanced(r, n, q, bsem, ttft)
    BY <1>0, <2>1, <2>3, <2>4 DEF Balanced, Sems
  <2>6. \A c \in Backends : WeightP(n, c) = ShareP(q, c) /\ WeightD(n, c) = ShareD(q, c)
    BY <2>2 DEF WeightP, WeightD, ShareP, ShareD, Waiting
  <2>7. LostOrCounted(n, q)
    BY <1>0, <2>1, <2>6 DEF LostOrCounted, Tallies
  <2>8. Abstains(n)
    BY <2>2 DEF Abstains
  <2> QED BY <2>1, <2>5, <2>7, <2>8, StillAbstains DEF Moved
<1>2. CASE ~q.up
  <2> DEFINE n == [Idle EXCEPT !.ph = "done"]
  <2>1. /\ req' = [req EXCEPT ![r] = n]
        /\ lost' = IF q.pf THEN [lost EXCEPT ![q.idx].pf = @ + 1]
                           ELSE [lost EXCEPT ![q.idx].dec = @ + 1]
    BY <1>2 DEF DynAdmit
  <2>2. n.ph \notin Waiting /\ n.th = None /\ n.bh = None
    BY DEF Idle, Waiting
  <2>3. Suspended(n, epoch)
    BY IdleSuspended
  <2> HIDE DEF n
  <2>4. \A c \in Backends : /\ HeldT(n, c) = HeldT(q, c) /\ HeldB(n, c) = HeldB(q, c)
                             /\ WeightP(n, c) = 0 /\ WeightD(n, c) = 0
    BY <1>0, <2>2 DEF HeldT, HeldB, WeightP, WeightD
  <2>5. Balanced(r, n, q, bsem, ttft)
    BY <1>0, <2>1, <2>3, <2>4 DEF Balanced, Sems
  <2>6. q.pf \in BOOLEAN
    BY <1>0 DEF Handlers
  <2>7. lost' \in Losses /\ \A c \in Backends :
            /\ lost'[c].pf = lost[c].pf + ShareP(q, c)
            /\ lost'[c].dec = lost[c].dec + ShareD(q, c)
    BY <1>0, <2>1, <2>6 DEF Losses, ShareP, ShareD, Tallies
  <2>8. \A c \in Backends : /\ lost[c].pf \in Int /\ lost[c].dec \in Int
                             /\ ShareP(q, c) \in Int /\ ShareD(q, c) \in Int
    BY <1>0 DEF Losses, ShareP, ShareD, Tallies
  <2>9. LostOrCounted(n, q)
    BY <2>4, <2>7, <2>8 DEF LostOrCounted
  <2>10. Abstains(n)
    BY <2>2 DEF Abstains
  <2> QED BY <2>1, <2>5, <2>9, <2>10, StillAbstains DEF Moved
<1> QED BY <1>1, <1>2

LEMMA DynArriveStep ==
    ASSUME RouterInv, HomesInv', router \in {"dynamo", "dynamo2"}, NEW r \in Requests, DynArrive(r)
    PROVE  RouterInv'
<1>0. /\ Sems /\ Tallies /\ Controls /\ HomesInv /\ Generations /\ epoch \in Epochs
      /\ req \in [Requests -> Handlers]
  BY HandlerTyped
<1>1. PICK s \in may.sessions, warm \in BOOLEAN : DynAssign(r, s, warm)
  BY DEF DynArrive
<1>2. UNCHANGED <<persisted, sems, swept, stage, run_id, admin>>
  BY <1>1 DEF DynAssign
<1>3. s \in Sessions
  BY <1>0, <1>1, SessionsKnown
<1> DEFINE measured == DynMeasured(warm)
           robin == measured /\ stage = 1
           first == measured /\ ~robin /\ active[s] = None
           idx == IF robin THEN rr ELSE DynHome(s)
           pf == robin \/ (first /\ stage # 5)
           q == [Idle EXCEPT !.ph = "delay", !.s = s, !.idx = idx, !.pf = pf]
<1>4. idx \in Backends /\ measured \in BOOLEAN /\ pf \in BOOLEAN /\ first \in BOOLEAN
  BY <1>0, <1>1, <1>3, SetsAssumption
     DEF DynHome, HomesInv, MapsTyped, HomeMaps, DynMeasured, Controls, Backends
<1>5. assigned' \in Counts
  BY <1>0, <1>1, <1>4 DEF DynAssign, Charge, Tallies, Counts
<1>6. profiling' \in BOOLEAN /\ seen' \in BOOLEAN
  BY <1>0, <1>1, <1>4 DEF DynAssign, Controls
<1>7. /\ req[r].ph = "idle"
      /\ prefill' = IF pf THEN [prefill EXCEPT ![idx] = @ + BodyBytes] ELSE prefill
      /\ decode' = IF pf THEN decode ELSE [decode EXCEPT ![idx] = @ + 1]
  BY <1>1 DEF DynAssign
<1>8. \/ req' = [req EXCEPT ![r] = q] /\ UNCHANGED lost
      \/ DynAdmit(r, q)
  BY <1>1 DEF DynAssign
<1> HIDE DEF idx, measured, first, pf, robin
<1>9. /\ q \in Handlers /\ Serving(q, epoch) /\ q.ph = "delay" /\ q.s = s /\ q.idx = idx /\ q.pf = pf
      /\ q.ep = None /\ q.bh = None /\ q.th = None
  <2>1. q = [Idle EXCEPT !.ph = "delay", !.s = s, !.idx = idx, !.pf = pf]
    OBVIOUS
  <2> HIDE DEF q
  <2>2. /\ q \in Handlers /\ q.ph = "delay" /\ q.s = s /\ q.idx = idx /\ q.pf = pf
        /\ q.ep = None /\ q.bh = None /\ q.th = None
    BY <1>3, <1>4, <2>1, IdleTyped DEF Handlers, Waiting
  <2> QED BY <1>3, <1>4, <2>2 DEF Serving
<1> HIDE DEF q
<1>10. UNCHANGED sems /\ UNCHANGED <<bsem, ttft, foreign>> /\ router' = router
  BY <1>2 DEF sems, admin
<1>11. Moved(r, q, bsem, ttft) /\ AbstainInv'
  <2>1. CASE req' = [req EXCEPT ![r] = q] /\ UNCHANGED lost
    <3>1. Suspended(q, epoch) /\ q.ph \in Waiting /\ Abstains(q)
      BY <1>9 DEF Suspended, Waiting, Abstains
    <3> QED BY <1>0, <1>10, <2>1, <3>1, Stays, StillAbstains DEF Sems
  <2>2. CASE DynAdmit(r, q)
    BY <1>9, <1>10, <2>2, DynAdmitMoves
  <2> QED BY <1>8, <2>1, <2>2
<1>12. Steps(r) /\ prefill' \in Counts /\ decode' \in Counts
  <2>1. /\ prefill' = IF q.pf THEN [prefill EXCEPT ![q.idx] = @ + BodyBytes] ELSE prefill
        /\ decode' = IF q.pf THEN decode ELSE [decode EXCEPT ![q.idx] = @ + 1]
    BY <1>7, <1>9
  <2> QED BY <1>7, <1>9, <1>11, <2>1, Arrives
<1>13. lost' \in Losses
  BY <1>11, MovedLosses
<1>14. leaves' \in 0..MaxLeaves /\ persisted' \subseteq Sessions
  BY <1>0, <1>2 DEF admin, Controls, Tallies
<1>15. Frame
  BY <1>2, <1>5, <1>6, <1>12, <1>13, <1>14, Framed DEF admin, sems
<1> QED BY <1>11, <1>12, <1>15, HandlerStep

LEMMA DynHandlerStep ==
    ASSUME RouterInv, HomesInv', router \in {"dynamo", "dynamo2"}, NEW r \in Requests,
           \/ DynDelayOver(r) \/ DynHeaders(r) \/ DynPostFails(r) \/ DynRetry(r)
           \/ DynFirstToken(r) \/ DynStreamOver(r) \/ DynDisconnect(r)
    PROVE  RouterInv'
<1> DEFINE q == req[r]
<1>0. /\ Sems /\ Tallies /\ Controls /\ req \in [Requests -> Handlers]
      /\ q \in Handlers /\ Suspended(q, epoch) /\ q.bh = None /\ q.th = None /\ epoch # None
  BY HandlerTyped DEF Abstains
<1>1. Live(r)
  BY DEF DynDelayOver, DynHeaders, DynPostFails, DynRetry, DynFirstToken, DynStreamOver,
         DynDisconnect, Live, Waiting
<1>2. Serving(q, epoch) /\ q.ph \in Waiting
  BY <1>1, HandlerTyped DEF Live
<1>3. /\ leaves' \in 0..MaxLeaves /\ assigned' = assigned
      /\ UNCHANGED <<may, router, stage, epoch, limit, use_sem, resetting, resets, restarts, run_id,
                     swept, profiling, seen, bsem, ttft, foreign>>
  BY <1>0, Bounds DEF DynDelayOver, DynHeaders, DynPostFails, DynRetry, DynFirstToken, DynStreamOver,
         DynDisconnect, DynFinish, admin, run, maps, sems, counters, Controls
<1>4. SUFFICES Accounted(r) /\ AbstainInv'
  <2>1. ASSUME Accounted(r), AbstainInv' PROVE RouterInv'
    <3>1. Frame
      BY <1>0, <1>3, <2>1, Framed DEF Controls, Tallies, Accounted
    <3> QED BY <2>1, <3>1, HandlerStep DEF Accounted
  <2> QED BY <2>1
<1>5. ASSUME NEW n, Suspended(n, epoch), n.th = None, n.bh = None, req' = [req EXCEPT ![r] = n]
      PROVE  Balanced(r, n, req[r], bsem, ttft) /\ AbstainInv'
  <2> HIDE DEF q
  <2>1. \A c \in Backends : HeldT(n, c) = HeldT(q, c) /\ HeldB(n, c) = HeldB(q, c)
    BY <1>0, <1>2, <1>5 DEF HeldT, HeldB, Serving
  <2>2. Balanced(r, n, q, bsem, ttft)
    BY <1>0, <1>3, <1>5, <2>1 DEF Balanced, Sems
  <2>3. AbstainInv'
    BY <1>3, <1>5, StillAbstains DEF Abstains
  <2> QED BY <2>2, <2>3 DEF q
<1>6. CASE DynDelayOver(r)
  <2>1. /\ q.ph = "delay" /\ DynAdmit(r, q) /\ UNCHANGED <<prefill, decode, persisted, sems>>
    BY <1>6 DEF DynDelayOver, maps
  <2>2. q.ep = None
    BY <1>0, <2>1 DEF Suspended
  <2> HIDE DEF q
  <2>3. Moved(r, q, bsem, ttft) /\ AbstainInv'
    BY <1>0, <1>2, <1>3, <2>1, <2>2, DynAdmitMoves
  <2> QED BY <1>0, <1>1, <2>1, <2>3, GoesOn, MovedLosses DEF q, Tallies, Accounted
<1>7. ASSUME DynFinish(r) PROVE Accounted(r) /\ AbstainInv'
  <2> DEFINE n == [Idle EXCEPT !.ph = "done"]
  <2>1. /\ req' = [req EXCEPT ![r] = n] /\ UNCHANGED <<lost, persisted>>
        /\ prefill' = IF req[r].pf THEN [prefill EXCEPT ![req[r].idx] = Less(@, BodyBytes)] ELSE prefill
        /\ decode' = IF req[r].pf THEN decode ELSE [decode EXCEPT ![req[r].idx] = Less(@, 1)]
    BY <1>7 DEF DynFinish, maps
  <2>2. n = [Idle EXCEPT !.ph = "done"] /\ n.th = None /\ n.bh = None /\ Suspended(n, epoch)
    BY IdleSuspended DEF Idle
  <2> HIDE DEF n
  <2>3. Balanced(r, n, req[r], bsem, ttft) /\ AbstainInv'
    BY <1>5, <2>1, <2>2
  <2> QED BY <1>0, <1>1, <2>1, <2>2, <2>3, Finishes DEF Tallies, Accounted
<1>8. ASSUME DynHeaders(r) \/ DynRetry(r) \/ DynDisconnect(r) \/ (DynPostFails(r) /\ ~DynFinish(r))
      PROVE  Accounted(r) /\ AbstainInv'
  <2>1. /\ UNCHANGED <<maps, counters, sems>>
        /\ \/ req[r].ph = "post" /\ req' = [req EXCEPT ![r].ph = "stream"]
           \/ req[r].ph = "backoff" /\ req' = [req EXCEPT ![r].ph = "post"]
           \/ /\ req[r].ph = "post" /\ req[r].att < Attempts - 1
              /\ req' = [req EXCEPT ![r].ph = "backoff", ![r].att = @ + 1]
           \/ req' = [req EXCEPT ![r].up = FALSE]
    BY <1>8 DEF DynHeaders, DynRetry, DynDisconnect, DynPostFails
  <2>2. Accounted(r) /\ req'[r].bh = None /\ req'[r].th = None
    BY <1>0, <1>1, <2>1, Forwards
  <2>3. req' = [req EXCEPT ![r] = req'[r]]
    BY <1>0, <2>1
  <2> QED BY <1>3, <2>2, <2>3, StillAbstains DEF Abstains
<1>9. CASE DynPostFails(r)
  BY <1>7, <1>8, <1>9
<1>10. CASE DynStreamOver(r)
  BY <1>7, <1>10 DEF DynStreamOver
<1>11. CASE DynFirstToken(r)
  <2> DEFINE n == [q EXCEPT !.tok = TRUE, !.pf = FALSE]
  <2>1. /\ q.ph = "stream" /\ req' = [req EXCEPT ![r] = n] /\ UNCHANGED lost
        /\ prefill' = IF req[r].pf THEN [prefill EXCEPT ![req[r].idx] = Less(@, BodyBytes)] ELSE prefill
        /\ decode' = IF req[r].pf THEN [decode EXCEPT ![req[r].idx] = @ + 1] ELSE decode
        /\ persisted' \subseteq persisted \cup {q.s}
    BY <1>11 DEF DynFirstToken
  <2>2. /\ n \in Handlers /\ n.ph = "stream" /\ n.s = q.s /\ n.idx = q.idx /\ n.ep = q.ep
        /\ n.bh = None /\ n.th = None /\ n.pf = FALSE
    BY <1>0, <2>1 DEF Handlers
  <2> HIDE DEF n
  <2>3. Suspended(n, epoch)
    <3> HIDE DEF q
    <3> QED BY <1>0, <1>2, <2>1, <2>2 DEF Suspended, Serving, Waiting
  <2>4. Balanced(r, n, req[r], bsem, ttft) /\ AbstainInv'
    BY <1>5, <2>1, <2>2, <2>3
  <2>5. Steps(r) /\ prefill' \in Counts /\ decode' \in Counts
    BY <1>1, <2>1, <2>2, <2>4, Decoding DEF Waiting
  <2>6. persisted' \subseteq Sessions
    BY <1>0, <1>2, <2>1 DEF Tallies, Serving
  <2> QED BY <1>0, <2>1, <2>4, <2>5, <2>6 DEF Tallies, Accounted
<1> QED BY <1>6, <1>8, <1>9, <1>10, <1>11

-----------------------------------------------------------------------------
(* The Lustre router.                                                        *)
LEMMA LustreArriveStep ==
    ASSUME RouterInv, HomesInv', NEW r \in Requests, LustreArrive(r)
    PROVE  RouterInv'
<1>0. /\ Sems /\ Tallies /\ Controls /\ HomesInv /\ Generations /\ epoch \in Epochs
      /\ req \in [Requests -> Handlers] /\ epoch \in 0..epoch
  BY HandlerTyped
<1>1. PICK s \in may.sessions :
        LET first == active[s] = None
            new == first /\ tier[s] = None
            idx == IF ~first THEN active[s] ELSE IF new THEN LessLoaded ELSE tier[s]
            q == [Idle EXCEPT !.ph = "post", !.s = s, !.idx = idx, !.pf = new]
        IN  /\ LustreIs /\ req[r].ph = "idle"
            /\ active' = [active EXCEPT ![s] = idx]
            /\ tier' = IF new THEN [tier EXCEPT ![s] = idx] ELSE tier
            /\ assigned' = Charge(first, idx)
            /\ prefill' = IF new THEN [prefill EXCEPT ![idx] = @ + BodyBytes] ELSE prefill
            /\ decode' = IF new THEN decode ELSE [decode EXCEPT ![idx] = @ + 1]
            /\ \/ /\ ~(new /\ use_sem)
                  /\ req' = [req EXCEPT ![r] = q] /\ UNCHANGED ttft
               \/ /\ new /\ use_sem /\ ttft[epoch][idx] > 0
                  /\ req' = [req EXCEPT ![r] = [q EXCEPT !.th = epoch]]
                  /\ ttft' = Take(ttft, epoch, idx)
               \/ /\ new /\ use_sem /\ ttft[epoch][idx] = 0
                  /\ req' = [req EXCEPT ![r] = [q EXCEPT !.ph = "twait", !.ep = epoch]]
                  /\ UNCHANGED ttft
            /\ UNCHANGED <<foreign, LustreRest>>
  BY DEF LustreArrive
<1>2. /\ router = "lustre"
      /\ UNCHANGED <<foreign, persisted, lost, swept, bsem, epoch, limit, use_sem, run, admin>>
  BY DEF LustreArrive, LustreRest, LustreIs
<1>3. s \in Sessions
  BY <1>0, <1>1, SessionsKnown
<1> DEFINE first == active[s] = None
           new == first /\ tier[s] = None
           idx == IF ~first THEN active[s] ELSE IF new THEN LessLoaded ELSE tier[s]
           q == [Idle EXCEPT !.ph = "post", !.s = s, !.idx = idx, !.pf = new]
<1>4. idx \in Backends /\ new \in BOOLEAN /\ first \in BOOLEAN
  BY <1>0, <1>3, LessLoadedTyped DEF HomesInv, MapsTyped, HomeMaps
<1>5. assigned' \in Counts
  BY <1>0, <1>1, <1>4 DEF Charge, Tallies, Counts
<1>6. /\ req[r].ph = "idle"
      /\ prefill' = IF new THEN [prefill EXCEPT ![idx] = @ + BodyBytes] ELSE prefill
      /\ decode' = IF new THEN decode ELSE [decode EXCEPT ![idx] = @ + 1]
  BY <1>1
<1>7. \/ req' = [req EXCEPT ![r] = q] /\ UNCHANGED ttft
      \/ /\ ttft[epoch][idx] > 0
         /\ req' = [req EXCEPT ![r] = [q EXCEPT !.th = epoch]]
         /\ ttft' = Take(ttft, epoch, idx)
      \/ /\ req' = [req EXCEPT ![r] = [q EXCEPT !.ph = "twait", !.ep = epoch]]
         /\ UNCHANGED ttft
  BY <1>1
<1> HIDE DEF idx, new, first
<1>8. /\ q \in Handlers /\ Serving(q, epoch) /\ q.ph = "post" /\ q.s = s /\ q.idx = idx /\ q.pf = new
      /\ q.ep = None /\ q.bh = None /\ q.th = None
  <2>1. q = [Idle EXCEPT !.ph = "post", !.s = s, !.idx = idx, !.pf = new]
    OBVIOUS
  <2> HIDE DEF q
  <2>2. /\ q \in Handlers /\ q.ph = "post" /\ q.s = s /\ q.idx = idx /\ q.pf = new
        /\ q.ep = None /\ q.bh = None /\ q.th = None
    BY <1>3, <1>4, <2>1, IdleTyped DEF Handlers, Waiting
  <2> QED BY <1>3, <1>4, <2>2 DEF Serving
<1> HIDE DEF q
<1>9. UNCHANGED <<bsem, foreign, lost>> /\ router' = router /\ epoch # None
  BY <1>2, HandlerTyped DEF admin
<1>10. Moved(r, q, bsem, ttft) /\ AbstainInv'
  <2>1. CASE req' = [req EXCEPT ![r] = q] /\ UNCHANGED ttft
    <3>1. Suspended(q, epoch) /\ q.ph \in Waiting /\ Abstains(q)
      BY <1>8 DEF Suspended, Waiting, Abstains
    <3> QED BY <1>0, <1>9, <2>1, <3>1, Stays, StillAbstains DEF Sems
  <2>2. CASE /\ ttft[epoch][idx] > 0
             /\ req' = [req EXCEPT ![r] = [q EXCEPT !.th = epoch]]
             /\ ttft' = Take(ttft, epoch, idx)
    <3> DEFINE n == [q EXCEPT !.th = epoch]
               t1 == Take(ttft, epoch, q.idx)
    <3>1. Carries(q, bsem, ttft, n, bsem, t1)
      BY <1>0, <1>8, <2>2, TakenTtft DEF Sems
    <3>2. req' = [req EXCEPT ![r] = n] /\ ttft' = t1
      BY <1>8, <2>2
    <3>3. n \in Handlers /\ n.ph = "post" /\ n.ep = None /\ n.bh = None
      BY <1>0, <1>8 DEF Handlers
    <3> HIDE DEF n, t1
    <3>4. Serving(n, epoch) /\ t1 \in Semaphores /\ bsem \in Semaphores /\ ttft \in Semaphores
      BY <1>0, <3>1 DEF Carries, Sems
    <3>5. Suspended(n, epoch) /\ n.ph \in Waiting /\ Abstains(n)
      BY <1>2, <3>3, <3>4 DEF Suspended, Waiting, Abstains
    <3>6. Moved(r, n, bsem', ttft')
      BY <1>9, <3>2, <3>4, <3>5, Stays
    <3>7. Moved(r, n, bsem, t1)
      BY <1>9, <3>2, <3>6
    <3> QED BY <1>0, <1>9, <3>1, <3>2, <3>4, <3>5, <3>7, Carried, StillAbstains
  <2>3. CASE /\ req' = [req EXCEPT ![r] = [q EXCEPT !.ph = "twait", !.ep = epoch]]
             /\ UNCHANGED ttft
    <3>1. Abstains([q EXCEPT !.ph = "twait", !.ep = epoch])
      BY <1>2, <1>8 DEF Abstains, Handlers
    <3>2. Moved(r, q, bsem, ttft)
      BY <1>0, <1>8, <1>9, <2>3, SleepBalances DEF RouterInv, Sems
    <3> QED BY <1>9, <2>3, <3>1, <3>2, StillAbstains
  <2> QED BY <1>7, <2>1, <2>2, <2>3
<1>11. Steps(r) /\ prefill' \in Counts /\ decode' \in Counts
  <2>1. /\ prefill' = IF q.pf THEN [prefill EXCEPT ![q.idx] = @ + BodyBytes] ELSE prefill
        /\ decode' = IF q.pf THEN decode ELSE [decode EXCEPT ![q.idx] = @ + 1]
    BY <1>6, <1>8
  <2> QED BY <1>6, <1>8, <1>9, <1>10, <2>1, Arrives
<1>12. /\ leaves' \in 0..MaxLeaves /\ persisted' \subseteq Sessions /\ lost' \in Losses
       /\ profiling' \in BOOLEAN /\ seen' \in BOOLEAN
  BY <1>0, <1>2 DEF admin, run, Controls, Tallies
<1>13. Frame
  BY <1>2, <1>5, <1>11, <1>12, Framed DEF admin, run
<1> QED BY <1>10, <1>11, <1>13, HandlerStep

LEMMA LustreHandlerStep ==
    ASSUME RouterInv, HomesInv', NEW r \in Requests,
           \/ LustreGotPermit(r) \/ LustreHeaders(r) \/ LustrePostFails(r) \/ LustreRetry(r)
           \/ LustreFirstToken(r) \/ LustreStreamOver(r)
    PROVE  RouterInv'
<1> DEFINE q == req[r]
<1>0. /\ router = "lustre" /\ router' = router
      /\ UNCHANGED <<stage, use_sem, profiling, seen, leaves, may, epoch, limit, resetting, resets,
                     restarts, run_id, swept, bsem, lost, assigned>>
  BY DEF LustreGotPermit, LustreHeaders, LustrePostFails, LustreRetry, LustreFirstToken, LustreStreamOver,
         LustreFinish, LustreRest, LustreIs, run, admin, maps, counters, sems
<1>1. /\ Sems /\ Tallies /\ Controls /\ req \in [Requests -> Handlers] /\ epoch \in Epochs
      /\ q \in Handlers /\ Suspended(q, epoch) /\ q.bh = None /\ epoch # None
      /\ ttft \in Semaphores /\ bsem \in Semaphores
  BY <1>0, HandlerTyped DEF Abstains, Sems
<1>2. Live(r)
  BY DEF LustreGotPermit, LustreHeaders, LustrePostFails, LustreRetry, LustreFirstToken, LustreStreamOver,
         Live, Waiting
<1>3. Serving(q, epoch) /\ q.ph \in Waiting
  BY <1>2, HandlerTyped DEF Live
<1>4. SUFFICES Accounted(r) /\ req'[r].bh = None
  <2>1. ASSUME Accounted(r), req'[r].bh = None PROVE RouterInv'
    <3>1. Frame
      BY <1>0, <1>1, <2>1, Framed DEF Controls, Tallies, Accounted
    <3>2. req' = [req EXCEPT ![r] = req'[r]]
      BY <1>1, <2>1 DEF Accounted, Steps, Balanced
    <3>3. AbstainInv'
      BY <1>0, <2>1, <3>2, StillAbstains DEF Abstains
    <3> QED BY <2>1, <3>1, <3>3, HandlerStep DEF Accounted
  <2> QED BY <2>1
<1>5. CASE LustreGotPermit(r)
  <2> DEFINE n == [q EXCEPT !.ph = "post", !.th = q.ep, !.ep = None]
             m == [q EXCEPT !.th = q.ep]
             t1 == Take(ttft, q.ep, q.idx)
  <2>1. /\ q.ph = "twait" /\ ttft[q.ep][q.idx] > 0 /\ UNCHANGED <<prefill, decode, persisted, foreign>>
        /\ req' = [req EXCEPT ![r] = n] /\ ttft' = t1
    BY <1>5 DEF LustreGotPermit, LustreRest
  <2>2. q.th = None /\ q.ep \in 0..epoch
    BY <1>1, <1>3, <2>1 DEF Suspended, Serving
  <2> HIDE DEF q
  <2>3. Carries(q, bsem, ttft, m, bsem, t1)
    BY <1>1, <1>3, <2>1, <2>2, TakenTtft
  <2>4. /\ n \in Handlers /\ n.ph = "post" /\ n.ep = None /\ n.th = q.ep /\ n.bh = None
        /\ n.idx = q.idx /\ n.s = q.s /\ n.pf = q.pf
        /\ m.idx = q.idx /\ m.th = q.ep /\ m.bh = None /\ m.pf = q.pf
    BY <1>1, <1>3, <2>2 DEF Handlers, Waiting, Serving
  <2>5. req'[r].bh = None
    BY <1>1, <2>1, <2>4
  <2> HIDE DEF n, m, t1
  <2>6. Serving(m, epoch) /\ t1 \in Semaphores
    BY <2>3 DEF Carries
  <2>7. Suspended(n, epoch)
    BY <1>3, <2>2, <2>4 DEF Suspended, Serving, Waiting
  <2>8. \A c \in Backends : /\ HeldT(n, c) = HeldT(m, c) /\ HeldB(n, c) = HeldB(m, c)
                             /\ WeightP(n, c) = ShareP(m, c) /\ WeightD(n, c) = ShareD(m, c)
    BY <2>4 DEF HeldT, HeldB, WeightP, WeightD, ShareP, ShareD, Waiting
  <2>9. Balanced(r, n, m, bsem, t1)
    BY <1>0, <1>1, <2>1, <2>6, <2>7, <2>8 DEF Balanced, Sems
  <2>10. Moved(r, m, bsem, t1)
    BY <1>0, <1>1, <2>8, <2>9 DEF LostOrCounted, Tallies, Moved
  <2>11. Moved(r, q, bsem, ttft)
    BY <1>1, <2>3, <2>6, <2>10, Carried
  <2> QED BY <1>0, <1>1, <1>2, <2>1, <2>5, <2>11, GoesOn DEF q, Tallies, Accounted
<1>6. ASSUME LustreFinish(r) PROVE Accounted(r) /\ req'[r].bh = None
  <2> DEFINE n == [Idle EXCEPT !.ph = "done"]
  <2>1. /\ ttft' = Released(ttft, q.th, q) /\ foreign' = ForeignAfter(q)
        /\ req' = [req EXCEPT ![r] = n] /\ UNCHANGED persisted
        /\ prefill' = IF req[r].pf THEN [prefill EXCEPT ![req[r].idx] = Less(@, BodyBytes)] ELSE prefill
        /\ decode' = IF req[r].pf THEN decode ELSE [decode EXCEPT ![req[r].idx] = Less(@, 1)]
    BY <1>6 DEF LustreFinish, LustreRest
  <2>2. n = [Idle EXCEPT !.ph = "done"] /\ n.bh = None
    BY DEF Idle
  <2> HIDE DEF n, q
  <2>3. LlmdRelease(q, bsem, ttft)
    BY <1>0, <1>1, <2>1 DEF LlmdRelease, Released
  <2>4. Balanced(r, n, q, bsem, ttft)
    BY <1>1, <1>3, <2>1, <2>2, <2>3, ReleaseBalances
  <2>5. req'[r].bh = None
    BY <1>1, <2>1, <2>2
  <2> QED BY <1>0, <1>1, <1>2, <2>1, <2>2, <2>4, <2>5, Finishes DEF q, Tallies, Accounted
<1>7. ASSUME LustreHeaders(r) \/ LustreRetry(r) \/ (LustrePostFails(r) /\ ~LustreFinish(r))
      PROVE  Accounted(r) /\ req'[r].bh = None
  <2>1. /\ UNCHANGED <<maps, counters, sems>>
        /\ \/ req[r].ph = "post" /\ req' = [req EXCEPT ![r].ph = "stream"]
           \/ req[r].ph = "backoff" /\ req' = [req EXCEPT ![r].ph = "post"]
           \/ /\ req[r].ph = "post" /\ req[r].att < Attempts - 1
              /\ req' = [req EXCEPT ![r].ph = "backoff", ![r].att = @ + 1]
    BY <1>7 DEF LustreHeaders, LustreRetry, LustrePostFails
  <2> QED BY <1>1, <1>2, <2>1, Forwards
<1>8. CASE LustrePostFails(r)
  BY <1>6, <1>7, <1>8
<1>9. CASE LustreStreamOver(r)
  BY <1>6, <1>9 DEF LustreStreamOver
<1>10. CASE LustreFirstToken(r)
  <2> DEFINE n == [q EXCEPT !.tok = TRUE, !.th = None, !.pf = FALSE]
  <2>1. /\ q.ph = "stream" /\ req' = [req EXCEPT ![r] = n]
        /\ ttft' = Released(ttft, req[r].th, req[r]) /\ foreign' = ForeignAfter(q)
        /\ prefill' = IF req[r].pf THEN [prefill EXCEPT ![req[r].idx] = Less(@, BodyBytes)] ELSE prefill
        /\ decode' = IF req[r].pf THEN [decode EXCEPT ![req[r].idx] = @ + 1] ELSE decode
        /\ persisted' = persisted \cup {q.s}
    BY <1>10 DEF LustreFirstToken
  <2>2. /\ n \in Handlers /\ n.ph = "stream" /\ n.s = q.s /\ n.idx = q.idx /\ n.ep = q.ep
        /\ n.bh = q.bh /\ n.th = None /\ n.pf = FALSE
    <3>1. n \in Handlers
      <4> HIDE DEF q
      <4>1. q \in Handlers
        BY <1>1
      <4> QED BY <4>1 DEF Handlers
    <3>2. /\ n.ph = "stream" /\ n.s = q.s /\ n.idx = q.idx /\ n.ep = q.ep
          /\ n.bh = q.bh /\ n.th = None /\ n.pf = FALSE
      BY <1>1, <2>1 DEF Handlers
    <3> QED BY <3>1, <3>2
  <2>3. req'[r].bh = None
    BY <1>1, <2>1, <2>2
  <2> HIDE DEF n
  <2>4. Suspended(n, epoch)
    <3> HIDE DEF q
    <3> QED BY <1>1, <1>3, <2>1, <2>2 DEF Suspended, Serving, Waiting
  <2>5. Balanced(r, n, req[r], bsem, ttft)
    BY <1>0, <1>1, <1>2, <2>1, <2>2, <2>4, TokenBalances
  <2>6. Steps(r) /\ prefill' \in Counts /\ decode' \in Counts
    BY <1>0, <1>2, <2>1, <2>2, <2>5, Decoding DEF Waiting
  <2>7. persisted' \subseteq Sessions
    BY <1>1, <1>3, <2>1 DEF Tallies, Serving
  <2> QED BY <1>0, <1>1, <2>3, <2>6, <2>7 DEF Tallies, Accounted
<1> QED BY <1>5, <1>7, <1>8, <1>9, <1>10

-----------------------------------------------------------------------------
(* Resets and restarts.                                                      *)
LEMMA StagesKnown == ASSUME HomesInv PROVE may.stages \subseteq 1..5
BY SetsAssumption DEF HomesInv, MapsTyped

LEMMA LimitsKnown == ASSUME HomesInv PROVE may.backend_limit \in Nat \ {0}
BY SetsAssumption DEF HomesInv, MapsTyped

LEMMA SuspendedLater ==
    ASSUME NEW e \in Nat, NEW q, Suspended(q, e)
    PROVE  Suspended(q, e + 1)
<1>1. 0..e \subseteq 0..e + 1
  OBVIOUS
<1> QED BY <1>1 DEF Suspended, Serving

(* Nothing happens to the semaphores and the requests.                       *)
LEMMA Unmoved ==
    ASSUME RouterInv, HomesInv', Generations', Controls', Tallies',
           UNCHANGED <<may, router, epoch, limit, ttft, bsem, foreign, req>>
    PROVE  TypedInv' /\ PermitInv' /\ AbstainInv'
<1>1. TypedInv'
  BY DEF RouterInv, TypedInv, Sems, AllSuspended
<1>2. PermitInv'
  BY DEF RouterInv, PermitInv, PermitsConserved, Unused
<1>3. AbstainInv'
  BY DEF RouterInv, AbstainInv, Abstains
<1> QED BY <1>1, <1>2, <1>3

(* Where nothing is served, the counters are zero.                           *)
LEMMA Zeroed ==
    ASSUME prefill' = Zero, decode' = Zero, lost' = NoLoss, swept' \/ \A r \in Requests : ~Live(r)'
    PROVE  CountInv'
<1>1. ASSUME ~swept', NEW b \in Backends
      PROVE  /\ prefill'[b] = BodyBytes * (Cardinality(Prefills(b)') + lost'[b].pf)
             /\ decode'[b] = Cardinality(Decodes(b)') + lost'[b].dec
  <2>1. Prefills(b)' = {} /\ Decodes(b)' = {}
    BY <1>1 DEF Prefills, Decodes
  <2>2. Cardinality(Prefills(b)') = 0 /\ Cardinality(Decodes(b)') = 0
    BY <2>1, FS_EmptySet
  <2>3. prefill'[b] = 0 /\ decode'[b] = 0 /\ lost'[b].pf = 0 /\ lost'[b].dec = 0
    BY DEF Zero, NoLoss
  <2>4. BodyBytes * (0 + 0) = 0 /\ 0 + 0 = 0
    BY Bounds
  <2> QED BY <2>2, <2>3, <2>4
<1>2. CountersExact'
  BY <1>1 DEF CountersExact, Counted, Prefills, Decodes
<1>3. lost' = NoLoss
  OBVIOUS
<1> QED BY <1>2, <1>3 DEF CountInv

LEMMA ZeroTyped == Zero \in Counts /\ NoLoss \in Losses /\ NoForeign \in Foreigns
BY DEF Zero, NoLoss, NoForeign, Counts, Losses, Foreigns

(* New lists, all of whose permits are there, and handlers of older lists.   *)
LEMMA Renewed ==
    ASSUME RouterInv, HomesInv', Generations', Controls', Tallies', UNCHANGED <<may, router>>,
           epoch' = epoch + 1, foreign' = NoForeign,
           req' \in [Requests -> Handlers],
           \A r \in Requests : Suspended(req'[r], epoch) /\ Abstains(req'[r]),
           limit' \in [Epochs -> Nat \ {0}], ttft' \in Semaphores, bsem' \in Semaphores,
           \A e \in Epochs, b \in Backends :
               e > epoch => ttft'[e][b] = limit'[e] /\ bsem'[e][b] = may.backend_limit
    PROVE  TypedInv' /\ PermitInv' /\ AbstainInv'
<1>1. epoch \in Nat /\ epoch' \in Epochs /\ epoch' > epoch /\ epoch' # None
  <2>1. epoch' \in Epochs
    BY Bounds DEF Generations, Epochs
  <2> QED BY <2>1, HandlerTyped DEF Generations, None, RouterInv, TypedInv
<1>2. AllSuspended'
  <2>1. \A r \in Requests : Suspended(req'[r], epoch')
    BY <1>1, SuspendedLater
  <2> QED BY <2>1 DEF AllSuspended
<1>3. TypedInv'
  BY <1>2, ZeroTyped DEF TypedInv, Sems
<1>4. Unused'
  BY <1>1 DEF Unused, Epochs
<1>5. ASSUME NEW b \in Backends
      PROVE  /\ ttft'[epoch'][b] + Cardinality({r \in Requests : req'[r].idx = b /\ req'[r].th = epoch'})
                    = limit'[epoch'] + foreign'[b].t
             /\ bsem'[epoch'][b] + Cardinality({r \in Requests : req'[r].idx = b /\ req'[r].bh = epoch'})
                    = may'.backend_limit + foreign'[b].b
  <2>1. ASSUME NEW r \in Requests PROVE req'[r].th # epoch' /\ req'[r].bh # epoch'
    <3>1. req'[r].ph \in Waiting => {req'[r].th, req'[r].bh} \subseteq 0..epoch \cup {None}
      BY DEF Suspended, Serving
    <3>2. req'[r].ph \notin Waiting => req'[r].th = None /\ req'[r].bh = None
      BY DEF Suspended, Waiting, Handlers
    <3>3. epoch' \notin 0..epoch \cup {None}
      BY <1>1
    <3> QED BY <1>1, <3>1, <3>2, <3>3
  <2>2. /\ {r \in Requests : req'[r].idx = b /\ req'[r].th = epoch'} = {}
        /\ {r \in Requests : req'[r].idx = b /\ req'[r].bh = epoch'} = {}
    BY <2>1
  <2>3. ttft'[epoch'][b] = limit'[epoch'] /\ bsem'[epoch'][b] = may.backend_limit
    BY <1>1
  <2>4. foreign'[b].t = 0 /\ foreign'[b].b = 0 /\ may' = may
    BY DEF NoForeign
  <2>5. limit'[epoch'] \in Nat /\ may.backend_limit \in Nat
    BY <1>1, LimitsKnown, HandlerTyped DEF RouterInv, TypedInv
  <2>6. Cardinality({}) = 0
    BY FS_EmptySet
  <2> DEFINE k == limit'[epoch']
             m == may.backend_limit
  <2>7. k \in Nat /\ m \in Nat
    BY <2>5
  <2> HIDE DEF k, m
  <2>8. k + 0 = k + 0 /\ m + 0 = m + 0
    OBVIOUS
  <2> QED BY <2>2, <2>3, <2>4, <2>6, <2>8 DEF k, m
<1>6. PermitsConserved'
  BY <1>5 DEF PermitsConserved
<1>7. AbstainInv'
  BY DEF AbstainInv, Abstains
<1> QED BY <1>3, <1>4, <1>6, <1>7 DEF PermitInv

(* What a restart leaves of the handlers.                                    *)
LEMMA Killed ==
    ASSUME RouterInv, req' = [r \in Requests |-> IF Live(r) THEN [Idle EXCEPT !.ph = "done"] ELSE req[r]]
    PROVE  /\ req' \in [Requests -> Handlers]
           /\ \A r \in Requests : /\ Suspended(req'[r], epoch) /\ Abstains(req'[r])
                                  /\ req'[r].ph \notin Waiting
<1> DEFINE n == [Idle EXCEPT !.ph = "done"]
<1>1. Suspended(n, epoch) /\ n \in Handlers
  BY IdleSuspended
<1>2. n.ph \notin Waiting /\ Abstains(n)
  BY DEF Idle, Waiting, Abstains
<1> HIDE DEF n
<1>3. \A r \in Requests : req'[r] = IF Live(r) THEN n ELSE req[r]
  BY DEF n
<1>4. \A r \in Requests : req[r] \in Handlers /\ Suspended(req[r], epoch) /\ Abstains(req[r])
  BY HandlerTyped
<1>5. req' \in [Requests -> Handlers]
  BY <1>1, <1>4 DEF n
<1> QED BY <1>1, <1>2, <1>3, <1>4, <1>5 DEF Live

LEMMA LlmdResetStep ==
    ASSUME RouterInv, HomesInv', LlmdResetBegin \/ LlmdResetEnd \/ LlmdRestart
    PROVE  RouterInv'
<1>0. /\ HomesInv /\ Generations /\ Controls /\ Tallies /\ Sems /\ epoch \in Nat /\ router = "llmd"
      /\ may.stages \subseteq 1..5 /\ may.backend_limit \in Nat \ {0}
  BY StagesKnown, LimitsKnown
     DEF RouterInv, TypedInv, Generations, LlmdResetBegin, LlmdResetEnd, LlmdRestart, LlmdIs
<1>1. CASE LlmdResetBegin
  <2>1. PICK st \in may.stages, clear \in {"keep", "clear"} :
          /\ resetting = "no" /\ resets < MaxResets
          /\ stage' = st /\ run_id' = run_id + 1 /\ seen' = FALSE /\ profiling' = FALSE
          /\ resetting' = clear /\ resets' = resets + 1
          /\ UNCHANGED <<rr, maps, counters, sems, req, may, router, restarts, leaves, index>>
    BY <1>1 DEF LlmdResetBegin
  <2>2. Generations'
    BY <1>0, <2>1, Bounds DEF Generations, sems
  <2>3. Controls' /\ Tallies'
    BY <1>0, <2>1 DEF Controls, Tallies, maps, counters, sems
  <2>4. TypedInv' /\ PermitInv' /\ AbstainInv'
    BY <2>1, <2>2, <2>3, Unmoved DEF sems
  <2>5. CountInv'
    BY <2>1 DEF RouterInv, CountInv, CountersExact, Counted, Live, counters
  <2> QED BY <2>4, <2>5 DEF RouterInv
<1>2. CASE LlmdResetEnd
  <2>1. /\ resetting # "no" /\ assigned' = Zero /\ prefill' = Zero /\ decode' = Zero /\ lost' = NoLoss
        /\ swept' = (swept \/ \E r \in Requests : Live(r)) /\ epoch' = epoch + 1
        /\ limit' = [limit EXCEPT ![epoch + 1] = IF stage \in {4, 5} THEN WideLimit ELSE TtftLimit]
        /\ ttft' = [ttft EXCEPT ![epoch + 1] = [b \in Backends |-> limit'[epoch + 1]]]
        /\ bsem' = [bsem EXCEPT ![epoch + 1] = [b \in Backends |-> may.backend_limit]]
        /\ use_sem' = (stage \notin {4, 5}) /\ foreign' = NoForeign /\ resetting' = "no"
        /\ UNCHANGED <<persisted, stage, run_id, profiling, seen, rr, req, may, router, resets, restarts, leaves>>
    BY <1>2 DEF LlmdResetEnd
  <2>2. Generations'
    BY <1>0, <2>1 DEF Generations
  <2>3. Controls' /\ Tallies'
    BY <1>0, <2>1, ZeroTyped DEF Controls, Tallies
  <2>4. epoch + 1 \in Epochs
    BY <1>0, <2>1, <2>2, Bounds DEF Generations, Epochs
  <2>5. limit' \in [Epochs -> Nat \ {0}] /\ \A e \in Epochs : e # epoch + 1 => limit'[e] = limit[e]
    <3> DEFINE w == IF stage \in {4, 5} THEN WideLimit ELSE TtftLimit
    <3>1. w \in Nat \ {0} /\ limit' = [limit EXCEPT ![epoch + 1] = w]
      BY <2>1, Bounds
    <3> HIDE DEF w
    <3> QED BY <1>0, <3>1 DEF Sems
  <2>6. /\ ttft' \in Semaphores /\ bsem' \in Semaphores
        /\ \A e \in Epochs, b \in Backends :
              /\ ttft'[e][b] = IF e = epoch + 1 THEN limit'[e] ELSE ttft[e][b]
              /\ bsem'[e][b] = IF e = epoch + 1 THEN may.backend_limit ELSE bsem[e][b]
    <3> DEFINE k == limit'[epoch + 1]
               m == may.backend_limit
    <3>1. k \in Nat /\ m \in Nat
      BY <1>0, <2>4, <2>5
    <3>2. /\ ttft' = [ttft EXCEPT ![epoch + 1] = [b \in Backends |-> k]]
          /\ bsem' = [bsem EXCEPT ![epoch + 1] = [b \in Backends |-> m]]
      BY <2>1
    <3> HIDE DEF k, m
    <3>3. /\ ttft' \in Semaphores /\ bsem' \in Semaphores
          /\ \A e \in Epochs, b \in Backends :
                /\ ttft'[e][b] = IF e = epoch + 1 THEN k ELSE ttft[e][b]
                /\ bsem'[e][b] = IF e = epoch + 1 THEN m ELSE bsem[e][b]
      BY <1>0, <3>1, <3>2 DEF Sems, Semaphores
    <3> QED BY <3>3 DEF k, m
  <2>7. ASSUME NEW e \in Epochs, NEW b \in Backends, e > epoch
        PROVE  ttft'[e][b] = limit'[e] /\ bsem'[e][b] = may.backend_limit
    <3>1. e # epoch + 1 => ttft[e][b] = limit[e] /\ bsem[e][b] = may.backend_limit
      BY <2>7 DEF RouterInv, PermitInv, Unused
    <3> QED BY <2>5, <2>6, <3>1
  <2>8. req' \in [Requests -> Handlers] /\ \A r \in Requests : Suspended(req'[r], epoch) /\ Abstains(req'[r])
    BY <2>1, HandlerTyped DEF RouterInv, TypedInv, AllSuspended
  <2>9. TypedInv' /\ PermitInv' /\ AbstainInv'
    BY <2>1, <2>2, <2>3, <2>5, <2>6, <2>7, <2>8, Renewed
  <2>10. swept' \/ \A r \in Requests : ~Live(r)'
    BY <2>1 DEF Live
  <2> QED BY <2>1, <2>9, <2>10, Zeroed DEF RouterInv
<1>3. CASE LlmdRestart
  <2>1. /\ restarts < MaxRestarts /\ restarts' = restarts + 1 /\ resetting' = "no"
        /\ stage' = 4 /\ run_id' = 0 /\ profiling' = FALSE /\ seen' = FALSE
        /\ assigned' = Zero /\ persisted' = {} /\ prefill' = Zero /\ decode' = Zero /\ lost' = NoLoss
        /\ swept' = FALSE /\ epoch' = epoch + 1 /\ use_sem' = TRUE /\ foreign' = NoForeign
        /\ limit' = [limit EXCEPT ![epoch + 1] = TtftLimit]
        /\ ttft' = [ttft EXCEPT ![epoch + 1] = [b \in Backends |-> TtftLimit]]
        /\ bsem' = [bsem EXCEPT ![epoch + 1] = [b \in Backends |-> may.backend_limit]]
        /\ req' = [r \in Requests |-> IF Live(r) THEN [Idle EXCEPT !.ph = "done"] ELSE req[r]]
        /\ UNCHANGED <<may, router, resets, leaves>>
    BY <1>3 DEF LlmdRestart
  <2>2. Generations'
    BY <1>0, <2>1, Bounds DEF Generations
  <2>3. Controls' /\ Tallies'
    <3>1. Controls'
      <4>1. /\ stage' = 4 /\ use_sem' = TRUE /\ profiling' = FALSE /\ seen' = FALSE /\ swept' = FALSE
            /\ resetting' = "no" /\ leaves' = leaves /\ router' = router
        BY <2>1
      <4>2. leaves' \in 0..MaxLeaves /\ router' \in Programs
        BY <1>0, <4>1 DEF Controls
      <4>3. stage' \in 1..5 /\ resetting' \in {"no", "keep", "clear"}
        BY <4>1
      <4> QED BY <4>1, <4>2, <4>3 DEF Controls
    <3>2. Tallies'
      BY <2>1, ZeroTyped DEF Tallies
    <3> QED BY <3>1, <3>2
  <2>4. epoch + 1 \in Epochs
    BY <1>0, <2>1, <2>2, Bounds DEF Generations, Epochs
  <2>5. limit' \in [Epochs -> Nat \ {0}] /\ \A e \in Epochs :
            limit'[e] = IF e = epoch + 1 THEN TtftLimit ELSE limit[e]
    BY <1>0, <2>1, Bounds DEF Sems
  <2>6. /\ ttft' \in Semaphores /\ bsem' \in Semaphores
        /\ \A e \in Epochs, b \in Backends :
              /\ ttft'[e][b] = IF e = epoch + 1 THEN TtftLimit ELSE ttft[e][b]
              /\ bsem'[e][b] = IF e = epoch + 1 THEN may.backend_limit ELSE bsem[e][b]
    <3> DEFINE m == may.backend_limit
    <3>1. m \in Nat /\ bsem' = [bsem EXCEPT ![epoch + 1] = [b \in Backends |-> m]]
      BY <1>0, <2>1
    <3> HIDE DEF m
    <3>2. /\ bsem' \in Semaphores
          /\ \A e \in Epochs, b \in Backends : bsem'[e][b] = IF e = epoch + 1 THEN m ELSE bsem[e][b]
      BY <1>0, <3>1 DEF Sems, Semaphores
    <3>3. ttft' = [ttft EXCEPT ![epoch + 1] = [b \in Backends |-> TtftLimit]] /\ TtftLimit \in Nat
      BY <2>1, Bounds
    <3>4. /\ ttft' \in Semaphores
          /\ \A e \in Epochs, b \in Backends : ttft'[e][b] = IF e = epoch + 1 THEN TtftLimit ELSE ttft[e][b]
      BY <1>0, <3>3 DEF Sems, Semaphores
    <3> QED BY <3>2, <3>4 DEF m
  <2>7. ASSUME NEW e \in Epochs, NEW b \in Backends, e > epoch
        PROVE  ttft'[e][b] = limit'[e] /\ bsem'[e][b] = may.backend_limit
    <3>1. e # epoch + 1 => ttft[e][b] = limit[e] /\ bsem[e][b] = may.backend_limit
      BY <2>7 DEF RouterInv, PermitInv, Unused
    <3> QED BY <2>5, <2>6, <3>1
  <2>8. TypedInv' /\ PermitInv' /\ AbstainInv'
    BY <2>1, <2>2, <2>3, <2>5, <2>6, <2>7, Killed, Renewed
  <2>9. \A r \in Requests : ~Live(r)'
    BY <2>1, Killed DEF Live
  <2> QED BY <2>1, <2>8, <2>9, Zeroed DEF RouterInv
<1> QED BY <1>1, <1>2, <1>3

LEMMA DynZeroStep ==
    ASSUME RouterInv, HomesInv', router \in {"dynamo", "dynamo2"}, NEW st \in may.stages, NEW clear,
           DynZero(st, clear), resetting' \in {"no", "keep", "clear"}
    PROVE  RouterInv'
<1>0. /\ HomesInv /\ Generations /\ Controls /\ Tallies /\ may.stages \subseteq 1..5
  BY StagesKnown DEF RouterInv, TypedInv
<1>1. /\ resets < MaxResets /\ stage' = st /\ run_id' = run_id + 1 /\ resets' = resets + 1
      /\ seen' = FALSE /\ profiling' = FALSE /\ assigned' = Zero /\ prefill' = Zero /\ decode' = Zero
      /\ lost' = NoLoss /\ swept' = (swept \/ \E r \in Requests : Live(r))
      /\ UNCHANGED <<persisted, sems, req, may, router, restarts, leaves>>
  BY DEF DynZero
<1>2. Generations'
  BY <1>0, <1>1, Bounds DEF Generations, sems
<1>3. Controls' /\ Tallies'
  BY <1>0, <1>1, ZeroTyped DEF Controls, Tallies, sems
<1>4. TypedInv' /\ PermitInv' /\ AbstainInv'
  BY <1>1, <1>2, <1>3, Unmoved DEF sems
<1>5. swept' \/ \A r \in Requests : ~Live(r)'
  BY <1>1 DEF Live
<1> QED BY <1>1, <1>4, <1>5, Zeroed DEF RouterInv

LEMMA DynRestartStep ==
    ASSUME RouterInv, HomesInv', router \in {"dynamo", "dynamo2"}, DynRestart
    PROVE  RouterInv'
<1>0. HomesInv /\ Generations /\ Controls /\ Tallies /\ Sems
  BY DEF RouterInv, TypedInv
<1>1. /\ restarts < MaxRestarts /\ restarts' = restarts + 1 /\ resetting' = "no"
      /\ stage' = 4 /\ run_id' = 0 /\ profiling' = FALSE /\ seen' = FALSE
      /\ assigned' = Zero /\ persisted' = {} /\ prefill' = Zero /\ decode' = Zero /\ lost' = NoLoss
      /\ swept' = FALSE /\ UNCHANGED <<sems, may, router, resets, leaves>>
  BY DEF DynRestart
<1>2. req' = [r \in Requests |-> IF Live(r) THEN [Idle EXCEPT !.ph = "done"] ELSE req[r]]
  BY DEF DynRestart
<1>3. /\ req' \in [Requests -> Handlers]
      /\ \A r \in Requests : /\ Suspended(req'[r], epoch) /\ Abstains(req'[r])
                             /\ req'[r].ph \notin Waiting
  BY <1>2, Killed
<1>4. Generations'
  BY <1>0, <1>1, Bounds DEF Generations, sems
<1>5. Controls' /\ Tallies'
  <2>1. stage' \in 1..5
    BY <1>1
  <2> QED BY <1>0, <1>1, <2>1, ZeroTyped DEF Controls, Tallies, sems
<1>6. AllSuspended' /\ AbstainInv' /\ Sems'
  BY <1>0, <1>1, <1>3 DEF AllSuspended, AbstainInv, Abstains, Sems, sems
<1>7. PermitInv'
  <2>1. ASSUME NEW b \in Backends
        PROVE  /\ {r \in Requests : req'[r].idx = b /\ req'[r].th = epoch}
                       = {r \in Requests : req[r].idx = b /\ req[r].th = epoch}
               /\ {r \in Requests : req'[r].idx = b /\ req'[r].bh = epoch}
                       = {r \in Requests : req[r].idx = b /\ req[r].bh = epoch}
    BY <1>1, <1>3, HandlerTyped DEF Abstains
  <2> QED BY <1>1, <2>1 DEF RouterInv, PermitInv, PermitsConserved, Unused, sems
<1>8. \A r \in Requests : ~Live(r)'
  BY <1>3 DEF Live
<1>9. CountInv'
  BY <1>1, <1>8, Zeroed
<1> QED BY <1>4, <1>5, <1>6, <1>7, <1>9 DEF RouterInv, TypedInv

LEMMA DynResetEndStep ==
    ASSUME RouterInv, HomesInv', router = "dynamo", DynResetEnd
    PROVE  RouterInv'
<1>0. /\ Generations /\ Controls /\ Tallies /\ resetting' = "no"
      /\ UNCHANGED <<maps, counters, sems, run, req, may, router, resets, restarts, leaves>>
  BY DEF RouterInv, TypedInv, DynResetEnd
<1>1. Generations' /\ Controls' /\ Tallies'
  BY <1>0 DEF Generations, Controls, Tallies, maps, counters, sems, run
<1>2. CountInv'
  BY <1>0 DEF RouterInv, CountInv, CountersExact, Counted, Live, counters
<1> QED BY <1>0, <1>1, <1>2, Unmoved DEF RouterInv, sems

LEMMA LustreResetStep ==
    ASSUME RouterInv, HomesInv', LustreReset \/ LustreRestart
    PROVE  RouterInv'
<1>0. /\ HomesInv /\ Generations /\ Controls /\ Tallies /\ Sems /\ epoch \in Nat /\ router = "lustre"
      /\ lost = NoLoss /\ req \in [Requests -> Handlers]
      /\ \A r \in Requests : Suspended(req[r], epoch) /\ Abstains(req[r])
  <2>1. router = "lustre"
    BY DEF LustreReset, LustreRestart, LustreIs
  <2>2. lost = NoLoss
    BY <2>1 DEF RouterInv, CountInv
  <2>3. HomesInv /\ Generations /\ Controls /\ Tallies /\ Sems /\ epoch \in Nat
    BY DEF RouterInv, TypedInv, Generations
  <2>4. /\ req \in [Requests -> Handlers]
        /\ \A r \in Requests : Suspended(req[r], epoch) /\ Abstains(req[r])
    BY DEF RouterInv, TypedInv, AllSuspended, AbstainInv
  <2> QED BY <2>1, <2>2, <2>3, <2>4
<1>1. \A e \in Epochs, b \in Backends :
          e > epoch => ttft[e][b] = limit[e] /\ bsem[e][b] = may.backend_limit
  BY DEF RouterInv, PermitInv, Unused
<1>2. CASE LustreReset
  <2>1. PICK clear \in {"keep", "clear"}, small \in BOOLEAN :
          /\ resets < MaxResets /\ resets' = resets + 1
          /\ assigned' = Zero /\ prefill' = Zero /\ decode' = Zero
          /\ swept' = (swept \/ \E r \in Requests : Live(r)) /\ use_sem' = small
          /\ epoch' = IF small THEN epoch + 1 ELSE epoch
          /\ foreign' = IF small THEN NoForeign ELSE foreign
          /\ UNCHANGED <<persisted, lost, bsem, ttft, limit, run, req, may, router, resetting,
                         restarts, leaves>>
    BY <1>2 DEF LustreReset
  <2>2. Generations'
    BY <1>0, <2>1, Bounds DEF Generations, run
  <2>3. Controls' /\ Tallies'
    BY <1>0, <2>1, ZeroTyped DEF Controls, Tallies, run
  <2>4. TypedInv' /\ PermitInv' /\ AbstainInv'
    <3>1. CASE small
      BY <1>0, <1>1, <2>1, <2>2, <2>3, <3>1, Renewed DEF Sems
    <3>2. CASE ~small
      BY <2>1, <2>2, <2>3, <3>2, Unmoved
    <3> QED BY <3>1, <3>2
  <2>5. swept' \/ \A r \in Requests : ~Live(r)'
    BY <2>1 DEF Live
  <2>6. CountInv'
    BY <1>0, <2>1, <2>5, Zeroed
  <2> QED BY <2>4, <2>6 DEF RouterInv
<1>3. CASE LustreRestart
  <2>1. /\ restarts < MaxRestarts /\ restarts' = restarts + 1
        /\ assigned' = Zero /\ persisted' = {} /\ prefill' = Zero /\ decode' = Zero
        /\ swept' = FALSE /\ epoch' = epoch + 1 /\ use_sem' = FALSE /\ foreign' = NoForeign
        /\ UNCHANGED <<lost, bsem, ttft, limit, run, may, router, resetting, resets, leaves>>
    BY <1>3 DEF LustreRestart
  <2>2. req' = [r \in Requests |-> IF Live(r) THEN [Idle EXCEPT !.ph = "done"] ELSE req[r]]
    BY <1>3 DEF LustreRestart
  <2>3. /\ req' \in [Requests -> Handlers]
        /\ \A r \in Requests : /\ Suspended(req'[r], epoch) /\ Abstains(req'[r])
                               /\ req'[r].ph \notin Waiting
    BY <2>2, Killed
  <2>4. Generations'
    BY <1>0, <2>1, Bounds DEF Generations, run
  <2>5. Controls' /\ Tallies'
    BY <1>0, <2>1, ZeroTyped DEF Controls, Tallies, run
  <2>6. TypedInv' /\ PermitInv' /\ AbstainInv'
    BY <1>0, <1>1, <2>1, <2>3, <2>4, <2>5, Renewed DEF Sems
  <2>7. \A r \in Requests : ~Live(r)'
    BY <2>3 DEF Live
  <2>8. CountInv'
    BY <1>0, <2>1, <2>7, Zeroed
  <2> QED BY <2>6, <2>8 DEF RouterInv
<1> QED BY <1>2, <1>3

-----------------------------------------------------------------------------
LEMMA InitRouter == AnyInit => RouterInv
<1> SUFFICES ASSUME AnyInit PROVE RouterInv
  OBVIOUS
<1>1. /\ InitMaps /\ router \in Programs /\ stage = 4 /\ use_sem \in BOOLEAN
      /\ \E k \in {TtftLimit, PrefillLimit} :
            limit = [e \in Epochs |-> k] /\ ttft = [e \in Epochs |-> [b \in Backends |-> k]]
  BY DEF AnyInit, LlmdInit, DynInit, ScriptInit, LustreInit, Programs, LlmdIs, LustreIs
<1>2. PICK k \in Nat \ {0} : limit = [e \in Epochs |-> k] /\ ttft = [e \in Epochs |-> [b \in Backends |-> k]]
  BY <1>1, Bounds
<1>3. HomesInv
  BY InitHomes
<1> DEFINE m == may.backend_limit
<1>4. m \in Nat /\ bsem = [e \in Epochs |-> [b \in Backends |-> m]]
  BY <1>1, <1>3, LimitsKnown DEF InitMaps
<1> HIDE DEF m
<1>5. /\ ttft \in Semaphores /\ bsem \in Semaphores /\ limit \in [Epochs -> Nat \ {0}]
      /\ \A e \in Epochs, b \in Backends : ttft[e][b] = limit[e] /\ limit[e] = k /\ bsem[e][b] = m
  BY <1>2, <1>4 DEF Semaphores
<1>6. Generations /\ epoch = 0 /\ epoch \in Epochs
  BY <1>1, Bounds DEF InitMaps, Generations, Epochs
<1>7. Controls
  <2>1. stage \in 1..5 /\ leaves \in 0..MaxLeaves
    BY <1>1, Bounds DEF InitMaps
  <2> QED BY <1>1, <2>1 DEF InitMaps, Controls
<1>8. Sems /\ Tallies
  BY <1>1, <1>5, ZeroTyped DEF InitMaps, Sems, Tallies
<1>9. /\ req \in [Requests -> Handlers]
      /\ \A r \in Requests : /\ Suspended(req[r], epoch) /\ Abstains(req[r]) /\ req[r].ph \notin Waiting
                             /\ req[r].th = None /\ req[r].bh = None
  <2> DEFINE n == Idle
  <2>1. n \in Handlers /\ n.ph = "idle" /\ n.ep = None /\ n.th = None /\ n.bh = None
    BY IdleTyped DEF Idle
  <2>2. \A r \in Requests : req[r] = n
    BY <1>1 DEF InitMaps
  <2>3. req = [r \in Requests |-> n]
    BY <1>1 DEF InitMaps
  <2> HIDE DEF n
  <2>4. Suspended(n, epoch) /\ Abstains(n) /\ n.ph \notin Waiting
    BY <2>1 DEF Suspended, Abstains, Waiting
  <2> QED BY <2>1, <2>2, <2>3, <2>4
<1>10. AllSuspended /\ AbstainInv
  BY <1>9 DEF AllSuspended, AbstainInv
<1>11. TypedInv
  BY <1>3, <1>6, <1>7, <1>8, <1>10 DEF TypedInv
<1>12. ASSUME NEW b \in Backends
       PROVE  /\ ttft[epoch][b] + Cardinality({r \in Requests : req[r].idx = b /\ req[r].th = epoch})
                     = limit[epoch] + foreign[b].t
              /\ bsem[epoch][b] + Cardinality({r \in Requests : req[r].idx = b /\ req[r].bh = epoch})
                     = m + foreign[b].b
  <2>1. epoch # None
    BY <1>6 DEF None
  <2>2. /\ {r \in Requests : req[r].idx = b /\ req[r].th = epoch} = {}
        /\ {r \in Requests : req[r].idx = b /\ req[r].bh = epoch} = {}
    BY <1>9, <2>1
  <2>3. Cardinality({}) = 0 /\ foreign[b].t = 0 /\ foreign[b].b = 0
    BY <1>1, FS_EmptySet DEF InitMaps, NoForeign
  <2>4. ttft[epoch][b] = k /\ limit[epoch] = k /\ bsem[epoch][b] = m
    BY <1>5, <1>6
  <2> QED BY <2>2, <2>3, <2>4
<1>13. PermitInv
  BY <1>5, <1>12 DEF PermitInv, PermitsConserved, Unused, m
<1>14. CountInv
  <2>1. prefill = Zero /\ decode = Zero /\ lost = NoLoss
    BY <1>1 DEF InitMaps
  <2>2. ASSUME NEW b \in Backends
        PROVE  /\ prefill[b] = BodyBytes * (Cardinality(Prefills(b)) + lost[b].pf)
               /\ decode[b] = Cardinality(Decodes(b)) + lost[b].dec
    <3>1. Prefills(b) = {} /\ Decodes(b) = {}
      BY <1>9 DEF Prefills, Decodes, Live
    <3>2. Cardinality(Prefills(b)) = 0 /\ Cardinality(Decodes(b)) = 0
      BY <3>1, FS_EmptySet
    <3>3. prefill[b] = 0 /\ decode[b] = 0 /\ lost[b].pf = 0 /\ lost[b].dec = 0
      BY <2>1 DEF Zero, NoLoss
    <3>4. BodyBytes * (0 + 0) = 0 /\ 0 + 0 = 0
      BY Bounds
    <3> QED BY <3>2, <3>3, <3>4
  <2>3. CountersExact
    BY <2>2 DEF CountersExact, Counted, Prefills, Decodes
  <2> QED BY <2>1, <2>3 DEF CountInv
<1> QED BY <1>10, <1>11, <1>13, <1>14 DEF RouterInv

LEMMA StepRouter == RouterInv /\ [AnyNext]_vars => RouterInv'
<1>1. ASSUME RouterInv, AnyNext PROVE HomesInv'
  BY <1>1, StepHomes DEF RouterInv, TypedInv, Kept
<1>2. ASSUME RouterInv, UNCHANGED vars PROVE RouterInv'
  <2>1. HomesInv' /\ Generations' /\ Controls' /\ Tallies'
    BY <1>2 DEF vars, RouterInv, TypedInv, HomesInv, MapsTyped, IndexWithin, OneHome, Generations,
                Controls, Tallies
  <2>2. CountInv'
    BY <1>2 DEF vars, RouterInv, CountInv, CountersExact, Counted, Live
  <2> QED BY <1>2, <2>1, <2>2, Unmoved DEF vars, RouterInv
<1>3. ASSUME RouterInv, HomesInv', LlmdNext PROVE RouterInv'
  BY <1>3, LlmdArriveStep, LlmdHandlerStep, LlmdResetStep DEF LlmdNext
<1>4. ASSUME RouterInv, HomesInv', DynNext PROVE RouterInv'
  <2>1. ASSUME DynResetBegin PROVE RouterInv'
    <3>1. PICK st \in may.stages, clear \in {"keep", "clear"} : DynZero(st, clear) /\ resetting' = clear
      BY <2>1 DEF DynResetBegin
    <3>2. resetting' \in {"no", "keep", "clear"}
      BY <3>1
    <3> QED BY <1>4, <3>1, <3>2, DynZeroStep DEF DynNext
  <2> QED BY <1>4, <2>1, DynArriveStep, DynHandlerStep, DynResetEndStep, DynRestartStep DEF DynNext
<1>5. ASSUME RouterInv, HomesInv', ScriptNext PROVE RouterInv'
  <2>1. ASSUME ScriptReset PROVE RouterInv'
    <3>1. PICK st \in may.stages, clear \in {"keep", "clear"} : DynZero(st, clear) /\ resetting' = resetting
      BY <2>1 DEF ScriptReset
    <3>2. resetting' \in {"no", "keep", "clear"}
      BY <1>5, <3>1 DEF RouterInv, TypedInv, Controls
    <3> QED BY <1>5, <3>1, <3>2, DynZeroStep DEF ScriptNext, ScriptIs
  <2> QED BY <1>5, <2>1, DynArriveStep, DynHandlerStep, DynRestartStep
          DEF ScriptNext, ScriptIs, ScriptRoute, ScriptForward
<1>6. ASSUME RouterInv, HomesInv', LustreNext PROVE RouterInv'
  BY <1>6, LustreArriveStep, LustreHandlerStep, LustreResetStep DEF LustreNext
<1> QED BY <1>1, <1>2, <1>3, <1>4, <1>5, <1>6 DEF AnyNext

(* RoutersTyped: TypeOK of every router: no interleaving of requests, resets,  *)
(* restarts and clients that leave makes a permit or a counter negative, or   *)
(* a handler hold what does not exist.                                        *)
THEOREM RoutersTyped == AnySpec => []TypeOK
<1>1. RouterInv => TypeOK
  <2> SUFFICES ASSUME RouterInv PROVE TypeOK
    OBVIOUS
  <2>1. /\ HomesInv /\ Generations /\ Controls /\ Sems /\ Tallies /\ req \in [Requests -> Handlers]
        /\ epoch \in Epochs
    BY EpochKnown DEF RouterInv, TypedInv, AllSuspended
  <2>2. run_id \in 0..MaxResets /\ limit \in [Epochs -> Nat]
    BY <2>1, Bounds DEF Generations, Sems
  <2>3. rr \in {0, 1} /\ may \in Scenarios
    BY <2>1 DEF HomesInv, MapsTyped, Backends
  <2> QED BY <2>1, <2>2, <2>3
          DEF TypeOK, HomesInv, MapsTyped, Generations, Controls, Sems, Semaphores, Foreigns,
              Tallies, Counts, Losses, Handlers
<1> QED BY <1>1, InitRouter, StepRouter, PTL DEF AnySpec

(* NoPermitLost: PermitsConserved for every router, any number of requests    *)
(* and semaphores of any size: no way out of a handler, in any order with     *)
(* resets and restarts, forgets a permit or gives one back twice.             *)
THEOREM NoPermitLost == AnySpec => []PermitsConserved
<1>1. RouterInv => PermitsConserved
  BY DEF RouterInv, PermitInv
<1> QED BY <1>1, InitRouter, StepRouter, PTL DEF AnySpec

(* LoadIsExact: CountersExact for every router and any number of requests:    *)
(* what the choice of a backend reads is the load that is there, and the 499s *)
(* that were never uncounted, until a reset zeroes a live request's count.    *)
THEOREM LoadIsExact == AnySpec => []CountersExact
<1>1. RouterInv => CountersExact
  BY DEF RouterInv, CountInv
<1> QED BY <1>1, InitRouter, StepRouter, PTL DEF AnySpec

(* NoCircularWait: WaitersAreServed for every router, any number of requests  *)
(* and semaphores of any size: who waits for a permit of the lists in use has *)
(* one to take, or a live handler that holds one and does not wait for r.     *)
THEOREM NoCircularWait == AnySpec => []WaitersAreServed
<1>1. ASSUME RouterInv PROVE WaitersAreServed
  <2> SUFFICES ASSUME NEW r \in Requests, req[r].ep = epoch
               PROVE  \/ req[r].ph = "twait" /\ ttft[epoch][req[r].idx] > 0
                      \/ req[r].ph = "bwait" /\ bsem[epoch][req[r].idx] > 0
                      \/ \E h \in Requests \ {r} :
                            /\ Live(h) /\ req[h].idx = req[r].idx
                            /\ \/ req[r].ph = "twait" /\ req[h].th = epoch /\ req[h].ph # "bwait"
                               \/ req[r].ph = "bwait" /\ req[h].bh = epoch
    BY DEF WaitersAreServed
  <2> DEFINE b == req[r].idx
             T == {h \in Requests : req[h].idx = b /\ req[h].th = epoch}
             B == {h \in Requests : req[h].idx = b /\ req[h].bh = epoch}
  <2>1. /\ \A h \in Requests : req[h] \in Handlers /\ Suspended(req[h], epoch)
        /\ epoch # None /\ epoch \in Epochs /\ Sems /\ HomesInv
    BY <1>1, HandlerTyped
  <2>2. req[r].ph \in {"bwait", "twait"} /\ b \in Backends
    BY <2>1 DEF Suspended, Serving, Waiting
  <2>3. /\ ttft[epoch][b] + Cardinality(T) = limit[epoch] + foreign[b].t
        /\ bsem[epoch][b] + Cardinality(B) = may.backend_limit + foreign[b].b
    BY <1>1, <2>2 DEF RouterInv, PermitInv, PermitsConserved
  <2>4. /\ ttft[epoch][b] \in Nat /\ bsem[epoch][b] \in Nat /\ limit[epoch] \in Nat \ {0}
        /\ may.backend_limit \in Nat \ {0} /\ foreign[b].t \in Nat /\ foreign[b].b \in Nat
    BY <2>1, <2>2, LimitsKnown DEF Sems, Semaphores, Foreigns
  <2>5. \A h \in Requests : (req[h].th = epoch \/ req[h].bh = epoch) => Live(h)
    BY <2>1 DEF Suspended, Live, Waiting, Handlers
  <2>6. \A h \in Requests : req[h].th = epoch => req[h].ph \notin {"bwait", "twait"}
    BY <2>1 DEF Suspended
  <2>7. \A h \in Requests : req[h].bh = epoch => req[h].ph # "bwait"
    BY <2>1 DEF Suspended
  <2>8. Cardinality({}) = 0
    BY FS_EmptySet
  <2>9. CASE req[r].ph = "twait"
    <3>1. CASE ttft[epoch][b] > 0
      BY <2>9, <3>1
    <3>2. CASE ttft[epoch][b] = 0
      <4>1. T # {}
        <5> DEFINE c == Cardinality(T)
                   k == limit[epoch]
                   f == foreign[b].t
        <5>1. 0 + c = k + f /\ k \in Nat \ {0} /\ f \in Nat
          BY <2>3, <2>4, <3>2
        <5> HIDE DEF c, k, f
        <5>2. c # 0
          BY <5>1
        <5> QED BY <2>8, <5>2 DEF c
      <4>2. PICK h \in T : TRUE
        BY <4>1
      <4> QED BY <2>5, <2>6, <2>9, <4>2
    <3> QED BY <2>4, <3>1, <3>2
  <2>10. CASE req[r].ph = "bwait"
    <3>1. CASE bsem[epoch][b] > 0
      BY <2>10, <3>1
    <3>2. CASE bsem[epoch][b] = 0
      <4>1. B # {}
        <5> DEFINE c == Cardinality(B)
                   k == may.backend_limit
                   f == foreign[b].b
        <5>1. 0 + c = k + f /\ k \in Nat \ {0} /\ f \in Nat
          BY <2>3, <2>4, <3>2
        <5> HIDE DEF c, k, f
        <5>2. c # 0
          BY <5>1
        <5> QED BY <2>8, <5>2 DEF c
      <4>2. PICK h \in B : TRUE
        BY <4>1
      <4> QED BY <2>5, <2>7, <2>10, <4>2
    <3> QED BY <2>4, <3>1, <3>2
  <2> QED BY <2>2, <2>9, <2>10
<1> QED BY <1>1, InitRouter, StepRouter, PTL DEF AnySpec
=============================================================================
