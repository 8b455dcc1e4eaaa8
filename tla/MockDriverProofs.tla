--------------------------- MODULE MockDriverProofs ---------------------------
(* Theorems about the simulated driver (MockDriver): its admission counters, its idle
   state, its wake phase and its duty workers, for every number of agents and limits. *)
EXTENDS MockDriver, TLAPS, FiniteSetTheorems
-----------------------------------------------------------------------------
(* The attributes of the object, and what a transformer leaves alone. *)
Attributes ==
    {"agents", "phase", "busy", "rate", "strategy", "pods", "ev", "fcq", "handoff", "epp",
     "inflight", "susp_active", "susp_wait", "susp_out", "t0", "n", "hold", "wake_only", "started",
     "duty", "owned", "workers", "conc", "susp_t0", "woke", "wake_failed", "wake_done",
     "first_done", "all_susp", "pending", "wake_wait", "wake_active"}
Same(s, t, F) == DOMAIN t = Attributes /\ \A f \in Attributes \ F : t[f] = s[f]

(* The events of the heap. *)
AgentKinds == {"wake", "sdone", "duty_wake", "duty_send", "duty_park", "duty_susp_done"}
Asked == (1..TOTAL) \X BOOLEAN \X {0, 1} \X BOOLEAN
Steps == ({"preflight", "begin"} \X Asked) \cup {<<"drain", 0>>, <<"recon", 0>>}
Events == (AgentKinds \X Agents) \cup (UnderWay \X Requests) \cup Steps
Heap(b) == IsABag(b) /\ IsFiniteSet(DOMAIN b) /\ DOMAIN b \subseteq Events
Times(b, e) == IF e \in DOMAIN b THEN b[e] ELSE 0
-----------------------------------------------------------------------------
(* Bags of events. *)

\* How often an event is scheduled is a number, positive when it is scheduled.
LEMMA TimesType ==
    ASSUME NEW b, Heap(b), NEW e
    PROVE Times(b, e) \in Nat /\ (e \in DOMAIN b <=> Times(b, e) > 0)
BY DEF Heap, IsABag, Times

\* Scheduling one copy of each event of a set.
LEMMA BagSched ==
    ASSUME NEW b, Heap(b), NEW E, E \subseteq Events, IsFiniteSet(E)
    PROVE /\ Heap(b (+) SetToBag(E))
          /\ DOMAIN (b (+) SetToBag(E)) = DOMAIN b \cup E
          /\ \A d : Times(b (+) SetToBag(E), d) = Times(b, d) + (IF d \in E THEN 1 ELSE 0)
<1> DEFINE c == b (+) SetToBag(E)
<1>1. c = [e \in DOMAIN b \cup E |-> Times(b, e) + (IF e \in E THEN 1 ELSE 0)]
  BY DEF (+), SetToBag, Times
<1>2. IsFiniteSet(DOMAIN b \cup E)
  BY FS_Union DEF Heap
<1>3. \A e \in DOMAIN b \cup E : Times(b, e) + (IF e \in E THEN 1 ELSE 0) \in {n \in Nat : n > 0}
  BY TimesType
<1> HIDE DEF c
<1>4. DOMAIN c = DOMAIN b \cup E /\ IsABag(c)
  BY <1>1, <1>3 DEF IsABag
<1>5. Heap(c)
  BY <1>2, <1>4 DEF Heap
<1>6. \A d : Times(c, d) = Times(b, d) + (IF d \in E THEN 1 ELSE 0)
  <2> TAKE d
  <2>1. CASE d \in DOMAIN b \cup E
    BY <2>1, <1>1, <1>4 DEF Times
  <2>2. CASE d \notin DOMAIN b \cup E
    BY <2>2, <1>4 DEF Times
  <2> QED BY <2>1, <2>2
<1> QED BY <1>4, <1>5, <1>6 DEF c

\* An event that fires is taken off once.
LEMMA BagFire ==
    ASSUME NEW b, Heap(b), NEW e \in DOMAIN b
    PROVE /\ Heap(b (-) SetToBag({e}))
          /\ \A d : Times(b, d) = Times(b (-) SetToBag({e}), d) + (IF d = e THEN 1 ELSE 0)
<1> DEFINE B == [d \in DOMAIN b |-> IF d \in {e} THEN b[d] - 1 ELSE b[d]]
           c == b (-) SetToBag({e})
<1>1. c = [d \in {x \in DOMAIN b : B[x] > 0} |-> B[d]]
  BY DEF (-), SetToBag
<1>2. \A d \in DOMAIN b : b[d] \in Nat /\ b[d] > 0
  BY DEF Heap, IsABag
<1>3. \A d \in DOMAIN b : B[d] \in Nat /\ B[d] = IF d = e THEN b[d] - 1 ELSE b[d]
  BY <1>2
<1> HIDE DEF B, c
<1>4. DOMAIN c \subseteq DOMAIN b /\ IsABag(c)
  BY <1>1, <1>3 DEF IsABag
<1>5. IsFiniteSet(DOMAIN c)
  BY <1>4, FS_Subset DEF Heap
<1>6. Heap(c)
  BY <1>4, <1>5 DEF Heap
<1>7. ASSUME NEW d PROVE Times(b, d) = Times(c, d) + (IF d = e THEN 1 ELSE 0)
  <2>1. CASE d \in DOMAIN c
    BY <2>1, <1>1, <1>2, <1>3 DEF Times
  <2>2. CASE d \notin DOMAIN c /\ d \in DOMAIN b
    <3>1. ~(B[d] > 0)
      BY <2>2, <1>1
    <3> QED BY <3>1, <2>2, <1>2, <1>3 DEF Times
  <2>3. CASE d \notin DOMAIN b
    BY <2>3, <1>4 DEF Times
  <2> QED BY <2>1, <2>2, <2>3
<1> QED BY <1>6, <1>7 DEF c

\* The copies of the events of E.
Lot(b, E) == {c \in Copies(b) : c[1] \in E}

LEMMA CopyOf ==
    ASSUME NEW b, Heap(b)
    PROVE /\ \A e, k : <<e, k>> \in Copies(b) <=> k \in 1..Times(b, e)
          /\ \A c \in Copies(b) : c = <<c[1], c[2]>>
<1>1. \A c : c \in Copies(b) <=> \E e \in DOMAIN b : c \in {e} \X (1..b[e])
  BY DEF Copies
<1>2. \A c \in Copies(b) : c = <<c[1], c[2]>>
  BY <1>1
<1>3. ASSUME NEW e, NEW k PROVE <<e, k>> \in Copies(b) <=> k \in 1..Times(b, e)
  <2>1. CASE e \in DOMAIN b
    BY <2>1, <1>1 DEF Times
  <2>2. CASE e \notin DOMAIN b
    BY <2>2, <1>1 DEF Times
  <2> QED BY <2>1, <2>2
<1> QED BY <1>2, <1>3

LEMMA LotFinite ==
    ASSUME NEW b, Heap(b), NEW E
    PROVE IsFiniteSet(Lot(b, E)) /\ Cardinality(Lot(b, E)) \in Nat
<1> DEFINE F == {{e} \X (1..b[e]) : e \in DOMAIN b}
           f == [e \in DOMAIN b |-> {e} \X (1..b[e])]
<1>1. IsFiniteSet(F)
  <2>1. F = {f[e] : e \in DOMAIN b} /\ f \in [DOMAIN b -> F]
    OBVIOUS
  <2>2. f \in Surjection(DOMAIN b, F)
    BY <2>1 DEF Surjection
  <2>3. IsFiniteSet(DOMAIN b)
    BY DEF Heap
  <2> QED BY <2>2, <2>3, FS_Surjection
<1>2. \A X \in F : IsFiniteSet(X)
  <2> TAKE X \in F
  <2>1. PICK e \in DOMAIN b : X = {e} \X (1..b[e])
    OBVIOUS
  <2>2. b[e] \in Int
    BY DEF Heap, IsABag
  <2>3. IsFiniteSet({e})
    BY FS_Singleton
  <2>4. IsFiniteSet(1..b[e])
    BY <2>2, FS_Interval
  <2> QED BY <2>1, <2>3, <2>4, FS_Product
<1>3. IsFiniteSet(UNION F)
  BY <1>1, <1>2, FS_UNION
<1>4. IsFiniteSet(Copies(b))
  BY <1>3 DEF Copies
<1>5. Lot(b, E) \subseteq Copies(b)
  BY DEF Lot
<1> QED BY <1>4, <1>5, FS_Subset, FS_CardinalityType

LEMMA LotHas ==
    ASSUME NEW b, Heap(b), NEW E
    PROVE /\ \A e, k : <<e, k>> \in Lot(b, E) <=> e \in E /\ k \in 1..Times(b, e)
          /\ \A c \in Lot(b, E) : c = <<c[1], c[2]>>
BY CopyOf DEF Lot

\* The number of copies of the events of E depends on these events only.
LEMMA LotSame ==
    ASSUME NEW b, Heap(b), NEW c, Heap(c), NEW E, \A d \in E : Times(c, d) = Times(b, d)
    PROVE Lot(c, E) = Lot(b, E)
<1>1. \A x \in Lot(c, E) : x \in Lot(b, E)
  <2> TAKE x \in Lot(c, E)
  <2>1. x = <<x[1], x[2]>> /\ x[1] \in E /\ x[2] \in 1..Times(c, x[1])
    BY LotHas
  <2> QED BY <2>1, LotHas
<1>2. \A x \in Lot(b, E) : x \in Lot(c, E)
  <2> TAKE x \in Lot(b, E)
  <2>1. x = <<x[1], x[2]>> /\ x[1] \in E /\ x[2] \in 1..Times(b, x[1])
    BY LotHas
  <2> QED BY <2>1, LotHas
<1> QED BY <1>1, <1>2

\* One copy more of one of them counts once.
LEMMA LotOne ==
    ASSUME NEW b, Heap(b), NEW c, Heap(c), NEW E, NEW e \in E,
           \A d \in E : Times(c, d) = Times(b, d) + (IF d = e THEN 1 ELSE 0)
    PROVE Cardinality(Lot(c, E)) = Cardinality(Lot(b, E)) + 1
<1> DEFINE x == <<e, Times(b, e) + 1>>
<1>1. Times(b, e) \in Nat
  BY TimesType
<1>2. x \notin Lot(b, E)
  BY <1>1, LotHas
<1>3. \A y \in Lot(c, E) : y \in Lot(b, E) \cup {x}
  <2> TAKE y \in Lot(c, E)
  <2>1. y = <<y[1], y[2]>> /\ y[1] \in E /\ y[2] \in 1..Times(c, y[1])
    BY LotHas
  <2>2. Times(b, y[1]) \in Nat
    BY TimesType
  <2>3. y[2] \in 1..Times(b, y[1]) \/ (y[1] = e /\ y[2] = Times(b, e) + 1)
    BY <2>1, <2>2
  <2> QED BY <2>1, <2>3, LotHas
<1>4. \A y \in Lot(b, E) : y \in Lot(c, E)
  <2> TAKE y \in Lot(b, E)
  <2>1. y = <<y[1], y[2]>> /\ y[1] \in E /\ y[2] \in 1..Times(b, y[1])
    BY LotHas
  <2>2. Times(b, y[1]) \in Nat
    BY TimesType
  <2>3. y[2] \in 1..Times(c, y[1])
    BY <2>1, <2>2
  <2> QED BY <2>1, <2>3, LotHas
<1>5. x \in Lot(c, E)
  BY <1>1, LotHas
<1>6. Lot(c, E) = Lot(b, E) \cup {x}
  BY <1>3, <1>4, <1>5
<1> QED BY <1>2, <1>6, LotFinite, FS_AddElement

-----------------------------------------------------------------------------
(* The first k requests of a queue, sent to the pods together. *)
Sent(q, j) == <<"dispatch", q[j]>>
SentAs(q, k, e) == {j \in 1..k : Sent(q, j) = e}

LEMMA SentFinite ==
    ASSUME NEW q, NEW k \in Nat, NEW e
    PROVE /\ IsFiniteSet(SentAs(q, k, e))
          /\ Cardinality(SentAs(q, k, e)) \in Nat
          /\ Cardinality(SentAs(q, k, e)) = 0 <=> SentAs(q, k, e) = {}
<1>1. IsFiniteSet(1..k)
  BY FS_Interval
<1>2. SentAs(q, k, e) \subseteq 1..k
  BY DEF SentAs
<1> QED BY <1>1, <1>2, FS_Subset, FS_CardinalityType, FS_EmptySet

LEMMA BagGiven ==
    ASSUME NEW b, Heap(b), NEW q \in Seq(Requests), NEW k \in 0..Len(q)
    PROVE /\ Heap(b (+) Given(q, k))
          /\ \A d : Times(b (+) Given(q, k), d) = Times(b, d) + Cardinality(SentAs(q, k, d))
          /\ \A d : Cardinality(SentAs(q, k, d)) > 0 => \E j \in 1..k : d = <<"dispatch", q[j]>>
<1> DEFINE D == {Sent(q, j) : j \in 1..k}
           N(d) == Cardinality(SentAs(q, k, d))
           g == Given(q, k)
           c == b (+) g
           f == [j \in 1..k |-> Sent(q, j)]
<1>1. g = [d \in D |-> N(d)]
  BY DEF Given, Sent, SentAs
<1>2. \A d : N(d) \in Nat /\ (N(d) > 0 <=> d \in D)
  <2> TAKE d
  <2>1. N(d) \in Nat /\ (N(d) = 0 <=> SentAs(q, k, d) = {})
    BY SentFinite
  <2>2. SentAs(q, k, d) # {} <=> d \in D
    BY DEF SentAs
  <2> QED BY <2>1, <2>2
<1>3. IsFiniteSet(D)
  <2>1. f \in Surjection(1..k, D)
    BY DEF Surjection
  <2>2. IsFiniteSet(1..k)
    BY FS_Interval
  <2> QED BY <2>1, <2>2, FS_Surjection
<1>4. D \subseteq Events
  <2> SUFFICES ASSUME NEW j \in 1..k PROVE Sent(q, j) \in Events
    OBVIOUS
  <2>1. q[j] \in Requests
    OBVIOUS
  <2> QED BY <2>1 DEF Sent, Events, UnderWay
<1> HIDE DEF D, N, g, f
<1>5. c = [e \in DOMAIN b \cup D |-> Times(b, e) + N(e)]
  <2>1. DOMAIN g = D /\ \A d \in D : g[d] = N(d)
    BY <1>1
  <2>2. \A d : N(d) = IF d \in D THEN g[d] ELSE 0
    BY <1>2, <2>1
  <2>3. c = [e \in DOMAIN b \cup D |->
               (IF e \in DOMAIN b THEN b[e] ELSE 0) + (IF e \in D THEN g[e] ELSE 0)]
    BY <2>1 DEF (+)
  <2> QED BY <2>2, <2>3 DEF Times
<1>6. \A e \in DOMAIN b \cup D : Times(b, e) + N(e) \in {n \in Nat : n > 0}
  BY <1>2, TimesType
<1> HIDE DEF c
<1>7. DOMAIN c = DOMAIN b \cup D /\ IsABag(c)
  BY <1>5, <1>6 DEF IsABag
<1>8. Heap(c)
  BY <1>3, <1>4, <1>7, FS_Union DEF Heap
<1>9. \A d : Times(c, d) = Times(b, d) + N(d)
  <2> TAKE d
  <2>1. CASE d \in DOMAIN b \cup D
    BY <2>1, <1>5, <1>7 DEF Times
  <2>2. CASE d \notin DOMAIN b \cup D
    BY <2>2, <1>2, <1>7 DEF Times
  <2> QED BY <2>1, <2>2
<1>10. \A d : N(d) > 0 => \E j \in 1..k : d = <<"dispatch", q[j]>>
  BY <1>2 DEF D, Sent
<1> QED BY <1>8, <1>9, <1>10 DEF c, g, N

\* A disjoint union counts both sets.
LEMMA CardDisjoint ==
    ASSUME NEW S, NEW T, IsFiniteSet(S), IsFiniteSet(T), S \cap T = {}
    PROVE IsFiniteSet(S \cup T) /\ Cardinality(S \cup T) = Cardinality(S) + Cardinality(T)
<1>1. Cardinality(S \cap T) = 0
  BY FS_EmptySet
<1>2. Cardinality(S) \in Nat /\ Cardinality(T) \in Nat
  BY FS_CardinalityType
<1>3. IsFiniteSet(S \cup T)
      /\ Cardinality(S \cup T) = Cardinality(S) + Cardinality(T) - Cardinality(S \cap T)
  BY FS_Union
<1> QED BY <1>1, <1>2, <1>3

\* The k requests handed on count k times in every lot that has their events.
LEMMA LotGiven ==
    ASSUME NEW b, Heap(b), NEW q \in Seq(Requests), NEW k \in 0..Len(q), NEW E,
           \A j \in 1..k : <<"dispatch", q[j]>> \in E
    PROVE Cardinality(Lot(b (+) Given(q, k), E)) = Cardinality(Lot(b, E)) + k
<1> DEFINE c == b (+) Given(q, k)
           N(e) == Cardinality(SentAs(q, k, e))
           D == {e \in E : N(e) > 0}
           F == [e \in D |-> CHOOSE f : f \in Bijection(1..N(e), SentAs(q, k, e))]
           New == {x \in Lot(c, E) : x[2] > Times(b, x[1])}
           G == [x \in New |-> F[x[1]][x[2] - Times(b, x[1])]]
<1>1. Heap(c) /\ \A d : Times(c, d) = Times(b, d) + N(d)
  BY BagGiven
<1>0. k \in Nat
  OBVIOUS
<1>2. \A e : N(e) \in Nat /\ Times(b, e) \in Nat
  <2>1. \A e : N(e) \in Nat
    BY <1>0, SentFinite
  <2> QED BY <2>1, TimesType
<1> HIDE DEF c, N
<1>3. \A e \in D : F[e] \in Bijection(1..N(e), SentAs(q, k, e))
  <2> TAKE e \in D
  <2>1. IsFiniteSet(SentAs(q, k, e))
    BY <1>0, SentFinite
  <2>2. PICK n \in Nat : ExistsBijection(1..n, SentAs(q, k, e))
    BY <2>1, FS_NatBijection
  <2>3. n = N(e)
    BY <2>2, FS_CountingElements DEF N
  <2>4. \E f : f \in Bijection(1..N(e), SentAs(q, k, e))
    BY <2>2, <2>3 DEF ExistsBijection
  <2> QED BY <2>4
<1> HIDE DEF F
<1>4. \A x : x \in New <=> /\ x = <<x[1], x[2]>> /\ x[1] \in E
                            /\ x[2] \in 1..Times(c, x[1]) /\ x[2] > Times(b, x[1])
  BY <1>1, LotHas
<1>5. \A x \in New : /\ x[1] \in D /\ x[2] - Times(b, x[1]) \in 1..N(x[1])
                     /\ x[2] \in Nat /\ x = <<x[1], x[2]>>
  <2> TAKE x \in New
  <2>1. x = <<x[1], x[2]>> /\ x[1] \in E /\ x[2] \in 1..Times(c, x[1]) /\ x[2] > Times(b, x[1])
    BY <1>4
  <2>2. Times(c, x[1]) = Times(b, x[1]) + N(x[1])
    BY <1>1
  <2>3. x[2] - Times(b, x[1]) \in 1..N(x[1])
    BY <2>1, <2>2, <1>2
  <2> QED BY <2>1, <2>3, <1>2
<1>6. G \in [New -> 1..k]
  <2> SUFFICES ASSUME NEW x \in New PROVE F[x[1]][x[2] - Times(b, x[1])] \in 1..k
    OBVIOUS
  <2>1. F[x[1]] \in [1..N(x[1]) -> SentAs(q, k, x[1])]
    BY <1>3, <1>5 DEF Bijection, Injection, Surjection
  <2> QED BY <2>1, <1>5 DEF SentAs
<1>7. \A x, y \in New : G[x] = G[y] => x = y
  <2> SUFFICES ASSUME NEW x \in New, NEW y \in New, G[x] = G[y] PROVE x = y
    OBVIOUS
  <2>1. F[x[1]] \in [1..N(x[1]) -> SentAs(q, k, x[1])] /\ F[y[1]] \in [1..N(y[1]) -> SentAs(q, k, y[1])]
    BY <1>3, <1>5 DEF Bijection, Injection, Surjection
  <2>2. G[x] \in SentAs(q, k, x[1]) /\ G[y] \in SentAs(q, k, y[1])
    BY <2>1, <1>5
  <2>3. x[1] = y[1]
    BY <2>2 DEF SentAs
  <2>4. F[x[1]][x[2] - Times(b, x[1])] = F[x[1]][y[2] - Times(b, x[1])]
    BY <2>3
  <2>5. x[2] - Times(b, x[1]) = y[2] - Times(b, x[1])
    <3>1. \A u, v \in 1..N(x[1]) : F[x[1]][u] = F[x[1]][v] => u = v
      <4>1. x[1] \in D
        BY <1>5
      <4>2. F[x[1]] \in Injection(1..N(x[1]), SentAs(q, k, x[1]))
        BY <4>1, <1>3 DEF Bijection
      <4>3. DOMAIN F[x[1]] = 1..N(x[1]) /\ IsInjective(F[x[1]])
        BY <4>2 DEF Injection
      <4> QED BY <4>3 DEF IsInjective
    <3>2. /\ x[2] - Times(b, x[1]) \in 1..N(x[1])
          /\ y[2] - Times(b, x[1]) \in 1..N(x[1])
      BY <1>5, <2>3
    <3> QED BY <3>1, <3>2, <2>4
  <2>6. x[2] = y[2]
    BY <2>5, <1>2, <1>5
  <2> QED BY <2>3, <2>6, <1>5
<1>8. \A j \in 1..k : \E x \in New : G[x] = j
  <2> TAKE j \in 1..k
  <2> DEFINE e == Sent(q, j)
  <2>1. e \in E /\ j \in SentAs(q, k, e)
    BY DEF Sent, SentAs
  <2>2. N(e) > 0
    <3>1. N(e) # 0
      BY <2>1, <1>0, SentFinite DEF N
    <3> QED BY <3>1, <1>2
  <2>3. e \in D
    BY <2>1, <2>2
  <2> HIDE DEF e
  <2>4. PICK m \in 1..N(e) : F[e][m] = j
    BY <2>1, <2>3, <1>3 DEF Bijection, Surjection
  <2> DEFINE x == <<e, Times(b, e) + m>>
  <2>5. x \in New
    <3>1. Times(c, e) = Times(b, e) + N(e)
      BY <1>1
    <3>2. Times(b, e) + m \in 1..Times(c, e) /\ Times(b, e) + m > Times(b, e)
      BY <3>1, <1>2
    <3> QED BY <3>2, <2>1, <1>4
  <2>6. (Times(b, e) + m) - Times(b, e) = m
    BY <1>2
  <2>7. G[x] = F[e][m]
    <3>1. x[1] = e /\ x[2] = Times(b, e) + m
      OBVIOUS
    <3> HIDE DEF x
    <3>2. G[x] = F[x[1]][x[2] - Times(b, x[1])]
      BY <2>5
    <3>3. x[2] - Times(b, x[1]) = m
      BY <3>1, <2>6
    <3> QED BY <3>1, <3>2, <3>3
  <2> QED BY <2>4, <2>5, <2>7
<1> HIDE DEF G
<1>9. G \in Bijection(New, 1..k)
  <2>1. G \in Injection(New, 1..k)
    BY <1>6, <1>7 DEF Injection, IsInjective
  <2>2. G \in Surjection(New, 1..k)
    BY <1>6, <1>8 DEF Surjection
  <2> QED BY <2>1, <2>2 DEF Bijection
<1>10. IsFiniteSet(New)
  BY <1>1, LotFinite, FS_Subset
<1>11. Cardinality(New) = k
  <2>1. ExistsBijection(New, 1..k)
    BY <1>9 DEF ExistsBijection
  <2>2. Cardinality(1..k) = Cardinality(New)
    BY <2>1, <1>10, FS_Bijection
  <2>3. Cardinality(1..k) = k
    BY FS_Interval
  <2> QED BY <2>2, <2>3
<1>12. Lot(c, E) = Lot(b, E) \cup New /\ Lot(b, E) \cap New = {}
  <2>1. ASSUME NEW x \in Lot(b, E) PROVE x \in Lot(c, E) /\ x \notin New
    <3>1. x = <<x[1], x[2]>> /\ x[1] \in E /\ x[2] \in 1..Times(b, x[1])
      BY LotHas
    <3>2. Times(c, x[1]) = Times(b, x[1]) + N(x[1])
      BY <1>1
    <3>3. x[2] \in 1..Times(c, x[1]) /\ ~(x[2] > Times(b, x[1]))
      BY <3>1, <3>2, <1>2
    <3> QED BY <3>1, <3>3, <1>1, LotHas
  <2>2. ASSUME NEW x \in Lot(c, E) PROVE x \in Lot(b, E) \cup New
    <3>1. x = <<x[1], x[2]>> /\ x[1] \in E /\ x[2] \in 1..Times(c, x[1])
      BY <1>1, LotHas
    <3>2. CASE x[2] > Times(b, x[1])
      BY <3>2
    <3>3. CASE ~(x[2] > Times(b, x[1]))
      <4>1. x[2] \in 1..Times(b, x[1])
        BY <3>1, <3>3, <1>1, <1>2
      <4> QED BY <4>1, <3>1, LotHas
    <3> QED BY <3>2, <3>3
  <2> QED BY <2>1, <2>2
<1>13. IsFiniteSet(Lot(b, E))
  BY LotFinite
<1> HIDE DEF New
<1> QED BY <1>10, <1>11, <1>12, <1>13, CardDisjoint DEF c

-----------------------------------------------------------------------------
(* The types of the attributes, kept by every transformer of the object. *)
Typed(s) ==
    /\ DOMAIN s = Attributes
    /\ s.agents \in [Agents -> States] /\ s.phase \in Phases
    /\ s.busy \in BOOLEAN /\ s.t0 \in BOOLEAN /\ s.hold \in BOOLEAN /\ s.wake_only \in BOOLEAN
    /\ s.started \in BOOLEAN /\ s.duty \in BOOLEAN /\ s.wake_done \in BOOLEAN /\ s.first_done \in BOOLEAN
    /\ s.strategy \in {"roundrobin", "flow"} /\ s.pods \in 0..2 /\ s.rate \in Nat
    /\ s.fcq \in Seq(Requests) /\ Heap(s.ev)
    /\ s.owned \subseteq Agents /\ s.wake_wait \subseteq Agents /\ s.susp_wait \subseteq Agents
    /\ s.n \in 0..TOTAL /\ s.pending \in Nat /\ s.woke \in Nat /\ s.wake_failed \in Nat /\ s.conc \in Nat
    /\ s.inflight \in Int /\ s.handoff \in Int /\ s.epp \in Int /\ s.workers \in Int
    /\ s.wake_active \in Int /\ s.susp_active \in Int /\ s.susp_out \in Int

\* A state of the proper types stays one when what changes has the proper type.
LEMMA TypedBut ==
    ASSUME NEW s, NEW t, NEW F, Typed(s), Same(s, t, F),
           "agents" \in F => t.agents \in [Agents -> States],
           "phase" \in F => t.phase \in Phases,
           "busy" \in F => t.busy \in BOOLEAN, "t0" \in F => t.t0 \in BOOLEAN,
           "hold" \in F => t.hold \in BOOLEAN, "wake_only" \in F => t.wake_only \in BOOLEAN,
           "started" \in F => t.started \in BOOLEAN, "duty" \in F => t.duty \in BOOLEAN,
           "wake_done" \in F => t.wake_done \in BOOLEAN, "first_done" \in F => t.first_done \in BOOLEAN,
           "strategy" \in F => t.strategy \in {"roundrobin", "flow"},
           "pods" \in F => t.pods \in 0..2, "rate" \in F => t.rate \in Nat,
           "fcq" \in F => t.fcq \in Seq(Requests), "ev" \in F => Heap(t.ev),
           "owned" \in F => t.owned \subseteq Agents,
           "wake_wait" \in F => t.wake_wait \subseteq Agents,
           "susp_wait" \in F => t.susp_wait \subseteq Agents,
           "n" \in F => t.n \in 0..TOTAL, "pending" \in F => t.pending \in Nat,
           "woke" \in F => t.woke \in Nat, "wake_failed" \in F => t.wake_failed \in Nat,
           "conc" \in F => t.conc \in Nat,
           "inflight" \in F => t.inflight \in Int, "handoff" \in F => t.handoff \in Int,
           "epp" \in F => t.epp \in Int, "workers" \in F => t.workers \in Int,
           "wake_active" \in F => t.wake_active \in Int,
           "susp_active" \in F => t.susp_active \in Int, "susp_out" \in F => t.susp_out \in Int
    PROVE Typed(t)
<1>1. DOMAIN t = Attributes /\ \A f \in Attributes : f \in F \/ t[f] = s[f]
  BY DEF Same
<1>2. /\ t.agents \in [Agents -> States] /\ t.phase \in Phases
      /\ t.busy \in BOOLEAN /\ t.t0 \in BOOLEAN /\ t.hold \in BOOLEAN
  BY <1>1 DEF Typed, Attributes
<1>3. /\ t.wake_only \in BOOLEAN /\ t.started \in BOOLEAN /\ t.duty \in BOOLEAN
      /\ t.wake_done \in BOOLEAN /\ t.first_done \in BOOLEAN
  BY <1>1 DEF Typed, Attributes
<1>4. t.strategy \in {"roundrobin", "flow"} /\ t.pods \in 0..2 /\ t.rate \in Nat
  BY <1>1 DEF Typed, Attributes
<1>5. t.fcq \in Seq(Requests) /\ Heap(t.ev) /\ t.owned \subseteq Agents
  BY <1>1 DEF Typed, Attributes
<1>6. t.wake_wait \subseteq Agents /\ t.susp_wait \subseteq Agents /\ t.n \in 0..TOTAL
  BY <1>1 DEF Typed, Attributes
<1>7. t.pending \in Nat /\ t.woke \in Nat /\ t.wake_failed \in Nat /\ t.conc \in Nat
  BY <1>1 DEF Typed, Attributes
<1>8. t.inflight \in Int /\ t.handoff \in Int /\ t.epp \in Int /\ t.workers \in Int
  BY <1>1 DEF Typed, Attributes
<1>9. t.wake_active \in Int /\ t.susp_active \in Int /\ t.susp_out \in Int
  BY <1>1 DEF Typed, Attributes
<1> QED BY <1>1, <1>2, <1>3, <1>4, <1>5, <1>6, <1>7, <1>8, <1>9 DEF Typed

LEMMA SameTwice ==
    ASSUME NEW s, NEW t, NEW u, NEW F, NEW G, Same(s, t, F), Same(t, u, G)
    PROVE Same(s, u, F \cup G)
BY DEF Same

\* An event on its way to, in or from a pod.
Requesting(e) == e \in UnderWay \X Requests

\* What does not touch the requests: their events, the queue, and the counters that admit them.
NoFlow(s, t) ==
    /\ Typed(t)
    /\ t.fcq = s.fcq /\ t.inflight = s.inflight /\ t.handoff = s.handoff /\ t.epp = s.epp
    /\ t.pods = s.pods /\ t.strategy = s.strategy
    /\ \A e : Requesting(e) => Times(t.ev, e) = Times(s.ev, e)

LEMMA NoFlowTwice ==
    ASSUME NEW s, NEW t, NEW u, NoFlow(s, t), NoFlow(t, u)
    PROVE NoFlow(s, u)
BY DEF NoFlow

\* An event of an agent, or a step of an operation, is not one of a request.
LEMMA OtherEvents ==
    /\ \A k \in AgentKinds, i \in Agents : <<k, i>> \in Events /\ ~Requesting(<<k, i>>)
    /\ \A k \in UnderWay, r \in Requests : <<k, r>> \in Events /\ Requesting(<<k, r>>)
    /\ \A e \in Steps : e \in Events /\ ~Requesting(e)
    /\ \A k \in {"preflight", "begin"}, p \in Asked : <<k, p>> \in Steps
BY DEF Events, AgentKinds, UnderWay, Requesting, Steps

LEMMA SetIs ==
    ASSUME NEW s, Typed(s), NEW i \in Agents, NEW x \in States
    PROVE /\ NoFlow(s, Set(s, i, x)) /\ Same(s, Set(s, i, x), {"agents"})
          /\ Set(s, i, x).agents = [s.agents EXCEPT ![i] = x]
<1> DEFINE t == Set(s, i, x)
<1>1. Same(s, t, {"agents"}) /\ t.agents = [s.agents EXCEPT ![i] = x]
  BY DEF Typed, Same, Set, Attributes
<1>2. t.agents \in [Agents -> States]
  BY <1>1 DEF Typed
<1> HIDE DEF t
<1>3. Typed(t)
  BY <1>1, <1>2, TypedBut
<1> QED BY <1>1, <1>3 DEF NoFlow, Same, Attributes, t

LEMMA SettleIs ==
    ASSUME NEW s, Typed(s), NEW I, NEW x \in States
    PROVE /\ NoFlow(s, Settle(s, I, x)) /\ Same(s, Settle(s, I, x), {"agents"})
          /\ Settle(s, I, x).agents = [i \in Agents |-> IF i \in I THEN x ELSE s.agents[i]]
<1> DEFINE t == Settle(s, I, x)
<1>1. Same(s, t, {"agents"}) /\ t.agents = [i \in Agents |-> IF i \in I THEN x ELSE s.agents[i]]
  BY DEF Typed, Same, Settle, Attributes
<1>2. t.agents \in [Agents -> States]
  BY <1>1 DEF Typed
<1> HIDE DEF t
<1>3. Typed(t)
  BY <1>1, <1>2, TypedBut
<1> QED BY <1>1, <1>3 DEF NoFlow, Same, Attributes, t

LEMMA SchedIs ==
    ASSUME NEW s, Typed(s), NEW E, E \subseteq Events, IsFiniteSet(E)
    PROVE /\ Typed(Sched(s, E)) /\ Same(s, Sched(s, E), {"ev"})
          /\ DOMAIN Sched(s, E).ev = DOMAIN s.ev \cup E
          /\ \A d : Times(Sched(s, E).ev, d) = Times(s.ev, d) + (IF d \in E THEN 1 ELSE 0)
          /\ (\A e \in E : ~Requesting(e)) => NoFlow(s, Sched(s, E))
<1> DEFINE t == Sched(s, E)
<1>0. Heap(s.ev)
  BY DEF Typed
<1>1. Same(s, t, {"ev"}) /\ t.ev = s.ev (+) SetToBag(E)
  BY DEF Typed, Same, Sched, Attributes
<1>2. /\ Heap(t.ev) /\ DOMAIN t.ev = DOMAIN s.ev \cup E
      /\ \A d : Times(t.ev, d) = Times(s.ev, d) + (IF d \in E THEN 1 ELSE 0)
  BY <1>0, <1>1, BagSched
<1> HIDE DEF t
<1>3. Typed(t)
  BY <1>1, <1>2, TypedBut
<1>4. ASSUME \A e \in E : ~Requesting(e)
      PROVE \A e : Requesting(e) => Times(t.ev, e) = Times(s.ev, e)
  BY <1>0, <1>2, <1>4, TimesType
<1>5. (\A e \in E : ~Requesting(e)) => NoFlow(s, t)
  BY <1>1, <1>3, <1>4 DEF NoFlow, Same, Attributes
<1> QED BY <1>1, <1>2, <1>3, <1>5 DEF t

LEMMA PutIs ==
    ASSUME NEW s, Typed(s), NEW e \in Events
    PROVE /\ Typed(Put(s, e)) /\ Same(s, Put(s, e), {"ev"})
          /\ DOMAIN Put(s, e).ev = DOMAIN s.ev \cup {e}
          /\ \A d : Times(Put(s, e).ev, d) = Times(s.ev, d) + (IF d = e THEN 1 ELSE 0)
          /\ ~Requesting(e) => NoFlow(s, Put(s, e))
<1>1. IsFiniteSet({e}) /\ {e} \subseteq Events
  BY FS_Singleton
<1>2. \A d : d \in {e} <=> d = e
  OBVIOUS
<1> QED BY <1>1, <1>2, SchedIs DEF Put

\* An event taken off the heap.
Took(s, e) == [s EXCEPT !.ev = @ (-) SetToBag({e})]

LEMMA TookIs ==
    ASSUME NEW s, Typed(s), NEW e \in DOMAIN s.ev
    PROVE /\ Typed(Took(s, e)) /\ Same(s, Took(s, e), {"ev"})
          /\ \A d : Times(s.ev, d) = Times(Took(s, e).ev, d) + (IF d = e THEN 1 ELSE 0)
          /\ ~Requesting(e) => NoFlow(s, Took(s, e))
<1> DEFINE t == Took(s, e)
<1>0. Heap(s.ev)
  BY DEF Typed
<1>1. Same(s, t, {"ev"}) /\ t.ev = s.ev (-) SetToBag({e})
  BY DEF Typed, Same, Took, Attributes
<1>2. /\ Heap(t.ev)
      /\ \A d : Times(s.ev, d) = Times(t.ev, d) + (IF d = e THEN 1 ELSE 0)
  BY <1>0, <1>1, BagFire
<1> HIDE DEF t
<1>3. Typed(t)
  BY <1>1, <1>2, TypedBut
<1>4. ASSUME ~Requesting(e)
      PROVE \A d : Requesting(d) => Times(t.ev, d) = Times(s.ev, d)
  <2> SUFFICES ASSUME NEW d, Requesting(d) PROVE Times(t.ev, d) = Times(s.ev, d)
    OBVIOUS
  <2>1. d # e
    BY <1>4
  <2> QED BY <2>1, <1>2, TimesType
<1>5. ~Requesting(e) => NoFlow(s, t)
  BY <1>1, <1>3, <1>4 DEF NoFlow, Same, Attributes
<1> QED BY <1>1, <1>2, <1>3, <1>5 DEF t

-----------------------------------------------------------------------------
(* What each transformer changes.  None of these touches a request's way to a pod. *)
FlowFields == {"fcq", "inflight", "handoff", "epp", "pods", "strategy", "ev"}

LEMMA NoFlowFields ==
    ASSUME NEW s, NEW t, NEW F, Typed(t), Same(s, t, F), F \cap FlowFields = {}
    PROVE NoFlow(s, t)
BY DEF NoFlow, Same, Attributes, FlowFields

LEMMA NewBurstIs ==
    ASSUME NEW s, Typed(s), NEW n \in 0..TOTAL, NEW hold \in BOOLEAN, NEW wake_only \in BOOLEAN
    PROVE LET t == NewBurst(s, n, hold, wake_only) IN
          /\ NoFlow(s, t)
          /\ Same(s, t, {"t0", "n", "hold", "wake_only", "started", "duty", "owned", "workers", "conc",
                         "susp_t0", "woke", "wake_failed", "wake_done", "first_done", "all_susp",
                         "pending", "wake_wait", "wake_active"})
          /\ t.t0 /\ t.n = n /\ t.hold = hold /\ t.wake_only = wake_only /\ t.started = ~wake_only
          /\ ~t.duty /\ t.owned = {} /\ t.workers = 0 /\ t.woke = 0 /\ t.wake_failed = 0
          /\ ~t.wake_done /\ ~t.first_done /\ t.pending = n /\ t.wake_wait = {} /\ t.wake_active = 0
<1> DEFINE t == NewBurst(s, n, hold, wake_only)
           F == {"t0", "n", "hold", "wake_only", "started", "duty", "owned", "workers", "conc",
                 "susp_t0", "woke", "wake_failed", "wake_done", "first_done", "all_susp",
                 "pending", "wake_wait", "wake_active"}
<1>0. DOMAIN s = Attributes
  BY DEF Typed
<1>1. Same(s, t, F)
  BY <1>0 DEF Same, NewBurst, Attributes
<1>2. /\ t.t0 = TRUE /\ t.n = n /\ t.hold = hold /\ t.wake_only = wake_only /\ t.started = ~wake_only
      /\ t.duty = FALSE /\ t.owned = {} /\ t.workers = 0 /\ t.conc = 0
      /\ t.woke = 0 /\ t.wake_failed = 0
      /\ t.wake_done = FALSE /\ t.first_done = FALSE /\ t.pending = n
      /\ t.wake_wait = {} /\ t.wake_active = 0
  BY <1>0 DEF NewBurst, Attributes
<1> HIDE DEF t
<1>3. n \in Nat
  BY MockAssumption
<1>6. /\ t.t0 \in BOOLEAN /\ t.hold \in BOOLEAN /\ t.wake_only \in BOOLEAN /\ t.started \in BOOLEAN
      /\ t.duty \in BOOLEAN /\ t.wake_done \in BOOLEAN /\ t.first_done \in BOOLEAN
      /\ t.n \in 0..TOTAL /\ t.conc \in Nat /\ t.woke \in Nat /\ t.wake_failed \in Nat
      /\ t.pending \in Nat /\ t.wake_active \in Int /\ t.workers \in Int
      /\ t.owned \subseteq Agents /\ t.wake_wait \subseteq Agents
  <2>1. /\ t.t0 \in BOOLEAN /\ t.hold \in BOOLEAN /\ t.wake_only \in BOOLEAN /\ t.started \in BOOLEAN
    BY <1>2
  <2>2. t.duty \in BOOLEAN /\ t.wake_done \in BOOLEAN /\ t.first_done \in BOOLEAN
    BY <1>2
  <2>3. /\ t.n \in 0..TOTAL /\ t.conc \in Nat /\ t.woke \in Nat /\ t.wake_failed \in Nat
        /\ t.pending \in Nat /\ t.wake_active \in Int /\ t.workers \in Int
    BY <1>2, <1>3
  <2>4. t.owned \subseteq Agents /\ t.wake_wait \subseteq Agents
    BY <1>2
  <2> QED BY <2>1, <2>2, <2>3, <2>4
<1>4. Typed(t)
  BY <1>1, <1>6, TypedBut
<1>5. NoFlow(s, t)
  BY <1>1, <1>4, NoFlowFields DEF FlowFields
<1> QED BY <1>1, <1>2, <1>5 DEF t

LEMMA CheckWakeDoneIs ==
    ASSUME NEW s, Typed(s)
    PROVE LET t == CheckWakeDone(s) IN
          /\ NoFlow(s, t) /\ Same(s, t, {"wake_done", "phase", "busy", "rate"})
          /\ s.woke + s.wake_failed < s.n => t = s
          /\ ~s.hold => t.phase = s.phase /\ t.busy = s.busy
          /\ t.phase \in {s.phase, "running"}
          /\ t.busy = s.busy \/ (s.wake_only /\ ~s.started)
          /\ s.hold /\ ~(s.woke + s.wake_failed < s.n) /\ ~s.wake_done => t.phase = "running"
<1> DEFINE t == CheckWakeDone(s)
<1>0. DOMAIN s = Attributes
  BY DEF Typed
<1>1. Same(s, t, {"wake_done", "phase", "busy", "rate"})
  BY <1>0 DEF Same, CheckWakeDone, Attributes
<1>2. /\ t.wake_done \in {s.wake_done, TRUE} /\ t.phase \in {s.phase, "running"}
      /\ t.busy \in {s.busy, FALSE} /\ t.rate \in {s.rate, 1}
  BY <1>0 DEF CheckWakeDone, Attributes
<1>3. /\ s.woke + s.wake_failed < s.n => t = s
      /\ ~s.hold => t.phase = s.phase /\ t.busy = s.busy
      /\ t.busy = s.busy \/ (s.wake_only /\ ~s.started)
      /\ s.hold /\ ~(s.woke + s.wake_failed < s.n) /\ ~s.wake_done => t.phase = "running"
  BY <1>0 DEF CheckWakeDone, Attributes
<1> HIDE DEF t
<1>6. t.wake_done \in BOOLEAN /\ t.phase \in Phases /\ t.busy \in BOOLEAN /\ t.rate \in Nat
  <2>1. t.wake_done \in BOOLEAN /\ t.busy \in BOOLEAN
    BY <1>2 DEF Typed
  <2>2. t.phase \in Phases
    BY <1>2 DEF Typed, Phases
  <2>3. t.rate \in Nat
    BY <1>2 DEF Typed
  <2> QED BY <2>1, <2>2, <2>3
<1>4. Typed(t)
  BY <1>1, <1>6, TypedBut
<1>5. NoFlow(s, t)
  BY <1>1, <1>4, NoFlowFields DEF FlowFields
<1> QED BY <1>1, <1>2, <1>3, <1>5 DEF t

LEMMA LifeDoneIs ==
    ASSUME NEW s, Typed(s)
    PROVE LET t == LifeDone(s) IN
          /\ NoFlow(s, t) /\ Same(s, t, {"pending", "first_done", "busy", "phase", "rate"})
          /\ s.pending > 1 => /\ t.pending = s.pending - 1 /\ t.first_done = s.first_done
                              /\ t.busy = s.busy /\ t.phase = s.phase
          /\ s.pending = 1 => t.pending = 0
          /\ s.pending = 1 /\ ~s.first_done =>
                /\ ~s.hold => t.phase = "idle"
                /\ s.hold => t.phase = IF s.phase = "waking" THEN "running" ELSE s.phase
                /\ ~t.busy /\ t.first_done
<1> DEFINE t == LifeDone(s)
<1>0. DOMAIN s = Attributes
  BY DEF Typed
<1>1. Same(s, t, {"pending", "first_done", "busy", "phase", "rate"})
  BY <1>0 DEF Same, LifeDone, Attributes
<1>7. s.pending \in Nat
  BY DEF Typed
<1>2. /\ t.pending \in Nat /\ t.first_done \in {s.first_done, TRUE}
      /\ t.phase \in {s.phase, "idle", "running"} /\ t.busy \in {s.busy, FALSE}
      /\ t.rate \in {s.rate, 1}
  BY <1>0, <1>7 DEF LifeDone, Attributes
<1>3. /\ s.pending > 1 => /\ t.pending = s.pending - 1 /\ t.first_done = s.first_done
                          /\ t.busy = s.busy /\ t.phase = s.phase
      /\ s.pending = 1 => t.pending = 0
      /\ s.pending = 1 /\ ~s.first_done =>
            /\ ~s.hold => t.phase = "idle"
            /\ s.hold => t.phase = IF s.phase = "waking" THEN "running" ELSE s.phase
            /\ ~t.busy /\ t.first_done
  <2>1. CASE s.pending > 1
    <3>1. t = [s EXCEPT !.pending = s.pending - 1]
      BY <2>1, <1>7 DEF LifeDone
    <3> HIDE DEF t
    <3>2. t.pending = s.pending - 1
      BY <3>1, <1>0 DEF Attributes
    <3>3. t.first_done = s.first_done /\ t.busy = s.busy /\ t.phase = s.phase
      BY <3>1, <1>0 DEF Attributes
    <3> QED BY <2>1, <3>2, <3>3, <1>7
  <2>2. CASE s.pending = 1 /\ s.first_done
    BY <2>2, <1>0 DEF LifeDone, Attributes
  <2>3. CASE s.pending = 1 /\ ~s.first_done
    BY <2>3, <1>0 DEF LifeDone, Attributes
  <2> QED BY <2>1, <2>2, <2>3, <1>7
<1> HIDE DEF t
<1>6. t.pending \in Nat /\ t.first_done \in BOOLEAN /\ t.phase \in Phases /\ t.busy \in BOOLEAN /\ t.rate \in Nat
  <2>1. t.first_done \in BOOLEAN /\ t.busy \in BOOLEAN
    BY <1>2 DEF Typed
  <2>2. t.phase \in Phases
    BY <1>2 DEF Typed, Phases
  <2>3. t.rate \in Nat /\ t.pending \in Nat
    BY <1>2 DEF Typed
  <2> QED BY <2>1, <2>2, <2>3
<1>4. Typed(t)
  BY <1>1, <1>6, TypedBut
<1>5. NoFlow(s, t)
  BY <1>1, <1>4, NoFlowFields DEF FlowFields
<1> QED BY <1>1, <1>3, <1>5 DEF t

LEMMA ReleaseIs ==
    ASSUME NEW s, Typed(s), NEW i \in Agents
    PROVE LET t == Release(s, i) IN
          /\ NoFlow(s, t) /\ Same(s, t, {"owned", "workers"})
          /\ t.owned = s.owned \ {i}
          /\ t.workers = IF i \in s.owned THEN s.workers - 1 ELSE s.workers
<1> DEFINE t == Release(s, i)
<1>0. DOMAIN s = Attributes
  BY DEF Typed
<1>1. Same(s, t, {"owned", "workers"})
  BY <1>0 DEF Same, Release, Attributes
<1>2. /\ t.owned = s.owned \ {i}
      /\ t.workers = IF i \in s.owned THEN s.workers - 1 ELSE s.workers
  BY <1>0 DEF Release, Attributes
<1> HIDE DEF t
<1>3. s.owned \subseteq Agents /\ s.workers \in Int
  BY DEF Typed
<1>6. t.owned \subseteq Agents /\ t.workers \in Int
  BY <1>2, <1>3
<1>4. Typed(t)
  BY <1>1, <1>6, TypedBut
<1>5. NoFlow(s, t)
  BY <1>1, <1>4, NoFlowFields DEF FlowFields
<1> QED BY <1>1, <1>2, <1>5 DEF t

LEMMA FinishSuspendIs ==
    ASSUME NEW s, Typed(s)
    PROVE LET t == FinishSuspend(s) IN
          /\ NoFlow(s, t) /\ Same(s, t, {"all_susp", "phase", "busy"})
          /\ t.phase = "idle" /\ ~t.busy
<1> DEFINE t == FinishSuspend(s)
<1>0. DOMAIN s = Attributes
  BY DEF Typed
<1>1. Same(s, t, {"all_susp", "phase", "busy"}) /\ t.phase = "idle" /\ t.busy = FALSE
  BY <1>0 DEF Same, FinishSuspend, Attributes
<1> HIDE DEF t
<1>4. Typed(t)
  <2>1. t.phase \in Phases /\ t.busy \in BOOLEAN
    BY <1>1 DEF Phases
  <2> QED BY <1>1, <2>1, TypedBut
<1>5. NoFlow(s, t)
  BY <1>1, <1>4, NoFlowFields DEF FlowFields
<1> QED BY <1>1, <1>5 DEF t

LEMMA SuspStartIs ==
    ASSUME NEW s, Typed(s), NEW i \in Agents
    PROVE LET t == SuspStart(s, i) IN
          /\ NoFlow(s, t) /\ Same(s, t, {"agents", "susp_active", "ev"})
          /\ t.agents = [s.agents EXCEPT ![i] = "suspending"] /\ t.susp_active = s.susp_active + 1
          /\ DOMAIN t.ev = DOMAIN s.ev \cup {<<"sdone", i>>}
          /\ \A d : Times(t.ev, d) = Times(s.ev, d) + (IF d = <<"sdone", i>> THEN 1 ELSE 0)
<1> DEFINE u == [s EXCEPT !.susp_active = @ + 1]
           v == Set(u, i, "suspending")
           t == Put(v, <<"sdone", i>>)
<1>1. Same(s, u, {"susp_active"}) /\ u.susp_active = s.susp_active + 1
  BY DEF Typed, Same, Attributes
<1>2. SuspStart(s, i) = t
  BY DEF SuspStart
<1> HIDE DEF u
<1>12. u.susp_active \in Int
  BY <1>1 DEF Typed
<1>3. Typed(u)
  BY <1>1, <1>12, TypedBut
<1>4. NoFlow(s, u)
  BY <1>1, <1>3, NoFlowFields DEF FlowFields
<1>5. NoFlow(u, v) /\ Same(u, v, {"agents"}) /\ v.agents = [u.agents EXCEPT ![i] = "suspending"]
  BY <1>3, SetIs DEF States
<1> HIDE DEF v
<1>6. <<"sdone", i>> \in Events /\ ~Requesting(<<"sdone", i>>)
  BY OtherEvents DEF AgentKinds
<1>7. Typed(v)
  BY <1>5 DEF NoFlow
<1>8. /\ NoFlow(v, t) /\ Same(v, t, {"ev"})
      /\ DOMAIN t.ev = DOMAIN v.ev \cup {<<"sdone", i>>}
      /\ \A d : Times(t.ev, d) = Times(v.ev, d) + (IF d = <<"sdone", i>> THEN 1 ELSE 0)
  BY <1>6, <1>7, PutIs
<1> HIDE DEF t
<1>9. NoFlow(s, t)
  BY <1>4, <1>5, <1>8, NoFlowTwice
<1>10. Same(s, t, {"agents", "susp_active", "ev"})
  BY <1>1, <1>5, <1>8 DEF Same
<1>11. v.ev = s.ev /\ u.agents = s.agents /\ t.agents = v.agents /\ t.susp_active = u.susp_active
  BY <1>1, <1>5, <1>8 DEF Same, Attributes
<1> QED BY <1>1, <1>2, <1>5, <1>8, <1>9, <1>10, <1>11

LEMMA SuspRequestIs ==
    ASSUME NEW s, Typed(s), NEW i \in Agents
    PROVE LET t == SuspRequest(s, i) IN
          /\ NoFlow(s, t) /\ Same(s, t, {"agents", "susp_active", "susp_wait", "ev"})
          /\ \/ t = SuspStart(s, i)
             \/ /\ Same(s, t, {"susp_wait"}) /\ t.susp_wait = s.susp_wait \cup {i}
<1> DEFINE u == [s EXCEPT !.susp_wait = @ \cup {i}]
<1>0. Same(s, u, {"susp_wait"})
  BY DEF Typed, Same, Attributes
<1>1. Same(s, u, {"susp_wait"}) /\ u.susp_wait = s.susp_wait \cup {i}
  BY <1>0 DEF Typed, Attributes
<1>2. SuspRequest(s, i) = SuspStart(s, i) \/ SuspRequest(s, i) = u
  BY DEF SuspRequest
<1> HIDE DEF u
<1>7. u.susp_wait \subseteq Agents
  BY <1>1 DEF Typed
<1>3. Typed(u)
  BY <1>0, <1>7, TypedBut
<1>4. NoFlow(s, u)
  BY <1>1, <1>3, NoFlowFields DEF FlowFields
<1>5. Same(s, u, {"agents", "susp_active", "susp_wait", "ev"})
  BY <1>1 DEF Same
<1>6. NoFlow(s, SuspStart(s, i)) /\ Same(s, SuspStart(s, i), {"agents", "susp_active", "susp_wait", "ev"})
  <2>1. NoFlow(s, SuspStart(s, i)) /\ Same(s, SuspStart(s, i), {"agents", "susp_active", "ev"})
    BY SuspStartIs
  <2> QED BY <2>1 DEF Same
<1> QED BY <1>1, <1>2, <1>4, <1>5, <1>6

LEMMA AgentsFinite == IsFiniteSet(Agents) /\ \A I \in SUBSET Agents : IsFiniteSet(I)
<1>1. IsFiniteSet(Agents)
  BY MockAssumption, FS_Interval DEF Agents
<1> QED BY <1>1, FS_Subset

\* A set of events of agents is finite.
LEMMA EventsFinite ==
    ASSUME NEW E, E \subseteq AgentKinds \X Agents
    PROVE IsFiniteSet(E)
<1>1. IsFiniteSet(AgentKinds)
  <2>1. IsFiniteSet({"wake"} \cup {"sdone"})
    BY FS_Singleton, FS_AddElement
  <2>2. IsFiniteSet({"duty_wake"} \cup {"duty_send"})
    BY FS_Singleton, FS_AddElement
  <2>3. IsFiniteSet({"duty_park"} \cup {"duty_susp_done"})
    BY FS_Singleton, FS_AddElement
  <2>4. IsFiniteSet(({"wake"} \cup {"sdone"}) \cup ({"duty_wake"} \cup {"duty_send"}))
    BY <2>1, <2>2, FS_Union
  <2>5. IsFiniteSet((({"wake"} \cup {"sdone"}) \cup ({"duty_wake"} \cup {"duty_send"}))
                    \cup ({"duty_park"} \cup {"duty_susp_done"}))
    BY <2>3, <2>4, FS_Union
  <2>6. AgentKinds = ((({"wake"} \cup {"sdone"}) \cup ({"duty_wake"} \cup {"duty_send"}))
                      \cup ({"duty_park"} \cup {"duty_susp_done"}))
    BY DEF AgentKinds
  <2> QED BY <2>5, <2>6
<1>2. IsFiniteSet(AgentKinds \X Agents)
  BY <1>1, AgentsFinite, FS_Product
<1> QED BY <1>2, FS_Subset

LEMMA StartedIs ==
    ASSUME NEW s, Typed(s), NEW I, I \subseteq Agents
    PROVE LET t == Started(s, I)
              E == {<<"wake", i>> : i \in I}
          IN  /\ NoFlow(s, t) /\ Same(s, t, {"agents", "ev", "wake_wait", "wake_active"})
              /\ t.agents = [i \in Agents |-> IF i \in I THEN "waking" ELSE s.agents[i]]
              /\ t.wake_wait = s.wake_wait \ I /\ t.wake_active = s.wake_active + Cardinality(I)
              /\ DOMAIN t.ev = DOMAIN s.ev \cup E
              /\ \A d : Times(t.ev, d) = Times(s.ev, d) + (IF d \in E THEN 1 ELSE 0)
<1> DEFINE E == {<<"wake", i>> : i \in I}
           u == Settle(s, I, "waking")
           v == Sched(u, E)
           t == [v EXCEPT !.wake_wait = @ \ I, !.wake_active = @ + Cardinality(I)]
<1>1. Started(s, I) = t
  BY DEF Started
<1>2. NoFlow(s, u) /\ Same(s, u, {"agents"})
      /\ u.agents = [i \in Agents |-> IF i \in I THEN "waking" ELSE s.agents[i]]
  <2>1. "waking" \in States
    BY DEF States
  <2> HIDE DEF E
  <2> QED BY <2>1, SettleIs
<1>3. E \subseteq AgentKinds \X Agents
  BY DEF AgentKinds
<1>4. IsFiniteSet(E) /\ E \subseteq Events /\ \A e \in E : ~Requesting(e)
  <2>1. \A e \in AgentKinds \X Agents : e \in Events /\ ~Requesting(e)
    BY OtherEvents
  <2> HIDE DEF E
  <2> QED BY <1>3, <2>1, EventsFinite
<1> HIDE DEF u, E
<1>5. Typed(u)
  BY <1>2 DEF NoFlow
<1>6. /\ Typed(v) /\ NoFlow(u, v) /\ Same(u, v, {"ev"})
      /\ DOMAIN v.ev = DOMAIN u.ev \cup E
      /\ \A d : Times(v.ev, d) = Times(u.ev, d) + (IF d \in E THEN 1 ELSE 0)
  BY <1>4, <1>5, SchedIs
<1> HIDE DEF v
<1>7. Same(v, t, {"wake_wait", "wake_active"})
  BY <1>6 DEF Typed, Same, Attributes
<1>8. t.wake_wait = v.wake_wait \ I /\ t.wake_active = v.wake_active + Cardinality(I)
  BY <1>6 DEF Typed, Attributes
<1> HIDE DEF t
<1>9. Cardinality(I) \in Nat
  BY AgentsFinite, FS_CardinalityType
<1>10. t.wake_wait \subseteq Agents /\ t.wake_active \in Int
  <2>1. v.wake_wait \subseteq Agents /\ v.wake_active \in Int
    BY <1>6 DEF Typed
  <2>2. t.wake_wait = v.wake_wait \ I
    BY <1>8
  <2>3. t.wake_wait \subseteq Agents
    BY <2>1, <2>2
  <2>4. t.wake_active \in Int
    BY <2>1, <1>8, <1>9
  <2> QED BY <2>3, <2>4
<1>11. Typed(t)
  BY <1>6, <1>7, <1>10, TypedBut
<1>12. NoFlow(v, t)
  BY <1>7, <1>11, NoFlowFields DEF FlowFields
<1>13. NoFlow(s, t)
  BY <1>2, <1>6, <1>12, NoFlowTwice
<1>14. Same(s, t, {"agents", "ev", "wake_wait", "wake_active"})
  BY <1>2, <1>6, <1>7 DEF Same
<1>15. /\ t.agents = u.agents /\ u.ev = s.ev /\ t.ev = v.ev
       /\ v.wake_wait = s.wake_wait /\ v.wake_active = s.wake_active
  BY <1>2, <1>6, <1>7 DEF Same, Attributes
<1> QED BY <1>1, <1>2, <1>6, <1>8, <1>13, <1>14, <1>15 DEF E

\* The agent of a request that has ended runs on.
LEMMA FinishedIs ==
    ASSUME NEW s, Typed(s), NEW i \in Agents
    PROVE LET t == IF s.agents[i] = "requesting" THEN Set(s, i, "running") ELSE s IN
          /\ NoFlow(s, t) /\ Same(s, t, {"agents"})
          /\ t.agents = [s.agents EXCEPT ![i] = IF @ = "requesting" THEN "running" ELSE @]
<1>1. NoFlow(s, s) /\ Same(s, s, {"agents"})
  BY DEF NoFlow, Same, Typed
<1>2. s.agents = [s.agents EXCEPT ![i] = s.agents[i]]
  BY DEF Typed
<1>3. NoFlow(s, Set(s, i, "running")) /\ Same(s, Set(s, i, "running"), {"agents"})
      /\ Set(s, i, "running").agents = [s.agents EXCEPT ![i] = "running"]
  BY SetIs DEF States
<1> QED BY <1>1, <1>2, <1>3

\* The end of a request, or its failure, does not touch the others.
LEMMA ReqFinishedNoFlow ==
    ASSUME NEW s, Typed(s), NEW r \in Requests
    PROVE NoFlow(s, ReqFinished(s, r))
<1>1. r.a \in Agents
  BY DEF Requests
<1>2. NoFlow(s, s)
  BY DEF NoFlow
<1> DEFINE u == IF s.agents[r.a] = "requesting" THEN Set(s, r.a, "running") ELSE s
           v == IF s.agents[r.a] = "requesting" /\ ~s.duty THEN Set(s, r.a, "running") ELSE s
<1>3. NoFlow(s, u) /\ NoFlow(s, v)
  <2>1. NoFlow(s, Set(s, r.a, "running"))
    BY <1>1, SetIs DEF States
  <2> QED BY <2>1, <1>2
<1>4. Typed(u) /\ Typed(v)
  BY <1>3 DEF NoFlow
<1>5. ReqFinished(s, r) \in IF r.after THEN {u, Put(u, <<"duty_park", r.a>>)}
                            ELSE {v, LifeDone(v), SuspRequest(v, r.a)}
  BY DEF ReqFinished
<1> HIDE DEF u, v
<1>6. NoFlow(u, Put(u, <<"duty_park", r.a>>))
  <2>1. <<"duty_park", r.a>> \in Events /\ ~Requesting(<<"duty_park", r.a>>)
    BY <1>1, OtherEvents DEF AgentKinds
  <2> QED BY <2>1, <1>4, PutIs
<1>7. NoFlow(v, LifeDone(v)) /\ NoFlow(v, SuspRequest(v, r.a))
  BY <1>1, <1>4, LifeDoneIs, SuspRequestIs
<1> QED BY <1>3, <1>5, <1>6, <1>7, NoFlowTwice

-----------------------------------------------------------------------------
(* The balance of the admission counters, with offsets for the middle of an action:
   a request taken off the heap is counted by a, h and p until it is put back.       *)
AllPaced == UnderWay \X PacedRequests
Dispatches == {"dispatch"} \X Requests
EppReplies == {"reply"} \X EppRequests
OfPaced(r) == IF r.first THEN 0 ELSE 1
OfDispatch(k) == IF k = "dispatch" THEN 1 ELSE 0
OfEpp(k, r) == IF k = "reply" /\ r.epp THEN 1 ELSE 0

Balanced(s, a, h, p) ==
    /\ s.inflight = Count(s, AllPaced) + Len(s.fcq) + a
    /\ s.handoff = Count(s, Dispatches) + h
    /\ s.epp = Count(s, EppReplies) + p
\* Only paced requests queue, and only those of the endpoint picker.
Paced(s) ==
    /\ \A j \in DOMAIN s.fcq : s.fcq[j].epp /\ ~s.fcq[j].first
    /\ \A r \in Requests : <<"arrive", r>> \in DOMAIN s.ev => ~r.first
    /\ \A r \in Requests : <<"dispatch", r>> \in DOMAIN s.ev => r.epp /\ ~r.first
NoRoom(s) == s.fcq # <<>> => PoolRoom(s) <= 0

LEMMA CountIsLot ==
    ASSUME NEW s, NEW E
    PROVE Count(s, E) = Cardinality(Lot(s.ev, E))
BY DEF Count, Lot

LEMMA FlowSets ==
    /\ \A e \in AllPaced \cup Dispatches \cup EppReplies : Requesting(e)
    /\ \A k \in UnderWay, r \in Requests :
          /\ <<k, r>> \in AllPaced <=> ~r.first
          /\ <<k, r>> \in Dispatches <=> k = "dispatch"
          /\ <<k, r>> \in EppReplies <=> k = "reply" /\ r.epp
BY DEF AllPaced, Dispatches, EppReplies, Requesting, UnderWay, PacedRequests, EppRequests

LEMMA LotStep ==
    ASSUME NEW b, Heap(b), NEW c, Heap(c), NEW E, NEW e,
           \A d : Times(c, d) = Times(b, d) + (IF d = e THEN 1 ELSE 0)
    PROVE Cardinality(Lot(c, E)) = Cardinality(Lot(b, E)) + (IF e \in E THEN 1 ELSE 0)
<1>1. CASE e \in E
  <2>1. Cardinality(Lot(c, E)) = Cardinality(Lot(b, E)) + 1
    BY <1>1, LotOne
  <2> QED BY <2>1, <1>1
<1>2. CASE e \notin E
  <2>1. \A d \in E : d # e
    BY <1>2
  <2>2. \A d \in E : Times(c, d) = Times(b, d)
    BY <2>1, TimesType
  <2>3. Lot(c, E) = Lot(b, E)
    BY <2>2, LotSame
  <2>4. Cardinality(Lot(b, E)) \in Nat
    BY LotFinite
  <2> QED BY <2>3, <2>4, <1>2
<1> QED BY <1>1, <1>2

LEMMA BalNoFlow ==
    ASSUME NEW s, Typed(s), NEW t, NoFlow(s, t)
    PROVE /\ \A a, h, p : Balanced(s, a, h, p) => Balanced(t, a, h, p)
          /\ Paced(s) => Paced(t)
          /\ NoRoom(s) => NoRoom(t)
<1>1. Heap(s.ev) /\ Heap(t.ev)
  BY DEF Typed, NoFlow
<1>2. ASSUME NEW E, \A e \in E : Requesting(e) PROVE Count(t, E) = Count(s, E)
  <2>1. \A e \in E : Times(t.ev, e) = Times(s.ev, e)
    BY <1>2 DEF NoFlow
  <2>2. Lot(t.ev, E) = Lot(s.ev, E)
    BY <2>1, <1>1, LotSame
  <2> QED BY <2>2, CountIsLot
<1>3. /\ Count(t, AllPaced) = Count(s, AllPaced) /\ Count(t, Dispatches) = Count(s, Dispatches)
      /\ Count(t, EppReplies) = Count(s, EppReplies)
  BY <1>2, FlowSets
<1>4. /\ t.inflight = s.inflight /\ t.handoff = s.handoff /\ t.epp = s.epp
      /\ t.fcq = s.fcq /\ t.pods = s.pods
  BY DEF NoFlow
<1>5. \A k \in UnderWay, r \in Requests : <<k, r>> \in DOMAIN t.ev <=> <<k, r>> \in DOMAIN s.ev
  <2> TAKE k \in UnderWay, r \in Requests
  <2>1. Times(t.ev, <<k, r>>) = Times(s.ev, <<k, r>>)
    BY OtherEvents DEF NoFlow
  <2> QED BY <2>1, <1>1, TimesType
<1>6. \A a, h, p : Balanced(s, a, h, p) => Balanced(t, a, h, p)
  BY <1>3, <1>4 DEF Balanced
<1>7. Paced(s) => Paced(t)
  <2>1. "arrive" \in UnderWay /\ "dispatch" \in UnderWay
    BY DEF UnderWay
  <2> QED BY <2>1, <1>4, <1>5 DEF Paced
<1>8. NoRoom(s) => NoRoom(t)
  BY <1>4 DEF NoRoom, PoolRoom
<1> QED BY <1>6, <1>7, <1>8

LEMMA BalTook ==
    ASSUME NEW s, Typed(s), NEW k \in UnderWay, NEW r \in Requests, <<k, r>> \in DOMAIN s.ev,
           Balanced(s, 0, 0, 0)
    PROVE Balanced(Took(s, <<k, r>>), OfPaced(r), OfDispatch(k), OfEpp(k, r))
<1> DEFINE e == <<k, r>>
           t == Took(s, e)
<1>1. Typed(t) /\ Same(s, t, {"ev"})
      /\ \A d : Times(s.ev, d) = Times(t.ev, d) + (IF d = e THEN 1 ELSE 0)
  BY TookIs
<1> HIDE DEF t
<1>2. Heap(s.ev) /\ Heap(t.ev)
  BY <1>1 DEF Typed
<1>3. \A E : Count(s, E) = Count(t, E) + (IF e \in E THEN 1 ELSE 0)
  BY <1>1, <1>2, LotStep, CountIsLot
<1>4. /\ Count(s, AllPaced) = Count(t, AllPaced) + OfPaced(r)
      /\ Count(s, Dispatches) = Count(t, Dispatches) + OfDispatch(k)
      /\ Count(s, EppReplies) = Count(t, EppReplies) + OfEpp(k, r)
  BY <1>3, FlowSets DEF OfPaced, OfDispatch, OfEpp
<1>5. \A E : Count(t, E) \in Nat
  BY <1>2, LotFinite, CountIsLot
<1>6. OfPaced(r) \in Nat /\ OfDispatch(k) \in Nat /\ OfEpp(k, r) \in Nat
  BY DEF OfPaced, OfDispatch, OfEpp
<1>7. /\ t.inflight = s.inflight /\ t.handoff = s.handoff /\ t.epp = s.epp /\ t.fcq = s.fcq
  BY <1>1 DEF Same, Attributes
<1>8. Len(s.fcq) \in Nat
  BY DEF Typed
<1>9. t.inflight = Count(t, AllPaced) + Len(t.fcq) + OfPaced(r)
  BY <1>4, <1>5, <1>6, <1>7, <1>8 DEF Balanced
<1>10. t.handoff = Count(t, Dispatches) + OfDispatch(k) /\ t.epp = Count(t, EppReplies) + OfEpp(k, r)
  BY <1>4, <1>5, <1>6, <1>7 DEF Balanced
<1> QED BY <1>9, <1>10 DEF Balanced, t

LEMMA BalPut ==
    ASSUME NEW s, Typed(s), NEW k \in UnderWay, NEW r \in Requests,
           NEW a \in Int, NEW h \in Int, NEW p \in Int,
           Balanced(s, a + OfPaced(r), h + OfDispatch(k), p + OfEpp(k, r))
    PROVE Balanced(Put(s, <<k, r>>), a, h, p)
<1> DEFINE e == <<k, r>>
           t == Put(s, e)
<1>0. e \in Events
  BY OtherEvents
<1>1. Typed(t) /\ Same(s, t, {"ev"})
      /\ \A d : Times(t.ev, d) = Times(s.ev, d) + (IF d = e THEN 1 ELSE 0)
  BY <1>0, PutIs
<1> HIDE DEF t
<1>2. Heap(s.ev) /\ Heap(t.ev)
  BY <1>1 DEF Typed
<1>3. \A E : Count(t, E) = Count(s, E) + (IF e \in E THEN 1 ELSE 0)
  BY <1>1, <1>2, LotStep, CountIsLot
<1>4. /\ Count(t, AllPaced) = Count(s, AllPaced) + OfPaced(r)
      /\ Count(t, Dispatches) = Count(s, Dispatches) + OfDispatch(k)
      /\ Count(t, EppReplies) = Count(s, EppReplies) + OfEpp(k, r)
  BY <1>3, FlowSets DEF OfPaced, OfDispatch, OfEpp
<1>5. \A E : Count(s, E) \in Nat
  BY <1>2, LotFinite, CountIsLot
<1>6. OfPaced(r) \in Nat /\ OfDispatch(k) \in Nat /\ OfEpp(k, r) \in Nat
  BY DEF OfPaced, OfDispatch, OfEpp
<1>7. /\ t.inflight = s.inflight /\ t.handoff = s.handoff /\ t.epp = s.epp /\ t.fcq = s.fcq
  BY <1>1 DEF Same, Attributes
<1>8. Len(s.fcq) \in Nat
  BY DEF Typed
<1>9. t.inflight = Count(t, AllPaced) + Len(t.fcq) + a
  <2>1. s.inflight = Count(s, AllPaced) + Len(s.fcq) + (a + OfPaced(r))
    BY DEF Balanced
  <2>2. Count(s, AllPaced) \in Nat /\ Len(s.fcq) \in Nat /\ OfPaced(r) \in Nat
    BY <1>5, <1>6, <1>8
  <2>3. t.inflight = s.inflight /\ Len(t.fcq) = Len(s.fcq)
    BY <1>7
  <2>4. Count(t, AllPaced) = Count(s, AllPaced) + OfPaced(r)
    BY <1>4
  <2> QED BY <2>1, <2>2, <2>3, <2>4
<1>10. t.handoff = Count(t, Dispatches) + h
  BY <1>4, <1>5, <1>6, <1>7 DEF Balanced
<1>11. t.epp = Count(t, EppReplies) + p
  BY <1>4, <1>5, <1>6, <1>7 DEF Balanced
<1> QED BY <1>9, <1>10, <1>11 DEF Balanced, t

-----------------------------------------------------------------------------
(* The pump of flow control hands on the queue's head as far as there is room. *)
Handed(s) == IF s.strategy = "roundrobin" \/ PoolRoom(s) >= Len(s.fcq) THEN Len(s.fcq)
             ELSE IF PoolRoom(s) > 0 THEN PoolRoom(s) ELSE 0

LEMMA RoomType ==
    ASSUME NEW s, Typed(s)
    PROVE /\ PoolRoom(s) \in Int /\ \E c \in Nat : PoolRoom(s) = c - s.epp - s.handoff
          /\ s.pods = 0 => PoolRoom(s) = 0 - s.epp - s.handoff
<1>1. POOL_CAP \in Nat /\ s.pods \in 0..2 /\ s.epp \in Int /\ s.handoff \in Int
  BY MockAssumption DEF Typed
<1>2. s.pods = 0 \/ s.pods = 1 \/ s.pods = 2
  BY <1>1
<1>3. POOL_CAP * s.pods \in Nat /\ (s.pods = 0 => POOL_CAP * s.pods = 0)
  BY <1>1, <1>2
<1> QED BY <1>1, <1>3 DEF PoolRoom

LEMMA PumpIs ==
    ASSUME NEW s, Typed(s)
    PROVE LET t == FcPump(s)
              k == Handed(s)
          IN  /\ Typed(t) /\ Same(s, t, {"fcq", "handoff", "ev"})
              /\ k \in 0..Len(s.fcq)
              /\ t.fcq = [j \in 1..Len(s.fcq) - k |-> s.fcq[j + k]]
              /\ Len(t.fcq) = Len(s.fcq) - k
              /\ t.handoff = s.handoff + k /\ t.ev = s.ev (+) Given(s.fcq, k)
              /\ k = Len(s.fcq) \/ PoolRoom(s) <= k
<1> DEFINE t == FcPump(s)
           k == Handed(s)
<1>0. DOMAIN s = Attributes /\ s.fcq \in Seq(Requests) /\ Len(s.fcq) \in Nat /\ PoolRoom(s) \in Int
      /\ Heap(s.ev) /\ s.handoff \in Int
  <2>1. DOMAIN s = Attributes /\ s.fcq \in Seq(Requests) /\ Heap(s.ev) /\ s.handoff \in Int
    BY DEF Typed
  <2> QED BY <2>1, RoomType
<1>1. k \in 0..Len(s.fcq) /\ (k = Len(s.fcq) \/ PoolRoom(s) <= k)
  BY <1>0 DEF Handed
<1>2. t = [s EXCEPT !.fcq = [j \in 1..Len(@) - k |-> @[j + k]], !.handoff = @ + k,
                    !.ev = @ (+) Given(s.fcq, k)]
  BY DEF FcPump, Handed
<1> HIDE DEF t, k
<1>3. Same(s, t, {"fcq", "handoff", "ev"})
  BY <1>0, <1>2 DEF Same, Attributes
<1>4. /\ t.fcq = [j \in 1..Len(s.fcq) - k |-> s.fcq[j + k]]
      /\ t.handoff = s.handoff + k /\ t.ev = s.ev (+) Given(s.fcq, k)
  BY <1>0, <1>2 DEF Attributes
<1>5. Len(s.fcq) - k \in Nat
  BY <1>0, <1>1
<1>6. t.fcq \in Seq(Requests) /\ Len(t.fcq) = Len(s.fcq) - k
  <2>1. \A j \in 1..Len(s.fcq) - k : s.fcq[j + k] \in Requests
    <3> TAKE j \in 1..Len(s.fcq) - k
    <3>1. j + k \in 1..Len(s.fcq)
      BY <1>0, <1>1, <1>5
    <3> QED BY <3>1, <1>0
  <2> QED BY <2>1, <1>4, <1>5
<1>7. Heap(t.ev)
  BY <1>0, <1>1, <1>4, BagGiven
<1>8. t.handoff \in Int
  BY <1>0, <1>1, <1>4
<1>9. Typed(t)
  BY <1>3, <1>6, <1>7, <1>8, TypedBut
<1> QED BY <1>1, <1>3, <1>4, <1>6, <1>9 DEF t, k

\* What it hands on was queued; no other event is touched.
LEMMA PumpEvents ==
    ASSUME NEW s, Typed(s)
    PROVE LET t == FcPump(s) IN
          /\ \A d : Times(t.ev, d) # Times(s.ev, d) =>
                      \E j \in DOMAIN s.fcq : d = <<"dispatch", s.fcq[j]>>
          /\ \A d : Times(t.ev, d) >= Times(s.ev, d)
          /\ \A j \in DOMAIN t.fcq : \E l \in DOMAIN s.fcq : t.fcq[j] = s.fcq[l]
          /\ \A l \in DOMAIN s.fcq : \/ \E j \in DOMAIN t.fcq : t.fcq[j] = s.fcq[l]
                                     \/ <<"dispatch", s.fcq[l]>> \in DOMAIN t.ev
<1> DEFINE t == FcPump(s)
           k == Handed(s)
           N(d) == Cardinality(SentAs(s.fcq, k, d))
<1>0. s.fcq \in Seq(Requests) /\ Heap(s.ev) /\ Len(s.fcq) \in Nat /\ DOMAIN s.fcq = 1..Len(s.fcq)
  BY DEF Typed
<1>1. /\ Typed(t) /\ k \in 0..Len(s.fcq) /\ Len(t.fcq) = Len(s.fcq) - k
      /\ t.fcq = [j \in 1..Len(s.fcq) - k |-> s.fcq[j + k]]
      /\ t.ev = s.ev (+) Given(s.fcq, k)
  BY PumpIs
<1> HIDE DEF t, k
<1>2. /\ \A d : Times(t.ev, d) = Times(s.ev, d) + N(d)
      /\ \A d : N(d) > 0 => \E j \in 1..k : d = <<"dispatch", s.fcq[j]>>
  <2> DEFINE n(d) == Cardinality(SentAs(s.fcq, k, d))
  <2>1. /\ \A d : Times(s.ev (+) Given(s.fcq, k), d) = Times(s.ev, d) + n(d)
        /\ \A d : n(d) > 0 => \E j \in 1..k : d = <<"dispatch", s.fcq[j]>>
    BY ONLY <1>0, <1>1, BagGiven
  <2> QED BY <1>1, <2>1
<1>3. \A d : N(d) \in Nat /\ Times(s.ev, d) \in Nat /\ (N(d) = 0 <=> SentAs(s.fcq, k, d) = {})
  <2>1. k \in Nat
    BY <1>0, <1>1
  <2>2. \A d : N(d) \in Nat /\ (N(d) = 0 <=> SentAs(s.fcq, k, d) = {})
    BY <2>1, SentFinite
  <2> QED BY <2>2, <1>0, TimesType
<1> HIDE DEF N
<1>4. \A d : Times(t.ev, d) # Times(s.ev, d) => N(d) > 0
  BY <1>2, <1>3
<1>5. \A d : Times(t.ev, d) # Times(s.ev, d) => \E j \in DOMAIN s.fcq : d = <<"dispatch", s.fcq[j]>>
  <2> SUFFICES ASSUME NEW d, Times(t.ev, d) # Times(s.ev, d)
               PROVE \E j \in DOMAIN s.fcq : d = <<"dispatch", s.fcq[j]>>
    OBVIOUS
  <2>1. PICK j \in 1..k : d = <<"dispatch", s.fcq[j]>>
    BY <1>2, <1>4
  <2>2. j \in DOMAIN s.fcq
    BY <1>0, <1>1
  <2> QED BY <2>1, <2>2
<1>6. \A d : Times(t.ev, d) >= Times(s.ev, d)
  BY <1>2, <1>3
<1>7. ASSUME NEW j \in DOMAIN t.fcq PROVE \E l \in DOMAIN s.fcq : t.fcq[j] = s.fcq[l]
  <2>1. j \in 1..Len(s.fcq) - k /\ t.fcq[j] = s.fcq[j + k]
    BY <1>1
  <2>2. j + k \in 1..Len(s.fcq)
    BY <2>1, <1>0, <1>1
  <2> QED BY <2>1, <2>2, <1>0
<1>8. ASSUME NEW l \in DOMAIN s.fcq
      PROVE \/ \E j \in DOMAIN t.fcq : t.fcq[j] = s.fcq[l]
            \/ <<"dispatch", s.fcq[l]>> \in DOMAIN t.ev
  <2>1. CASE l > k
    <3>1. l - k \in 1..Len(s.fcq) - k /\ (l - k) + k = l
      BY <2>1, <1>0, <1>1
    <3>2. DOMAIN t.fcq = 1..Len(s.fcq) - k
      BY <1>1
    <3> QED BY <3>1, <3>2, <1>1
  <2>2. CASE ~(l > k)
    <3>1. l \in 1..k
      BY <2>2, <1>0, <1>1
    <3>2. SentAs(s.fcq, k, <<"dispatch", s.fcq[l]>>) # {}
      BY <3>1 DEF SentAs, Sent
    <3>3. Times(t.ev, <<"dispatch", s.fcq[l]>>) > 0
      BY <3>2, <1>2, <1>3
    <3>4. Heap(t.ev)
      BY <1>1 DEF Typed
    <3> QED BY <3>3, <3>4, TimesType
  <2> QED BY <2>1, <2>2
<1> QED BY <1>5, <1>6, <1>7, <1>8 DEF t

LEMMA PumpFlow ==
    ASSUME NEW s, Typed(s), Balanced(s, 0, 0, 0), Paced(s)
    PROVE LET t == FcPump(s) IN
          Typed(t) /\ Balanced(t, 0, 0, 0) /\ Paced(t) /\ NoRoom(t)
<1> DEFINE t == FcPump(s)
           k == Handed(s)
<1>0. s.fcq \in Seq(Requests) /\ Heap(s.ev) /\ Len(s.fcq) \in Nat /\ DOMAIN s.fcq = 1..Len(s.fcq)
  BY DEF Typed
<1>1. /\ Typed(t) /\ Same(s, t, {"fcq", "handoff", "ev"}) /\ k \in 0..Len(s.fcq)
      /\ Len(t.fcq) = Len(s.fcq) - k /\ t.handoff = s.handoff + k
      /\ t.ev = s.ev (+) Given(s.fcq, k)
      /\ k = Len(s.fcq) \/ PoolRoom(s) <= k
  BY PumpIs
<1>2. /\ \A d : Times(t.ev, d) # Times(s.ev, d) =>
                      \E j \in DOMAIN s.fcq : d = <<"dispatch", s.fcq[j]>>
      /\ \A j \in DOMAIN t.fcq : \E l \in DOMAIN s.fcq : t.fcq[j] = s.fcq[l]
  BY PumpEvents
<1> HIDE DEF t, k
<1>3. \A j \in 1..k : /\ s.fcq[j] \in Requests /\ s.fcq[j].epp /\ ~s.fcq[j].first
  BY <1>0, <1>1 DEF Paced
<1>4. ASSUME NEW E, \A j \in 1..k : <<"dispatch", s.fcq[j]>> \in E
      PROVE Count(t, E) = Count(s, E) + k
  BY <1>0, <1>1, <1>4, LotGiven, CountIsLot
<1>5. \A j \in 1..k : <<"dispatch", s.fcq[j]>> \in AllPaced /\ <<"dispatch", s.fcq[j]>> \in Dispatches
  <2>1. "dispatch" \in UnderWay
    BY DEF UnderWay
  <2> QED BY <2>1, <1>3, FlowSets
<1>6. Count(t, AllPaced) = Count(s, AllPaced) + k /\ Count(t, Dispatches) = Count(s, Dispatches) + k
  BY <1>4, <1>5
<1>7. Count(t, EppReplies) = Count(s, EppReplies)
  <2>1. \A d \in EppReplies : Times(t.ev, d) = Times(s.ev, d)
    <3> TAKE d \in EppReplies
    <3>1. d[1] = "reply"
      BY DEF EppReplies
    <3>2. \A j \in DOMAIN s.fcq : d # <<"dispatch", s.fcq[j]>>
      BY <3>1
    <3> QED BY <3>2, <1>2
  <2>2. Heap(t.ev)
    BY <1>1 DEF Typed
  <2> QED BY <2>1, <2>2, <1>0, LotSame, CountIsLot
<1>8. t.inflight = s.inflight /\ t.epp = s.epp /\ t.pods = s.pods
  BY <1>1 DEF Same, Attributes
<1>9. \A E : Count(s, E) \in Nat
  BY <1>0, LotFinite, CountIsLot
<1>10. Balanced(t, 0, 0, 0)
  <2>1. s.inflight = Count(s, AllPaced) + Len(s.fcq) + 0
    BY DEF Balanced
  <2>2. t.inflight = Count(t, AllPaced) + Len(t.fcq) + 0
    BY <2>1, <1>0, <1>1, <1>6, <1>8, <1>9
  <2>3. s.handoff = Count(s, Dispatches) + 0 /\ s.epp = Count(s, EppReplies) + 0
    BY DEF Balanced
  <2>4. t.handoff = Count(t, Dispatches) + 0
    BY <2>3, <1>0, <1>1, <1>6, <1>9
  <2>5. t.epp = Count(t, EppReplies) + 0
    BY <2>3, <1>7, <1>8
  <2> QED BY <2>2, <2>4, <2>5 DEF Balanced
<1>11. Paced(t)
  <2>1. \A j \in DOMAIN t.fcq : t.fcq[j].epp /\ ~t.fcq[j].first
    BY <1>2 DEF Paced
  <2>2. Heap(t.ev)
    BY <1>1 DEF Typed
  <2>3. ASSUME NEW r \in Requests, <<"arrive", r>> \in DOMAIN t.ev PROVE ~r.first
    <3>1. \A j \in DOMAIN s.fcq : <<"arrive", r>> # <<"dispatch", s.fcq[j]>>
      OBVIOUS
    <3>2. Times(t.ev, <<"arrive", r>>) = Times(s.ev, <<"arrive", r>>)
      BY <3>1, <1>2
    <3>3. <<"arrive", r>> \in DOMAIN s.ev
      BY <3>2, <2>2, <2>3, <1>0, TimesType
    <3> QED BY <3>3 DEF Paced
  <2>4. ASSUME NEW r \in Requests, <<"dispatch", r>> \in DOMAIN t.ev PROVE r.epp /\ ~r.first
    <3>1. CASE \E j \in DOMAIN s.fcq : <<"dispatch", r>> = <<"dispatch", s.fcq[j]>>
      BY <3>1 DEF Paced
    <3>2. CASE \A j \in DOMAIN s.fcq : <<"dispatch", r>> # <<"dispatch", s.fcq[j]>>
      <4>1. Times(t.ev, <<"dispatch", r>>) = Times(s.ev, <<"dispatch", r>>)
        BY <3>2, <1>2
      <4>2. <<"dispatch", r>> \in DOMAIN s.ev
        BY <4>1, <2>2, <2>4, <1>0, TimesType
      <4> QED BY <4>2 DEF Paced
    <3> QED BY <3>1, <3>2
  <2> QED BY <2>1, <2>3, <2>4 DEF Paced
<1>12. NoRoom(t)
  <2>1. CASE k = Len(s.fcq)
    <3>1. Len(t.fcq) = 0 /\ t.fcq \in Seq(Requests)
      BY <2>1, <1>0, <1>1 DEF Typed
    <3> QED BY <3>1 DEF NoRoom
  <2>2. CASE PoolRoom(s) <= k
    <3> DEFINE c == POOL_CAP * s.pods
    <3>1. PoolRoom(s) = c - s.epp - s.handoff /\ PoolRoom(t) = c - t.epp - t.handoff
      BY <1>8 DEF PoolRoom
    <3>2. c \in Int /\ s.epp \in Int /\ s.handoff \in Int
      <4>1. s.pods \in 0..2 /\ s.epp \in Int /\ s.handoff \in Int
        BY DEF Typed
      <4>2. POOL_CAP \in Int /\ s.pods \in Int
        BY <4>1, MockAssumption
      <4> QED BY <4>1, <4>2
    <3> HIDE DEF c
    <3>3. PoolRoom(t) <= 0
      BY <3>1, <3>2, <2>2, <1>0, <1>1, <1>8
    <3> QED BY <3>3 DEF NoRoom
  <2> QED BY <2>1, <2>2, <1>1
<1> QED BY <1>1, <1>10, <1>11, <1>12 DEF t

-----------------------------------------------------------------------------
(* Admission: the parts of a step that move a request. *)
FlowOk(s) == Typed(s) /\ Balanced(s, 0, 0, 0) /\ Paced(s) /\ NoRoom(s)

LEMMA FlowOkNoFlow ==
    ASSUME NEW s, FlowOk(s), NEW t, NoFlow(s, t)
    PROVE FlowOk(t)
BY BalNoFlow DEF FlowOk, NoFlow

LEMMA TookDomain ==
    ASSUME NEW s, Typed(s), NEW e \in DOMAIN s.ev
    PROVE /\ DOMAIN Took(s, e).ev \subseteq DOMAIN s.ev
          /\ \A d : d # e => (d \in DOMAIN Took(s, e).ev <=> d \in DOMAIN s.ev)
          /\ Times(s.ev, e) <= 1 => e \notin DOMAIN Took(s, e).ev
<1>1. /\ Typed(Took(s, e))
      /\ \A d : Times(s.ev, d) = Times(Took(s, e).ev, d) + (IF d = e THEN 1 ELSE 0)
  BY TookIs
<1>2. Heap(s.ev) /\ Heap(Took(s, e).ev)
  BY <1>1 DEF Typed
<1>3. \A d : /\ Times(s.ev, d) \in Nat /\ Times(Took(s, e).ev, d) \in Nat
             /\ d \in DOMAIN s.ev <=> Times(s.ev, d) > 0
             /\ d \in DOMAIN Took(s, e).ev <=> Times(Took(s, e).ev, d) > 0
  BY <1>2, TimesType
<1> QED BY <1>1, <1>3

\* A change of the admission counters alone.
LEMMA CountersIs ==
    ASSUME NEW s, Typed(s), NEW t, Same(s, t, {"inflight", "handoff", "epp"}),
           t.inflight \in Int, t.handoff \in Int, t.epp \in Int
    PROVE /\ Typed(t) /\ t.ev = s.ev /\ t.fcq = s.fcq /\ t.pods = s.pods
          /\ \A E : Count(t, E) = Count(s, E)
          /\ Paced(s) => Paced(t)
<1>1. t.ev = s.ev /\ t.fcq = s.fcq /\ t.pods = s.pods
  BY DEF Same, Attributes
<1>2. Typed(t)
  BY TypedBut
<1> QED BY <1>1, <1>2 DEF Count, Paced

LEMMA PacedTook ==
    ASSUME NEW s, Typed(s), NEW e \in DOMAIN s.ev, Paced(s)
    PROVE Paced(Took(s, e))
<1>1. Took(s, e).fcq = s.fcq
  BY TookIs DEF Same, Attributes
<1>2. DOMAIN Took(s, e).ev \subseteq DOMAIN s.ev
  BY TookDomain
<1> QED BY <1>1, <1>2 DEF Paced

LEMMA PacedPut ==
    ASSUME NEW s, Typed(s), NEW k \in UnderWay, NEW r \in Requests, Paced(s),
           k = "reply" \/ (k = "arrive" /\ ~r.first)
    PROVE Paced(Put(s, <<k, r>>))
<1>1. <<k, r>> \in Events
  BY OtherEvents
<1>2. Put(s, <<k, r>>).fcq = s.fcq /\ DOMAIN Put(s, <<k, r>>).ev = DOMAIN s.ev \cup {<<k, r>>}
  BY <1>1, PutIs DEF Same, Attributes
<1> QED BY <1>2 DEF Paced

\* A request sent to a pod, or failed because no pod is up, is counted where it is.
LEMMA DispatchedFlow ==
    ASSUME NEW s, Typed(s), NEW r \in Requests, Balanced(s, OfPaced(r), 0, 0), Paced(s)
    PROVE LET t == Dispatched(s, r) IN
          /\ Typed(t) /\ Balanced(t, 0, 0, 0) /\ Paced(t)
          /\ t.fcq = s.fcq
          /\ s.pods = 0 => PoolRoom(t) = PoolRoom(s)
          /\ s.pods # 0 => PoolRoom(t) = PoolRoom(s) - (IF r.epp THEN 1 ELSE 0)
<1> DEFINE t == Dispatched(s, r)
           u == Uncount(s, r)
           v == [s EXCEPT !.epp = IF r.epp THEN @ + 1 ELSE @]
<1>0. DOMAIN s = Attributes /\ s.inflight \in Int /\ s.handoff \in Int /\ s.epp \in Int
  BY DEF Typed
<1>9. \A E : Count(s, E) \in Nat
  BY LotFinite, CountIsLot DEF Typed
<1>8. s.fcq \in Seq(Requests)
  BY DEF Typed
<1>10. Len(s.fcq) \in Nat
  BY <1>8
<1>1. CASE s.pods = 0
  <2>1. Same(s, u, {"inflight"}) /\ u.inflight = s.inflight - OfPaced(r)
    BY <1>0 DEF Uncount, OfPaced, Same, Attributes
  <2>2. t = ReqFinished(u, r)
    BY <1>1 DEF Dispatched
  <2> HIDE DEF t, u
  <2>3. u.handoff = s.handoff /\ u.epp = s.epp /\ u.inflight \in Int
    BY <2>1, <1>0 DEF Same, Attributes, OfPaced
  <2>4. Same(s, u, {"inflight", "handoff", "epp"})
    BY <2>1 DEF Same
  <2>5. /\ Typed(u) /\ u.fcq = s.fcq /\ u.pods = s.pods /\ Paced(u)
        /\ \A E : Count(u, E) = Count(s, E)
    BY <2>3, <2>4, <1>0, CountersIs
  <2>6. OfPaced(r) \in Nat
    BY DEF OfPaced
  <2>7. Balanced(u, 0, 0, 0)
    <3>1. s.inflight = Count(s, AllPaced) + Len(s.fcq) + OfPaced(r)
      BY DEF Balanced
    <3>2. u.inflight = Count(u, AllPaced) + Len(u.fcq) + 0
      BY <3>1, <2>1, <2>5, <2>6, <1>9, <1>10
    <3> QED BY <3>2, <2>3, <2>5 DEF Balanced
  <2>8. NoFlow(u, t)
    BY <2>2, <2>5, ReqFinishedNoFlow
  <2>9. PoolRoom(t) = PoolRoom(s) /\ t.fcq = s.fcq
    BY <2>3, <2>5, <2>8 DEF NoFlow, PoolRoom
  <2>10. Typed(t) /\ Balanced(t, 0, 0, 0) /\ Paced(t)
    BY <2>5, <2>7, <2>8, BalNoFlow DEF NoFlow
  <2> QED BY <2>9, <2>10, <1>1 DEF t
<1>2. CASE s.pods # 0
  <2> DEFINE x == IF r.epp THEN 1 ELSE 0
  <2>1. Same(s, v, {"epp"}) /\ v.epp = s.epp + x
    BY <1>0 DEF Same, Attributes
  <2>2. t = Put(v, <<"reply", r>>)
    BY <1>2 DEF Dispatched
  <2>11. x \in Int /\ x = OfEpp("reply", r) /\ OfDispatch("reply") = 0
    BY DEF OfEpp, OfDispatch
  <2> HIDE DEF t, v, x
  <2>3. v.handoff = s.handoff /\ v.inflight = s.inflight /\ v.epp \in Int
    BY <2>1, <2>11, <1>0 DEF Same, Attributes
  <2>4. Same(s, v, {"inflight", "handoff", "epp"})
    BY <2>1 DEF Same
  <2>5. /\ Typed(v) /\ v.fcq = s.fcq /\ v.pods = s.pods /\ Paced(v)
        /\ \A E : Count(v, E) = Count(s, E)
    BY <2>3, <2>4, <1>0, CountersIs
  <2>6. "reply" \in UnderWay /\ OfPaced(r) \in Int
    BY DEF UnderWay, OfPaced
  <2>7. Balanced(v, 0 + OfPaced(r), 0 + OfDispatch("reply"), 0 + OfEpp("reply", r))
    <3>1. s.epp = Count(s, EppReplies) + 0
      BY DEF Balanced
    <3>2. v.epp = Count(v, EppReplies) + (0 + OfEpp("reply", r))
      BY <3>1, <2>1, <2>5, <2>11, <1>9
    <3>3. 0 + OfPaced(r) = OfPaced(r) /\ 0 + OfDispatch("reply") = 0
      BY <2>6, <2>11
    <3> QED BY <3>2, <3>3, <2>3, <2>5 DEF Balanced
  <2>8. Balanced(t, 0, 0, 0) /\ Paced(t)
    BY <2>2, <2>5, <2>6, <2>7, BalPut, PacedPut
  <2>9. Typed(t) /\ Same(v, t, {"ev"})
    BY <2>2, <2>5, <2>6, OtherEvents, PutIs
  <2>10. t.fcq = s.fcq /\ t.epp = s.epp + x /\ t.handoff = s.handoff /\ t.pods = s.pods
    BY <2>1, <2>3, <2>5, <2>9 DEF Same, Attributes
  <2>12. PoolRoom(t) = PoolRoom(s) - x
    <3> DEFINE c == POOL_CAP * s.pods
    <3>1. c \in Int
      <4>1. s.pods \in 0..2
        BY DEF Typed
      <4> QED BY <4>1, MockAssumption
    <3>2. PoolRoom(s) = c - s.epp - s.handoff /\ PoolRoom(t) = c - t.epp - t.handoff
      BY <2>10 DEF PoolRoom
    <3> HIDE DEF c
    <3> QED BY <3>1, <3>2, <2>10, <2>11, <1>0
  <2> QED BY <2>8, <2>9, <2>10, <2>12, <1>2 DEF t, x
<1> QED BY <1>1, <1>2

\* A paced request is counted in flight when it is sent.
LEMMA SubmitFlow ==
    ASSUME NEW s, FlowOk(s), NEW r \in Requests, ~r.first
    PROVE FlowOk(Submit(s, r))
<1> DEFINE v == [s EXCEPT !.inflight = @ + 1]
           t == Put(v, <<"arrive", r>>)
<1>0. Typed(s) /\ Balanced(s, 0, 0, 0) /\ Paced(s) /\ NoRoom(s)
  BY DEF FlowOk
<1>1. Same(s, v, {"inflight"}) /\ v.inflight = s.inflight + 1
  BY <1>0 DEF Typed, Same, Attributes
<1>2. Submit(s, r) = t
  BY DEF Submit
<1> HIDE DEF v
<1>3. Same(s, v, {"inflight", "handoff", "epp"}) /\ v.handoff = s.handoff /\ v.epp = s.epp
  BY <1>1 DEF Same, Attributes
<1>4. s.inflight \in Int /\ s.handoff \in Int /\ s.epp \in Int /\ s.fcq \in Seq(Requests) /\ Heap(s.ev)
  BY <1>0 DEF Typed
<1>5. Len(s.fcq) \in Nat /\ \A E : Count(s, E) \in Nat
  BY <1>4, LotFinite, CountIsLot
<1>6. /\ Typed(v) /\ v.fcq = s.fcq /\ v.pods = s.pods /\ Paced(v)
      /\ \A E : Count(v, E) = Count(s, E)
  BY <1>0, <1>1, <1>3, <1>4, CountersIs
<1>7. "arrive" \in UnderWay /\ OfPaced(r) = 1 /\ OfDispatch("arrive") = 0 /\ OfEpp("arrive", r) = 0
  BY DEF UnderWay, OfPaced, OfDispatch, OfEpp
<1>8. Balanced(v, 0 + OfPaced(r), 0 + OfDispatch("arrive"), 0 + OfEpp("arrive", r))
  <2>1. s.inflight = Count(s, AllPaced) + Len(s.fcq) + 0
    BY <1>0 DEF Balanced
  <2>2. v.inflight = Count(v, AllPaced) + Len(v.fcq) + (0 + 1)
    BY <2>1, <1>1, <1>5, <1>6
  <2>3. v.handoff = Count(v, Dispatches) + (0 + 0) /\ v.epp = Count(v, EppReplies) + (0 + 0)
    BY <1>0, <1>3, <1>6 DEF Balanced
  <2> QED BY <2>2, <2>3, <1>7 DEF Balanced
<1>9. Balanced(t, 0, 0, 0) /\ Paced(t)
  BY <1>6, <1>7, <1>8, BalPut, PacedPut
<1>10. Typed(t) /\ Same(v, t, {"ev"})
  BY <1>6, <1>7, OtherEvents, PutIs
<1>11. NoRoom(t)
  <2>1. t.fcq = s.fcq /\ t.epp = s.epp /\ t.handoff = s.handoff /\ t.pods = s.pods
    BY <1>3, <1>6, <1>10 DEF Same, Attributes
  <2> QED BY <2>1, <1>0 DEF NoRoom, PoolRoom
<1> QED BY <1>2, <1>9, <1>10, <1>11 DEF FlowOk

\* A request that queues is put behind those of its tier.
LEMMA EnqueueIs ==
    ASSUME NEW q \in Seq(Requests), NEW r \in Requests
    PROVE LET t == Enqueue(q, r) IN
          /\ t \in Seq(Requests) /\ Len(t) = Len(q) + 1
          /\ \A j \in DOMAIN t : t[j] = r \/ \E l \in DOMAIN q : t[j] = q[l]
          /\ \E j \in DOMAIN t : t[j] = r
          /\ \A l \in DOMAIN q : \E j \in DOMAIN t : t[j] = q[l]
<1> DEFINE A == {k \in DOMAIN q : q[k].band <= r.band}
           c == Cardinality(A)
           t == Enqueue(q, r)
<1>0. Len(q) \in Nat /\ DOMAIN q = 1..Len(q)
  OBVIOUS
<1>1. c \in 0..Len(q)
  <2>1. IsFiniteSet(1..Len(q)) /\ Cardinality(1..Len(q)) = Len(q)
    BY <1>0, FS_Interval
  <2>2. A \subseteq 1..Len(q)
    BY <1>0
  <2>3. IsFiniteSet(A) /\ c <= Len(q)
    BY <2>1, <2>2, FS_Subset
  <2>4. c \in Nat
    BY <2>3, FS_CardinalityType
  <2> QED BY <2>3, <2>4, <1>0
<1>2. t = [k \in 1..Len(q) + 1 |-> IF k <= c THEN q[k] ELSE IF k = c + 1 THEN r ELSE q[k - 1]]
  BY DEF Enqueue
<1> HIDE DEF c, t
<1>3. \A k \in 1..Len(q) + 1 : t[k] = r \/ \E l \in 1..Len(q) : t[k] = q[l]
  <2> TAKE k \in 1..Len(q) + 1
  <2>1. CASE k <= c
    BY <2>1, <1>0, <1>1, <1>2
  <2>2. CASE k = c + 1
    BY <2>2, <1>0, <1>1, <1>2
  <2>3. CASE k > c + 1
    <3>1. k - 1 \in 1..Len(q) /\ t[k] = q[k - 1]
      BY <2>3, <1>0, <1>1, <1>2
    <3> QED BY <3>1
  <2> QED BY <2>1, <2>2, <2>3, <1>0, <1>1
<1>4. \A k \in 1..Len(q) + 1 : t[k] \in Requests
  BY <1>0, <1>3
<1>5. t \in Seq(Requests) /\ Len(t) = Len(q) + 1 /\ DOMAIN t = 1..Len(q) + 1
  BY <1>0, <1>2, <1>4
<1>6. \E j \in DOMAIN t : t[j] = r
  <2>1. c + 1 \in 1..Len(q) + 1 /\ t[c + 1] = r
    BY <1>0, <1>1, <1>2
  <2> QED BY <2>1, <1>5
<1>7. ASSUME NEW l \in DOMAIN q PROVE \E j \in DOMAIN t : t[j] = q[l]
  <2>1. CASE l <= c
    <3>1. l \in 1..Len(q) + 1 /\ t[l] = q[l]
      BY <2>1, <1>0, <1>1, <1>2
    <3> QED BY <3>1, <1>5
  <2>2. CASE l > c
    <3>1. l + 1 \in 1..Len(q) + 1 /\ (l + 1) - 1 = l /\ ~(l + 1 <= c) /\ l + 1 # c + 1
      BY <2>2, <1>0, <1>1
    <3>2. t[l + 1] = q[l]
      BY <3>1, <1>2
    <3> QED BY <3>1, <3>2, <1>5
  <2> QED BY <2>1, <2>2, <1>0, <1>1
<1> QED BY <1>0, <1>3, <1>5, <1>6, <1>7 DEF t
\* A request that is not a first one is no longer in flight.
LEMMA UncountFlow ==
    ASSUME NEW s, Typed(s), NEW r \in Requests, Balanced(s, OfPaced(r), 0, 0), Paced(s)
    PROVE LET u == Uncount(s, r) IN
          Typed(u) /\ Same(s, u, {"inflight"}) /\ Balanced(u, 0, 0, 0) /\ Paced(u)
<1> DEFINE u == Uncount(s, r)
<1>0. DOMAIN s = Attributes /\ s.inflight \in Int /\ s.handoff \in Int /\ s.epp \in Int
  BY DEF Typed
<1>9. \A E : Count(s, E) \in Nat
  BY LotFinite, CountIsLot DEF Typed
<1>8. s.fcq \in Seq(Requests)
  BY DEF Typed
<1>10. Len(s.fcq) \in Nat
  BY <1>8
<1>1. Same(s, u, {"inflight"}) /\ u.inflight = s.inflight - OfPaced(r)
  BY <1>0 DEF Uncount, OfPaced, Same, Attributes
<1> HIDE DEF u
<1>3. u.handoff = s.handoff /\ u.epp = s.epp /\ u.inflight \in Int
  BY <1>1, <1>0 DEF Same, Attributes, OfPaced
<1>4. Same(s, u, {"inflight", "handoff", "epp"})
  BY <1>1 DEF Same
<1>5. Typed(u) /\ u.fcq = s.fcq /\ Paced(u) /\ \A E : Count(u, E) = Count(s, E)
  BY <1>3, <1>4, <1>0, CountersIs
<1>6. OfPaced(r) \in Nat
  BY DEF OfPaced
<1>7. s.inflight = Count(s, AllPaced) + Len(s.fcq) + OfPaced(r)
  BY DEF Balanced
<1>11. u.inflight = Count(u, AllPaced) + Len(u.fcq) + 0
  BY <1>7, <1>1, <1>5, <1>6, <1>9, <1>10
<1>12. Balanced(u, 0, 0, 0)
  BY <1>11, <1>3, <1>5 DEF Balanced
<1> QED BY <1>1, <1>5, <1>12 DEF u

\* What an event of the heap looks like.
LEMMA EventForm ==
    ASSUME NEW e \in Events
    PROVE /\ e[1] \in UnderWay => e[2] \in Requests /\ e = <<e[1], e[2]>>
          /\ e[1] \in AgentKinds => e[2] \in Agents /\ e = <<e[1], e[2]>>
          /\ e[1] \in {"preflight", "begin"} => e[2] \in Asked /\ e = <<e[1], e[2]>>
          /\ e[1] = "drain" => e = <<"drain", 0>>
          /\ e[1] = "recon" => e = <<"recon", 0>>
BY DEF Events, UnderWay, AgentKinds, Steps

LEMMA FireIs ==
    ASSUME NEW e
    PROVE Fire(e) = Took(self, e)
BY DEF Fire, Took

\* An event of an agent or of an operation fires: the requests stay where they are.
LEMMA FireNoFlow ==
    ASSUME FlowOk(self), NEW e \in Pending, e[1] \notin UnderWay
    PROVE NoFlow(self, Fire(e)) /\ e \in Events
<1>1. Typed(self) /\ e \in DOMAIN self.ev
  BY DEF FlowOk, Pending, BagToSet
<1>2. e \in Events
  BY <1>1 DEF Typed, Heap
<1>3. ~Requesting(e)
  BY DEF Requesting
<1> QED BY <1>1, <1>2, <1>3, TookIs, FireIs

LEMMA ArriveFlow ==
    ASSUME FlowOk(self), Arrive
    PROVE FlowOk(self')
<1>1. PICK e \in Pending : e[1] = "arrive"
        /\ LET s == Fire(e) IN
           Runs(IF ~e[2].epp \/ s.pods = 0 \/ (PoolRoom(s) > 0 /\ s.fcq = <<>>)
                THEN Dispatched(s, e[2]) ELSE [s EXCEPT !.fcq = Enqueue(@, e[2])])
  BY DEF Arrive
<1> DEFINE r == e[2]
           s == Took(self, e)
           q == Enqueue(s.fcq, r)
           v == [s EXCEPT !.fcq = Enqueue(@, r)]
<1>0. Typed(self) /\ Balanced(self, 0, 0, 0) /\ Paced(self) /\ NoRoom(self) /\ e \in DOMAIN self.ev
  BY DEF FlowOk, Pending, BagToSet
<1>2. r \in Requests /\ e = <<"arrive", r>> /\ "arrive" \in UnderWay
  <2>1. e \in Events
    BY <1>0 DEF Typed, Heap
  <2>2. "arrive" \in UnderWay
    BY DEF UnderWay
  <2> QED BY <2>1, <2>2, <1>1, EventForm
<1>3. self' = IF ~r.epp \/ s.pods = 0 \/ (PoolRoom(s) > 0 /\ s.fcq = <<>>) THEN Dispatched(s, r) ELSE v
  BY <1>1, FireIs DEF Runs
<1>4. Typed(s) /\ Same(self, s, {"ev"})
  BY <1>0, TookIs
<1>5. OfDispatch("arrive") = 0 /\ OfEpp("arrive", r) = 0
  BY DEF OfDispatch, OfEpp
<1>6. Balanced(s, OfPaced(r), 0, 0)
  BY <1>0, <1>2, <1>5, BalTook
<1>7. Paced(s)
  BY <1>0, PacedTook
<1>8. s.fcq = self.fcq /\ s.pods = self.pods /\ s.epp = self.epp /\ s.handoff = self.handoff
  BY <1>4 DEF Same, Attributes
<1>9. ~r.first
  BY <1>0, <1>2 DEF Paced
<1>10. NoRoom(s)
  BY <1>0, <1>8 DEF NoRoom, PoolRoom
<1> HIDE DEF s, r
<1>11. CASE ~r.epp \/ s.pods = 0 \/ (PoolRoom(s) > 0 /\ s.fcq = <<>>)
  <2> DEFINE t == Dispatched(s, r)
  <2>1. self' = t
    BY <1>3, <1>11
  <2>2. /\ Typed(t) /\ Balanced(t, 0, 0, 0) /\ Paced(t) /\ t.fcq = s.fcq
        /\ s.pods = 0 => PoolRoom(t) = PoolRoom(s)
        /\ s.pods # 0 => PoolRoom(t) = PoolRoom(s) - (IF r.epp THEN 1 ELSE 0)
    BY <1>2, <1>4, <1>6, <1>7, DispatchedFlow
  <2> HIDE DEF t
  <2>3. PoolRoom(s) \in Int
    BY <1>4, RoomType
  <2>4. NoRoom(t)
    BY <2>2, <2>3, <1>10 DEF NoRoom
  <2> QED BY <2>1, <2>2, <2>4 DEF FlowOk
<1>12. CASE ~(~r.epp \/ s.pods = 0 \/ (PoolRoom(s) > 0 /\ s.fcq = <<>>))
  <2>1. self' = v
    BY <1>3, <1>12
  <2>2. DOMAIN s = Attributes /\ s.fcq \in Seq(Requests)
    BY <1>4 DEF Typed
  <2>3. Same(s, v, {"fcq"}) /\ v.fcq = q
    BY <2>2 DEF Same, Attributes
  <2>4. /\ q \in Seq(Requests) /\ Len(q) = Len(s.fcq) + 1
        /\ \A j \in DOMAIN q : q[j] = r \/ \E l \in DOMAIN s.fcq : q[j] = s.fcq[l]
    BY <1>2, <2>2, EnqueueIs
  <2> HIDE DEF q, v
  <2>5. Typed(v)
    BY <1>4, <2>3, <2>4, TypedBut
  <2>6. v.ev = s.ev /\ v.inflight = s.inflight /\ v.epp = s.epp /\ v.handoff = s.handoff /\ v.pods = s.pods
    BY <2>3 DEF Same, Attributes
  <2>7. \A E : Count(v, E) = Count(s, E) /\ Count(s, E) \in Nat
    <3>1. Heap(s.ev)
      BY <1>4 DEF Typed
    <3>2. \A E : Count(s, E) \in Nat
      BY <3>1, LotFinite, CountIsLot
    <3> QED BY <3>2, <2>6, CountIsLot
  <2>8. Balanced(v, 0, 0, 0)
    <3>1. s.inflight = Count(s, AllPaced) + Len(s.fcq) + 1
      BY <1>6, <1>9 DEF Balanced, OfPaced
    <3>2. Len(s.fcq) \in Nat
      BY <2>2
    <3>3. v.inflight = Count(v, AllPaced) + Len(v.fcq) + 0
      BY <3>1, <3>2, <2>3, <2>4, <2>6, <2>7
    <3> QED BY <3>3, <1>6, <2>6, <2>7 DEF Balanced
  <2>9. Paced(v)
    BY <1>7, <1>9, <1>12, <2>3, <2>4, <2>6 DEF Paced
  <2>10. NoRoom(v)
    <3>1. PoolRoom(v) = PoolRoom(s) /\ PoolRoom(s) \in Int
      BY <2>6, <1>4, RoomType DEF PoolRoom
    <3>2. PoolRoom(s) <= 0
      BY <3>1, <1>10, <1>12 DEF NoRoom
    <3> QED BY <3>1, <3>2 DEF NoRoom
  <2> QED BY <2>1, <2>5, <2>8, <2>9, <2>10 DEF FlowOk
<1> QED BY <1>11, <1>12

LEMMA DispatchFlow ==
    ASSUME FlowOk(self), Dispatch
    PROVE FlowOk(self')
<1>1. PICK e \in Pending : e[1] = "dispatch"
        /\ Runs(Dispatched([Fire(e) EXCEPT !.handoff = @ - 1], e[2]))
  BY DEF Dispatch
<1> DEFINE r == e[2]
           s == Took(self, e)
           v == [s EXCEPT !.handoff = @ - 1]
           t == Dispatched(v, r)
<1>0. Typed(self) /\ Balanced(self, 0, 0, 0) /\ Paced(self) /\ NoRoom(self) /\ e \in DOMAIN self.ev
  BY DEF FlowOk, Pending, BagToSet
<1>2. r \in Requests /\ e = <<"dispatch", r>> /\ "dispatch" \in UnderWay
  <2>1. e \in Events
    BY <1>0 DEF Typed, Heap
  <2>2. "dispatch" \in UnderWay
    BY DEF UnderWay
  <2> QED BY <2>1, <2>2, <1>1, EventForm
<1>3. self' = t
  BY <1>1, FireIs DEF Runs
<1>4. Typed(s) /\ Same(self, s, {"ev"})
  BY <1>0, TookIs
<1>5. OfDispatch("dispatch") = 1 /\ OfEpp("dispatch", r) = 0
  BY DEF OfDispatch, OfEpp
<1>6. Balanced(s, OfPaced(r), 1, 0)
  BY <1>0, <1>2, <1>5, BalTook
<1>7. Paced(s)
  BY <1>0, PacedTook
<1>8. r.epp
  BY <1>0, <1>2 DEF Paced
<1> HIDE DEF s, r, t
<1>9. Same(s, v, {"handoff"}) /\ v.handoff = s.handoff - 1
  BY <1>4 DEF Typed, Same, Attributes
<1> HIDE DEF v
<1>10. /\ Same(s, v, {"inflight", "handoff", "epp"}) /\ v.epp = s.epp /\ v.inflight = s.inflight
       /\ v.fcq = self.fcq /\ v.pods = self.pods /\ v.epp = self.epp /\ v.handoff = self.handoff - 1
  BY <1>4, <1>9 DEF Same, Attributes
<1>11. s.inflight \in Int /\ s.handoff \in Int /\ s.epp \in Int /\ Heap(s.ev)
       /\ self.handoff \in Int /\ self.epp \in Int /\ self.pods \in 0..2
  BY <1>0, <1>4 DEF Typed
<1>12. Typed(v) /\ Paced(v) /\ v.fcq = s.fcq /\ \A E : Count(v, E) = Count(s, E)
  BY <1>4, <1>7, <1>9, <1>10, <1>11, CountersIs
<1>13. Balanced(v, OfPaced(r), 0, 0)
  <2>1. s.handoff = Count(s, Dispatches) + 1 /\ Count(s, Dispatches) \in Nat
    BY <1>6, <1>11, LotFinite, CountIsLot DEF Balanced
  <2>2. v.handoff = Count(v, Dispatches) + 0
    BY <2>1, <1>9, <1>12
  <2> QED BY <2>2, <1>6, <1>10, <1>12 DEF Balanced
<1>14. /\ Typed(t) /\ Balanced(t, 0, 0, 0) /\ Paced(t) /\ t.fcq = v.fcq
       /\ v.pods = 0 => PoolRoom(t) = PoolRoom(v)
       /\ v.pods # 0 => PoolRoom(t) = PoolRoom(v) - 1
  BY <1>2, <1>8, <1>12, <1>13, DispatchedFlow DEF t
<1>15. NoRoom(t)
  <2> DEFINE c == POOL_CAP * self.pods
  <2>1. PoolRoom(self) = c - self.epp - self.handoff /\ PoolRoom(v) = c - self.epp - (self.handoff - 1)
    BY <1>10 DEF PoolRoom
  <2>2. c \in Int
    BY <1>11, MockAssumption
  <2> HIDE DEF c
  <2>3. CASE v.pods # 0
    <3>1. PoolRoom(t) = PoolRoom(self)
      BY <2>1, <2>2, <2>3, <1>11, <1>14
    <3> QED BY <3>1, <1>0, <1>10, <1>14 DEF NoRoom
  <2>4. CASE v.pods = 0
    <3>1. PoolRoom(v) = 0 - v.epp - v.handoff
      BY <2>4, <1>12, RoomType
    <3>2. v.epp = Count(v, EppReplies) + 0 /\ v.handoff = Count(v, Dispatches) + 0
      BY <1>13 DEF Balanced
    <3>3. Count(v, EppReplies) \in Nat /\ Count(v, Dispatches) \in Nat
      BY <1>11, <1>12, LotFinite, CountIsLot
    <3>4. PoolRoom(t) <= 0
      BY <3>1, <3>2, <3>3, <2>4, <1>14
    <3> QED BY <3>4 DEF NoRoom
  <2> QED BY <2>3, <2>4
<1> QED BY <1>3, <1>14, <1>15 DEF FlowOk

LEMMA ReplyFlow ==
    ASSUME FlowOk(self), Reply
    PROVE FlowOk(self')
<1>1. PICK e \in Pending : e[1] = "reply"
        /\ LET s == [Fire(e) EXCEPT !.epp = IF e[2].epp THEN @ - 1 ELSE @]
           IN  Runs(FcPump(ReqFinished(Uncount(s, e[2]), e[2])))
  BY DEF Reply
<1> DEFINE r == e[2]
           s == Took(self, e)
           v == [s EXCEPT !.epp = IF r.epp THEN @ - 1 ELSE @]
           u == Uncount(v, r)
           t == ReqFinished(u, r)
<1>0. Typed(self) /\ Balanced(self, 0, 0, 0) /\ Paced(self) /\ NoRoom(self) /\ e \in DOMAIN self.ev
  BY DEF FlowOk, Pending, BagToSet
<1>2. r \in Requests /\ e = <<"reply", r>> /\ "reply" \in UnderWay
  <2>1. e \in Events
    BY <1>0 DEF Typed, Heap
  <2>2. "reply" \in UnderWay
    BY DEF UnderWay
  <2> QED BY <2>1, <2>2, <1>1, EventForm
<1>3. self' = FcPump(t)
  BY <1>1, FireIs DEF Runs
<1>4. Typed(s) /\ Same(self, s, {"ev"})
  BY <1>0, TookIs
<1>5. OfDispatch("reply") = 0 /\ OfEpp("reply", r) = IF r.epp THEN 1 ELSE 0
  BY DEF OfDispatch, OfEpp
<1>6. Balanced(s, OfPaced(r), 0, OfEpp("reply", r))
  BY <1>0, <1>2, <1>5, BalTook
<1>7. Paced(s)
  BY <1>0, PacedTook
<1> HIDE DEF s, r, t, u
<1>8. s.inflight \in Int /\ s.handoff \in Int /\ s.epp \in Int /\ Heap(s.ev) /\ DOMAIN s = Attributes
  BY <1>4 DEF Typed
<1>9. Same(s, v, {"epp"}) /\ v.epp = s.epp - OfEpp("reply", r)
  <2>1. Same(s, v, {"epp"}) /\ v.epp = IF r.epp THEN s.epp - 1 ELSE s.epp
    BY <1>8 DEF Same, Attributes
  <2> QED BY <2>1, <1>5, <1>8
<1> HIDE DEF v
<1>10. Same(s, v, {"inflight", "handoff", "epp"}) /\ v.handoff = s.handoff /\ v.inflight = s.inflight
  BY <1>9 DEF Same, Attributes
<1>11. OfEpp("reply", r) \in Nat
  BY DEF OfEpp
<1>12. Typed(v) /\ Paced(v) /\ v.fcq = s.fcq /\ \A E : Count(v, E) = Count(s, E)
  BY <1>4, <1>7, <1>8, <1>9, <1>10, <1>11, CountersIs
<1>13. Balanced(v, OfPaced(r), 0, 0)
  <2>1. s.epp = Count(s, EppReplies) + OfEpp("reply", r) /\ Count(s, EppReplies) \in Nat
    BY <1>6, <1>8, LotFinite, CountIsLot DEF Balanced
  <2>2. v.epp = Count(v, EppReplies) + 0
    BY <2>1, <1>9, <1>11, <1>12
  <2> QED BY <2>2, <1>6, <1>10, <1>12 DEF Balanced
<1>14. Typed(u) /\ Balanced(u, 0, 0, 0) /\ Paced(u)
  BY <1>2, <1>12, <1>13, UncountFlow DEF u
<1>15. NoFlow(u, t)
  BY <1>2, <1>14, ReqFinishedNoFlow DEF t
<1>16. Typed(t) /\ Balanced(t, 0, 0, 0) /\ Paced(t)
  BY <1>14, <1>15, BalNoFlow DEF NoFlow
<1> QED BY <1>3, <1>16, PumpFlow DEF FlowOk

-----------------------------------------------------------------------------
(* The operations: what is due on the heap, by kind. *)
Due(s, k) == {i \in Agents : <<k, i>> \in DOMAIN s.ev}
StepsDue(s) == {e \in Steps : e \in DOMAIN s.ev}
DrainDue(s) == <<"drain", 0>> \in StepsDue(s)
Sweeping(s) == s.phase = "suspending" /\ ~DrainDue(s)
DutyDue(s) == Due(s, "duty_wake") \cup Due(s, "duty_send") \cup Due(s, "duty_park") \cup Due(s, "duty_susp_done")
\* The first requests on their way, the agents they are for, and the agents a duty worker waits for.
Firsts(s) == {r \in Requests : r.first /\ <<"reply", r>> \in DOMAIN s.ev}
FirstOf(s) == {r.a : r \in Firsts(s)}
Served(s) ==
    {i \in Agents : \/ \E k \in UnderWay, r \in Requests : r.a = i /\ r.after /\ <<k, r>> \in DOMAIN s.ev
                    \/ \E j \in DOMAIN s.fcq : s.fcq[j].a = i /\ s.fcq[j].after}
\* Events of which there is at most one copy.
Single(e) == \/ e \in Steps \/ e \in {"wake", "sdone"} \X Agents
             \/ e \in {"reply"} \X {r \in Requests : r.first}
Once(s) == \A e \in DOMAIN s.ev : Single(e) => Times(s.ev, e) <= 1

\* A wake-only burst sends nothing before its traffic starts.
Quiet(s) == s.wake_only /\ ~s.started

(* Ops: at most one step of an operation is due, and busy covers it; what is due of a
   burst or of a sweep, and the attributes of the burst, agree with the phase.        *)
Ops(s) ==
    /\ \A d, e \in StepsDue(s) : d = e
    /\ \A e \in StepsDue(s) :
          /\ s.busy
          /\ e[1] \in {"preflight", "begin"} => s.phase = "idle"
          /\ e[1] = "drain" => s.phase = "suspending"
          /\ e[1] = "recon" => s.phase = "reconciling"
    /\ s.phase \in {"suspending", "reconciling"} => s.busy
    /\ s.phase \in {"waking", "running"} => s.t0
    /\ s.phase = "running" => s.hold
    /\ s.phase = "waking" => /\ s.busy /\ ~s.first_done
                             /\ s.started <=> ~s.wake_only \/ s.duty
    /\ Sweeping(s) => ~s.duty
    /\ Due(s, "wake") \cup s.wake_wait # {} => s.phase = "waking"
    /\ Due(s, "sdone") \cup s.susp_wait # {} =>
          (s.phase = "waking" /\ ~s.hold /\ ~s.wake_only) \/ Sweeping(s)
    /\ Firsts(s) # {} => s.phase \in {"waking", "running"} /\ ~Quiet(s)
    /\ \A r \in Firsts(s) : r.after \/ ~s.wake_only

(* Wakes: the agents of a burst that still wakes are accounted for, w of them in the
   hands of the step under way, unless its traffic started already: then some may
   be lost, and none is counted twice.                                                *)
Known(s, w) == Cardinality(s.wake_wait) + s.wake_active + s.woke + s.wake_failed + w
Wakes(s, w) ==
    /\ s.wake_active = Cardinality(Due(s, "wake"))
    /\ s.phase = "waking" => s.n >= Known(s, w) /\ (s.duty \/ s.n = Known(s, w))

(* Lives: every agent of a burst that has not finished is in exactly one stage, those
   of h in the hands of the step under way, and pending counts at least these.        *)
Open(s) == s.wake_wait \cup Due(s, "wake") \cup FirstOf(s) \cup s.susp_wait \cup Due(s, "sdone")
Lives(s, h) ==
    /\ Once(s)
    /\ s.wake_wait \cap Due(s, "wake") = {}
    /\ FirstOf(s) \cap (s.wake_wait \cup Due(s, "wake")) = {}
    /\ (s.susp_wait \cup Due(s, "sdone")) \cap (s.wake_wait \cup Due(s, "wake") \cup FirstOf(s)) = {}
    /\ s.susp_wait \cap Due(s, "sdone") = {}
    /\ Open(s) \cap h = {}
    /\ \A q, r \in Firsts(s) : q.a = r.a => q = r
    /\ s.phase = "waking" \/ (s.phase = "running" /\ ~Quiet(s)) =>
          /\ s.pending >= Cardinality(Open(s) \cup h)
          /\ Open(s) \cup h # {} => s.busy /\ ~s.first_done

(* Susps: the suspensions under way are counted, and those a sweep has left. *)
Susps(s, h) ==
    /\ s.susp_active = Cardinality(Due(s, "sdone"))
    /\ s.susp_out \in Nat
    /\ Sweeping(s) => s.susp_out = Cardinality(s.susp_wait \cup Due(s, "sdone") \cup h)

Core(s, h, w) == Ops(s) /\ Wakes(s, w) /\ Lives(s, h) /\ Susps(s, h)

(* Calm: an agent in a passing state, other than those of h, has the event that ends it. *)
Calm(s, h) == \A i \in Agents \ h : LET x == s.agents[i] IN
    /\ s.phase = "waking" => /\ x = "waking" => i \in Due(s, "wake")
                             /\ i \in Due(s, "wake") => x = "waking" \/ s.duty
                             /\ x = "requesting" /\ ~s.hold => i \in FirstOf(s) \cup s.susp_wait
                             /\ x = "suspending" => i \in Due(s, "sdone")
    /\ s.phase = "running" => /\ x = "waking" => i \in Due(s, "duty_wake")
                              /\ x = "suspending" => i \in Due(s, "duty_susp_done")
    /\ Sweeping(s) => /\ x \in {"waking", "requesting"} => i \in s.susp_wait
                      /\ x = "suspending" => i \in s.susp_wait \cup Due(s, "sdone")
    /\ s.phase = "idle" => x \notin {"waking", "requesting", "suspending"}

(* Own: the busy workers are counted; each has an agent that is up and, if not of o,
   something still to happen for it.                                                  *)
Own(s, o) ==
    /\ s.workers = Cardinality(s.owned) /\ s.workers <= DUTY_WORKERS
    /\ s.owned # {} => s.duty
    /\ s.phase = "running" \/ (s.phase = "waking" /\ s.hold) => \A i \in s.owned : s.agents[i] # "suspended"
    /\ s.phase = "running" => \A i \in s.owned : /\ i \in o \cup DutyDue(s) \cup Served(s)
                                                 /\ s.agents[i] = "failed" => i \in Due(s, "duty_send")
    /\ s.phase = "waking" => /\ s.owned \subseteq Due(s, "duty_send")
                             /\ Due(s, "duty_wake") \cup Due(s, "duty_susp_done") = {}
                             /\ s.duty \/ Due(s, "duty_send") = {}

\* The inductive invariant of the operations.
Live(s) == Core(s, {}, 0) /\ Calm(s, {}) /\ Own(s, {})

-----------------------------------------------------------------------------
(* How scheduling and firing an event changes what is due. *)
Adds(s, t, E) ==
    /\ DOMAIN t.ev = DOMAIN s.ev \cup E
    /\ \A d : Times(t.ev, d) = Times(s.ev, d) + (IF d \in E THEN 1 ELSE 0)
\* Other kinds than those of K are due as before; first replies too.
DueBut(s, t, K) == (\A x \in AgentKinds \ K : Due(t, x) = Due(s, x)) /\ Firsts(t) = Firsts(s)

LEMMA AddsOnce ==
    ASSUME NEW s, Heap(s.ev), NEW t, NEW E, Adds(s, t, E), Once(s),
           \A e \in E : Single(e) => e \notin DOMAIN s.ev
    PROVE Once(t)
<1> SUFFICES ASSUME NEW e \in DOMAIN t.ev, Single(e) PROVE Times(t.ev, e) <= 1
  BY DEF Once
<1>1. Times(t.ev, e) = Times(s.ev, e) + (IF e \in E THEN 1 ELSE 0)
  BY DEF Adds
<1>2. CASE e \in E
  BY <1>1, <1>2, TimesType
<1>3. CASE e \notin E
  <2>1. e \in DOMAIN s.ev
    BY <1>3 DEF Adds
  <2> QED BY <2>1, <1>1, <1>3, TimesType DEF Once
<1> QED BY <1>2, <1>3

LEMMA AddAgents ==
    ASSUME NEW s, Heap(s.ev), NEW t, NEW k \in AgentKinds, NEW I \in SUBSET Agents,
           Adds(s, t, {<<k, i>> : i \in I})
    PROVE /\ Due(t, k) = Due(s, k) \cup I
          /\ DueBut(s, t, {k}) /\ StepsDue(t) = StepsDue(s)
          /\ t.fcq = s.fcq => Served(t) = Served(s)
          /\ Once(s) /\ (k \in {"wake", "sdone"} => I \cap Due(s, k) = {}) => Once(t)
<1> DEFINE E == {<<k, i>> : i \in I}
<1>0. DOMAIN t.ev = DOMAIN s.ev \cup E
  BY DEF Adds
<1>1. \A x, i : <<x, i>> \in E <=> x = k /\ i \in I
  OBVIOUS
<1>2. \A e \in E : e[1] = k /\ e[2] \in I /\ e = <<k, e[2]>>
  OBVIOUS
<1> HIDE DEF E
<1>3. Due(t, k) = Due(s, k) \cup I
  BY <1>0, <1>1 DEF Due
<1>4. \A x \in AgentKinds \ {k} : Due(t, x) = Due(s, x)
  BY <1>0, <1>1 DEF Due
<1>5. \A e \in Steps : e \notin E
  BY <1>2 DEF Steps, AgentKinds
<1>6. StepsDue(t) = StepsDue(s)
  BY <1>0, <1>5 DEF StepsDue
<1>7. \A x \in UnderWay : \A r : <<x, r>> \notin E
  BY <1>1 DEF UnderWay, AgentKinds
<1>8. Firsts(t) = Firsts(s)
  <2>1. "reply" \in UnderWay
    BY DEF UnderWay
  <2> QED BY <2>1, <1>0, <1>7 DEF Firsts
<1>9. t.fcq = s.fcq => Served(t) = Served(s)
  BY <1>0, <1>7 DEF Served
<1>10. ASSUME Once(s), k \in {"wake", "sdone"} => I \cap Due(s, k) = {}
       PROVE Once(t)
  <2>1. ASSUME NEW e \in E, Single(e) PROVE e \notin DOMAIN s.ev
    <3>1. e = <<k, e[2]>> /\ e[2] \in I
      BY <1>2
    <3>2. k \in {"wake", "sdone"}
      BY <2>1, <3>1, <1>5 DEF Single, AgentKinds
    <3>3. e[2] \notin Due(s, k)
      BY <3>1, <3>2, <1>10
    <3> QED BY <3>1, <3>3 DEF Due
  <2> QED BY <2>1, <1>10, AddsOnce DEF E
<1> QED BY <1>3, <1>4, <1>6, <1>8, <1>9, <1>10 DEF DueBut

LEMMA AddAgent ==
    ASSUME NEW s, Heap(s.ev), NEW t, NEW k \in AgentKinds, NEW i \in Agents, Adds(s, t, {<<k, i>>})
    PROVE /\ Due(t, k) = Due(s, k) \cup {i}
          /\ DueBut(s, t, {k}) /\ StepsDue(t) = StepsDue(s)
          /\ t.fcq = s.fcq => Served(t) = Served(s)
          /\ Once(s) /\ (k \in {"wake", "sdone"} => i \notin Due(s, k)) => Once(t)
<1>1. PICK I : I = {i}
  OBVIOUS
<1>2. I \in SUBSET Agents /\ {<<k, j>> : j \in I} = {<<k, i>>}
  BY <1>1
<1>3. i \notin Due(s, k) => I \cap Due(s, k) = {}
  BY <1>1
<1>4. /\ Due(t, k) = Due(s, k) \cup I
      /\ DueBut(s, t, {k}) /\ StepsDue(t) = StepsDue(s)
      /\ t.fcq = s.fcq => Served(t) = Served(s)
      /\ Once(s) /\ (k \in {"wake", "sdone"} => I \cap Due(s, k) = {}) => Once(t)
  BY <1>2, AddAgents
<1> QED BY <1>1, <1>3, <1>4

LEMMA AddStep ==
    ASSUME NEW s, Heap(s.ev), NEW t, NEW e \in Steps, Adds(s, t, {e})
    PROVE /\ StepsDue(t) = StepsDue(s) \cup {e} /\ DueBut(s, t, {})
          /\ t.fcq = s.fcq => Served(t) = Served(s)
          /\ Once(s) /\ e \notin DOMAIN s.ev => Once(t)
<1>1. \A x \in AgentKinds : \A i : e # <<x, i>>
  BY DEF Steps, AgentKinds
<1>2. \A x \in UnderWay : \A r : e # <<x, r>>
  BY DEF Steps, UnderWay
<1>3. StepsDue(t) = StepsDue(s) \cup {e}
  BY DEF Adds, StepsDue
<1>4. \A x \in AgentKinds : Due(t, x) = Due(s, x)
  BY <1>1 DEF Adds, Due
<1>5. Firsts(t) = Firsts(s)
  <2>1. "reply" \in UnderWay
    BY DEF UnderWay
  <2> QED BY <2>1, <1>2 DEF Adds, Firsts
<1>6. t.fcq = s.fcq => Served(t) = Served(s)
  BY <1>2 DEF Adds, Served
<1>7. Once(s) /\ e \notin DOMAIN s.ev => Once(t)
  BY AddsOnce
<1> QED BY <1>3, <1>4, <1>5, <1>6, <1>7 DEF DueBut

LEMMA AddFirst ==
    ASSUME NEW s, Heap(s.ev), NEW t, NEW r \in Requests, r.first, Adds(s, t, {<<"reply", r>>})
    PROVE /\ Firsts(t) = Firsts(s) \cup {r} /\ StepsDue(t) = StepsDue(s)
          /\ \A x \in AgentKinds : Due(t, x) = Due(s, x)
          /\ t.fcq = s.fcq => Served(s) \subseteq Served(t)
          /\ Once(s) /\ r \notin Firsts(s) => Once(t)
<1>1. \A x \in AgentKinds : \A i : <<"reply", r>> # <<x, i>>
  BY DEF AgentKinds
<1>2. <<"reply", r>> \notin Steps
  BY DEF Steps
<1>3. StepsDue(t) = StepsDue(s)
  BY <1>2 DEF Adds, StepsDue
<1>4. \A x \in AgentKinds : Due(t, x) = Due(s, x)
  BY <1>1 DEF Adds, Due
<1>5. Firsts(t) = Firsts(s) \cup {r}
  BY DEF Adds, Firsts
<1>6. t.fcq = s.fcq => Served(s) \subseteq Served(t)
  BY DEF Adds, Served
<1>7. Once(s) /\ r \notin Firsts(s) => Once(t)
  <2>1. r \notin Firsts(s) => <<"reply", r>> \notin DOMAIN s.ev
    BY DEF Firsts
  <2> QED BY <2>1, AddsOnce
<1> QED BY <1>3, <1>4, <1>5, <1>6, <1>7

\* An event that has fired.
Loses(s, t, e) == \A d : Times(s.ev, d) = Times(t.ev, d) + (IF d = e THEN 1 ELSE 0)

LEMMA LosesDomain ==
    ASSUME NEW s, Heap(s.ev), NEW t, Heap(t.ev), NEW e, Loses(s, t, e)
    PROVE /\ \A d : d # e => (d \in DOMAIN t.ev <=> d \in DOMAIN s.ev)
          /\ e \in DOMAIN s.ev /\ (Once(s) /\ Single(e) => e \notin DOMAIN t.ev)
          /\ Once(s) => Once(t)
<1>1. \A d : /\ Times(s.ev, d) \in Nat /\ Times(t.ev, d) \in Nat
             /\ d \in DOMAIN s.ev <=> Times(s.ev, d) > 0
             /\ d \in DOMAIN t.ev <=> Times(t.ev, d) > 0
  BY TimesType
<1>2. \A d : d # e => (d \in DOMAIN t.ev <=> d \in DOMAIN s.ev)
  BY <1>1 DEF Loses
<1>3. e \in DOMAIN s.ev
  BY <1>1 DEF Loses
<1>4. Once(s) /\ Single(e) => e \notin DOMAIN t.ev
  BY <1>1, <1>3 DEF Loses, Once
<1>5. Once(s) => Once(t)
  BY <1>1, <1>2, <1>3 DEF Loses, Once
<1> QED BY <1>2, <1>3, <1>4, <1>5

LEMMA LoseAgent ==
    ASSUME NEW s, Heap(s.ev), NEW t, Heap(t.ev), NEW k \in AgentKinds, NEW i \in Agents,
           Loses(s, t, <<k, i>>), Once(s)
    PROVE /\ Due(s, k) \ {i} \subseteq Due(t, k) /\ Due(t, k) \subseteq Due(s, k)
          /\ i \in Due(s, k)
          /\ k \in {"wake", "sdone"} => Due(t, k) = Due(s, k) \ {i}
          /\ DueBut(s, t, {k}) /\ StepsDue(t) = StepsDue(s)
          /\ t.fcq = s.fcq => Served(t) = Served(s)
          /\ Once(t)
<1> DEFINE e == <<k, i>>
<1>1. /\ \A d : d # e => (d \in DOMAIN t.ev <=> d \in DOMAIN s.ev)
      /\ e \in DOMAIN s.ev /\ (Single(e) => e \notin DOMAIN t.ev) /\ Once(t)
  BY LosesDomain
<1>2. \A x, j : <<x, j>> = e <=> x = k /\ j = i
  OBVIOUS
<1>3. k \in {"wake", "sdone"} => Single(e)
  BY DEF Single
<1> HIDE DEF e
<1>4. /\ Due(s, k) \ {i} \subseteq Due(t, k) /\ Due(t, k) \subseteq Due(s, k) /\ i \in Due(s, k)
      /\ k \in {"wake", "sdone"} => Due(t, k) = Due(s, k) \ {i}
  <2>1. i \in Due(s, k)
    BY <1>1 DEF Due, e
  <2>2. \A j \in Agents \ {i} : <<k, j>> \in DOMAIN t.ev <=> <<k, j>> \in DOMAIN s.ev
    BY <1>1, <1>2
  <2>3. k \in {"wake", "sdone"} => <<k, i>> \notin DOMAIN t.ev
    BY <1>1, <1>3 DEF e
  <2> QED BY <2>1, <2>2, <2>3 DEF Due
<1>5. \A x \in AgentKinds \ {k} : Due(t, x) = Due(s, x)
  BY <1>1, <1>2 DEF Due
<1>6. \A d \in Steps : d # e
  BY DEF Steps, AgentKinds, e
<1>7. StepsDue(t) = StepsDue(s)
  BY <1>1, <1>6 DEF StepsDue
<1>8. \A x \in UnderWay : \A r : <<x, r>> # e
  BY <1>2 DEF UnderWay, AgentKinds
<1>9. Firsts(t) = Firsts(s)
  <2>1. "reply" \in UnderWay
    BY DEF UnderWay
  <2> QED BY <2>1, <1>1, <1>8 DEF Firsts
<1>10. t.fcq = s.fcq => Served(t) = Served(s)
  BY <1>1, <1>8 DEF Served
<1> QED BY <1>1, <1>4, <1>5, <1>7, <1>9, <1>10 DEF DueBut

LEMMA LoseStep ==
    ASSUME NEW s, Heap(s.ev), NEW t, Heap(t.ev), NEW e \in Steps, Loses(s, t, e), Once(s)
    PROVE /\ StepsDue(t) = StepsDue(s) \ {e} /\ e \in StepsDue(s) /\ DueBut(s, t, {})
          /\ t.fcq = s.fcq => Served(t) = Served(s)
          /\ Once(t)
<1>1. /\ \A d : d # e => (d \in DOMAIN t.ev <=> d \in DOMAIN s.ev)
      /\ e \in DOMAIN s.ev /\ (Single(e) => e \notin DOMAIN t.ev) /\ Once(t)
  BY LosesDomain
<1>2. Single(e)
  BY DEF Single
<1>3. \A x \in AgentKinds : \A i : e # <<x, i>>
  BY DEF Steps, AgentKinds
<1>4. \A x \in UnderWay : \A r : e # <<x, r>>
  BY DEF Steps, UnderWay
<1>5. StepsDue(t) = StepsDue(s) \ {e} /\ e \in StepsDue(s)
  BY <1>1, <1>2 DEF StepsDue
<1>6. \A x \in AgentKinds : Due(t, x) = Due(s, x)
  BY <1>1, <1>3 DEF Due
<1>7. Firsts(t) = Firsts(s)
  <2>1. "reply" \in UnderWay
    BY DEF UnderWay
  <2> QED BY <2>1, <1>1, <1>4 DEF Firsts
<1>8. t.fcq = s.fcq => Served(t) = Served(s)
  BY <1>1, <1>4 DEF Served
<1> QED BY <1>1, <1>5, <1>6, <1>7, <1>8 DEF DueBut

LEMMA LoseRequest ==
    ASSUME NEW s, Heap(s.ev), NEW t, Heap(t.ev), NEW k \in UnderWay, NEW r \in Requests,
           Loses(s, t, <<k, r>>), Once(s)
    PROVE /\ \A x \in AgentKinds : Due(t, x) = Due(s, x)
          /\ StepsDue(t) = StepsDue(s) /\ Once(t)
          /\ t.fcq = s.fcq => Served(s) \ {r.a} \subseteq Served(t)
          /\ t.fcq = s.fcq /\ ~r.after => Served(s) \subseteq Served(t)
          /\ Firsts(t) = IF r.first /\ k = "reply" THEN Firsts(s) \ {r} ELSE Firsts(s)
          /\ r.first /\ k = "reply" => r \in Firsts(s)
<1> DEFINE e == <<k, r>>
<1>1. /\ \A d : d # e => (d \in DOMAIN t.ev <=> d \in DOMAIN s.ev)
      /\ e \in DOMAIN s.ev /\ (Single(e) => e \notin DOMAIN t.ev) /\ Once(t)
  BY LosesDomain
<1>2. \A x, j : <<x, j>> = e <=> x = k /\ j = r
  OBVIOUS
<1>3. r.first /\ k = "reply" => Single(e)
  BY DEF Single
<1>4. \A d \in Steps : d # e
  BY DEF Steps, UnderWay
<1> HIDE DEF e
<1>5. \A x \in AgentKinds : \A i : <<x, i>> # e
  BY <1>2 DEF AgentKinds, UnderWay
<1>6. StepsDue(t) = StepsDue(s)
  BY <1>1, <1>4 DEF StepsDue
<1>7. \A x \in AgentKinds : Due(t, x) = Due(s, x)
  BY <1>1, <1>5 DEF Due
<1>8. t.fcq = s.fcq => Served(s) \ {r.a} \subseteq Served(t)
  <2> SUFFICES ASSUME t.fcq = s.fcq, NEW i \in Served(s), i # r.a PROVE i \in Served(t)
    OBVIOUS
  <2>1. CASE \E x \in UnderWay, q \in Requests : q.a = i /\ q.after /\ <<x, q>> \in DOMAIN s.ev
    <3>1. PICK x \in UnderWay, q \in Requests : q.a = i /\ q.after /\ <<x, q>> \in DOMAIN s.ev
      BY <2>1
    <3>2. <<x, q>> # e
      BY <3>1, <1>2
    <3>3. <<x, q>> \in DOMAIN t.ev
      BY <3>1, <3>2, <1>1
    <3> QED BY <3>1, <3>3 DEF Served
  <2>2. CASE \E j \in DOMAIN s.fcq : s.fcq[j].a = i /\ s.fcq[j].after
    BY <2>2 DEF Served
  <2> QED BY <2>1, <2>2 DEF Served
<1>9. t.fcq = s.fcq /\ ~r.after => Served(s) \subseteq Served(t)
  <2> SUFFICES ASSUME t.fcq = s.fcq, ~r.after, NEW i \in Served(s) PROVE i \in Served(t)
    OBVIOUS
  <2>1. CASE \E x \in UnderWay, q \in Requests : q.a = i /\ q.after /\ <<x, q>> \in DOMAIN s.ev
    <3>1. PICK x \in UnderWay, q \in Requests : q.a = i /\ q.after /\ <<x, q>> \in DOMAIN s.ev
      BY <2>1
    <3>2. <<x, q>> # e
      BY <3>1, <1>2
    <3>3. <<x, q>> \in DOMAIN t.ev
      BY <3>1, <3>2, <1>1
    <3> QED BY <3>1, <3>3 DEF Served
  <2>2. CASE \E j \in DOMAIN s.fcq : s.fcq[j].a = i /\ s.fcq[j].after
    BY <2>2 DEF Served
  <2> QED BY <2>1, <2>2 DEF Served
<1>10. Firsts(t) = IF r.first /\ k = "reply" THEN Firsts(s) \ {r} ELSE Firsts(s)
  <2>1. CASE r.first /\ k = "reply"
    <3>1. e \notin DOMAIN t.ev
      BY <2>1, <1>1, <1>3
    <3>2. \A q \in Requests : q # r => (<<"reply", q>> \in DOMAIN t.ev <=> <<"reply", q>> \in DOMAIN s.ev)
      BY <1>1, <1>2
    <3>3. <<"reply", r>> \notin DOMAIN t.ev
      BY <3>1, <2>1 DEF e
    <3> QED BY <2>1, <3>2, <3>3 DEF Firsts
  <2>2. CASE ~(r.first /\ k = "reply")
    <3>1. \A q \in Requests : q.first => <<"reply", q>> # e
      BY <2>2, <1>2
    <3>2. Firsts(t) = Firsts(s)
      BY <3>1, <1>1 DEF Firsts
    <3> QED BY <3>2, <2>2
  <2> QED BY <2>1, <2>2
<1>11. r.first /\ k = "reply" => r \in Firsts(s)
  BY <1>1 DEF Firsts, e
<1> QED BY <1>1, <1>6, <1>7, <1>8, <1>9, <1>10, <1>11

-----------------------------------------------------------------------------
(* What keeps the parts of the invariant. *)
CoreFields == {"phase", "busy", "t0", "n", "hold", "wake_only", "started", "duty", "woke", "wake_failed",
               "first_done", "pending", "wake_wait", "wake_active", "susp_active", "susp_wait", "susp_out"}
SameCoreFields(s, t) ==
    /\ t.phase = s.phase /\ t.busy = s.busy /\ t.t0 = s.t0 /\ t.n = s.n /\ t.hold = s.hold
    /\ t.wake_only = s.wake_only /\ t.started = s.started /\ t.duty = s.duty
    /\ t.woke = s.woke /\ t.wake_failed = s.wake_failed /\ t.first_done = s.first_done
    /\ t.pending = s.pending /\ t.wake_wait = s.wake_wait /\ t.wake_active = s.wake_active
    /\ t.susp_active = s.susp_active /\ t.susp_wait = s.susp_wait /\ t.susp_out = s.susp_out
CoreSame(s, t) ==
    /\ SameCoreFields(s, t)
    /\ Due(t, "wake") = Due(s, "wake") /\ Due(t, "sdone") = Due(s, "sdone")
    /\ Firsts(t) = Firsts(s) /\ StepsDue(t) = StepsDue(s) /\ (Once(s) => Once(t))

LEMMA CoreFieldsSame ==
    ASSUME NEW s, NEW t, NEW F, Same(s, t, F), F \cap CoreFields = {}
    PROVE SameCoreFields(s, t)
<1>1. \A f \in CoreFields : f \in Attributes \ F
  BY DEF CoreFields, Attributes
<1>2. \A f \in CoreFields : t[f] = s[f]
  BY <1>1 DEF Same
<1> QED BY <1>2 DEF SameCoreFields, CoreFields

LEMMA CoreKept ==
    ASSUME NEW s, NEW t, CoreSame(s, t), NEW h, NEW w, Core(s, h, w)
    PROVE Core(t, h, w)
<1>1. Ops(t)
  BY DEF Core, CoreSame, SameCoreFields, Ops, Sweeping, DrainDue, Quiet
<1>2. Wakes(t, w)
  BY DEF Core, CoreSame, SameCoreFields, Wakes, Known
<1>3. FirstOf(t) = FirstOf(s) /\ Open(t) = Open(s)
  BY DEF CoreSame, SameCoreFields, FirstOf, Open
<1>4. Lives(t, h)
  BY <1>3 DEF Core, CoreSame, SameCoreFields, Lives, Quiet
<1>5. Susps(t, h)
  BY DEF Core, CoreSame, SameCoreFields, Susps, Sweeping, DrainDue
<1> QED BY <1>1, <1>2, <1>4, <1>5 DEF Core

LEMMA CalmKept ==
    ASSUME NEW s, NEW t, NEW h, Calm(s, h),
           t.agents = s.agents, t.phase = s.phase, t.hold = s.hold, t.duty = s.duty, t.susp_wait = s.susp_wait,
           StepsDue(t) = StepsDue(s), Due(t, "wake") = Due(s, "wake"), FirstOf(s) \subseteq FirstOf(t),
           Due(s, "sdone") \subseteq Due(t, "sdone"), Due(s, "duty_wake") \subseteq Due(t, "duty_wake"),
           Due(s, "duty_susp_done") \subseteq Due(t, "duty_susp_done")
    PROVE Calm(t, h)
<1>1. Sweeping(t) <=> Sweeping(s)
  BY DEF Sweeping, DrainDue
<1>2. FirstOf(s) \cup s.susp_wait \subseteq FirstOf(t) \cup t.susp_wait
  OBVIOUS
<1> QED BY <1>1, <1>2 DEF Calm

LEMMA OwnKept ==
    ASSUME NEW s, NEW t, NEW o, Own(s, o),
           t.agents = s.agents, t.phase = s.phase, t.hold = s.hold, t.owned = s.owned, t.workers = s.workers,
           t.duty = s.duty, Served(s) \subseteq Served(t),
           \A k \in {"duty_wake", "duty_send", "duty_park", "duty_susp_done"} : Due(t, k) = Due(s, k)
    PROVE Own(t, o)
<1>1. DutyDue(t) = DutyDue(s)
  BY DEF DutyDue
<1> QED BY <1>1 DEF Own

\* A step that leaves all of this alone.
LiveSame(s, t) ==
    /\ CoreSame(s, t)
    /\ t.agents = s.agents /\ t.owned = s.owned /\ t.workers = s.workers
    /\ \A k \in AgentKinds : Due(t, k) = Due(s, k)
    /\ Served(s) \subseteq Served(t)

LEMMA LiveKept ==
    ASSUME NEW s, NEW t, LiveSame(s, t)
    PROVE /\ \A h, w : Core(s, h, w) => Core(t, h, w)
          /\ \A h : Calm(s, h) => Calm(t, h)
          /\ \A o : Own(s, o) => Own(t, o)
          /\ Live(s) => Live(t)
<1>0. {"wake", "sdone", "duty_wake", "duty_send", "duty_park", "duty_susp_done"} \subseteq AgentKinds
  BY DEF AgentKinds
<1>1. \A h, w : Core(s, h, w) => Core(t, h, w)
  BY CoreKept DEF LiveSame
<1>2. /\ t.phase = s.phase /\ t.hold = s.hold /\ t.susp_wait = s.susp_wait /\ t.duty = s.duty
      /\ StepsDue(t) = StepsDue(s) /\ FirstOf(t) = FirstOf(s)
      /\ Due(t, "wake") = Due(s, "wake") /\ Due(t, "sdone") = Due(s, "sdone")
      /\ Due(t, "duty_wake") = Due(s, "duty_wake") /\ Due(t, "duty_susp_done") = Due(s, "duty_susp_done")
      /\ t.agents = s.agents /\ t.owned = s.owned /\ t.workers = s.workers
  BY <1>0 DEF LiveSame, CoreSame, SameCoreFields, FirstOf
<1>3. ASSUME NEW h, Calm(s, h) PROVE Calm(t, h)
  BY <1>2, <1>3, CalmKept
<1>4. ASSUME NEW o, Own(s, o) PROVE Own(t, o)
  <2>1. \A k \in {"duty_wake", "duty_send", "duty_park", "duty_susp_done"} : Due(t, k) = Due(s, k)
    BY <1>0 DEF LiveSame
  <2>2. Served(s) \subseteq Served(t)
    BY DEF LiveSame
  <2> QED BY <2>1, <2>2, <1>2, <1>4, OwnKept
<1> QED BY <1>1, <1>3, <1>4 DEF Live

\* A change of attributes that no part reads.
LEMMA LiveFields ==
    ASSUME NEW s, NEW t, NEW F, Same(s, t, F),
           F \cap (CoreFields \cup {"agents", "owned", "workers", "ev", "fcq"}) = {}
    PROVE LiveSame(s, t)
<1>1. SameCoreFields(s, t)
  BY CoreFieldsSame
<1>2. t.agents = s.agents /\ t.owned = s.owned /\ t.workers = s.workers /\ t.ev = s.ev /\ t.fcq = s.fcq
  BY DEF Same, Attributes
<1> QED BY <1>1, <1>2 DEF LiveSame, CoreSame, Due, Firsts, StepsDue, Once, Served

-----------------------------------------------------------------------------
(* A burst or a sweep that is over leaves nothing due. *)
Nothing(s) ==
    /\ Due(s, "wake") = {} /\ s.wake_wait = {} /\ Due(s, "sdone") = {} /\ s.susp_wait = {}
    /\ Firsts(s) = {} /\ FirstOf(s) = {} /\ Open(s) = {}

LEMMA OpenParts ==
    ASSUME NEW s, Open(s) = {}
    PROVE Nothing(s)
<1>1. FirstOf(s) = {}
  BY DEF Open
<1>2. Firsts(s) = {}
  BY <1>1 DEF FirstOf
<1> QED BY <1>1, <1>2 DEF Nothing, Open

LEMMA NothingDue ==
    ASSUME NEW s, Ops(s), s.phase \notin {"waking", "running"}, ~Sweeping(s)
    PROVE Nothing(s)
<1>1. Due(s, "wake") = {} /\ s.wake_wait = {} /\ Due(s, "sdone") = {} /\ s.susp_wait = {} /\ Firsts(s) = {}
  BY DEF Ops
<1>2. FirstOf(s) = {}
  BY <1>1 DEF FirstOf
<1> QED BY <1>1, <1>2, OpenParts DEF Open

\* While nothing is due, the counts and the stages of the burst's agents are those of nothing.
LEMMA CoreNothing ==
    ASSUME NEW t, Ops(t), Once(t), Nothing(t), t.wake_active = 0, t.susp_active = 0, t.susp_out \in Nat,
           t.phase \notin {"waking", "running"}, ~Sweeping(t)
    PROVE Core(t, {}, 0)
<1>1. Cardinality({}) = 0
  BY FS_EmptySet
<1>2. Wakes(t, 0)
  BY <1>1 DEF Wakes, Nothing
<1>3. Lives(t, {})
  BY DEF Lives, Nothing
<1>4. Susps(t, {})
  BY <1>1 DEF Susps, Nothing
<1> QED BY <1>2, <1>3, <1>4 DEF Core

LEMMA CountsNothing ==
    ASSUME NEW s, NEW h, NEW w, Core(s, h, w)
    PROVE /\ Due(s, "wake") = {} => s.wake_active = 0
          /\ Due(s, "sdone") = {} => s.susp_active = 0
          /\ s.susp_out \in Nat /\ Once(s)
BY FS_EmptySet DEF Core, Wakes, Susps, Lives

LEMMA OpenFinite ==
    ASSUME NEW s, Typed(s)
    PROVE /\ Open(s) \subseteq Agents /\ IsFiniteSet(Open(s)) /\ Cardinality(Open(s)) \in Nat
          /\ FirstOf(s) \subseteq Agents
          /\ \A i \in Agents : i \notin Open(s) => Cardinality(Open(s) \cup {i}) = Cardinality(Open(s)) + 1
<1>1. FirstOf(s) \subseteq Agents
  BY DEF FirstOf, Firsts, Requests
<1>2. Open(s) \subseteq Agents
  BY <1>1 DEF Open, Due, Typed
<1>3. IsFiniteSet(Open(s))
  BY <1>2, AgentsFinite
<1>4. Cardinality(Open(s)) \in Nat
  BY <1>3, FS_CardinalityType
<1>5. \A i \in Agents : i \notin Open(s) => Cardinality(Open(s) \cup {i}) = Cardinality(Open(s)) + 1
  BY <1>3, FS_AddElement
<1> QED BY <1>1, <1>2, <1>3, <1>4, <1>5

\* No step of an operation is due while a burst wakes its agents or runs.
LEMMA NoStep ==
    ASSUME NEW s, Ops(s), s.phase \in {"waking", "running"} \/ ~s.busy
    PROVE StepsDue(s) = {}
<1> SUFFICES ASSUME NEW e \in StepsDue(s) PROVE FALSE
  OBVIOUS
<1>1. e[1] \in {"preflight", "begin", "drain", "recon"}
  BY DEF StepsDue, Steps
<1> QED BY <1>1 DEF Ops

\* The burst's agent in hand has finished.
LEMMA LifeDoneLive ==
    ASSUME NEW s, Typed(s), NEW i \in Agents, Core(s, {i}, 0), Calm(s, {}), Own(s, {}),
           s.phase \in {"waking", "running"}, ~Quiet(s)
    PROVE Live(LifeDone(s))
<1> DEFINE t == LifeDone(s)
<1>1. /\ NoFlow(s, t) /\ Same(s, t, {"pending", "first_done", "busy", "phase", "rate"})
      /\ s.pending > 1 => /\ t.pending = s.pending - 1 /\ t.first_done = s.first_done
                          /\ t.busy = s.busy /\ t.phase = s.phase
      /\ s.pending = 1 => t.pending = 0
      /\ s.pending = 1 /\ ~s.first_done =>
            /\ ~s.hold => t.phase = "idle"
            /\ s.hold => t.phase = IF s.phase = "waking" THEN "running" ELSE s.phase
            /\ ~t.busy /\ t.first_done
  BY LifeDoneIs
<1> HIDE DEF t
<1>2. /\ t.t0 = s.t0 /\ t.n = s.n /\ t.hold = s.hold
      /\ t.wake_only = s.wake_only /\ t.started = s.started /\ t.duty = s.duty
      /\ t.woke = s.woke /\ t.wake_failed = s.wake_failed
      /\ t.wake_wait = s.wake_wait /\ t.wake_active = s.wake_active
      /\ t.susp_active = s.susp_active /\ t.susp_wait = s.susp_wait /\ t.susp_out = s.susp_out
      /\ t.ev = s.ev /\ t.fcq = s.fcq /\ t.agents = s.agents /\ t.owned = s.owned /\ t.workers = s.workers
  BY <1>1 DEF Same, Attributes
<1>3. /\ \A k : Due(t, k) = Due(s, k)
      /\ Firsts(t) = Firsts(s) /\ StepsDue(t) = StepsDue(s) /\ (Once(s) => Once(t)) /\ Served(t) = Served(s)
  BY <1>2 DEF Due, Firsts, StepsDue, Once, Served
<1>4. FirstOf(t) = FirstOf(s) /\ Open(t) = Open(s) /\ DutyDue(t) = DutyDue(s)
  BY <1>2, <1>3 DEF FirstOf, Open, DutyDue
<1>5. Open(s) \cap {i} = {} /\ s.pending >= Cardinality(Open(s) \cup {i}) /\ s.busy /\ ~s.first_done
  BY DEF Core, Lives, Quiet
<1>6. /\ s.pending >= Cardinality(Open(s)) + 1 /\ s.pending \in Nat
      /\ Cardinality(Open(s)) \in Nat /\ IsFiniteSet(Open(s))
  BY <1>5, OpenFinite DEF Typed
<1>7. StepsDue(s) = {}
  BY NoStep DEF Core
<1>8. CASE s.pending > 1
  <2>1. /\ t.pending >= Cardinality(Open(s)) /\ t.first_done = s.first_done
        /\ t.busy = s.busy /\ t.phase = s.phase
    BY <1>1, <1>6, <1>8
  <2>2. Ops(t)
    BY <1>2, <1>3, <2>1 DEF Core, Ops, Sweeping, DrainDue, Quiet
  <2>3. Wakes(t, 0)
    BY <1>2, <1>3, <2>1 DEF Core, Wakes, Known
  <2>4. Open(t) \cup {} = Open(s)
    BY <1>4
  <2>5. Lives(t, {})
    BY <1>2, <1>3, <1>4, <1>5, <2>1, <2>4 DEF Core, Lives, Quiet
  <2>6. Susps(t, {})
    BY <1>2, <1>3, <2>1 DEF Core, Susps, Sweeping
  <2>7. Calm(t, {})
    BY <1>2, <1>3, <1>4, <2>1 DEF Calm, Sweeping, DrainDue
  <2>8. Own(t, {})
    BY <1>2, <1>3, <1>4, <2>1 DEF Own
  <2> QED BY <2>2, <2>3, <2>5, <2>6, <2>7, <2>8 DEF Live, Core, t
<1>9. CASE ~(s.pending > 1)
  <2>1. Cardinality(Open(s)) = 0 /\ s.pending = 1
    BY <1>6, <1>9
  <2>2. Open(s) = {}
    BY <2>1, <1>6, FS_EmptySet
  <2>3. Nothing(s) /\ Nothing(t)
    BY <2>2, <1>4, OpenParts
  <2>4. /\ t.pending = 0 /\ ~t.busy /\ t.first_done
        /\ t.phase = IF s.hold THEN "running" ELSE "idle"
    BY <2>1, <1>1, <1>5
  <2>5. Ops(t)
    BY <1>2, <1>3, <1>7, <2>3, <2>4 DEF Core, Ops, Sweeping, Nothing
  <2>6. Wakes(t, 0)
    BY <1>2, <1>3, <2>4 DEF Core, Wakes
  <2>7. Open(t) \cup {} = {} /\ Cardinality({}) = 0
    BY <2>3, FS_EmptySet DEF Nothing
  <2>8. Lives(t, {})
    BY <1>2, <1>3, <2>3, <2>4, <2>7 DEF Core, Lives, Nothing
  <2>9. Susps(t, {})
    BY <1>2, <1>3, <2>4 DEF Core, Susps, Sweeping
  <2>10. s.phase = "running" => s.hold
    BY DEF Core, Ops
  <2>11. Calm(t, {})
    BY <1>2, <1>3, <2>3, <2>4, <2>10 DEF Calm, Sweeping, Nothing
  <2>12. Due(s, "duty_send") \subseteq DutyDue(s)
    BY DEF DutyDue
  <2>13. Own(t, {})
    BY <1>2, <1>3, <1>4, <2>4, <2>10, <2>12 DEF Own
  <2> QED BY <2>5, <2>6, <2>8, <2>9, <2>11, <2>13 DEF Live, Core, t
<1> QED BY <1>8, <1>9

\* The agent of a one-shot burst that has its reply is suspended, now or when there is room.
LEMMA SuspRequestLive ==
    ASSUME NEW s, Typed(s), NEW i \in Agents, Core(s, {i}, 0), Calm(s, {i}), Own(s, {}),
           s.phase = "waking", ~s.hold, ~s.wake_only, s.agents[i] \notin {"waking", "suspending"}
    PROVE Live(SuspRequest(s, i))
<1> DEFINE t == SuspRequest(s, i)
           u == SuspStart(s, i)
<1>1. /\ Same(s, t, {"agents", "susp_active", "susp_wait", "ev"})
      /\ t = u \/ (Same(s, t, {"susp_wait"}) /\ t.susp_wait = s.susp_wait \cup {i})
  BY SuspRequestIs
<1>2. /\ Same(s, u, {"agents", "susp_active", "ev"})
      /\ u.agents = [s.agents EXCEPT ![i] = "suspending"] /\ u.susp_active = s.susp_active + 1
      /\ DOMAIN u.ev = DOMAIN s.ev \cup {<<"sdone", i>>}
      /\ \A d : Times(u.ev, d) = Times(s.ev, d) + (IF d = <<"sdone", i>> THEN 1 ELSE 0)
  BY SuspStartIs
<1> HIDE DEF t, u
<1>3. /\ t.phase = s.phase /\ t.busy = s.busy /\ t.t0 = s.t0 /\ t.n = s.n /\ t.hold = s.hold
      /\ t.wake_only = s.wake_only /\ t.started = s.started /\ t.duty = s.duty
      /\ t.woke = s.woke /\ t.wake_failed = s.wake_failed /\ t.first_done = s.first_done
      /\ t.pending = s.pending /\ t.wake_wait = s.wake_wait /\ t.wake_active = s.wake_active
      /\ t.susp_out = s.susp_out /\ t.owned = s.owned /\ t.workers = s.workers /\ t.fcq = s.fcq
  BY <1>1 DEF Same, Attributes
<1>4. /\ i \notin Open(s) /\ i \notin Due(s, "wake") /\ i \notin Due(s, "sdone")
      /\ i \notin s.wake_wait /\ i \notin s.susp_wait /\ i \notin FirstOf(s)
  BY DEF Core, Lives, Open
<1>5. Heap(s.ev) /\ s.agents \in [Agents -> States]
  BY DEF Typed
<1>6. Once(s)
  BY DEF Core, Lives
<1>7. ~Sweeping(s) /\ ~Sweeping(t)
  BY <1>3 DEF Sweeping
<1>8. /\ Due(t, "wake") = Due(s, "wake") /\ Firsts(t) = Firsts(s) /\ StepsDue(t) = StepsDue(s) /\ Once(t)
      /\ \A k \in {"duty_wake", "duty_send", "duty_susp_done"} : Due(t, k) = Due(s, k)
      /\ t.susp_wait \cup Due(t, "sdone") = s.susp_wait \cup Due(s, "sdone") \cup {i}
      /\ t.susp_wait \cap Due(t, "sdone") = {}
      /\ t.susp_active = Cardinality(Due(t, "sdone"))
      /\ \A j \in Agents : \/ t.agents[j] = s.agents[j] /\ (j = i => j \in t.susp_wait)
                           \/ j = i /\ t.agents[j] = "suspending" /\ j \in Due(t, "sdone")
      /\ Due(s, "sdone") \subseteq Due(t, "sdone") /\ s.susp_wait \subseteq t.susp_wait
  <2>0. s.susp_wait \cap Due(s, "sdone") = {} /\ s.susp_active = Cardinality(Due(s, "sdone"))
    BY DEF Core, Lives, Susps
  <2>1. CASE t = u
    <3>1. Adds(s, u, {<<"sdone", i>>})
      BY <1>2 DEF Adds
    <3>2. "sdone" \in AgentKinds
      BY DEF AgentKinds
    <3>3. /\ Due(u, "sdone") = Due(s, "sdone") \cup {i} /\ DueBut(s, u, {"sdone"})
          /\ StepsDue(u) = StepsDue(s) /\ Once(u)
      <4>1. PICK k \in AgentKinds : k = "sdone"
        BY <3>2
      <4>2. Adds(s, u, {<<k, i>>}) /\ i \notin Due(s, k)
        BY <4>1, <3>1, <1>4
      <4>3. /\ Due(u, k) = Due(s, k) \cup {i} /\ DueBut(s, u, {k})
            /\ StepsDue(u) = StepsDue(s) /\ Once(u)
        <5>0. \A j \in Agents : <<k, j>> \in DOMAIN u.ev <=> <<k, j>> \in DOMAIN s.ev \/ j = i
          BY <4>2 DEF Adds
        <5>1. Due(u, k) = Due(s, k) \cup {i}
          BY <5>0 DEF Due
        <5>2. DueBut(s, u, {k}) /\ StepsDue(u) = StepsDue(s)
          BY <4>2, <1>5, AddAgent
        <5>3. Once(u)
          BY <4>2, <1>5, <1>6, AddAgent
        <5> QED BY <5>1, <5>2, <5>3
      <4> QED BY <4>1, <4>3
    <3>4. u.susp_wait = s.susp_wait
      BY <1>2 DEF Same, Attributes
    <3>5. {"wake", "duty_wake", "duty_send", "duty_susp_done"} \subseteq AgentKinds \ {"sdone"}
      BY DEF AgentKinds
    <3>6. IsFiniteSet(Due(s, "sdone"))
      BY AgentsFinite DEF Due
    <3>7. Cardinality(Due(u, "sdone")) = Cardinality(Due(s, "sdone")) + 1
      BY <3>3, <3>6, <1>4, FS_AddElement
    <3>8. \A j \in Agents : u.agents[j] = IF j = i THEN "suspending" ELSE s.agents[j]
      BY <1>2, <1>5
    <3> QED BY <2>0, <2>1, <1>2, <1>4, <3>3, <3>4, <3>5, <3>7, <3>8 DEF DueBut
  <2>2. CASE Same(s, t, {"susp_wait"}) /\ t.susp_wait = s.susp_wait \cup {i}
    <3>1. t.ev = s.ev /\ t.agents = s.agents /\ t.susp_active = s.susp_active
      BY <2>2 DEF Same, Attributes
    <3>2. /\ \A k : Due(t, k) = Due(s, k)
          /\ Firsts(t) = Firsts(s) /\ StepsDue(t) = StepsDue(s) /\ Once(t)
      BY <3>1, <1>6 DEF Due, Firsts, StepsDue, Once
    <3> QED BY <2>0, <2>2, <3>1, <3>2, <1>4
  <2> QED BY <2>1, <2>2, <1>1
<1>9. FirstOf(t) = FirstOf(s) /\ Open(t) = Open(s) \cup {i}
  <2>1. FirstOf(t) = FirstOf(s)
    BY <1>8 DEF FirstOf
  <2> QED BY <2>1, <1>3, <1>8 DEF Open
<1>10. StepsDue(s) = {}
  BY NoStep DEF Core
<1>11. Ops(t)
  BY <1>3, <1>7, <1>8, <1>10 DEF Core, Ops, Quiet
<1>12. Wakes(t, 0)
  BY <1>3, <1>8 DEF Core, Wakes, Known
<1>13. Lives(t, {})
  <2>1. (Open(s) \cup {i}) \cup {} = Open(s) \cup {i}
    OBVIOUS
  <2>2. s.pending >= Cardinality(Open(s) \cup {i}) /\ s.busy /\ ~s.first_done
    BY DEF Core, Lives, Quiet
  <2>3. /\ s.wake_wait \cap Due(s, "wake") = {}
        /\ FirstOf(s) \cap (s.wake_wait \cup Due(s, "wake")) = {}
        /\ (s.susp_wait \cup Due(s, "sdone")) \cap (s.wake_wait \cup Due(s, "wake") \cup FirstOf(s)) = {}
        /\ \A q, r \in Firsts(s) : q.a = r.a => q = r
    BY DEF Core, Lives
  <2>4. (t.susp_wait \cup Due(t, "sdone")) \cap (t.wake_wait \cup Due(t, "wake") \cup FirstOf(t)) = {}
    BY <2>3, <1>3, <1>4, <1>8, <1>9
  <2> QED BY <2>1, <2>2, <2>3, <2>4, <1>3, <1>8, <1>9 DEF Lives, Quiet
<1>14. Susps(t, {})
  BY <1>3, <1>7, <1>8 DEF Core, Susps
<1>15. Calm(t, {})
  <2>1. FirstOf(s) \cup s.susp_wait \subseteq FirstOf(t) \cup t.susp_wait
    BY <1>8, <1>9
  <2> QED BY <2>1, <1>3, <1>4, <1>7, <1>8, <1>9 DEF Calm
<1>16. Own(t, {})
  BY <1>3, <1>7, <1>8 DEF Own
<1> QED BY <1>11, <1>12, <1>13, <1>14, <1>15, <1>16 DEF Live, Core, t

\* The wake phase ends when nobody waits or wakes; the burst goes on.
LEMMA CheckWakeDoneLive ==
    ASSUME NEW s, Typed(s), NEW h, Core(s, h, 0), Calm(s, h), Own(s, {}), s.phase = "waking"
    PROVE LET t == CheckWakeDone(s) IN
          /\ Core(t, h, 0) /\ Calm(t, h) /\ Own(t, {})
          /\ t.phase \in {"waking", "running"} /\ t.ev = s.ev /\ t.agents = s.agents
          /\ t.duty = s.duty /\ t.wake_only = s.wake_only /\ t.started = s.started
<1> DEFINE t == CheckWakeDone(s)
<1>1. /\ NoFlow(s, t) /\ Same(s, t, {"wake_done", "phase", "busy", "rate"})
      /\ ~s.hold => t.phase = s.phase /\ t.busy = s.busy
      /\ t.phase \in {s.phase, "running"}
      /\ t.busy = s.busy \/ (s.wake_only /\ ~s.started)
  BY CheckWakeDoneIs
<1>0. \/ t = s
      \/ ~(s.woke + s.wake_failed < s.n) /\ (~s.hold \/ t.phase = "running")
  <2>1. s.woke + s.wake_failed < s.n \/ s.wake_done => t = s
    BY DEF CheckWakeDone
  <2> QED BY <2>1, CheckWakeDoneIs
<1> HIDE DEF t
<1>2. /\ t.t0 = s.t0 /\ t.n = s.n /\ t.hold = s.hold
      /\ t.wake_only = s.wake_only /\ t.started = s.started /\ t.duty = s.duty
      /\ t.woke = s.woke /\ t.wake_failed = s.wake_failed /\ t.first_done = s.first_done
      /\ t.pending = s.pending /\ t.wake_wait = s.wake_wait /\ t.wake_active = s.wake_active
      /\ t.susp_active = s.susp_active /\ t.susp_wait = s.susp_wait /\ t.susp_out = s.susp_out
      /\ t.ev = s.ev /\ t.fcq = s.fcq /\ t.agents = s.agents /\ t.owned = s.owned /\ t.workers = s.workers
  BY <1>1 DEF Same, Attributes
<1>3. CASE t = s
  BY <1>3 DEF t
<1>4. CASE ~s.hold
  <2>1. LiveSame(s, t)
    <3>1. SameCoreFields(s, t)
      BY <1>1, <1>2, <1>4 DEF SameCoreFields
    <3> QED BY <3>1, <1>2 DEF LiveSame, CoreSame, Due, Firsts, StepsDue, Once, Served
  <2> QED BY <2>1, <1>1, <1>2, <1>4, LiveKept DEF t
<1>5. CASE t.phase = "running" /\ s.hold /\ ~(s.woke + s.wake_failed < s.n)
  <2>1. /\ \A k : Due(t, k) = Due(s, k)
        /\ Firsts(t) = Firsts(s) /\ StepsDue(t) = StepsDue(s) /\ (Once(s) => Once(t))
    BY <1>2 DEF Due, Firsts, StepsDue, Once
  <2>2. FirstOf(t) = FirstOf(s) /\ Open(t) = Open(s)
    BY <1>2, <2>1 DEF FirstOf, Open
  <2>3. Due(s, "wake") = {} /\ s.wake_wait = {}
    <3>1. s.wake_active = Cardinality(Due(s, "wake"))
          /\ s.n >= Cardinality(s.wake_wait) + s.wake_active + s.woke + s.wake_failed + 0
      BY DEF Core, Wakes, Known
    <3>2. IsFiniteSet(Due(s, "wake")) /\ IsFiniteSet(s.wake_wait)
      BY AgentsFinite DEF Due, Typed
    <3>3. Cardinality(Due(s, "wake")) \in Nat /\ Cardinality(s.wake_wait) \in Nat
      BY <3>2, FS_CardinalityType
    <3>4. s.woke \in Nat /\ s.wake_failed \in Nat /\ s.n \in Int
      BY DEF Typed
    <3>5. \A a, b, c, d, n \in Nat : n >= a + b + c + d + 0 /\ ~(c + d < n) => a = 0 /\ b = 0
      OBVIOUS
    <3>6. s.n \in Nat
      <4>1. s.n \in 0..TOTAL
        BY DEF Typed
      <4> QED BY <4>1
    <3>7. ~(s.woke + s.wake_failed < s.n)
      BY <1>5
    <3>8. s.n >= Cardinality(s.wake_wait) + Cardinality(Due(s, "wake")) + s.woke + s.wake_failed + 0
      BY <3>1
    <3>9. Cardinality(Due(s, "wake")) = 0 /\ Cardinality(s.wake_wait) = 0
      BY <3>3, <3>4, <3>5, <3>6, <3>7, <3>8
    <3> QED BY <3>2, <3>9, FS_EmptySet
  <2>4. Due(s, "sdone") \cup s.susp_wait = {} /\ StepsDue(s) = {} /\ s.t0
    BY <1>5, NoStep DEF Core, Ops, Sweeping
  <2>5. DutyDue(t) = DutyDue(s) /\ Due(s, "duty_send") \subseteq DutyDue(s)
    BY <2>1 DEF DutyDue
  <2>6. Ops(t)
    BY <1>2, <1>5, <2>1, <2>3, <2>4 DEF Core, Ops, Quiet, Sweeping
  <2>7. Wakes(t, 0)
    BY <1>2, <1>5, <2>1 DEF Core, Wakes
  <2>8. Lives(t, h)
    BY <1>1, <1>2, <1>5, <2>1, <2>2 DEF Core, Lives, Quiet
  <2>9. Susps(t, h)
    BY <1>2, <1>5, <2>1 DEF Core, Susps, Sweeping
  <2>10. Calm(t, h)
    BY <1>2, <1>5, <2>1, <2>3, <2>4 DEF Calm, Sweeping
  <2>11. Own(t, {})
    BY <1>2, <1>5, <2>1, <2>5 DEF Own
  <2> QED BY <1>2, <1>5, <2>6, <2>7, <2>8, <2>9, <2>10, <2>11 DEF Core, t
<1> QED BY <1>0, <1>3, <1>4, <1>5

\* The agent i, in hand, is in no state whose end would not come.
Settled(s, i) ==
    /\ s.phase = "waking" => s.agents[i] \notin {"waking", "suspending"}
    /\ s.phase = "running" => /\ s.agents[i] = "waking" => i \in Due(s, "duty_wake")
                              /\ s.agents[i] = "suspending" => i \in Due(s, "duty_susp_done")

\* A change of the agents alone: all that does not look at them is kept.
LEMMA AgentsOnly ==
    ASSUME NEW s, NEW t, Same(s, t, {"agents"})
    PROVE /\ \A h, w : Core(s, h, w) => Core(t, h, w)
          /\ t.phase = s.phase /\ t.duty = s.duty /\ t.owned = s.owned /\ t.workers = s.workers
          /\ t.rate = s.rate /\ t.ev = s.ev /\ t.fcq = s.fcq /\ t.susp_wait = s.susp_wait
          /\ t.hold = s.hold /\ t.wake_only = s.wake_only /\ t.t0 = s.t0 /\ t.started = s.started
          /\ t.susp_active = s.susp_active /\ t.susp_out = s.susp_out /\ t.all_susp = s.all_susp
          /\ \A k : Due(t, k) = Due(s, k)
          /\ Firsts(t) = Firsts(s) /\ StepsDue(t) = StepsDue(s) /\ Served(t) = Served(s)
          /\ FirstOf(t) = FirstOf(s) /\ DutyDue(t) = DutyDue(s) /\ (Sweeping(t) <=> Sweeping(s))
<1>1. /\ t.phase = s.phase /\ t.duty = s.duty /\ t.owned = s.owned /\ t.workers = s.workers
      /\ t.rate = s.rate /\ t.ev = s.ev /\ t.fcq = s.fcq /\ t.susp_wait = s.susp_wait
      /\ t.hold = s.hold /\ t.wake_only = s.wake_only /\ t.t0 = s.t0 /\ t.started = s.started
      /\ t.susp_active = s.susp_active /\ t.susp_out = s.susp_out /\ t.all_susp = s.all_susp
  BY DEF Same, Attributes
<1>2. /\ \A k : Due(t, k) = Due(s, k)
      /\ Firsts(t) = Firsts(s) /\ StepsDue(t) = StepsDue(s) /\ Served(t) = Served(s)
      /\ (Once(s) => Once(t))
  BY <1>1 DEF Due, Firsts, StepsDue, Served, Once
<1>3. FirstOf(t) = FirstOf(s) /\ DutyDue(t) = DutyDue(s) /\ (Sweeping(t) <=> Sweeping(s))
  BY <1>1, <1>2 DEF FirstOf, DutyDue, Sweeping, DrainDue
<1>4. {"agents"} \cap CoreFields = {}
  BY DEF CoreFields
<1>5. SameCoreFields(s, t)
  BY <1>4, CoreFieldsSame
<1>6. \A h, w : Core(s, h, w) => Core(t, h, w)
  BY <1>2, <1>5, CoreKept DEF CoreSame
<1> QED BY <1>1, <1>2, <1>3, <1>6

\* The agent in hand need not finish: pending only counts it too many.
LEMMA LetGo ==
    ASSUME NEW s, Typed(s), NEW i \in Agents, Core(s, {i}, 0), ~Sweeping(s)
    PROVE Core(s, {}, 0)
<1>1. /\ Cardinality(Open(s)) \in Nat /\ s.pending \in Nat
      /\ i \notin Open(s) => Cardinality(Open(s) \cup {i}) = Cardinality(Open(s)) + 1
  BY OpenFinite DEF Typed
<1>2. i \notin Open(s) /\ Open(s) \cup {} = Open(s) /\ Open(s) \cap {} = {}
  BY DEF Core, Lives
<1>3. Lives(s, {})
  BY <1>1, <1>2 DEF Core, Lives
<1>4. Susps(s, {})
  BY DEF Core, Susps
<1> QED BY <1>3, <1>4 DEF Core

\* The first request of an agent has ended: the agent has finished, or is suspended next.
LEMMA FirstFinishedLive ==
    ASSUME NEW s, Typed(s), NEW r \in Requests, r.first, ~r.after, Core(s, {r.a}, 0), Own(s, {}),
           Calm(s, {r.a}), Settled(s, r.a), s.phase \in {"waking", "running"}, ~s.wake_only
    PROVE Live(ReqFinished(s, r))
<1> DEFINE i == r.a
           u == IF s.agents[i] = "requesting" /\ ~s.duty THEN Set(s, i, "running") ELSE s
<1>1. i \in Agents /\ s.t0 /\ (s.phase = "running" => s.hold)
  BY DEF Requests, Core, Ops
<1>2. ReqFinished(s, r) = IF u.hold THEN LifeDone(u) ELSE SuspRequest(u, i)
  <2>1. u.t0
    <3>1. "running" \in States
      BY DEF States
    <3>2. Same(s, Set(s, i, "running"), {"agents"})
      BY <1>1, <3>1, SetIs
    <3>3. Set(s, i, "running").t0 = s.t0
      BY <3>2 DEF Same, Attributes
    <3> QED BY <3>3, <1>1
  <2> QED BY <2>1, <1>1 DEF ReqFinished
<1>3. /\ Typed(u) /\ Same(s, u, {"agents"}) /\ (u.agents[i] = "requesting" => s.duty)
      /\ u.agents[i] = s.agents[i] \/ u.agents[i] = "running"
      /\ \A j \in Agents \ {i} : u.agents[j] = s.agents[j]
      /\ \A j \in Agents : u.agents[j] \in {s.agents[j], "running"}
  <2>1. CASE s.agents[i] = "requesting" /\ ~s.duty
    <3>1. u = Set(s, i, "running") /\ "running" \in States
      BY <2>1 DEF States
    <3>2. NoFlow(s, u) /\ Same(s, u, {"agents"}) /\ u.agents = [s.agents EXCEPT ![i] = "running"]
      BY <1>1, <3>1, SetIs
    <3>3. s.agents \in [Agents -> States]
      BY DEF Typed
    <3> HIDE DEF u
    <3>4. u.agents[i] = "running"
      BY <3>2, <3>3, <1>1
    <3>5. \A j \in Agents \ {i} : u.agents[j] = s.agents[j]
      BY <3>2, <3>3, <1>1
    <3> QED BY <3>2, <3>4, <3>5 DEF NoFlow
  <2>2. CASE ~(s.agents[i] = "requesting" /\ ~s.duty)
    BY <2>2 DEF Same, Typed
  <2> QED BY <2>1, <2>2
<1> HIDE DEF u
<1>4. /\ Core(u, {i}, 0) /\ u.phase = s.phase /\ u.owned = s.owned /\ u.workers = s.workers
      /\ u.duty = s.duty /\ u.hold = s.hold /\ u.susp_wait = s.susp_wait /\ u.wake_only = s.wake_only
      /\ (\A k : Due(u, k) = Due(s, k)) /\ Served(u) = Served(s)
      /\ FirstOf(u) = FirstOf(s) /\ DutyDue(u) = DutyDue(s) /\ (Sweeping(u) <=> Sweeping(s))
  BY <1>3, AgentsOnly
<1>5. i \notin Due(s, "wake") /\ ~Sweeping(s)
  BY DEF Core, Lives, Open, Sweeping
<1>6. Calm(u, {i}) /\ (u.hold => Calm(u, {})) /\ Settled(u, i)
  <2> SUFFICES ASSUME NEW j \in Agents, j # i \/ u.hold
               PROVE LET x == u.agents[j] IN
                     /\ u.phase = "waking" => /\ x = "waking" => j \in Due(u, "wake")
                                              /\ j \in Due(u, "wake") => x = "waking" \/ u.duty
                                              /\ x = "requesting" /\ ~u.hold
                                                    => j \in FirstOf(u) \cup u.susp_wait
                                              /\ x = "suspending" => j \in Due(u, "sdone")
                     /\ u.phase = "running" => /\ x = "waking" => j \in Due(u, "duty_wake")
                                               /\ x = "suspending" => j \in Due(u, "duty_susp_done")
    <3>1. Settled(u, i)
      BY <1>3, <1>4 DEF Settled
    <3>2. i \in Agents
      BY <1>1
    <3> QED BY <3>1, <3>2, <1>4, <1>5 DEF Calm
  <2>1. CASE j = i
    BY <2>1, <1>1, <1>3, <1>4, <1>5 DEF Settled
  <2>2. CASE j # i
    BY <2>2, <1>3, <1>4 DEF Calm
  <2> QED BY <2>1, <2>2
<1>7. Own(u, {})
  <2>1. \A j \in s.owned : u.agents[j] \in {s.agents[j], "running"}
    BY <1>3 DEF Typed
  <2> QED BY <2>1, <1>4 DEF Own
<1>8. CASE u.hold
  BY <1>1, <1>2, <1>3, <1>4, <1>6, <1>7, <1>8, LifeDoneLive DEF Quiet
<1>9. CASE ~u.hold
  <2>1. u.phase = "waking"
    BY <1>1, <1>3, <1>4, <1>9 DEF Same, Attributes
  <2> QED BY <2>1, <1>1, <1>2, <1>3, <1>4, <1>6, <1>7, <1>9, SuspRequestLive DEF Settled
<1> QED BY <1>8, <1>9

\* A paced request put on its way.
LEMMA AddPaced ==
    ASSUME NEW s, Heap(s.ev), NEW t, NEW k \in UnderWay, NEW r \in Requests, ~r.first,
           Adds(s, t, {<<k, r>>})
    PROVE /\ \A x \in AgentKinds : Due(t, x) = Due(s, x)
          /\ Firsts(t) = Firsts(s) /\ StepsDue(t) = StepsDue(s) /\ (Once(s) => Once(t))
          /\ t.fcq = s.fcq => Served(s) \subseteq Served(t)
          /\ r.after => r.a \in Served(t)
<1>0. DOMAIN t.ev = DOMAIN s.ev \cup {<<k, r>>} /\ r.a \in Agents
  BY DEF Adds, Requests
<1>1. \A x \in AgentKinds : \A i : <<x, i>> # <<k, r>>
  BY DEF AgentKinds, UnderWay
<1>2. \A x \in AgentKinds : Due(t, x) = Due(s, x)
  BY <1>0, <1>1 DEF Due
<1>3. \A q \in Requests : q.first => <<"reply", q>> # <<k, r>>
  OBVIOUS
<1>4. Firsts(t) = Firsts(s)
  BY <1>0, <1>3 DEF Firsts
<1>5. Requesting(<<k, r>>) /\ <<k, r>> \notin Steps
  BY OtherEvents
<1>6. StepsDue(t) = StepsDue(s)
  BY <1>0, <1>5 DEF StepsDue
<1>7. ~Single(<<k, r>>)
  BY <1>5 DEF Single, UnderWay
<1>8. Once(s) => Once(t)
  BY <1>7, AddsOnce
<1>9. t.fcq = s.fcq => Served(s) \subseteq Served(t)
  BY <1>0 DEF Served
<1>10. r.after => r.a \in Served(t)
  BY <1>0 DEF Served
<1> QED BY <1>2, <1>4, <1>6, <1>8, <1>9, <1>10

\* What the step under way owes a duty worker: the request in its hands.
Owed(r) == IF r.after THEN {r.a} ELSE {}

LEMMA PutPacedLive ==
    ASSUME NEW s, Typed(s), NEW k \in UnderWay, NEW r \in Requests, ~r.first,
           Core(s, {}, 0), Calm(s, {}), Own(s, Owed(r))
    PROVE Live(Put(s, <<k, r>>))
<1> DEFINE t == Put(s, <<k, r>>)
<1>0. <<k, r>> \in Events /\ Heap(s.ev)
  BY OtherEvents DEF Typed
<1>1. Typed(t) /\ Same(s, t, {"ev"}) /\ Adds(s, t, {<<k, r>>})
  BY <1>0, PutIs DEF Adds
<1> HIDE DEF t
<1>2. t.fcq = s.fcq /\ t.agents = s.agents /\ t.owned = s.owned /\ t.workers = s.workers /\ t.duty = s.duty
      /\ t.hold = s.hold /\ t.phase = s.phase /\ t.susp_wait = s.susp_wait
  BY <1>1 DEF Same, Attributes
<1>3. /\ \A x \in AgentKinds : Due(t, x) = Due(s, x)
      /\ Firsts(t) = Firsts(s) /\ StepsDue(t) = StepsDue(s) /\ (Once(s) => Once(t))
      /\ Served(s) \subseteq Served(t) /\ (r.after => r.a \in Served(t))
  BY <1>0, <1>1, <1>2, AddPaced
<1>4. {"ev"} \cap CoreFields = {}
  BY DEF CoreFields
<1>5. SameCoreFields(s, t)
  BY <1>1, <1>4, CoreFieldsSame
<1>6. {"wake", "sdone", "duty_wake", "duty_send", "duty_park", "duty_susp_done"} \subseteq AgentKinds
  BY DEF AgentKinds
<1>7. Core(t, {}, 0)
  BY <1>3, <1>5, <1>6, CoreKept DEF CoreSame
<1>8. Calm(t, {})
  BY <1>2, <1>3, <1>6, CalmKept DEF FirstOf
<1>9. DutyDue(t) = DutyDue(s)
  BY <1>3, <1>6 DEF DutyDue
<1>10. Own(t, {})
  BY <1>2, <1>3, <1>6, <1>9 DEF Own, Owed
<1> QED BY <1>7, <1>8, <1>10 DEF Live, t

LEMMA PutAdds ==
    ASSUME NEW s, Typed(s), NEW e \in Events, NEW t, t = Put(s, e)
    PROVE /\ Typed(t) /\ Same(s, t, {"ev"}) /\ Adds(s, t, {e})
          /\ ~Requesting(e) => NoFlow(s, t)
<1>1. \A d : d \in {e} <=> d = e
  OBVIOUS
<1>2. DOMAIN t.ev = DOMAIN s.ev \cup {e}
  BY PutIs
<1>3. \A d : Times(t.ev, d) = Times(s.ev, d) + (IF d = e THEN 1 ELSE 0)
  BY PutIs
<1>4. Adds(s, t, {e})
  BY <1>1, <1>2, <1>3 DEF Adds
<1> QED BY <1>4, PutIs

\* An event of an agent is put on the heap: nothing else is touched.
LEMMA PutAgentIs ==
    ASSUME NEW s, Typed(s), NEW k \in AgentKinds, NEW i \in Agents, NEW t, t = Put(s, <<k, i>>)
    PROVE /\ Typed(t) /\ NoFlow(s, t) /\ Same(s, t, {"ev"})
          /\ t.fcq = s.fcq /\ t.agents = s.agents /\ t.owned = s.owned /\ t.workers = s.workers
          /\ t.duty = s.duty /\ t.phase = s.phase /\ t.hold = s.hold /\ t.susp_wait = s.susp_wait
          /\ SameCoreFields(s, t)
          /\ Due(t, k) = Due(s, k) \cup {i}
          /\ DueBut(s, t, {k}) /\ StepsDue(t) = StepsDue(s) /\ FirstOf(t) = FirstOf(s)
          /\ Served(t) = Served(s)
          /\ Once(s) /\ (k \in {"wake", "sdone"} => i \notin Due(s, k)) => Once(t)
<1>0. <<k, i>> \in Events /\ ~Requesting(<<k, i>>) /\ Heap(s.ev)
  BY OtherEvents DEF Typed
<1>1. Typed(t) /\ NoFlow(s, t) /\ Same(s, t, {"ev"}) /\ Adds(s, t, {<<k, i>>})
  BY <1>0, PutIs DEF Adds
<1>2. t.fcq = s.fcq /\ t.agents = s.agents /\ t.owned = s.owned /\ t.workers = s.workers
      /\ t.duty = s.duty /\ t.phase = s.phase /\ t.hold = s.hold /\ t.susp_wait = s.susp_wait
  BY <1>1 DEF Same, Attributes
<1>3. {"ev"} \cap CoreFields = {}
  BY DEF CoreFields
<1>4. SameCoreFields(s, t)
  BY <1>1, <1>3, CoreFieldsSame
<1>5. /\ Due(t, k) = Due(s, k) \cup {i}
      /\ DueBut(s, t, {k}) /\ StepsDue(t) = StepsDue(s)
      /\ t.fcq = s.fcq => Served(t) = Served(s)
      /\ Once(s) /\ (k \in {"wake", "sdone"} => i \notin Due(s, k)) => Once(t)
  <2>1. Heap(s.ev) /\ Adds(s, t, {<<k, i>>})
    BY <1>0, <1>1
  <2>2. Due(t, k) = Due(s, k) \cup {i}
    <3>1. \A j \in Agents : <<k, j>> \in DOMAIN t.ev <=> <<k, j>> \in DOMAIN s.ev \/ j = i
      BY <2>1 DEF Adds
    <3> QED BY <3>1 DEF Due
  <2>3. DueBut(s, t, {k}) /\ StepsDue(t) = StepsDue(s)
    BY <2>1, AddAgent
  <2>4. t.fcq = s.fcq => Served(t) = Served(s)
    BY <2>1, AddAgent
  <2>5. Once(s) /\ (k \in {"wake", "sdone"} => i \notin Due(s, k)) => Once(t)
    BY <2>1, AddAgent
  <2> QED BY <2>2, <2>3, <2>4, <2>5
<1>6. FirstOf(t) = FirstOf(s)
  BY <1>5 DEF DueBut, FirstOf
<1> QED BY <1>1, <1>2, <1>4, <1>5, <1>6

\* An event of the duty cycle is none of a burst or of a sweep.
DutyKinds == {"duty_wake", "duty_send", "duty_park", "duty_susp_done"}

LEMMA PutDuty ==
    ASSUME NEW s, Typed(s), NEW k \in DutyKinds, NEW i \in Agents, NEW t, t = Put(s, <<k, i>>)
    PROVE /\ Typed(t) /\ NoFlow(s, t)
          /\ t.agents = s.agents /\ t.owned = s.owned /\ t.workers = s.workers
          /\ t.duty = s.duty /\ t.phase = s.phase /\ t.hold = s.hold
          /\ \A h, w : Core(s, h, w) => Core(t, h, w)
          /\ \A h : Calm(s, h) => Calm(t, h)
          /\ DutyDue(t) = DutyDue(s) \cup {i} /\ Served(t) = Served(s)
          /\ Due(t, k) = Due(s, k) \cup {i}
          /\ \A x \in DutyKinds \ {k} : Due(t, x) = Due(s, x)
<1>1. k \in AgentKinds /\ {"wake", "sdone"} \subseteq AgentKinds \ {k} /\ DutyKinds \subseteq AgentKinds
  BY DEF DutyKinds, AgentKinds
<1>2. /\ Typed(t) /\ NoFlow(s, t) /\ Same(s, t, {"ev"})
      /\ t.fcq = s.fcq /\ t.agents = s.agents /\ t.owned = s.owned /\ t.workers = s.workers
      /\ t.duty = s.duty /\ t.phase = s.phase /\ t.hold = s.hold /\ t.susp_wait = s.susp_wait
      /\ SameCoreFields(s, t)
      /\ Due(t, k) = Due(s, k) \cup {i}
      /\ DueBut(s, t, {k}) /\ StepsDue(t) = StepsDue(s) /\ FirstOf(t) = FirstOf(s)
      /\ Served(t) = Served(s)
      /\ Once(s) => Once(t)
  <2>1. k \notin {"wake", "sdone"}
    BY <1>1
  <2> QED BY <1>1, <2>1, PutAgentIs
<1>3. \A x \in AgentKinds \ {k} : Due(t, x) = Due(s, x)
  BY <1>2 DEF DueBut
<1>4. CoreSame(s, t)
  BY <1>1, <1>2, <1>3 DEF CoreSame, DueBut
<1>5. \A h, w : Core(s, h, w) => Core(t, h, w)
  BY <1>4, CoreKept
<1>6. \A x \in DutyKinds : Due(s, x) \subseteq Due(t, x)
  BY <1>1, <1>2, <1>3
<1>7. Due(t, "wake") = Due(s, "wake") /\ Due(t, "sdone") = Due(s, "sdone")
  BY <1>1, <1>3
<1>8. Due(s, "duty_wake") \subseteq Due(t, "duty_wake") /\ Due(s, "duty_susp_done") \subseteq Due(t, "duty_susp_done")
  BY <1>6 DEF DutyKinds
<1>9. ASSUME NEW h, Calm(s, h) PROVE Calm(t, h)
  BY <1>2, <1>7, <1>8, <1>9, CalmKept
<1>10. DutyDue(t) = DutyDue(s) \cup {i}
  <2>1. \A u : DutyDue(u) = UNION {Due(u, x) : x \in DutyKinds}
    BY DEF DutyDue, DutyKinds
  <2>2. \A x \in DutyKinds : Due(t, x) = IF x = k THEN Due(s, x) \cup {i} ELSE Due(s, x)
    BY <1>1, <1>2, <1>3
  <2> QED BY <2>1, <2>2
<1>11. \A x \in DutyKinds \ {k} : Due(t, x) = Due(s, x)
  BY <1>1, <1>3
<1> QED BY <1>2, <1>5, <1>9, <1>10, <1>11

\* All is calm, but for the agent whose request has just ended when its worker waits for that.
Ended(s, r) ==
    \/ Calm(s, {})
    \/ /\ r.after /\ s.agents[r.a] = "requesting" /\ r.a \notin Due(s, "wake")
       /\ Calm(s, {r.a})

\* A request of a worker or of open-loop traffic that has ended leaves its agent running, for its duty worker to park.
LEMMA PacedFinishedLive ==
    ASSUME NEW s, Typed(s), NEW r \in Requests, r.after \/ ~r.first,
           Core(s, {}, 0), Ended(s, r), Own(s, Owed(r))
    PROVE Live(ReqFinished(s, r))
<1> DEFINE i == r.a
           v == IF s.agents[i] = "requesting" THEN Set(s, i, "running") ELSE s
           w == IF s.agents[i] = "requesting" /\ ~s.duty THEN Set(s, i, "running") ELSE s
           t == ReqFinished(s, r)
           p == Put(v, <<"duty_park", i>>)
<1>1. i \in Agents
  BY DEF Requests
\* the agent, if it was requesting, runs
<1>2. ASSUME NEW u, Typed(u), Same(s, u, {"agents"}),
             Calm(s, {}) \/ u.agents[i] = "running",
             \A j \in Agents : u.agents[j] = s.agents[j]
                               \/ (j = i /\ s.agents[j] = "requesting" /\ u.agents[j] = "running")
      PROVE Core(u, {}, 0) /\ Calm(u, {}) /\ Own(u, Owed(r))
  <2>1. /\ Core(u, {}, 0) /\ u.phase = s.phase /\ u.owned = s.owned /\ u.workers = s.workers
        /\ u.duty = s.duty /\ u.hold = s.hold /\ u.susp_wait = s.susp_wait
        /\ (\A k : Due(u, k) = Due(s, k)) /\ Served(u) = Served(s)
        /\ FirstOf(u) = FirstOf(s) /\ DutyDue(u) = DutyDue(s) /\ (Sweeping(u) <=> Sweeping(s))
    BY <1>2, AgentsOnly
  <2>2. Calm(u, {})
    <3>1. CASE Calm(s, {})
      BY <3>1, <2>1, <1>2 DEF Calm
    <3>2. CASE ~Calm(s, {})
      BY <3>2, <2>1, <1>2 DEF Calm, Ended
    <3> QED BY <3>1, <3>2
  <2>3. \A j \in s.owned : u.agents[j] \in {s.agents[j], "running"}
    BY <1>2 DEF Typed
  <2>4. Own(u, Owed(r))
    BY <2>1, <2>3 DEF Own
  <2> QED BY <2>1, <2>2, <2>4
<1>3. CASE ~r.after
  <2>1. t = w
    BY <1>3 DEF ReqFinished
  <2>2. /\ Typed(w) /\ Same(s, w, {"agents"})
        /\ \A j \in Agents : w.agents[j] = s.agents[j]
                             \/ (j = i /\ s.agents[j] = "requesting" /\ w.agents[j] = "running")
    <3>1. CASE s.agents[i] = "requesting" /\ ~s.duty
      <4>1. w = Set(s, i, "running") /\ "running" \in States
        BY <3>1 DEF States
      <4>2. NoFlow(s, w) /\ Same(s, w, {"agents"}) /\ w.agents = [s.agents EXCEPT ![i] = "running"]
        BY <4>1, <1>1, SetIs
      <4>3. s.agents \in [Agents -> States]
        BY DEF Typed
      <4> HIDE DEF w
      <4> QED BY <4>2, <4>3, <3>1, <1>1 DEF NoFlow
    <3>2. CASE ~(s.agents[i] = "requesting" /\ ~s.duty)
      BY <3>2 DEF Same, Typed
    <3> QED BY <3>1, <3>2
  <2> HIDE DEF w, t
  <2>3. Core(w, {}, 0) /\ Calm(w, {}) /\ Own(w, {})
    BY <2>2, <1>2, <1>3 DEF Owed, Ended
  <2> QED BY <2>1, <2>3 DEF Live, t
<1>4. CASE r.after
  <2>1. t = IF v.phase = "running" /\ v.agents[i] = "running" THEN p ELSE v
    BY <1>4 DEF ReqFinished
  <2>2. /\ NoFlow(s, v) /\ Same(s, v, {"agents"})
        /\ v.agents = [s.agents EXCEPT ![i] = IF @ = "requesting" THEN "running" ELSE @]
    BY <1>1, FinishedIs
  <2> HIDE DEF v, p, t
  <2>3. s.agents \in [Agents -> States]
    BY DEF Typed
  <2>4. Typed(v) /\ \A j \in Agents : v.agents[j] = s.agents[j]
                             \/ (j = i /\ s.agents[j] = "requesting" /\ v.agents[j] = "running")
    BY <2>2, <2>3 DEF NoFlow
  <2>6. /\ v.agents[i] # "requesting" /\ v.agents[i] \in States
        /\ s.agents[i] = "requesting" => v.agents[i] = "running"
    BY <2>2, <2>3, <1>1 DEF States
  <2>5. Core(v, {}, 0) /\ Calm(v, {}) /\ Own(v, {i})
    BY <2>2, <2>4, <2>6, <1>2, <1>4 DEF Owed, Ended
  <2>7. CASE v.phase = "running" /\ v.agents[i] = "running"
    <3>1. PICK k \in DutyKinds : k = "duty_park"
      BY DEF DutyKinds
    <3>2. p = Put(v, <<k, i>>)
      BY <3>1 DEF p
    <3>3. /\ p.agents = v.agents /\ p.owned = v.owned /\ p.workers = v.workers
          /\ p.duty = v.duty /\ p.phase = v.phase /\ \A x \in DutyKinds \ {k} : Due(p, x) = Due(v, x)
          /\ Core(p, {}, 0) /\ Calm(p, {})
          /\ DutyDue(p) = DutyDue(v) \cup {i} /\ Served(p) = Served(v)
      BY <3>2, <2>4, <2>5, <1>1, PutDuty
    <3>4. Due(p, "duty_send") = Due(v, "duty_send")
      BY <3>1, <3>3 DEF DutyKinds
    <3>5. Own(p, {})
      BY <2>5, <2>7, <3>3, <3>4 DEF Own
    <3> QED BY <2>1, <2>7, <3>3, <3>5 DEF Live, t
  <2>8. CASE ~(v.phase = "running" /\ v.agents[i] = "running")
    <3>1. Own(v, {})
      <4>1. v.phase = "running" /\ i \in v.owned => i \in DutyDue(v)
        <5> SUFFICES ASSUME v.phase = "running", i \in v.owned PROVE i \in DutyDue(v)
          OBVIOUS
        <5>1. v.agents[i] \in {"waking", "suspending", "failed"}
          BY <2>5, <2>6, <2>8 DEF Own, States
        <5>2. i \in Due(v, "duty_wake") \cup Due(v, "duty_susp_done") \cup Due(v, "duty_send")
          BY <5>1, <1>1, <2>5 DEF Calm, Own
        <5> QED BY <5>2 DEF DutyDue
      <4> QED BY <4>1, <2>5 DEF Own
    <3> QED BY <2>1, <2>5, <2>8, <3>1 DEF Live, t
  <2> QED BY <2>7, <2>8
<1> QED BY <1>3, <1>4 DEF t

-----------------------------------------------------------------------------
(* A request on its way fires: it is in the hands of the step. *)
LEMMA TookLoses ==
    ASSUME NEW s, Typed(s), NEW e \in DOMAIN s.ev, NEW t, t = Took(s, e)
    PROVE /\ Typed(t) /\ Same(s, t, {"ev"}) /\ Loses(s, t, e)
          /\ ~Requesting(e) => NoFlow(s, t)
<1>1. \A d : Times(s.ev, d) = Times(t.ev, d) + (IF d = e THEN 1 ELSE 0)
  BY TookIs
<1>2. Loses(s, t, e)
  BY <1>1 DEF Loses
<1> QED BY <1>2, TookIs

LEMMA TookPacedLive ==
    ASSUME NEW s, Typed(s), Live(s), NEW k \in UnderWay, NEW r \in Requests, ~r.first,
           <<k, r>> \in DOMAIN s.ev, NEW t, t = Took(s, <<k, r>>)
    PROVE Core(t, {}, 0) /\ Calm(t, {}) /\ Own(t, Owed(r))
<1>1. Typed(t) /\ Same(s, t, {"ev"}) /\ Loses(s, t, <<k, r>>)
  BY TookLoses
<1>2. t.fcq = s.fcq /\ t.agents = s.agents /\ t.owned = s.owned /\ t.workers = s.workers
      /\ t.duty = s.duty /\ t.hold = s.hold /\ t.phase = s.phase /\ t.susp_wait = s.susp_wait
  BY <1>1 DEF Same, Attributes
<1>0. Heap(s.ev) /\ Heap(t.ev) /\ Once(s)
  BY <1>1 DEF Typed, Live, Core, Lives
<1>3. /\ \A x \in AgentKinds : Due(t, x) = Due(s, x)
      /\ StepsDue(t) = StepsDue(s) /\ Once(t)
      /\ t.fcq = s.fcq => Served(s) \ {r.a} \subseteq Served(t)
      /\ t.fcq = s.fcq /\ ~r.after => Served(s) \subseteq Served(t)
      /\ Firsts(t) = Firsts(s)
  BY <1>0, <1>1, LoseRequest
<1>4. {"ev"} \cap CoreFields = {}
  BY DEF CoreFields
<1>5. SameCoreFields(s, t)
  BY <1>1, <1>4, CoreFieldsSame
<1>6. {"wake", "sdone", "duty_wake", "duty_send", "duty_park", "duty_susp_done"} \subseteq AgentKinds
  BY DEF AgentKinds
<1>7. Core(t, {}, 0)
  BY <1>3, <1>5, <1>6, CoreKept DEF CoreSame, Live
<1>8. Calm(t, {})
  BY <1>2, <1>3, <1>6, CalmKept DEF FirstOf, Live
<1>9. DutyDue(t) = DutyDue(s)
  BY <1>3, <1>6 DEF DutyDue
<1>10. Served(s) \subseteq Served(t) \cup Owed(r)
  BY <1>2, <1>3 DEF Owed
<1>11. Own(t, Owed(r))
  BY <1>2, <1>3, <1>6, <1>9, <1>10 DEF Own, Live
<1> QED BY <1>7, <1>8, <1>11

LEMMA TookFirstLive ==
    ASSUME NEW s, Typed(s), Live(s), NEW r \in Requests, r.first,
           <<"reply", r>> \in DOMAIN s.ev, NEW t, t = Took(s, <<"reply", r>>)
    PROVE /\ Core(t, {r.a}, 0) /\ Calm(t, {r.a}) /\ Settled(t, r.a) /\ Own(t, Owed(r))
          /\ t.phase \in {"waking", "running"} /\ (r.after \/ ~t.wake_only)
          /\ t.agents[r.a] # "requesting" => Calm(t, {})
<1> DEFINE i == r.a
<1>1. Typed(t) /\ Same(s, t, {"ev"}) /\ Loses(s, t, <<"reply", r>>)
  BY TookLoses
<1>2. t.fcq = s.fcq /\ t.agents = s.agents /\ t.owned = s.owned /\ t.workers = s.workers
      /\ t.duty = s.duty /\ t.hold = s.hold /\ t.phase = s.phase /\ t.susp_wait = s.susp_wait
  BY <1>1 DEF Same, Attributes
<1>0. Heap(s.ev) /\ Heap(t.ev) /\ Once(s) /\ "reply" \in UnderWay
  BY <1>1 DEF Typed, Live, Core, Lives, UnderWay
<1>c. Ops(s) /\ Wakes(s, 0) /\ Lives(s, {}) /\ Susps(s, {}) /\ Calm(s, {}) /\ Own(s, {})
  BY DEF Live, Core
<1>3. /\ \A x \in AgentKinds : Due(t, x) = Due(s, x)
      /\ StepsDue(t) = StepsDue(s) /\ Once(t)
      /\ Served(s) \subseteq Served(t) \cup Owed(r)
      /\ Firsts(t) = Firsts(s) \ {r} /\ r \in Firsts(s)
  <2>1. PICK k \in UnderWay : k = "reply"
    BY <1>0
  <2>2. /\ \A x \in AgentKinds : Due(t, x) = Due(s, x)
        /\ StepsDue(t) = StepsDue(s) /\ Once(t)
        /\ t.fcq = s.fcq => Served(s) \ {r.a} \subseteq Served(t)
        /\ t.fcq = s.fcq /\ ~r.after => Served(s) \subseteq Served(t)
        /\ Firsts(t) = IF r.first /\ k = "reply" THEN Firsts(s) \ {r} ELSE Firsts(s)
        /\ r.first /\ k = "reply" => r \in Firsts(s)
    BY <1>0, <1>1, <2>1, LoseRequest
  <2> QED BY <1>2, <2>1, <2>2 DEF Owed
<1>4. {"ev"} \cap CoreFields = {}
  BY DEF CoreFields
<1>5. SameCoreFields(s, t)
  BY <1>1, <1>4, CoreFieldsSame
<1>6. {"wake", "sdone", "duty_wake", "duty_send", "duty_park", "duty_susp_done"} \subseteq AgentKinds
  BY DEF AgentKinds
<1>7. s.phase \in {"waking", "running"} /\ ~Quiet(s) /\ (r.after \/ ~s.wake_only)
  BY <1>3, <1>c DEF Ops
<1>8. FirstOf(t) = FirstOf(s) \ {i} /\ i \in FirstOf(s) /\ i \in Agents
  <2>1. \A q \in Firsts(s) : q.a = r.a => q = r
    BY <1>3, <1>c DEF Lives
  <2>2. r.a \in Agents
    BY DEF Requests
  <2>3. FirstOf(t) = {q.a : q \in Firsts(s) \ {r}}
    BY <1>3 DEF FirstOf
  <2> QED BY <2>1, <2>2, <2>3, <1>3 DEF FirstOf
<1>9. Due(t, "wake") = Due(s, "wake") /\ Due(t, "sdone") = Due(s, "sdone")
  BY <1>3, <1>6
<1>10. i \notin s.wake_wait \cup Due(s, "wake") \cup s.susp_wait \cup Due(s, "sdone")
  BY <1>8, <1>c DEF Lives
<1>11. Open(t) \cup {i} = Open(s) /\ Open(t) \cap {i} = {}
  BY <1>5, <1>8, <1>9, <1>10 DEF Open, SameCoreFields
<1>12. Ops(t)
  BY <1>3, <1>5, <1>7, <1>9, <1>c DEF Ops, SameCoreFields, Sweeping, DrainDue, Quiet
<1>13. Wakes(t, 0)
  BY <1>5, <1>9, <1>c DEF Wakes, SameCoreFields, Known
<1>14. Open(s) \cup {} = Open(s)
  OBVIOUS
<1>15. Lives(t, {i})
  BY <1>3, <1>5, <1>8, <1>9, <1>11, <1>14, <1>c DEF Lives, SameCoreFields, Quiet
<1>16. Susps(t, {i})
  BY <1>5, <1>7, <1>9, <1>c DEF Susps, SameCoreFields, Sweeping
<1>17. Calm(t, {i}) /\ (t.agents[i] # "requesting" => Calm(t, {}))
  <2>1. FirstOf(s) \cup s.susp_wait = FirstOf(t) \cup t.susp_wait \cup {i}
    BY <1>2, <1>8
  <2> QED BY <2>1, <1>2, <1>3, <1>6, <1>7, <1>8, <1>c DEF Calm, Sweeping
<1>18. Settled(t, i)
  BY <1>2, <1>3, <1>6, <1>8, <1>10, <1>c DEF Settled, Calm
<1>19. DutyDue(t) = DutyDue(s)
  BY <1>3, <1>6 DEF DutyDue
<1>20. Own(t, Owed(r))
  BY <1>2, <1>3, <1>6, <1>7, <1>19, <1>c DEF Own
<1>21. t.wake_only = s.wake_only
  BY <1>5 DEF SameCoreFields
<1> QED BY <1>2, <1>7, <1>12, <1>13, <1>15, <1>16, <1>17, <1>18, <1>20, <1>21 DEF Core

\* The pump moves requests from the queue to their way.
LEMMA PumpLive ==
    ASSUME NEW s, Typed(s), Paced(s), Live(s)
    PROVE Live(FcPump(s))
<1> DEFINE t == FcPump(s)
<1>1. Typed(t) /\ Same(s, t, {"fcq", "handoff", "ev"})
  BY PumpIs
<1>2. /\ \A d : Times(t.ev, d) # Times(s.ev, d) =>
                   \E j \in DOMAIN s.fcq : d = <<"dispatch", s.fcq[j]>>
      /\ \A d : Times(t.ev, d) >= Times(s.ev, d)
      /\ \A l \in DOMAIN s.fcq : \/ \E j \in DOMAIN t.fcq : t.fcq[j] = s.fcq[l]
                                 \/ <<"dispatch", s.fcq[l]>> \in DOMAIN t.ev
  BY PumpEvents
<1> HIDE DEF t
<1>3. Heap(s.ev) /\ Heap(t.ev)
  BY <1>1 DEF Typed
<1>4. \A j \in DOMAIN s.fcq : s.fcq[j] \in Requests /\ ~s.fcq[j].first
  BY DEF Typed, Paced
<1>5. \A d : Times(t.ev, d) # Times(s.ev, d) => \E r \in Requests : d = <<"dispatch", r>>
  BY <1>2, <1>4
<1>6. \A d : ~(\E r \in Requests : d = <<"dispatch", r>>) => (d \in DOMAIN t.ev <=> d \in DOMAIN s.ev)
  BY <1>3, <1>5, TimesType
<1>7. \A d : d \in DOMAIN s.ev => d \in DOMAIN t.ev
  <2> SUFFICES ASSUME NEW d \in DOMAIN s.ev PROVE d \in DOMAIN t.ev
    OBVIOUS
  <2>1. Times(s.ev, d) \in Nat /\ Times(s.ev, d) > 0 /\ Times(t.ev, d) \in Nat
    BY <1>3, TimesType
  <2>2. Times(t.ev, d) > 0
    BY <2>1, <1>2
  <2> QED BY <2>2, <1>3, TimesType
<1>8. \A x \in AgentKinds : Due(t, x) = Due(s, x)
  <2>1. \A x \in AgentKinds : \A i : ~(\E r \in Requests : <<x, i>> = <<"dispatch", r>>)
    BY DEF AgentKinds
  <2> QED BY <2>1, <1>6 DEF Due
<1>9. Firsts(t) = Firsts(s)
  BY <1>6 DEF Firsts
<1>10. StepsDue(t) = StepsDue(s)
  <2>1. \A e \in Steps : ~(\E r \in Requests : e = <<"dispatch", r>>)
    BY DEF Steps
  <2> QED BY <2>1, <1>6 DEF StepsDue
<1>11. Once(s) => Once(t)
  <2>1. \A e : Single(e) => ~(\E r \in Requests : e = <<"dispatch", r>>)
    BY DEF Single, Steps
  <2>2. \A e : Single(e) => Times(t.ev, e) = Times(s.ev, e)
    BY <2>1, <1>5
  <2> QED BY <2>1, <2>2, <1>6 DEF Once
<1>12. Served(s) \subseteq Served(t)
  <2> SUFFICES ASSUME NEW i \in Served(s) PROVE i \in Served(t)
    OBVIOUS
  <2>1. CASE \E k \in UnderWay, r \in Requests : r.a = i /\ r.after /\ <<k, r>> \in DOMAIN s.ev
    BY <2>1, <1>7 DEF Served
  <2>2. CASE \E l \in DOMAIN s.fcq : s.fcq[l].a = i /\ s.fcq[l].after
    <3>1. PICK l \in DOMAIN s.fcq : s.fcq[l].a = i /\ s.fcq[l].after
      BY <2>2
    <3>2. CASE \E j \in DOMAIN t.fcq : t.fcq[j] = s.fcq[l]
      BY <3>1, <3>2 DEF Served
    <3>3. CASE <<"dispatch", s.fcq[l]>> \in DOMAIN t.ev
      <4>1. "dispatch" \in UnderWay /\ s.fcq[l] \in Requests
        BY <1>4 DEF UnderWay
      <4> QED BY <3>1, <3>3, <4>1 DEF Served
    <3> QED BY <3>2, <3>3, <1>2
  <2> QED BY <2>1, <2>2 DEF Served
<1>13. {"fcq", "handoff", "ev"} \cap CoreFields = {}
  BY DEF CoreFields
<1>14. SameCoreFields(s, t)
  BY <1>1, <1>13, CoreFieldsSame
<1>15. t.agents = s.agents /\ t.owned = s.owned /\ t.workers = s.workers
  BY <1>1 DEF Same, Attributes
<1>16. {"wake", "sdone"} \subseteq AgentKinds
  BY DEF AgentKinds
<1>17. LiveSame(s, t)
  BY <1>8, <1>9, <1>10, <1>11, <1>12, <1>14, <1>15, <1>16 DEF LiveSame, CoreSame
<1> QED BY <1>17, LiveKept DEF t

\* A change of the counters that admit requests is seen by no part.
LEMMA CountersLive ==
    ASSUME NEW s, NEW t, Same(s, t, {"inflight", "handoff", "epp"})
    PROVE LiveSame(s, t)
<1>1. {"inflight", "handoff", "epp"}
        \cap (CoreFields \cup {"agents", "owned", "workers", "ev", "fcq"}) = {}
  BY DEF CoreFields
<1> QED BY <1>1, LiveFields

LEMMA UncountIs ==
    ASSUME NEW s, Typed(s), NEW r \in Requests
    PROVE LET u == Uncount(s, r) IN
          Typed(u) /\ Same(s, u, {"inflight", "handoff", "epp"}) /\ (r.first => u = s)
<1> DEFINE u == Uncount(s, r)
<1>1. DOMAIN s = Attributes /\ s.inflight \in Int /\ s.handoff \in Int /\ s.epp \in Int
  BY DEF Typed
<1>2. Same(s, u, {"inflight", "handoff", "epp"}) /\ u.inflight \in {s.inflight, s.inflight - 1}
      /\ u.handoff = s.handoff /\ u.epp = s.epp
  BY <1>1 DEF Uncount, Same, Attributes
<1>3. r.first => u = s
  BY DEF Uncount
<1> HIDE DEF u
<1>4. Typed(u)
  BY <1>1, <1>2, CountersIs
<1> QED BY <1>2, <1>3, <1>4 DEF u

LEMMA SlotIs ==
    ASSUME NEW s, Typed(s), NEW r \in Requests
    PROVE LET v == [s EXCEPT !.epp = IF r.epp THEN @ + 1 ELSE @] IN
          Typed(v) /\ Same(s, v, {"inflight", "handoff", "epp"})
<1> DEFINE v == [s EXCEPT !.epp = IF r.epp THEN @ + 1 ELSE @]
<1>1. DOMAIN s = Attributes /\ s.inflight \in Int /\ s.handoff \in Int /\ s.epp \in Int
  BY DEF Typed
<1>2. Same(s, v, {"inflight", "handoff", "epp"}) /\ v.epp \in {s.epp, s.epp + 1}
      /\ v.handoff = s.handoff /\ v.inflight = s.inflight
  BY <1>1 DEF Same, Attributes
<1> HIDE DEF v
<1>3. Typed(v)
  BY <1>1, <1>2, CountersIs
<1> QED BY <1>2, <1>3 DEF v

LEMMA DispatchedPacedLive ==
    ASSUME NEW s, Typed(s), NEW r \in Requests, ~r.first,
           Core(s, {}, 0), Calm(s, {}), Own(s, Owed(r))
    PROVE Live(Dispatched(s, r))
<1> DEFINE u == Uncount(s, r)
           v == [s EXCEPT !.epp = IF r.epp THEN @ + 1 ELSE @]
<1>1. Dispatched(s, r) = IF s.pods = 0 THEN ReqFinished(u, r) ELSE Put(v, <<"reply", r>>)
  BY DEF Dispatched
<1>2. Typed(u) /\ Same(s, u, {"inflight", "handoff", "epp"})
  BY UncountIs
<1>3. Typed(v) /\ Same(s, v, {"inflight", "handoff", "epp"})
  BY SlotIs
<1> HIDE DEF u, v
<1>4. Core(u, {}, 0) /\ Calm(u, {}) /\ Own(u, Owed(r))
  BY <1>2, CountersLive, LiveKept
<1>5. Core(v, {}, 0) /\ Calm(v, {}) /\ Own(v, Owed(r))
  BY <1>3, CountersLive, LiveKept
<1>6. Live(ReqFinished(u, r))
  BY <1>2, <1>4, PacedFinishedLive DEF Ended
<1>7. Live(Put(v, <<"reply", r>>))
  <2>1. PICK k \in UnderWay : k = "reply"
    BY DEF UnderWay
  <2> QED BY <2>1, <1>3, <1>5, PutPacedLive
<1> QED BY <1>1, <1>6, <1>7

\* A first request is sent for an agent in hand, or fails at once when no pod is up.
LEMMA DispatchedFirstLive ==
    ASSUME NEW s, Typed(s), NEW r \in Requests, r.first, Core(s, {r.a}, 0), Own(s, {}),
           Calm(s, {r.a}), s.agents[r.a] = "requesting", s.phase \in {"waking", "running"},
           r.after \/ ~s.wake_only, ~Quiet(s)
    PROVE Live(Dispatched(s, r))
<1> DEFINE i == r.a
           u == Uncount(s, r)
           v == [s EXCEPT !.epp = IF r.epp THEN @ + 1 ELSE @]
           t == Put(v, <<"reply", r>>)
<1>1. Dispatched(s, r) = IF s.pods = 0 THEN ReqFinished(u, r) ELSE t
  BY DEF Dispatched
<1>2. u = s
  BY UncountIs
<1>3. Typed(v) /\ Same(s, v, {"inflight", "handoff", "epp"})
  BY SlotIs
<1> HIDE DEF u, v
<1>4. Live(ReqFinished(s, r))
  <2>1. CASE ~r.after
    BY <2>1, FirstFinishedLive DEF Settled
  <2>2. CASE r.after
    <3>1. i \in Agents /\ ~Sweeping(s)
      BY DEF Requests, Sweeping
    <3>2. Core(s, {}, 0)
      BY <3>1, LetGo
    <3>3. i \notin Due(s, "wake")
      BY DEF Core, Lives, Open
    <3>4. Ended(s, r)
      BY <2>2, <3>3 DEF Ended
    <3>5. Own(s, Owed(r))
      BY DEF Own
    <3> QED BY <2>2, <3>2, <3>4, <3>5, PacedFinishedLive
  <2> QED BY <2>1, <2>2
<1>5. Core(v, {i}, 0) /\ Calm(v, {i}) /\ Own(v, {})
  BY <1>3, CountersLive, LiveKept
<1>6. Heap(v.ev) /\ <<"reply", r>> \in Events /\ i \in Agents
  BY <1>3, OtherEvents DEF Typed, UnderWay, Requests
<1>7. Typed(t) /\ Same(v, t, {"ev"}) /\ Adds(v, t, {<<"reply", r>>})
  <2>1. PICK e \in Events : e = <<"reply", r>>
    BY <1>6
  <2> QED BY <1>3, <2>1, PutAdds
<1> HIDE DEF t
<1>8. v.agents[i] = "requesting" /\ v.phase \in {"waking", "running"}
       /\ (r.after \/ ~v.wake_only) /\ ~Quiet(v)
  BY <1>3 DEF Same, Attributes, Quiet
<1>9. t.fcq = v.fcq /\ t.agents = v.agents /\ t.owned = v.owned /\ t.workers = v.workers
      /\ t.duty = v.duty /\ t.hold = v.hold /\ t.phase = v.phase /\ t.susp_wait = v.susp_wait
  BY <1>7 DEF Same, Attributes
<1>10. i \notin Open(v) /\ i \notin FirstOf(v) /\ r \notin Firsts(v) /\ Once(v)
       /\ i \notin v.wake_wait \cup Due(v, "wake") \cup v.susp_wait \cup Due(v, "sdone")
  <2>1. i \notin Open(v) /\ Once(v)
    BY <1>5 DEF Core, Lives
  <2>2. i \notin FirstOf(v)
    BY <2>1 DEF Open
  <2> QED BY <2>1, <2>2 DEF Open, FirstOf
<1>11. /\ Firsts(t) = Firsts(v) \cup {r} /\ StepsDue(t) = StepsDue(v)
       /\ \A x \in AgentKinds : Due(t, x) = Due(v, x)
       /\ Served(v) \subseteq Served(t)
       /\ Once(t)
  BY <1>6, <1>7, <1>9, <1>10, AddFirst
<1>12. {"wake", "sdone", "duty_wake", "duty_send", "duty_park", "duty_susp_done"} \subseteq AgentKinds
  BY DEF AgentKinds
<1>13. Due(t, "wake") = Due(v, "wake") /\ Due(t, "sdone") = Due(v, "sdone")
       /\ Due(t, "duty_wake") = Due(v, "duty_wake") /\ Due(t, "duty_send") = Due(v, "duty_send")
       /\ Due(t, "duty_susp_done") = Due(v, "duty_susp_done") /\ DutyDue(t) = DutyDue(v)
  BY <1>11, <1>12 DEF DutyDue
<1>14. {"ev"} \cap CoreFields = {}
  BY DEF CoreFields
<1>15. SameCoreFields(v, t)
  BY <1>7, <1>14, CoreFieldsSame
<1>16. FirstOf(t) = FirstOf(v) \cup {i}
  BY <1>11 DEF FirstOf
<1>17. Open(t) \cup {} = Open(v) \cup {i}
  BY <1>13, <1>15, <1>16 DEF Open, SameCoreFields
<1>c. Ops(v) /\ Wakes(v, 0) /\ Lives(v, {i}) /\ Susps(v, {i})
  BY <1>5 DEF Core
<1>18. Ops(t)
  BY <1>8, <1>11, <1>13, <1>15, <1>c DEF Ops, SameCoreFields, Sweeping, DrainDue, Quiet
<1>19. Wakes(t, 0)
  BY <1>13, <1>15, <1>c DEF Wakes, SameCoreFields, Known
<1>20. Lives(t, {})
  <2>1. \A p, q \in Firsts(t) : p.a = q.a => p = q
    BY <1>10, <1>11, <1>c DEF Lives, FirstOf
  <2>2. FirstOf(t) \cap (t.wake_wait \cup Due(t, "wake")) = {}
    BY <1>10, <1>13, <1>15, <1>16, <1>c DEF Lives, SameCoreFields
  <2>3. (t.susp_wait \cup Due(t, "sdone")) \cap (t.wake_wait \cup Due(t, "wake") \cup FirstOf(t)) = {}
    BY <1>10, <1>13, <1>15, <1>16, <1>c DEF Lives, SameCoreFields
  <2>4. t.wake_wait \cap Due(t, "wake") = {} /\ t.susp_wait \cap Due(t, "sdone") = {}
    BY <1>13, <1>15, <1>c DEF Lives, SameCoreFields
  <2>5. t.pending >= Cardinality(Open(t) \cup {}) /\ t.busy /\ ~t.first_done
    BY <1>8, <1>15, <1>17, <1>c DEF Lives, SameCoreFields, Quiet
  <2>6. Open(t) \cap {} = {}
    OBVIOUS
  <2> QED BY <1>11, <2>1, <2>2, <2>3, <2>4, <2>5, <2>6 DEF Lives
<1>21. Susps(t, {})
  BY <1>8, <1>13, <1>15, <1>c DEF Susps, SameCoreFields, Sweeping
<1>22. Calm(t, {})
  <2>1. ~Sweeping(t) /\ t.phase # "idle"
    BY <1>8, <1>9 DEF Sweeping
  <2>2. ASSUME NEW j \in Agents
        PROVE LET x == t.agents[j] IN
              /\ t.phase = "waking" => /\ x = "waking" => j \in Due(t, "wake")
                                       /\ j \in Due(t, "wake") => x = "waking" \/ t.duty
                                       /\ x = "requesting" /\ ~t.hold => j \in FirstOf(t) \cup t.susp_wait
                                       /\ x = "suspending" => j \in Due(t, "sdone")
              /\ t.phase = "running" => /\ x = "waking" => j \in Due(t, "duty_wake")
                                        /\ x = "suspending" => j \in Due(t, "duty_susp_done")
    <3>1. CASE j = i
      BY <3>1, <1>8, <1>9, <1>10, <1>13, <1>16
    <3>2. CASE j # i
      BY <3>2, <1>5, <1>9, <1>13, <1>16 DEF Calm
    <3> QED BY <3>1, <3>2
  <2> QED BY <2>1, <2>2 DEF Calm
<1>23. Own(t, {})
  BY <1>5, <1>9, <1>11, <1>13 DEF Own
<1> QED BY <1>1, <1>2, <1>4, <1>18, <1>19, <1>20, <1>21, <1>22, <1>23 DEF Live, Core, t

\* A request that joins the queue is still to be served.
LEMMA EnqueueLive ==
    ASSUME NEW s, Typed(s), NEW r \in Requests, ~r.first, Core(s, {}, 0), Calm(s, {}), Own(s, Owed(r))
    PROVE Live([s EXCEPT !.fcq = Enqueue(@, r)])
<1> DEFINE q == Enqueue(s.fcq, r)
           t == [s EXCEPT !.fcq = Enqueue(@, r)]
<1>1. DOMAIN s = Attributes /\ s.fcq \in Seq(Requests) /\ r.a \in Agents
  BY DEF Typed, Requests
<1>2. Same(s, t, {"fcq"}) /\ t.fcq = q
  BY <1>1 DEF Same, Attributes
<1>3. /\ \E j \in DOMAIN q : q[j] = r
      /\ \A l \in DOMAIN s.fcq : \E j \in DOMAIN q : q[j] = s.fcq[l]
  <2>1. PICK f \in Seq(Requests) : f = s.fcq
    BY <1>1
  <2>2. PICK g : g = Enqueue(f, r)
    OBVIOUS
  <2>3. \E j \in DOMAIN g : g[j] = r
    BY <2>2, EnqueueIs
  <2>4. \A l \in DOMAIN f : \E j \in DOMAIN g : g[j] = f[l]
    BY <2>2, EnqueueIs
  <2> QED BY <2>1, <2>2, <2>3, <2>4
<1> HIDE DEF q, t
<1>4. t.ev = s.ev /\ t.agents = s.agents /\ t.owned = s.owned /\ t.workers = s.workers
      /\ t.duty = s.duty /\ t.hold = s.hold /\ t.phase = s.phase /\ t.susp_wait = s.susp_wait
  BY <1>2 DEF Same, Attributes
<1>5. (\A k : Due(t, k) = Due(s, k)) /\ Firsts(t) = Firsts(s) /\ StepsDue(t) = StepsDue(s)
      /\ (Once(s) => Once(t))
  BY <1>4 DEF Due, Firsts, StepsDue, Once
<1>6. Served(s) \cup Owed(r) \subseteq Served(t)
  <2>1. \A i \in Agents :
           (\E l \in DOMAIN s.fcq : s.fcq[l].a = i /\ s.fcq[l].after) \/ i \in Owed(r)
             => \E j \in DOMAIN t.fcq : t.fcq[j].a = i /\ t.fcq[j].after
    BY <1>2, <1>3 DEF Owed
  <2>2. Owed(r) \subseteq Agents
    BY <1>1 DEF Owed
  <2> QED BY <2>1, <2>2, <1>4 DEF Served
<1>7. {"fcq"} \cap CoreFields = {}
  BY DEF CoreFields
<1>8. SameCoreFields(s, t)
  BY <1>2, <1>7, CoreFieldsSame
<1>9. Core(t, {}, 0)
  BY <1>5, <1>8, CoreKept DEF CoreSame
<1>10. Calm(t, {})
  BY <1>4, <1>5, CalmKept DEF FirstOf
<1>11. Own(t, {})
  BY <1>4, <1>5, <1>6 DEF Own, DutyDue
<1> QED BY <1>9, <1>10, <1>11 DEF Live, t

LEMMA ArriveLive ==
    ASSUME FlowOk(self), Live(self), Arrive
    PROVE Live(self')
<1>1. PICK e \in Pending : e[1] = "arrive"
        /\ LET s == Fire(e) IN
           Runs(IF ~e[2].epp \/ s.pods = 0 \/ (PoolRoom(s) > 0 /\ s.fcq = <<>>)
                THEN Dispatched(s, e[2]) ELSE [s EXCEPT !.fcq = Enqueue(@, e[2])])
  BY DEF Arrive
<1> DEFINE r == e[2]
           s == Took(self, e)
           v == [s EXCEPT !.fcq = Enqueue(@, r)]
<1>0. Typed(self) /\ Paced(self) /\ e \in DOMAIN self.ev
  BY DEF FlowOk, Pending, BagToSet
<1>2. r \in Requests /\ e = <<"arrive", r>> /\ "arrive" \in UnderWay
  <2>1. e \in Events
    BY <1>0 DEF Typed, Heap
  <2>2. "arrive" \in UnderWay
    BY DEF UnderWay
  <2> QED BY <2>1, <2>2, <1>1, EventForm
<1>3. self' = Dispatched(s, r) \/ self' = v
  BY <1>1, FireIs DEF Runs
<1>4. Typed(s)
  BY <1>0, TookIs
<1>5. ~r.first
  BY <1>0, <1>2 DEF Paced
<1>6. Core(s, {}, 0) /\ Calm(s, {}) /\ Own(s, Owed(r))
  <2>1. PICK k \in UnderWay : k = "arrive"
    BY <1>2
  <2>2. PICK x : x = r
    OBVIOUS
  <2>3. x \in Requests /\ e = <<k, x>> /\ ~x.first
    BY <1>2, <1>5, <2>1, <2>2
  <2> HIDE DEF r
  <2>4. Core(s, {}, 0) /\ Calm(s, {}) /\ Own(s, Owed(x))
    BY <2>3, <1>0, TookPacedLive
  <2> QED BY <2>2, <2>4
<1> HIDE DEF s, r
<1>7. Live(Dispatched(s, r))
  BY <1>2, <1>4, <1>5, <1>6, DispatchedPacedLive
<1>8. Live(v)
  BY <1>2, <1>4, <1>5, <1>6, EnqueueLive
<1> QED BY <1>3, <1>7, <1>8

LEMMA DispatchLive ==
    ASSUME FlowOk(self), Live(self), Dispatch
    PROVE Live(self')
<1>1. PICK e \in Pending : e[1] = "dispatch"
        /\ Runs(Dispatched([Fire(e) EXCEPT !.handoff = @ - 1], e[2]))
  BY DEF Dispatch
<1> DEFINE r == e[2]
           s == Took(self, e)
           v == [s EXCEPT !.handoff = @ - 1]
<1>0. Typed(self) /\ Paced(self) /\ e \in DOMAIN self.ev
  BY DEF FlowOk, Pending, BagToSet
<1>2. r \in Requests /\ e = <<"dispatch", r>> /\ "dispatch" \in UnderWay
  <2>1. e \in Events
    BY <1>0 DEF Typed, Heap
  <2>2. "dispatch" \in UnderWay
    BY DEF UnderWay
  <2> QED BY <2>1, <2>2, <1>1, EventForm
<1>3. self' = Dispatched(v, r)
  BY <1>1, FireIs DEF Runs
<1>4. Typed(s)
  BY <1>0, TookIs
<1>5. ~r.first
  BY <1>0, <1>2 DEF Paced
<1>6. Core(s, {}, 0) /\ Calm(s, {}) /\ Own(s, Owed(r))
  <2>1. PICK k \in UnderWay : k = "dispatch"
    BY <1>2
  <2>2. PICK x : x = r
    OBVIOUS
  <2>3. x \in Requests /\ e = <<k, x>> /\ ~x.first
    BY <1>2, <1>5, <2>1, <2>2
  <2> HIDE DEF r
  <2>4. Core(s, {}, 0) /\ Calm(s, {}) /\ Own(s, Owed(x))
    BY <2>3, <1>0, TookPacedLive
  <2> QED BY <2>2, <2>4
<1> HIDE DEF s, r
<1>7. Typed(v) /\ Same(s, v, {"inflight", "handoff", "epp"})
  <2>1. DOMAIN s = Attributes /\ s.inflight \in Int /\ s.handoff \in Int /\ s.epp \in Int
    BY <1>4 DEF Typed
  <2>2. Same(s, v, {"inflight", "handoff", "epp"}) /\ v.handoff = s.handoff - 1
        /\ v.epp = s.epp /\ v.inflight = s.inflight
    BY <2>1 DEF Same, Attributes
  <2> HIDE DEF v
  <2>3. v.inflight \in Int /\ v.handoff \in Int /\ v.epp \in Int
    BY <2>1, <2>2
  <2>4. Typed(v)
    BY <1>4, <2>2, <2>3, CountersIs
  <2> QED BY <2>2, <2>4
<1> HIDE DEF v
<1>8. Core(v, {}, 0) /\ Calm(v, {}) /\ Own(v, Owed(r))
  BY <1>6, <1>7, CountersLive, LiveKept
<1> QED BY <1>2, <1>3, <1>5, <1>7, <1>8, DispatchedPacedLive

LEMMA ReplyLive ==
    ASSUME FlowOk(self), Live(self), Reply
    PROVE Live(self')
<1>1. PICK e \in Pending : e[1] = "reply"
        /\ LET s == [Fire(e) EXCEPT !.epp = IF e[2].epp THEN @ - 1 ELSE @]
           IN  Runs(FcPump(ReqFinished(Uncount(s, e[2]), e[2])))
  BY DEF Reply
<1> DEFINE r == e[2]
           s == Took(self, e)
           v == [s EXCEPT !.epp = IF r.epp THEN @ - 1 ELSE @]
           u == Uncount(v, r)
           t == ReqFinished(u, r)
<1>0. Typed(self) /\ Paced(self) /\ e \in DOMAIN self.ev
  BY DEF FlowOk, Pending, BagToSet
<1>2. r \in Requests /\ e = <<"reply", r>> /\ "reply" \in UnderWay
  <2>1. e \in Events
    BY <1>0 DEF Typed, Heap
  <2>2. "reply" \in UnderWay
    BY DEF UnderWay
  <2> QED BY <2>1, <2>2, <1>1, EventForm
<1>3. self' = FcPump(t)
  BY <1>1, FireIs DEF Runs
<1>4. Typed(s) /\ Paced(s)
  BY <1>0, TookIs, PacedTook
<1>5. PICK x : x = r
  OBVIOUS
<1>6. x \in Requests /\ e = <<"reply", x>>
  BY <1>2, <1>5
<1> HIDE DEF r
<1>7. ~x.first => Core(s, {}, 0) /\ Calm(s, {}) /\ Own(s, Owed(x))
  <2>1. PICK k \in UnderWay : k = "reply"
    BY <1>2
  <2>3. e = <<k, x>>
    BY <1>6, <2>1
  <2> QED BY <2>3, <1>0, <1>6, TookPacedLive
<1>8. x.first => /\ Core(s, {x.a}, 0) /\ Calm(s, {x.a}) /\ Settled(s, x.a) /\ Own(s, Owed(x))
                 /\ s.phase \in {"waking", "running"} /\ (x.after \/ ~s.wake_only)
                 /\ (s.agents[x.a] # "requesting" => Calm(s, {}))
  BY <1>0, <1>6, TookFirstLive
<1> HIDE DEF s
<1>9. Typed(v) /\ Same(s, v, {"inflight", "handoff", "epp"}) /\ Paced(v)
  <2>1. DOMAIN s = Attributes /\ s.inflight \in Int /\ s.handoff \in Int /\ s.epp \in Int
    BY <1>4 DEF Typed
  <2>2. Same(s, v, {"inflight", "handoff", "epp"}) /\ v.epp \in {s.epp, s.epp - 1}
        /\ v.handoff = s.handoff /\ v.inflight = s.inflight
    BY <2>1 DEF Same, Attributes
  <2> HIDE DEF v
  <2>3. v.inflight \in Int /\ v.handoff \in Int /\ v.epp \in Int
    BY <2>1, <2>2
  <2>4. Typed(v) /\ Paced(v)
    BY <1>4, <2>2, <2>3, CountersIs
  <2> QED BY <2>2, <2>4
<1> HIDE DEF v
<1>10. Typed(u) /\ Same(v, u, {"inflight", "handoff", "epp"})
  BY <1>5, <1>6, <1>9, UncountIs
<1>11. Paced(u)
  <2>1. u.ev = v.ev /\ u.fcq = v.fcq
    BY <1>10 DEF Same, Attributes
  <2> QED BY <2>1, <1>9 DEF Paced
<1> HIDE DEF u
<1>12. LiveSame(s, v) /\ LiveSame(v, u)
  BY <1>9, <1>10, CountersLive
<1>13. Live(t)
  <2>1. CASE ~x.first
    <3>1. Core(u, {}, 0) /\ Calm(u, {}) /\ Own(u, Owed(x))
      BY <2>1, <1>7, <1>12, LiveKept
    <3>2. Ended(u, x)
      BY <3>1 DEF Ended
    <3> QED BY <2>1, <3>1, <3>2, <1>5, <1>6, <1>10, PacedFinishedLive
  <2>2. CASE x.first
    <3>1. Core(u, {x.a}, 0) /\ Calm(u, {x.a}) /\ Own(u, Owed(x))
      BY <2>2, <1>8, <1>12, LiveKept
    <3>2. u.phase = s.phase /\ u.wake_only = s.wake_only /\ u.agents = s.agents /\ u.ev = s.ev
      BY <1>9, <1>10 DEF Same, Attributes
    <3>3. Settled(u, x.a) /\ u.phase \in {"waking", "running"}
      BY <2>2, <3>2, <1>8 DEF Settled, Due
    <3>4. CASE ~x.after
      <4>1. Own(u, {}) /\ ~u.wake_only
        BY <2>2, <3>1, <3>2, <3>4, <1>8 DEF Owed
      <4> QED BY <2>2, <3>1, <3>3, <3>4, <4>1, <1>5, <1>6, <1>10, FirstFinishedLive
    <3>5. CASE x.after
      <4>1. x.a \in Agents /\ ~Sweeping(u)
        BY <1>6, <3>3 DEF Requests, Sweeping
      <4>2. Core(u, {}, 0)
        BY <3>1, <4>1, <1>10, LetGo
      <4>3. x.a \notin Due(u, "wake")
        BY <3>1 DEF Core, Lives, Open
      <4>4. u.agents[x.a] # "requesting" => Calm(u, {})
        BY <2>2, <3>2, <1>8, <1>12, LiveKept
      <4>5. Ended(u, x)
        BY <3>1, <3>5, <4>3, <4>4 DEF Ended
      <4> QED BY <3>1, <3>5, <4>2, <4>5, <1>5, <1>6, <1>10, PacedFinishedLive
    <3> QED BY <3>4, <3>5
  <2> QED BY <2>1, <2>2
<1>14. Typed(t) /\ Paced(t)
  <2>1. NoFlow(u, t)
    BY <1>5, <1>6, <1>10, ReqFinishedNoFlow
  <2> HIDE DEF t
  <2> QED BY <2>1, <1>10, <1>11, BalNoFlow DEF NoFlow
<1> QED BY <1>3, <1>13, <1>14, PumpLive

-----------------------------------------------------------------------------
(* The steps of the operations: what is due of a burst or of a sweep is as before. *)
DueSame(s, t) ==
    /\ \A k \in AgentKinds : Due(t, k) = Due(s, k)
    /\ Firsts(t) = Firsts(s) /\ Served(t) = Served(s) /\ (Once(s) => Once(t))

LEMMA PutStepIs ==
    ASSUME NEW s, Typed(s), NEW e \in Steps, NEW t, t = Put(s, e)
    PROVE /\ Typed(t) /\ NoFlow(s, t) /\ Same(s, t, {"ev"})
          /\ StepsDue(t) = StepsDue(s) \cup {e}
          /\ StepsDue(s) = {} => DueSame(s, t)
<1>0. e \in Events /\ ~Requesting(e) /\ Heap(s.ev)
  BY OtherEvents DEF Typed
<1>1. Typed(t) /\ Same(s, t, {"ev"}) /\ Adds(s, t, {e}) /\ NoFlow(s, t)
  BY <1>0, PutAdds
<1>2. t.fcq = s.fcq
  BY <1>1 DEF Same, Attributes
<1>3. /\ StepsDue(t) = StepsDue(s) \cup {e} /\ DueBut(s, t, {})
      /\ Served(t) = Served(s)
      /\ Once(s) /\ e \notin DOMAIN s.ev => Once(t)
  BY <1>0, <1>1, <1>2, AddStep
<1>4. StepsDue(s) = {} => e \notin DOMAIN s.ev
  BY DEF StepsDue
<1> QED BY <1>1, <1>3, <1>4 DEF DueSame, DueBut

LEMMA FireStepIs ==
    ASSUME FlowOk(self), NEW e \in Pending, e \in Steps, NEW t, t = Fire(e)
    PROVE /\ Typed(t) /\ NoFlow(self, t) /\ Same(self, t, {"ev"}) /\ e \in StepsDue(self)
          /\ Live(self) => StepsDue(t) = {} /\ DueSame(self, t) /\ Once(t)
<1>0. Typed(self) /\ e \in DOMAIN self.ev /\ ~Requesting(e)
  BY OtherEvents DEF FlowOk, Pending, BagToSet
<1>1. Typed(t) /\ Same(self, t, {"ev"}) /\ Loses(self, t, e) /\ NoFlow(self, t)
  BY <1>0, FireIs, TookLoses
<1>2. t.fcq = self.fcq /\ Heap(self.ev) /\ Heap(t.ev) /\ e \in StepsDue(self)
  BY <1>0, <1>1 DEF Same, Attributes, Typed, StepsDue
<1>3. ASSUME Live(self) PROVE StepsDue(t) = {} /\ DueSame(self, t) /\ Once(t)
  <2>1. Once(self) /\ \A c, d \in StepsDue(self) : c = d
    BY <1>3 DEF Live, Core, Lives, Ops
  <2>2. /\ StepsDue(t) = StepsDue(self) \ {e} /\ DueBut(self, t, {})
        /\ Served(t) = Served(self) /\ Once(t)
    BY <1>1, <1>2, <2>1, LoseStep
  <2>3. StepsDue(t) = {}
    BY <2>1, <2>2, <1>2
  <2> QED BY <2>2, <2>3 DEF DueSame, DueBut
<1> QED BY <1>1, <1>2, <1>3

LEMMA DueSameIs ==
    ASSUME NEW s, NEW t, DueSame(s, t)
    PROVE /\ Due(t, "wake") = Due(s, "wake") /\ Due(t, "sdone") = Due(s, "sdone")
          /\ Due(t, "duty_wake") = Due(s, "duty_wake") /\ Due(t, "duty_send") = Due(s, "duty_send")
          /\ Due(t, "duty_park") = Due(s, "duty_park") /\ Due(t, "duty_susp_done") = Due(s, "duty_susp_done")
          /\ DutyDue(t) = DutyDue(s) /\ FirstOf(t) = FirstOf(s)
<1>1. {"wake", "sdone", "duty_wake", "duty_send", "duty_park", "duty_susp_done"} \subseteq AgentKinds
  BY DEF AgentKinds
<1>2. \A k \in {"wake", "sdone", "duty_wake", "duty_send", "duty_park", "duty_susp_done"} : Due(t, k) = Due(s, k)
  BY <1>1 DEF DueSame
<1>3. FirstOf(t) = FirstOf(s)
  BY DEF DueSame, FirstOf
<1> QED BY <1>2, <1>3 DEF DutyDue

\* Between operations nothing is due but of the duty cycle, and no agent is in a passing state.
LEMMA RestLive ==
    ASSUME NEW s, Ops(s), Once(s), s.wake_active = Cardinality(Due(s, "wake")),
           s.susp_active = Cardinality(Due(s, "sdone")), s.susp_out \in Nat,
           s.phase \in {"idle", "reconciling", "suspending"}, ~Sweeping(s),
           s.phase = "idle" => \A i \in Agents : s.agents[i] \notin {"waking", "requesting", "suspending"},
           s.workers = Cardinality(s.owned), s.workers <= DUTY_WORKERS,
           s.owned # {} => s.duty
    PROVE Live(s) /\ Nothing(s)
<1>1. Nothing(s)
  BY NothingDue
<1>2. s.wake_active = 0 /\ s.susp_active = 0
  BY <1>1, FS_EmptySet DEF Nothing
<1>3. Core(s, {}, 0)
  BY <1>1, <1>2, CoreNothing
<1>4. Calm(s, {})
  BY DEF Calm
<1>5. Own(s, {})
  BY DEF Own
<1> QED BY <1>1, <1>3, <1>4, <1>5 DEF Live

\* What is known between operations.
LEMMA AtRest ==
    ASSUME NEW s, Live(s), s.phase \notin {"waking", "running"}, ~Sweeping(s)
    PROVE /\ Nothing(s) /\ Once(s) /\ s.susp_out \in Nat
          /\ s.wake_active = 0 /\ s.susp_active = 0 /\ Cardinality({}) = 0
          /\ s.phase = "idle" => \A i \in Agents : s.agents[i] \notin {"waking", "requesting", "suspending"}
          /\ s.workers = Cardinality(s.owned) /\ s.workers <= DUTY_WORKERS
          /\ s.owned # {} => s.duty
<1>1. Nothing(s)
  BY NothingDue DEF Live, Core
<1>2. s.wake_active = 0 /\ s.susp_active = 0 /\ s.susp_out \in Nat /\ Once(s)
  BY <1>1, CountsNothing DEF Live, Nothing
<1>3. Cardinality({}) = 0
  BY FS_EmptySet
<1>4. s.phase = "idle" => \A i \in Agents : s.agents[i] \notin {"waking", "requesting", "suspending"}
  BY DEF Live, Calm
<1>5. /\ s.workers = Cardinality(s.owned) /\ s.workers <= DUTY_WORKERS
      /\ s.owned # {} => s.duty
  BY DEF Live, Own
<1> QED BY <1>1, <1>2, <1>3, <1>4, <1>5

LEMMA StartBurstKeeps ==
    ASSUME FlowOk(self), StartBurst
    PROVE FlowOk(self') /\ (Live(self) => Live(self'))
<1>1. PICK n \in 1..TOTAL, conc \in {0, 1}, b \in Bursts :
        /\ ~self.busy /\ self.phase = "idle"
        /\ self' = Put([self EXCEPT !.busy = TRUE], <<"preflight", <<n, b[1], conc, b[2]>>>>)
  BY DEF StartBurst
<1> DEFINE p == <<n, b[1], conc, b[2]>>
           s == [self EXCEPT !.busy = TRUE]
<1>2. PICK e : e = <<"preflight", p>>
  OBVIOUS
<1>3. e \in Steps /\ e[1] = "preflight"
  <2>1. b[1] \in BOOLEAN /\ b[2] \in BOOLEAN
    BY MockAssumption
  <2>2. p \in Asked
    BY <2>1 DEF Asked
  <2> HIDE DEF p
  <2> QED BY <2>2, <1>2, OtherEvents
<1>0. Typed(self)
  BY DEF FlowOk
<1>4. Same(self, s, {"busy"}) /\ s.busy
  BY <1>0 DEF Typed, Same, Attributes
<1>5. PICK t : t = self'
  OBVIOUS
<1>6. t = Put(s, e)
  BY <1>1, <1>2, <1>5
<1> HIDE DEF s, p
<1>7. Typed(s) /\ NoFlow(self, s)
  <2>1. Typed(s)
    BY <1>0, <1>4, TypedBut
  <2> QED BY <2>1, <1>4, NoFlowFields DEF FlowFields
<1>8. /\ Typed(t) /\ NoFlow(s, t) /\ Same(s, t, {"ev"})
      /\ StepsDue(t) = StepsDue(s) \cup {e}
      /\ StepsDue(s) = {} => DueSame(s, t)
  BY <1>3, <1>6, <1>7, PutStepIs
<1>9. FlowOk(t)
  BY <1>7, <1>8, FlowOkNoFlow, NoFlowTwice
<1>10. ASSUME Live(self) PROVE Live(t)
  <2>1. s.ev = self.ev /\ s.fcq = self.fcq
    BY <1>4 DEF Same, Attributes
  <2>2. DueSame(self, s) /\ StepsDue(s) = {}
    <3>1. StepsDue(self) = {}
      BY <1>1, <1>10, NoStep DEF Live, Core
    <3> QED BY <3>1, <2>1 DEF DueSame, Due, Firsts, Served, Once, StepsDue
  <2>3. DueSame(self, t) /\ StepsDue(t) = {e}
    BY <2>2, <1>8 DEF DueSame
  <2>4. Same(self, t, {"busy", "ev"}) /\ t.busy
    BY <1>4, <1>8 DEF Same, Attributes
  <2>5. /\ t.phase = "idle" /\ t.wake_wait = self.wake_wait /\ t.susp_wait = self.susp_wait
        /\ t.wake_active = self.wake_active /\ t.susp_active = self.susp_active /\ t.susp_out = self.susp_out
        /\ t.agents = self.agents /\ t.owned = self.owned /\ t.workers = self.workers /\ t.duty = self.duty
    BY <2>4, <1>1 DEF Same, Attributes
  <2>6. /\ Nothing(self) /\ Once(self) /\ self.susp_out \in Nat
        /\ self.wake_active = 0 /\ self.susp_active = 0 /\ Cardinality({}) = 0
        /\ \A i \in Agents : self.agents[i] \notin {"waking", "requesting", "suspending"}
        /\ self.workers = Cardinality(self.owned) /\ self.workers <= DUTY_WORKERS
        /\ self.owned # {} => self.duty
    BY <1>1, <1>10, AtRest DEF Sweeping
  <2>7. Due(t, "wake") = {} /\ Due(t, "sdone") = {} /\ Firsts(t) = {} /\ Once(t)
    BY <2>3, <2>6, DueSameIs DEF Nothing, DueSame
  <2>8. ~Sweeping(t)
    BY <2>5 DEF Sweeping
  <2>9. Ops(t)
    BY <1>3, <2>3, <2>4, <2>5, <2>6, <2>7, <2>8 DEF Ops, Nothing
  <2> QED BY <2>5, <2>6, <2>7, <2>8, <2>9, RestLive
<1> QED BY <1>5, <1>9, <1>10

\* A change of the phase, of busy and of the rate.
LEMMA PhaseIs ==
    ASSUME NEW s, Typed(s), NEW t, Same(s, t, {"busy", "phase", "rate"}),
           t.phase \in Phases, t.busy \in BOOLEAN, t.rate \in Nat
    PROVE Typed(t) /\ NoFlow(s, t)
<1>1. Typed(t)
  BY TypedBut
<1> QED BY <1>1, NoFlowFields DEF FlowFields

LEMMA PreflightKeeps ==
    ASSUME FlowOk(self), PreflightDone
    PROVE FlowOk(self') /\ (Live(self) => Live(self'))
<1>1. PICK e \in Pending : e[1] = "preflight"
        /\ Runs(Put(Settle(Fire(e), Agents, "suspended"), <<"begin", e[2]>>))
  BY DEF PreflightDone
<1>2. PICK d : d = <<"begin", e[2]>>
  OBVIOUS
<1>3. e \in Steps /\ d \in Steps /\ d[1] = "begin"
  <2>1. e \in Events
    BY DEF FlowOk, Typed, Heap, Pending, BagToSet
  <2>2. e[2] \in Asked /\ e = <<"preflight", e[2]>>
    BY <2>1, <1>1, EventForm
  <2> QED BY <2>2, <1>2, OtherEvents
<1>4. PICK s : s = Fire(e)
  OBVIOUS
<1>5. PICK v : v = Settle(s, Agents, "suspended")
  OBVIOUS
<1>6. PICK t : t = self'
  OBVIOUS
<1>7. t = Put(v, d)
  BY <1>1, <1>2, <1>4, <1>5, <1>6 DEF Runs
<1>8. /\ Typed(s) /\ NoFlow(self, s) /\ Same(self, s, {"ev"}) /\ e \in StepsDue(self)
      /\ Live(self) => StepsDue(s) = {} /\ DueSame(self, s) /\ Once(s)
  BY <1>3, <1>4, FireStepIs
<1>9. /\ Typed(v) /\ NoFlow(s, v) /\ Same(s, v, {"agents"})
      /\ \A i \in Agents : v.agents[i] = "suspended"
  <2>1. "suspended" \in States
    BY DEF States
  <2>2. /\ NoFlow(s, v) /\ Same(s, v, {"agents"})
        /\ v.agents = [i \in Agents |-> IF i \in Agents THEN "suspended" ELSE s.agents[i]]
    BY <2>1, <1>5, <1>8, SettleIs
  <2> QED BY <2>2 DEF NoFlow
<1>10. /\ Typed(t) /\ NoFlow(v, t) /\ Same(v, t, {"ev"})
       /\ StepsDue(t) = StepsDue(v) \cup {d}
       /\ StepsDue(v) = {} => DueSame(v, t)
  BY <1>3, <1>7, <1>9, PutStepIs
<1>11. FlowOk(t)
  BY <1>8, <1>9, <1>10, FlowOkNoFlow, NoFlowTwice
<1>12. ASSUME Live(self) PROVE Live(t)
  <2>1. v.ev = s.ev /\ v.fcq = s.fcq
    BY <1>9 DEF Same, Attributes
  <2>2. DueSame(s, v) /\ StepsDue(v) = {}
    BY <2>1, <1>8, <1>12 DEF DueSame, Due, Firsts, Served, Once, StepsDue
  <2>3. DueSame(self, t) /\ StepsDue(t) = {d}
    BY <2>2, <1>8, <1>10, <1>12 DEF DueSame
  <2>4. Same(self, t, {"agents", "ev"}) /\ \A i \in Agents : t.agents[i] = "suspended"
    BY <1>8, <1>9, <1>10 DEF Same, Attributes
  <2>5. self.phase = "idle" /\ self.busy
    BY <1>1, <1>8, <1>12 DEF Live, Core, Ops
  <2>6. /\ t.phase = "idle" /\ t.busy /\ t.wake_wait = self.wake_wait /\ t.susp_wait = self.susp_wait
        /\ t.wake_active = self.wake_active /\ t.susp_active = self.susp_active /\ t.susp_out = self.susp_out
        /\ t.owned = self.owned /\ t.workers = self.workers /\ t.duty = self.duty
    BY <2>4, <2>5 DEF Same, Attributes
  <2>7. /\ Nothing(self) /\ Once(self) /\ self.susp_out \in Nat
        /\ self.wake_active = 0 /\ self.susp_active = 0 /\ Cardinality({}) = 0
        /\ self.workers = Cardinality(self.owned) /\ self.workers <= DUTY_WORKERS
        /\ self.owned # {} => self.duty
    BY <2>5, <1>12, AtRest DEF Sweeping
  <2>8. Due(t, "wake") = {} /\ Due(t, "sdone") = {} /\ Firsts(t) = {} /\ Once(t)
    BY <2>3, <2>7, DueSameIs DEF Nothing, DueSame
  <2>9. ~Sweeping(t)
    BY <2>6 DEF Sweeping
  <2>10. Ops(t)
    BY <1>3, <2>3, <2>6, <2>7, <2>8, <2>9 DEF Ops, Nothing
  <2>11. \A i \in Agents : t.agents[i] \notin {"waking", "requesting", "suspending"}
    BY <2>4
  <2> QED BY <2>6, <2>7, <2>8, <2>9, <2>10, <2>11, RestLive
<1> QED BY <1>6, <1>11, <1>12

LEMMA ReconcileKeeps ==
    ASSUME FlowOk(self), Reconcile
    PROVE FlowOk(self') /\ (Live(self) => Live(self'))
<1> DEFINE s == [self EXCEPT !.busy = TRUE, !.phase = "reconciling", !.rate = 0]
<1>1. ~self.busy /\ self.phase = "idle" /\ self' = Put(s, <<"recon", 0>>)
  BY DEF Reconcile
<1>2. PICK e : e = <<"recon", 0>>
  OBVIOUS
<1>3. e \in Steps /\ e[1] = "recon"
  BY <1>2 DEF Steps
<1>0. Typed(self)
  BY DEF FlowOk
<1>4. Same(self, s, {"busy", "phase", "rate"}) /\ s.busy = TRUE /\ s.phase = "reconciling" /\ s.rate = 0
  BY <1>0 DEF Typed, Same, Attributes
<1>5. PICK t : t = self'
  OBVIOUS
<1>6. t = Put(s, e)
  BY <1>1, <1>2, <1>5
<1> HIDE DEF s
<1>7. Typed(s) /\ NoFlow(self, s)
  <2>1. s.phase \in Phases /\ s.rate \in Nat
    BY <1>4 DEF Phases
  <2>2. s.busy \in BOOLEAN
    BY <1>4
  <2> QED BY <2>1, <2>2, <1>0, <1>4, PhaseIs
<1>8. /\ Typed(t) /\ NoFlow(s, t) /\ Same(s, t, {"ev"})
      /\ StepsDue(t) = StepsDue(s) \cup {e}
      /\ StepsDue(s) = {} => DueSame(s, t)
  BY <1>3, <1>6, <1>7, PutStepIs
<1>9. FlowOk(t)
  BY <1>7, <1>8, FlowOkNoFlow, NoFlowTwice
<1>10. ASSUME Live(self) PROVE Live(t)
  <2>1. s.ev = self.ev /\ s.fcq = self.fcq
    BY <1>4 DEF Same, Attributes
  <2>2. DueSame(self, s) /\ StepsDue(s) = {}
    <3>1. StepsDue(self) = {}
      BY <1>1, <1>10, NoStep DEF Live, Core
    <3> QED BY <3>1, <2>1 DEF DueSame, Due, Firsts, Served, Once, StepsDue
  <2>3. DueSame(self, t) /\ StepsDue(t) = {e}
    BY <2>2, <1>8 DEF DueSame
  <2>4. Same(self, t, {"busy", "phase", "rate", "ev"}) /\ t.busy /\ t.phase = "reconciling"
    BY <1>4, <1>8 DEF Same, Attributes
  <2>5. /\ t.wake_wait = self.wake_wait /\ t.susp_wait = self.susp_wait
        /\ t.wake_active = self.wake_active /\ t.susp_active = self.susp_active /\ t.susp_out = self.susp_out
        /\ t.agents = self.agents /\ t.owned = self.owned /\ t.workers = self.workers /\ t.duty = self.duty
    BY <2>4 DEF Same, Attributes
  <2>6. /\ Nothing(self) /\ Once(self) /\ self.susp_out \in Nat
        /\ self.wake_active = 0 /\ self.susp_active = 0 /\ Cardinality({}) = 0
        /\ self.workers = Cardinality(self.owned) /\ self.workers <= DUTY_WORKERS
        /\ self.owned # {} => self.duty
    BY <1>1, <1>10, AtRest DEF Sweeping
  <2>7. Due(t, "wake") = {} /\ Due(t, "sdone") = {} /\ Firsts(t) = {} /\ Once(t)
    BY <2>3, <2>6, DueSameIs DEF Nothing, DueSame
  <2>8. ~Sweeping(t)
    BY <2>4 DEF Sweeping
  <2>9. Ops(t)
    BY <1>3, <2>3, <2>4, <2>5, <2>6, <2>7, <2>8 DEF Ops, Nothing
  <2> QED BY <2>4, <2>5, <2>6, <2>7, <2>8, <2>9, RestLive
<1> QED BY <1>5, <1>9, <1>10

LEMMA ReconDoneKeeps ==
    ASSUME FlowOk(self), ReconDone
    PROVE FlowOk(self') /\ (Live(self) => Live(self'))
<1>1. PICK e \in Pending : e[1] = "recon"
        /\ Runs([Settle(Fire(e), Agents, "suspended") EXCEPT !.phase = "idle", !.busy = FALSE])
  BY DEF ReconDone
<1>2. e \in Steps
  <2>1. e \in Events
    BY DEF FlowOk, Typed, Heap, Pending, BagToSet
  <2> QED BY <2>1, <1>1, EventForm DEF Steps
<1>3. PICK s : s = Fire(e)
  OBVIOUS
<1>4. PICK v : v = Settle(s, Agents, "suspended")
  OBVIOUS
<1> DEFINE t == [v EXCEPT !.phase = "idle", !.busy = FALSE]
<1>5. self' = t
  BY <1>1, <1>3, <1>4 DEF Runs
<1>6. /\ Typed(s) /\ NoFlow(self, s) /\ Same(self, s, {"ev"}) /\ e \in StepsDue(self)
      /\ Live(self) => StepsDue(s) = {} /\ DueSame(self, s) /\ Once(s)
  BY <1>2, <1>3, FireStepIs
<1>7. /\ Typed(v) /\ NoFlow(s, v) /\ Same(s, v, {"agents"})
      /\ \A i \in Agents : v.agents[i] = "suspended"
  <2>1. "suspended" \in States
    BY DEF States
  <2>2. /\ NoFlow(s, v) /\ Same(s, v, {"agents"})
        /\ v.agents = [i \in Agents |-> IF i \in Agents THEN "suspended" ELSE s.agents[i]]
    BY <2>1, <1>4, <1>6, SettleIs
  <2> QED BY <2>2 DEF NoFlow
<1>8. Same(v, t, {"phase", "busy"}) /\ t.phase = "idle" /\ t.busy = FALSE
  BY <1>7 DEF Typed, Same, Attributes
<1> HIDE DEF t
<1>9. Typed(t) /\ NoFlow(v, t)
  <2>1. t.phase \in Phases
    BY <1>8 DEF Phases
  <2>2. t.busy \in BOOLEAN
    BY <1>8
  <2>3. Same(v, t, {"busy", "phase", "rate"}) /\ t.rate = v.rate
    BY <1>8 DEF Same, Attributes
  <2>4. t.rate \in Nat
    BY <2>3, <1>7 DEF Typed
  <2> QED BY <2>1, <2>2, <2>3, <2>4, <1>7, PhaseIs
<1>10. FlowOk(t)
  BY <1>6, <1>7, <1>9, FlowOkNoFlow, NoFlowTwice
<1>11. ASSUME Live(self) PROVE Live(t)
  <2>1. t.ev = s.ev /\ t.fcq = s.fcq
    BY <1>7, <1>8 DEF Same, Attributes
  <2>2. DueSame(self, t) /\ StepsDue(t) = {}
    BY <2>1, <1>6, <1>11 DEF DueSame, Due, Firsts, Served, Once, StepsDue
  <2>3. Same(self, t, {"agents", "phase", "busy", "ev"}) /\ \A i \in Agents : t.agents[i] = "suspended"
    BY <1>6, <1>7, <1>8 DEF Same, Attributes
  <2>4. self.phase = "reconciling"
    BY <1>1, <1>6, <1>11 DEF Live, Core, Ops
  <2>5. /\ t.wake_wait = self.wake_wait /\ t.susp_wait = self.susp_wait
        /\ t.wake_active = self.wake_active /\ t.susp_active = self.susp_active /\ t.susp_out = self.susp_out
        /\ t.owned = self.owned /\ t.workers = self.workers /\ t.duty = self.duty
    BY <2>3 DEF Same, Attributes
  <2>6. /\ Nothing(self) /\ Once(self) /\ self.susp_out \in Nat
        /\ self.wake_active = 0 /\ self.susp_active = 0 /\ Cardinality({}) = 0
        /\ self.workers = Cardinality(self.owned) /\ self.workers <= DUTY_WORKERS
        /\ self.owned # {} => self.duty
    BY <2>4, <1>11, AtRest DEF Sweeping
  <2>7. Due(t, "wake") = {} /\ Due(t, "sdone") = {} /\ Firsts(t) = {} /\ Once(t)
    BY <2>2, <2>6, DueSameIs DEF Nothing, DueSame
  <2>8. ~Sweeping(t)
    BY <1>8 DEF Sweeping
  <2>9. Ops(t)
    BY <1>8, <2>2, <2>5, <2>6, <2>7, <2>8 DEF Ops, Nothing
  <2>10. \A i \in Agents : t.agents[i] \notin {"waking", "requesting", "suspending"}
    BY <2>3
  <2> QED BY <1>8, <2>5, <2>6, <2>7, <2>8, <2>9, <2>10, RestLive
<1> QED BY <1>5, <1>10, <1>11

\* Suspend is refused until every woken agent got its first reply.
LEMMA SuspendKeeps ==
    ASSUME FlowOk(self), Suspend
    PROVE FlowOk(self') /\ (Live(self) => Live(self') /\ Firsts(self) = {})
<1> DEFINE s == [self EXCEPT !.busy = TRUE, !.phase = "suspending", !.rate = 0]
<1>1. ~self.busy /\ self.phase \notin {"waking", "suspending"} /\ self' = Put(s, <<"drain", 0>>)
  BY DEF Suspend
<1>2. PICK e : e = <<"drain", 0>>
  OBVIOUS
<1>3. e \in Steps /\ e[1] = "drain"
  BY <1>2 DEF Steps
<1>0. Typed(self)
  BY DEF FlowOk
<1>4. Same(self, s, {"busy", "phase", "rate"}) /\ s.busy = TRUE /\ s.phase = "suspending" /\ s.rate = 0
  BY <1>0 DEF Typed, Same, Attributes
<1>5. PICK t : t = self'
  OBVIOUS
<1>6. t = Put(s, e)
  BY <1>1, <1>2, <1>5
<1> HIDE DEF s
<1>7. Typed(s) /\ NoFlow(self, s)
  <2>1. s.phase \in Phases /\ s.rate \in Nat
    BY <1>4 DEF Phases
  <2>2. s.busy \in BOOLEAN
    BY <1>4
  <2> QED BY <2>1, <2>2, <1>0, <1>4, PhaseIs
<1>8. /\ Typed(t) /\ NoFlow(s, t) /\ Same(s, t, {"ev"})
      /\ StepsDue(t) = StepsDue(s) \cup {e}
      /\ StepsDue(s) = {} => DueSame(s, t)
  BY <1>3, <1>6, <1>7, PutStepIs
<1>9. FlowOk(t)
  BY <1>7, <1>8, FlowOkNoFlow, NoFlowTwice
<1>10. ASSUME Live(self) PROVE Live(t) /\ Firsts(self) = {}
  <2>1. s.ev = self.ev /\ s.fcq = self.fcq
    BY <1>4 DEF Same, Attributes
  <2>2. DueSame(self, s) /\ StepsDue(s) = {}
    <3>1. StepsDue(self) = {}
      BY <1>1, <1>10, NoStep DEF Live, Core
    <3> QED BY <3>1, <2>1 DEF DueSame, Due, Firsts, Served, Once, StepsDue
  <2>3. DueSame(self, t) /\ StepsDue(t) = {e}
    BY <2>2, <1>8 DEF DueSame
  <2>4. Same(self, t, {"busy", "phase", "rate", "ev"}) /\ t.busy /\ t.phase = "suspending"
    BY <1>4, <1>8 DEF Same, Attributes
  <2>5. /\ t.wake_wait = self.wake_wait /\ t.susp_wait = self.susp_wait
        /\ t.wake_active = self.wake_active /\ t.susp_active = self.susp_active /\ t.susp_out = self.susp_out
        /\ t.agents = self.agents /\ t.owned = self.owned /\ t.workers = self.workers /\ t.duty = self.duty
    BY <2>4 DEF Same, Attributes
  <2>6. Nothing(self)
    <3>1. Due(self, "wake") = {} /\ self.wake_wait = {} /\ Due(self, "sdone") = {} /\ self.susp_wait = {}
      BY <1>1, <1>10 DEF Live, Core, Ops, Sweeping
    <3>2. self.phase = "running" /\ ~Quiet(self) => Open(self) = {}
      BY <1>1, <1>10 DEF Live, Core, Lives
    <3>3. Firsts(self) = {}
      <4>1. Firsts(self) # {} => self.phase = "running" /\ ~Quiet(self)
        BY <1>1, <1>10 DEF Live, Core, Ops
      <4>2. Open(self) = {} => Firsts(self) = {}
        BY OpenParts DEF Nothing
      <4> QED BY <4>1, <4>2, <3>2
    <3>4. FirstOf(self) = {}
      BY <3>3 DEF FirstOf
    <3> QED BY <3>1, <3>3, <3>4, OpenParts DEF Open
  <2>7. /\ Once(self) /\ self.susp_out \in Nat
        /\ self.wake_active = 0 /\ self.susp_active = 0 /\ Cardinality({}) = 0
    BY <2>6, <1>10, CountsNothing, FS_EmptySet DEF Live, Nothing
  <2>8. /\ self.workers = Cardinality(self.owned) /\ self.workers <= DUTY_WORKERS
        /\ self.owned # {} => self.duty
    BY <1>10 DEF Live, Own
  <2>9. Due(t, "wake") = {} /\ Due(t, "sdone") = {} /\ Firsts(t) = {} /\ Once(t)
    BY <2>3, <2>6, <2>7, DueSameIs DEF Nothing, DueSame
  <2>10. ~Sweeping(t)
    BY <1>2, <1>3, <2>3 DEF Sweeping, DrainDue
  <2>11. Ops(t)
    BY <1>3, <2>3, <2>4, <2>5, <2>6, <2>9, <2>10 DEF Ops, Nothing
  <2>12. Live(t)
    BY <2>4, <2>5, <2>7, <2>8, <2>9, <2>10, <2>11, RestLive
  <2> QED BY <2>6, <2>12 DEF Nothing
<1> QED BY <1>5, <1>9, <1>10

\* The driver as it starts, or after a reset, which keeps the pods and the duty cycle's flag.
LEMMA ResetIs ==
    ASSUME NEW t, Same(ResetAll, t, {"pods", "duty"}), t.pods \in 0..2, t.duty \in BOOLEAN
    PROVE FlowOk(t) /\ Live(t)
<1>1. /\ DOMAIN t = Attributes /\ t.agents = [i \in Agents |-> "suspended"] /\ t.phase = "idle"
      /\ t.busy = FALSE /\ t.rate = 0 /\ t.strategy = "roundrobin"
  BY DEF Same, ResetAll, Attributes
<1>2. /\ t.ev = EmptyBag /\ t.fcq = <<>> /\ t.handoff = 0 /\ t.epp = 0 /\ t.inflight = 0
      /\ t.susp_active = 0 /\ t.susp_wait = {} /\ t.susp_out = 0 /\ t.owned = {} /\ t.workers = 0
      /\ t.wake_wait = {} /\ t.wake_active = 0 /\ t.pending = 0
  BY DEF Same, ResetAll, Attributes
<1>3. /\ t.t0 = FALSE /\ t.n = 0 /\ t.hold = FALSE /\ t.wake_only = FALSE /\ t.started = FALSE
      /\ t.conc = 0 /\ t.woke = 0 /\ t.wake_failed = 0 /\ t.wake_done = FALSE /\ t.first_done = FALSE
  BY DEF Same, ResetAll, Attributes
<1>4. DOMAIN t.ev = {} /\ IsABag(t.ev)
  BY <1>2 DEF EmptyBag, SetToBag, IsABag
<1>5. Heap(t.ev)
  BY <1>4, FS_EmptySet DEF Heap
<1>6. Typed(t)
  <2>1. t.agents \in [Agents -> States] /\ t.phase \in Phases
    BY <1>1 DEF States, Phases
  <2>2. /\ t.busy \in BOOLEAN /\ t.t0 \in BOOLEAN /\ t.hold \in BOOLEAN /\ t.wake_only \in BOOLEAN
        /\ t.started \in BOOLEAN
    BY <1>1, <1>3
  <2>3. t.duty \in BOOLEAN /\ t.wake_done \in BOOLEAN /\ t.first_done \in BOOLEAN
    BY <1>1, <1>3
  <2>4. t.strategy \in {"roundrobin", "flow"} /\ t.pods \in 0..2 /\ t.rate \in Nat
    BY <1>1
  <2>5. t.fcq \in Seq(Requests)
    <3>1. <<>> \in Seq(Requests)
      OBVIOUS
    <3> QED BY <3>1, <1>2
  <2>6. t.owned \subseteq Agents /\ t.wake_wait \subseteq Agents /\ t.susp_wait \subseteq Agents
    BY <1>2
  <2>7. /\ t.n \in 0..TOTAL /\ t.pending \in Nat /\ t.woke \in Nat /\ t.wake_failed \in Nat /\ t.conc \in Nat
    BY <1>2, <1>3, MockAssumption
  <2>8. /\ t.inflight \in Int /\ t.handoff \in Int /\ t.epp \in Int /\ t.workers \in Int
        /\ t.wake_active \in Int /\ t.susp_active \in Int /\ t.susp_out \in Int
    BY <1>2
  <2> QED BY <1>1, <1>5, <2>1, <2>2, <2>3, <2>4, <2>5, <2>6, <2>7, <2>8 DEF Typed
<1>7. \A E : Count(t, E) = 0
  <2> TAKE E
  <2>1. Lot(t.ev, E) = {}
    BY <1>4 DEF Lot, Copies
  <2> QED BY <2>1, CountIsLot, FS_EmptySet
<1>8. Balanced(t, 0, 0, 0)
  <2>1. Len(t.fcq) = 0
    BY <1>2
  <2> QED BY <2>1, <1>2, <1>7 DEF Balanced
<1>9. Paced(t) /\ NoRoom(t)
  BY <1>2, <1>4 DEF Paced, NoRoom
<1>10. \A k : Due(t, k) = {}
  BY <1>4 DEF Due
<1>11. StepsDue(t) = {} /\ Firsts(t) = {} /\ Once(t)
  BY <1>4 DEF StepsDue, Firsts, Once
<1>12. Cardinality({}) = 0 /\ ~Sweeping(t)
  BY <1>1, FS_EmptySet DEF Sweeping
<1>13. Ops(t)
  BY <1>1, <1>2, <1>10, <1>11, <1>12 DEF Ops
<1>14. \A i \in Agents : t.agents[i] \notin {"waking", "requesting", "suspending"}
  BY <1>1
<1>15. 0 <= DUTY_WORKERS
  BY MockAssumption
<1>16. Live(t)
  <2>1. t.wake_active = Cardinality(Due(t, "wake")) /\ t.susp_active = Cardinality(Due(t, "sdone"))
    BY <1>2, <1>10, <1>12
  <2>2. t.workers = Cardinality(t.owned) /\ t.workers <= DUTY_WORKERS /\ t.owned = {} /\ t.susp_out \in Nat
    BY <1>2, <1>12, <1>15
  <2> QED BY <2>1, <2>2, <1>1, <1>11, <1>12, <1>13, <1>14, RestLive
<1> QED BY <1>6, <1>8, <1>9, <1>16 DEF FlowOk

LEMMA InitKeeps ==
    ASSUME Init
    PROVE FlowOk(self) /\ Live(self)
<1>1. self = ResetAll
  BY DEF Init
<1>2. DOMAIN ResetAll = Attributes /\ ResetAll.pods = 2 /\ ResetAll.duty = FALSE
  BY DEF ResetAll, Attributes
<1>3. Same(ResetAll, self, {"pods", "duty"}) /\ self.pods = 2 /\ self.duty = FALSE
  BY <1>1, <1>2 DEF Same
<1>4. self.pods \in 0..2
  BY <1>3
<1>5. self.duty \in BOOLEAN
  BY <1>3
<1> QED BY <1>3, <1>4, <1>5, ResetIs

LEMMA MockControlKeeps ==
    ASSUME FlowOk(self), MockControl
    PROVE FlowOk(self') /\ (Live(self) => Live(self'))
<1>0. Typed(self) /\ Balanced(self, 0, 0, 0) /\ Paced(self)
  BY DEF FlowOk
<1>1. CASE self' = [ResetAll EXCEPT !.pods = self.pods, !.duty = self.duty]
  <2>1. self.pods \in 0..2 /\ self.duty \in BOOLEAN
    BY <1>0 DEF Typed
  <2>2. PICK t : t = self'
    OBVIOUS
  <2>3. DOMAIN ResetAll = Attributes
    BY DEF ResetAll, Attributes
  <2>4. Same(ResetAll, t, {"pods", "duty"}) /\ t.pods = self.pods /\ t.duty = self.duty
    BY <1>1, <2>2, <2>3 DEF Same, Attributes
  <2>5. FlowOk(t) /\ Live(t)
    BY <2>1, <2>4, ResetIs
  <2> QED BY <2>2, <2>5
<1>2. CASE \E p \in 0..2 \ {self.pods} : self' = FcPump([self EXCEPT !.pods = p])
  <2>1. PICK p \in 0..2 : self' = FcPump([self EXCEPT !.pods = p])
    BY <1>2
  <2> DEFINE s == [self EXCEPT !.pods = p]
  <2>2. Same(self, s, {"pods"}) /\ s.pods = p
    BY <1>0 DEF Typed, Same, Attributes
  <2>3. self' = FcPump(s)
    BY <2>1
  <2> HIDE DEF s
  <2>4. s.ev = self.ev /\ s.fcq = self.fcq /\ s.inflight = self.inflight /\ s.handoff = self.handoff
        /\ s.epp = self.epp
    BY <2>2 DEF Same, Attributes
  <2>5. Typed(s)
    BY <1>0, <2>2, TypedBut
  <2>6. Balanced(s, 0, 0, 0) /\ Paced(s)
    BY <1>0, <2>4, CountIsLot DEF Balanced, Paced
  <2>7. FlowOk(FcPump(s))
    BY <2>5, <2>6, PumpFlow DEF FlowOk
  <2>8. LiveSame(self, s)
    <3>1. {"pods"} \cap (CoreFields \cup {"agents", "owned", "workers", "ev", "fcq"}) = {}
      BY DEF CoreFields
    <3> QED BY <3>1, <2>2, LiveFields
  <2>9. Live(self) => Live(s)
    BY <2>8, LiveKept
  <2>10. Live(self) => Live(FcPump(s))
    BY <2>5, <2>6, <2>9, PumpLive
  <2> QED BY <2>3, <2>7, <2>10
<1> QED BY <1>1, <1>2 DEF MockControl

LEMMA SetStrategyKeeps ==
    ASSUME FlowOk(self), SetStrategy
    PROVE FlowOk(self') /\ (Live(self) => Live(self'))
<1>1. PICK mode \in {"roundrobin", "flow"} :
        self' = FcPump([self EXCEPT !.strategy = mode,
                                    !.rate = IF self.phase = "running" /\ @ > 0 THEN 1 ELSE @])
  BY DEF SetStrategy
<1> DEFINE s == [self EXCEPT !.strategy = mode,
                             !.rate = IF self.phase = "running" /\ @ > 0 THEN 1 ELSE @]
<1>0. Typed(self) /\ Balanced(self, 0, 0, 0) /\ Paced(self)
  BY DEF FlowOk
<1>2. Same(self, s, {"strategy", "rate"}) /\ s.strategy = mode /\ s.rate \in {self.rate, 1}
  BY <1>0 DEF Typed, Same, Attributes
<1>3. self' = FcPump(s)
  BY <1>1
<1> HIDE DEF s
<1>4. s.ev = self.ev /\ s.fcq = self.fcq /\ s.inflight = self.inflight /\ s.handoff = self.handoff
      /\ s.epp = self.epp
  BY <1>2 DEF Same, Attributes
<1>5. Typed(s)
  <2>1. s.rate \in Nat
    BY <1>0, <1>2 DEF Typed
  <2>2. s.strategy \in {"roundrobin", "flow"}
    BY <1>2
  <2>3. Same(self, s, {"strategy", "rate"})
    BY <1>2
  <2> QED BY <1>0, <2>1, <2>2, <2>3, TypedBut
<1>6. Balanced(s, 0, 0, 0) /\ Paced(s)
  BY <1>0, <1>4, CountIsLot DEF Balanced, Paced
<1>7. FlowOk(FcPump(s))
  BY <1>5, <1>6, PumpFlow DEF FlowOk
<1>8. LiveSame(self, s)
  <2>1. {"strategy", "rate"} \cap (CoreFields \cup {"agents", "owned", "workers", "ev", "fcq"}) = {}
    BY DEF CoreFields
  <2> QED BY <2>1, <1>2, LiveFields
<1>9. Live(self) => Live(s)
  BY <1>8, LiveKept
<1>10. Live(self) => Live(FcPump(s))
  BY <1>5, <1>6, <1>9, PumpLive
<1> QED BY <1>3, <1>7, <1>10

-----------------------------------------------------------------------------
(* Traffic: some agents get a worker, the others are parked. *)
LEMMA StartDutyIs ==
    ASSUME NEW s, Typed(s), NEW t \in StartDutyCycle(s)
    PROVE NoFlow(s, t) /\ (Live(s) /\ s.phase \in {"waking", "running"} /\ ~s.duty => Live(t))
<1> DEFINE awake == In(s, {"running", "waking"}) \cap 0..s.n - 1
           size == IF Cardinality(awake) < DUTY_WORKERS THEN Cardinality(awake) ELSE DUTY_WORKERS
           plan(J) == {<<IF i \in J THEN "duty_send" ELSE "duty_park", i>> : i \in awake}
<1>1. PICK I \in {J \in SUBSET awake : Cardinality(J) = size} :
        t = [Sched(s, plan(I)) EXCEPT !.started = TRUE, !.duty = TRUE, !.workers = size, !.owned = @ \cup I]
  BY DEF StartDutyCycle
<1>2. /\ I \subseteq awake /\ awake \subseteq Agents /\ Cardinality(I) = size
      /\ \A i \in awake : s.agents[i] \in {"running", "waking"}
  BY DEF In
<1>3. size \in Nat /\ size <= DUTY_WORKERS
  <2>1. Cardinality(awake) \in Nat
    BY <1>2, AgentsFinite, FS_CardinalityType
  <2> QED BY <2>1, MockAssumption
<1>4. PICK E : E = plan(I)
  OBVIOUS
<1>5. /\ \A e \in E : e[1] \in {"duty_send", "duty_park"} /\ e[2] \in awake /\ e = <<e[1], e[2]>>
      /\ \A i \in I : <<"duty_send", i>> \in E
  BY <1>2, <1>4
<1>6. PICK u : u = Sched(s, E)
  OBVIOUS
<1>7. t = [u EXCEPT !.started = TRUE, !.duty = TRUE, !.workers = size, !.owned = @ \cup I]
  BY <1>1, <1>4, <1>6
<1> HIDE DEF size, plan, awake
<1>8. E \subseteq Events /\ IsFiniteSet(E) /\ \A e \in E : ~Requesting(e)
  <2>1. {"duty_send", "duty_park"} \subseteq AgentKinds
    BY DEF AgentKinds
  <2>2. \A e \in E : e[1] \in AgentKinds /\ e[2] \in Agents /\ e = <<e[1], e[2]>>
    BY <2>1, <1>2, <1>5
  <2>3. E \subseteq AgentKinds \X Agents
    BY <2>2
  <2>4. IsFiniteSet(E)
    BY <2>3, EventsFinite
  <2>5. \A e \in E : e \in Events /\ ~Requesting(e)
    BY <2>2, OtherEvents
  <2> QED BY <2>4, <2>5
<1>9. /\ Typed(u) /\ Same(s, u, {"ev"}) /\ NoFlow(s, u)
      /\ DOMAIN u.ev = DOMAIN s.ev \cup E
      /\ \A d : Times(u.ev, d) = Times(s.ev, d) + (IF d \in E THEN 1 ELSE 0)
  BY <1>6, <1>8, SchedIs
<1>10. /\ Same(u, t, {"started", "duty", "workers", "owned"})
       /\ t.started = TRUE /\ t.duty = TRUE /\ t.workers = size /\ t.owned = u.owned \cup I
  BY <1>7, <1>9 DEF Typed, Same, Attributes
<1>11. Typed(t) /\ NoFlow(u, t)
  <2>1. t.started \in BOOLEAN /\ t.duty \in BOOLEAN
    BY <1>10
  <2>2. t.workers \in Int
    BY <1>3, <1>10
  <2>3. t.owned \subseteq Agents
    BY <1>2, <1>9, <1>10 DEF Typed
  <2>4. Same(u, t, {"started", "duty", "workers", "owned"})
    BY <1>10
  <2>5. Typed(t)
    BY <1>9, <2>1, <2>2, <2>3, <2>4, TypedBut
  <2> QED BY <2>4, <2>5, NoFlowFields DEF FlowFields
<1>12. NoFlow(s, t)
  BY <1>9, <1>11, NoFlowTwice
<1>13. ASSUME Live(s), s.phase \in {"waking", "running"}, ~s.duty PROVE Live(t)
  <2>1. /\ t.phase = s.phase /\ t.busy = s.busy /\ t.t0 = s.t0 /\ t.n = s.n /\ t.hold = s.hold
        /\ t.wake_only = s.wake_only
        /\ t.woke = s.woke /\ t.wake_failed = s.wake_failed /\ t.first_done = s.first_done
        /\ t.pending = s.pending /\ t.wake_wait = s.wake_wait /\ t.wake_active = s.wake_active
        /\ t.susp_active = s.susp_active /\ t.susp_wait = s.susp_wait /\ t.susp_out = s.susp_out
        /\ t.agents = s.agents /\ t.fcq = s.fcq /\ u.owned = s.owned /\ t.ev = u.ev
        /\ t.started /\ t.duty
    BY <1>9, <1>10 DEF Same, Attributes
  <2>2. DOMAIN t.ev = DOMAIN s.ev \cup E
    BY <2>1, <1>9
  <2>3. Due(t, "wake") = Due(s, "wake") /\ Due(t, "sdone") = Due(s, "sdone")
        /\ Due(t, "duty_wake") = Due(s, "duty_wake") /\ Due(t, "duty_susp_done") = Due(s, "duty_susp_done")
    <3>1. \A k \in {"wake", "sdone", "duty_wake", "duty_susp_done"} : \A i : <<k, i>> \notin E
      BY <1>5
    <3> QED BY <3>1, <2>2 DEF Due
  <2>4. I \subseteq Due(t, "duty_send")
    BY <1>2, <1>5, <2>2 DEF Due
  <2>5. Firsts(t) = Firsts(s) /\ FirstOf(t) = FirstOf(s)
    <3>1. \A r : <<"reply", r>> \notin E
      BY <1>5
    <3>2. Firsts(t) = Firsts(s)
      BY <3>1, <2>2 DEF Firsts
    <3> QED BY <3>2 DEF FirstOf
  <2>6. StepsDue(t) = StepsDue(s)
    <3>1. \A e \in Steps : e \notin E
      BY <1>5 DEF Steps
    <3> QED BY <3>1, <2>2 DEF StepsDue
  <2>7. Once(t)
    <3>1. \A e \in E : ~Single(e)
      BY <1>5 DEF Single, Steps
    <3>2. Adds(s, t, E)
      BY <2>1, <1>9 DEF Adds
    <3>3. Heap(s.ev) /\ Once(s)
      BY <1>13 DEF Typed, Live, Core, Lives
    <3> QED BY <3>1, <3>2, <3>3, AddsOnce
  <2>8. s.owned = {}
    BY <1>13 DEF Live, Own
  <2>9. Open(t) = Open(s)
    BY <2>1, <2>3, <2>5 DEF Open
  <2>10. ~Sweeping(t) /\ ~Sweeping(s)
    BY <2>1, <1>13 DEF Sweeping
  <2>11. Ops(t)
    <3>1. Ops(s)
      BY <1>13 DEF Live, Core
    <3> QED BY <3>1, <2>1, <2>3, <2>5, <2>6, <2>10, <1>13 DEF Ops, Quiet
  <2>12. Wakes(t, 0)
    BY <2>1, <2>3, <1>13 DEF Live, Core, Wakes, Known
  <2>13. Lives(t, {})
    <3>1. Lives(s, {}) /\ Ops(s)
      BY <1>13 DEF Live, Core
    <3>2. CASE s.phase = "waking" \/ ~Quiet(s)
      BY <3>1, <3>2, <2>1, <2>3, <2>5, <2>7, <2>9, <1>13 DEF Lives
    <3>3. CASE s.phase = "running" /\ Quiet(s)
      <4>1. Open(s) = {}
        <5>1. Due(s, "wake") = {} /\ s.wake_wait = {} /\ Due(s, "sdone") = {} /\ s.susp_wait = {}
          BY <3>1, <3>3, <2>10 DEF Ops
        <5>2. FirstOf(s) = {}
          BY <3>1, <3>3 DEF Ops, FirstOf
        <5> QED BY <5>1, <5>2 DEF Open
      <4>2. s.pending >= Cardinality({})
        BY FS_EmptySet DEF Typed
      <4> QED BY <4>1, <4>2, <3>1, <2>1, <2>3, <2>5, <2>7, <2>9 DEF Lives
    <3> QED BY <3>2, <3>3, <1>13
  <2>14. Susps(t, {})
    BY <2>1, <2>3, <2>10, <1>13 DEF Live, Core, Susps
  <2>15. Calm(t, {})
    BY <2>1, <2>3, <2>5, <2>10, <1>13 DEF Live, Calm
  <2>16. Own(t, {})
    <3>1. t.owned = I /\ t.workers = Cardinality(I) /\ t.workers <= DUTY_WORKERS /\ t.duty
      BY <2>1, <2>8, <1>2, <1>3, <1>10
    <3>2. \A i \in I : t.agents[i] \in {"running", "waking"}
      BY <2>1, <1>2
    <3>3. I \subseteq DutyDue(t) /\ I \subseteq Due(t, "duty_send")
      BY <2>4 DEF DutyDue
    <3>4. t.phase = "waking" => Due(t, "duty_wake") \cup Due(t, "duty_susp_done") = {}
      BY <2>1, <2>3, <1>13 DEF Live, Own
    <3> QED BY <3>1, <3>2, <3>3, <3>4, <2>1 DEF Own
  <2> QED BY <2>11, <2>12, <2>13, <2>14, <2>15, <2>16 DEF Live, Core
<1> QED BY <1>12, <1>13

\* A new rate.
LEMMA RateIs ==
    ASSUME NEW s, Typed(s), NEW x \in Nat, NEW t, t = [s EXCEPT !.rate = x]
    PROVE /\ Typed(t) /\ NoFlow(s, t) /\ t.phase = s.phase /\ t.duty = s.duty /\ t.t0 = s.t0
          /\ Live(s) => Live(t)
<1>1. Same(s, t, {"rate"}) /\ t.rate = x
  BY DEF Typed, Same, Attributes
<1>2. Typed(t)
  BY <1>1, TypedBut
<1>3. NoFlow(s, t)
  BY <1>1, <1>2, NoFlowFields DEF FlowFields
<1>4. {"rate"} \cap (CoreFields \cup {"agents", "owned", "workers", "ev", "fcq"}) = {}
  BY DEF CoreFields
<1>5. LiveSame(s, t)
  BY <1>1, <1>4, LiveFields
<1> QED BY <1>1, <1>2, <1>3, <1>5, LiveKept DEF Same, Attributes

LEMMA SetTrafficKeeps ==
    ASSUME FlowOk(self), SetTraffic
    PROVE FlowOk(self') /\ (Live(self) => Live(self'))
<1>1. PICK rate \in 0..2 :
        LET s == [self EXCEPT !.rate = rate] IN
        IF rate > 0 /\ s.phase = "running" /\ s.t0 /\ ~s.duty THEN self' \in StartDutyCycle(s)
        ELSE self' = s
  BY DEF SetTraffic
<1>2. PICK s : s = [self EXCEPT !.rate = rate]
  OBVIOUS
<1>3. Typed(self)
  BY DEF FlowOk
<1>4. PICK t : t = self'
  OBVIOUS
<1>5. /\ Typed(s) /\ NoFlow(self, s) /\ s.phase = self.phase /\ s.duty = self.duty
      /\ Live(self) => Live(s)
  BY <1>2, <1>3, RateIs
<1>6. FlowOk(s)
  BY <1>5, FlowOkNoFlow
<1>7. CASE t = s
  BY <1>4, <1>5, <1>6, <1>7
<1>8. CASE t \in StartDutyCycle(s) /\ s.phase = "running" /\ ~s.duty
  <2>1. NoFlow(s, t) /\ (Live(s) => Live(t))
    BY <1>5, <1>8, StartDutyIs
  <2> QED BY <2>1, <1>4, <1>5, <1>6, FlowOkNoFlow
<1> QED BY <1>1, <1>2, <1>4, <1>7, <1>8

LEMMA SimulateTrafficKeeps ==
    ASSUME FlowOk(self), SimulateTraffic
    PROVE FlowOk(self') /\ (Live(self) => Live(self'))
<1>1. PICK t : t = self'
  OBVIOUS
<1>2. PICK s : s = [self EXCEPT !.rate = 1]
  OBVIOUS
<1>3. PICK v : v = [self EXCEPT !.rate = 0]
  OBVIOUS
<1>4. /\ t = v \/ t = s \/ (t \in StartDutyCycle(s) /\ ~s.duty)
      /\ self.phase \in {"running", "waking"}
  BY <1>1, <1>2, <1>3 DEF SimulateTraffic
<1>5. Typed(self)
  BY DEF FlowOk
<1>6. /\ Typed(s) /\ NoFlow(self, s) /\ s.phase = self.phase /\ s.duty = self.duty
      /\ Live(self) => Live(s)
  BY <1>2, <1>5, RateIs
<1>7. NoFlow(self, v) /\ (Live(self) => Live(v))
  BY <1>3, <1>5, RateIs
<1>8. FlowOk(s) /\ FlowOk(v)
  BY <1>6, <1>7, FlowOkNoFlow
<1>9. CASE t = v \/ t = s
  BY <1>1, <1>6, <1>7, <1>8, <1>9
<1>10. CASE t \in StartDutyCycle(s) /\ ~s.duty
  <2>1. NoFlow(s, t) /\ (Live(s) => Live(t))
    BY <1>4, <1>6, <1>10, StartDutyIs
  <2> QED BY <2>1, <1>1, <1>4, <1>6, <1>8, FlowOkNoFlow
<1> QED BY <1>4, <1>9, <1>10

-----------------------------------------------------------------------------
(* The events of the duty cycle, one agent in hand. *)
\* Calm and Own for the agent i alone, and for all the others.
AtEase(s, i) == LET x == s.agents[i] IN
    /\ s.phase = "waking" => /\ x = "waking" => i \in Due(s, "wake")
                             /\ i \in Due(s, "wake") => x = "waking" \/ s.duty
                             /\ x = "requesting" /\ ~s.hold => i \in FirstOf(s) \cup s.susp_wait
                             /\ x = "suspending" => i \in Due(s, "sdone")
    /\ s.phase = "running" => /\ x = "waking" => i \in Due(s, "duty_wake")
                              /\ x = "suspending" => i \in Due(s, "duty_susp_done")
    /\ Sweeping(s) => /\ x \in {"waking", "requesting"} => i \in s.susp_wait
                      /\ x = "suspending" => i \in s.susp_wait \cup Due(s, "sdone")
    /\ s.phase = "idle" => x \notin {"waking", "requesting", "suspending"}
OwnBut(s, i) ==
    /\ s.workers = Cardinality(s.owned) /\ s.workers <= DUTY_WORKERS
    /\ s.owned # {} => s.duty
    /\ s.phase = "running" \/ (s.phase = "waking" /\ s.hold)
          => \A j \in s.owned \ {i} : s.agents[j] # "suspended"
    /\ s.phase = "running" => \A j \in s.owned \ {i} :
          /\ j \in DutyDue(s) \cup Served(s)
          /\ s.agents[j] = "failed" => j \in Due(s, "duty_send")
    /\ s.phase = "waking" => /\ s.owned \ {i} \subseteq Due(s, "duty_send")
                             /\ Due(s, "duty_wake") \cup Due(s, "duty_susp_done") = {}
                             /\ s.duty \/ Due(s, "duty_send") = {}

LEMMA CalmAll ==
    ASSUME NEW s, NEW i \in Agents
    PROVE Calm(s, {}) <=> Calm(s, {i}) /\ AtEase(s, i)
<1>1. Calm(s, {}) => Calm(s, {i}) /\ AtEase(s, i)
  BY DEF Calm, AtEase
<1>2. ASSUME Calm(s, {i}), AtEase(s, i) PROVE Calm(s, {})
  <2>1. \A j \in Agents : AtEase(s, j)
    BY <1>2 DEF Calm, AtEase
  <2> QED BY <2>1 DEF Calm, AtEase
<1> QED BY <1>1, <1>2

LEMMA OwnAll ==
    ASSUME NEW s, NEW i, OwnBut(s, i), NEW o,
           s.phase # "waking",
           s.phase = "running" /\ i \in s.owned =>
               /\ s.agents[i] \in {"waking", "running", "requesting", "suspending"}
               /\ i \in o \cup DutyDue(s) \cup Served(s)
    PROVE Own(s, o)
BY DEF Own, OwnBut

\* The worker of i is free again, if i had one.
LEMMA ReleaseLive ==
    ASSUME NEW s, Typed(s), NEW i \in Agents, Core(s, {}, 0), Calm(s, {i}), AtEase(s, i), OwnBut(s, i)
    PROVE Live(Release(s, i))
<1> DEFINE t == Release(s, i)
<1>1. /\ NoFlow(s, t) /\ Same(s, t, {"owned", "workers"})
      /\ t.owned = s.owned \ {i}
      /\ t.workers = IF i \in s.owned THEN s.workers - 1 ELSE s.workers
  BY ReleaseIs
<1> HIDE DEF t
<1>2. t.agents = s.agents /\ t.phase = s.phase /\ t.duty = s.duty /\ t.hold = s.hold /\ t.susp_wait = s.susp_wait
      /\ t.ev = s.ev /\ t.fcq = s.fcq
  BY <1>1 DEF Same, Attributes
<1>3. /\ \A k : Due(t, k) = Due(s, k)
      /\ Firsts(t) = Firsts(s) /\ StepsDue(t) = StepsDue(s) /\ Served(t) = Served(s)
      /\ (Once(s) => Once(t))
  BY <1>2 DEF Due, Firsts, StepsDue, Served, Once
<1>4. {"owned", "workers"} \cap CoreFields = {}
  BY DEF CoreFields
<1>5. SameCoreFields(s, t)
  BY <1>1, <1>4, CoreFieldsSame
<1>6. Core(t, {}, 0)
  BY <1>3, <1>5, CoreKept DEF CoreSame
<1>7. Calm(s, {})
  BY CalmAll
<1>8. Calm(t, {})
  BY <1>2, <1>3, <1>7, CalmKept DEF FirstOf
<1>9. t.workers = Cardinality(t.owned) /\ t.workers <= DUTY_WORKERS
  <2>1. IsFiniteSet(s.owned) /\ s.workers = Cardinality(s.owned) /\ s.workers <= DUTY_WORKERS
    BY AgentsFinite DEF Typed, OwnBut
  <2>2. Cardinality(s.owned) \in Nat /\ DUTY_WORKERS \in Nat
    BY <2>1, FS_CardinalityType, MockAssumption
  <2>3. CASE i \in s.owned
    <3>1. Cardinality(s.owned \ {i}) = Cardinality(s.owned) - 1
      BY <2>1, <2>3, FS_RemoveElement
    <3> QED BY <3>1, <2>1, <2>2, <2>3, <1>1
  <2>4. CASE i \notin s.owned
    <3>1. s.owned \ {i} = s.owned
      BY <2>4
    <3> QED BY <3>1, <2>1, <2>4, <1>1
  <2> QED BY <2>3, <2>4
<1>10. Own(t, {})
  BY <1>1, <1>2, <1>3, <1>9 DEF Own, OwnBut, DutyDue
<1> QED BY <1>6, <1>8, <1>10 DEF Live, t

LEMMA FireDutyIs ==
    ASSUME FlowOk(self), NEW k \in DutyKinds, NEW e \in Pending, e[1] = k, NEW t, t = Fire(e)
    PROVE /\ Typed(t) /\ FlowOk(t) /\ Same(self, t, {"ev"}) /\ e[2] \in Agents
          /\ Live(self) => /\ Core(t, {}, 0) /\ Calm(t, {e[2]}) /\ OwnBut(t, e[2])
                           /\ \A x \in AgentKinds \ {k} : Due(t, x) = Due(self, x)
                           /\ FirstOf(t) = FirstOf(self) /\ StepsDue(t) = StepsDue(self)
                           /\ t.phase = "waking" => k \in {"duty_send", "duty_park"} /\ (k = "duty_send" => t.duty)
                           /\ k = "duty_park" /\ t.phase # "running" => Own(t, {})
<1>0. Typed(self) /\ e \in DOMAIN self.ev /\ k \in AgentKinds
  BY DEF FlowOk, Pending, BagToSet, DutyKinds, AgentKinds
<1>1. e \in Events
  BY <1>0 DEF Typed, Heap
<1>2. e[2] \in Agents /\ e = <<k, e[2]>>
  BY <1>0, <1>1, EventForm
<1>3. PICK i \in Agents : i = e[2]
  BY <1>2
<1>4. ~Requesting(e)
  BY <1>0, <1>2, OtherEvents
<1>5. Typed(t) /\ Same(self, t, {"ev"}) /\ Loses(self, t, e) /\ NoFlow(self, t)
  BY <1>0, <1>4, FireIs, TookLoses
<1>6. FlowOk(t)
  BY <1>5, FlowOkNoFlow
<1>7. ASSUME Live(self)
      PROVE /\ Core(t, {}, 0) /\ Calm(t, {i}) /\ OwnBut(t, i)
            /\ \A x \in AgentKinds \ {k} : Due(t, x) = Due(self, x)
            /\ FirstOf(t) = FirstOf(self) /\ StepsDue(t) = StepsDue(self)
            /\ t.phase = "waking" => k \in {"duty_send", "duty_park"} /\ (k = "duty_send" => t.duty)
            /\ k = "duty_park" /\ t.phase # "running" => Own(t, {})
  <2>0. Core(self, {}, 0) /\ Calm(self, {}) /\ Own(self, {}) /\ Once(self)
    BY <1>7 DEF Live, Core, Lives
  <2>1. t.fcq = self.fcq /\ t.agents = self.agents /\ t.owned = self.owned /\ t.workers = self.workers
        /\ t.duty = self.duty /\ t.hold = self.hold /\ t.phase = self.phase /\ t.susp_wait = self.susp_wait
        /\ Heap(self.ev) /\ Heap(t.ev)
    BY <1>0, <1>5 DEF Same, Attributes, Typed
  <2>2. Loses(self, t, <<k, i>>)
    BY <1>2, <1>3, <1>5
  <2>3. /\ Due(self, k) \ {i} \subseteq Due(t, k) /\ Due(t, k) \subseteq Due(self, k)
        /\ i \in Due(self, k)
        /\ DueBut(self, t, {k}) /\ StepsDue(t) = StepsDue(self)
        /\ Served(t) = Served(self) /\ Once(t)
    BY <2>0, <2>1, <2>2, <1>0, LoseAgent
  <2>4. (\A x \in AgentKinds \ {k} : Due(t, x) = Due(self, x)) /\ Firsts(t) = Firsts(self)
    BY <2>3 DEF DueBut
  <2>5. {"wake", "sdone"} \subseteq AgentKinds \ {k} /\ DutyKinds \subseteq AgentKinds
    BY DEF DutyKinds, AgentKinds
  <2>6. {"ev"} \cap CoreFields = {}
    BY DEF CoreFields
  <2>7. SameCoreFields(self, t)
    BY <1>5, <2>6, CoreFieldsSame
  <2>8. Due(t, "wake") = Due(self, "wake") /\ Due(t, "sdone") = Due(self, "sdone")
    BY <2>4, <2>5
  <2>9. Core(t, {}, 0)
    BY <2>0, <2>3, <2>4, <2>7, <2>8, CoreKept DEF CoreSame
  <2>10. FirstOf(t) = FirstOf(self)
    BY <2>4 DEF FirstOf
  <2>11. \A x \in DutyKinds : Due(self, x) \ {i} \subseteq Due(t, x) /\ Due(t, x) \subseteq Due(self, x)
    BY <2>3, <2>4, <2>5
  <2>12. /\ Due(self, "duty_wake") \ {i} \subseteq Due(t, "duty_wake")
         /\ Due(self, "duty_send") \ {i} \subseteq Due(t, "duty_send")
         /\ Due(self, "duty_park") \ {i} \subseteq Due(t, "duty_park")
         /\ Due(self, "duty_susp_done") \ {i} \subseteq Due(t, "duty_susp_done")
    BY <2>11 DEF DutyKinds
  <2>13. /\ Due(t, "duty_wake") \subseteq Due(self, "duty_wake")
         /\ Due(t, "duty_send") \subseteq Due(self, "duty_send")
         /\ Due(t, "duty_susp_done") \subseteq Due(self, "duty_susp_done")
    BY <2>11 DEF DutyKinds
  <2>14. Calm(t, {i})
    BY <2>0, <2>1, <2>3, <2>8, <2>10, <2>12 DEF Calm, Sweeping, DrainDue
  <2>15. DutyDue(self) \ {i} \subseteq DutyDue(t)
    BY <2>12 DEF DutyDue
  <2>16. OwnBut(t, i)
    BY <2>0, <2>1, <2>3, <2>12, <2>13, <2>15 DEF Own, OwnBut
  <2>17. /\ t.phase = "waking" => k \in {"duty_send", "duty_park"} /\ (k = "duty_send" => t.duty)
         /\ k = "duty_park" /\ t.phase # "running" => Own(t, {})
    <3>1. t.phase = "waking" => k \in {"duty_send", "duty_park"} /\ (k = "duty_send" => t.duty)
      BY <2>0, <2>1, <2>3 DEF Own, DutyKinds
    <3>2. ASSUME k = "duty_park" PROVE \A x \in {"duty_send", "duty_wake", "duty_susp_done"} : Due(t, x) = Due(self, x)
      BY <3>2, <2>4 DEF AgentKinds
    <3>3. k = "duty_park" /\ t.phase # "running" => Own(t, {})
      BY <3>2, <2>0, <2>1 DEF Own
    <3> QED BY <3>1, <3>3
  <2> QED BY <2>3, <2>4, <2>9, <2>10, <2>14, <2>16, <2>17
<1> QED BY <1>2, <1>3, <1>5, <1>6, <1>7

\* The agent in hand changes its state.
LEMMA SetInHand ==
    ASSUME NEW s, Typed(s), NEW i \in Agents, NEW x \in States, NEW t, t = Set(s, i, x)
    PROVE /\ Typed(t) /\ NoFlow(s, t) /\ t.agents[i] = x
          /\ t.phase = s.phase /\ t.rate = s.rate /\ t.owned = s.owned
          /\ \A k : Due(t, k) = Due(s, k)
          /\ DutyDue(t) = DutyDue(s) /\ Served(t) = Served(s) /\ (Sweeping(t) <=> Sweeping(s))
          /\ \A h, w : Core(s, h, w) => Core(t, h, w)
          /\ Calm(s, {i}) => Calm(t, {i})
          /\ OwnBut(s, i) => OwnBut(t, i)
<1>1. NoFlow(s, t) /\ Same(s, t, {"agents"}) /\ t.agents = [s.agents EXCEPT ![i] = x]
  BY SetIs
<1>2. t.agents[i] = x /\ \A j \in Agents \ {i} : t.agents[j] = s.agents[j]
  BY <1>1 DEF Typed
<1>3. /\ \A h, w : Core(s, h, w) => Core(t, h, w)
      /\ t.phase = s.phase /\ t.duty = s.duty /\ t.owned = s.owned /\ t.workers = s.workers
      /\ t.rate = s.rate /\ t.susp_wait = s.susp_wait /\ t.hold = s.hold
      /\ \A k : Due(t, k) = Due(s, k)
      /\ Served(t) = Served(s)
      /\ FirstOf(t) = FirstOf(s) /\ DutyDue(t) = DutyDue(s) /\ (Sweeping(t) <=> Sweeping(s))
  BY <1>1, AgentsOnly
<1>4. Calm(s, {i}) => Calm(t, {i})
  BY <1>2, <1>3 DEF Calm
<1>5. OwnBut(s, i) => OwnBut(t, i)
  <2>1. s.owned \subseteq Agents
    BY DEF Typed
  <2> QED BY <2>1, <1>2, <1>3 DEF OwnBut
<1> QED BY <1>1, <1>2, <1>3, <1>4, <1>5 DEF NoFlow

LEMMA DutyWakeKeeps ==
    ASSUME FlowOk(self), DutyWake
    PROVE FlowOk(self') /\ (Live(self) => Live(self'))
<1>0. PICK k \in DutyKinds : k = "duty_wake"
  BY DEF DutyKinds
<1>1. PICK e \in Pending : e[1] = k
        /\ LET s == Fire(e)
               i == e[2]
           IN  IF s.phase = "running" /\ s.rate > 0 /\ s.agents[i] = "waking"
               THEN Runs(Put(Set(s, i, "running"), <<"duty_send", i>>))
               ELSE Runs(Release(IF s.agents[i] = "waking" /\ s.phase # "waking"
                                 THEN Set(s, i, "suspended") ELSE s, i))
  BY <1>0 DEF DutyWake
<1>2. PICK s : s = Fire(e)
  OBVIOUS
<1>3. /\ Typed(s) /\ FlowOk(s) /\ e[2] \in Agents
      /\ Live(self) => /\ Core(s, {}, 0) /\ Calm(s, {e[2]}) /\ OwnBut(s, e[2])
                       /\ \A x \in AgentKinds \ {k} : Due(s, x) = Due(self, x)
                       /\ FirstOf(s) = FirstOf(self) /\ StepsDue(s) = StepsDue(self)
                       /\ s.phase = "waking" => k \in {"duty_send", "duty_park"} /\ (k = "duty_send" => s.duty)
      /\ Same(self, s, {"ev"})
  BY <1>1, <1>2, FireDutyIs
<1>4. PICK i \in Agents : i = e[2]
  BY <1>3
<1>5. Typed(s)
  BY <1>3
<1>51. PICK x \in States : x = "suspended"
  BY DEF States
<1>52. PICK y \in States : y = "running"
  BY DEF States
<1>6. CASE s.phase = "running" /\ s.agents[i] = "waking"
           /\ self' = Put(Set(s, i, "running"), <<"duty_send", i>>)
  <2>1. PICK u : u = Set(s, i, y)
    OBVIOUS
  <2>2. PICK d \in DutyKinds : d = "duty_send"
    BY DEF DutyKinds
  <2>3. PICK t : t = self'
    OBVIOUS
  <2>4. t = Put(u, <<d, i>>)
    BY <2>1, <2>2, <2>3, <1>6, <1>52
  <2>9. /\ Typed(u) /\ NoFlow(s, u) /\ u.agents[i] = y
        /\ u.phase = s.phase
        /\ \A h, w : Core(s, h, w) => Core(u, h, w)
        /\ Calm(s, {i}) => Calm(u, {i})
        /\ OwnBut(s, i) => OwnBut(u, i)
    BY <2>1, <1>5, SetInHand
  <2>5. /\ Typed(u) /\ NoFlow(s, u) /\ u.agents[i] = "running"
        /\ u.phase = s.phase
        /\ \A h, w : Core(s, h, w) => Core(u, h, w)
        /\ Calm(s, {i}) => Calm(u, {i})
        /\ OwnBut(s, i) => OwnBut(u, i)
    BY <2>9, <1>52
  <2>6. /\ Typed(t) /\ NoFlow(u, t)
        /\ t.agents = u.agents /\ t.owned = u.owned /\ t.workers = u.workers
        /\ t.duty = u.duty /\ t.phase = u.phase
        /\ \A h, w : Core(u, h, w) => Core(t, h, w)
        /\ \A h : Calm(u, h) => Calm(t, h)
        /\ DutyDue(t) = DutyDue(u) \cup {i} /\ Served(t) = Served(u)
        /\ Due(t, d) = Due(u, d) \cup {i}
    BY <2>4, <2>5, PutDuty
  <2>7. FlowOk(t)
    BY <2>5, <2>6, <1>3, FlowOkNoFlow
  <2>8. ASSUME Live(self) PROVE Live(t)
    <3>1. Core(t, {}, 0)
      BY <2>5, <2>6, <2>8, <1>3
    <3>2. AtEase(u, i)
      BY <2>5, <1>6 DEF AtEase, Sweeping
    <3>3. Calm(u, {})
      BY <3>2, <2>5, <2>8, <1>3, <1>4, CalmAll
    <3>4. OwnBut(u, i)
      BY <2>5, <2>8, <1>3, <1>4
    <3>5. Own(t, {})
      BY <3>4, <2>2, <2>5, <2>6, <1>6 DEF Own, OwnBut
    <3> QED BY <3>1, <3>3, <3>5, <2>6 DEF Live
  <2> QED BY <2>3, <2>7, <2>8
<1>7. CASE ~(s.phase = "running" /\ s.rate > 0 /\ s.agents[i] = "waking")
           /\ self' = Release(IF s.agents[i] = "waking" /\ s.phase # "waking"
                              THEN Set(s, i, "suspended") ELSE s, i)
  <2>1. PICK u : u = IF s.agents[i] = "waking" /\ s.phase # "waking" THEN Set(s, i, "suspended") ELSE s
    OBVIOUS
  <2>2. PICK t : t = Release(u, i)
    OBVIOUS
  <2>3. /\ Typed(u) /\ FlowOk(u)
        /\ Live(self) => Core(u, {}, 0) /\ Calm(u, {i}) /\ OwnBut(u, i) /\ AtEase(u, i)
    <3>1. CASE s.agents[i] = "waking" /\ s.phase # "waking"
      <4>1. u = Set(s, i, x)
        BY <3>1, <2>1, <1>51
      <4>9. /\ Typed(u) /\ NoFlow(s, u) /\ u.agents[i] = x /\ u.phase = s.phase
            /\ \A h, w : Core(s, h, w) => Core(u, h, w)
            /\ Calm(s, {i}) => Calm(u, {i})
            /\ OwnBut(s, i) => OwnBut(u, i)
        BY <4>1, <1>5, SetInHand
      <4>2. /\ Typed(u) /\ NoFlow(s, u) /\ u.agents[i] = "suspended" /\ u.phase = s.phase
            /\ \A h, w : Core(s, h, w) => Core(u, h, w)
            /\ Calm(s, {i}) => Calm(u, {i})
            /\ OwnBut(s, i) => OwnBut(u, i)
        BY <4>9, <1>51
      <4>3. AtEase(u, i)
        BY <4>2, <3>1 DEF AtEase
      <4> QED BY <4>2, <4>3, <1>3, <1>4, FlowOkNoFlow
    <3>2. CASE ~(s.agents[i] = "waking" /\ s.phase # "waking")
      <4>1. u = s
        BY <3>2, <2>1
      <4>2. ASSUME Live(self) PROVE AtEase(s, i)
        <5>1. s.agents = self.agents /\ s.phase = self.phase /\ s.susp_wait = self.susp_wait
          BY <1>3 DEF Same, Attributes
        <5>2. s.phase # "waking" /\ s.agents[i] # "waking"
          BY <4>2, <3>2, <1>0, <1>3
        <5>3. AtEase(self, i)
          BY <4>2, CalmAll DEF Live
        <5>4. {"sdone", "duty_susp_done"} \subseteq AgentKinds \ {k}
          BY <1>0 DEF AgentKinds
        <5>5. Due(s, "sdone") = Due(self, "sdone") /\ Due(s, "duty_susp_done") = Due(self, "duty_susp_done")
          BY <5>4, <4>2, <1>3
        <5> QED BY <5>1, <5>2, <5>3, <5>5, <4>2, <1>3 DEF AtEase, Sweeping, DrainDue
      <4> QED BY <4>1, <4>2, <1>3, <1>4
    <3> QED BY <3>1, <3>2
  <2>4. NoFlow(u, t)
    BY <2>2, <2>3, ReleaseIs
  <2>5. Live(self) => Live(t)
    BY <2>2, <2>3, ReleaseLive
  <2> QED BY <2>1, <2>2, <2>3, <2>4, <2>5, <1>7, FlowOkNoFlow
<1> QED BY <1>1, <1>2, <1>4, <1>6, <1>7 DEF Runs

LEMMA DutySuspDoneKeeps ==
    ASSUME FlowOk(self), DutySuspDone
    PROVE FlowOk(self') /\ (Live(self) => Live(self'))
<1>0. PICK k \in DutyKinds : k = "duty_susp_done"
  BY DEF DutyKinds
<1>1. PICK e \in Pending : e[1] = k
        /\ LET s == Fire(e)
               i == e[2]
           IN  Runs(IF s.phase = "suspending" THEN s
                    ELSE Release(IF s.agents[i] = "suspending" THEN Set(s, i, "suspended") ELSE s, i))
  BY <1>0 DEF DutySuspDone
<1>2. PICK s : s = Fire(e)
  OBVIOUS
<1>3. /\ Typed(s) /\ FlowOk(s) /\ e[2] \in Agents
      /\ Live(self) => /\ Core(s, {}, 0) /\ Calm(s, {e[2]}) /\ OwnBut(s, e[2])
                       /\ \A x \in AgentKinds \ {k} : Due(s, x) = Due(self, x)
                       /\ FirstOf(s) = FirstOf(self) /\ StepsDue(s) = StepsDue(self)
                       /\ s.phase = "waking" => k \in {"duty_send", "duty_park"} /\ (k = "duty_send" => s.duty)
      /\ Same(self, s, {"ev"})
  BY <1>1, <1>2, FireDutyIs
<1>4. PICK i \in Agents : i = e[2]
  BY <1>3
<1>5. Typed(s) /\ i \in Agents
  BY <1>3, <1>4
<1>51. PICK x \in States : x = "suspended"
  BY DEF States
<1>52. ASSUME NEW u, u = Set(s, i, x)
       PROVE /\ Typed(u) /\ NoFlow(s, u) /\ u.agents[i] = x /\ u.phase = s.phase
             /\ \A h, w : Core(s, h, w) => Core(u, h, w)
             /\ Calm(s, {i}) => Calm(u, {i})
             /\ OwnBut(s, i) => OwnBut(u, i)
  <2>1. NoFlow(s, u) /\ Same(s, u, {"agents"}) /\ u.agents = [s.agents EXCEPT ![i] = x]
    BY <1>5, <1>52, SetIs
  <2>2. u.agents[i] = x
    BY <2>1, <1>5 DEF Typed
  <2>3. Typed(u) /\ NoFlow(s, u) /\ u.phase = s.phase
    BY <2>1 DEF NoFlow, Same, Attributes
  <2>4. \A h, w : Core(s, h, w) => Core(u, h, w)
    BY <1>5, <1>52, SetInHand
  <2>5. (Calm(s, {i}) => Calm(u, {i})) /\ (OwnBut(s, i) => OwnBut(u, i))
    BY <1>5, <1>52, SetInHand
  <2> QED BY <2>2, <2>3, <2>4, <2>5
<1>6. ASSUME Live(self), s.phase = "suspending" \/ s.agents[i] # "suspending" PROVE AtEase(s, i)
  <2>1. s.agents = self.agents /\ s.phase = self.phase /\ s.susp_wait = self.susp_wait
    BY <1>3 DEF Same, Attributes
  <2>2. s.phase # "waking"
    BY <1>0, <1>3, <1>6
  <2>3. AtEase(self, i)
    BY <1>6, CalmAll DEF Live
  <2>4. {"sdone", "duty_wake"} \subseteq AgentKinds \ {k}
    BY <1>0 DEF AgentKinds
  <2>5. Due(s, "sdone") = Due(self, "sdone") /\ Due(s, "duty_wake") = Due(self, "duty_wake")
    BY <2>4, <1>3, <1>6
  <2> QED BY <2>1, <2>2, <2>3, <2>5, <1>3, <1>6 DEF AtEase, Sweeping, DrainDue
<1>7. CASE s.phase = "suspending"
  <2>1. self' = s
    BY <1>1, <1>2, <1>7 DEF Runs
  <2>2. ASSUME Live(self) PROVE Live(s)
    <3>1. Calm(s, {})
      BY <2>2, <1>3, <1>4, <1>6, <1>7, CalmAll
    <3>2. Own(s, {})
      BY <2>2, <1>3, <1>7, OwnAll
    <3> QED BY <3>1, <3>2, <2>2, <1>3 DEF Live
  <2> QED BY <2>1, <2>2, <1>3
<1>8. CASE s.phase # "suspending"
  <2>1. PICK u : u = IF s.agents[i] = "suspending" THEN Set(s, i, "suspended") ELSE s
    OBVIOUS
  <2>2. PICK t : t = Release(u, i)
    OBVIOUS
  <2>3. self' = t
    BY <2>1, <2>2, <1>1, <1>2, <1>4, <1>8 DEF Runs
  <2>4. /\ Typed(u) /\ FlowOk(u)
        /\ Live(self) => Core(u, {}, 0) /\ Calm(u, {i}) /\ OwnBut(u, i) /\ AtEase(u, i)
    <3>1. CASE s.agents[i] = "suspending"
      <4>1. u = Set(s, i, x)
        BY <3>1, <2>1, <1>51
      <4>9. /\ Typed(u) /\ NoFlow(s, u) /\ u.agents[i] = x /\ u.phase = s.phase
            /\ \A h, w : Core(s, h, w) => Core(u, h, w)
            /\ Calm(s, {i}) => Calm(u, {i})
            /\ OwnBut(s, i) => OwnBut(u, i)
        BY <4>1, <1>52
      <4>2. /\ Typed(u) /\ NoFlow(s, u) /\ u.agents[i] = "suspended" /\ u.phase = s.phase
            /\ \A h, w : Core(s, h, w) => Core(u, h, w)
            /\ Calm(s, {i}) => Calm(u, {i})
            /\ OwnBut(s, i) => OwnBut(u, i)
        BY <4>9, <1>51
      <4>3. Live(self) => s.phase # "waking"
        BY <1>0, <1>3
      <4>4. Live(self) => AtEase(u, i)
        BY <4>2, <4>3 DEF AtEase
      <4> QED BY <4>2, <4>4, <1>3, <1>4, FlowOkNoFlow
    <3>2. CASE s.agents[i] # "suspending"
      <4>1. u = s
        BY <3>2, <2>1
      <4> QED BY <4>1, <3>2, <1>3, <1>4, <1>6
    <3> QED BY <3>1, <3>2
  <2>5. NoFlow(u, t)
    BY <2>2, <2>4, ReleaseIs
  <2>6. Live(self) => Live(t)
    BY <2>2, <2>4, ReleaseLive
  <2> QED BY <2>3, <2>4, <2>5, <2>6, FlowOkNoFlow
<1> QED BY <1>7, <1>8

LEMMA SetKeeps ==
    ASSUME NEW s, Typed(s), NEW i \in Agents, NEW x \in States, NEW t, t = Set(s, i, x)
    PROVE Typed(t) /\ NoFlow(s, t)
<1>1. NoFlow(s, t)
  BY SetIs
<1> QED BY <1>1 DEF NoFlow

LEMMA SetAgent ==
    ASSUME NEW s, Typed(s), NEW i \in Agents, NEW x \in States, NEW t, t = Set(s, i, x)
    PROVE t.agents[i] = x /\ t.phase = s.phase
<1>1. Same(s, t, {"agents"}) /\ t.agents = [s.agents EXCEPT ![i] = x]
  BY SetIs
<1> QED BY <1>1 DEF Typed, Same, Attributes

LEMMA SubmitLive ==
    ASSUME NEW s, Typed(s), NEW r \in Requests, ~r.first,
           Core(s, {}, 0), Calm(s, {}), Own(s, Owed(r))
    PROVE Live(Submit(s, r))
<1>1. PICK v : v = [s EXCEPT !.inflight = @ + 1]
  OBVIOUS
<1>2. DOMAIN s = Attributes /\ s.inflight \in Int /\ s.handoff \in Int /\ s.epp \in Int
  BY DEF Typed
<1>3. Same(s, v, {"inflight", "handoff", "epp"}) /\ v.inflight = s.inflight + 1
      /\ v.handoff = s.handoff /\ v.epp = s.epp
  BY <1>1, <1>2 DEF Same, Attributes
<1>4. Typed(v)
  BY <1>2, <1>3, CountersIs
<1>5. Core(v, {}, 0) /\ Calm(v, {}) /\ Own(v, Owed(r))
  BY <1>3, CountersLive, LiveKept
<1>6. PICK k \in UnderWay : k = "arrive"
  BY DEF UnderWay
<1>7. Live(Put(v, <<k, r>>))
  BY <1>4, <1>5, PutPacedLive
<1> QED BY <1>1, <1>6, <1>7 DEF Submit

\* The duty worker of the agent in hand sends a request.
LEMMA SendLive ==
    ASSUME NEW s, FlowOk(s), NEW i \in Agents, s.phase = "running", NEW b \in Tiers(s),
           NEW t, t = Submit(Set(s, i, "requesting"), Request(s, i, FALSE, TRUE, b))
    PROVE /\ FlowOk(t)
          /\ Core(s, {}, 0) /\ Calm(s, {i}) /\ OwnBut(s, i) => Live(t)
<1>0. Typed(s)
  BY DEF FlowOk
<1>1. PICK x \in States : x = "requesting"
  BY DEF States
<1>2. PICK u : u = Set(s, i, x)
  OBVIOUS
<1>3. PICK r : r = Request(s, i, FALSE, TRUE, b)
  OBVIOUS
<1>4. r \in Requests /\ r.a = i /\ ~r.first /\ r.after
  BY <1>0, <1>3 DEF Request, Requests, Tiers, Typed
<1>5. Typed(u) /\ NoFlow(s, u)
  BY <1>0, <1>2, SetKeeps
<1>6. FlowOk(u)
  BY <1>5, FlowOkNoFlow
<1>7. t = Submit(u, r)
  BY <1>1, <1>2, <1>3
<1>8. FlowOk(t)
  BY <1>4, <1>6, <1>7, SubmitFlow
<1>9. ASSUME Core(s, {}, 0), Calm(s, {i}), OwnBut(s, i) PROVE Live(t)
  <2>1. u.agents[i] = x /\ u.phase = s.phase
    BY <1>0, <1>2, SetAgent
  <2>2. Core(u, {}, 0)
    BY <1>0, <1>2, <1>9, SetInHand
  <2>3. Calm(u, {i}) /\ OwnBut(u, i)
    BY <1>0, <1>2, <1>9, SetInHand
  <2>4. AtEase(u, i)
    BY <2>1, <1>1 DEF AtEase, Sweeping
  <2>5. Calm(u, {})
    BY <2>3, <2>4, CalmAll
  <2>6. u.agents[i] \in {"waking", "running", "requesting", "suspending"}
    BY <2>1, <1>1
  <2>7. i \in Owed(r)
    BY <1>4 DEF Owed
  <2>8. Own(u, Owed(r))
    BY <2>1, <2>3, <2>6, <2>7, OwnAll
  <2> QED BY <2>2, <2>5, <2>8, <1>4, <1>5, <1>7, SubmitLive
<1> QED BY <1>8, <1>9

\* The agent in hand goes to rest, unless the phase is that of a sweep, and its worker is free.
LEMMA StopLive ==
    ASSUME NEW s, FlowOk(s), NEW i \in Agents, NEW rest \in BOOLEAN,
           NEW t, t = Release(IF rest THEN Set(s, i, "suspended") ELSE s, i)
    PROVE /\ FlowOk(t)
          /\ /\ Core(s, {}, 0) /\ Calm(s, {i}) /\ OwnBut(s, i)
             /\ rest => s.phase # "waking" \/ s.duty
             /\ ~rest => AtEase(s, i)
             => Live(t)
<1>0. Typed(s)
  BY DEF FlowOk
<1>1. PICK x \in States : x = "suspended"
  BY DEF States
<1>2. PICK u : u = IF rest THEN Set(s, i, x) ELSE s
  OBVIOUS
<1>3. t = Release(u, i)
  BY <1>1, <1>2
<1>4. CASE rest
  <2>1. u = Set(s, i, x)
    BY <1>2, <1>4
  <2>2. Typed(u) /\ NoFlow(s, u)
    BY <2>1, <1>0, SetKeeps
  <2>3. NoFlow(u, t)
    BY <2>2, <1>3, ReleaseIs
  <2>4. FlowOk(t)
    BY <2>2, <2>3, FlowOkNoFlow
  <2>5. ASSUME Core(s, {}, 0), Calm(s, {i}), OwnBut(s, i), s.phase # "waking" \/ s.duty PROVE Live(t)
    <3>1. u.agents[i] = x /\ u.phase = s.phase
      BY <2>1, <1>0, SetAgent
    <3>2. Core(u, {}, 0)
      BY <2>1, <2>5, <1>0, SetInHand
    <3>3. Calm(u, {i}) /\ OwnBut(u, i)
      BY <2>1, <2>5, <1>0, SetInHand
    <3>4. AtEase(u, i)
      <4>1. u.duty = s.duty
        BY <2>1, <1>0, AgentsOnly, SetIs
      <4> QED BY <4>1, <3>1, <2>5, <1>1 DEF AtEase
    <3> QED BY <3>2, <3>3, <3>4, <2>2, <1>3, ReleaseLive
  <2> QED BY <2>4, <2>5, <1>4
<1>5. CASE ~rest
  <2>1. u = s
    BY <1>2, <1>5
  <2>2. NoFlow(u, t)
    BY <2>1, <1>0, <1>3, ReleaseIs
  <2>3. FlowOk(t)
    BY <2>1, <2>2, FlowOkNoFlow
  <2> QED BY <2>1, <2>3, <1>0, <1>3, <1>5, ReleaseLive
<1> QED BY <1>4, <1>5

LEMMA DutySendKeeps ==
    ASSUME FlowOk(self), DutySend
    PROVE FlowOk(self') /\ (Live(self) => Live(self'))
<1>0. PICK k \in DutyKinds : k = "duty_send"
  BY DEF DutyKinds
<1>1. PICK e \in Pending : e[1] = k
        /\ LET s == Fire(e)
               i == e[2]
               up == s.agents[i] \in {"waking", "running", "requesting"}
           IN  IF s.phase # "running" \/ s.rate = 0
               THEN Runs(Release(IF up /\ s.phase # "suspending" THEN Set(s, i, "suspended") ELSE s, i))
               ELSE IF s.agents[i] \notin {"waking", "running"} THEN Runs(Release(s, i))
               ELSE \E b \in Tiers(s) :
                       Runs(Submit(Set(s, i, "requesting"), Request(s, i, FALSE, TRUE, b)))
  BY <1>0 DEF DutySend
<1>2. PICK s : s = Fire(e)
  OBVIOUS
<1>3. /\ FlowOk(s) /\ e[2] \in Agents
      /\ Live(self) => /\ Core(s, {}, 0) /\ Calm(s, {e[2]}) /\ OwnBut(s, e[2])
                       /\ \A x \in AgentKinds \ {k} : Due(s, x) = Due(self, x)
                       /\ FirstOf(s) = FirstOf(self) /\ StepsDue(s) = StepsDue(self)
                       /\ s.phase = "waking" => k \in {"duty_send", "duty_park"} /\ (k = "duty_send" => s.duty)
      /\ Same(self, s, {"ev"})
  BY <1>1, <1>2, FireDutyIs
<1>4. PICK i \in Agents : i = e[2]
  BY <1>3
<1>5. PICK t : t = self'
  OBVIOUS
<1>6. ASSUME Live(self) PROVE AtEase(s, i) /\ (s.phase # "waking" \/ s.duty)
  <2>1. s.agents = self.agents /\ s.phase = self.phase /\ s.susp_wait = self.susp_wait
        /\ s.hold = self.hold /\ s.duty = self.duty
    BY <1>3 DEF Same, Attributes
  <2>2. s.phase # "waking" \/ s.duty
    BY <1>0, <1>3, <1>6
  <2>3. AtEase(self, i)
    BY <1>6, CalmAll DEF Live
  <2>4. {"wake", "sdone", "duty_wake", "duty_susp_done"} \subseteq AgentKinds \ {k}
    BY <1>0 DEF AgentKinds
  <2>5. /\ Due(s, "sdone") = Due(self, "sdone") /\ Due(s, "duty_wake") = Due(self, "duty_wake")
        /\ Due(s, "duty_susp_done") = Due(self, "duty_susp_done") /\ Due(s, "wake") = Due(self, "wake")
    BY <2>4, <1>3, <1>6
  <2>6. StepsDue(s) = StepsDue(self) /\ FirstOf(s) = FirstOf(self)
    BY <1>3, <1>6
  <2> QED BY <2>1, <2>2, <2>3, <2>5, <2>6 DEF AtEase, Sweeping, DrainDue
<1>7. ASSUME NEW rest \in BOOLEAN, rest => s.phase # "suspending",
             t = Release(IF rest THEN Set(s, i, "suspended") ELSE s, i)
      PROVE FlowOk(t) /\ (Live(self) => Live(t))
  BY <1>3, <1>4, <1>6, <1>7, StopLive
<1>8. CASE s.phase # "running" \/ s.rate = 0
  <2>1. PICK rest \in BOOLEAN : rest <=> (s.agents[i] \in {"waking", "running", "requesting"}
                                          /\ s.phase # "suspending")
    OBVIOUS
  <2>2. t = Release(IF rest THEN Set(s, i, "suspended") ELSE s, i)
    BY <2>1, <1>1, <1>2, <1>4, <1>5, <1>8 DEF Runs
  <2> QED BY <2>1, <2>2, <1>5, <1>7
<1>9. CASE ~(s.phase # "running" \/ s.rate = 0) /\ s.agents[i] \notin {"waking", "running"}
  <2>1. t = Release(s, i)
    BY <1>1, <1>2, <1>4, <1>5, <1>9 DEF Runs
  <2>2. PICK rest \in BOOLEAN : rest = FALSE
    OBVIOUS
  <2>3. t = Release(IF rest THEN Set(s, i, "suspended") ELSE s, i)
    BY <2>1, <2>2
  <2> QED BY <2>2, <2>3, <1>5, <1>7
<1>10. CASE s.phase = "running" /\ s.rate # 0 /\ s.agents[i] \in {"waking", "running"}
  <2>1. PICK b \in Tiers(s) : t = Submit(Set(s, i, "requesting"), Request(s, i, FALSE, TRUE, b))
    BY <1>1, <1>2, <1>4, <1>5, <1>10 DEF Runs
  <2> QED BY <2>1, <1>3, <1>4, <1>5, <1>10, SendLive
<1> QED BY <1>8, <1>9, <1>10

LEMMA DutyParkKeeps ==
    ASSUME FlowOk(self), DutyPark
    PROVE FlowOk(self') /\ (Live(self) => Live(self'))
<1>0. PICK k \in DutyKinds : k = "duty_park"
  BY DEF DutyKinds
<1>1. PICK e \in Pending : e[1] = k
        /\ LET s == Fire(e)
               i == e[2]
           IN  Runs(IF s.phase # "running" THEN s
                    ELSE IF s.agents[i] \in {"waking", "running", "requesting"}
                         THEN Put(Set(s, i, "suspending"), <<"duty_susp_done", i>>)
                    ELSE Release(s, i))
  BY <1>0 DEF DutyPark
<1>2. PICK s : s = Fire(e)
  OBVIOUS
<1>3. /\ FlowOk(s) /\ e[2] \in Agents
      /\ Live(self) => /\ Core(s, {}, 0) /\ Calm(s, {e[2]}) /\ OwnBut(s, e[2])
                       /\ \A x \in AgentKinds \ {k} : Due(s, x) = Due(self, x)
                       /\ FirstOf(s) = FirstOf(self) /\ StepsDue(s) = StepsDue(self)
                       /\ k = "duty_park" /\ s.phase # "running" => Own(s, {})
      /\ Same(self, s, {"ev"})
  BY <1>1, <1>2, FireDutyIs
<1>4. PICK i \in Agents : i = e[2]
  BY <1>3
<1>5. PICK t : t = self'
  OBVIOUS
<1>51. Typed(s)
  BY <1>3 DEF FlowOk
<1>6. ASSUME Live(self) PROVE AtEase(s, i)
  <2>1. s.agents = self.agents /\ s.phase = self.phase /\ s.susp_wait = self.susp_wait
        /\ s.hold = self.hold /\ s.duty = self.duty
    BY <1>3 DEF Same, Attributes
  <2>2. AtEase(self, i)
    BY <1>6, CalmAll DEF Live
  <2>3. {"wake", "sdone", "duty_wake", "duty_susp_done"} \subseteq AgentKinds \ {k}
    BY <1>0 DEF AgentKinds
  <2>4. /\ Due(s, "sdone") = Due(self, "sdone") /\ Due(s, "duty_wake") = Due(self, "duty_wake")
        /\ Due(s, "duty_susp_done") = Due(self, "duty_susp_done") /\ Due(s, "wake") = Due(self, "wake")
    BY <2>3, <1>3, <1>6
  <2>5. StepsDue(s) = StepsDue(self) /\ FirstOf(s) = FirstOf(self)
    BY <1>3, <1>6
  <2> QED BY <2>1, <2>2, <2>4, <2>5 DEF AtEase, Sweeping, DrainDue
<1>7. CASE s.phase # "running"
  <2>1. t = s
    BY <1>1, <1>2, <1>5, <1>7 DEF Runs
  <2>2. ASSUME Live(self) PROVE Live(s)
    <3>1. Core(s, {}, 0) /\ Calm(s, {i}) /\ OwnBut(s, i)
      BY <2>2, <1>3, <1>4
    <3>2. Calm(s, {})
      BY <3>1, <2>2, <1>6, CalmAll
    <3>3. Own(s, {})
      BY <2>2, <1>0, <1>3, <1>7
    <3> QED BY <3>1, <3>2, <3>3 DEF Live
  <2> QED BY <2>1, <2>2, <1>3, <1>5
<1>8. CASE s.phase = "running" /\ s.agents[i] \in {"waking", "running", "requesting"}
  <2>1. PICK x \in States : x = "suspending"
    BY DEF States
  <2>2. PICK d \in DutyKinds : d = "duty_susp_done"
    BY DEF DutyKinds
  <2>3. PICK u : u = Set(s, i, x)
    OBVIOUS
  <2>4. t = Put(u, <<d, i>>)
    BY <2>1, <2>2, <2>3, <1>1, <1>2, <1>4, <1>5, <1>8 DEF Runs
  <2>5. Typed(u) /\ NoFlow(s, u)
    BY <2>3, <1>51, SetKeeps
  <2>6. /\ Typed(t) /\ NoFlow(u, t)
        /\ t.agents = u.agents /\ t.owned = u.owned /\ t.workers = u.workers
        /\ t.duty = u.duty /\ t.phase = u.phase
        /\ \A h, w : Core(u, h, w) => Core(t, h, w)
        /\ \A h : Calm(u, h) => Calm(t, h)
        /\ DutyDue(t) = DutyDue(u) \cup {i} /\ Served(t) = Served(u)
        /\ Due(t, d) = Due(u, d) \cup {i} /\ \A y \in DutyKinds \ {d} : Due(t, y) = Due(u, y)
    BY <2>4, <2>5, PutDuty
  <2>7. FlowOk(t)
    BY <2>5, <2>6, <1>3, FlowOkNoFlow
  <2>8. ASSUME Live(self) PROVE Live(t)
    <3>1. Core(s, {}, 0) /\ Calm(s, {i}) /\ OwnBut(s, i)
      BY <2>8, <1>3, <1>4
    <3>2. u.agents[i] = x /\ u.phase = s.phase
      BY <2>3, <1>51, SetAgent
    <3>3. Core(u, {}, 0)
      BY <3>1, <2>3, <1>51, SetInHand
    <3>4. Calm(u, {i}) /\ OwnBut(u, i)
      BY <3>1, <2>3, <1>51, SetInHand
    <3>5. Core(t, {}, 0) /\ Calm(t, {i})
      BY <3>3, <3>4, <2>6
    <3>6. AtEase(t, i)
      BY <3>2, <2>1, <2>2, <2>6, <1>8 DEF AtEase, Sweeping
    <3>7. Calm(t, {})
      BY <3>5, <3>6, CalmAll
    <3>8. Own(t, {})
      <4>1. Due(t, "duty_send") = Due(u, "duty_send")
        BY <2>2, <2>6 DEF DutyKinds
      <4> QED BY <4>1, <3>2, <3>4, <2>1, <2>6, <1>8 DEF Own, OwnBut
    <3> QED BY <3>5, <3>7, <3>8 DEF Live
  <2> QED BY <2>7, <2>8, <1>5
<1>9. CASE s.phase = "running" /\ s.agents[i] \notin {"waking", "running", "requesting"}
  <2>1. t = Release(s, i)
    BY <1>1, <1>2, <1>4, <1>5, <1>9 DEF Runs
  <2>2. NoFlow(s, t)
    BY <2>1, <1>51, ReleaseIs
  <2>3. Live(self) => Live(t)
    BY <2>1, <1>3, <1>4, <1>51, <1>6, ReleaseLive
  <2> QED BY <2>2, <2>3, <1>3, <1>5, FlowOkNoFlow
<1> QED BY <1>7, <1>8, <1>9

LEMMA TickPickKeeps ==
    ASSUME FlowOk(self), TickPick
    PROVE FlowOk(self') /\ (Live(self) => Live(self'))
<1>1. PICK i \in Agents :
        /\ self.agents[i] = "suspended"
        /\ self.phase = "running" /\ self.duty /\ self.workers < DUTY_WORKERS
        /\ self' = Put(Set([self EXCEPT !.workers = @ + 1, !.owned = @ \cup {i}], i, "waking"),
                       <<"duty_wake", i>>)
  BY DEF TickPick, Parked, In
<1>2. PICK s : s = [self EXCEPT !.workers = @ + 1, !.owned = @ \cup {i}]
  OBVIOUS
<1>3. PICK x \in States : x = "waking"
  BY DEF States
<1>4. PICK d \in DutyKinds : d = "duty_wake"
  BY DEF DutyKinds
<1>5. PICK u : u = Set(s, i, x)
  OBVIOUS
<1>6. PICK t : t = Put(u, <<d, i>>)
  OBVIOUS
<1>7. self' = t
  BY <1>1, <1>2, <1>3, <1>4, <1>5, <1>6
<1>8. Typed(self)
  BY DEF FlowOk
<1>9. Same(self, s, {"owned", "workers"}) /\ s.owned = self.owned \cup {i} /\ s.workers = self.workers + 1
  BY <1>2, <1>8 DEF Typed, Same, Attributes
<1>10. /\ s.agents = self.agents /\ s.phase = self.phase /\ s.duty = self.duty
       /\ s.susp_wait = self.susp_wait /\ s.ev = self.ev /\ s.fcq = self.fcq /\ s.hold = self.hold
  BY <1>9 DEF Same, Attributes
<1>11. Typed(s)
  <2>1. s.owned \subseteq Agents /\ s.workers \in Int
    BY <1>8, <1>9 DEF Typed
  <2> QED BY <2>1, <1>8, <1>9, TypedBut
<1>12. NoFlow(self, s)
  BY <1>9, <1>11 DEF NoFlow, Same, Attributes
<1>13. Typed(u) /\ NoFlow(s, u)
  BY <1>5, <1>11, SetKeeps
<1>14. /\ Typed(t) /\ NoFlow(u, t)
       /\ t.agents = u.agents /\ t.owned = u.owned /\ t.workers = u.workers
       /\ t.duty = u.duty /\ t.phase = u.phase
       /\ \A h, w : Core(u, h, w) => Core(t, h, w)
       /\ \A h : Calm(u, h) => Calm(t, h)
       /\ DutyDue(t) = DutyDue(u) \cup {i} /\ Served(t) = Served(u)
       /\ Due(t, d) = Due(u, d) \cup {i} /\ \A y \in DutyKinds \ {d} : Due(t, y) = Due(u, y)
  BY <1>6, <1>13, PutDuty
<1>15. FlowOk(t)
  BY <1>12, <1>13, <1>14, FlowOkNoFlow
<1>16. ASSUME Live(self) PROVE Live(t)
  <2>1. Core(self, {}, 0) /\ Calm(self, {}) /\ Own(self, {})
    BY <1>16 DEF Live
  <2>2. /\ \A k : Due(s, k) = Due(self, k)
        /\ Firsts(s) = Firsts(self) /\ StepsDue(s) = StepsDue(self) /\ Served(s) = Served(self)
        /\ (Once(self) => Once(s))
    BY <1>10 DEF Due, Firsts, StepsDue, Served, Once
  <2>3. {"owned", "workers"} \cap CoreFields = {}
    BY DEF CoreFields
  <2>4. SameCoreFields(self, s)
    BY <1>9, <2>3, CoreFieldsSame
  <2>5. Core(s, {}, 0)
    BY <2>1, <2>2, <2>4, CoreKept DEF CoreSame
  <2>6. Calm(s, {})
    BY <2>1, <2>2, <1>10, CalmKept DEF FirstOf
  <2>7. Calm(s, {i})
    BY <2>6, CalmAll
  <2>8. i \notin self.owned
    BY <2>1, <1>1 DEF Own
  <2>9. s.workers = Cardinality(s.owned) /\ s.workers <= DUTY_WORKERS
    <3>1. IsFiniteSet(self.owned)
      BY <1>8, AgentsFinite DEF Typed
    <3>2. Cardinality(self.owned) \in Nat /\ DUTY_WORKERS \in Nat
      BY <3>1, FS_CardinalityType, MockAssumption
    <3>3. Cardinality(self.owned \cup {i}) = Cardinality(self.owned) + 1
      BY <3>1, <2>8, FS_AddElement
    <3>4. self.workers = Cardinality(self.owned)
      BY <2>1 DEF Own
    <3> QED BY <3>2, <3>3, <3>4, <1>1, <1>9
  <2>10. DutyDue(s) = DutyDue(self)
    BY <2>2 DEF DutyDue
  <2>11. OwnBut(s, i)
    BY <2>1, <2>2, <2>9, <2>10, <1>1, <1>9, <1>10 DEF OwnBut, Own
  <2>12. u.agents[i] = x /\ u.phase = s.phase
    BY <1>5, <1>11, SetAgent
  <2>13. Core(u, {}, 0)
    BY <2>5, <1>5, <1>11, SetInHand
  <2>14. Calm(u, {i}) /\ OwnBut(u, i)
    BY <2>7, <2>11, <1>5, <1>11, SetInHand
  <2>15. Core(t, {}, 0) /\ Calm(t, {i})
    BY <2>13, <2>14, <1>14
  <2>16. t.phase = "running" /\ t.agents[i] = "waking"
    BY <2>12, <1>1, <1>3, <1>10, <1>14
  <2>17. AtEase(t, i)
    BY <2>16, <1>4, <1>14 DEF AtEase, Sweeping
  <2>18. Calm(t, {})
    BY <2>15, <2>17, CalmAll
  <2>19. Own(t, {})
    <3>1. Due(t, "duty_send") = Due(u, "duty_send")
      BY <1>4, <1>14 DEF DutyKinds
    <3> QED BY <3>1, <2>12, <2>14, <2>16, <1>1, <1>3, <1>10, <1>14 DEF Own, OwnBut
  <2> QED BY <2>15, <2>18, <2>19 DEF Live
<1> QED BY <1>7, <1>15, <1>16

LEMMA TickSteadyKeeps ==
    ASSUME FlowOk(self), TickSteady
    PROVE FlowOk(self') /\ (Live(self) => Live(self'))
<1>1. PICK i \in Agents, b \in Tiers(self) :
        /\ self.phase = "running"
        /\ self' = Submit(IF self.duty THEN self ELSE Set(self, i, "requesting"),
                          Request(self, i, FALSE, FALSE, b))
  BY DEF TickSteady, Active, Idle, In
<1>2. PICK x \in States : x = "requesting"
  BY DEF States
<1>3. PICK u : u = IF self.duty THEN self ELSE Set(self, i, x)
  OBVIOUS
<1>4. PICK r : r = Request(self, i, FALSE, FALSE, b)
  OBVIOUS
<1>5. PICK t : t = Submit(u, r)
  OBVIOUS
<1>6. self' = t
  BY <1>1, <1>2, <1>3, <1>4, <1>5
<1>7. Typed(self)
  BY DEF FlowOk
<1>8. r \in Requests /\ r.a = i /\ ~r.first /\ ~r.after
  BY <1>4, <1>7 DEF Request, Requests, Tiers, Typed
<1>9. CASE self.duty
  <2>1. u = self
    BY <1>3, <1>9
  <2>2. FlowOk(t)
    BY <2>1, <1>5, <1>8, SubmitFlow
  <2>3. Owed(r) = {}
    BY <1>8 DEF Owed
  <2>4. Live(self) => Live(t)
    BY <2>1, <2>3, <1>5, <1>7, <1>8, SubmitLive DEF Live
  <2> QED BY <2>2, <2>4, <1>6
<1>10. CASE ~self.duty
  <2>1. u = Set(self, i, x)
    BY <1>3, <1>10
  <2>2. Typed(u) /\ NoFlow(self, u)
    BY <2>1, <1>7, SetKeeps
  <2>3. FlowOk(u)
    BY <2>2, FlowOkNoFlow
  <2>4. FlowOk(t)
    BY <2>3, <1>5, <1>8, SubmitFlow
  <2>5. ASSUME Live(self) PROVE Live(t)
    <3>1. Core(self, {}, 0) /\ Calm(self, {}) /\ Own(self, {})
      BY <2>5 DEF Live
    <3>2. Calm(self, {i})
      BY <3>1, CalmAll
    <3>3. OwnBut(self, i)
      BY <3>1 DEF Own, OwnBut
    <3>4. u.agents[i] = x /\ u.phase = self.phase
      BY <2>1, <1>7, SetAgent
    <3>5. Core(u, {}, 0)
      BY <2>1, <3>1, <1>7, SetInHand
    <3>6. Calm(u, {i}) /\ OwnBut(u, i) /\ u.owned = self.owned
      BY <2>1, <3>2, <3>3, <1>7, SetInHand
    <3>7. AtEase(u, i)
      BY <3>4, <1>1, <1>2 DEF AtEase, Sweeping
    <3>8. Calm(u, {})
      BY <3>6, <3>7, CalmAll
    <3>9. i \notin u.owned
      BY <3>1, <3>6, <1>10 DEF Own
    <3>10. Own(u, Owed(r))
      BY <3>4, <3>6, <3>9, <1>1, OwnAll
    <3> QED BY <3>5, <3>8, <3>10, <2>2, <1>5, <1>8, SubmitLive
  <2> QED BY <2>4, <2>5, <1>6
<1> QED BY <1>9, <1>10

-----------------------------------------------------------------------------
(* Waking the agents of a burst. *)
LEMMA WakeFillIs ==
    ASSUME NEW s, NEW I \in WakeFill(s)
    PROVE I \subseteq s.wake_wait
BY DEF WakeFill

LEMMA AddAgentsOf ==
    ASSUME NEW s, Heap(s.ev), NEW t, NEW k \in AgentKinds, NEW I \in SUBSET Agents,
           NEW E, E = {<<k, i>> : i \in I}, Adds(s, t, E), t.fcq = s.fcq
    PROVE /\ Due(t, k) = Due(s, k) \cup I
          /\ DueBut(s, t, {k}) /\ StepsDue(t) = StepsDue(s) /\ Served(t) = Served(s)
          /\ Once(s) /\ I \cap Due(s, k) = {} => Once(t)
<1>1. Adds(s, t, {<<k, i>> : i \in I})
  OBVIOUS
<1>2. DueBut(s, t, {k}) /\ StepsDue(t) = StepsDue(s)
  BY <1>1, AddAgents
<1>5. Due(t, k) = Due(s, k) \cup I
  <2>1. \A i : <<k, i>> \in E <=> i \in I
    OBVIOUS
  <2>2. DOMAIN t.ev = DOMAIN s.ev \cup E
    BY DEF Adds
  <2> QED BY <2>1, <2>2 DEF Due
<1>3. Served(t) = Served(s)
  BY <1>1, AddAgents
<1>4. Once(s) /\ I \cap Due(s, k) = {} => Once(t)
  BY <1>1, AddAgents
<1> QED BY <1>2, <1>3, <1>4, <1>5

\* Some of the waiting agents start to wake: none of those in hand is among them.
LEMMA StartedLive ==
    ASSUME NEW s, Typed(s), s.phase = "waking", NEW h, NEW w, Core(s, h, w), Calm(s, h), Own(s, {}),
           NEW I, I \subseteq s.wake_wait, NEW t, t = Started(s, I)
    PROVE /\ Typed(t) /\ NoFlow(s, t)
          /\ Core(t, h, w) /\ Calm(t, h) /\ Own(t, {})
          /\ Same(s, t, {"agents", "ev", "wake_wait", "wake_active"})
          /\ \A i \in Agents : i \in h => t.agents[i] = s.agents[i]
<1> DEFINE E == {<<"wake", i>> : i \in I}
<1>1. PICK k \in AgentKinds : k = "wake"
  BY DEF AgentKinds
<1>2. I \subseteq Agents /\ Heap(s.ev) /\ s.wake_wait \subseteq Agents
  BY DEF Typed
<1>3. /\ NoFlow(s, t) /\ Same(s, t, {"agents", "ev", "wake_wait", "wake_active"})
      /\ t.agents = [i \in Agents |-> IF i \in I THEN "waking" ELSE s.agents[i]]
      /\ t.wake_wait = s.wake_wait \ I /\ t.wake_active = s.wake_active + Cardinality(I)
      /\ DOMAIN t.ev = DOMAIN s.ev \cup E
      /\ \A d : Times(t.ev, d) = Times(s.ev, d) + (IF d \in E THEN 1 ELSE 0)
  BY <1>2, StartedIs
<1>4. E = {<<k, i>> : i \in I}
  BY <1>1
<1> HIDE DEF E
<1>5. Adds(s, t, E)
  BY <1>3 DEF Adds
<1>6. I \in SUBSET Agents
  BY <1>2
<1>7. t.fcq = s.fcq /\ t.phase = s.phase /\ t.susp_wait = s.susp_wait /\ t.duty = s.duty
      /\ t.owned = s.owned /\ t.workers = s.workers
  BY <1>3 DEF Same, Attributes
<1>8. /\ Due(t, k) = Due(s, k) \cup I
      /\ DueBut(s, t, {k}) /\ StepsDue(t) = StepsDue(s)
      /\ Served(t) = Served(s)
      /\ Once(s) /\ I \cap Due(s, k) = {} => Once(t)
  BY <1>2, <1>4, <1>5, <1>6, <1>7, AddAgentsOf
<1>9. /\ t.busy = s.busy /\ t.t0 = s.t0 /\ t.n = s.n /\ t.hold = s.hold
      /\ t.wake_only = s.wake_only /\ t.started = s.started
      /\ t.woke = s.woke /\ t.wake_failed = s.wake_failed /\ t.first_done = s.first_done
      /\ t.pending = s.pending /\ t.susp_active = s.susp_active /\ t.susp_out = s.susp_out
  BY <1>3 DEF Same, Attributes
<1>10. {"sdone", "duty_wake", "duty_send", "duty_park", "duty_susp_done"} \subseteq AgentKinds \ {k}
  BY <1>1 DEF AgentKinds
<1>11. /\ Due(t, "sdone") = Due(s, "sdone")
       /\ Due(t, "duty_wake") = Due(s, "duty_wake") /\ Due(t, "duty_send") = Due(s, "duty_send")
       /\ Due(t, "duty_park") = Due(s, "duty_park")
       /\ Due(t, "duty_susp_done") = Due(s, "duty_susp_done")
       /\ Firsts(t) = Firsts(s)
  BY <1>8, <1>10 DEF DueBut
<1>12. FirstOf(t) = FirstOf(s)
  BY <1>11 DEF FirstOf
<1>13. /\ s.wake_wait \cap Due(s, "wake") = {} /\ Once(s)
       /\ s.wake_active = Cardinality(Due(s, "wake"))
       /\ s.n >= Known(s, w) /\ (s.duty \/ s.n = Known(s, w))
  BY DEF Core, Lives, Wakes
<1>14. Due(t, "wake") = Due(s, "wake") \cup I /\ Once(t)
  BY <1>1, <1>8, <1>13
<1>15. Ops(t)
  <2>1. Ops(s)
    BY DEF Core
  <2> QED BY <2>1, <1>7, <1>8, <1>9, <1>11 DEF Ops, Sweeping, DrainDue, Quiet
<1>16. Cardinality(Due(t, "wake")) = Cardinality(Due(s, "wake")) + Cardinality(I)
       /\ Cardinality(s.wake_wait) = Cardinality(t.wake_wait) + Cardinality(I)
       /\ Cardinality(t.wake_wait) \in Nat /\ Cardinality(I) \in Nat /\ Cardinality(Due(s, "wake")) \in Nat
  <2>1. Due(s, "wake") \subseteq Agents
    BY DEF Due
  <2>2. IsFiniteSet(I) /\ IsFiniteSet(Due(s, "wake")) /\ IsFiniteSet(t.wake_wait)
    BY <2>1, <1>2, <1>3, AgentsFinite
  <2>3. Due(s, "wake") \cap I = {} /\ t.wake_wait \cap I = {} /\ s.wake_wait = t.wake_wait \cup I
    BY <1>3, <1>13
  <2> QED BY <2>2, <2>3, <1>14, CardDisjoint, FS_CardinalityType
<1>17. Wakes(t, w)
  <2>1. t.wake_active = Cardinality(Due(t, "wake"))
    BY <1>3, <1>13, <1>16
  <2>2. s.woke \in Nat /\ s.wake_failed \in Nat /\ s.n \in Nat
    <3>1. s.woke \in Nat /\ s.wake_failed \in Nat /\ s.n \in 0..TOTAL
      BY DEF Typed
    <3> QED BY <3>1
  <2>3. Cardinality(t.wake_wait) + t.wake_active = Cardinality(s.wake_wait) + s.wake_active
    BY <2>2, <1>3, <1>13, <1>16
  <2>4. Known(t, w) = Known(s, w)
    BY <2>3, <1>9 DEF Known
  <2> QED BY <2>1, <2>4, <1>7, <1>9, <1>13 DEF Wakes
<1>18. Open(t) = Open(s)
  BY <1>3, <1>7, <1>11, <1>12, <1>14 DEF Open
<1>19. Lives(t, h)
  BY <1>3, <1>7, <1>9, <1>11, <1>12, <1>14, <1>18 DEF Core, Lives
<1>20. Susps(t, h)
  BY <1>7, <1>8, <1>9, <1>11 DEF Core, Susps, Sweeping, DrainDue
<1>21. I \cap h = {}
  BY DEF Core, Lives, Open
<1>22. \A i \in Agents : t.agents[i] = IF i \in I THEN "waking" ELSE s.agents[i]
  BY <1>3
<1>23. Calm(t, h)
  BY <1>7, <1>9, <1>11, <1>12, <1>14, <1>21, <1>22 DEF Calm, Sweeping
<1>24. Own(t, {})
  <2>1. s.owned \subseteq Agents
    BY DEF Typed
  <2>2. s.hold => \A i \in t.owned : t.agents[i] # "suspended"
    BY <2>1, <1>7, <1>22 DEF Own
  <2> QED BY <2>2, <1>7, <1>9, <1>11 DEF Own
<1> QED BY <1>3, <1>15, <1>17, <1>19, <1>20, <1>21, <1>22, <1>23, <1>24 DEF Core, NoFlow

LEMMA BeginKeeps ==
    ASSUME FlowOk(self), Begin
    PROVE FlowOk(self') /\ (Live(self) => Live(self'))
<1>1. PICK e \in Pending :
        /\ e[1] = "begin"
        /\ \A d \in Pending : d[1] \notin {"duty_wake", "duty_send", "duty_susp_done"}
        /\ LET p == e[2]
               s == [NewBurst(Fire(e), p[1], p[2], p[4]) EXCEPT
                        !.conc = p[3], !.phase = "waking", !.wake_wait = 0..p[1] - 1]
           IN  \E I \in WakeFill(s) : Runs(Started(s, I))
  BY DEF Begin
<1>2. PICK p : p = e[2]
  OBVIOUS
<1>3. e \in Steps /\ p \in Asked
  <2>1. e \in Events
    BY DEF FlowOk, Typed, Heap, Pending, BagToSet
  <2>2. e[2] \in Asked /\ e = <<"begin", e[2]>>
    BY <2>1, <1>1, EventForm
  <2> QED BY <2>2, <1>2, OtherEvents
<1>4. p[1] \in 1..TOTAL /\ p[2] \in BOOLEAN /\ p[3] \in {0, 1} /\ p[4] \in BOOLEAN /\ p[1] \in 0..TOTAL
  <2>1. p[1] \in 1..TOTAL /\ p[2] \in BOOLEAN /\ p[3] \in {0, 1} /\ p[4] \in BOOLEAN
    BY <1>3 DEF Asked
  <2>2. TOTAL \in Nat
    BY MockAssumption
  <2> QED BY <2>1, <2>2
<1>5. PICK u : u = Fire(e)
  OBVIOUS
<1>6. PICK v : v = NewBurst(u, p[1], p[2], p[4])
  OBVIOUS
<1>7. PICK s : s = [v EXCEPT !.conc = p[3], !.phase = "waking", !.wake_wait = 0..p[1] - 1]
  OBVIOUS
<1>8. PICK t : t = self'
  OBVIOUS
<1>9. PICK I \in WakeFill(s) : t = Started(s, I)
  BY <1>1, <1>2, <1>5, <1>6, <1>7, <1>8 DEF Runs
<1>10. /\ Typed(u) /\ NoFlow(self, u) /\ Same(self, u, {"ev"}) /\ e \in StepsDue(self)
       /\ Live(self) => StepsDue(u) = {} /\ DueSame(self, u) /\ Once(u)
  BY <1>3, <1>5, FireStepIs
<1>11. /\ NoFlow(u, v)
       /\ Same(u, v, {"t0", "n", "hold", "wake_only", "started", "duty", "owned", "workers", "conc",
                      "susp_t0", "woke", "wake_failed", "wake_done", "first_done", "all_susp",
                      "pending", "wake_wait", "wake_active"})
       /\ v.t0 /\ v.n = p[1] /\ v.hold = p[2] /\ v.wake_only = p[4] /\ v.started = ~p[4]
       /\ ~v.duty /\ v.owned = {} /\ v.workers = 0 /\ v.woke = 0 /\ v.wake_failed = 0
       /\ ~v.wake_done /\ ~v.first_done /\ v.pending = p[1] /\ v.wake_wait = {} /\ v.wake_active = 0
  BY <1>4, <1>6, <1>10, NewBurstIs
<1>12. Typed(v)
  BY <1>11 DEF NoFlow
<1>13. /\ Same(v, s, {"conc", "phase", "wake_wait"})
       /\ s.phase = "waking" /\ s.wake_wait = 0..p[1] - 1 /\ s.conc = p[3]
  BY <1>7, <1>12 DEF Typed, Same, Attributes
<1>14. Typed(s)
  <2>1. s.phase \in Phases /\ s.conc \in Nat
    BY <1>4, <1>13 DEF Phases
  <2>2. s.wake_wait \subseteq Agents
    <3>1. TOTAL \in Nat
      BY MockAssumption
    <3> QED BY <3>1, <1>4, <1>13 DEF Agents
  <2> QED BY <2>1, <2>2, <1>12, <1>13, TypedBut
<1>15. NoFlow(v, s)
  BY <1>13, <1>14, NoFlowFields DEF FlowFields
<1>16. I \subseteq s.wake_wait
  BY WakeFillIs
<1>17. NoFlow(s, t)
  <2>1. I \subseteq Agents
    BY <1>14, <1>16 DEF Typed
  <2> QED BY <2>1, <1>9, <1>14, StartedIs
<1>18. FlowOk(t)
  BY <1>10, <1>11, <1>15, <1>17, FlowOkNoFlow
<1>19. ASSUME Live(self) PROVE Live(t)
  <2>1. s.ev = u.ev /\ s.fcq = u.fcq
    BY <1>11, <1>13 DEF Same, Attributes
  <2>2. DueSame(u, s) /\ StepsDue(s) = {} /\ Once(s)
    BY <2>1, <1>10, <1>19 DEF DueSame, Due, Firsts, Served, Once, StepsDue
  <2>3. DueSame(self, s)
    BY <2>2, <1>10, <1>19 DEF DueSame
  <2>4. self.phase = "idle" /\ self.busy
    BY <1>1, <1>10, <1>19 DEF Live, Core, Ops
  <2>5. /\ Nothing(self) /\ self.susp_out \in Nat
        /\ self.susp_active = 0 /\ Cardinality({}) = 0
        /\ \A i \in Agents : self.agents[i] \notin {"waking", "requesting", "suspending"}
    BY <2>4, <1>19, AtRest DEF Sweeping
  <2>6. /\ Due(s, "wake") = {} /\ Due(s, "sdone") = {} /\ Firsts(s) = {} /\ FirstOf(s) = {}
    BY <2>3, <2>5, DueSameIs DEF Nothing, DueSame
  <2>7. /\ s.agents = self.agents /\ s.busy /\ s.susp_active = 0 /\ s.susp_out \in Nat
        /\ s.susp_wait = {}
    BY <2>4, <2>5, <1>10, <1>11, <1>13 DEF Same, Attributes, Nothing
  <2>8. /\ s.t0 /\ s.n = p[1] /\ s.wake_only = p[4] /\ s.started = ~p[4]
        /\ ~s.duty /\ s.owned = {} /\ s.workers = 0 /\ s.woke = 0 /\ s.wake_failed = 0
        /\ ~s.first_done /\ s.pending = p[1] /\ s.wake_active = 0
    BY <1>11, <1>13 DEF Same, Attributes
  <2>9. Due(s, "duty_wake") = {} /\ Due(s, "duty_send") = {} /\ Due(s, "duty_susp_done") = {}
    <3>1. \A k \in {"duty_wake", "duty_send", "duty_susp_done"} : Due(self, k) = {}
      BY <1>1 DEF Due, Pending, BagToSet
    <3> QED BY <3>1, <2>3, DueSameIs
  <2>10. Cardinality(0..p[1] - 1) = p[1] /\ p[1] \in Nat
    BY <1>4, FS_Interval
  <2>11. ~Sweeping(s)
    BY <1>13 DEF Sweeping
  <2>12. Ops(s)
    BY <2>2, <2>6, <2>7, <2>8, <2>11, <1>13 DEF Ops
  <2>13. Wakes(s, 0)
    <3>1. s.wake_active = Cardinality(Due(s, "wake"))
      BY <2>5, <2>6, <2>8
    <3>2. Cardinality(s.wake_wait) = s.n /\ s.n \in Nat
      BY <2>8, <2>10, <1>13
    <3>3. s.n = Cardinality(s.wake_wait) + s.wake_active + s.woke + s.wake_failed + 0
      BY <3>2, <2>8
    <3>4. s.n >= s.n
      BY <3>2
    <3> QED BY <3>1, <3>3, <3>4 DEF Wakes, Known
  <2>14. Open(s) = 0..p[1] - 1
    BY <2>6, <2>7, <1>13 DEF Open
  <2>15. Lives(s, {})
    <3>1. Open(s) \cup {} = 0..p[1] - 1
      BY <2>14
    <3>2. p[1] >= p[1]
      BY <2>10
    <3> QED BY <3>1, <3>2, <2>2, <2>6, <2>7, <2>8, <2>10 DEF Lives
  <2>16. Susps(s, {})
    BY <2>5, <2>6, <2>7, <2>11 DEF Susps
  <2>17. Core(s, {}, 0)
    BY <2>12, <2>13, <2>15, <2>16 DEF Core
  <2>18. Calm(s, {})
    BY <2>5, <2>6, <2>7, <2>11, <1>13 DEF Calm
  <2>19. Own(s, {})
    <3>1. DUTY_WORKERS \in Nat
      BY MockAssumption
    <3> QED BY <3>1, <2>5, <2>8, <2>9, <1>13 DEF Own
  <2> QED BY <2>17, <2>18, <2>19, <1>9, <1>13, <1>14, <1>16, StartedLive DEF Live
<1> QED BY <1>8, <1>18, <1>19

LEMMA SlotsTyped ==
    ASSUME NEW s, Typed(s), NEW t, Same(s, t, {"wake_active"}), t.wake_active \in Int
    PROVE Typed(t)
BY TypedBut

\* An agent of a burst whose traffic started early can be past its wake when the wake ends.
Passed(s, i) ==
    s.duty /\ s.agents[i] \notin {"waking", "suspending"} /\ (s.agents[i] = "requesting" => s.hold)

\* The wake of an agent has ended: it holds no slot, and is in hand.
LEMMA WakeFiredIs ==
    ASSUME FlowOk(self), NEW i \in Agents, NEW e \in Pending, e = <<"wake", i>>,
           NEW s, s = [Fire(e) EXCEPT !.wake_active = self.wake_active - 1]
    PROVE /\ Typed(s) /\ FlowOk(s)
          /\ Live(self) => /\ s.phase = "waking" /\ (s.agents[i] = "waking" \/ Passed(s, i))
                           /\ Core(s, {i}, 1) /\ Calm(s, {i}) /\ Own(s, {})
<1>1. PICK k \in AgentKinds : k = "wake"
  BY DEF AgentKinds
<1>2. e = <<k, i>>
  BY <1>1
<1>3. ~Requesting(e) /\ e \in DOMAIN self.ev /\ Typed(self)
  BY <1>2, OtherEvents DEF FlowOk, Pending, BagToSet
<1>4. PICK v : v = Fire(e)
  OBVIOUS
<1>5. Typed(v) /\ Same(self, v, {"ev"}) /\ Loses(self, v, e) /\ NoFlow(self, v)
  BY <1>3, <1>4, FireIs, TookLoses
<1>6. s = [v EXCEPT !.wake_active = self.wake_active - 1]
  BY <1>4
<1>7. Same(v, s, {"wake_active"}) /\ s.wake_active = self.wake_active - 1
  BY <1>5, <1>6 DEF Typed, Same, Attributes
<1>8. Typed(s)
  <2>1. s.wake_active \in Int
    BY <1>3, <1>7 DEF Typed
  <2> QED BY <2>1, <1>5, <1>7, SlotsTyped
<1>9. NoFlow(v, s)
  BY <1>7, <1>8, NoFlowFields DEF FlowFields
<1>10. FlowOk(s)
  BY <1>5, <1>9, FlowOkNoFlow
<1>11. ASSUME Live(self)
       PROVE /\ s.phase = "waking" /\ (s.agents[i] = "waking" \/ Passed(s, i))
             /\ Core(s, {i}, 1) /\ Calm(s, {i}) /\ Own(s, {})
  <2>1. Core(self, {}, 0) /\ Calm(self, {}) /\ Own(self, {})
    BY <1>11 DEF Live
  <2>2. Once(self) /\ Heap(self.ev) /\ Heap(v.ev)
    BY <2>1, <1>3, <1>5 DEF Core, Lives, Typed
  <2>3. v.fcq = self.fcq /\ s.ev = v.ev /\ s.fcq = v.fcq
    BY <1>5, <1>7 DEF Same, Attributes
  <2>4. Loses(self, v, <<k, i>>)
    BY <1>2, <1>5
  <2>5. i \in Due(self, k) /\ DueBut(self, v, {k}) /\ StepsDue(v) = StepsDue(self)
    BY <2>2, <2>3, <2>4, LoseAgent
  <2>6. Served(v) = Served(self) /\ Once(v)
    BY <2>2, <2>3, <2>4, LoseAgent
  <2>7. Due(v, k) = Due(self, k) \ {i}
    BY <2>2, <2>3, <2>4, <1>1, LoseAgent
  <2>8. \A x : Due(s, x) = Due(v, x)
    BY <2>3 DEF Due
  <2>9. StepsDue(s) = StepsDue(self) /\ Served(s) = Served(self) /\ Once(s) /\ Firsts(s) = Firsts(self)
    BY <2>3, <2>5, <2>6 DEF StepsDue, Served, Once, Firsts, DueBut
  <2>10. i \in Due(self, "wake") /\ Due(s, "wake") = Due(self, "wake") \ {i}
    BY <2>5, <2>7, <2>8, <1>1
  <2>11. {"sdone", "duty_wake", "duty_send", "duty_park", "duty_susp_done"} \subseteq AgentKinds \ {k}
    BY <1>1 DEF AgentKinds
  <2>12. /\ Due(s, "sdone") = Due(self, "sdone")
         /\ Due(s, "duty_wake") = Due(self, "duty_wake") /\ Due(s, "duty_send") = Due(self, "duty_send")
         /\ Due(s, "duty_park") = Due(self, "duty_park")
         /\ Due(s, "duty_susp_done") = Due(self, "duty_susp_done")
    BY <2>5, <2>8, <2>11 DEF DueBut
  <2>13. FirstOf(s) = FirstOf(self)
    BY <2>9 DEF FirstOf
  <2>14. /\ s.phase = self.phase /\ s.busy = self.busy /\ s.t0 = self.t0 /\ s.n = self.n
         /\ s.hold = self.hold /\ s.wake_only = self.wake_only /\ s.started = self.started
         /\ s.duty = self.duty /\ s.woke = self.woke /\ s.wake_failed = self.wake_failed
         /\ s.first_done = self.first_done /\ s.pending = self.pending /\ s.wake_wait = self.wake_wait
         /\ s.susp_active = self.susp_active /\ s.susp_wait = self.susp_wait
         /\ s.susp_out = self.susp_out
         /\ s.agents = self.agents /\ s.owned = self.owned /\ s.workers = self.workers
    BY <1>5, <1>7 DEF Same, Attributes
  <2>15. s.phase = "waking" /\ ~Sweeping(s) /\ ~Sweeping(self)
    BY <2>1, <2>10, <2>14 DEF Core, Ops, Sweeping
  <2>16. s.agents[i] = "waking" \/ Passed(s, i)
    <3>1. i \notin FirstOf(self) \cup self.susp_wait /\ i \notin Due(self, "sdone")
      BY <2>1, <2>10 DEF Core, Lives
    <3> QED BY <3>1, <2>1, <2>10, <2>14, <2>15 DEF Calm, Passed
  <2>17. Ops(s)
    BY <2>1, <2>9, <2>10, <2>12, <2>14, <2>15 DEF Core, Ops, Quiet
  <2>18. Wakes(s, 1)
    <3>1. IsFiniteSet(Due(self, "wake")) /\ IsFiniteSet(self.wake_wait)
      BY <1>3, AgentsFinite DEF Due, Typed
    <3>2. Cardinality(Due(s, "wake")) = Cardinality(Due(self, "wake")) - 1
      BY <3>1, <2>10, FS_RemoveElement
    <3>3. /\ self.wake_active = Cardinality(Due(self, "wake"))
          /\ self.n >= Known(self, 0) /\ (self.duty \/ self.n = Known(self, 0))
      BY <2>1, <2>14, <2>15 DEF Core, Wakes
    <3>4. /\ Cardinality(Due(self, "wake")) \in Nat /\ Cardinality(self.wake_wait) \in Nat
          /\ self.woke \in Nat /\ self.wake_failed \in Nat
      BY <3>1, <1>3, FS_CardinalityType DEF Typed
    <3>5. s.wake_active = Cardinality(Due(s, "wake"))
      BY <3>2, <3>3, <1>7
    <3>6. \A a, b, c, d \in Int : a + b + c + d + 0 = a + (b - 1) + c + d + 1
      OBVIOUS
    <3>7. /\ Cardinality(self.wake_wait) \in Int /\ self.wake_active \in Int
          /\ self.woke \in Int /\ self.wake_failed \in Int
      BY <3>3, <3>4
    <3>8. Known(s, 1) = Known(self, 0)
      BY <3>6, <3>7, <2>14, <1>7 DEF Known
    <3> QED BY <3>3, <3>5, <3>8, <2>14 DEF Wakes
  <2>19. Open(s) = Open(self) \ {i} /\ i \in Open(self) /\ Open(s) \cup {i} = Open(self) \cup {}
    BY <2>1, <2>10, <2>12, <2>13, <2>14 DEF Core, Lives, Open
  <2>20. Lives(s, {i})
    BY <2>1, <2>9, <2>10, <2>12, <2>13, <2>14, <2>19 DEF Core, Lives, Quiet
  <2>21. Susps(s, {i})
    BY <2>1, <2>12, <2>14, <2>15 DEF Core, Susps
  <2>22. Calm(s, {i})
    BY <2>1, <2>10, <2>12, <2>13, <2>14, <2>15 DEF Calm
  <2>23. Own(s, {})
    BY <2>1, <2>12, <2>14, <2>15 DEF Own
  <2> QED BY <2>15, <2>16, <2>17, <2>18, <2>20, <2>21, <2>22, <2>23 DEF Core
<1> QED BY <1>8, <1>10, <1>11

\* The agent in hand is counted as woken or as failed.
LEMMA CountedLive ==
    ASSUME NEW s, Typed(s), NEW i \in Agents, s.phase = "waking",
           Core(s, {i}, 1), Calm(s, {i}), Own(s, {}),
           NEW t, Same(s, t, {"agents", "woke", "wake_failed"}),
           \/ t.woke = s.woke + 1 /\ t.wake_failed = s.wake_failed
           \/ t.woke = s.woke /\ t.wake_failed = s.wake_failed + 1,
           \A j \in Agents \ {i} : t.agents[j] = s.agents[j], t.agents[i] # "suspended"
    PROVE t.phase = "waking" /\ Core(t, {i}, 0) /\ Calm(t, {i}) /\ Own(t, {})
<1>1. /\ t.phase = s.phase /\ t.busy = s.busy /\ t.t0 = s.t0 /\ t.n = s.n
      /\ t.hold = s.hold /\ t.wake_only = s.wake_only /\ t.started = s.started
      /\ t.duty = s.duty /\ t.first_done = s.first_done /\ t.pending = s.pending
      /\ t.wake_wait = s.wake_wait /\ t.wake_active = s.wake_active
      /\ t.susp_active = s.susp_active /\ t.susp_wait = s.susp_wait
      /\ t.susp_out = s.susp_out /\ t.ev = s.ev /\ t.fcq = s.fcq
      /\ t.owned = s.owned /\ t.workers = s.workers
  BY DEF Same, Attributes
<1>2. /\ \A k : Due(t, k) = Due(s, k)
      /\ Firsts(t) = Firsts(s) /\ StepsDue(t) = StepsDue(s) /\ (Once(s) => Once(t))
  BY <1>1 DEF Due, Firsts, StepsDue, Once
<1>3. FirstOf(t) = FirstOf(s) /\ Open(t) = Open(s)
  BY <1>1, <1>2 DEF FirstOf, Open
<1>4. ~Sweeping(t) /\ ~Sweeping(s)
  BY <1>1 DEF Sweeping
<1>5. Ops(t)
  BY <1>1, <1>2, <1>4 DEF Core, Ops, Quiet
<1>6. Wakes(t, 0)
  <2>1. /\ s.wake_active = Cardinality(Due(s, "wake"))
        /\ s.n >= Known(s, 1) /\ (s.duty \/ s.n = Known(s, 1))
    BY DEF Core, Wakes
  <2>2. IsFiniteSet(s.wake_wait) /\ IsFiniteSet(Due(s, "wake"))
    BY AgentsFinite DEF Typed, Due
  <2>3. /\ Cardinality(s.wake_wait) \in Nat /\ s.wake_active \in Nat
        /\ s.woke \in Nat /\ s.wake_failed \in Nat
    BY <2>1, <2>2, FS_CardinalityType DEF Typed
  <2>4. \A a, b, c, d, x, y \in Nat : (x = c + 1 /\ y = d) \/ (x = c /\ y = d + 1) =>
            a + b + c + d + 1 = a + b + x + y + 0
    OBVIOUS
  <2>5. t.woke \in Nat /\ t.wake_failed \in Nat
    BY <2>3
  <2>6. Known(t, 0) = Known(s, 1)
    BY <2>3, <2>4, <2>5, <1>1 DEF Known
  <2> QED BY <2>1, <2>6, <1>1, <1>2 DEF Wakes
<1>7. Lives(t, {i})
  BY <1>1, <1>2, <1>3 DEF Core, Lives
<1>8. Susps(t, {i})
  BY <1>1, <1>2, <1>4 DEF Core, Susps
<1>9. Calm(t, {i})
  BY <1>1, <1>2, <1>3, <1>4 DEF Calm
<1>10. Own(t, {})
  <2>1. s.owned \subseteq Agents
    BY DEF Typed
  <2>2. s.hold => \A j \in s.owned : t.agents[j] # "suspended"
    BY <2>1 DEF Own
  <2> QED BY <2>2, <1>1, <1>2 DEF Own
<1> QED BY <1>1, <1>5, <1>6, <1>7, <1>8, <1>9, <1>10 DEF Core

\* An agent in hand that is past its wake is let go uncounted.
LEMMA WakePassedLive ==
    ASSUME NEW s, Typed(s), NEW i \in Agents, s.phase = "waking", Passed(s, i),
           Core(s, {i}, 1), Calm(s, {i}), Own(s, {})
    PROVE Live(s)
<1>1. Wakes(s, 0)
  <2>1. s.n >= Known(s, 1) /\ s.wake_active = Cardinality(Due(s, "wake")) /\ s.duty
    BY DEF Core, Wakes, Passed
  <2>2. IsFiniteSet(s.wake_wait) /\ IsFiniteSet(Due(s, "wake"))
    BY AgentsFinite DEF Typed, Due
  <2>3. /\ Cardinality(s.wake_wait) \in Nat /\ s.wake_active \in Nat
        /\ s.woke \in Nat /\ s.wake_failed \in Nat
    BY <2>1, <2>2, FS_CardinalityType DEF Typed
  <2>4. s.n \in Nat
    <3>1. s.n \in 0..TOTAL
      BY DEF Typed
    <3> QED BY <3>1
  <2>5. s.n >= Known(s, 0)
    BY <2>1, <2>3, <2>4 DEF Known
  <2> QED BY <2>1, <2>5 DEF Wakes
<1>2. Core(s, {i}, 0)
  BY <1>1 DEF Core
<1>3. Core(s, {}, 0)
  BY <1>2, LetGo DEF Sweeping
<1>4. AtEase(s, i)
  BY DEF AtEase, Passed, Sweeping
<1> QED BY <1>3, <1>4, CalmAll DEF Live

\* The wake phase may end with the agent in hand, which is at rest.
LEMMA WakeEndsLive ==
    ASSUME NEW s, Typed(s), NEW i \in Agents, s.phase = "waking",
           Core(s, {i}, 0), Calm(s, {i}), Own(s, {}), NEW c, c = CheckWakeDone(s)
    PROVE /\ Core(c, {i}, 0) /\ Calm(c, {i}) /\ Own(c, {}) /\ c.duty = s.duty
          /\ c.phase \in {"waking", "running"} /\ c.agents[i] = s.agents[i]
          /\ c.wake_only = s.wake_only /\ c.started = s.started
          /\ s.agents[i] \in {"running", "failed"} => Calm(c, {}) /\ Live(c)
<1>1. /\ Core(c, {i}, 0) /\ Calm(c, {i}) /\ Own(c, {})
      /\ c.phase \in {"waking", "running"} /\ c.agents = s.agents
      /\ c.duty = s.duty /\ c.wake_only = s.wake_only /\ c.started = s.started
  BY CheckWakeDoneLive
<1>2. Typed(c)
  BY CheckWakeDoneIs DEF NoFlow
<1>3. c.agents[i] = s.agents[i] /\ ~Sweeping(c)
  BY <1>1 DEF Sweeping
<1>4. i \notin Due(c, "wake")
  BY <1>1 DEF Core, Lives, Open
<1>5. ASSUME s.agents[i] \in {"running", "failed"} PROVE Calm(c, {})
  <2>1. AtEase(c, i)
    BY <1>1, <1>3, <1>4, <1>5 DEF AtEase
  <2> QED BY <2>1, <1>1, CalmAll
<1>6. Core(c, {}, 0)
  BY <1>1, <1>2, <1>3, LetGo
<1> QED BY <1>1, <1>3, <1>5, <1>6 DEF Live

LEMMA FirstDispatched ==
    ASSUME NEW s, FlowOk(s), NEW r \in Requests, r.first
    PROVE FlowOk(Dispatched(s, r))
<1>1. PICK t : t = Dispatched(s, r)
  OBVIOUS
<1>2. OfPaced(r) = 0
  BY DEF OfPaced
<1>3. /\ Typed(t) /\ Balanced(t, 0, 0, 0) /\ Paced(t) /\ t.fcq = s.fcq
      /\ s.pods = 0 => PoolRoom(t) = PoolRoom(s)
      /\ s.pods # 0 => PoolRoom(t) = PoolRoom(s) - (IF r.epp THEN 1 ELSE 0)
  BY <1>1, <1>2, DispatchedFlow DEF FlowOk
<1>4. PoolRoom(s) \in Int
  BY RoomType DEF FlowOk
<1>5. PoolRoom(t) <= PoolRoom(s)
  BY <1>3, <1>4
<1>6. PoolRoom(t) \in Int
  BY <1>3, RoomType
<1>7. NoRoom(t)
  BY <1>3, <1>4, <1>5, <1>6 DEF FlowOk, NoRoom
<1> QED BY <1>1, <1>3, <1>7 DEF FlowOk

\* The agent in hand has woken: in a wake-only burst it runs, in another its first request leaves.
LEMMA WokenKeeps ==
    ASSUME NEW s, FlowOk(s), NEW i \in Agents, NEW t \in Woken(s, i)
    PROVE /\ FlowOk(t)
          /\ s.phase = "waking" /\ Core(s, {i}, 1) /\ Calm(s, {i}) /\ Own(s, {}) => Live(t)
<1>0. Typed(s)
  BY DEF FlowOk
<1>1. PICK quiet \in BOOLEAN : quiet <=> s.wake_only /\ ~s.started
  OBVIOUS
<1>2. PICK x \in States : x = IF quiet THEN "running" ELSE "requesting"
  BY DEF States
<1>3. PICK up : up = Set(s, i, x)
  OBVIOUS
<1>4. PICK v : v = [up EXCEPT !.woke = @ + 1]
  OBVIOUS
<1>5. PICK c : c = CheckWakeDone(v)
  OBVIOUS
<1>6. IF quiet THEN t = c ELSE \E b \in Tiers(c) : t = Dispatched(c, Request(c, i, TRUE, c.duty, b))
  BY <1>1, <1>2, <1>3, <1>4, <1>5 DEF Woken
<1>7. Typed(up) /\ NoFlow(s, up)
  BY <1>0, <1>3, SetKeeps
<1>8. Same(s, up, {"agents"}) /\ up.agents = [s.agents EXCEPT ![i] = x]
  BY <1>0, <1>3, SetIs
<1>9. Same(up, v, {"woke"}) /\ v.woke = up.woke + 1
  BY <1>4, <1>7 DEF Typed, Same, Attributes
<1>10. Typed(v)
  <2>3. up.woke \in Nat
    BY <1>7 DEF Typed
  <2>1. v.woke \in Nat
    BY <2>3, <1>9
  <2>2. Typed(up) /\ Same(up, v, {"woke"})
    BY <1>7, <1>9
  <2> QED BY <2>1, <2>2, TypedBut
<1>11. NoFlow(up, v)
  BY <1>9, <1>10, NoFlowFields DEF FlowFields
<1>12. NoFlow(v, c) /\ Typed(c)
  BY <1>5, <1>10, CheckWakeDoneIs DEF NoFlow
<1>13. FlowOk(c)
  BY <1>7, <1>11, <1>12, FlowOkNoFlow
<1>14. ASSUME NEW b \in Tiers(c)
       PROVE /\ Request(c, i, TRUE, c.duty, b) \in Requests
             /\ Request(c, i, TRUE, c.duty, b).a = i
             /\ Request(c, i, TRUE, c.duty, b).first
             /\ Request(c, i, TRUE, c.duty, b).after = c.duty
  BY <1>12 DEF Request, Requests, Tiers, Typed
<1>15. FlowOk(t)
  <2>1. CASE quiet
    BY <2>1, <1>6, <1>13
  <2>2. CASE ~quiet
    <3>1. PICK b \in Tiers(c) : t = Dispatched(c, Request(c, i, TRUE, c.duty, b))
      BY <2>2, <1>6
    <3> QED BY <3>1, <1>13, <1>14, FirstDispatched
  <2> QED BY <2>1, <2>2
<1>16. ASSUME s.phase = "waking", Core(s, {i}, 1), Calm(s, {i}), Own(s, {}) PROVE Live(t)
  <2>1. Same(s, v, {"agents", "woke", "wake_failed"}) /\ v.woke = s.woke + 1 /\ v.wake_failed = s.wake_failed
    BY <1>8, <1>9 DEF Same, Attributes
  <2>2. v.agents = up.agents
    BY <1>9 DEF Same, Attributes
  <2>3. v.agents[i] = x /\ \A j \in Agents \ {i} : v.agents[j] = s.agents[j]
    BY <2>2, <1>0, <1>8 DEF Typed
  <2>4. v.phase = "waking" /\ Core(v, {i}, 0) /\ Calm(v, {i}) /\ Own(v, {})
    <3>1. x # "suspended"
      BY <1>2
    <3> QED BY <3>1, <2>1, <2>3, <1>0, <1>16, CountedLive
  <2>5. v.wake_only = s.wake_only /\ v.started = s.started
    BY <2>1 DEF Same, Attributes
  <2>6. /\ quiet <=> v.wake_only /\ ~v.started
        /\ v.started <=> ~v.wake_only \/ v.duty
    BY <2>4, <2>5, <1>1 DEF Core, Ops
  <2>7. /\ Core(c, {i}, 0) /\ Calm(c, {i}) /\ Own(c, {}) /\ c.duty = v.duty
        /\ c.phase \in {"waking", "running"} /\ c.agents[i] = v.agents[i]
        /\ c.wake_only = v.wake_only /\ c.started = v.started
        /\ v.agents[i] \in {"running", "failed"} => Live(c)
    BY <2>4, <1>5, <1>10, WakeEndsLive
  <2>8. CASE quiet
    BY <2>3, <2>7, <2>8, <1>2, <1>6
  <2>9. CASE ~quiet
    <3>1. PICK b \in Tiers(c) : t = Dispatched(c, Request(c, i, TRUE, c.duty, b))
      BY <2>9, <1>6
    <3>2. PICK r \in Requests : r = Request(c, i, TRUE, c.duty, b)
      BY <1>14
    <3>3. r.a = i /\ r.first /\ r.after = c.duty
      BY <3>2, <1>14
    <3>4. c.agents[r.a] = "requesting" /\ (r.after \/ ~c.wake_only) /\ ~Quiet(c)
      BY <3>3, <2>3, <2>6, <2>7, <2>9, <1>2 DEF Quiet
    <3>5. Core(c, {r.a}, 0) /\ Calm(c, {r.a}) /\ Own(c, {}) /\ c.phase \in {"waking", "running"}
      BY <3>3, <2>7
    <3>6. t = Dispatched(c, r)
      BY <3>1, <3>2
    <3> QED BY <3>3, <3>4, <3>5, <3>6, <1>12, DispatchedFirstLive
  <2> QED BY <2>8, <2>9
<1> QED BY <1>15, <1>16

\* The wake of the agent in hand has failed, which finishes it.
LEMMA WakeFailedKeeps ==
    ASSUME NEW s, FlowOk(s), NEW i \in Agents, NEW t, t = WakeFailed(s, i)
    PROVE /\ FlowOk(t)
          /\ s.phase = "waking" /\ Core(s, {i}, 1) /\ Calm(s, {i}) /\ Own(s, {}) => Live(t)
<1>0. Typed(s)
  BY DEF FlowOk
<1>1. PICK x \in States : x = "failed"
  BY DEF States
<1>2. PICK up : up = Set(s, i, x)
  OBVIOUS
<1>3. PICK v : v = [up EXCEPT !.wake_failed = @ + 1]
  OBVIOUS
<1>4. PICK c : c = CheckWakeDone(v)
  OBVIOUS
<1>5. t = IF c.wake_only /\ ~c.started THEN c ELSE LifeDone(c)
  BY <1>1, <1>2, <1>3, <1>4 DEF WakeFailed
<1>6. Typed(up) /\ NoFlow(s, up)
  BY <1>0, <1>2, SetKeeps
<1>7. Same(s, up, {"agents"}) /\ up.agents = [s.agents EXCEPT ![i] = x]
  BY <1>0, <1>2, SetIs
<1>8. Same(up, v, {"wake_failed"}) /\ v.wake_failed = up.wake_failed + 1
  BY <1>3, <1>6 DEF Typed, Same, Attributes
<1>9. Typed(v)
  <2>1. up.wake_failed \in Nat
    BY <1>6 DEF Typed
  <2>2. v.wake_failed \in Nat
    BY <2>1, <1>8
  <2>3. Typed(up) /\ Same(up, v, {"wake_failed"})
    BY <1>6, <1>8
  <2> QED BY <2>2, <2>3, TypedBut
<1>10. NoFlow(up, v)
  BY <1>8, <1>9, NoFlowFields DEF FlowFields
<1>11. NoFlow(v, c) /\ Typed(c)
  BY <1>4, <1>9, CheckWakeDoneIs DEF NoFlow
<1>12. FlowOk(c)
  BY <1>6, <1>10, <1>11, FlowOkNoFlow
<1>13. FlowOk(t)
  <2>1. CASE t = c
    BY <2>1, <1>12
  <2>2. CASE t = LifeDone(c)
    <3>1. NoFlow(c, t)
      BY <2>2, <1>11, LifeDoneIs
    <3> QED BY <3>1, <1>12, FlowOkNoFlow
  <2> QED BY <2>1, <2>2, <1>5
<1>14. ASSUME s.phase = "waking", Core(s, {i}, 1), Calm(s, {i}), Own(s, {}) PROVE Live(t)
  <2>1. Same(s, v, {"agents", "woke", "wake_failed"}) /\ v.woke = s.woke /\ v.wake_failed = s.wake_failed + 1
    BY <1>7, <1>8 DEF Same, Attributes
  <2>2. v.agents = up.agents
    BY <1>8 DEF Same, Attributes
  <2>3. v.agents[i] = x /\ \A j \in Agents \ {i} : v.agents[j] = s.agents[j]
    BY <2>2, <1>0, <1>7 DEF Typed
  <2>4. v.phase = "waking" /\ Core(v, {i}, 0) /\ Calm(v, {i}) /\ Own(v, {})
    <3>1. x # "suspended"
      BY <1>1
    <3> QED BY <3>1, <2>1, <2>3, <1>0, <1>14, CountedLive
  <2>6. v.agents[i] \in {"running", "failed"}
    BY <2>3, <1>1
  <2>7. /\ Core(c, {i}, 0) /\ Own(c, {}) /\ c.phase \in {"waking", "running"}
        /\ c.wake_only = v.wake_only /\ c.started = v.started
        /\ Calm(c, {}) /\ Live(c)
    BY <2>4, <2>6, <1>4, <1>9, WakeEndsLive
  <2>8. CASE Quiet(c)
    BY <2>7, <2>8, <1>5 DEF Quiet
  <2>9. CASE ~Quiet(c)
    <3>1. t = LifeDone(c)
      BY <2>9, <1>5 DEF Quiet
    <3>2. Live(LifeDone(c))
      BY <2>7, <2>9, <1>11, LifeDoneLive
    <3> QED BY <3>1, <3>2
  <2> QED BY <2>8, <2>9
<1> QED BY <1>13, <1>14

LEMMA WakeKeeps ==
    ASSUME FlowOk(self), Wake
    PROVE FlowOk(self') /\ (Live(self) => Live(self'))
<1>1. PICK e \in Pending :
        /\ e[1] = "wake"
        /\ LET s == [Fire(e) EXCEPT !.wake_active = self.wake_active - 1]
           IN  \E s1 \in {Started(s, I) : I \in WakeFill(s)} : \E s2 \in WakeOutcomes(s1, e[2]) : Runs(s2)
  BY DEF Wake
<1>2. PICK s : s = [Fire(e) EXCEPT !.wake_active = self.wake_active - 1]
  OBVIOUS
<1>3. PICK t : t = self'
  OBVIOUS
<1>4. PICK I \in WakeFill(s) : \E x \in WakeOutcomes(Started(s, I), e[2]) : t = x
  BY <1>1, <1>2, <1>3 DEF Runs
<1>5. PICK u : u = Started(s, I)
  OBVIOUS
<1>6. PICK i \in Agents : i = e[2] /\ e = <<"wake", i>>
  <2>1. e \in Events
    BY DEF FlowOk, Typed, Heap, Pending, BagToSet
  <2>2. PICK k \in AgentKinds : k = "wake"
    BY DEF AgentKinds
  <2>3. e[2] \in Agents /\ e = <<k, e[2]>>
    BY <2>1, <2>2, <1>1, EventForm
  <2> QED BY <2>2, <2>3
<1>7. t \in WakeOutcomes(u, i)
  BY <1>4, <1>5, <1>6
<1>8. /\ Typed(s) /\ FlowOk(s)
      /\ Live(self) => /\ s.phase = "waking" /\ (s.agents[i] = "waking" \/ Passed(s, i))
                       /\ Core(s, {i}, 1) /\ Calm(s, {i}) /\ Own(s, {})
  BY <1>2, <1>6, WakeFiredIs
<1>9. I \subseteq s.wake_wait /\ I \subseteq Agents
  BY <1>8, WakeFillIs DEF Typed
<1>10. FlowOk(u)
  <2>1. NoFlow(s, u)
    BY <1>5, <1>8, <1>9, StartedIs
  <2> QED BY <2>1, <1>8, FlowOkNoFlow
<1>11. ASSUME Live(self)
       PROVE /\ u.phase = "waking" /\ (u.agents[i] = "waking" \/ Passed(u, i))
             /\ Core(u, {i}, 1) /\ Calm(u, {i}) /\ Own(u, {})
  <2>1. /\ s.phase = "waking" /\ (s.agents[i] = "waking" \/ Passed(s, i))
        /\ Core(s, {i}, 1) /\ Calm(s, {i}) /\ Own(s, {})
    BY <1>8, <1>11
  <2>2. /\ Core(u, {i}, 1) /\ Calm(u, {i}) /\ Own(u, {})
        /\ Same(s, u, {"agents", "ev", "wake_wait", "wake_active"})
        /\ \A j \in Agents : j \in {i} => u.agents[j] = s.agents[j]
    BY <2>1, <1>5, <1>8, <1>9, StartedLive
  <2>3. u.phase = s.phase /\ u.hold = s.hold /\ u.duty = s.duty
    BY <2>2 DEF Same, Attributes
  <2>4. u.agents[i] = s.agents[i]
    BY <2>2
  <2> QED BY <2>1, <2>2, <2>3, <2>4 DEF Passed
<1>12. CASE t = u /\ u.agents[i] # "waking"
  <2>1. ASSUME Live(self) PROVE Live(u)
    BY <2>1, <1>10, <1>11, <1>12, WakePassedLive DEF FlowOk
  <2> QED BY <2>1, <1>3, <1>10, <1>12
<1>13. CASE t \in Woken(u, i)
  BY <1>3, <1>10, <1>11, <1>13, WokenKeeps
<1>14. CASE t = WakeFailed(u, i)
  BY <1>3, <1>10, <1>11, <1>14, WakeFailedKeeps
<1> QED BY <1>7, <1>12, <1>13, <1>14 DEF WakeOutcomes

-----------------------------------------------------------------------------
(* The sweep of suspend-all, and the suspensions of a one-shot burst. *)
LEMMA SweepNoStep ==
    ASSUME NEW s, Ops(s), Sweeping(s)
    PROVE StepsDue(s) = {}
<1> SUFFICES ASSUME NEW e \in StepsDue(s) PROVE FALSE
  OBVIOUS
<1>1. e \in Steps /\ s.phase = "suspending"
  BY DEF StepsDue, Sweeping
<1>2. e[1] \in {"preflight", "begin", "drain", "recon"}
  BY <1>1 DEF Steps
<1>3. e[1] = "drain"
  BY <1>1, <1>2 DEF Ops
<1>4. e = <<"drain", 0>>
  BY <1>1, <1>3 DEF Steps
<1> QED BY <1>4 DEF Sweeping, DrainDue

\* The sweep ends when no suspension is left.
LEMMA SweepEndsLive ==
    ASSUME NEW s, Typed(s), Core(s, {}, 0), Calm(s, {}), Own(s, {}), Sweeping(s), s.susp_out <= 0,
           NEW t, t = FinishSuspend(s)
    PROVE Live(t)
<1>1. NoFlow(s, t) /\ Same(s, t, {"all_susp", "phase", "busy"}) /\ t.phase = "idle" /\ ~t.busy
  BY FinishSuspendIs
<1>2. /\ t.t0 = s.t0 /\ t.duty = s.duty /\ t.wake_wait = s.wake_wait /\ t.wake_active = s.wake_active
      /\ t.susp_active = s.susp_active /\ t.susp_wait = s.susp_wait /\ t.susp_out = s.susp_out
      /\ t.ev = s.ev /\ t.agents = s.agents /\ t.owned = s.owned /\ t.workers = s.workers
  BY <1>1 DEF Same, Attributes
<1>3. /\ \A k : Due(t, k) = Due(s, k)
      /\ Firsts(t) = Firsts(s) /\ StepsDue(t) = StepsDue(s) /\ (Once(s) => Once(t))
  BY <1>2 DEF Due, Firsts, StepsDue, Once
<1>4. s.susp_wait \cup Due(s, "sdone") = {}
  <2>1. PICK W : W = s.susp_wait \cup Due(s, "sdone") \cup {}
    OBVIOUS
  <2>2. s.susp_out = Cardinality(W)
    BY <2>1 DEF Core, Susps
  <2>3. W \subseteq Agents
    BY <2>1 DEF Due, Typed
  <2>4. IsFiniteSet(W)
    BY <2>3, AgentsFinite
  <2>5. Cardinality(W) \in Nat
    BY <2>4, FS_CardinalityType
  <2>6. Cardinality(W) = 0
    BY <2>2, <2>5
  <2>7. W = {}
    BY <2>4, <2>6, FS_EmptySet
  <2> QED BY <2>1, <2>7
<1>5. s.phase = "suspending" /\ StepsDue(s) = {} /\ ~s.duty
  BY SweepNoStep DEF Sweeping, Core, Ops
<1>6. Due(s, "wake") = {} /\ s.wake_wait = {} /\ Firsts(s) = {}
  BY <1>5 DEF Core, Ops
<1>7. ~Sweeping(t)
  BY <1>1 DEF Sweeping
<1>8. Ops(t)
  BY <1>1, <1>2, <1>3, <1>4, <1>5, <1>6, <1>7 DEF Ops
<1>9. t.wake_active = Cardinality(Due(t, "wake")) /\ t.susp_active = Cardinality(Due(t, "sdone"))
      /\ t.susp_out \in Nat /\ Once(t)
  BY <1>2, <1>3 DEF Core, Wakes, Susps, Lives
<1>10. \A i \in Agents : t.agents[i] \notin {"waking", "requesting", "suspending"}
  BY <1>2, <1>4 DEF Calm
<1>11. t.owned = {} /\ t.workers = Cardinality(t.owned) /\ t.workers <= DUTY_WORKERS
  BY <1>2, <1>5 DEF Own
<1> QED BY <1>1, <1>7, <1>8, <1>9, <1>10, <1>11, RestLive

LEMMA SuspActiveTyped ==
    ASSUME NEW s, Typed(s), NEW t, Same(s, t, {"susp_active"}), t.susp_active \in Int
    PROVE Typed(t)
BY TypedBut

LEMMA SuspOutTyped ==
    ASSUME NEW s, Typed(s), NEW t, Same(s, t, {"susp_out"}), t.susp_out \in Int
    PROVE Typed(t)
BY TypedBut

\* A suspension has ended: it is not under way any more, and its agent is in hand.
LEMMA SDoneFiredIs ==
    ASSUME FlowOk(self), NEW i \in Agents, NEW e \in Pending, e = <<"sdone", i>>,
           NEW v, v = Fire(e), NEW s, s = [v EXCEPT !.susp_active = @ - 1]
    PROVE /\ Typed(s) /\ FlowOk(s)
          /\ Live(self) => /\ \/ s.phase = "waking" /\ ~s.hold /\ ~s.wake_only
                              \/ Sweeping(s)
                           /\ s.agents[i] \notin {"waking", "requesting"}
                           /\ Core(s, {i}, 0) /\ Calm(s, {i}) /\ Own(s, {})
<1>1. PICK k \in AgentKinds : k = "sdone"
  BY DEF AgentKinds
<1>2. e = <<k, i>>
  BY <1>1
<1>3. ~Requesting(e) /\ e \in DOMAIN self.ev /\ Typed(self)
  BY <1>2, OtherEvents DEF FlowOk, Pending, BagToSet
<1>5. Typed(v) /\ Same(self, v, {"ev"}) /\ Loses(self, v, e) /\ NoFlow(self, v)
  BY <1>3, FireIs, TookLoses
<1>7. Same(v, s, {"susp_active"}) /\ s.susp_active = v.susp_active - 1
  BY <1>5 DEF Typed, Same, Attributes
<1>8. Typed(s)
  <2>1. v.susp_active \in Int
    BY <1>5 DEF Typed
  <2>2. s.susp_active \in Int
    BY <2>1, <1>7
  <2> QED BY <2>2, <1>5, <1>7, SuspActiveTyped
<1>9. NoFlow(v, s)
  BY <1>7, <1>8, NoFlowFields DEF FlowFields
<1>10. FlowOk(s)
  BY <1>5, <1>9, FlowOkNoFlow
<1>11. ASSUME Live(self)
       PROVE /\ \/ s.phase = "waking" /\ ~s.hold /\ ~s.wake_only
                \/ Sweeping(s)
             /\ s.agents[i] \notin {"waking", "requesting"}
             /\ Core(s, {i}, 0) /\ Calm(s, {i}) /\ Own(s, {})
  <2>1. Core(self, {}, 0) /\ Calm(self, {}) /\ Own(self, {})
    BY <1>11 DEF Live
  <2>2. Once(self) /\ Heap(self.ev) /\ Heap(v.ev)
    BY <2>1, <1>3, <1>5 DEF Core, Lives, Typed
  <2>3. v.fcq = self.fcq /\ s.ev = v.ev /\ s.fcq = v.fcq
    BY <1>5, <1>7 DEF Same, Attributes
  <2>4. Loses(self, v, <<k, i>>)
    BY <1>2, <1>5
  <2>5. i \in Due(self, k) /\ DueBut(self, v, {k}) /\ StepsDue(v) = StepsDue(self)
    BY <2>2, <2>3, <2>4, LoseAgent
  <2>6. Served(v) = Served(self) /\ Once(v)
    BY <2>2, <2>3, <2>4, LoseAgent
  <2>7. Due(v, k) = Due(self, k) \ {i}
    BY <2>2, <2>3, <2>4, <1>1, LoseAgent
  <2>8. \A x : Due(s, x) = Due(v, x)
    BY <2>3 DEF Due
  <2>9. StepsDue(s) = StepsDue(self) /\ Once(s) /\ Firsts(s) = Firsts(self)
    BY <2>3, <2>5, <2>6 DEF StepsDue, Once, Firsts, DueBut
  <2>10. i \in Due(self, "sdone") /\ Due(s, "sdone") = Due(self, "sdone") \ {i}
    BY <2>5, <2>7, <2>8, <1>1
  <2>11. {"wake", "duty_wake", "duty_send", "duty_park", "duty_susp_done"} \subseteq AgentKinds \ {k}
    BY <1>1 DEF AgentKinds
  <2>12. /\ Due(s, "wake") = Due(self, "wake")
         /\ Due(s, "duty_wake") = Due(self, "duty_wake") /\ Due(s, "duty_send") = Due(self, "duty_send")
         /\ Due(s, "duty_park") = Due(self, "duty_park")
         /\ Due(s, "duty_susp_done") = Due(self, "duty_susp_done")
    BY <2>5, <2>8, <2>11 DEF DueBut
  <2>13. FirstOf(s) = FirstOf(self)
    BY <2>9 DEF FirstOf
  <2>14. /\ s.phase = self.phase /\ s.busy = self.busy /\ s.t0 = self.t0 /\ s.n = self.n
         /\ s.hold = self.hold /\ s.wake_only = self.wake_only /\ s.started = self.started
         /\ s.duty = self.duty /\ s.woke = self.woke /\ s.wake_failed = self.wake_failed
         /\ s.first_done = self.first_done /\ s.pending = self.pending /\ s.wake_wait = self.wake_wait
         /\ s.wake_active = self.wake_active /\ s.susp_wait = self.susp_wait
         /\ s.susp_out = self.susp_out
         /\ s.agents = self.agents /\ s.owned = self.owned /\ s.workers = self.workers
    BY <1>5, <1>7 DEF Same, Attributes
  <2>15. Sweeping(s) <=> Sweeping(self)
    BY <2>9, <2>14 DEF Sweeping, DrainDue
  <2>16. (s.phase = "waking" /\ ~s.hold /\ ~s.wake_only) \/ Sweeping(s)
    BY <2>1, <2>10, <2>14, <2>15 DEF Core, Ops
  <2>18. /\ i \notin Due(self, "wake") /\ i \notin FirstOf(self) /\ i \notin self.susp_wait
         /\ i \notin self.wake_wait
    BY <2>1, <2>10 DEF Core, Lives
  <2>19. s.agents[i] \notin {"waking", "requesting"}
    BY <2>1, <2>14, <2>15, <2>16, <2>18 DEF Calm
  <2>20. Ops(s)
    BY <2>1, <2>9, <2>10, <2>12, <2>14, <2>15, <2>16 DEF Core, Ops, Quiet
  <2>21. Wakes(s, 0)
    BY <2>1, <2>12, <2>14 DEF Core, Wakes, Known
  <2>22. Open(s) = Open(self) \ {i} /\ i \in Open(self) /\ Open(s) \cup {i} = Open(self) \cup {}
    BY <2>10, <2>12, <2>13, <2>14, <2>18 DEF Open
  <2>23. Lives(s, {i})
    <3>1. Lives(self, {})
      BY <2>1 DEF Core
    <3>2. /\ FirstOf(s) \cap (s.wake_wait \cup Due(s, "wake")) = {}
          /\ s.wake_wait \cap Due(s, "wake") = {} /\ Once(s)
      BY <3>1, <2>9, <2>12, <2>13, <2>14 DEF Lives
    <3>3. /\ (s.susp_wait \cup Due(s, "sdone")) \cap (s.wake_wait \cup Due(s, "wake") \cup FirstOf(s)) = {}
          /\ s.susp_wait \cap Due(s, "sdone") = {}
      BY <3>1, <2>10, <2>12, <2>13, <2>14 DEF Lives
    <3>4. \A q, r \in Firsts(s) : q.a = r.a => q = r
      BY <3>1, <2>9 DEF Lives
    <3>5. Open(s) \cap {i} = {} /\ Open(s) \cup {i} = Open(self) \cup {}
      BY <2>22
    <3>6. s.phase = "waking" =>
             /\ s.pending >= Cardinality(Open(s) \cup {i})
             /\ Open(s) \cup {i} # {} => s.busy /\ ~s.first_done
      BY <3>1, <3>5, <2>14 DEF Lives
    <3>7. s.phase # "running"
      BY <2>16 DEF Sweeping
    <3> QED BY <3>2, <3>3, <3>4, <3>5, <3>6, <3>7 DEF Lives
  <2>24. Susps(s, {i})
    <3>1. IsFiniteSet(Due(self, "sdone"))
      BY AgentsFinite DEF Due
    <3>2. Cardinality(Due(s, "sdone")) = Cardinality(Due(self, "sdone")) - 1
      BY <3>1, <2>10, FS_RemoveElement
    <3>3. self.susp_active = Cardinality(Due(self, "sdone")) /\ self.susp_out \in Nat
      BY <2>1 DEF Core, Susps
    <3>4. v.susp_active = self.susp_active
      BY <1>5 DEF Same, Attributes
    <3>5. s.susp_wait \cup Due(s, "sdone") \cup {i} = self.susp_wait \cup Due(self, "sdone") \cup {}
      BY <2>10, <2>14
    <3> QED BY <2>1, <3>2, <3>3, <3>4, <3>5, <2>14, <2>15, <1>7 DEF Core, Susps
  <2>25. Calm(s, {i})
    BY <2>1, <2>10, <2>12, <2>13, <2>14, <2>15 DEF Calm
  <2>26. Own(s, {})
    BY <2>1, <2>12, <2>14, <2>16 DEF Own, Sweeping
  <2> QED BY <2>16, <2>19, <2>20, <2>21, <2>23, <2>24, <2>25, <2>26 DEF Core
<1> QED BY <1>8, <1>10, <1>11

LEMMA WaitTyped ==
    ASSUME NEW s, Typed(s), NEW t, Same(s, t, {"susp_wait"}), t.susp_wait \subseteq Agents
    PROVE Typed(t)
BY TypedBut

LEMMA SuspStartAdds ==
    ASSUME NEW s, Typed(s), NEW i \in Agents, NEW t, t = SuspStart(s, i)
    PROVE /\ NoFlow(s, t) /\ Same(s, t, {"agents", "susp_active", "ev"})
          /\ t.agents = [s.agents EXCEPT ![i] = "suspending"] /\ t.susp_active = s.susp_active + 1
          /\ Adds(s, t, {<<"sdone", i>>})
<1>1. \A d : d \in {<<"sdone", i>>} <=> d = <<"sdone", i>>
  OBVIOUS
<1>2. /\ NoFlow(s, t) /\ Same(s, t, {"agents", "susp_active", "ev"})
      /\ t.agents = [s.agents EXCEPT ![i] = "suspending"] /\ t.susp_active = s.susp_active + 1
  BY SuspStartIs
<1>3. DOMAIN t.ev = DOMAIN s.ev \cup {<<"sdone", i>>}
  BY SuspStartIs
<1>4. \A d : Times(t.ev, d) = Times(s.ev, d) + (IF d = <<"sdone", i>> THEN 1 ELSE 0)
  BY SuspStartIs
<1>5. Adds(s, t, {<<"sdone", i>>})
  BY <1>1, <1>3, <1>4 DEF Adds
<1> QED BY <1>2, <1>5

\* A suspension that waited begins, while another agent is in hand.
LEMMA NextSuspLive ==
    ASSUME NEW s, Typed(s), NEW i \in Agents, NEW j \in s.susp_wait,
           NEW u, u = [s EXCEPT !.susp_wait = @ \ {j}], NEW t, t = SuspStart(u, j)
    PROVE /\ Typed(t) /\ NoFlow(s, t) /\ t.phase = s.phase /\ t.hold = s.hold /\ t.wake_only = s.wake_only
          /\ t.owned = s.owned
          /\ /\ (s.phase = "waking" /\ ~s.hold /\ ~s.wake_only) \/ Sweeping(s)
             /\ Core(s, {i}, 0) /\ Calm(s, {i}) /\ Own(s, {})
             => /\ Core(t, {i}, 0) /\ Calm(t, {i}) /\ Own(t, {}) /\ (Sweeping(t) <=> Sweeping(s))
                /\ t.agents[i] = s.agents[i]
<1>1. j \in Agents /\ Heap(s.ev) /\ s.susp_wait \subseteq Agents
  BY DEF Typed
<1>2. Same(s, u, {"susp_wait"}) /\ u.susp_wait = s.susp_wait \ {j}
  BY DEF Typed, Same, Attributes
<1>3. Typed(u)
  <2>1. u.susp_wait \subseteq Agents
    BY <1>1, <1>2
  <2> QED BY <2>1, <1>2, WaitTyped
<1>4. NoFlow(s, u)
  BY <1>2, <1>3, NoFlowFields DEF FlowFields
<1>5. PICK k \in AgentKinds : k = "sdone"
  BY DEF AgentKinds
<1>6. /\ NoFlow(u, t) /\ Same(u, t, {"agents", "susp_active", "ev"})
      /\ t.agents = [u.agents EXCEPT ![j] = "suspending"] /\ t.susp_active = u.susp_active + 1
      /\ Adds(u, t, {<<"sdone", j>>})
  BY <1>1, <1>3, SuspStartAdds
<1>7. Typed(t) /\ NoFlow(s, t)
  BY <1>4, <1>6, NoFlowTwice DEF NoFlow
<1>8. u.ev = s.ev /\ u.fcq = s.fcq /\ u.agents = s.agents /\ u.susp_active = s.susp_active
  BY <1>2 DEF Same, Attributes
<1>9. /\ t.phase = s.phase /\ t.busy = s.busy /\ t.t0 = s.t0 /\ t.n = s.n
      /\ t.hold = s.hold /\ t.wake_only = s.wake_only /\ t.started = s.started
      /\ t.duty = s.duty /\ t.woke = s.woke /\ t.wake_failed = s.wake_failed
      /\ t.first_done = s.first_done /\ t.pending = s.pending /\ t.wake_wait = s.wake_wait
      /\ t.wake_active = s.wake_active /\ t.susp_out = s.susp_out /\ t.fcq = s.fcq
      /\ t.owned = s.owned /\ t.workers = s.workers
  <2>1. Same(s, t, {"agents", "susp_active", "ev", "susp_wait"})
    BY <1>2, <1>6 DEF Same
  <2> QED BY <2>1 DEF Same, Attributes
<1>10. t.susp_wait = s.susp_wait \ {j}
  BY <1>2, <1>6 DEF Same, Attributes
<1>11. Adds(s, t, {<<k, j>>})
  BY <1>5, <1>6, <1>8 DEF Adds
<1>12. ASSUME (s.phase = "waking" /\ ~s.hold /\ ~s.wake_only) \/ Sweeping(s),
              Core(s, {i}, 0), Calm(s, {i}), Own(s, {})
       PROVE /\ Core(t, {i}, 0) /\ Calm(t, {i}) /\ Own(t, {}) /\ (Sweeping(t) <=> Sweeping(s))
             /\ t.agents[i] = s.agents[i]
  <2>1. /\ Once(s) /\ s.susp_wait \cap Due(s, "sdone") = {} /\ Open(s) \cap {i} = {}
        /\ s.susp_active = Cardinality(Due(s, "sdone"))
    BY <1>12 DEF Core, Lives, Susps
  <2>2. j \notin Due(s, "sdone") /\ j \in Open(s) /\ j # i
    BY <2>1 DEF Open
  <2>3. DueBut(s, t, {k}) /\ StepsDue(t) = StepsDue(s)
    BY <1>1, <1>11, AddAgent
  <2>4. Once(t)
    BY <2>1, <2>2, <1>1, <1>5, <1>11, AddAgent
  <2>5. Due(t, "sdone") = Due(s, "sdone") \cup {j}
    <3>1. DOMAIN t.ev = DOMAIN s.ev \cup {<<"sdone", j>>}
      BY <1>6, <1>8 DEF Adds
    <3> QED BY <3>1, <1>1 DEF Due
  <2>6. {"wake", "duty_wake", "duty_send", "duty_park", "duty_susp_done"} \subseteq AgentKinds \ {k}
    BY <1>5 DEF AgentKinds
  <2>7. /\ Due(t, "wake") = Due(s, "wake")
        /\ Due(t, "duty_wake") = Due(s, "duty_wake") /\ Due(t, "duty_send") = Due(s, "duty_send")
        /\ Due(t, "duty_park") = Due(s, "duty_park")
        /\ Due(t, "duty_susp_done") = Due(s, "duty_susp_done") /\ Firsts(t) = Firsts(s)
    BY <2>3, <2>6 DEF DueBut
  <2>8. FirstOf(t) = FirstOf(s)
    BY <2>7 DEF FirstOf
  <2>9. t.susp_wait \cup Due(t, "sdone") = s.susp_wait \cup Due(s, "sdone")
        /\ t.susp_wait \cap Due(t, "sdone") = {}
    BY <2>1, <2>5, <1>10
  <2>10. Sweeping(t) <=> Sweeping(s)
    BY <2>3, <1>9 DEF Sweeping, DrainDue
  <2>11. Ops(t)
    <3>1. Due(t, "sdone") \cup t.susp_wait = Due(s, "sdone") \cup s.susp_wait
      BY <2>9
    <3>2. Due(t, "wake") \cup t.wake_wait = Due(s, "wake") \cup s.wake_wait
      BY <2>7, <1>9
    <3>3. Ops(s)
      BY <1>12 DEF Core
    <3>4. /\ \A d, e \in StepsDue(t) : d = e
          /\ \A e \in StepsDue(t) :
                /\ t.busy
                /\ e[1] \in {"preflight", "begin"} => t.phase = "idle"
                /\ e[1] = "drain" => t.phase = "suspending"
                /\ e[1] = "recon" => t.phase = "reconciling"
      BY <3>3, <2>3, <1>9 DEF Ops
    <3>5. /\ Due(t, "wake") \cup t.wake_wait # {} => t.phase = "waking"
          /\ Due(t, "sdone") \cup t.susp_wait # {} =>
                (t.phase = "waking" /\ ~t.hold /\ ~t.wake_only) \/ Sweeping(t)
      BY <3>1, <3>2, <3>3, <2>10, <1>9 DEF Ops
    <3>6. /\ t.phase \in {"suspending", "reconciling"} => t.busy
          /\ t.phase \in {"waking", "running"} => t.t0
          /\ t.phase = "running" => t.hold
          /\ t.phase = "waking" => /\ t.busy /\ ~t.first_done
                                   /\ t.started <=> ~t.wake_only \/ t.duty
          /\ Sweeping(t) => ~t.duty
      BY <3>3, <2>10, <1>9 DEF Ops
    <3>7. /\ Firsts(t) # {} => t.phase \in {"waking", "running"} /\ ~Quiet(t)
          /\ \A r \in Firsts(t) : r.after \/ ~t.wake_only
      BY <3>3, <2>7, <1>9 DEF Ops, Quiet
    <3> QED BY <3>4, <3>5, <3>6, <3>7 DEF Ops
  <2>12. Wakes(t, 0)
    BY <2>7, <1>9, <1>12 DEF Core, Wakes, Known
  <2>13. Open(t) = Open(s)
    BY <2>7, <2>8, <2>9, <1>9 DEF Open
  <2>14. Lives(t, {i})
    BY <2>4, <2>7, <2>8, <2>9, <2>13, <1>9, <1>12 DEF Core, Lives, Quiet
  <2>15. Susps(t, {i})
    <3>1. IsFiniteSet(Due(s, "sdone"))
      BY AgentsFinite DEF Due
    <3>2. Cardinality(Due(t, "sdone")) = Cardinality(Due(s, "sdone")) + 1
      BY <3>1, <2>2, <2>5, FS_AddElement
    <3>3. t.susp_active = Cardinality(Due(t, "sdone"))
      BY <3>2, <2>1, <1>6, <1>8
    <3>4. t.susp_wait \cup Due(t, "sdone") \cup {i} = s.susp_wait \cup Due(s, "sdone") \cup {i}
      BY <2>9
    <3> QED BY <3>3, <3>4, <2>10, <1>9, <1>12 DEF Core, Susps
  <2>16. \A a \in Agents : t.agents[a] = IF a = j THEN "suspending" ELSE s.agents[a]
    BY <1>6, <1>8 DEF Typed
  <2>17. j \notin Due(s, "wake")
    BY <1>12 DEF Core, Lives
  <2>18. Calm(t, {i})
    <3>1. t.phase = "waking" => t.phase # "running"
      OBVIOUS
    <3>2. ASSUME NEW a \in Agents \ {i}
          PROVE /\ t.phase = "waking" => /\ t.agents[a] = "waking" => a \in Due(t, "wake")
                                         /\ a \in Due(t, "wake") => t.agents[a] = "waking" \/ t.duty
                                         /\ t.agents[a] = "requesting" /\ ~t.hold
                                               => a \in FirstOf(t) \cup t.susp_wait
                                         /\ t.agents[a] = "suspending" => a \in Due(t, "sdone")
                /\ Sweeping(t) => /\ t.agents[a] \in {"waking", "requesting"} => a \in t.susp_wait
                                  /\ t.agents[a] = "suspending" => a \in t.susp_wait \cup Due(t, "sdone")
      <4>1. CASE a = j
        BY <4>1, <2>5, <2>7, <2>16, <2>17
      <4>2. CASE a # j
        <5>1. t.agents[a] = s.agents[a]
          BY <4>2, <2>16
        <5>2. a \in s.susp_wait => a \in t.susp_wait
          BY <4>2, <1>10
        <5>3. /\ s.phase = "waking" => /\ s.agents[a] = "waking" => a \in Due(s, "wake")
                                       /\ a \in Due(s, "wake") => s.agents[a] = "waking" \/ s.duty
                                       /\ s.agents[a] = "requesting" /\ ~s.hold
                                             => a \in FirstOf(s) \cup s.susp_wait
                                       /\ s.agents[a] = "suspending" => a \in Due(s, "sdone")
              /\ Sweeping(s) => /\ s.agents[a] \in {"waking", "requesting"} => a \in s.susp_wait
                                /\ s.agents[a] = "suspending" => a \in s.susp_wait \cup Due(s, "sdone")
          BY <1>12 DEF Calm
        <5> QED BY <5>1, <5>2, <5>3, <2>5, <2>7, <2>8, <2>10, <1>9
      <4> QED BY <4>1, <4>2
    <3>3. t.phase \in {"waking", "suspending"}
      BY <1>9, <1>12 DEF Sweeping
    <3> QED BY <3>2, <3>3 DEF Calm
  <2>19. Own(t, {})
    BY <2>7, <1>9, <1>12 DEF Own, Sweeping
  <2> QED BY <2>2, <2>10, <2>11, <2>12, <2>14, <2>15, <2>16, <2>18, <2>19 DEF Core
<1> QED BY <1>7, <1>9, <1>12

LEMMA AllSuspTyped ==
    ASSUME NEW s, Typed(s), NEW t, Same(s, t, {"all_susp"})
    PROVE Typed(t)
BY TypedBut

LEMMA SetOnly ==
    ASSUME NEW s, Typed(s), NEW i \in Agents, NEW x \in States, NEW t, t = Set(s, i, x)
    PROVE Same(s, t, {"agents"})
BY SetIs

\* The suspended agent rests, or runs on when the suspension failed.
LEMMA SDoneEndIs ==
    ASSUME NEW s, FlowOk(s), NEW i \in Agents, NEW x \in {"suspended", "running"},
           NEW t, t = IF s.agents[i] = "suspending" THEN Set(s, i, x) ELSE s
    PROVE /\ Typed(t) /\ NoFlow(s, t)
          /\ /\ (s.phase = "waking" /\ ~s.hold /\ ~s.wake_only) \/ Sweeping(s)
             /\ Core(s, {i}, 0) /\ Calm(s, {i}) /\ Own(s, {})
             /\ s.agents[i] \notin {"waking", "requesting"}
             => /\ (t.phase = "waking" /\ ~t.hold /\ ~t.wake_only) \/ Sweeping(t)
                /\ Core(t, {i}, 0) /\ Calm(t, {}) /\ Own(t, {})
<1>0. Typed(s)
  BY DEF FlowOk
<1>1. PICK y \in States : y = x
  BY DEF States
<1>2. CASE s.agents[i] = "suspending"
  <2>1. t = Set(s, i, y)
    BY <1>1, <1>2
  <2>2. Typed(t) /\ NoFlow(s, t)
    BY <2>1, <1>0, SetKeeps
  <2>3. ASSUME (s.phase = "waking" /\ ~s.hold /\ ~s.wake_only) \/ Sweeping(s),
               Core(s, {i}, 0), Calm(s, {i}), Own(s, {})
        PROVE /\ (t.phase = "waking" /\ ~t.hold /\ ~t.wake_only) \/ Sweeping(t)
              /\ Core(t, {i}, 0) /\ Calm(t, {}) /\ Own(t, {})
    <3>1. Same(s, t, {"agents"})
      BY <2>1, <1>0, SetOnly
    <3>2. t.phase = s.phase /\ t.hold = s.hold /\ t.wake_only = s.wake_only /\ t.owned = s.owned
          /\ t.workers = s.workers /\ t.duty = s.duty /\ t.ev = s.ev
      BY <3>1 DEF Same, Attributes
    <3>3. t.agents[i] = y
      BY <2>1, <1>0, SetAgent
    <3>4. Core(t, {i}, 0)
      BY <2>1, <2>3, <1>0, SetInHand
    <3>5. Calm(t, {i})
      BY <2>1, <2>3, <1>0, SetInHand
    <3>6. Sweeping(t) <=> Sweeping(s)
      BY <3>2 DEF Sweeping, DrainDue, StepsDue
    <3>7. i \notin Due(t, "wake")
      BY <3>4 DEF Core, Lives, Open
    <3>8. AtEase(t, i)
      BY <3>2, <3>3, <3>7, <2>3, <1>1 DEF AtEase, Sweeping
    <3>9. Calm(t, {})
      BY <3>5, <3>8, CalmAll
    <3>10. Own(t, {})
      BY <3>2, <2>3 DEF Own, Due, Sweeping
    <3> QED BY <3>2, <3>4, <3>6, <3>9, <3>10, <2>3
  <2> QED BY <2>2, <2>3
<1>3. CASE s.agents[i] # "suspending"
  <2>1. t = s
    BY <1>3
  <2>2. Typed(t) /\ NoFlow(s, t)
    BY <2>1, <1>0 DEF NoFlow
  <2>3. ASSUME (s.phase = "waking" /\ ~s.hold /\ ~s.wake_only) \/ Sweeping(s),
               Core(s, {i}, 0), Calm(s, {i}), s.agents[i] \notin {"waking", "requesting"}
        PROVE Calm(s, {})
    <3>1. i \notin Due(s, "wake")
      BY <2>3 DEF Core, Lives, Open
    <3>2. AtEase(s, i)
      BY <3>1, <2>3, <1>3 DEF AtEase, Sweeping
    <3> QED BY <3>2, <2>3, CalmAll
  <2> QED BY <2>1, <2>2, <2>3
<1> QED BY <1>2, <1>3

LEMMA SDoneLeftIs ==
    ASSUME NEW s, FlowOk(s), NEW i \in Agents, NEW v, Same(s, v, {"all_susp"}),
           NEW u, Same(v, u, {"susp_out"}), u.susp_out = v.susp_out - 1,
           NEW t, t = IF v.phase = "suspending" THEN IF u.susp_out <= 0 THEN FinishSuspend(u) ELSE u
                      ELSE IF v.t0 /\ ~v.hold THEN LifeDone(v) ELSE v
    PROVE /\ FlowOk(t)
          /\ /\ (s.phase = "waking" /\ ~s.hold /\ ~s.wake_only) \/ Sweeping(s)
             /\ Core(s, {i}, 0) /\ Calm(s, {}) /\ Own(s, {})
             => Live(t)
<1>0. Typed(s)
  BY DEF FlowOk
<1>1. Same(s, v, {"all_susp"})
  OBVIOUS
<1>2. Typed(v)
  BY <1>0, <1>1, AllSuspTyped
<1>3. NoFlow(s, v)
  BY <1>1, <1>2, NoFlowFields DEF FlowFields
<1>4. Same(v, u, {"susp_out"}) /\ u.susp_out = v.susp_out - 1
  OBVIOUS
<1>5. Typed(u)
  <2>1. v.susp_out \in Int
    BY <1>2 DEF Typed
  <2>2. u.susp_out \in Int
    BY <2>1, <1>4
  <2> QED BY <2>2, <1>2, <1>4, SuspOutTyped
<1>6. NoFlow(v, u)
  BY <1>4, <1>5, NoFlowFields DEF FlowFields
<1>7. FlowOk(v) /\ FlowOk(u)
  BY <1>3, <1>6, FlowOkNoFlow
<1>8. FlowOk(t)
  <2>1. CASE t = FinishSuspend(u)
    <3>1. NoFlow(u, t)
      BY <2>1, <1>5, FinishSuspendIs
    <3> QED BY <3>1, <1>7, FlowOkNoFlow
  <2>2. CASE t = LifeDone(v)
    <3>1. NoFlow(v, t)
      BY <2>2, <1>2, LifeDoneIs
    <3> QED BY <3>1, <1>7, FlowOkNoFlow
  <2>3. CASE t = u \/ t = v
    BY <2>3, <1>7
  <2> QED BY <2>1, <2>2, <2>3
<1>9. ASSUME (s.phase = "waking" /\ ~s.hold /\ ~s.wake_only) \/ Sweeping(s),
             Core(s, {i}, 0), Calm(s, {}), Own(s, {})
      PROVE Live(t)
  <2>0. {"all_susp"} \cap (CoreFields \cup {"agents", "owned", "workers", "ev", "fcq"}) = {}
    BY DEF CoreFields
  <2>1. LiveSame(s, v)
    BY <2>0, <1>1, LiveFields
  <2>2. Core(v, {i}, 0) /\ Calm(v, {}) /\ Own(v, {})
    BY <2>1, <1>9, LiveKept
  <2>3. v.phase = s.phase /\ v.hold = s.hold /\ v.wake_only = s.wake_only /\ v.ev = s.ev
    BY <1>1 DEF Same, Attributes
  <2>4. Sweeping(v) <=> Sweeping(s)
    BY <2>3 DEF Sweeping, DrainDue, StepsDue
  <2>5. CASE v.phase = "waking" /\ ~v.hold /\ ~v.wake_only
    <3>1. v.t0
      BY <2>2, <2>5 DEF Core, Ops
    <3>2. t = LifeDone(v)
      BY <3>1, <2>5
    <3>3. Live(LifeDone(v))
      BY <2>2, <2>5, <1>2, LifeDoneLive DEF Quiet
    <3> QED BY <3>2, <3>3
  <2>6. CASE Sweeping(v)
    <3>1. v.phase = "suspending"
      BY <2>6 DEF Sweeping
    <3>2. /\ u.phase = v.phase /\ u.busy = v.busy /\ u.t0 = v.t0 /\ u.n = v.n /\ u.hold = v.hold
          /\ u.wake_only = v.wake_only /\ u.started = v.started /\ u.duty = v.duty
          /\ u.woke = v.woke /\ u.wake_failed = v.wake_failed /\ u.first_done = v.first_done
          /\ u.pending = v.pending /\ u.wake_wait = v.wake_wait /\ u.wake_active = v.wake_active
          /\ u.susp_active = v.susp_active /\ u.susp_wait = v.susp_wait
          /\ u.ev = v.ev /\ u.fcq = v.fcq /\ u.agents = v.agents /\ u.owned = v.owned
          /\ u.workers = v.workers
      BY <1>4 DEF Same, Attributes
    <3>3. /\ \A k : Due(u, k) = Due(v, k)
          /\ Firsts(u) = Firsts(v) /\ StepsDue(u) = StepsDue(v) /\ (Once(v) => Once(u))
          /\ Served(u) = Served(v)
      BY <3>2 DEF Due, Firsts, StepsDue, Once, Served
    <3>4. FirstOf(u) = FirstOf(v) /\ Open(u) = Open(v) /\ DutyDue(u) = DutyDue(v)
          /\ (Sweeping(u) <=> Sweeping(v))
      BY <3>2, <3>3 DEF FirstOf, Open, DutyDue, Sweeping, DrainDue
    <3>5. Ops(u)
      BY <3>2, <3>3, <3>4, <2>2 DEF Core, Ops, Quiet
    <3>6. Wakes(u, 0)
      BY <3>2, <3>3, <2>2 DEF Core, Wakes, Known
    <3>7. Lives(u, {})
      BY <3>1, <3>2, <3>3, <3>4, <2>2 DEF Core, Lives
    <3>8. Susps(u, {})
      <4>1. PICK W : W = v.susp_wait \cup Due(v, "sdone")
        OBVIOUS
      <4>2. W \subseteq Agents
        BY <4>1, <1>2 DEF Due, Typed
      <4>3. IsFiniteSet(W)
        BY <4>2, AgentsFinite
      <4>4. i \notin W
        BY <4>1, <2>2 DEF Core, Lives, Open
      <4>5. v.susp_out = Cardinality(W \cup {i})
        BY <4>1, <2>2, <2>6 DEF Core, Susps
      <4>6. Cardinality(W \cup {i}) = Cardinality(W) + 1 /\ Cardinality(W) \in Nat
        BY <4>3, <4>4, FS_AddElement, FS_CardinalityType
      <4>7. u.susp_out = Cardinality(W) /\ u.susp_out \in Nat
        BY <4>5, <4>6, <1>4
      <4>8. u.susp_wait \cup Due(u, "sdone") \cup {} = W
        BY <4>1, <3>2, <3>3
      <4>9. u.susp_active = Cardinality(Due(u, "sdone"))
        BY <3>2, <3>3, <2>2 DEF Core, Susps
      <4> QED BY <4>7, <4>8, <4>9 DEF Susps
    <3>9. Core(u, {}, 0)
      BY <3>5, <3>6, <3>7, <3>8 DEF Core
    <3>10. Calm(u, {})
      BY <3>2, <3>3, <3>4, <2>2 DEF Calm
    <3>11. Own(u, {})
      BY <3>2, <3>3, <3>4, <2>2 DEF Own
    <3>12. CASE u.susp_out <= 0
      <4>1. t = FinishSuspend(u)
        BY <3>1, <3>12
      <4> QED BY <4>1, <3>4, <3>9, <3>10, <3>11, <3>12, <2>6, <1>5, SweepEndsLive
    <3>13. CASE ~(u.susp_out <= 0)
      <4>1. t = u
        BY <3>1, <3>13
      <4> QED BY <4>1, <3>9, <3>10, <3>11 DEF Live
    <3> QED BY <3>12, <3>13
  <2> QED BY <2>3, <2>4, <2>5, <2>6, <1>9
<1> QED BY <1>8, <1>9

\* An agent whose suspension has just ended, as the burst or the sweep still counts it.
InHand(s, i) ==
    /\ (s.phase = "waking" /\ ~s.hold /\ ~s.wake_only) \/ Sweeping(s)
    /\ s.agents[i] \notin {"waking", "requesting"}
    /\ Core(s, {i}, 0) /\ Calm(s, {i}) /\ Own(s, {})

LEMMA NextHand ==
    ASSUME NEW s, FlowOk(s), NEW i \in Agents, NEW j \in s.susp_wait,
           NEW u, u = [s EXCEPT !.susp_wait = @ \ {j}], NEW t, t = SuspStart(u, j)
    PROVE FlowOk(t) /\ (InHand(s, i) => InHand(t, i))
<1>1. Typed(s)
  BY DEF FlowOk
<1>2. NoFlow(s, t)
  BY <1>1, NextSuspLive
<1>3. FlowOk(t)
  BY <1>2, FlowOkNoFlow
<1>4. Same(s, u, {"susp_wait"}) /\ Typed(u)
  <2>1. Same(s, u, {"susp_wait"}) /\ u.susp_wait = s.susp_wait \ {j}
    BY <1>1 DEF Typed, Same, Attributes
  <2>2. u.susp_wait \subseteq Agents
    BY <2>1, <1>1 DEF Typed
  <2> QED BY <2>1, <2>2, <1>1, WaitTyped
<1>6. j \in Agents
  BY <1>1 DEF Typed
<1>7. Same(u, t, {"agents", "susp_active", "ev"})
  BY <1>4, <1>6, SuspStartAdds
<1>8. t.phase = s.phase /\ t.hold = s.hold /\ t.wake_only = s.wake_only
  BY <1>4, <1>7 DEF Same, Attributes
<1>5. ASSUME InHand(s, i) PROVE InHand(t, i)
  <2>1. (s.phase = "waking" /\ ~s.hold /\ ~s.wake_only) \/ Sweeping(s)
    BY <1>5 DEF InHand
  <2>2. Core(s, {i}, 0) /\ Calm(s, {i}) /\ Own(s, {})
    BY <1>5 DEF InHand
  <2>3. /\ Core(t, {i}, 0) /\ Calm(t, {i}) /\ Own(t, {}) /\ (Sweeping(t) <=> Sweeping(s))
        /\ t.agents[i] = s.agents[i]
    BY <1>1, <2>1, <2>2, NextSuspLive
  <2> QED BY <2>3, <1>8, <1>5 DEF InHand
<1> QED BY <1>3, <1>5

\* The last two steps of the event, as functions of the object they start from.
SDoneNext(s) == IF s.susp_wait = {} THEN {s}
                ELSE {SuspStart([s EXCEPT !.susp_wait = @ \ {j}], j) : j \in s.susp_wait}
SDoneMarked(s) == [s EXCEPT !.all_susp = @ \/ (s.susp_t0 /\ Up(s) = {})]
SDoneLeft(s) ==
    LET u == [s EXCEPT !.susp_out = @ - 1]
    IN  IF s.phase = "suspending" THEN IF u.susp_out <= 0 THEN FinishSuspend(u) ELSE u
        ELSE IF s.t0 /\ ~s.hold THEN LifeDone(s) ELSE s
SDoneEnd(s, i, x) == IF s.agents[i] = "suspending" THEN Set(s, i, x) ELSE s

LEMMA SDoneForm ==
    ASSUME SDone
    PROVE \E e \in Pending : e[1] = "sdone" /\
            \E s \in SDoneNext([Fire(e) EXCEPT !.susp_active = @ - 1]), x \in {"suspended", "running"} :
                self' = SDoneLeft(SDoneMarked(SDoneEnd(s, e[2], x)))
<1>1. {"suspended"} \cup (IF "suspend_fail_rate" \in Calls THEN {"running"} ELSE {})
      \subseteq {"suspended", "running"}
  OBVIOUS
<1>2. PICK e \in Pending : /\ e[1] = "sdone"
        /\ LET i == e[2]
               s == [Fire(e) EXCEPT !.susp_active = @ - 1]
               nexts == IF s.susp_wait = {} THEN {s}
                        ELSE {SuspStart([s EXCEPT !.susp_wait = @ \ {j}], j) : j \in s.susp_wait}
               ends == {"suspended"} \cup (IF "suspend_fail_rate" \in Calls THEN {"running"} ELSE {})
           IN  \E s1 \in nexts, x \in ends :
                 LET s2 == IF s1.agents[i] = "suspending" THEN Set(s1, i, x) ELSE s1
                     s3 == [s2 EXCEPT !.all_susp = @ \/ (s2.susp_t0 /\ Up(s2) = {})]
                     s4 == [s3 EXCEPT !.susp_out = @ - 1]
                 IN  Runs(IF s3.phase = "suspending"
                          THEN IF s4.susp_out <= 0 THEN FinishSuspend(s4) ELSE s4
                          ELSE IF s3.t0 /\ ~s3.hold THEN LifeDone(s3) ELSE s3)
  BY DEF SDone
<1>3. PICK v : v = [Fire(e) EXCEPT !.susp_active = @ - 1]
  OBVIOUS
<1>4. PICK s \in SDoneNext(v), x \in {"suspended"} \cup (IF "suspend_fail_rate" \in Calls THEN {"running"} ELSE {}) :
         LET s2 == IF s.agents[e[2]] = "suspending" THEN Set(s, e[2], x) ELSE s
             s3 == [s2 EXCEPT !.all_susp = @ \/ (s2.susp_t0 /\ Up(s2) = {})]
             s4 == [s3 EXCEPT !.susp_out = @ - 1]
         IN  Runs(IF s3.phase = "suspending"
                  THEN IF s4.susp_out <= 0 THEN FinishSuspend(s4) ELSE s4
                  ELSE IF s3.t0 /\ ~s3.hold THEN LifeDone(s3) ELSE s3)
  BY <1>2, <1>3 DEF SDoneNext
<1>5. self' = SDoneLeft(SDoneMarked(SDoneEnd(s, e[2], x)))
  BY <1>4 DEF Runs, SDoneMarked, SDoneEnd, SDoneLeft
<1>6. x \in {"suspended", "running"}
  BY <1>1
<1> QED BY <1>2, <1>3, <1>4, <1>5, <1>6

LEMMA NextHandAll ==
    ASSUME NEW s, FlowOk(s), NEW i \in Agents, NEW t \in SDoneNext(s)
    PROVE FlowOk(t) /\ (InHand(s, i) => InHand(t, i))
<1>1. CASE s.susp_wait = {}
  BY <1>1 DEF SDoneNext
<1>2. CASE s.susp_wait # {}
  <2>1. PICK j \in s.susp_wait : t = SuspStart([s EXCEPT !.susp_wait = @ \ {j}], j)
    BY <1>2 DEF SDoneNext
  <2>2. PICK u : u = [s EXCEPT !.susp_wait = @ \ {j}]
    OBVIOUS
  <2>3. t = SuspStart(u, j)
    BY <2>1, <2>2
  <2> QED BY <2>2, <2>3, NextHand
<1> QED BY <1>1, <1>2

LEMMA SDoneKeeps ==
    ASSUME FlowOk(self), SDone
    PROVE FlowOk(self') /\ (Live(self) => Live(self'))
<1>1. PICK e \in Pending : e[1] = "sdone" /\
            \E s \in SDoneNext([Fire(e) EXCEPT !.susp_active = @ - 1]), x \in {"suspended", "running"} :
                self' = SDoneLeft(SDoneMarked(SDoneEnd(s, e[2], x)))
  BY SDoneForm
<1>2. PICK i : i = e[2]
  OBVIOUS
<1>3. i \in Agents /\ e = <<"sdone", i>>
  <2>1. e \in Events
    BY DEF FlowOk, Typed, Heap, Pending, BagToSet
  <2>2. "sdone" \in AgentKinds
    BY DEF AgentKinds
  <2> QED BY <2>1, <2>2, <1>1, <1>2, EventForm
<1>4. PICK v : v = Fire(e)
  OBVIOUS
<1>5. PICK s : s = [v EXCEPT !.susp_active = @ - 1]
  OBVIOUS
<1>6. /\ Typed(s) /\ FlowOk(s)
      /\ Live(self) => /\ (s.phase = "waking" /\ ~s.hold /\ ~s.wake_only) \/ Sweeping(s)
                       /\ s.agents[i] \notin {"waking", "requesting"}
                       /\ Core(s, {i}, 0) /\ Calm(s, {i}) /\ Own(s, {})
  BY <1>3, <1>4, <1>5, SDoneFiredIs
<1>7. PICK s1 \in SDoneNext(s), x \in {"suspended", "running"} :
        self' = SDoneLeft(SDoneMarked(SDoneEnd(s1, i, x)))
  BY <1>1, <1>2, <1>4, <1>5
<1>8. FlowOk(s1) /\ (InHand(s, i) => InHand(s1, i))
  BY <1>3, <1>6, <1>7, NextHandAll
<1>9. PICK s2 : s2 = SDoneEnd(s1, i, x)
  OBVIOUS
<1>10. s2 = IF s1.agents[i] = "suspending" THEN Set(s1, i, x) ELSE s1
  BY <1>9 DEF SDoneEnd
<1>11. /\ Typed(s2) /\ NoFlow(s1, s2)
       /\ /\ (s1.phase = "waking" /\ ~s1.hold /\ ~s1.wake_only) \/ Sweeping(s1)
          /\ Core(s1, {i}, 0) /\ Calm(s1, {i}) /\ Own(s1, {})
          /\ s1.agents[i] \notin {"waking", "requesting"}
          => /\ (s2.phase = "waking" /\ ~s2.hold /\ ~s2.wake_only) \/ Sweeping(s2)
             /\ Core(s2, {i}, 0) /\ Calm(s2, {}) /\ Own(s2, {})
  <2>1. FlowOk(s1)
    BY <1>8
  <2> QED BY <2>1, <1>3, <1>10, SDoneEndIs
<1>12. FlowOk(s2)
  BY <1>8, <1>11, FlowOkNoFlow
<1>13. PICK all : all = (s2.all_susp \/ (s2.susp_t0 /\ Up(s2) = {}))
  OBVIOUS
<1>14. PICK w : w = [s2 EXCEPT !.all_susp = all]
  OBVIOUS
<1>15. PICK u : u = [w EXCEPT !.susp_out = @ - 1]
  OBVIOUS
<1>16. PICK t : t = self'
  OBVIOUS
<1>17. w = SDoneMarked(s2)
  BY <1>13, <1>14 DEF SDoneMarked
<1>18. t = SDoneLeft(w)
  BY <1>7, <1>9, <1>16, <1>17
<1>19. t = IF w.phase = "suspending" THEN IF u.susp_out <= 0 THEN FinishSuspend(u) ELSE u
           ELSE IF w.t0 /\ ~w.hold THEN LifeDone(w) ELSE w
  BY <1>15, <1>18 DEF SDoneLeft
<1>20. /\ FlowOk(t)
       /\ /\ (s2.phase = "waking" /\ ~s2.hold /\ ~s2.wake_only) \/ Sweeping(s2)
          /\ Core(s2, {i}, 0) /\ Calm(s2, {}) /\ Own(s2, {})
          => Live(t)
  <2>1. i \in Agents
    BY <1>3
  <2>2. Typed(s2) /\ DOMAIN s2 = Attributes
    BY <1>11 DEF Typed
  <2>3. Same(s2, w, {"all_susp"})
    BY <2>2, <1>14 DEF Same, Attributes
  <2>4. DOMAIN w = Attributes
    BY <2>3 DEF Same
  <2>5. Same(w, u, {"susp_out"}) /\ u.susp_out = w.susp_out - 1
    BY <2>4, <1>15 DEF Same, Attributes
  <2> QED BY <2>1, <2>3, <2>5, <1>12, <1>19, SDoneLeftIs
<1>21. ASSUME Live(self) PROVE Live(t)
  <2>1. InHand(s, i)
    BY <1>6, <1>21 DEF InHand
  <2>2. InHand(s1, i)
    BY <2>1, <1>8
  <2> QED BY <2>2, <1>11, <1>20 DEF InHand
<1> QED BY <1>16, <1>20, <1>21

\* A sweep under way, of which only suspensions are due or wait for a slot.
LEMMA SweepLive ==
    ASSUME NEW t, Typed(t), t.phase = "suspending", t.busy, ~t.duty, t.owned = {}, t.workers = 0,
           StepsDue(t) = {}, Due(t, "wake") = {}, t.wake_wait = {}, t.wake_active = 0,
           Firsts(t) = {}, Once(t), t.susp_wait \cap Due(t, "sdone") = {},
           t.susp_active = Cardinality(Due(t, "sdone")),
           t.susp_out = Cardinality(t.susp_wait \cup Due(t, "sdone")),
           \A i \in Agents : t.agents[i] \in {"waking", "requesting"} => i \in t.susp_wait,
           \A i \in Agents : t.agents[i] = "suspending" => i \in t.susp_wait \cup Due(t, "sdone")
    PROVE Sweeping(t) /\ Core(t, {}, 0) /\ Calm(t, {}) /\ Own(t, {})
<1>1. Sweeping(t)
  BY DEF Sweeping, DrainDue
<1>2. FirstOf(t) = {} /\ Cardinality({}) = 0
  BY FS_EmptySet DEF FirstOf
<1>3. Ops(t)
  BY <1>1 DEF Ops
<1>4. Wakes(t, 0)
  BY <1>2 DEF Wakes
<1>5. Lives(t, {})
  BY <1>2 DEF Lives, Open
<1>6. Susps(t, {})
  <2>1. PICK W : W = t.susp_wait \cup Due(t, "sdone")
    OBVIOUS
  <2>2. W \subseteq Agents
    BY <2>1 DEF Typed, Due
  <2>3. t.susp_out \in Nat
    BY <2>1, <2>2, AgentsFinite, FS_CardinalityType
  <2>4. t.susp_wait \cup Due(t, "sdone") \cup {} = W
    BY <2>1
  <2> QED BY <2>1, <2>3, <2>4 DEF Susps
<1>7. Calm(t, {})
  BY <1>1 DEF Calm
<1>8. Own(t, {})
  <2>1. DUTY_WORKERS \in Nat
    BY MockAssumption
  <2> QED BY <2>1, <1>2 DEF Own
<1> QED BY <1>1, <1>3, <1>4, <1>5, <1>6, <1>7, <1>8 DEF Core

\* The three steps of the drain's end, as functions of the object they start from.
DrainedOf(s) == [(IF s.t0 THEN s ELSE NewBurst(s, TOTAL, TRUE, FALSE))
                    EXCEPT !.duty = FALSE, !.workers = 0, !.owned = {}, !.susp_t0 = TRUE]
SweptOf(s) == [s EXCEPT !.all_susp = Up(s) = {}, !.susp_out = Cardinality(In(s, Swept))]
BegunOf(s, W, I) == [Sched(Settle(s, I, "suspending"), {<<"sdone", i>> : i \in I}) EXCEPT
                        !.susp_active = @ + Cardinality(I), !.susp_wait = @ \cup (W \ I)]

LEMMA DrainForm ==
    ASSUME Drain
    PROVE \E e \in Pending : e[1] = "drain" /\
            \E s : s = DrainedOf(Fire(e)) /\
              \/ In(s, Swept) = {} /\ self' = FinishSuspend(SweptOf(s))
              \/ \E I \in SUBSET In(s, Swept) : self' = BegunOf(SweptOf(s), In(s, Swept), I)
<1>1. PICK e \in Pending : /\ e[1] = "drain"
        /\ LET s0 == Fire(e)
               s == [(IF s0.t0 THEN s0 ELSE NewBurst(s0, TOTAL, TRUE, FALSE))
                        EXCEPT !.duty = FALSE, !.workers = 0, !.owned = {}, !.susp_t0 = TRUE]
               idx == In(s, Swept)
               s1 == [s EXCEPT !.all_susp = Up(s) = {}, !.susp_out = Cardinality(idx)]
               room == IF Cardinality(idx) < SUSPEND_CAP THEN Cardinality(idx) ELSE SUSPEND_CAP
               begun(I) == [Sched(Settle(s1, I, "suspending"), {<<"sdone", i>> : i \in I}) EXCEPT
                              !.susp_active = @ + Cardinality(I), !.susp_wait = @ \cup (idx \ I)]
           IN  IF idx = {} THEN Runs(FinishSuspend(s1))
               ELSE \E I \in {J \in SUBSET idx : Cardinality(J) = room} : Runs(begun(I))
  BY DEF Drain
<1> DEFINE s == DrainedOf(Fire(e))
<1>5. LET idx == In(s, Swept)
          s1 == [s EXCEPT !.all_susp = Up(s) = {}, !.susp_out = Cardinality(idx)]
          room == IF Cardinality(idx) < SUSPEND_CAP THEN Cardinality(idx) ELSE SUSPEND_CAP
          begun(I) == [Sched(Settle(s1, I, "suspending"), {<<"sdone", i>> : i \in I}) EXCEPT
                         !.susp_active = @ + Cardinality(I), !.susp_wait = @ \cup (idx \ I)]
      IN  IF idx = {} THEN Runs(FinishSuspend(s1))
          ELSE \E I \in {J \in SUBSET idx : Cardinality(J) = room} : Runs(begun(I))
  BY <1>1 DEF DrainedOf
<1> HIDE DEF s
<1>6. PICK W : W = In(s, Swept)
  OBVIOUS
<1>7. PICK u : u = SweptOf(s)
  OBVIOUS
<1>8. u = [s EXCEPT !.all_susp = Up(s) = {}, !.susp_out = Cardinality(W)]
  BY <1>6, <1>7 DEF SweptOf
<1>9. \/ W = {} /\ Runs(FinishSuspend(u))
      \/ \E I \in SUBSET W :
            Runs([Sched(Settle(u, I, "suspending"), {<<"sdone", i>> : i \in I}) EXCEPT
                         !.susp_active = @ + Cardinality(I), !.susp_wait = @ \cup (W \ I)])
  BY <1>5, <1>6, <1>8
<1>10. \/ W = {} /\ self' = FinishSuspend(u)
       \/ \E I \in SUBSET W : self' = BegunOf(u, W, I)
  BY <1>9 DEF Runs, BegunOf
<1> QED BY <1>1, <1>6, <1>7, <1>10 DEF s

LEMMA WorkTyped ==
    ASSUME NEW s, Typed(s), NEW t, Same(s, t, {"duty", "workers", "owned", "susp_t0"}),
           t.duty \in BOOLEAN, t.workers \in Int, t.owned \subseteq Agents
    PROVE Typed(t)
BY TypedBut

LEMMA DrainedIs ==
    ASSUME NEW s, Typed(s), NEW t, t = DrainedOf(s)
    PROVE /\ Typed(t) /\ NoFlow(s, t)
          /\ t.phase = s.phase /\ t.busy = s.busy /\ t.ev = s.ev /\ t.agents = s.agents /\ t.fcq = s.fcq
          /\ t.susp_wait = s.susp_wait /\ t.susp_active = s.susp_active
          /\ t.wake_wait \in {s.wake_wait, {}} /\ t.wake_active \in {s.wake_active, 0}
          /\ ~t.duty /\ t.owned = {} /\ t.workers = 0
<1> DEFINE F == {"t0", "n", "hold", "wake_only", "started", "duty", "owned", "workers", "conc",
                 "susp_t0", "woke", "wake_failed", "wake_done", "first_done", "all_susp",
                 "pending", "wake_wait", "wake_active"}
<1>1. PICK u : u = IF s.t0 THEN s ELSE NewBurst(s, TOTAL, TRUE, FALSE)
  OBVIOUS
<1>2. t = [u EXCEPT !.duty = FALSE, !.workers = 0, !.owned = {}, !.susp_t0 = TRUE]
  BY <1>1 DEF DrainedOf
<1>3. /\ NoFlow(s, u) /\ Same(s, u, F) /\ Typed(u)
      /\ u.wake_wait \in {s.wake_wait, {}} /\ u.wake_active \in {s.wake_active, 0}
  <2>1. CASE s.t0
    BY <2>1, <1>1 DEF NoFlow, Same, Typed
  <2>2. CASE ~s.t0
    <3>1. TOTAL \in 0..TOTAL
      BY MockAssumption
    <3>2. PICK x \in BOOLEAN : x = TRUE
      OBVIOUS
    <3>3. PICK y \in BOOLEAN : y = FALSE
      OBVIOUS
    <3>4. u = NewBurst(s, TOTAL, x, y)
      BY <2>2, <3>2, <3>3, <1>1
    <3>5. NoFlow(s, u) /\ Same(s, u, F) /\ u.wake_wait = {} /\ u.wake_active = 0
      BY <3>1, <3>4, NewBurstIs
    <3> QED BY <3>5 DEF NoFlow
  <2> QED BY <2>1, <2>2
<1>4. /\ Same(u, t, {"duty", "workers", "owned", "susp_t0"})
      /\ t.duty = FALSE /\ t.workers = 0 /\ t.owned = {}
  BY <1>2, <1>3 DEF Typed, Same, Attributes
<1>5. t.duty \in BOOLEAN /\ t.workers \in Int /\ t.owned \subseteq Agents
  <2>1. t.duty \in BOOLEAN
    BY <1>4
  <2>2. t.workers \in Int
    BY <1>4
  <2>3. t.owned \subseteq Agents
    BY <1>4
  <2> QED BY <2>1, <2>2, <2>3
<1>6. Typed(t)
  BY <1>3, <1>4, <1>5, WorkTyped
<1>7. NoFlow(u, t)
  BY <1>4, <1>6, NoFlowFields DEF FlowFields
<1>8. NoFlow(s, t)
  BY <1>3, <1>7, NoFlowTwice
<1>9. t.wake_wait = u.wake_wait /\ t.wake_active = u.wake_active
  BY <1>4 DEF Same, Attributes
<1>10. Same(s, t, F)
  BY <1>3, <1>4 DEF Same
<1>11. /\ t.phase = s.phase /\ t.busy = s.busy /\ t.ev = s.ev /\ t.agents = s.agents /\ t.fcq = s.fcq
       /\ t.susp_wait = s.susp_wait /\ t.susp_active = s.susp_active
  BY <1>10 DEF Same, Attributes
<1> QED BY <1>3, <1>4, <1>6, <1>8, <1>9, <1>11

LEMMA SweptTyped ==
    ASSUME NEW s, Typed(s), NEW t, Same(s, t, {"all_susp", "susp_out"}), t.susp_out \in Int
    PROVE Typed(t)
BY TypedBut

LEMMA SweptIs ==
    ASSUME NEW s, Typed(s), NEW t, t = SweptOf(s)
    PROVE /\ Typed(t) /\ NoFlow(s, t) /\ Same(s, t, {"all_susp", "susp_out"})
          /\ t.susp_out = Cardinality(In(s, Swept))
<1>1. /\ Same(s, t, {"all_susp", "susp_out"}) /\ t.susp_out = Cardinality(In(s, Swept))
  BY DEF Typed, Same, Attributes, SweptOf
<1>2. t.susp_out \in Int
  <2>1. In(s, Swept) \subseteq Agents
    BY DEF In
  <2>2. Cardinality(In(s, Swept)) \in Nat
    BY <2>1, AgentsFinite, FS_CardinalityType
  <2> QED BY <2>2, <1>1
<1>3. Typed(t)
  BY <1>1, <1>2, SweptTyped
<1>4. NoFlow(s, t)
  BY <1>1, <1>3, NoFlowFields DEF FlowFields
<1> QED BY <1>1, <1>3, <1>4

LEMMA BegunTyped ==
    ASSUME NEW s, Typed(s), NEW t, Same(s, t, {"susp_active", "susp_wait"}),
           t.susp_active \in Int, t.susp_wait \subseteq Agents
    PROVE Typed(t)
BY TypedBut

LEMMA SettledFields ==
    ASSUME NEW s, Typed(s), NEW I, NEW x \in States, NEW t, t = Settle(s, I, x)
    PROVE /\ NoFlow(s, t) /\ Same(s, t, {"agents"}) /\ Typed(t)
          /\ \A i \in Agents : t.agents[i] = IF i \in I THEN x ELSE s.agents[i]
<1>1. /\ NoFlow(s, t) /\ Same(s, t, {"agents"})
      /\ t.agents = [i \in Agents |-> IF i \in I THEN x ELSE s.agents[i]]
  BY SettleIs
<1> QED BY <1>1 DEF NoFlow

LEMMA SchedAdds ==
    ASSUME NEW s, Typed(s), NEW E, E \subseteq Events, IsFiniteSet(E), \A e \in E : ~Requesting(e),
           NEW t, t = Sched(s, E)
    PROVE Typed(t) /\ NoFlow(s, t) /\ Same(s, t, {"ev"}) /\ Adds(s, t, E)
<1>1. /\ Typed(Sched(s, E)) /\ Same(s, Sched(s, E), {"ev"})
      /\ DOMAIN Sched(s, E).ev = DOMAIN s.ev \cup E
      /\ \A d : Times(Sched(s, E).ev, d) = Times(s.ev, d) + (IF d \in E THEN 1 ELSE 0)
      /\ NoFlow(s, Sched(s, E))
  BY SchedIs
<1> QED BY <1>1 DEF Adds

LEMMA SdoneSched ==
    ASSUME NEW s, Typed(s), NEW I \in SUBSET Agents, NEW E, E = {<<"sdone", i>> : i \in I},
           NEW t, t = Sched(s, E)
    PROVE Typed(t) /\ NoFlow(s, t) /\ Same(s, t, {"ev"}) /\ Adds(s, t, E)
<1>1. E \subseteq AgentKinds \X Agents
  BY DEF AgentKinds
<1>2. E \subseteq Events /\ IsFiniteSet(E)
  BY <1>1, EventsFinite DEF Events
<1>3. \A e \in E : ~Requesting(e)
  BY DEF Requesting, UnderWay
<1> QED BY <1>2, <1>3, SchedAdds

SdoneOf(I) == {<<"sdone", i>> : i \in I}

Begins(s, t, W, I) ==
    /\ Typed(t) /\ NoFlow(s, t) /\ Same(s, t, {"agents", "ev", "susp_active", "susp_wait"})
    /\ \A i \in Agents : t.agents[i] = IF i \in I THEN "suspending" ELSE s.agents[i]
    /\ Adds(s, t, SdoneOf(I))
    /\ t.susp_active = s.susp_active + Cardinality(I) /\ t.susp_wait = s.susp_wait \cup (W \ I)

LEMMA BegunIs ==
    ASSUME NEW s, Typed(s), NEW W \in SUBSET Agents, NEW I \in SUBSET Agents, NEW t, t = BegunOf(s, W, I)
    PROVE Begins(s, t, W, I)
<1>1. PICK u : u = Settle(s, I, "suspending")
  OBVIOUS
<1>2. PICK E : E = {<<"sdone", i>> : i \in I}
  OBVIOUS
<1>3. PICK v : v = Sched(u, E)
  OBVIOUS
<1>4. t = [v EXCEPT !.susp_active = @ + Cardinality(I), !.susp_wait = @ \cup (W \ I)]
  BY <1>1, <1>2, <1>3 DEF BegunOf
<1>5. /\ NoFlow(s, u) /\ Same(s, u, {"agents"}) /\ Typed(u)
      /\ \A i \in Agents : u.agents[i] = IF i \in I THEN "suspending" ELSE s.agents[i]
  <2>1. PICK x \in States : x = "suspending"
    BY DEF States
  <2>2. u = Settle(s, I, x)
    BY <2>1, <1>1
  <2>3. /\ NoFlow(s, u) /\ Same(s, u, {"agents"}) /\ Typed(u)
        /\ \A i \in Agents : u.agents[i] = IF i \in I THEN x ELSE s.agents[i]
    BY <2>2, SettledFields
  <2> QED BY <2>1, <2>3
<1>6. I \in SUBSET Agents
  OBVIOUS
<1>7. Typed(v) /\ NoFlow(u, v) /\ Same(u, v, {"ev"}) /\ Adds(u, v, E)
  BY <1>2, <1>3, <1>5, <1>6, SdoneSched
<1>8. /\ Same(v, t, {"susp_active", "susp_wait"})
      /\ t.susp_active = v.susp_active + Cardinality(I) /\ t.susp_wait = v.susp_wait \cup (W \ I)
  BY <1>4, <1>7 DEF Typed, Same, Attributes
<1>9. Typed(t)
  <2>1. Cardinality(I) \in Nat
    BY <1>6, AgentsFinite, FS_CardinalityType
  <2>2. v.susp_active \in Int /\ v.susp_wait \subseteq Agents
    BY <1>7 DEF Typed
  <2>3. t.susp_active \in Int
    BY <2>1, <2>2, <1>8
  <2>4. t.susp_wait \subseteq Agents
    BY <2>2, <1>8
  <2> QED BY <2>3, <2>4, <1>7, <1>8, BegunTyped
<1>10. NoFlow(v, t)
  BY <1>8, <1>9, NoFlowFields DEF FlowFields
<1>11. NoFlow(s, t)
  BY <1>5, <1>7, <1>10, NoFlowTwice
<1>12. Same(s, t, {"agents", "ev", "susp_active", "susp_wait"})
  BY <1>5, <1>7, <1>8 DEF Same
<1>13. t.agents = u.agents /\ t.ev = v.ev
  BY <1>7, <1>8 DEF Same, Attributes
<1>14. u.ev = s.ev /\ v.susp_active = s.susp_active /\ v.susp_wait = s.susp_wait
  BY <1>5, <1>7 DEF Same, Attributes
<1>15. Adds(s, t, E)
  BY <1>7, <1>13, <1>14 DEF Adds
<1>16. \A i \in Agents : t.agents[i] = IF i \in I THEN "suspending" ELSE s.agents[i]
  BY <1>5, <1>13
<1>17. t.susp_active = s.susp_active + Cardinality(I) /\ t.susp_wait = s.susp_wait \cup (W \ I)
  BY <1>8, <1>14
<1>18. E = SdoneOf(I)
  BY <1>2 DEF SdoneOf
<1> QED BY <1>9, <1>11, <1>12, <1>15, <1>16, <1>17, <1>18 DEF Begins

LEMMA DrainKeeps ==
    ASSUME FlowOk(self), Drain
    PROVE FlowOk(self') /\ (Live(self) => Live(self'))
<1>1. PICK e \in Pending : e[1] = "drain" /\
            \E s : s = DrainedOf(Fire(e)) /\
              \/ In(s, Swept) = {} /\ self' = FinishSuspend(SweptOf(s))
              \/ \E I \in SUBSET In(s, Swept) : self' = BegunOf(SweptOf(s), In(s, Swept), I)
  BY DrainForm
<1>2. e \in Steps /\ e = <<"drain", 0>>
  <2>1. e \in Events
    BY DEF FlowOk, Typed, Heap, Pending, BagToSet
  <2>2. e = <<"drain", 0>>
    BY <2>1, <1>1, EventForm
  <2> QED BY <2>2 DEF Steps
<1>3. PICK v : v = Fire(e)
  OBVIOUS
<1>4. PICK s : s = DrainedOf(v) /\
              \/ In(s, Swept) = {} /\ self' = FinishSuspend(SweptOf(s))
              \/ \E I \in SUBSET In(s, Swept) : self' = BegunOf(SweptOf(s), In(s, Swept), I)
  BY <1>1, <1>3
<1>5. PICK W : W = In(s, Swept)
  OBVIOUS
<1>6. PICK u : u = SweptOf(s)
  OBVIOUS
<1>7. PICK t : t = self'
  OBVIOUS
<1>8. (W = {} /\ t = FinishSuspend(u)) \/ \E I \in SUBSET W : t = BegunOf(u, W, I)
  BY <1>4, <1>5, <1>6, <1>7
<1>9. /\ Typed(v) /\ NoFlow(self, v) /\ Same(self, v, {"ev"}) /\ e \in StepsDue(self)
      /\ Live(self) => StepsDue(v) = {} /\ DueSame(self, v) /\ Once(v)
  BY <1>2, <1>3, FireStepIs
<1>10. /\ Typed(s) /\ NoFlow(v, s)
       /\ s.phase = v.phase /\ s.busy = v.busy /\ s.ev = v.ev /\ s.agents = v.agents /\ s.fcq = v.fcq
       /\ s.susp_wait = v.susp_wait /\ s.susp_active = v.susp_active
       /\ s.wake_wait \in {v.wake_wait, {}} /\ s.wake_active \in {v.wake_active, 0}
       /\ ~s.duty /\ s.owned = {} /\ s.workers = 0
  BY <1>4, <1>9, DrainedIs
<1>11. /\ Typed(u) /\ NoFlow(s, u) /\ Same(s, u, {"all_susp", "susp_out"})
       /\ u.susp_out = Cardinality(W)
  BY <1>5, <1>6, <1>10, SweptIs
<1>12. W \in SUBSET Agents
  BY <1>5 DEF In
<1>13. FlowOk(u)
  BY <1>9, <1>10, <1>11, FlowOkNoFlow
<1>14. FlowOk(t)
  <2>1. CASE t = FinishSuspend(u)
    <3>1. NoFlow(u, t)
      BY <2>1, <1>11, FinishSuspendIs
    <3> QED BY <3>1, <1>13, FlowOkNoFlow
  <2>2. CASE \E I \in SUBSET W : t = BegunOf(u, W, I)
    <3>1. PICK I : I \in SUBSET W /\ t = BegunOf(u, W, I)
      BY <2>2
    <3>2. I \in SUBSET Agents /\ Typed(u)
      BY <3>1, <1>11, <1>12
    <3>4. t = BegunOf(u, W, I)
      BY <3>1
    <3>5. Begins(u, t, W, I)
      BY <3>2, <3>4, <1>12, BegunIs
    <3>3. NoFlow(u, t)
      BY <3>5 DEF Begins
    <3> QED BY <3>3, <1>13, FlowOkNoFlow
  <2> QED BY <2>1, <2>2, <1>8
<1>15. ASSUME Live(self) PROVE Live(t)
  <2>1. DrainDue(self)
    BY <1>2, <1>9 DEF DrainDue
  <2>2. self.phase = "suspending" /\ self.busy
    <3>1. Ops(self) /\ e[1] = "drain"
      BY <1>1, <1>15 DEF Live, Core
    <3> QED BY <3>1, <1>9 DEF Ops
  <2>3. ~Sweeping(self)
    BY <2>1 DEF Sweeping
  <2>4. /\ Nothing(self) /\ self.wake_active = 0 /\ self.susp_active = 0 /\ Cardinality({}) = 0
    BY <2>2, <2>3, <1>15, AtRest
  <2>5. DueSame(self, v) /\ StepsDue(v) = {} /\ Once(v)
    BY <1>9, <1>15
  <2>6. /\ v.phase = "suspending" /\ v.busy /\ v.wake_active = 0 /\ v.susp_active = 0
        /\ v.wake_wait = {} /\ v.susp_wait = {}
    BY <2>2, <2>4, <1>9 DEF Same, Attributes, Nothing
  <2>7. Due(v, "wake") = {} /\ Due(v, "sdone") = {} /\ Firsts(v) = {}
    BY <2>4, <2>5, DueSameIs DEF Nothing, DueSame
  <2>8. /\ u.phase = s.phase /\ u.busy = s.busy /\ u.ev = s.ev /\ u.agents = s.agents /\ u.fcq = s.fcq
        /\ u.susp_wait = s.susp_wait /\ u.susp_active = s.susp_active
        /\ u.wake_wait = s.wake_wait /\ u.wake_active = s.wake_active
        /\ u.duty = s.duty /\ u.owned = s.owned /\ u.workers = s.workers
    BY <1>11 DEF Same, Attributes
  <2>9. /\ u.phase = "suspending" /\ u.busy /\ u.ev = v.ev /\ u.fcq = v.fcq
        /\ u.susp_wait = {} /\ u.susp_active = 0 /\ u.wake_wait = {} /\ u.wake_active = 0
        /\ ~u.duty /\ u.owned = {} /\ u.workers = 0
    BY <2>6, <2>8, <1>10
  <2>10. /\ StepsDue(u) = {} /\ Due(u, "wake") = {} /\ Due(u, "sdone") = {} /\ Firsts(u) = {} /\ Once(u)
    BY <2>5, <2>7, <2>9 DEF StepsDue, Due, Firsts, Once
  <2>11. \A i \in Agents : u.agents[i] \in {"waking", "requesting", "suspending"} => i \in W
    BY <2>8, <1>5 DEF In, Swept, UpStates
  <2>12. CASE W = {} /\ t = FinishSuspend(u)
    <3>1. u.susp_wait \cup Due(u, "sdone") = {} /\ u.susp_out = 0
      BY <2>4, <2>9, <2>10, <2>12, <1>11
    <3>2. Sweeping(u) /\ Core(u, {}, 0) /\ Calm(u, {}) /\ Own(u, {})
      BY <3>1, <2>4, <2>9, <2>10, <2>11, <2>12, <1>11, SweepLive
    <3>3. u.susp_out <= 0
      BY <3>1
    <3> QED BY <3>2, <3>3, <2>12, <1>11, SweepEndsLive
  <2>13. ASSUME NEW I, I \in SUBSET W, t = BegunOf(u, W, I) PROVE Live(t)
    <3>0. PICK E : E = SdoneOf(I)
      OBVIOUS
    <3>20. I \in SUBSET Agents /\ Typed(u) /\ t = BegunOf(u, W, I)
      BY <2>13, <1>11, <1>12
    <3>21. Begins(u, t, W, I)
      BY <3>20, <1>12, BegunIs
    <3>1. /\ Typed(t) /\ NoFlow(u, t) /\ Same(u, t, {"agents", "ev", "susp_active", "susp_wait"})
          /\ \A i \in Agents : t.agents[i] = IF i \in I THEN "suspending" ELSE u.agents[i]
          /\ Adds(u, t, SdoneOf(I))
          /\ t.susp_active = u.susp_active + Cardinality(I) /\ t.susp_wait = u.susp_wait \cup (W \ I)
      BY <3>21 DEF Begins
    <3>2. /\ t.phase = "suspending" /\ t.busy /\ t.fcq = u.fcq /\ t.wake_wait = {} /\ t.wake_active = 0
          /\ ~t.duty /\ t.owned = {} /\ t.workers = 0 /\ t.susp_out = Cardinality(W)
      BY <3>1, <2>9, <1>11 DEF Same, Attributes
    <3>4. PICK k \in AgentKinds : k = "sdone"
      BY DEF AgentKinds
    <3>5. I \in SUBSET Agents /\ E = {<<k, i>> : i \in I} /\ Adds(u, t, E) /\ Heap(u.ev)
      <4>1. Adds(u, t, E)
        BY <3>0, <3>1
      <4>2. E = {<<k, i>> : i \in I}
        BY <3>0, <3>4 DEF SdoneOf
      <4>3. Heap(u.ev)
        BY <1>11 DEF Typed
      <4> QED BY <4>1, <4>2, <4>3, <3>20
    <3>6. /\ Due(t, k) = Due(u, k) \cup I
          /\ DueBut(u, t, {k}) /\ StepsDue(t) = StepsDue(u) /\ Served(t) = Served(u)
          /\ Once(u) /\ I \cap Due(u, k) = {} => Once(t)
      BY <3>2, <3>5, AddAgentsOf
    <3>7. Due(t, "sdone") = I /\ Once(t) /\ StepsDue(t) = {} /\ Firsts(t) = {}
      BY <3>4, <3>6, <2>10 DEF DueBut
    <3>8. Due(t, "wake") = {}
      BY <3>4, <3>6, <2>10 DEF DueBut, AgentKinds
    <3>14. t.susp_wait = W \ I
      BY <3>1, <2>9
    <3>15. I \subseteq W
      BY <2>13
    <3>9. t.susp_wait = W \ I /\ t.susp_wait \cup Due(t, "sdone") = W /\ t.susp_wait \cap Due(t, "sdone") = {}
      BY <3>14, <3>15, <3>7
    <3>10. t.susp_active = Cardinality(Due(t, "sdone"))
      <4>1. Cardinality(I) \in Nat
        BY <3>5, AgentsFinite, FS_CardinalityType
      <4> QED BY <4>1, <3>1, <3>7, <2>9
    <3>11. t.susp_out = Cardinality(t.susp_wait \cup Due(t, "sdone"))
      BY <3>2, <3>9
    <3>12. \A i \in Agents : t.agents[i] \in {"waking", "requesting"} => i \in t.susp_wait
      BY <3>1, <3>9, <2>11
    <3>13. \A i \in Agents : t.agents[i] = "suspending" => i \in t.susp_wait \cup Due(t, "sdone")
      BY <3>1, <3>9, <3>15, <2>11
    <3> QED BY <3>1, <3>2, <3>7, <3>8, <3>9, <3>10, <3>11, <3>12, <3>13, SweepLive DEF Live
  <2> QED BY <2>12, <2>13, <1>8
<1> QED BY <1>7, <1>14, <1>15

-----------------------------------------------------------------------------
(* Every step. *)
LEMMA StepKeeps ==
    ASSUME FlowOk(self), Next
    PROVE FlowOk(self') /\ (Live(self) => Live(self'))
<1>1. CASE Arrive
  BY <1>1, ArriveFlow, ArriveLive
<1>2. CASE Dispatch
  BY <1>2, DispatchFlow, DispatchLive
<1>3. CASE Reply
  BY <1>3, ReplyFlow, ReplyLive
<1>4. CASE PreflightDone
  BY <1>4, PreflightKeeps
<1>5. CASE Begin
  BY <1>5, BeginKeeps
<1>6. CASE Wake
  BY <1>6, WakeKeeps
<1>7. CASE DutyWake
  BY <1>7, DutyWakeKeeps
<1>8. CASE DutySend
  BY <1>8, DutySendKeeps
<1>9. CASE DutyPark
  BY <1>9, DutyParkKeeps
<1>10. CASE DutySuspDone
  BY <1>10, DutySuspDoneKeeps
<1>11. CASE Drain
  BY <1>11, DrainKeeps
<1>12. CASE SDone
  BY <1>12, SDoneKeeps
<1>13. CASE ReconDone
  BY <1>13, ReconDoneKeeps
<1>14. CASE StartBurst
  BY <1>14, StartBurstKeeps
<1>15. CASE SimulateTraffic
  BY <1>15, SimulateTrafficKeeps
<1>16. CASE SetTraffic
  BY <1>16, SetTrafficKeeps
<1>17. CASE SetStrategy
  BY <1>17, SetStrategyKeeps
<1>18. CASE Suspend
  BY <1>18, SuspendKeeps
<1>19. CASE Reconcile
  BY <1>19, ReconcileKeeps
<1>20. CASE MockControl
  BY <1>20, MockControlKeeps
<1>21. CASE TickPick
  BY <1>21, TickPickKeeps
<1>22. CASE TickSteady
  BY <1>22, TickSteadyKeeps
<1> QED BY <1>1, <1>2, <1>3, <1>4, <1>5, <1>6, <1>7, <1>8, <1>9, <1>10, <1>11, <1>12, <1>13,
           <1>14, <1>15, <1>16, <1>17, <1>18, <1>19, <1>20, <1>21, <1>22 DEF Next, Event, Api, Tick

\* The inductive invariant: of the requests and their slots, and of the operations.
Inductive == FlowOk(self) /\ Live(self)

LEMMA InductiveAlways == Spec => []Inductive
<1>1. Init => Inductive
  BY InitKeeps DEF Inductive
<1>2. Inductive /\ [Next]_vars => Inductive'
  <2>1. ASSUME Inductive, Next PROVE Inductive'
    BY <2>1, StepKeeps DEF Inductive
  <2>2. ASSUME Inductive, UNCHANGED vars PROVE Inductive'
    <3>1. self' = self
      BY <2>2 DEF vars
    <3> QED BY <3>1, <2>2 DEF Inductive
  <2> QED BY <2>1, <2>2
<1> QED BY <1>1, <1>2, PTL DEF Spec

LEMMA PacedCount ==
    ASSUME NEW s, Typed(s), Paced(s)
    PROVE Cardinality({k \in DOMAIN s.fcq : ~s.fcq[k].first}) = Len(s.fcq)
<1>1. s.fcq \in Seq(Requests)
  BY DEF Typed
<1>2. {k \in DOMAIN s.fcq : ~s.fcq[k].first} = 1..Len(s.fcq)
  BY <1>1 DEF Paced
<1>3. Len(s.fcq) \in Nat
  BY <1>1
<1>4. \A n \in Nat : Cardinality(1..n) = n
  BY FS_Interval
<1> QED BY <1>2, <1>3, <1>4

(* The counters that decide who is admitted are those of the requests under way: none is
   counted twice, none forgotten, whatever is scaled, switched or reset meanwhile.       *)
THEOREM AdmissionExactAlways == Spec => []AdmissionExact
<1>1. Inductive => AdmissionExact
  <2>1. ASSUME Inductive PROVE AdmissionExact
    <3>1. Typed(self) /\ Paced(self) /\ Balanced(self, 0, 0, 0)
      BY <2>1 DEF Inductive, FlowOk
    <3>2. /\ self.inflight = Count(self, AllPaced) + Len(self.fcq) + 0
          /\ self.handoff = Count(self, Dispatches) + 0
          /\ self.epp = Count(self, EppReplies) + 0
      BY <3>1 DEF Balanced
    <3>3. /\ Count(self, AllPaced) \in Nat /\ Count(self, Dispatches) \in Nat
          /\ Count(self, EppReplies) \in Nat /\ Len(self.fcq) \in Nat
      <4>1. Heap(self.ev) /\ self.fcq \in Seq(Requests)
        BY <3>1 DEF Typed
      <4> QED BY <4>1, CountIsLot, LotFinite
    <3>4. Cardinality({k \in DOMAIN self.fcq : ~self.fcq[k].first}) = Len(self.fcq)
      BY <3>1, PacedCount
    <3> QED BY <3>2, <3>3, <3>4 DEF AdmissionExact, AllPaced, Dispatches, EppReplies
  <2> QED BY <2>1
<1> QED BY <1>1, InductiveAlways, PTL

(* A freed slot goes to a queued request at once: flow control never holds one back while
   the pods have room.                                                                    *)
THEOREM NoIdleSlotWhileQueuedAlways == Spec => []NoIdleSlotWhileQueued
<1>1. Inductive => NoIdleSlotWhileQueued
  BY DEF Inductive, FlowOk, NoRoom, NoIdleSlotWhileQueued
<1> QED BY <1>1, InductiveAlways, PTL

(* The counts of agents, of slots and of requests never go negative, and the heap stays a bag
   of events, although every one of them is counted up in one event and down in another.     *)
THEOREM TypeOKAlways == Spec => []TypeOK
<1>1. ASSUME FlowOk(self), Live(self) PROVE TypeOK
  <2>1. Typed(self) /\ Balanced(self, 0, 0, 0)
    BY <1>1 DEF FlowOk
  <2>2. Heap(self.ev) /\ self.fcq \in Seq(Requests)
    BY <2>1 DEF Typed
  <2>3. /\ Count(self, AllPaced) \in Nat /\ Count(self, Dispatches) \in Nat
        /\ Count(self, EppReplies) \in Nat /\ Len(self.fcq) \in Nat
    BY <2>2, CountIsLot, LotFinite
  <2>4. /\ self.inflight = Count(self, AllPaced) + Len(self.fcq) + 0
        /\ self.handoff = Count(self, Dispatches) + 0
        /\ self.epp = Count(self, EppReplies) + 0
    BY <2>1 DEF Balanced
  <2>5. self.inflight \in Nat /\ self.handoff \in Nat /\ self.epp \in Nat
    BY <2>3, <2>4
  <2>6. /\ self.wake_active = Cardinality(Due(self, "wake"))
        /\ self.susp_active = Cardinality(Due(self, "sdone")) /\ self.susp_out \in Nat
        /\ self.workers = Cardinality(self.owned)
    BY <1>1 DEF Live, Core, Wakes, Susps, Own
  <2>7. Due(self, "wake") \subseteq Agents /\ Due(self, "sdone") \subseteq Agents
        /\ self.owned \subseteq Agents
    BY <2>1 DEF Due, Typed
  <2>8. \A I \in SUBSET Agents : Cardinality(I) \in Nat
    BY AgentsFinite, FS_CardinalityType
  <2>9. self.wake_active \in Nat /\ self.susp_active \in Nat /\ self.workers \in Nat
    BY <2>6, <2>7, <2>8
  <2>10. self.pending \in Nat /\ self.woke \in Nat /\ self.wake_failed \in Nat
    BY <2>1 DEF Typed
  <2>11. self.agents \in [Agents -> States] /\ self.phase \in Phases /\ IsABag(self.ev)
    BY <2>1 DEF Typed, Heap
  <2> QED BY <2>5, <2>6, <2>9, <2>10, <2>11 DEF TypeOK
<1>2. Inductive => TypeOK
  BY <1>1 DEF Inductive
<1> QED BY <1>2, InductiveAlways, PTL

(* An idle driver has no agent in a passing state: what the last burst, sweep or duty cycle
   left on the heap cannot bring one back, however late it fires.                          *)
THEOREM QuietWhenIdleAlways == Spec => []QuietWhenIdle
<1>1. ASSUME FlowOk(self), Live(self) PROVE QuietWhenIdle
  BY <1>1 DEF Live, Calm, QuietWhenIdle, In
<1>2. Inductive => QuietWhenIdle
  BY <1>1 DEF Inductive
<1> QED BY <1>2, InductiveAlways, PTL

(* The wake phase of a burst is accounted for: without a duty cycle to the last agent, none
   is lost between the queue of waits, the wakes under way and the counts that end the
   phase; with traffic simulated while it wakes, no agent is counted twice.               *)
THEOREM WakeAccountedAlways == Spec => []WakeAccounted
<1>1. ASSUME FlowOk(self), Live(self) PROVE WakeAccounted
  <2>1. ASSUME self.phase = "waking"
        PROVE self.n >= Accounted /\ (~self.duty => self.n = Accounted)
    <3>1. self.n >= Known(self, 0) /\ (self.duty \/ self.n = Known(self, 0))
      BY <1>1, <2>1 DEF Live, Core, Wakes
    <3>2. self.wake_active \in Int /\ self.woke \in Nat /\ self.wake_failed \in Nat
          /\ self.wake_wait \subseteq Agents
      BY <1>1 DEF FlowOk, Typed
    <3>3. Cardinality(self.wake_wait) \in Nat
      BY <3>2, AgentsFinite, FS_CardinalityType
    <3>4. Known(self, 0) = Accounted
      BY <3>2, <3>3 DEF Known, Accounted
    <3> QED BY <3>1, <3>4
  <2> QED BY <2>1 DEF WakeAccounted
<1>2. Inductive => WakeAccounted
  BY <1>1 DEF Inductive
<1> QED BY <1>2, InductiveAlways, PTL

(* No duty worker is lost: the busy ones are those that own an agent, and each of these has
   an event or a request left that frees its worker.                                        *)
THEOREM WorkersBusyAlways == Spec => []WorkersBusy
<1>1. ASSUME FlowOk(self), Live(self) PROVE WorkersBusy
  <2>1. self.workers = Cardinality(self.owned) /\ self.workers <= DUTY_WORKERS
    BY <1>1 DEF Live, Own
  <2>2. ASSUME self.phase = "running", NEW i \in self.owned
        PROVE \/ \E e \in Pending : e[1] \in {"duty_wake", "duty_send", "duty_park", "duty_susp_done"}
                                      /\ e[2] = i
              \/ \E e \in Pending : e[1] \in UnderWay /\ e[2].a = i /\ e[2].after
              \/ \E r \in Queued : r.a = i /\ r.after
    <3>1. i \in DutyDue(self) \cup Served(self)
      BY <1>1, <2>2 DEF Live, Own
    <3>2. CASE i \in DutyDue(self)
      <4>1. PICK k \in {"duty_wake", "duty_send", "duty_park", "duty_susp_done"} : i \in Due(self, k)
        BY <3>2 DEF DutyDue
      <4>2. <<k, i>> \in Pending
        BY <4>1 DEF Due, Pending, BagToSet
      <4> QED BY <4>2
    <3>3. CASE \E k \in UnderWay, r \in Requests : r.a = i /\ r.after /\ <<k, r>> \in DOMAIN self.ev
      <4>1. PICK k \in UnderWay, r \in Requests : r.a = i /\ r.after /\ <<k, r>> \in DOMAIN self.ev
        BY <3>3
      <4>2. <<k, r>> \in Pending
        BY <4>1 DEF Pending, BagToSet
      <4> QED BY <4>1, <4>2
    <3>4. CASE \E j \in DOMAIN self.fcq : self.fcq[j].a = i /\ self.fcq[j].after
      BY <3>4 DEF Queued
    <3> QED BY <3>1, <3>2, <3>3, <3>4 DEF Served
  <2> QED BY <2>1, <2>2 DEF WorkersBusy
<1>2. Inductive => WorkersBusy
  BY <1>1 DEF Inductive
<1> QED BY <1>2, InductiveAlways, PTL

-----------------------------------------------------------------------------
(* Only a call of suspend-all begins a sweep: no other step enters the phase. *)
Stays(s, t) == t.phase = "suspending" => s.phase = "suspending"

LEMMA StaysSame ==
    ASSUME NEW s, NEW t, NEW F, Same(s, t, F), "phase" \notin F
    PROVE Stays(s, t)
BY DEF Same, Attributes, Stays

LEMMA StaysTwice ==
    ASSUME NEW s, NEW t, NEW u, Stays(s, t), Stays(t, u)
    PROVE Stays(s, u)
BY DEF Stays

LEMMA StaysPut ==
    ASSUME NEW s, Typed(s), NEW e
    PROVE Stays(s, Put(s, e))
BY DEF Typed, Attributes, Stays, Put, Sched

LEMMA StaysSet ==
    ASSUME NEW s, Typed(s), NEW i, NEW x
    PROVE Stays(s, Set(s, i, x))
BY DEF Typed, Attributes, Stays, Set

LEMMA StaysFire ==
    ASSUME FlowOk(self), NEW e
    PROVE Stays(self, Fire(e))
BY DEF FlowOk, Typed, Attributes, Stays, Fire

LEMMA StaysRelease ==
    ASSUME NEW s, Typed(s), NEW i
    PROVE Stays(s, Release(s, i))
BY DEF Typed, Attributes, Stays, Release

LEMMA StaysPump ==
    ASSUME NEW s, Typed(s)
    PROVE Stays(s, FcPump(s))
<1>1. Same(s, FcPump(s), {"fcq", "handoff", "ev"})
  BY PumpIs
<1> QED BY <1>1, StaysSame

LEMMA StaysLifeDone ==
    ASSUME NEW s, Typed(s)
    PROVE Stays(s, LifeDone(s))
<1>1. DOMAIN s = Attributes
  BY DEF Typed
<1>2. CASE s.pending - 1 > 0 \/ s.first_done
  <2>1. LifeDone(s).phase = s.phase
    BY <1>1, <1>2 DEF LifeDone, Attributes
  <2> QED BY <2>1 DEF Stays
<1>3. CASE ~(s.pending - 1 > 0 \/ s.first_done)
  <2>1. LifeDone(s).phase = IF ~s.hold THEN "idle" ELSE IF s.phase = "waking" THEN "running" ELSE s.phase
    BY <1>1, <1>3 DEF LifeDone, Attributes
  <2> QED BY <2>1 DEF Stays
<1> QED BY <1>2, <1>3

LEMMA StaysCheck ==
    ASSUME NEW s, Typed(s)
    PROVE Stays(s, CheckWakeDone(s))
<1>1. CheckWakeDone(s).phase \in {s.phase, "running"}
  BY CheckWakeDoneIs
<1> QED BY <1>1 DEF Stays

LEMMA StaysSuspRequest ==
    ASSUME NEW s, Typed(s), NEW i
    PROVE Stays(s, SuspRequest(s, i))
<1>1. DOMAIN s = Attributes
  BY DEF Typed
<1>2. SuspRequest(s, i).phase = s.phase
  BY <1>1 DEF SuspRequest, SuspStart, Put, Sched, Set, Attributes
<1> QED BY <1>2 DEF Stays

LEMMA StaysFinished ==
    ASSUME NEW s, Typed(s), NEW r \in Requests
    PROVE Stays(s, ReqFinished(s, r))
<1>1. r.a \in Agents
  BY DEF Requests
<1>2. CASE r.after
  <2>1. PICK u : u = IF s.agents[r.a] = "requesting" THEN Set(s, r.a, "running") ELSE s
    OBVIOUS
  <2>2. Stays(s, u)
    BY <2>1, StaysSet DEF Stays
  <2>3. Typed(u)
    BY <2>1, <1>1, FinishedIs DEF NoFlow
  <2>4. ReqFinished(s, r) = IF u.phase = "running" /\ u.agents[r.a] = "running"
                            THEN Put(u, <<"duty_park", r.a>>) ELSE u
    BY <2>1, <1>2 DEF ReqFinished
  <2>5. Stays(u, ReqFinished(s, r))
    BY <2>3, <2>4, StaysPut DEF Stays
  <2> QED BY <2>2, <2>5, StaysTwice
<1>3. CASE ~r.after
  <2>1. PICK u : u = IF s.agents[r.a] = "requesting" /\ ~s.duty THEN Set(s, r.a, "running") ELSE s
    OBVIOUS
  <2>2. Stays(s, u)
    BY <2>1, StaysSet DEF Stays
  <2>3. Typed(u)
    <3>1. PICK x \in States : x = "running"
      BY DEF States
    <3>2. u = Set(s, r.a, x) \/ u = s
      BY <2>1, <3>1
    <3> QED BY <3>2, <1>1, SetKeeps
  <2>4. ReqFinished(s, r) = IF ~r.first \/ ~s.t0 THEN u
                            ELSE IF u.hold THEN LifeDone(u) ELSE SuspRequest(u, r.a)
    BY <2>1, <1>3 DEF ReqFinished
  <2>5. Stays(u, ReqFinished(s, r))
    BY <2>3, <2>4, StaysLifeDone, StaysSuspRequest DEF Stays
  <2> QED BY <2>2, <2>5, StaysTwice
<1> QED BY <1>2, <1>3

LEMMA StaysUncount ==
    ASSUME NEW s, Typed(s), NEW r \in Requests
    PROVE Stays(s, Uncount(s, r)) /\ Typed(Uncount(s, r))
<1>1. Typed(Uncount(s, r)) /\ Same(s, Uncount(s, r), {"inflight", "handoff", "epp"})
  BY UncountIs
<1> QED BY <1>1, StaysSame

LEMMA StaysDispatched ==
    ASSUME NEW s, Typed(s), NEW r \in Requests
    PROVE Stays(s, Dispatched(s, r))
<1>1. CASE s.pods = 0
  <2>1. PICK u : u = Uncount(s, r)
    OBVIOUS
  <2>2. Typed(u) /\ Stays(s, u)
    BY <2>1, StaysUncount
  <2>3. Stays(u, ReqFinished(u, r))
    BY <2>2, StaysFinished
  <2>4. Dispatched(s, r) = ReqFinished(u, r)
    BY <2>1, <1>1 DEF Dispatched
  <2> QED BY <2>2, <2>3, <2>4, StaysTwice
<1>2. CASE s.pods # 0
  <2>1. PICK u : u = [s EXCEPT !.epp = IF r.epp THEN @ + 1 ELSE @]
    OBVIOUS
  <2>2. Typed(u) /\ Same(s, u, {"inflight", "handoff", "epp"})
    BY <2>1, SlotIs
  <2>3. Stays(s, u)
    BY <2>2, StaysSame
  <2>4. Dispatched(s, r) = Put(u, <<"reply", r>>)
    BY <2>1, <1>2 DEF Dispatched
  <2> QED BY <2>2, <2>3, <2>4, StaysPut, StaysTwice
<1> QED BY <1>1, <1>2

LEMMA StaysStarted ==
    ASSUME NEW s, Typed(s), NEW I
    PROVE Stays(s, Started(s, I))
<1>1. DOMAIN s = Attributes
  BY DEF Typed
<1>2. Started(s, I).phase = s.phase
  BY <1>1 DEF Started, Sched, Settle, Attributes
<1> QED BY <1>2 DEF Stays

LEMMA StaysDuty ==
    ASSUME NEW s, Typed(s), NEW t \in StartDutyCycle(s)
    PROVE Stays(s, t)
<1>1. DOMAIN s = Attributes
  BY DEF Typed
<1>2. t.phase = s.phase
  BY <1>1 DEF StartDutyCycle, Sched, Attributes
<1> QED BY <1>2 DEF Stays

LEMMA FiredTyped ==
    ASSUME FlowOk(self), NEW e \in Pending
    PROVE /\ Typed(Fire(e)) /\ Stays(self, Fire(e)) /\ e \in Events
          /\ e[1] \in UnderWay => e[2] \in Requests
          /\ e[1] \in AgentKinds => e[2] \in Agents
<1>1. Typed(self) /\ e \in DOMAIN self.ev /\ e \in Events
  BY DEF FlowOk, Typed, Heap, Pending, BagToSet
<1>2. Typed(Fire(e))
  BY <1>1, FireIs, TookIs
<1> QED BY <1>1, <1>2, StaysFire, EventForm

LEMMA ArriveStays ==
    ASSUME FlowOk(self), Arrive
    PROVE Stays(self, self')
<1>1. PICK e \in Pending : e[1] = "arrive" /\
        LET s == Fire(e) IN
        Runs(IF ~e[2].epp \/ s.pods = 0 \/ (PoolRoom(s) > 0 /\ s.fcq = <<>>)
             THEN Dispatched(s, e[2]) ELSE [s EXCEPT !.fcq = Enqueue(@, e[2])])
  BY DEF Arrive
<1>2. PICK s : s = Fire(e)
  OBVIOUS
<1>3. Typed(s) /\ Stays(self, s) /\ e[2] \in Requests
  BY <1>1, <1>2, FiredTyped DEF UnderWay
<1>4. self' = Dispatched(s, e[2]) \/ self' = [s EXCEPT !.fcq = Enqueue(@, e[2])]
  BY <1>1, <1>2 DEF Runs
<1>5. Stays(s, [s EXCEPT !.fcq = Enqueue(@, e[2])])
  BY <1>3 DEF Typed, Attributes, Stays
<1>6. Stays(s, self')
  BY <1>3, <1>4, <1>5, StaysDispatched
<1> QED BY <1>3, <1>6, StaysTwice

LEMMA DispatchStays ==
    ASSUME FlowOk(self), Dispatch
    PROVE Stays(self, self')
<1>1. PICK e \in Pending : e[1] = "dispatch" /\
        self' = Dispatched([Fire(e) EXCEPT !.handoff = @ - 1], e[2])
  BY DEF Dispatch, Runs
<1>2. PICK s : s = Fire(e)
  OBVIOUS
<1>3. Typed(s) /\ Stays(self, s) /\ e[2] \in Requests
  BY <1>1, <1>2, FiredTyped DEF UnderWay
<1>4. PICK u : u = [s EXCEPT !.handoff = @ - 1]
  OBVIOUS
<1>5. Same(s, u, {"inflight", "handoff", "epp"})
      /\ u.inflight = s.inflight /\ u.epp = s.epp /\ u.handoff = s.handoff - 1
  BY <1>3, <1>4 DEF Typed, Same, Attributes
<1>6. u.inflight \in Int /\ u.epp \in Int /\ u.handoff \in Int
  BY <1>3, <1>5 DEF Typed
<1>7. Typed(u) /\ Stays(s, u)
  BY <1>3, <1>5, <1>6, CountersIs, StaysSame
<1>8. Stays(u, self')
  BY <1>1, <1>2, <1>3, <1>4, <1>7, StaysDispatched
<1> QED BY <1>3, <1>7, <1>8, StaysTwice

LEMMA ReplyStays ==
    ASSUME FlowOk(self), Reply
    PROVE Stays(self, self')
<1>1. PICK e \in Pending : e[1] = "reply" /\
        LET s == [Fire(e) EXCEPT !.epp = IF e[2].epp THEN @ - 1 ELSE @]
        IN  self' = FcPump(ReqFinished(Uncount(s, e[2]), e[2]))
  BY DEF Reply, Runs
<1>2. PICK s : s = Fire(e)
  OBVIOUS
<1>3. Typed(s) /\ Stays(self, s) /\ e[2] \in Requests
  BY <1>1, <1>2, FiredTyped DEF UnderWay
<1>4. PICK u : u = [s EXCEPT !.epp = IF e[2].epp THEN @ - 1 ELSE @]
  OBVIOUS
<1>5. Same(s, u, {"inflight", "handoff", "epp"})
      /\ u.inflight = s.inflight /\ u.handoff = s.handoff /\ u.epp \in {s.epp, s.epp - 1}
  BY <1>3, <1>4 DEF Typed, Same, Attributes
<1>6. u.inflight \in Int /\ u.epp \in Int /\ u.handoff \in Int
  BY <1>3, <1>5 DEF Typed
<1>7. Typed(u) /\ Stays(s, u)
  BY <1>3, <1>5, <1>6, CountersIs, StaysSame
<1>8. PICK v : v = Uncount(u, e[2])
  OBVIOUS
<1>9. Typed(v) /\ Stays(u, v)
  BY <1>3, <1>7, <1>8, StaysUncount
<1>10. PICK w : w = ReqFinished(v, e[2])
  OBVIOUS
<1>11. Typed(w) /\ Stays(v, w)
  BY <1>3, <1>9, <1>10, StaysFinished, ReqFinishedNoFlow DEF NoFlow
<1>12. self' = FcPump(w)
  BY <1>1, <1>2, <1>4, <1>8, <1>10
<1>13. Stays(w, self')
  BY <1>11, <1>12, StaysPump
<1> QED BY <1>3, <1>7, <1>9, <1>11, <1>13, StaysTwice

LEMMA WokenStays ==
    ASSUME NEW s, Typed(s), NEW i \in Agents, NEW t \in Woken(s, i)
    PROVE Stays(s, t)
<1>1. PICK quiet \in BOOLEAN : quiet <=> s.wake_only /\ ~s.started
  OBVIOUS
<1>2. PICK x \in States : x = IF quiet THEN "running" ELSE "requesting"
  BY DEF States
<1>3. PICK up : up = Set(s, i, x)
  OBVIOUS
<1>4. PICK v : v = [up EXCEPT !.woke = @ + 1]
  OBVIOUS
<1>5. PICK c : c = CheckWakeDone(v)
  OBVIOUS
<1>6. t = c \/ \E b \in Tiers(c) : t = Dispatched(c, Request(c, i, TRUE, c.duty, b))
  BY <1>1, <1>2, <1>3, <1>4, <1>5 DEF Woken
<1>7. Typed(up) /\ Stays(s, up)
  BY <1>3, SetKeeps, StaysSet
<1>8. Same(up, v, {"woke"}) /\ v.woke = up.woke + 1
  BY <1>4, <1>7 DEF Typed, Same, Attributes
<1>9. Typed(v)
  <2>1. up.woke \in Nat
    BY <1>7 DEF Typed
  <2>2. v.woke \in Nat
    BY <2>1, <1>8
  <2>3. Typed(up) /\ Same(up, v, {"woke"})
    BY <1>7, <1>8
  <2>4. DOMAIN v = Attributes /\ \A f \in Attributes \ {"woke"} : v[f] = up[f]
    BY <2>3 DEF Same
  <2>5. /\ v.agents = up.agents /\ v.phase = up.phase /\ v.busy = up.busy /\ v.t0 = up.t0
        /\ v.hold = up.hold /\ v.wake_only = up.wake_only /\ v.started = up.started
        /\ v.duty = up.duty /\ v.wake_done = up.wake_done /\ v.first_done = up.first_done
        /\ v.strategy = up.strategy /\ v.pods = up.pods /\ v.rate = up.rate
        /\ v.fcq = up.fcq /\ v.ev = up.ev /\ v.owned = up.owned
    BY <2>4 DEF Attributes
  <2>6. /\ v.wake_wait = up.wake_wait /\ v.susp_wait = up.susp_wait /\ v.n = up.n
        /\ v.pending = up.pending /\ v.wake_failed = up.wake_failed /\ v.conc = up.conc
        /\ v.inflight = up.inflight /\ v.handoff = up.handoff /\ v.epp = up.epp
        /\ v.workers = up.workers /\ v.wake_active = up.wake_active
        /\ v.susp_active = up.susp_active /\ v.susp_out = up.susp_out
    BY <2>4 DEF Attributes
  <2> QED BY <2>2, <2>3, <2>4, <2>5, <2>6 DEF Typed
<1>10. Stays(up, v)
  BY <1>8, StaysSame
<1>11. Typed(c) /\ Stays(v, c)
  BY <1>5, <1>9, CheckWakeDoneIs, StaysCheck DEF NoFlow
<1>12. Stays(c, t)
  <2>1. CASE t = c
    BY <2>1 DEF Stays
  <2>2. ASSUME NEW b \in Tiers(c), t = Dispatched(c, Request(c, i, TRUE, c.duty, b)) PROVE Stays(c, t)
    <3>1. Request(c, i, TRUE, c.duty, b) \in Requests
      BY <1>11 DEF Request, Requests, Tiers, Typed
    <3> QED BY <3>1, <2>2, <1>11, StaysDispatched
  <2> QED BY <2>1, <2>2, <1>6
<1> QED BY <1>7, <1>10, <1>11, <1>12, StaysTwice

LEMMA WakeFailedStays ==
    ASSUME NEW s, Typed(s), NEW i \in Agents, NEW t, t = WakeFailed(s, i)
    PROVE Stays(s, t)
<1>1. PICK x \in States : x = "failed"
  BY DEF States
<1>2. PICK up : up = Set(s, i, x)
  OBVIOUS
<1>3. PICK v : v = [up EXCEPT !.wake_failed = @ + 1]
  OBVIOUS
<1>4. PICK c : c = CheckWakeDone(v)
  OBVIOUS
<1>5. t = c \/ t = LifeDone(c)
  BY <1>1, <1>2, <1>3, <1>4 DEF WakeFailed
<1>6. Typed(up) /\ Stays(s, up)
  BY <1>2, SetKeeps, StaysSet
<1>7. Same(up, v, {"wake_failed"}) /\ v.wake_failed = up.wake_failed + 1
  BY <1>3, <1>6 DEF Typed, Same, Attributes
<1>8. Typed(v)
  <2>1. up.wake_failed \in Nat
    BY <1>6 DEF Typed
  <2>2. v.wake_failed \in Nat
    BY <2>1, <1>7
  <2>3. Typed(up) /\ Same(up, v, {"wake_failed"})
    BY <1>6, <1>7
  <2> QED BY <2>2, <2>3, TypedBut
<1>9. Stays(up, v)
  BY <1>7, StaysSame
<1>10. Typed(c) /\ Stays(v, c)
  BY <1>4, <1>8, CheckWakeDoneIs, StaysCheck DEF NoFlow
<1>11. Stays(c, t)
  BY <1>5, <1>10, StaysLifeDone DEF Stays
<1> QED BY <1>6, <1>9, <1>10, <1>11, StaysTwice

LEMMA WakeStays ==
    ASSUME FlowOk(self), Wake
    PROVE Stays(self, self')
<1>1. PICK e \in Pending : e[1] = "wake" /\
        LET s == [Fire(e) EXCEPT !.wake_active = self.wake_active - 1]
        IN  \E s1 \in {Started(s, I) : I \in WakeFill(s)} : \E s2 \in WakeOutcomes(s1, e[2]) : self' = s2
  BY DEF Wake, Runs
<1>2. PICK v : v = Fire(e)
  OBVIOUS
<1>3. Typed(v) /\ Stays(self, v) /\ e[2] \in Agents
  BY <1>1, <1>2, FiredTyped DEF AgentKinds
<1>4. PICK i \in Agents : i = e[2]
  BY <1>3
<1>5. PICK s : s = [v EXCEPT !.wake_active = self.wake_active - 1]
  OBVIOUS
<1>6. Same(v, s, {"wake_active"}) /\ s.wake_active = self.wake_active - 1
  BY <1>3, <1>5 DEF Typed, Same, Attributes
<1>7. Typed(s) /\ Stays(v, s)
  <2>1. self.wake_active \in Int
    BY DEF FlowOk, Typed
  <2>2. s.wake_active \in Int
    BY <2>1, <1>6
  <2> QED BY <2>2, <1>3, <1>6, SlotsTyped, StaysSame
<1>8. PICK I \in WakeFill(s) : self' \in WakeOutcomes(Started(s, I), i)
  BY <1>1, <1>2, <1>4, <1>5
<1>9. PICK u : u = Started(s, I)
  OBVIOUS
<1>10. Typed(u) /\ Stays(s, u)
  <2>1. I \subseteq s.wake_wait
    BY WakeFillIs
  <2>2. I \subseteq Agents
    BY <2>1, <1>7 DEF Typed
  <2>3. NoFlow(s, u)
    BY <2>2, <1>7, <1>9, StartedIs
  <2> QED BY <2>3, <1>7, <1>9, StaysStarted DEF NoFlow
<1>11. self' \in WakeOutcomes(u, i)
  BY <1>8, <1>9
<1>12. self' = u \/ self' \in Woken(u, i) \/ self' = WakeFailed(u, i)
  BY <1>11 DEF WakeOutcomes
<1>13. Stays(u, self')
  <2>1. CASE self' = u
    BY <2>1 DEF Stays
  <2>2. CASE self' \in Woken(u, i)
    BY <2>2, <1>10, WokenStays
  <2>3. CASE self' = WakeFailed(u, i)
    BY <2>3, <1>10, WakeFailedStays
  <2> QED BY <2>1, <2>2, <2>3, <1>12
<1> QED BY <1>3, <1>7, <1>10, <1>13, StaysTwice

LEMMA PreflightStays ==
    ASSUME FlowOk(self), PreflightDone
    PROVE Stays(self, self')
<1>1. PICK e \in Pending : self' = Put(Settle(Fire(e), Agents, "suspended"), <<"begin", e[2]>>)
  BY DEF PreflightDone, Runs
<1>2. PICK s : s = Fire(e)
  OBVIOUS
<1>3. Typed(s) /\ Stays(self, s)
  BY <1>2, FiredTyped
<1>4. PICK u : u = Settle(s, Agents, "suspended")
  OBVIOUS
<1>5. PICK x \in States : x = "suspended"
  BY DEF States
<1>6. u = Settle(s, Agents, x)
  BY <1>4, <1>5
<1>7. Typed(u) /\ Same(s, u, {"agents"})
  BY <1>3, <1>6, SettledFields
<1>8. Stays(s, u)
  BY <1>7, StaysSame
<1>9. Stays(u, self')
  BY <1>1, <1>2, <1>4, <1>7, StaysPut
<1> QED BY <1>3, <1>8, <1>9, StaysTwice

LEMMA BeginStays ==
    ASSUME FlowOk(self), Begin
    PROVE Stays(self, self')
<1>1. PICK e \in Pending :
        \E I : self' = Started([NewBurst(Fire(e), e[2][1], e[2][2], e[2][4]) EXCEPT
                    !.conc = e[2][3], !.phase = "waking", !.wake_wait = 0..e[2][1] - 1], I)
  BY DEF Begin, Runs
<1>2. PICK s : s = Fire(e)
  OBVIOUS
<1>3. DOMAIN s = Attributes
  BY <1>2, FiredTyped DEF Typed
<1>4. PICK n, h, w, c, W, I : self' = Started([NewBurst(s, n, h, w) EXCEPT
                               !.conc = c, !.phase = "waking", !.wake_wait = W], I)
  BY <1>1, <1>2
<1>5. PICK u : u = [NewBurst(s, n, h, w) EXCEPT !.conc = c, !.phase = "waking", !.wake_wait = W]
  OBVIOUS
<1>6. DOMAIN u = Attributes /\ u.phase = "waking"
  BY <1>3, <1>5 DEF NewBurst, Attributes
<1>7. self' = Started(u, I)
  BY <1>4, <1>5
<1>8. Started(u, I).phase = u.phase
  BY <1>6 DEF Started, Sched, Settle, Attributes
<1> QED BY <1>6, <1>7, <1>8 DEF Stays

LEMMA DutyWakeStays ==
    ASSUME FlowOk(self), DutyWake
    PROVE Stays(self, self')
<1>1. PICK e \in Pending : e[1] = "duty_wake" /\
        \/ self' = Put(Set(Fire(e), e[2], "running"), <<"duty_send", e[2]>>)
        \/ self' = Release(Fire(e), e[2])
        \/ self' = Release(Set(Fire(e), e[2], "suspended"), e[2])
  BY DEF DutyWake, Runs
<1>2. PICK s : s = Fire(e)
  OBVIOUS
<1>3. PICK i : i = e[2]
  OBVIOUS
<1>4. Typed(s) /\ Stays(self, s) /\ i \in Agents
  BY <1>1, <1>2, <1>3, FiredTyped DEF AgentKinds
<1>5. {"running", "suspended"} \subseteq States
  BY DEF States
<1>6. /\ Typed(Set(s, i, "running")) /\ Stays(s, Set(s, i, "running"))
      /\ Typed(Set(s, i, "suspended")) /\ Stays(s, Set(s, i, "suspended"))
  BY <1>4, <1>5, SetKeeps, StaysSet
<1>7. \/ self' = Put(Set(s, i, "running"), <<"duty_send", i>>)
      \/ self' = Release(s, i) \/ self' = Release(Set(s, i, "suspended"), i)
  BY <1>1, <1>2, <1>3
<1>8. Stays(s, self')
  BY <1>4, <1>6, <1>7, StaysPut, StaysRelease, StaysTwice
<1> QED BY <1>4, <1>8, StaysTwice

LEMMA StaysSubmit ==
    ASSUME NEW s, Typed(s), NEW r
    PROVE Stays(s, Submit(s, r))
BY DEF Typed, Attributes, Stays, Submit, Put, Sched

LEMMA DutySendStays ==
    ASSUME FlowOk(self), DutySend
    PROVE Stays(self, self')
<1>1. PICK e \in Pending : e[1] = "duty_send" /\
        \/ self' = Release(Fire(e), e[2])
        \/ self' = Release(Set(Fire(e), e[2], "suspended"), e[2])
        \/ \E r : self' = Submit(Set(Fire(e), e[2], "requesting"), r)
  BY DEF DutySend, Runs
<1>2. PICK s : s = Fire(e)
  OBVIOUS
<1>3. PICK i : i = e[2]
  OBVIOUS
<1>4. Typed(s) /\ Stays(self, s) /\ i \in Agents
  BY <1>1, <1>2, <1>3, FiredTyped DEF AgentKinds
<1>5. {"requesting", "suspended"} \subseteq States
  BY DEF States
<1>6. /\ Typed(Set(s, i, "requesting")) /\ Stays(s, Set(s, i, "requesting"))
      /\ Typed(Set(s, i, "suspended")) /\ Stays(s, Set(s, i, "suspended"))
  BY <1>4, <1>5, SetKeeps, StaysSet
<1>7. \/ \E r : self' = Submit(Set(s, i, "requesting"), r)
      \/ self' = Release(s, i) \/ self' = Release(Set(s, i, "suspended"), i)
  BY <1>1, <1>2, <1>3
<1>8. Stays(s, self')
  BY <1>4, <1>6, <1>7, StaysSubmit, StaysRelease, StaysTwice
<1> QED BY <1>4, <1>8, StaysTwice

LEMMA DutyParkStays ==
    ASSUME FlowOk(self), DutyPark
    PROVE Stays(self, self')
<1>1. PICK e \in Pending : e[1] = "duty_park" /\
        \/ self' = Fire(e) \/ self' = Release(Fire(e), e[2])
        \/ self' = Put(Set(Fire(e), e[2], "suspending"), <<"duty_susp_done", e[2]>>)
  BY DEF DutyPark, Runs
<1>2. PICK s : s = Fire(e)
  OBVIOUS
<1>3. PICK i : i = e[2]
  OBVIOUS
<1>4. Typed(s) /\ Stays(self, s) /\ i \in Agents
  BY <1>1, <1>2, <1>3, FiredTyped DEF AgentKinds
<1>5. "suspending" \in States
  BY DEF States
<1>6. Typed(Set(s, i, "suspending")) /\ Stays(s, Set(s, i, "suspending"))
  BY <1>4, <1>5, SetKeeps, StaysSet
<1>7. \/ self' = s \/ self' = Release(s, i)
      \/ self' = Put(Set(s, i, "suspending"), <<"duty_susp_done", i>>)
  BY <1>1, <1>2, <1>3
<1>8. Stays(s, s)
  BY DEF Stays
<1>9. Stays(s, self')
  BY <1>4, <1>6, <1>7, <1>8, StaysPut, StaysRelease, StaysTwice
<1> QED BY <1>4, <1>9, StaysTwice

LEMMA DutySuspDoneStays ==
    ASSUME FlowOk(self), DutySuspDone
    PROVE Stays(self, self')
<1>1. PICK e \in Pending : e[1] = "duty_susp_done" /\
        \/ self' = Fire(e) \/ self' = Release(Fire(e), e[2])
        \/ self' = Release(Set(Fire(e), e[2], "suspended"), e[2])
  BY DEF DutySuspDone, Runs
<1>2. PICK s : s = Fire(e)
  OBVIOUS
<1>3. PICK i : i = e[2]
  OBVIOUS
<1>4. Typed(s) /\ Stays(self, s) /\ i \in Agents
  BY <1>1, <1>2, <1>3, FiredTyped DEF AgentKinds
<1>5. "suspended" \in States
  BY DEF States
<1>6. Typed(Set(s, i, "suspended")) /\ Stays(s, Set(s, i, "suspended"))
  BY <1>4, <1>5, SetKeeps, StaysSet
<1>7. \/ self' = s \/ self' = Release(s, i) \/ self' = Release(Set(s, i, "suspended"), i)
  BY <1>1, <1>2, <1>3
<1>8. Stays(s, s)
  BY DEF Stays
<1>9. Stays(s, self')
  BY <1>4, <1>6, <1>7, <1>8, StaysRelease, StaysTwice
<1> QED BY <1>4, <1>9, StaysTwice

LEMMA FinishStays ==
    ASSUME NEW s, Typed(s)
    PROVE Stays(s, FinishSuspend(s))
<1>1. FinishSuspend(s).phase = "idle"
  BY FinishSuspendIs
<1> QED BY <1>1 DEF Stays

LEMMA DrainStays ==
    ASSUME FlowOk(self), Drain
    PROVE Stays(self, self')
<1>1. PICK e \in Pending :
            \E s : s = DrainedOf(Fire(e)) /\
              \/ In(s, Swept) = {} /\ self' = FinishSuspend(SweptOf(s))
              \/ \E I \in SUBSET In(s, Swept) : self' = BegunOf(SweptOf(s), In(s, Swept), I)
  BY DrainForm
<1>2. PICK v : v = Fire(e)
  OBVIOUS
<1>3. PICK s : s = DrainedOf(v) /\
              \/ self' = FinishSuspend(SweptOf(s))
              \/ \E W, I : self' = BegunOf(SweptOf(s), W, I)
  BY <1>1, <1>2
<1>4. Typed(v) /\ Stays(self, v)
  BY <1>2, FiredTyped
<1>5. Typed(s) /\ Stays(v, s)
  BY <1>3, <1>4, DrainedIs DEF Stays
<1>6. PICK u : u = SweptOf(s)
  OBVIOUS
<1>7. Typed(u) /\ Same(s, u, {"all_susp", "susp_out"})
  BY <1>5, <1>6, SweptIs
<1>8. Stays(s, u)
  BY <1>7, StaysSame
<1>9. ASSUME NEW W, NEW I, self' = BegunOf(u, W, I) PROVE Stays(u, self')
  <2>1. DOMAIN u = Attributes
    BY <1>7 DEF Typed
  <2>2. BegunOf(u, W, I).phase = u.phase
    BY <2>1 DEF BegunOf, Sched, Settle, Attributes
  <2> QED BY <2>2, <1>9 DEF Stays
<1>10. self' = FinishSuspend(u) => Stays(u, self')
  BY <1>7, FinishStays
<1>11. Stays(u, self')
  BY <1>3, <1>6, <1>9, <1>10
<1> QED BY <1>4, <1>5, <1>8, <1>11, StaysTwice

LEMMA SDoneStays ==
    ASSUME FlowOk(self), SDone
    PROVE Stays(self, self')
<1>1. PICK e \in Pending : e[1] = "sdone" /\
            \E s \in SDoneNext([Fire(e) EXCEPT !.susp_active = @ - 1]), x \in {"suspended", "running"} :
                self' = SDoneLeft(SDoneMarked(SDoneEnd(s, e[2], x)))
  BY SDoneForm
<1>2. PICK v : v = Fire(e)
  OBVIOUS
<1>3. Typed(v) /\ Stays(self, v) /\ e[2] \in Agents
  BY <1>1, <1>2, FiredTyped DEF AgentKinds
<1>4. PICK i \in Agents : i = e[2]
  BY <1>3
<1>5. PICK s : s = [v EXCEPT !.susp_active = @ - 1]
  OBVIOUS
<1>6. PICK s1 \in SDoneNext(s), x \in {"suspended", "running"} :
        self' = SDoneLeft(SDoneMarked(SDoneEnd(s1, i, x)))
  BY <1>1, <1>2, <1>4, <1>5
<1>7. Typed(s) /\ Stays(v, s)
  <2>1. Same(v, s, {"susp_active"}) /\ s.susp_active = v.susp_active - 1
    BY <1>3, <1>5 DEF Typed, Same, Attributes
  <2>2. v.susp_active \in Int
    BY <1>3 DEF Typed
  <2>3. s.susp_active \in Int
    BY <2>1, <2>2
  <2> QED BY <2>1, <2>3, <1>3, SuspActiveTyped, StaysSame
<1>8. Typed(s1) /\ Stays(s, s1)
  <2>1. CASE s.susp_wait = {}
    BY <2>1, <1>7 DEF SDoneNext, Stays
  <2>2. CASE s.susp_wait # {}
    <3>1. PICK j \in s.susp_wait : s1 = SuspStart([s EXCEPT !.susp_wait = @ \ {j}], j)
      BY <2>2 DEF SDoneNext
    <3>2. PICK u : u = [s EXCEPT !.susp_wait = @ \ {j}]
      OBVIOUS
    <3>3. s1 = SuspStart(u, j)
      BY <3>1, <3>2
    <3>5. Typed(s)
      BY <1>7
    <3>4. Typed(s1) /\ NoFlow(s, s1)
      BY <3>2, <3>3, <3>5, NextSuspLive
    <3>6. DOMAIN s = Attributes
      BY <3>5 DEF Typed
    <3>7. s1.phase = s.phase
      BY <3>1, <3>6 DEF SuspStart, Put, Sched, Set, Attributes
    <3> QED BY <3>4, <3>7 DEF Stays
  <2> QED BY <2>1, <2>2
<1>9. PICK s2 : s2 = SDoneEnd(s1, i, x)
  OBVIOUS
<1>10. Typed(s2) /\ Stays(s1, s2)
  <2>1. PICK y \in States : y = x
    BY DEF States
  <2>2. s2 = Set(s1, i, y) \/ s2 = s1
    BY <2>1, <1>9 DEF SDoneEnd
  <2>3. Typed(Set(s1, i, y)) /\ Stays(s1, Set(s1, i, y)) /\ Stays(s1, s1)
    BY <1>8, SetKeeps, StaysSet DEF Stays
  <2> QED BY <2>2, <2>3, <1>8
<1>11. PICK w : w = SDoneMarked(s2)
  OBVIOUS
<1>12. Same(s2, w, {"all_susp"})
  BY <1>10, <1>11 DEF Typed, Same, Attributes, SDoneMarked
<1>13. Typed(w) /\ Stays(s2, w)
  BY <1>10, <1>12, AllSuspTyped, StaysSame
<1>14. PICK u : u = [w EXCEPT !.susp_out = @ - 1]
  OBVIOUS
<1>15. Same(w, u, {"susp_out"}) /\ u.susp_out = w.susp_out - 1
  BY <1>13, <1>14 DEF Typed, Same, Attributes
<1>16. Typed(u) /\ Stays(w, u)
  <2>1. w.susp_out \in Int
    BY <1>13 DEF Typed
  <2>2. u.susp_out \in Int
    BY <2>1, <1>15
  <2> QED BY <2>2, <1>13, <1>15, SuspOutTyped, StaysSame
<1>17. self' = FinishSuspend(u) \/ self' = u \/ self' = LifeDone(w) \/ self' = w
  BY <1>6, <1>9, <1>11, <1>14 DEF SDoneLeft
<1>18. Stays(u, FinishSuspend(u)) /\ Stays(w, LifeDone(w)) /\ Stays(w, w)
  BY <1>13, <1>16, FinishStays, StaysLifeDone DEF Stays
<1>19. Stays(w, self')
  BY <1>16, <1>17, <1>18, StaysTwice
<1> QED BY <1>3, <1>7, <1>8, <1>10, <1>13, <1>19, StaysTwice

LEMMA ReconDoneStays ==
    ASSUME FlowOk(self), ReconDone
    PROVE Stays(self, self')
<1>1. PICK e \in Pending : self' = [Settle(Fire(e), Agents, "suspended") EXCEPT !.phase = "idle", !.busy = FALSE]
  BY DEF ReconDone, Runs
<1>2. PICK s : s = Fire(e)
  OBVIOUS
<1>3. DOMAIN s = Attributes
  BY <1>2, FiredTyped DEF Typed
<1>4. self'.phase = "idle"
  BY <1>1, <1>2, <1>3 DEF Settle, Attributes
<1> QED BY <1>4 DEF Stays

LEMMA ApiStays ==
    ASSUME FlowOk(self), StartBurst \/ SimulateTraffic \/ SetTraffic \/ SetStrategy \/ Reconcile \/ MockControl
    PROVE Stays(self, self')
<1>0. Typed(self) /\ DOMAIN self = Attributes
  BY DEF FlowOk, Typed
<1>1. CASE StartBurst
  <2>1. PICK p : self' = Put([self EXCEPT !.busy = TRUE], <<"preflight", p>>)
    BY <1>1 DEF StartBurst
  <2>2. self'.phase = self.phase
    BY <2>1, <1>0 DEF Put, Sched, Attributes
  <2> QED BY <2>2 DEF Stays
<1>2. CASE SimulateTraffic \/ SetTraffic
  <2>1. PICK x, s : x \in Nat /\ s = [self EXCEPT !.rate = x] /\ (self' \in StartDutyCycle(s) \/ self' = s)
    <3>1. CASE SimulateTraffic
      <4>1. \/ self' = [self EXCEPT !.rate = 0] \/ self' = [self EXCEPT !.rate = 1]
            \/ self' \in StartDutyCycle([self EXCEPT !.rate = 1])
        BY <3>1 DEF SimulateTraffic
      <4> QED BY <4>1
    <3>2. CASE SetTraffic
      BY <3>2 DEF SetTraffic
    <3> QED BY <3>1, <3>2, <1>2
  <2>2. Typed(s) /\ s.phase = self.phase
    BY <2>1, <1>0, RateIs
  <2>3. Stays(s, self')
    BY <2>1, <2>2, StaysDuty DEF Stays
  <2> QED BY <2>2, <2>3 DEF Stays
<1>3. CASE SetStrategy
  <2>1. PICK mode \in {"roundrobin", "flow"} :
           self' = FcPump([self EXCEPT !.strategy = mode,
                                       !.rate = IF self.phase = "running" /\ @ > 0 THEN 1 ELSE @])
    BY <1>3 DEF SetStrategy
  <2>2. self'.phase = self.phase
    BY <2>1, <1>0 DEF FcPump, Attributes
  <2> QED BY <2>2 DEF Stays
<1>4. CASE Reconcile
  <2>1. self'.phase = "reconciling"
    BY <1>4, <1>0 DEF Reconcile, Put, Sched, Attributes
  <2> QED BY <2>1 DEF Stays
<1>5. CASE MockControl
  <2>1. self' = [ResetAll EXCEPT !.pods = self.pods, !.duty = self.duty]
        \/ \E p : self' = FcPump([self EXCEPT !.pods = p])
    BY <1>5 DEF MockControl
  <2>2. self' = [ResetAll EXCEPT !.pods = self.pods, !.duty = self.duty] => self'.phase = "idle"
    BY DEF ResetAll
  <2>3. ASSUME NEW p, self' = FcPump([self EXCEPT !.pods = p]) PROVE self'.phase = self.phase
    BY <2>3, <1>0 DEF FcPump, Attributes
  <2> QED BY <2>1, <2>2, <2>3 DEF Stays
<1> QED BY <1>1, <1>2, <1>3, <1>4, <1>5

LEMMA TickStays ==
    ASSUME FlowOk(self), Tick
    PROVE Stays(self, self')
<1>0. Typed(self) /\ DOMAIN self = Attributes
  BY DEF FlowOk, Typed
<1>1. CASE TickPick
  <2>1. self'.phase = self.phase
    BY <1>0, <1>1 DEF TickPick, Put, Sched, Set, Attributes
  <2> QED BY <2>1 DEF Stays
<1>2. CASE TickSteady
  <2>1. PICK i, r : self' = Submit(self, r) \/ self' = Submit(Set(self, i, "requesting"), r)
    BY <1>2 DEF TickSteady
  <2>2. self'.phase = self.phase
    BY <1>0, <2>1 DEF Submit, Put, Sched, Set, Attributes
  <2> QED BY <2>2 DEF Stays
<1> QED BY <1>1, <1>2 DEF Tick

LEMMA OnlySuspendSweeps ==
    ASSUME FlowOk(self), Next, self.phase # "suspending", self'.phase = "suspending"
    PROVE Suspend
<1>1. CASE Event
  <2>1. Stays(self, self')
    BY <1>1, ArriveStays, DispatchStays, ReplyStays, PreflightStays, BeginStays, WakeStays,
       DutyWakeStays, DutySendStays, DutyParkStays, DutySuspDoneStays, DrainStays, SDoneStays,
       ReconDoneStays DEF Event
  <2> QED BY <2>1 DEF Stays
<1>2. CASE Tick
  BY <1>2, TickStays DEF Stays
<1>3. CASE Api
  BY <1>3, ApiStays DEF Api, Stays
<1> QED BY <1>1, <1>2, <1>3 DEF Next

(* A sweep never begins while an agent of the burst still waits for its first reply: the
   driver stays busy until then, and refuses the call.                                    *)
THEOREM NoSuspendBeforeRepliesAlways == Spec => NoSuspendBeforeReplies
<1>1. ASSUME FlowOk(self), Live(self), [Next]_vars
      PROVE [self.phase # "suspending" /\ self'.phase = "suspending" => ~FirstPending]_vars
  <2>1. SUFFICES ASSUME Next, self.phase # "suspending", self'.phase = "suspending" PROVE ~FirstPending
    BY <1>1
  <2>2. Firsts(self) = {}
    BY <1>1, <2>1, OnlySuspendSweeps, SuspendKeeps
  <2>3. Paced(self) /\ Typed(self)
    BY <1>1 DEF FlowOk
  <2>4. \A e \in Pending : e \in Events /\ e \in DOMAIN self.ev
    BY <2>3 DEF Typed, Heap, Pending, BagToSet
  <2>5. ASSUME NEW e \in Pending, e[1] \in UnderWay, e[2].first PROVE FALSE
    <3>1. PICK r \in Requests : r = e[2] /\ e = <<e[1], r>> /\ r.first
      BY <2>4, <2>5, EventForm
    <3>2. e \in DOMAIN self.ev /\ e[1] \in {"arrive", "dispatch", "reply"}
      BY <2>4, <2>5 DEF UnderWay
    <3>3. CASE e[1] = "arrive"
      BY <3>1, <3>2, <3>3, <2>3 DEF Paced
    <3>4. CASE e[1] = "dispatch"
      BY <3>1, <3>2, <3>4, <2>3 DEF Paced
    <3>5. CASE e[1] = "reply"
      BY <3>1, <3>2, <3>5, <2>2 DEF Firsts
    <3> QED BY <3>2, <3>3, <3>4, <3>5
  <2>6. \A r \in Queued : ~r.first
    BY <2>3 DEF Queued, Paced
  <2> QED BY <2>5, <2>6 DEF FirstPending
<1>2. Inductive => FlowOk(self) /\ Live(self)
  BY DEF Inductive
<1>3. Spec => [][Next]_vars
  BY PTL DEF Spec
<1> QED BY <1>1, <1>2, <1>3, InductiveAlways, PTL DEF NoSuspendBeforeReplies
=============================================================================
