---------------------------- MODULE RouterProofs ----------------------------
(***************************************************************************)
(* Where a session lives, for all four routers and any number of requests, *)
(* sessions, resets and restarts.  The argument: a session's home in the   *)
(* KV tier is written once, the index file holds nothing the tier does not *)
(* hold, and what is active in a run is where the tier says.               *)
(***************************************************************************)
EXTENDS LlmdRouter, DynamoScriptRouter, LustreRouter, TLAPS

AnyInit == LlmdInit \/ DynInit("dynamo") \/ ScriptInit \/ LustreInit
AnyNext == LlmdNext \/ DynNext \/ ScriptNext \/ LustreNext
AnySpec == AnyInit /\ [][AnyNext]_vars

MapsTyped ==
    /\ tier \in HomeMaps /\ active \in HomeMaps /\ index \in HomeMaps
    /\ rr \in Backends /\ may \in Scenarios

(* The file holds no home that the tier does not hold, unless a reset has    *)
(* cleared the tier and not written the file yet.                            *)
IndexWithin == resetting # "clear" => \A s \in Sessions : index[s] # None => tier[s] = index[s]

HomesInv ==
    /\ MapsTyped /\ IndexWithin /\ OneHome
    /\ router = "lustre" => resetting = "no"

places == <<tier, active, index, rr, stage, router, resetting, may>>

Kept == HomesInv' /\ [Homes!Next /\ UNCHANGED may.existing]_<<tier, index, may.existing>>

-----------------------------------------------------------------------------
LEMMA AbsentTyped == Absent \in HomeMaps
BY DEF Absent, HomeMaps

LEMMA LessLoadedTyped == LessLoaded \in Backends
BY DEF LessLoaded, Backends

(* The actions that have nothing to do with homes.                           *)
LEMMA Elsewhere ==
    ASSUME HomesInv, UNCHANGED places
    PROVE  Kept
BY DEF places, Kept, HomesInv, MapsTyped, IndexWithin, OneHome

(* A session gets a home, or keeps the one it has.                           *)
LEMMA Housed ==
    ASSUME HomesInv, NEW s \in Sessions, NEW b \in Backends, NEW active1 \in HomeMaps, NEW rr1 \in Backends,
           tier[s] # None => b = tier[s],
           tier' = [tier EXCEPT ![s] = b], active' = active1, rr' = rr1,
           UNCHANGED <<index, stage, router, resetting, may>>,
           \/ router \in {"dynamo", "dynamo2"} /\ stage = 1
           \/ active1 = active \/ active1 = [active EXCEPT ![s] = b]
    PROVE  Kept
<1>1. b # None
  BY DEF Backends, None
<1>2. tier' \in HomeMaps /\ \A t \in Sessions : tier'[t] = IF t = s THEN b ELSE tier[t]
  BY DEF HomesInv, MapsTyped, HomeMaps
<1>3. MapsTyped'
  BY <1>2 DEF HomesInv, MapsTyped
<1>4. \A t \in Sessions : tier[t] # None => tier'[t] = tier[t]
  BY <1>2
<1>5. IndexWithin'
  BY <1>4 DEF HomesInv, IndexWithin
<1>6. OneHome'
  <2>1. CASE router \in {"dynamo", "dynamo2"} /\ stage = 1
    BY <2>1 DEF OneHome
  <2>2. CASE active1 = active
    BY <1>4, <2>2 DEF HomesInv, OneHome
  <2>3. CASE active1 = [active EXCEPT ![s] = b]
    <3>1. \A t \in Sessions : active'[t] = IF t = s THEN b ELSE active[t]
      BY <2>3 DEF HomesInv, MapsTyped, HomeMaps
    <3> QED BY <1>2, <1>4, <3>1 DEF HomesInv, OneHome
  <2> QED BY <2>1, <2>2, <2>3
<1>7. [Homes!Next /\ UNCHANGED may.existing]_<<tier, index, may.existing>>
  <2>1. CASE tier[s] = None
    BY <2>1 DEF Homes!Next, Homes!Settle
  <2>2. CASE tier[s] # None
    <3>1. tier' = tier
      BY <2>2 DEF HomesInv, MapsTyped, HomeMaps
    <3> QED BY <3>1
  <2> QED BY <2>1, <2>2
<1> QED BY <1>3, <1>5, <1>6, <1>7 DEF Kept, HomesInv

(* A reset: no session is active, the tier is kept or cleared, and the file  *)
(* is what the tier is from now on.                                          *)
LEMMA Emptied ==
    ASSUME HomesInv, active' = Absent, index' = tier', tier' \in {tier, Absent},
           rr' \in Backends, UNCHANGED <<router, may>>, router = "lustre" => resetting' = "no"
    PROVE  Kept
<1>1. tier' \in HomeMaps
  BY AbsentTyped DEF HomesInv, MapsTyped
<1>2. MapsTyped'
  BY <1>1, AbsentTyped DEF HomesInv, MapsTyped
<1>3. IndexWithin' /\ OneHome'
  BY DEF IndexWithin, OneHome, Absent
<1>4. Homes!Next
  BY DEF Homes!Next, Homes!Save, Homes!Nowhere, Absent
<1> QED BY <1>2, <1>3, <1>4 DEF Kept, HomesInv

(* What the older file may hold.                                             *)
LEMMA OlderTyped == ASSUME may \in Scenarios PROVE may.existing \subseteq HomeMaps /\ may.existing # {}
<1>1. may.existing \in (SUBSET HomeMaps) \ {{}}
  BY SetsAssumption
<1> QED BY <1>1

(* The two ways the programs read the files, and Lustre's, which has one.    *)
LEMMA LlmdReads ==
    ASSUME may \in Scenarios, index \in HomeMaps, NEW file \in may.existing
    PROVE  LlmdLoads(file) \in HomeMaps /\ Homes!Reloaded(LlmdLoads(file))
<1>1. file \in HomeMaps
  BY OlderTyped
<1>2. CASE index # Absent
  <2>1. LlmdLoads(file) = index
    BY <1>2 DEF LlmdLoads
  <2> QED BY <2>1 DEF Homes!Reloaded, HomeMaps
<1>3. CASE index = Absent
  <2>1. LlmdLoads(file) = file
    BY <1>3 DEF LlmdLoads
  <2>2. \A s \in Sessions : index[s] = None
    BY <1>3 DEF Absent
  <2> QED BY <1>1, <2>1, <2>2 DEF Homes!Reloaded, HomeMaps
<1> QED BY <1>2, <1>3

LEMMA DynReads ==
    ASSUME may \in Scenarios, index \in HomeMaps, NEW file \in may.existing
    PROVE  DynLoads(file) \in HomeMaps /\ Homes!Reloaded(DynLoads(file))
<1>1. file \in HomeMaps
  BY OlderTyped
<1>2. DynLoads(file) \in HomeMaps
  BY <1>1 DEF DynLoads, Loaded, HomeMaps
<1>3. \A s \in Sessions : DynLoads(file)[s] = IF index[s] = None THEN file[s] ELSE index[s]
  BY DEF DynLoads, Loaded
<1> QED BY <1>1, <1>2, <1>3 DEF Homes!Reloaded, HomeMaps

LEMMA LustreReads ==
    ASSUME may \in Scenarios, index \in HomeMaps
    PROVE  Homes!Reloaded(index)
<1>1. PICK file \in may.existing : TRUE
  BY OlderTyped
<1> QED BY <1>1 DEF Homes!Reloaded, HomeMaps

(* A restart: no session is active, and the tier is what the files say; it   *)
(* holds what the router's own file holds.                                   *)
LEMMA Restarted ==
    ASSUME HomesInv, active' = Absent, UNCHANGED <<index, router, may>>, NEW map \in HomeMaps,
           Homes!Reloaded(map), tier' = map, rr' \in Backends, router = "lustre" => resetting' = "no"
    PROVE  Kept
<1>1. MapsTyped'
  BY AbsentTyped DEF HomesInv, MapsTyped
<1>2. \A s \in Sessions : index[s] # None => map[s] = index[s]
  BY DEF Homes!Reloaded
<1>3. IndexWithin' /\ OneHome'
  BY <1>2 DEF IndexWithin, OneHome, Absent
<1>4. Homes!Next
  BY DEF Homes!Next, Homes!Restart, Homes!Reloaded
<1> QED BY <1>1, <1>3, <1>4 DEF Kept, HomesInv

-----------------------------------------------------------------------------
LEMMA SessionsKnown == ASSUME HomesInv PROVE may.sessions \subseteq Sessions
BY SetsAssumption DEF HomesInv, MapsTyped

LEMMA LlmdKeeps == ASSUME HomesInv, LlmdNext PROVE Kept
<1>1. ASSUME NEW r \in Requests, LlmdArrive(r) PROVE Kept
  <2>0. PICK s \in may.sessions, warm \in BOOLEAN : LlmdAssign(r, s, warm)
    BY <1>1 DEF LlmdArrive
  <2>1. /\ tier' = IF active[s] = None /\ tier[s] = None
                   THEN [tier EXCEPT ![s] = LlmdHome(s)] ELSE tier
        /\ active' = IF LlmdMeasured(warm) /\ active[s] = None
                     THEN [active EXCEPT ![s] = LlmdHome(s)] ELSE active
    BY <2>0 DEF LlmdAssign
  <2>2. UNCHANGED <<index, stage, router, resetting, rr, may>> /\ router = "llmd"
    BY <2>0 DEF LlmdAssign, admin, LlmdIs
  <2>3. s \in Sessions
    BY <2>0, SessionsKnown
  <2>4. active[s] # None => active[s] = tier[s]
    BY <2>2, <2>3 DEF HomesInv, OneHome
  <2>5. LlmdHome(s) = IF tier[s] # None THEN tier[s] ELSE LessLoaded
    BY <2>4 DEF LlmdHome
  <2>6. LlmdHome(s) \in Backends /\ (tier[s] # None => LlmdHome(s) = tier[s])
    BY <2>3, <2>5, LessLoadedTyped DEF HomesInv, MapsTyped, HomeMaps
  <2>7. tier' = [tier EXCEPT ![s] = LlmdHome(s)]
    BY <2>1, <2>3, <2>4, <2>6 DEF HomesInv, MapsTyped, HomeMaps
  <2>8. active' \in HomeMaps /\ rr' \in Backends
    BY <2>1, <2>2, <2>3, <2>6 DEF HomesInv, MapsTyped, HomeMaps
  <2> QED BY <2>1, <2>2, <2>3, <2>6, <2>7, <2>8, Housed
<1>2. ASSUME NEW r \in Requests, LlmdProgress(r) \/ LlmdFirstToken(r) \/ LlmdDisconnect(r) PROVE Kept
  <2>1. UNCHANGED places
    BY <1>2 DEF LlmdProgress, LlmdDelayOver, LlmdGotBackend, LlmdGotTtft, LlmdHeaders, LlmdPostFails,
                LlmdRetry, LlmdStreamOver, LlmdFirstToken, LlmdDisconnect, LlmdFinish,
                maps, run, admin, places
  <2> QED BY <2>1, Elsewhere
<1>3. ASSUME LlmdResetBegin PROVE Kept
  <2>1. UNCHANGED <<tier, active, index, rr, router, may>> /\ router = "llmd" /\ resetting = "no"
    BY <1>3 DEF LlmdResetBegin, LlmdIs, maps
  <2> QED BY <2>1 DEF Kept, HomesInv, MapsTyped, IndexWithin, OneHome
<1>4. ASSUME LlmdResetEnd PROVE Kept
  <2>1. /\ active' = Absent /\ index' = tier' /\ tier' \in {tier, Absent} /\ rr' = rr
        /\ UNCHANGED <<router, may>> /\ router = "llmd"
    BY <1>4 DEF LlmdResetEnd, LlmdIs
  <2>2. rr' \in Backends
    BY <2>1 DEF HomesInv, MapsTyped
  <2> QED BY <2>1, <2>2, Emptied
<1>5. ASSUME LlmdRestart PROVE Kept
  <2>1. PICK file \in may.existing : tier' = LlmdLoads(file)
    BY <1>5 DEF LlmdRestart
  <2>2. active' = Absent /\ UNCHANGED <<index, rr, router, may>> /\ router = "llmd"
    BY <1>5 DEF LlmdRestart, LlmdIs
  <2>3. LlmdLoads(file) \in HomeMaps /\ Homes!Reloaded(LlmdLoads(file))
    BY LlmdReads DEF HomesInv, MapsTyped
  <2>4. rr' \in Backends
    BY <2>2 DEF HomesInv, MapsTyped
  <2> QED BY <2>1, <2>2, <2>3, <2>4, Restarted
<1> QED BY <1>1, <1>2, <1>3, <1>4, <1>5 DEF LlmdNext

(* The two Dynamo programs share their handlers.                             *)
LEMMA DynArriveKeeps ==
    ASSUME HomesInv, router \in {"dynamo", "dynamo2"}, NEW r \in Requests, DynArrive(r)
    PROVE  Kept
<1>0. PICK s \in may.sessions, warm \in BOOLEAN : DynAssign(r, s, warm)
  BY DEF DynArrive
<1>1. /\ rr' = rr \/ rr' = 1 - rr
      /\ tier' = [tier EXCEPT ![s] = DynHome(s)]
      /\ \/ active' = active \/ active' = [active EXCEPT ![s] = DynHome(s)]
         \/ stage = 1 /\ active' = [active EXCEPT ![s] = rr]
  BY <1>0 DEF DynAssign
<1>2. UNCHANGED <<index, stage, router, resetting, may>>
  BY <1>0 DEF DynAssign, admin
<1>3. s \in Sessions
  BY <1>0, SessionsKnown
<1>4. DynHome(s) \in Backends /\ (tier[s] # None => DynHome(s) = tier[s])
  BY <1>3, SetsAssumption DEF DynHome, HomesInv, MapsTyped, HomeMaps, Backends
<1>5. rr' \in Backends
  BY <1>1 DEF HomesInv, MapsTyped, Backends
<1>6. active' \in HomeMaps
  BY <1>1, <1>3, <1>4 DEF HomesInv, MapsTyped, HomeMaps
<1>7. \/ stage = 1
      \/ active' = active \/ active' = [active EXCEPT ![s] = DynHome(s)]
  BY <1>1
<1>8. tier' = [tier EXCEPT ![s] = DynHome(s)]
  BY <1>1
<1> QED BY <1>2, <1>3, <1>4, <1>5, <1>6, <1>7, <1>8, Housed

LEMMA DynHandlerKeeps ==
    ASSUME HomesInv, NEW r \in Requests,
           \/ DynDelayOver(r) \/ DynHeaders(r) \/ DynPostFails(r) \/ DynRetry(r)
           \/ DynFirstToken(r) \/ DynStreamOver(r) \/ DynDisconnect(r)
    PROVE  Kept
<1>1. UNCHANGED places
  BY DEF DynDelayOver, DynHeaders, DynPostFails, DynRetry, DynFirstToken, DynStreamOver,
         DynDisconnect, DynFinish, maps, run, admin, places
<1> QED BY <1>1, Elsewhere

LEMMA DynRestartKeeps ==
    ASSUME HomesInv, router \in {"dynamo", "dynamo2"}, DynRestart
    PROVE  Kept
<1>1. PICK file \in may.existing : tier' = DynLoads(file)
  BY DEF DynRestart
<1>2. active' = Absent /\ rr' = 0 /\ UNCHANGED <<index, router, may>>
  BY DEF DynRestart
<1>3. DynLoads(file) \in HomeMaps /\ Homes!Reloaded(DynLoads(file))
  BY DynReads DEF HomesInv, MapsTyped
<1>4. rr' \in Backends
  BY <1>2 DEF Backends
<1> QED BY <1>1, <1>2, <1>3, <1>4, Restarted

LEMMA DynKeeps == ASSUME HomesInv, DynNext PROVE Kept
<1>1. router = "dynamo"
  BY DEF DynNext
<1>2. ASSUME DynResetBegin PROVE Kept
  <2>1. /\ active' = Absent /\ tier' \in {tier, Absent} /\ rr' = 0 /\ resetting = "no"
        /\ resetting' \in {"keep", "clear"} /\ (resetting' = "keep" => tier' = tier)
        /\ UNCHANGED <<index, router, may>>
    BY <1>2 DEF DynResetBegin, DynZero
  <2>2. MapsTyped'
    BY <2>1, AbsentTyped DEF HomesInv, MapsTyped, Backends
  <2>3. IndexWithin' /\ OneHome'
    BY <2>1 DEF HomesInv, IndexWithin, OneHome, Absent
  <2>4. [Homes!Next /\ UNCHANGED may.existing]_<<tier, index, may.existing>>
    BY <2>1 DEF Homes!Next, Homes!Clear, Homes!Nowhere, Absent
  <2> QED BY <1>1, <2>1, <2>2, <2>3, <2>4 DEF Kept, HomesInv
<1>3. ASSUME DynResetEnd PROVE Kept
  <2>1. UNCHANGED <<tier, active, rr, stage, router, may>> /\ index' = tier
    BY <1>3 DEF DynResetEnd, maps, run
  <2>2. MapsTyped' /\ IndexWithin' /\ OneHome'
    BY <2>1 DEF HomesInv, MapsTyped, IndexWithin, OneHome
  <2>3. Homes!Next
    BY <2>1 DEF Homes!Next, Homes!Save
  <2> QED BY <1>1, <2>1, <2>2, <2>3 DEF Kept, HomesInv
<1> QED BY <1>1, <1>2, <1>3, DynArriveKeeps, DynHandlerKeeps, DynRestartKeeps DEF DynNext

LEMMA ScriptKeeps == ASSUME HomesInv, ScriptNext PROVE Kept
<1>1. router = "dynamo2"
  BY DEF ScriptNext, ScriptIs
<1>2. ASSUME ScriptReset PROVE Kept
  <2>1. active' = Absent /\ index' = tier' /\ tier' \in {tier, Absent} /\ rr' = 0 /\ UNCHANGED <<router, may>>
    BY <1>2 DEF ScriptReset, DynZero
  <2>2. rr' \in Backends
    BY <2>1 DEF Backends
  <2> QED BY <1>1, <2>1, <2>2, Emptied
<1> QED BY <1>1, <1>2, DynArriveKeeps, DynHandlerKeeps, DynRestartKeeps
        DEF ScriptNext, ScriptRoute, ScriptForward

LEMMA LustreKeeps == ASSUME HomesInv, LustreNext PROVE Kept
<1>1. ASSUME NEW r \in Requests, LustreArrive(r) PROVE Kept
  <2>1. PICK s \in may.sessions :
            LET new == active[s] = None /\ tier[s] = None
                idx == IF active[s] # None THEN active[s] ELSE IF new THEN LessLoaded ELSE tier[s]
            IN  /\ active' = [active EXCEPT ![s] = idx]
                /\ tier' = IF new THEN [tier EXCEPT ![s] = idx] ELSE tier
    BY <1>1 DEF LustreArrive
  <2> DEFINE b == IF tier[s] # None THEN tier[s] ELSE LessLoaded
  <2>2. UNCHANGED <<index, stage, router, resetting, rr, may>> /\ router = "lustre"
    BY <1>1 DEF LustreArrive, LustreRest, run, admin, LustreIs
  <2>3. s \in Sessions
    BY <2>1, SessionsKnown
  <2>4. active[s] # None => active[s] = tier[s]
    BY <2>2, <2>3 DEF HomesInv, OneHome
  <2>5. b \in Backends /\ (tier[s] # None => b = tier[s])
    BY <2>3, LessLoadedTyped DEF HomesInv, MapsTyped, HomeMaps
  <2>6. active' = [active EXCEPT ![s] = b]
    BY <2>1, <2>4
  <2>7. tier' = [tier EXCEPT ![s] = b]
    BY <2>1, <2>3, <2>4 DEF HomesInv, MapsTyped, HomeMaps
  <2> HIDE DEF b
  <2>8. active' \in HomeMaps /\ rr' \in Backends
    BY <2>2, <2>3, <2>5, <2>6 DEF HomesInv, MapsTyped, HomeMaps
  <2> QED BY <2>2, <2>3, <2>5, <2>6, <2>7, <2>8, Housed
<1>2. ASSUME NEW r \in Requests,
             \/ LustreGotPermit(r) \/ LustreHeaders(r) \/ LustrePostFails(r) \/ LustreRetry(r)
             \/ LustreFirstToken(r) \/ LustreStreamOver(r)
      PROVE  Kept
  <2>1. UNCHANGED places
    BY <1>2 DEF LustreGotPermit, LustreHeaders, LustrePostFails, LustreRetry, LustreFirstToken,
                LustreStreamOver, LustreFinish, LustreRest, maps, run, admin, places
  <2> QED BY <2>1, Elsewhere
<1>3. ASSUME LustreReset PROVE Kept
  <2>1. /\ active' = Absent /\ index' = tier' /\ tier' \in {Absent, Loaded(tier, index)} /\ rr' = rr
        /\ UNCHANGED <<router, resetting, may>> /\ router = "lustre"
    BY <1>3 DEF LustreReset, LustreIs, run
  <2>2. resetting = "no"
    BY <2>1 DEF HomesInv
  <2>3. Loaded(tier, index) = tier
    BY <2>2 DEF Loaded, HomesInv, MapsTyped, HomeMaps, IndexWithin
  <2>4. rr' \in Backends
    BY <2>1 DEF HomesInv, MapsTyped
  <2> QED BY <2>1, <2>2, <2>3, <2>4, Emptied
<1>4. ASSUME LustreRestart PROVE Kept
  <2>1. /\ active' = Absent /\ tier' = index /\ UNCHANGED <<index, rr, router, resetting, may>>
        /\ router = "lustre"
    BY <1>4 DEF LustreRestart, LustreIs, run
  <2>2. rr' \in Backends /\ resetting = "no" /\ index \in HomeMaps /\ may \in Scenarios
    BY <2>1 DEF HomesInv, MapsTyped
  <2>3. Homes!Reloaded(index)
    BY <2>2, LustreReads
  <2> QED BY <2>1, <2>2, <2>3, Restarted
<1> QED BY <1>1, <1>2, <1>3, <1>4 DEF LustreNext

-----------------------------------------------------------------------------
LEMMA InitHomes == AnyInit => HomesInv /\ Homes!Init
<1> SUFFICES ASSUME AnyInit PROVE HomesInv /\ Homes!Init
  OBVIOUS
<1>1. InitMaps
  BY DEF AnyInit, LlmdInit, DynInit, ScriptInit, LustreInit
<1>2. may \in Scenarios /\ index = Absent /\ index \in HomeMaps
  BY <1>1, AbsentTyped DEF InitMaps
<1>3. tier \in HomeMaps /\ Homes!Reloaded(tier)
  <2>1. CASE \E file \in may.existing : tier = LlmdLoads(file)
    BY <1>2, <2>1, LlmdReads
  <2>2. CASE \E file \in may.existing : tier = DynLoads(file)
    BY <1>2, <2>2, DynReads
  <2>3. CASE tier = Absent
    BY <1>2, <2>3, LustreReads
  <2> QED BY <2>1, <2>2, <2>3 DEF AnyInit, LlmdInit, DynInit, ScriptInit, LustreInit
<1>4. MapsTyped
  BY <1>1, <1>2, <1>3, AbsentTyped DEF InitMaps, MapsTyped, Backends
<1>5. IndexWithin /\ OneHome /\ resetting = "no"
  BY <1>1 DEF InitMaps, IndexWithin, OneHome, Absent
<1>6. Homes!Init
  BY <1>2, <1>3 DEF Homes!Init, Homes!Nowhere, Absent
<1> QED BY <1>4, <1>5, <1>6 DEF HomesInv

LEMMA StepHomes == HomesInv /\ [AnyNext]_vars => Kept
<1>1. HomesInv /\ UNCHANGED vars => Kept
  BY Elsewhere DEF vars, places
<1> QED BY <1>1, LlmdKeeps, DynKeeps, ScriptKeeps, LustreKeeps DEF AnyNext

(* RoutersKeepHomes: KeepsHomes for every router and any number of sessions,  *)
(* requests, resets and restarts: a session that has a home in the KV tier    *)
(* keeps it until a reset clears the tier, and a restart moves none that was  *)
(* saved, whatever the other router's index file holds.                      *)
THEOREM RoutersKeepHomes == AnySpec => KeepsHomes
BY InitHomes, StepHomes, PTL DEF AnySpec, Kept, KeepsHomes, Homes!Spec

(* ServedAtHome: OneHome for every router and any number of them: outside     *)
(* stage 1 of the Dynamo router, a session that is active in a run is served  *)
(* by the backend that holds its blocks.                                      *)
THEOREM ServedAtHome == AnySpec => []OneHome
<1>1. HomesInv => OneHome
  BY DEF HomesInv
<1> QED BY <1>1, InitHomes, StepHomes, PTL DEF AnySpec, Kept

(* IndexNeverMoves: IndexAgrees for every router and any number of them: the   *)
(* index file never names another backend than the running router's tier.     *)
THEOREM IndexNeverMoves == AnySpec => []IndexAgrees
<1>1. HomesInv => IndexAgrees
  BY DEF HomesInv, IndexWithin, IndexAgrees
<1> QED BY <1>1, InitHomes, StepHomes, PTL DEF AnySpec, Kept
=============================================================================
