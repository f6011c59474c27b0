--------------------------- MODULE ExternalsProofs ----------------------------
(*****************************************************************************)
(* What the application talks to, for every number of processes, requests,   *)
(* callers and faults: the proxy of the Codex backend (ModelBackend), the    *)
(* child of the device login (CodexLogin), the alerts to the admins          *)
(* (AdminAlerts), the GitHub App (Connectors), the session with Memra        *)
(* (MemraSession).                                                           *)
(*****************************************************************************)
EXTENDS ModelBackend, CodexLogin, AdminAlerts, Connectors, MemraSession, TLAPS, FiniteSetTheorems

-----------------------------------------------------------------------------
(* The proxy                                                               *)

\* The inductive invariant: a live proxy is the child, a spared one or the stranger's; only
\* start() or a respawning supervisor spawns; a child that is alive is replaced after
\* the long window alone; and a supervisor that was waiting, or waited for its child, when
\* stop() ran starts nothing more.
RespawnOK == spawn \in {"check", "kill"} /\ app # "starting" /\ misses < HungThreshold => ~ProcAlive
StoppedOK == app = "stopped" /\ ~late =>
               /\ stopping /\ spawn \in {"idle", "wait"} /\ child = "none"
               /\ \A p \in Proc \ {Stranger} : Alive(p) => p \in spared
SpawnerOK == (app = "new" => spawn = "idle" /\ watch = "off") /\ (watch = "waiting" => spawn = "idle")

BackendInv == BackendTypeOK /\ NoneForgotten /\ ChildIsSpared /\ RespawnOK /\ StoppedOK /\ SpawnerOK

LEMMA InitBackend == ASSUME BackendInit PROVE BackendInv
<1>1. PICK h \in {"none", "up", "slow"} : health = [p \in Proc |-> IF p = Stranger THEN h ELSE "none"]
  BY DEF BackendInit
<1>2. health \in [Proc -> {"none", "booting", "up", "slow", "exited"}] /\ \A p \in Proc : Alive(p) => p = Stranger
  BY <1>1 DEF Alive
<1>3. /\ child = "none" /\ spawn = "idle" /\ watch = "off" /\ misses = 0 /\ app = "new" /\ slowed = 0
      /\ hasty = {} /\ spared = {} /\ stopping \in BOOLEAN /\ late \in BOOLEAN
  BY DEF BackendInit
<1>4. BackendTypeOK
  BY <1>2, <1>3, BackendAssumption DEF BackendTypeOK
<1> QED
  BY <1>2, <1>3, <1>4 DEF BackendInv, NoneForgotten, ChildIsSpared, RespawnOK, StoppedOK, SpawnerOK

\* What killing does.
LEMMA KilledProxies ==
  ASSUME BackendTypeOK, NEW gone
  PROVE  /\ Killed(gone) \in [Proc -> {"none", "booting", "up", "slow", "exited"}]
         /\ \A p \in Proc : Killed(gone)[p] = IF p \in gone /\ Alive(p) THEN "exited" ELSE health[p]
BY DEF Killed, BackendTypeOK

\* Steps after which no process is alive that was not, and the manager has done nothing.
LEMMA NothingNew ==
  ASSUME BackendInv, BackendTypeOK', \A p \in Proc : Alive(p)' => Alive(p),
         UNCHANGED << child, spawn, watch, misses, stopping, app, hasty, spared, late >>
  PROVE  BackendInv'
<1>1. ProcAlive' => ProcAlive
  BY DEF ProcAlive, BackendInv, BackendTypeOK
<1> QED
  BY <1>1 DEF BackendInv, NoneForgotten, ChildIsSpared, RespawnOK, StoppedOK, SpawnerOK

LEMMA ProxyStep ==
  ASSUME BackendInv, NEW p \in Proc, Binds(p) \/ Slows(p) \/ Answers(p) \/ Exits(p)
  PROVE  BackendInv'
<1>1. BackendTypeOK
  BY DEF BackendInv
<1>2. PICK h \in {"up", "slow", "exited"} : health' = [health EXCEPT ![p] = h]
  BY DEF Binds, Slows, Answers, Exits
<1>3. health' \in [Proc -> {"none", "booting", "up", "slow", "exited"}]
  BY <1>1, <1>2 DEF BackendTypeOK
<1>4. Alive(p) /\ \A q \in Proc : health'[q] = IF q = p THEN h ELSE health[q]
  BY <1>1, <1>2 DEF Binds, Slows, Answers, Exits, Alive, BackendTypeOK
<1>5. UNCHANGED << child, spawn, watch, misses, stopping, app, hasty, spared, late >>
  BY DEF Binds, Slows, Answers, Exits
<1>6. slowed' \in 0 .. MaxSlow
  BY <1>1, BackendAssumption DEF Binds, Slows, Answers, Exits, BackendTypeOK
<1>7. BackendTypeOK'
  BY <1>1, <1>3, <1>5, <1>6 DEF BackendTypeOK
<1>8. \A q \in Proc : Alive(q)' => Alive(q)
  BY <1>4 DEF Alive
<1> QED
  BY <1>5, <1>7, <1>8, NothingNew

\* A spawn that ends leaves the processes as they are.
LEMMA SpawnEnds ==
  ASSUME BackendInv, StartSucceeds \/ StartFails, spawn # "idle", UNCHANGED << health, child, stopping, slowed, hasty, spared, late >>
  PROVE  BackendInv'
<1>1. BackendTypeOK
  BY DEF BackendInv
<1>2. spawn' = "idle" /\ watch' \in {watch, "waiting"} /\ misses' \in {0, misses} /\ app # "new"
      /\ app' \in {app, "running", "failed"}
  BY DEF StartSucceeds, StartFails, BackendInv, SpawnerOK
<1>3. BackendTypeOK'
  BY <1>1, <1>2, BackendAssumption DEF BackendTypeOK
<1>4. \A p \in Proc : Alive(p)' <=> Alive(p)
  BY DEF Alive
<1>5. app' = "stopped" => app = "stopped"
  BY <1>2
<1> QED
  BY <1>2, <1>3, <1>4, <1>5 DEF BackendInv, NoneForgotten, ChildIsSpared, RespawnOK, StoppedOK, SpawnerOK

\* What the supervisor kills early is no child of the manager's.
LEMMA KillsOthers ==
  ASSUME BackendInv, spawn = "kill", NEW gone, KillPort(gone)
  PROVE  /\ gone \subseteq Proc /\ hasty' \subseteq {Stranger} \union spared
         /\ hasty' \subseteq Proc
<1>1. gone \subseteq Proc /\ \A p \in gone : Alive(p)
  BY DEF KillPort, HasPort, Alive
<1>2. CASE app # "starting" /\ misses < HungThreshold
  <2>1. ~ProcAlive
    BY <1>2 DEF BackendInv, RespawnOK
  <2>2. \A p \in gone : p # child
    BY <1>1, <2>1, BackendAssumption DEF ProcAlive
  <2>3. gone \subseteq {Stranger} \union spared
    BY <1>1, <2>2 DEF BackendInv, NoneForgotten
  <2> QED
    BY <1>1, <1>2, <2>3 DEF KillPort, BackendInv, ChildIsSpared, BackendTypeOK
<1>3. CASE ~(app # "starting" /\ misses < HungThreshold)
  BY <1>1, <1>3 DEF KillPort, BackendInv, ChildIsSpared, BackendTypeOK
<1> QED
  BY <1>2, <1>3

LEMMA SpawnKillsStep == ASSUME BackendInv, SpawnKills PROVE BackendInv'
<1>1. BackendTypeOK
  BY DEF BackendInv
<1>2. PICK gone \in SUBSET Proc, p \in Fresh :
        /\ KillPort(gone)
        /\ health' = [Killed(gone) EXCEPT ![p] = "booting"] /\ child' = p
        /\ spared' = spared \union {q \in {child} \ {"none"} : Alive(q) /\ q \notin gone}
  BY DEF SpawnKills
<1>3. p \in Proc /\ p # Stranger /\ p # "none"
  BY <1>2, BackendAssumption DEF Fresh
<1>4. /\ health' \in [Proc -> {"none", "booting", "up", "slow", "exited"}]
      /\ \A q \in Proc : health'[q] = IF q = p THEN "booting" ELSE IF q \in gone /\ Alive(q) THEN "exited" ELSE health[q]
  BY <1>1, <1>2, <1>3, KilledProxies
<1>5. spared \subseteq spared' /\ spared' \subseteq Proc \ {Stranger}
  BY <1>1, <1>2 DEF BackendTypeOK
<1>6. spawn = "kill" /\ spawn' = "wait" /\ UNCHANGED <<watch, misses, stopping, app, slowed, late>>
  BY DEF SpawnKills
<1>7. hasty' \subseteq {Stranger} \union spared /\ hasty' \subseteq Proc
  BY <1>2, <1>6, KillsOthers
<1>8. BackendTypeOK'
  BY <1>1, <1>2, <1>3, <1>4, <1>5, <1>6, <1>7 DEF BackendTypeOK
<1>9. NoneForgotten'
  <2>1. ASSUME NEW q \in Proc \ {Stranger}, Alive(q)', q # p PROVE q \in spared'
    <3>1. Alive(q) /\ q \notin gone
      BY <1>4, <2>1 DEF Alive
    <3>2. q = child \/ q \in spared
      BY <3>1 DEF BackendInv, NoneForgotten
    <3> QED
      BY <1>2, <3>1, <3>2, BackendAssumption
  <2> QED
    BY <1>2, <2>1 DEF NoneForgotten
<1>10. ChildIsSpared'
  BY <1>5, <1>7 DEF ChildIsSpared
<1> QED
  BY <1>6, <1>8, <1>9, <1>10 DEF BackendInv, RespawnOK, StoppedOK, SpawnerOK

LEMMA PopenRaisesStep == ASSUME BackendInv, PopenRaises PROVE BackendInv'
<1>1. BackendTypeOK
  BY DEF BackendInv
<1>2. PICK gone \in SUBSET Proc : KillPort(gone) /\ health' = Killed(gone)
  BY DEF PopenRaises
<1>3. /\ health' \in [Proc -> {"none", "booting", "up", "slow", "exited"}]
      /\ \A q \in Proc : health'[q] = IF q \in gone /\ Alive(q) THEN "exited" ELSE health[q]
  BY <1>1, <1>2, KilledProxies
<1>4. spawn = "kill" /\ StartFails /\ UNCHANGED <<child, stopping, slowed, spared, late>>
  BY DEF PopenRaises
<1>5. spawn' = "idle" /\ watch' \in {watch, "waiting"} /\ misses' = misses /\ app # "new" /\ app' \in {app, "failed"}
  BY <1>4 DEF StartFails, BackendInv, SpawnerOK
<1>6. hasty' \subseteq {Stranger} \union spared /\ hasty' \subseteq Proc
  BY <1>2, <1>4, KillsOthers
<1>7. BackendTypeOK'
  BY <1>1, <1>3, <1>4, <1>5, <1>6 DEF BackendTypeOK
<1>8. \A q \in Proc : Alive(q)' => Alive(q)
  BY <1>3 DEF Alive
<1>9. NoneForgotten' /\ ChildIsSpared'
  BY <1>4, <1>6, <1>8 DEF BackendInv, NoneForgotten, ChildIsSpared
<1>10. app = "stopped" /\ ~late => FALSE
  BY <1>4 DEF BackendInv, StoppedOK
<1> QED
  BY <1>4, <1>5, <1>7, <1>9, <1>10 DEF BackendInv, RespawnOK, StoppedOK, SpawnerOK

LEMMA StopStep == ASSUME BackendInv, Stop PROVE BackendInv'
<1>1. BackendTypeOK
  BY DEF BackendInv
<1>2. /\ app = "running" /\ child' = "none" /\ stopping' = TRUE /\ app' = "stopped"
      /\ UNCHANGED << spawn, watch, misses, slowed, hasty, spared >>
  BY DEF Stop
<1>3. /\ health' \in [Proc -> {"none", "booting", "up", "slow", "exited"}]
      /\ \A p \in Proc : health'[p] = IF p \in {child} \ {"none"} /\ Alive(p) THEN "exited" ELSE health[p]
  BY <1>1, KilledProxies DEF Stop
<1>4. /\ late' \in BOOLEAN /\ stopping' \in BOOLEAN
      /\ ~late' => spawn \notin {"check", "kill"}
  <2>1. late' = (spawn \in {"check", "kill"})
    BY DEF Stop
  <2>2. late' \in BOOLEAN
    BY <2>1
  <2>3. stopping' \in BOOLEAN
    BY <1>2
  <2>4. ~late' => spawn \notin {"check", "kill"}
    BY <2>1
  <2> QED
    BY <2>2, <2>3, <2>4
<1>5. BackendTypeOK'
  BY <1>1, <1>2, <1>3, <1>4, BackendAssumption DEF BackendTypeOK
<1>6. \A p \in Proc \ {Stranger} : Alive(p)' => p \in spared'
  <2> SUFFICES ASSUME NEW p \in Proc \ {Stranger}, Alive(p)' PROVE p \in spared
    BY <1>2
  <2>1. Alive(p) /\ p # child
    BY <1>3, BackendAssumption DEF Alive
  <2> QED
    BY <2>1 DEF BackendInv, NoneForgotten
<1>7. ~ProcAlive'
  BY <1>2 DEF ProcAlive
<1>8. ~late' => spawn' \in {"idle", "wait"}
  BY <1>1, <1>2, <1>4 DEF BackendTypeOK
<1>9. ChildIsSpared'
  BY <1>2 DEF BackendInv, ChildIsSpared
<1> QED
  BY <1>2, <1>5, <1>6, <1>7, <1>8, <1>9 DEF BackendInv, NoneForgotten, RespawnOK, StoppedOK, SpawnerOK

LEMMA BackendStep == ASSUME BackendInv, [BackendNext]_backendVars PROVE BackendInv'
<1>1. BackendTypeOK /\ misses \in Nat
  BY DEF BackendInv, BackendTypeOK
<1>2. CASE StartReuses \/ LoopEnds
  <2>1. BackendTypeOK'
    BY <1>1, <1>2 DEF StartReuses, LoopEnds, BackendTypeOK
  <2>2. (\A p \in Proc : Alive(p)' <=> Alive(p)) /\ (ProcAlive' <=> ProcAlive)
    BY <1>2 DEF StartReuses, LoopEnds, Alive, ProcAlive
  <2> QED
    BY <1>2, <2>1, <2>2 DEF StartReuses, LoopEnds, BackendInv, NoneForgotten, ChildIsSpared, RespawnOK, StoppedOK, SpawnerOK
<1>3. CASE StartSpawns
  <2>1. BackendTypeOK'
    BY <1>1, <1>3 DEF StartSpawns, BackendTypeOK
  <2>2. \A p \in Proc : Alive(p)' <=> Alive(p)
    BY <1>3 DEF StartSpawns, Alive
  <2> QED
    BY <1>3, <2>1, <2>2 DEF StartSpawns, BackendInv, NoneForgotten, ChildIsSpared, RespawnOK, StoppedOK, SpawnerOK
<1>4. CASE CheckHealth
  <2>1. misses' \in 0 .. HungThreshold
    BY <1>1, <1>4, BackendAssumption DEF CheckHealth, BackendTypeOK
  <2>2. spawn' \in {spawn, "check"} /\ watch' \in {watch, "respawning"}
        /\ UNCHANGED <<health, child, stopping, app, slowed, hasty, spared, late>>
    BY <1>4 DEF CheckHealth
  <2>3. BackendTypeOK'
    BY <1>1, <2>1, <2>2 DEF BackendTypeOK
  <2>4. (\A p \in Proc : Alive(p)' <=> Alive(p)) /\ (ProcAlive' <=> ProcAlive)
    BY <2>2 DEF Alive, ProcAlive
  <2>5. ~stopping /\ watch = "waiting"
    BY <1>4 DEF CheckHealth
  <2>6. RespawnOK'
    <3>1. CASE IsReady \/ spawn' = spawn
      <4>1. spawn' = spawn
        BY <1>4, <3>1 DEF CheckHealth
      <4>2. spawn = "idle"
        BY <2>5 DEF BackendInv, SpawnerOK
      <4> QED
        BY <4>1, <4>2 DEF RespawnOK
    <3>2. CASE ~IsReady /\ spawn' # spawn
      <4>1. ShouldRespawn(misses', ProcAlive)
        BY <1>4, <3>2 DEF CheckHealth
      <4>2. misses' < HungThreshold => ~ProcAlive
        BY <2>1, <4>1, BackendAssumption DEF ShouldRespawn
      <4> QED
        BY <2>4, <4>2 DEF RespawnOK
    <3> QED
      BY <3>1, <3>2
  <2>7. app = "stopped" /\ ~late => FALSE
    BY <2>5 DEF BackendInv, StoppedOK
  <2>8. app # "new" /\ (watch' = "waiting" => spawn' = "idle")
    BY <1>4, <2>5 DEF CheckHealth, BackendInv, SpawnerOK
  <2> QED
    BY <2>2, <2>3, <2>4, <2>6, <2>7, <2>8 DEF BackendInv, NoneForgotten, ChildIsSpared, StoppedOK, SpawnerOK
<1>5. CASE SpawnChecks
  <2>1. CASE StartSucceeds \/ StartFails
    BY <1>5, <2>1, SpawnEnds DEF SpawnChecks
  <2>2. CASE spawn' = "kill" /\ UNCHANGED <<watch, misses, app>>
    <3>1. BackendTypeOK'
      BY <1>1, <1>5, <2>2 DEF SpawnChecks, BackendTypeOK
    <3>2. (\A p \in Proc : Alive(p)' <=> Alive(p)) /\ (ProcAlive' <=> ProcAlive)
      BY <1>5 DEF SpawnChecks, Alive, ProcAlive
    <3> QED
      BY <1>5, <2>2, <3>1, <3>2 DEF SpawnChecks, BackendInv, NoneForgotten, ChildIsSpared, RespawnOK, StoppedOK, SpawnerOK
  <2> QED
    BY <1>5, <2>1, <2>2 DEF SpawnChecks
<1>6. CASE SpawnWaits
  BY <1>6, SpawnEnds DEF SpawnWaits
<1>7. CASE UNCHANGED backendVars
  BY <1>1, <1>7, NothingNew DEF backendVars, BackendTypeOK, Alive
<1> QED
  BY <1>2, <1>3, <1>4, <1>5, <1>6, <1>7, ProxyStep, SpawnKillsStep, PopenRaisesStep, StopStep DEF BackendNext

\* The state of the supervisor and its processes is consistent in every reachable
\* state.
THEOREM BackendSafety == BackendSpec => []BackendInv
<1>1. BackendInit => BackendInv
  BY InitBackend
<1>2. BackendInv /\ [BackendNext]_backendVars => BackendInv'
  BY BackendStep
<1> QED
  BY <1>1, <1>2, PTL DEF BackendSpec

\* Type correctness of the backend; the stranger's process is never its child.
THEOREM BackendTypes == BackendSpec => []BackendTypeOK
<1>1. BackendInv => BackendTypeOK
  BY DEF BackendInv
<1> QED
  BY <1>1, BackendSafety, PTL

\* Whatever starts raise and whatever kills miss: every proxy that runs is the manager's
\* child or has escaped a kill, stop() ends the child and nothing is started behind it
\* unless the supervisor was about to, and a child that is slow is spared for the long
\* window.  A stop may cross a respawn, and a proxy that was taken over is not spared.
THEOREM NoChildIsStray == BackendSpec => []NoStrayChild
<1>1. BackendInv => NoStrayChild
  BY DEF BackendInv, NoStrayChild, StopEndsIt, StoppedOK
<1> QED
  BY <1>1, BackendSafety, PTL

-----------------------------------------------------------------------------
(* The login                                                               *)

\* A disconnect that has not taken a child yet, or has killed it, holds none.
LoginInv == /\ LoginTypeOK
            /\ \A q \in LoginRequest : loginReq[q] # "kill" => hands[q] = NoChild
            /\ NoStrayLogin

LEMMA InitLogin == ASSUME LoginInit PROVE LoginInv
BY LoginAssumption DEF LoginInit, LoginTypeOK, LoginInv, NoStrayLogin, Polling

\* What killing a child does to the others.
LEMMA KilledChild ==
  ASSUME LoginTypeOK, NEW c
  PROVE  /\ KilledLogin(c) \in [LoginChild -> {"new", "polling", "exited", "reaped"}]
         /\ \A d \in LoginChild : KilledLogin(c)[d] = IF d = c /\ login[d] = "polling" THEN "exited" ELSE login[d]
BY DEF LoginTypeOK, KilledLogin, Polling

LEMMA LoginStep == ASSUME LoginInv, [LoginNext]_loginVars PROVE LoginInv'
<1>0. LoginTypeOK
  BY DEF LoginInv
<1>1. LoginInv' <=> /\ LoginTypeOK'
                    /\ \A q \in LoginRequest : loginReq'[q] # "kill" => hands'[q] = NoChild
                    /\ \A c \in LoginChild : login'[c] = "polling" => c = current' \/ \E q \in LoginRequest : hands'[q] = c
  BY DEF LoginInv, NoStrayLogin, Polling, NoChild
<1>2. /\ \A q \in LoginRequest : loginReq[q] # "kill" => hands[q] = NoChild
      /\ \A c \in LoginChild : login[c] = "polling" => c = current \/ \E q \in LoginRequest : hands[q] = c
  BY DEF LoginInv, NoStrayLogin, Polling
<1>3. LoginFails => loginFaults' \in 0 .. MaxLoginFaults
  BY <1>0, LoginAssumption DEF LoginFails, LoginTypeOK
<1> USE DEF GoesTo
<1>4. ASSUME NEW q \in LoginRequest, CheckLogin(q) \/ Answer(q) \/ Logout(q) \/ LogoutFails(q)
      PROVE  LoginInv'
  <2>1. LoginTypeOK'
    BY <1>0, <1>3, <1>4 DEF CheckLogin, Answer, Logout, LogoutFails, LoginTypeOK
  <2>2. \A o \in LoginRequest : loginReq'[o] = "kill" <=> loginReq[o] = "kill"
    BY <1>0, <1>4 DEF CheckLogin, Answer, Logout, LogoutFails, LoginTypeOK
  <2>3. UNCHANGED << login, current, hands >>
    BY <1>4 DEF CheckLogin, Answer, Logout, LogoutFails
  <2> QED
    BY <1>1, <1>2, <2>1, <2>2, <2>3
<1>5. ASSUME NEW q \in LoginRequest, NEW c \in LoginChild, SpawnLogin(q, c) PROVE LoginInv'
  <2>1. login' = [KilledLogin(current) EXCEPT ![c] = "polling"] /\ current' = c /\ UNCHANGED << hands, loggedIn, loginFaults >>
    BY <1>5 DEF SpawnLogin
  <2>2. login' \in [LoginChild -> {"new", "polling", "exited", "reaped"}]
    BY <1>0, <2>1, KilledChild
  <2>3. \A d \in LoginChild : login'[d] = "polling" => d = c \/ (d # current /\ login[d] = "polling")
    BY <1>0, <2>1, KilledChild
  <2>4. \A o \in LoginRequest : loginReq'[o] = "kill" <=> loginReq[o] = "kill"
    BY <1>0, <1>5 DEF SpawnLogin, LoginTypeOK
  <2>5. LoginTypeOK'
    BY <1>0, <1>5, <2>1, <2>2 DEF SpawnLogin, LoginTypeOK
  <2> QED
    BY <1>1, <1>2, <2>1, <2>3, <2>4, <2>5
<1>6. ASSUME NEW q \in LoginRequest, SpawnFails(q) PROVE LoginInv'
  <2>1. login' = KilledLogin(current) /\ UNCHANGED << current, hands, loggedIn >>
    BY <1>6 DEF SpawnFails
  <2>2. \A d \in LoginChild : login'[d] = "polling" => login[d] = "polling"
    BY <1>0, <2>1, KilledChild
  <2>3. \A o \in LoginRequest : loginReq'[o] = "kill" <=> loginReq[o] = "kill"
    BY <1>0, <1>6 DEF SpawnFails, LoginTypeOK
  <2>4. LoginTypeOK'
    BY <1>0, <1>3, <1>6, <2>1, KilledChild DEF SpawnFails, LoginTypeOK
  <2> QED
    BY <1>1, <1>2, <2>1, <2>2, <2>3, <2>4
<1>7. ASSUME NEW q \in LoginRequest, TakeChild(q) PROVE LoginInv'
  <2>1. /\ \A o \in LoginRequest : /\ hands'[o] = IF o = q THEN current ELSE hands[o]
                              /\ loginReq'[o] = IF o = q THEN "kill" ELSE loginReq[o]
        /\ loginReq[q] = "idle" /\ current' = NoChild /\ UNCHANGED << login, loggedIn, loginFaults >>
    BY <1>0, <1>7 DEF TakeChild, LoginTypeOK
  <2>2. hands[q] = NoChild
    BY <1>2, <2>1
  <2>3. \A c \in LoginChild : login[c] = "polling" => \E o \in LoginRequest : hands'[o] = c
    <3>1. ASSUME NEW c \in LoginChild, NEW o \in LoginRequest, hands[o] = c, c # current PROVE hands'[o] = c
      BY <2>1, <2>2, <3>1, LoginAssumption
    <3> QED
      BY <1>2, <2>1, <3>1
  <2>4. LoginTypeOK'
    BY <1>0, <1>7 DEF TakeChild, LoginTypeOK
  <2> QED
    BY <1>1, <1>2, <2>1, <2>3, <2>4
<1>8. ASSUME NEW q \in LoginRequest, KillChild(q) PROVE LoginInv'
  <2>1. /\ login' = KilledLogin(hands[q]) /\ UNCHANGED << current, loggedIn, loginFaults >>
        /\ \A o \in LoginRequest : /\ hands'[o] = IF o = q THEN NoChild ELSE hands[o]
                              /\ loginReq'[o] = IF o = q THEN "logout" ELSE loginReq[o]
    BY <1>0, <1>8 DEF KillChild, LoginTypeOK
  <2>2. \A d \in LoginChild : login'[d] = "polling" => login[d] = "polling" /\ d # hands[q]
    BY <1>0, <2>1, KilledChild
  <2>3. LoginTypeOK'
    BY <1>0, <1>8, <2>1, KilledChild DEF KillChild, LoginTypeOK
  <2> QED
    BY <1>1, <1>2, <2>1, <2>2, <2>3
<1>9. ASSUME NEW c \in LoginChild, Authorized(c) \/ GivesUp(c) \/ Reap(c) PROVE LoginInv'
  <2>1. /\ UNCHANGED << loginReq, hands, loginFaults >>
        /\ current' = current \/ (current' = NoChild /\ current = c)
        /\ \A d \in LoginChild : login'[d] = "polling" => login[d] = "polling" /\ d # c
    BY <1>0, <1>9 DEF Authorized, GivesUp, Reap, LoginTypeOK
  <2>2. LoginTypeOK'
    BY <1>0, <1>9 DEF Authorized, GivesUp, Reap, LoginTypeOK
  <2> QED
    BY <1>1, <1>2, <2>1, <2>2
<1>10. CASE UNCHANGED loginVars
  <2>1. LoginTypeOK' /\ UNCHANGED << login, current, loginReq, hands >>
    BY <1>0, <1>10 DEF loginVars, LoginTypeOK
  <2> QED
    BY <1>1, <1>2, <2>1
<1> QED
  BY <1>4, <1>5, <1>6, <1>7, <1>8, <1>9, <1>10 DEF LoginNext

\* A login child that can still connect an account is the current one or in the
\* hands of a disconnect that is about to kill it.
THEOREM LoginSafety == LoginSpec => []LoginInv
<1>1. LoginInit => LoginInv
  BY InitLogin
<1>2. LoginInv /\ [LoginNext]_loginVars => LoginInv'
  BY LoginStep
<1> QED
  BY <1>1, <1>2, PTL DEF LoginSpec

\* Type correctness of the login: children, requests and what they hold.
THEOREM LoginTypes == LoginSpec => []LoginTypeOK
<1>1. LoginInv => LoginTypeOK
  BY DEF LoginInv
<1> QED
  BY <1>1, LoginSafety, PTL

\* However starts, ends and disconnects cross, a child that polls is the current
\* one or about to be killed.
THEOREM NoLoginIsStray == LoginSpec => []NoStrayLogin
<1>1. LoginInv => NoStrayLogin
  BY DEF LoginInv
<1> QED
  BY <1>1, LoginSafety, PTL

-----------------------------------------------------------------------------
(* The alerts                                                              *)

\* The property is inductive with the types: a round leaves the set of those it has
\* still to tell only into told or missed, and only a new claim empties these.
AlertInv == AlertTypeOK /\ SilentMeansTold

LEMMA InitAlerts == ASSUME AlertInit PROVE AlertInv
<1>1. Nothing \in [key : AlertKey, to : SUBSET Admin]
  <2>1. (CHOOSE k \in AlertKey : TRUE) \in AlertKey
    BY AlertAssumption
  <2> QED
    BY <2>1 DEF Nothing
<1>2. AlertTypeOK
  BY <1>1, AlertAssumption DEF AlertInit, AlertTypeOK
<1>3. \A k \in AlertKey : ~(quiet[k] > 0)
  BY DEF AlertInit
<1> QED
  BY <1>2, <1>3 DEF AlertInv, SilentMeansTold

\* An alert whose admins are told, or kept from it, by a step of one caller.
LEMMA RoundGoesOn ==
  ASSUME AlertInv, NEW c \in Caller, NEW some \in SUBSET Admin,
         Done(c, some), UNCHANGED quiet,
         told \subseteq told', missed \subseteq missed',
         \A a \in some \cap sending[c].to : << sending[c].key, a >> \in told' \union missed'
  PROVE  SilentMeansTold'
<1>1. /\ sending[c].key \in AlertKey /\ sending[c].to \in SUBSET Admin
      /\ \A d \in Caller : /\ sending'[d].key = sending[d].key
                           /\ sending'[d].to = IF d = c THEN sending[d].to \ some ELSE sending[d].to
  BY DEF AlertInv, AlertTypeOK, Done
<1> SUFFICES ASSUME NEW k \in AlertKey, NEW a \in Admin, quiet[k] > 0
             PROVE  \/ << k, a >> \in told' \union missed'
                    \/ \E d \in Caller : sending'[d].key = k /\ a \in sending'[d].to
  BY DEF SilentMeansTold
<1>2. CASE << k, a >> \in told \union missed
  BY <1>2
<1>3. ASSUME NEW d \in Caller, sending[d].key = k, a \in sending[d].to
      PROVE  \/ << k, a >> \in told' \union missed'
             \/ sending'[d].key = k /\ a \in sending'[d].to
  BY <1>1, <1>3
<1> QED
  BY <1>2, <1>3 DEF AlertInv, SilentMeansTold

LEMMA RoundKeepsTypes ==
  ASSUME AlertTypeOK, NEW c \in Caller, NEW some, Done(c, some)
  PROVE  sending' \in [Caller -> [key : AlertKey, to : SUBSET Admin]]
<1>1. sending[c] \in [key : AlertKey, to : SUBSET Admin]
  BY DEF AlertTypeOK
<1>2. [sending[c] EXCEPT !.to = @ \ some] \in [key : AlertKey, to : SUBSET Admin]
  BY <1>1
<1>3. sending' = [sending EXCEPT ![c] = [sending[c] EXCEPT !.to = @ \ some]]
  BY DEF Done
<1> QED
  BY <1>2, <1>3 DEF AlertTypeOK

LEMMA AlertStep == ASSUME AlertInv, [AlertNext]_alertVars PROVE AlertInv'
<1>0. AlertTypeOK
  BY DEF AlertInv
<1>1. \A k \in AlertKey, a \in Admin :
        quiet[k] > 0 => \/ << k, a >> \in told \union missed
                        \/ \E c \in Caller : sending[c].key = k /\ a \in sending[c].to
  BY DEF AlertInv, SilentMeansTold
<1>2. AlertFails => alertFaults' \in 0 .. MaxAlertFaults
  BY <1>0, AlertAssumption DEF AlertFails, AlertTypeOK
<1>3. Cooldown \in 0 .. Cooldown
  BY AlertAssumption
<1>4. ASSUME NEW c \in Caller, NEW k \in AlertKey, Claim(c, k) PROVE AlertInv'
  <2>1. /\ sending[c].to = {}
        /\ quiet' \in [AlertKey -> 0 .. Cooldown]
        /\ \A l \in AlertKey : l # k => quiet'[l] = quiet[l]
    BY <1>0, <1>3, <1>4 DEF Claim, AlertTypeOK
  <2>2. /\ sending' \in [Caller -> [key : AlertKey, to : SUBSET Admin]]
        /\ \A d \in Caller : sending'[d] = IF d = c THEN [key |-> k, to |-> Admin] ELSE sending[d]
    BY <1>0, <1>4 DEF Claim, AlertTypeOK
  <2>3. \A l \in AlertKey, a \in Admin : l # k =>
          (<< l, a >> \in told' <=> << l, a >> \in told) /\ (<< l, a >> \in missed' <=> << l, a >> \in missed)
    BY <1>4 DEF Claim, About
  <2>4. AlertTypeOK'
    BY <1>0, <1>4, <2>1, <2>2 DEF Claim, AlertTypeOK
  <2>5. ASSUME NEW a \in Admin
        PROVE \E d \in Caller : sending'[d].key = k /\ a \in sending'[d].to
    BY <2>2
  <2>6. ASSUME NEW l \in AlertKey, l # k, NEW a \in Admin, quiet'[l] > 0
        PROVE \/ << l, a >> \in told' \union missed'
              \/ \E d \in Caller : sending'[d].key = l /\ a \in sending'[d].to
    <3>1. CASE << l, a >> \in told \union missed
      BY <2>3, <2>6, <3>1
    <3>2. ASSUME NEW d \in Caller, sending[d].key = l, a \in sending[d].to
          PROVE sending'[d].key = l /\ a \in sending'[d].to
      BY <2>1, <2>2, <3>2
    <3> QED
      BY <1>1, <2>1, <2>6, <3>1, <3>2
  <2>7. SilentMeansTold'
    BY <2>5, <2>6 DEF SilentMeansTold
  <2> QED
    BY <2>4, <2>7 DEF AlertInv
<1>5. ASSUME NEW c \in Caller, NEW k \in AlertKey, ClaimUnconfigured(c, k) PROVE AlertInv'
  <2>1. /\ quiet' \in [AlertKey -> 0 .. Cooldown]
        /\ \A l \in AlertKey : l # k => quiet'[l] = quiet[l]
    BY <1>0, <1>3, <1>5 DEF ClaimUnconfigured, AlertTypeOK
  <2>2. \A l \in AlertKey, a \in Admin :
          /\ l # k => (<< l, a >> \in told' <=> << l, a >> \in told)
          /\ << l, a >> \in missed' <=> l = k \/ << l, a >> \in missed
    BY <1>5 DEF ClaimUnconfigured, About
  <2>3. AlertTypeOK'
    BY <1>0, <1>2, <1>5, <2>1 DEF ClaimUnconfigured, AlertTypeOK, About
  <2>4. sending' = sending
    BY <1>5 DEF ClaimUnconfigured
  <2>5. SilentMeansTold'
    BY <1>1, <2>1, <2>2, <2>4 DEF SilentMeansTold
  <2> QED
    BY <2>3, <2>5 DEF AlertInv
<1>6. ASSUME NEW c \in Caller, NEW a \in Admin, Send(c, a) \/ SlackRefuses(c, a) PROVE AlertInv'
  <2>1. /\ Done(c, {a}) /\ UNCHANGED quiet /\ a \in sending[c].to
        /\ told \subseteq told' /\ missed \subseteq missed'
        /\ << sending[c].key, a >> \in told' \union missed'
    BY <1>6 DEF Send, SlackRefuses
  <2>2. sending[c].key \in AlertKey
    BY <1>0 DEF AlertTypeOK
  <2>3. told' \in SUBSET (AlertKey \X Admin) /\ missed' \in SUBSET (AlertKey \X Admin) /\ alertFaults' \in 0 .. MaxAlertFaults
    BY <1>0, <1>2, <1>6, <2>2 DEF Send, SlackRefuses, AlertTypeOK
  <2>4. AlertTypeOK'
    BY <1>0, <2>1, <2>3, RoundKeepsTypes DEF AlertTypeOK
  <2>5. SilentMeansTold'
    BY <2>1, RoundGoesOn
  <2> QED
    BY <2>4, <2>5 DEF AlertInv
<1>7. ASSUME NEW c \in Caller, SendRaises(c) PROVE AlertInv'
  <2>1. /\ Done(c, Admin) /\ UNCHANGED << quiet, told >>
        /\ missed' = missed \union ({sending[c].key} \X sending[c].to)
    BY <1>7 DEF SendRaises
  <2>2. sending[c].key \in AlertKey /\ sending[c].to \in SUBSET Admin
    BY <1>0 DEF AlertTypeOK
  <2>3. \A a \in Admin \cap sending[c].to : << sending[c].key, a >> \in missed'
    BY <2>1
  <2>4. AlertTypeOK'
    BY <1>0, <1>2, <1>7, <2>1, <2>2, RoundKeepsTypes DEF SendRaises, AlertTypeOK
  <2>5. SilentMeansTold'
    BY <2>1, <2>3, RoundGoesOn
  <2> QED
    BY <2>4, <2>5 DEF AlertInv
<1>8. CASE AlertTick
  <2>1. \A k \in AlertKey : quiet[k] \in 0 .. Cooldown
    BY <1>0 DEF AlertTypeOK
  <2>2. ASSUME NEW n \in 0 .. Cooldown
        PROVE  /\ (IF n > 0 THEN n - 1 ELSE 0) \in 0 .. Cooldown
               /\ (IF n > 0 THEN n - 1 ELSE 0) > 0 => n > 0
    BY AlertAssumption
  <2>3. /\ quiet' = [k \in AlertKey |-> IF quiet[k] > 0 THEN quiet[k] - 1 ELSE 0]
        /\ UNCHANGED << sending, told, missed, alertFaults >>
    BY <1>8 DEF AlertTick
  <2>4. quiet' \in [AlertKey -> 0 .. Cooldown] /\ \A k \in AlertKey : quiet'[k] > 0 => quiet[k] > 0
    BY <2>1, <2>2, <2>3
  <2>5. AlertTypeOK'
    BY <1>0, <2>3, <2>4 DEF AlertTypeOK
  <2>6. SilentMeansTold'
    BY <1>1, <2>3, <2>4 DEF SilentMeansTold
  <2> QED
    BY <2>5, <2>6 DEF AlertInv
<1>9. CASE UNCHANGED alertVars
  <2>1. UNCHANGED << quiet, sending, told, missed, alertFaults >>
    BY <1>9 DEF alertVars
  <2> QED
    BY <1>0, <1>1, <2>1 DEF AlertInv, AlertTypeOK, SilentMeansTold
<1> QED
  BY <1>4, <1>5, <1>6, <1>7, <1>8, <1>9 DEF AlertNext

\* The keys, the rounds and the admins told agree in every reachable state.
THEOREM AlertSafety == AlertSpec => []AlertInv
<1>1. AlertInit => AlertInv
  BY InitAlerts
<1>2. AlertInv /\ [AlertNext]_alertVars => AlertInv'
  BY AlertStep
<1> QED
  BY <1>1, <1>2, PTL DEF AlertSpec

\* Type correctness of the alerts.
THEOREM AlertTypes == AlertSpec => []AlertTypeOK
<1>1. AlertInv => AlertTypeOK
  BY DEF AlertInv
<1> QED
  BY <1>1, AlertSafety, PTL

\* The throttle hides nothing: while a key is silent every admin has been told of
\* it, is about to be, or could not be told.
THEOREM SilenceIsExplained == AlertSpec => []SilentMeansTold
<1>1. AlertInv => SilentMeansTold
  BY DEF AlertInv
<1> QED
  BY <1>1, AlertSafety, PTL

-----------------------------------------------------------------------------
(* The GitHub App and its tokens                                            *)

Cataloged == {NameOf[b] : b \in Bundle}
ReqRec    == [at : {"idle", "probe", "store", "remove"}, name : AppName, bundle : Bundle \union {NoApp}]
AppCallRec == [at : {"idle", "key", "ask", "mint", "done"}, kind : {"token", "permissions"},
               repo : AppRepo, id : AnApp, key : AnApp, answer : AnApp \union {"raised"},
               cached : BOOLEAN, blind : BOOLEAN, steady : BOOLEAN]
TokenRec  == [app : AnApp, until : Nat, blind : BOOLEAN]

ConnectorTypes ==
  /\ env \in {EnvApp, NoApp}
  /\ bundles \in [AppName -> Bundle \union {NoApp}] /\ codexRow = TRUE
  /\ conReq \in [ConnectorAdmin -> ReqRec]
  /\ appCall \in [AppCall -> AppCallRec]
  /\ minted \in [AppRepo -> TokenRec]
  /\ hours \in Nat \ {0} /\ lastIn \in [AnApp -> 0..hours]

\* What is stored under a name is of that name, and a probe has accepted it.
StoreOK == \A n \in AppName : bundles[n] # NoApp => bundles[n] \in Sound /\ NameOf[bundles[n]] = n

\* So is what is about to be stored; and what is removed is a connector.
AdminOK(q) ==
  /\ q.at \in {"probe", "store"} => q.bundle \in Bundle /\ NameOf[q.bundle] = q.name
  /\ q.at = "store" => q.bundle \in Sound
  /\ q.at = "remove" => q.name \in Cataloged
AdminsOK == \A a \in ConnectorAdmin : AdminOK(conReq[a])

\* A token that is kept was minted for an App that was in force then.
TokenOK(t) ==
  /\ t # NoToken => t.app # NoApp
  /\ t.app # NoApp /\ ~t.blind => LastIn(t.app) > 0 /\ t.until <= LastIn(t.app) + TokenKept
TokensOK == \A r \in AppRepo : TokenOK(minted[r])

\* A call has read an App that is in force at this hour, and that still is when the
\* call is steady; its answer is that App's or that of a kept token.
AppCallOK(c) ==
  /\ c.at # "idle" /\ ~c.blind /\ c.id # NoApp => LastIn(c.id) = hours
  /\ c.at \in {"key", "ask", "mint"} /\ ~c.blind /\ c.steady => c.id = AppInForce
  /\ c.at \in {"ask", "mint"} => c.id # NoApp /\ c.key # NoApp
  /\ c.at \in {"ask", "mint"} /\ ~c.blind /\ c.steady => c.key = AppInForce
  /\ c.at = "key" => c.answer = NoApp
  /\ c.at = "done" /\ c.kind = "token" /\ c.answer \notin {NoApp, "raised"} /\ ~c.blind =>
       LastIn(c.answer) > 0 /\ hours <= LastIn(c.answer) + (IF c.cached THEN TokenKept ELSE 0)
  /\ c.at = "done" /\ ~c.blind /\ c.steady =>
       /\ AppInForce = NoApp => c.answer = NoApp
       /\ AppInForce \in Sound => c.answer \notin {NoApp, "raised"}
AppCallsOK == \A c \in AppCall : AppCallOK(appCall[c])

ConnectorInv == ConnectorTypes /\ StoreOK /\ AdminsOK /\ TokensOK /\ AppCallsOK

LEMMA NamesOfApps ==
  /\ App \in AppName /\ NoApp \in AnApp /\ EnvApp \in AnApp /\ "codex-org" \in AppName
  /\ "raised" \notin AnApp /\ Cataloged \subseteq AppName /\ "codex-org" \notin Cataloged
  /\ \A b \in Bundle : NameOf[b] \in Cataloged /\ b # NoApp
<1>1. \A b \in Bundle : NameOf[b] \in Cataloged /\ b # NoApp /\ b # "raised"
  BY ConnectorAssumption DEF Cataloged
<1>2. App \in Cataloged /\ "codex-org" \notin Cataloged /\ AppName = Cataloged \union {"codex-org"}
  BY ConnectorAssumption DEF AppName, Cataloged
<1>3. "raised" \notin {EnvApp, NoApp}
  BY ConnectorAssumption DEF NoApp
<1>4. NoApp \in AnApp /\ EnvApp \in AnApp /\ "raised" \notin AnApp
  BY <1>1, <1>3 DEF AnApp
<1> QED
  BY <1>1, <1>2, <1>4

LEMMA RestingCall == NoAppCall \in AppCallRec /\ NoAppCall.at = "idle" /\ NoAppCall.answer = NoApp
BY NamesOfApps, ConnectorAssumption DEF NoAppCall, AppCallRec

LEMMA RestingReq == NoReq \in ReqRec /\ NoReq.at = "idle"
BY NamesOfApps DEF NoReq, ReqRec

LEMMA InitConnectors == ASSUME ConnectorInit PROVE ConnectorInv
<1>1. NoToken \in TokenRec /\ NoToken.app = NoApp
  BY NamesOfApps DEF NoToken, TokenRec
<1>2. ConnectorTypes
  BY <1>1, NamesOfApps, RestingCall, RestingReq DEF ConnectorInit, ConnectorTypes
<1>3. StoreOK /\ AdminsOK
  BY RestingReq DEF ConnectorInit, StoreOK, AdminsOK, AdminOK
<1>4. TokensOK /\ AppCallsOK
  BY <1>1, RestingCall DEF ConnectorInit, TokensOK, TokenOK, AppCallsOK, AppCallOK
<1> QED
  BY <1>2, <1>3, <1>4 DEF ConnectorInv

\* The App in force is one, and each App was last in force at an hour that has come.
LEMMA InForce ==
  ASSUME ConnectorTypes, StoreOK
  PROVE  /\ AppInForce \in AnApp
         /\ \A x \in AnApp : LastIn(x) \in 0..hours
         /\ LastIn(AppInForce) = hours
<1>1. AppInForce \in AnApp
  <2>1. CASE bundles[App] # NoApp
    <3>1. bundles[App] \in Bundle /\ NameOf[bundles[App]] = App
      BY <2>1, NamesOfApps DEF ConnectorTypes, StoreOK
    <3> QED
      BY <2>1, <3>1 DEF AppInForce, AnApp
  <2>2. CASE bundles[App] = NoApp
    BY <2>2, NamesOfApps DEF ConnectorTypes, AppInForce
  <2> QED
    BY <2>1, <2>2
<1> QED
  BY <1>1 DEF LastIn, ConnectorTypes

\* A step of a call: what is stored is as it was, and no hour passes.
LEMMA AppCallGoesOn ==
  ASSUME ConnectorInv, NEW c \in AppCall, NEW n \in AppCallRec, appCall' = [appCall EXCEPT ![c] = n], AppCallOK(n),
         UNCHANGED <<env, bundles, codexRow, conReq, lastIn, hours>>,
         minted' \in [AppRepo -> TokenRec], \A r \in AppRepo : minted'[r] = minted[r] \/ TokenOK(minted'[r])
  PROVE  ConnectorInv'
<1>0. ConnectorTypes /\ StoreOK /\ AdminsOK /\ TokensOK /\ AppCallsOK /\ appCall \in [AppCall -> AppCallRec]
  BY DEF ConnectorInv, ConnectorTypes
<1>1. ConnectorTypes' /\ StoreOK' /\ AdminsOK'
  BY <1>0 DEF ConnectorTypes, StoreOK, AdminsOK, AdminOK
<1>2. AppInForce' = AppInForce /\ \A x : LastIn(x)' = LastIn(x)
  BY DEF LastIn, AppInForce
<1>3. TokensOK'
  BY <1>0, <1>2 DEF TokensOK, TokenOK
<1>4. AppCallsOK'
  <2> SUFFICES ASSUME NEW d \in AppCall PROVE AppCallOK(appCall[d])'
    BY DEF AppCallsOK
  <2>1. AppCallOK(appCall'[d])
    BY <1>0 DEF AppCallsOK
  <2> QED
    BY <1>2, <2>1 DEF AppCallOK
<1> QED
  BY <1>1, <1>3, <1>4 DEF ConnectorInv

\* A step of an admin's request that leaves the store alone.
LEMMA AdminGoesOn ==
  ASSUME ConnectorInv, NEW a \in ConnectorAdmin, NEW q \in ReqRec, conReq' = [conReq EXCEPT ![a] = q], AdminOK(q),
         UNCHANGED <<env, bundles, codexRow, appCall, minted, lastIn, hours>>
  PROVE  ConnectorInv'
<1>0. ConnectorTypes /\ StoreOK /\ AdminsOK /\ TokensOK /\ AppCallsOK
  BY DEF ConnectorInv
<1>1. ConnectorTypes' /\ StoreOK' /\ AdminsOK'
  BY <1>0 DEF ConnectorTypes, StoreOK, AdminsOK, AdminOK
<1>2. AppInForce' = AppInForce /\ \A x : LastIn(x)' = LastIn(x)
  BY DEF LastIn, AppInForce
<1> QED
  BY <1>0, <1>1, <1>2 DEF ConnectorInv, TokensOK, TokenOK, AppCallsOK, AppCallOK

\* A change of the store: a connector's row is written or goes.
LEMMA StoreChanges ==
  ASSUME ConnectorInv, NEW a \in ConnectorAdmin, NEW name \in Cataloged, NEW b \in Bundle \union {NoApp},
         b # NoApp => b \in Sound /\ NameOf[b] = name,
         Write(name, b), conReq' = [conReq EXCEPT ![a] = NoReq], UNCHANGED <<env, codexRow, minted, hours>>
  PROVE  ConnectorInv'
<1>0. /\ ConnectorTypes /\ StoreOK /\ AdminsOK /\ TokensOK /\ AppCallsOK
      /\ bundles \in [AppName -> Bundle \union {NoApp}] /\ lastIn \in [AnApp -> 0..hours] /\ hours \in Nat \ {0}
      /\ appCall \in [AppCall -> AppCallRec] /\ minted \in [AppRepo -> TokenRec]
      /\ bundles' = [bundles EXCEPT ![name] = b] /\ lastIn' = [lastIn EXCEPT ![AppInForce] = hours]
      /\ name \in AppName
  BY NamesOfApps DEF ConnectorInv, ConnectorTypes, Write
<1>1. AppInForce \in AnApp /\ \A x \in AnApp : LastIn(x) \in 0..hours
  BY <1>0, InForce
<1>2. bundles' \in [AppName -> Bundle \union {NoApp}] /\ lastIn' \in [AnApp -> 0..hours] /\ StoreOK'
  BY <1>0, <1>1 DEF StoreOK
<1>3. conReq' \in [ConnectorAdmin -> ReqRec] /\ AdminsOK'
  BY <1>0, RestingReq DEF ConnectorTypes, AdminsOK, AdminOK
\* A call keeps what it is at and what it has read; it is steady only if the App is the same.
<1>4. \A c \in AppCall :
        /\ appCall'[c] \in AppCallRec
        /\ appCall'[c].at = appCall[c].at /\ appCall'[c].kind = appCall[c].kind /\ appCall'[c].id = appCall[c].id
        /\ appCall'[c].key = appCall[c].key /\ appCall'[c].answer = appCall[c].answer
        /\ appCall'[c].cached = appCall[c].cached /\ appCall'[c].blind = appCall[c].blind
        /\ appCall[c].at # "idle" /\ appCall'[c].steady => appCall[c].steady /\ bundles[App] = bundles'[App]
  <2>1. CASE bundles[App] = bundles'[App]
    BY <1>0, <2>1 DEF Write
  <2>2. CASE bundles[App] # bundles'[App]
    <3> SUFFICES ASSUME NEW c \in AppCall
                 PROVE  LET n == [appCall[c] EXCEPT !.steady = appCall[c].at = "idle"]
                        IN  /\ n \in AppCallRec
                            /\ n.at = appCall[c].at /\ n.kind = appCall[c].kind /\ n.id = appCall[c].id
                            /\ n.key = appCall[c].key /\ n.answer = appCall[c].answer
                            /\ n.cached = appCall[c].cached /\ n.blind = appCall[c].blind
                            /\ (appCall[c].at # "idle" => ~n.steady)
      BY <2>2 DEF Write
    <3>1. appCall[c] \in AppCallRec
      BY <1>0
    <3> QED
      BY <3>1 DEF AppCallRec
  <2> QED
    BY <2>1, <2>2
<1>5. ConnectorTypes'
  <2>1. appCall' \in [AppCall -> AppCallRec]
    <3>1. DOMAIN appCall' = AppCall /\ appCall' = [c \in AppCall |-> appCall'[c]]
      BY <1>0 DEF Write
    <3> QED
      BY <1>4, <3>1
  <2> QED
    BY <1>0, <1>2, <1>3, <2>1 DEF ConnectorTypes
<1>6. /\ AppInForce' \in AnApp
      /\ \A x \in AnApp : LastIn(x)' \in 0..hours /\ LastIn(x)' >= LastIn(x)
      /\ \A x \in AnApp : LastIn(x) = hours => LastIn(x)' = hours
  <2>1. AppInForce' \in AnApp
    <3>1. CASE bundles'[App] # NoApp
      <4>1. bundles'[App] \in Bundle /\ NameOf[bundles'[App]] = App
        BY <1>2, <3>1, NamesOfApps DEF StoreOK
      <4> QED
        BY <3>1, <4>1 DEF AppInForce, AnApp
    <3>2. CASE bundles'[App] = NoApp
      BY <1>5, <3>2, NamesOfApps DEF ConnectorTypes, AppInForce
    <3> QED
      BY <3>1, <3>2
  <2>2. ASSUME NEW x \in AnApp PROVE LastIn(x)' \in 0..hours /\ LastIn(x)' >= LastIn(x)
    <3>1. CASE x = AppInForce'
      BY <1>0, <1>1, <3>1 DEF LastIn
    <3>2. CASE x # AppInForce' /\ x = AppInForce
      BY <1>0, <1>1, <3>2 DEF LastIn
    <3>3. CASE x # AppInForce' /\ x # AppInForce
      BY <1>0, <1>1, <3>3 DEF LastIn
    <3> QED
      BY <3>1, <3>2, <3>3
  <2> QED
    BY <1>0, <1>1, <2>1, <2>2
<1>7. bundles[App] = bundles'[App] => AppInForce' = AppInForce
  BY DEF AppInForce
<1>8. TokensOK'
  <2> SUFFICES ASSUME NEW r \in AppRepo PROVE TokenOK(minted[r])'
    BY DEF TokensOK
  <2>1. TokenOK(minted[r]) /\ minted[r] \in TokenRec /\ minted[r].app \in AnApp /\ minted[r].until \in Nat
    BY <1>0 DEF TokensOK, TokenRec
  <2> QED
    BY <1>0, <1>1, <1>6, <2>1, ConnectorAssumption DEF TokenOK
<1>9. AppCallsOK'
  <2> SUFFICES ASSUME NEW c \in AppCall PROVE AppCallOK(appCall[c])'
    BY DEF AppCallsOK
  <2>1. /\ AppCallOK(appCall[c]) /\ appCall[c].id \in AnApp
        /\ appCall[c].answer \in AnApp \union {"raised"}
    BY <1>0 DEF AppCallsOK, AppCallRec
  <2>i. PICK id \in AnApp : id = appCall[c].id
    BY <2>1
  <2>a. PICK ans \in AnApp \union {"raised"} : ans = appCall[c].answer
    BY <2>1
  <2>2. ans # "raised" => LastIn(ans)' \in 0..hours /\ LastIn(ans) \in 0..hours /\ LastIn(ans)' >= LastIn(ans)
    BY <1>1, <1>6
  <2>3. appCall[c].at # "idle" /\ ~appCall[c].blind /\ id # NoApp => LastIn(id)' = hours
    BY <1>6, <2>1, <2>i DEF AppCallOK
  <2>4. appCall[c].at = "done" /\ appCall[c].kind = "token" /\ ans \notin {NoApp, "raised"} /\ ~appCall[c].blind =>
          /\ LastIn(ans)' > 0
          /\ hours <= LastIn(ans)' + (IF appCall[c].cached THEN TokenKept ELSE 0)
    <3>1. \A m, n, k \in Nat : m >= n /\ n > 0 /\ hours <= n + k => m > 0 /\ hours <= m + k
      BY <1>0
    <3>2. (IF appCall[c].cached THEN TokenKept ELSE 0) \in Nat
      BY ConnectorAssumption
    <3>3. appCall[c].at = "done" /\ appCall[c].kind = "token" /\ ans \notin {NoApp, "raised"} /\ ~appCall[c].blind =>
            LastIn(ans) > 0 /\ hours <= LastIn(ans) + (IF appCall[c].cached THEN TokenKept ELSE 0)
      BY <2>1, <2>a DEF AppCallOK
    <3> QED
      BY <1>0, <2>2, <3>1, <3>2, <3>3
  <2>5. appCall[c].at # "idle" /\ appCall'[c].steady => appCall[c].steady /\ AppInForce' = AppInForce
    BY <1>4, <1>7
  <2> QED
    BY <1>0, <1>4, <2>1, <2>i, <2>a, <2>3, <2>4, <2>5 DEF AppCallOK
<1> QED
  BY <1>2, <1>3, <1>5, <1>8, <1>9 DEF ConnectorInv

LEMMA ConnectorStep == ASSUME ConnectorInv, [ConnectorNext]_connectorVars PROVE ConnectorInv'
<1>0. /\ ConnectorTypes /\ StoreOK /\ AdminsOK /\ TokensOK /\ AppCallsOK
      /\ conReq \in [ConnectorAdmin -> ReqRec] /\ appCall \in [AppCall -> AppCallRec] /\ minted \in [AppRepo -> TokenRec]
      /\ hours \in Nat \ {0} /\ env \in {EnvApp, NoApp}
  BY DEF ConnectorInv, ConnectorTypes
<1>f. AppInForce \in AnApp /\ (\A x \in AnApp : LastIn(x) \in 0..hours) /\ LastIn(AppInForce) = hours
  BY <1>0, InForce
<1>a. \A a \in ConnectorAdmin : conReq[a] \in ReqRec /\ AdminOK(conReq[a])
  BY <1>0 DEF AdminsOK
<1>c. \A c \in AppCall : appCall[c] \in AppCallRec /\ AppCallOK(appCall[c])
  BY <1>0 DEF AppCallsOK
<1>1. ASSUME NEW a \in ConnectorAdmin, NEW b \in Bundle, AskAdd(a, b) PROVE ConnectorInv'
  <2> DEFINE q == [at |-> "probe", name |-> NameOf[b], bundle |-> b]
  <2>1. q \in ReqRec /\ AdminOK(q)
    BY NamesOfApps DEF ReqRec, AdminOK
  <2>2. conReq' = [conReq EXCEPT ![a] = q] /\ UNCHANGED <<env, bundles, codexRow, appCall, minted, lastIn, hours>>
    BY <1>1 DEF AskAdd
  <2> HIDE DEF q
  <2> QED
    BY <2>1, <2>2, AdminGoesOn
<1>2. ASSUME NEW a \in ConnectorAdmin, NEW n \in AppName, AskRemove(a, n) PROVE ConnectorInv'
  <2> DEFINE q == [NoReq EXCEPT !.at = "remove", !.name = n]
  <2>1. q \in ReqRec /\ q.at = "remove" /\ q.name = n
    BY RestingReq DEF ReqRec
  <2>2. conReq' = [conReq EXCEPT ![a] = q] /\ UNCHANGED <<env, bundles, codexRow, appCall, minted, lastIn, hours>>
    BY <1>2 DEF AskRemove
  <2>3. n \in Cataloged
    <3>1. bundles[n] # NoApp /\ bundles[n] \in Bundle /\ NameOf[bundles[n]] = n
      BY <1>0, <1>2 DEF AskRemove, ConfiguredNames, ConnectorTypes, StoreOK
    <3> QED
      BY <3>1, NamesOfApps
  <2> HIDE DEF q
  <2>4. AdminOK(q)
    BY <2>1, <2>3 DEF AdminOK
  <2> QED
    BY <2>1, <2>2, <2>4, AdminGoesOn
<1>3. ASSUME NEW a \in ConnectorAdmin, Probed(a) PROVE ConnectorInv'
  <2> DEFINE q == [conReq[a] EXCEPT !.at = "store"]
  <2>1. /\ q \in ReqRec /\ q.at = "store" /\ q.name = conReq[a].name /\ q.bundle = conReq[a].bundle
        /\ conReq[a].at = "probe"
    BY <1>3, <1>a DEF ReqRec, Probed
  <2>2. \/ conReq' = [conReq EXCEPT ![a] = q] /\ conReq[a].bundle \in Sound
        \/ conReq' = [conReq EXCEPT ![a] = NoReq]
    BY <1>3 DEF Probed, ProbeAnswers
  <2>3. UNCHANGED <<env, bundles, codexRow, appCall, minted, lastIn, hours>>
    BY <1>3 DEF Probed
  <2> HIDE DEF q
  <2>4. conReq[a].bundle \in Sound => AdminOK(q)
    BY <1>a, <2>1 DEF AdminOK
  <2>5. AdminOK(NoReq)
    BY RestingReq DEF AdminOK
  <2> QED
    BY <2>1, <2>2, <2>3, <2>4, <2>5, RestingReq, AdminGoesOn
<1>4. ASSUME NEW a \in ConnectorAdmin, Store(a) PROVE ConnectorInv'
  <2>1. /\ conReq[a].bundle \in Bundle /\ conReq[a].bundle \in Sound /\ NameOf[conReq[a].bundle] = conReq[a].name
        /\ conReq[a].name \in Cataloged
    BY <1>4, <1>a, NamesOfApps DEF Store, AdminOK
  <2> QED
    BY <1>4, <2>1, StoreChanges DEF Store
<1>5. ASSUME NEW a \in ConnectorAdmin, StoreRaises(a) PROVE ConnectorInv'
  BY <1>5, RestingReq, AdminGoesOn DEF StoreRaises, AdminOK
<1>6. ASSUME NEW a \in ConnectorAdmin, RemoveRow(a) PROVE ConnectorInv'
  <2>1. conReq[a].name \in Cataloged /\ codexRow' = codexRow
    BY <1>0, <1>6, <1>a, NamesOfApps DEF RemoveRow, AdminOK, ConnectorTypes
  <2> QED
    BY <1>6, <2>1, StoreChanges DEF RemoveRow
<1>l. ASSUME NEW blind \in BOOLEAN
      PROVE  Loaded(blind) \in AnApp /\ (~blind => Loaded(blind) = AppInForce)
  BY <1>0, <1>f, NamesOfApps DEF Loaded
<1>7. ASSUME NEW c \in AppCall, NEW kind \in {"token", "permissions"}, NEW r \in AppRepo, NEW blind \in BOOLEAN,
             ReadId(c, kind, r, blind)
      PROVE  ConnectorInv'
  <2> DEFINE n == [NoAppCall EXCEPT !.at = "key", !.kind = kind, !.repo = r, !.id = Loaded(blind), !.blind = blind]
  <2>1. appCall' = [appCall EXCEPT ![c] = n] /\ UNCHANGED <<env, bundles, codexRow, conReq, minted, lastIn, hours>>
    BY <1>7 DEF ReadId
  <2>2. n \in AppCallRec /\ n.at = "key" /\ n.id = Loaded(blind) /\ n.blind = blind /\ n.answer = NoAppCall.answer
    BY <1>l, RestingCall DEF AppCallRec
  <2> HIDE DEF n
  <2>3. AppCallOK(n)
    BY <1>f, <1>l, <2>2, RestingCall DEF AppCallOK
  <2> QED
    BY <1>0, <2>1, <2>2, <2>3, AppCallGoesOn
<1>8. ASSUME NEW c \in AppCall, NEW blind \in BOOLEAN, ReadKey(c, blind) PROVE ConnectorInv'
  <2> DEFINE at == IF NoApp \in {appCall[c].id, Loaded(blind)} THEN "done" ELSE "ask"
             n  == [appCall[c] EXCEPT !.key = Loaded(blind), !.blind = @ \/ blind, !.at = at]
  <2>1. /\ appCall' = [appCall EXCEPT ![c] = n] /\ UNCHANGED <<env, bundles, codexRow, conReq, minted, lastIn, hours>>
        /\ appCall[c].at = "key"
    BY <1>0, <1>8 DEF ReadKey
  <2>2. at \in {"done", "ask"} /\ (at = "done" <=> NoApp \in {appCall[c].id, Loaded(blind)})
    OBVIOUS
  <2> HIDE DEF at
  <2>3. /\ n \in AppCallRec /\ n.at = at /\ n.id = appCall[c].id /\ n.key = Loaded(blind) /\ n.kind = appCall[c].kind
        /\ n.answer = appCall[c].answer /\ n.steady = appCall[c].steady /\ (~n.blind => ~appCall[c].blind /\ ~blind)
    <3>1. appCall[c] \in AppCallRec /\ Loaded(blind) \in AnApp
      BY <1>c, <1>l
    <3>2. n \in AppCallRec
      BY <2>2, <3>1 DEF AppCallRec
    <3>3. n.at = at /\ n.id = appCall[c].id /\ n.key = Loaded(blind) /\ n.kind = appCall[c].kind
      BY <3>1 DEF AppCallRec
    <3>4. n.answer = appCall[c].answer /\ n.steady = appCall[c].steady /\ n.blind = (appCall[c].blind \/ blind)
      BY <3>1 DEF AppCallRec
    <3> HIDE DEF n
    <3> QED
      BY <3>2, <3>3, <3>4
  <2> HIDE DEF n
  <2>4. AppCallOK(n)
    <3>1. /\ ~appCall[c].blind /\ appCall[c].id # NoApp => LastIn(appCall[c].id) = hours
          /\ ~appCall[c].blind /\ appCall[c].steady => appCall[c].id = AppInForce
          /\ appCall[c].answer = NoApp
      BY <1>c, <2>1 DEF AppCallOK
    <3>2. n.at = "done" /\ ~n.blind /\ n.steady => AppInForce = NoApp
      BY <1>l, <2>2, <2>3, <3>1
    <3> QED
      BY <1>l, <2>2, <2>3, <3>1, <3>2, ConnectorAssumption DEF AppCallOK
  <2> QED
    BY <1>0, <2>1, <2>3, <2>4, AppCallGoesOn
\* A call that is answered, with a token that is kept or not.
<1>9. ASSUME NEW c \in AppCall, appCall[c].at \in {"ask", "mint"}, NEW n \in AppCallRec, n.at = "done",
             n.kind = appCall[c].kind, n.id = appCall[c].id, ~n.blind => ~appCall[c].blind, n.steady = appCall[c].steady,
             appCall' = [appCall EXCEPT ![c] = n], UNCHANGED <<env, bundles, codexRow, conReq, lastIn, hours>>,
             minted' \in [AppRepo -> TokenRec], \A r \in AppRepo : minted'[r] = minted[r] \/ TokenOK(minted'[r]),
             ~n.blind => \/ n.answer = appCall[c].id
                         \/ /\ n.cached /\ n.answer # NoApp /\ n.answer # "raised"
                            /\ LastIn(n.answer) > 0 /\ hours <= LastIn(n.answer) + TokenKept
                         \/ n.answer \in {NoApp, "raised"} /\ ~Valid(c) /\ (n.answer = "raised" \/ n.kind # "token")
      PROVE  ConnectorInv'
  <2>1. AppCallOK(n)
    <3>1. /\ ~n.blind => LastIn(n.id) = hours
          /\ ~n.blind /\ n.steady => n.id = AppInForce /\ appCall[c].key = AppInForce
          /\ n.id # NoApp /\ n.id \in AnApp
      BY <1>9, <1>c DEF AppCallOK, AppCallRec
    <3>2. hours > 0 /\ hours <= hours + (IF n.cached THEN TokenKept ELSE 0)
      BY <1>0, ConnectorAssumption
    <3>3. ~n.blind /\ n.answer \notin {NoApp, "raised"} =>
            LastIn(n.answer) > 0 /\ hours <= LastIn(n.answer) + (IF n.cached THEN TokenKept ELSE 0)
      <4> SUFFICES ASSUME ~n.blind, n.answer \notin {NoApp, "raised"}
                   PROVE  LastIn(n.answer) > 0 /\ hours <= LastIn(n.answer) + (IF n.cached THEN TokenKept ELSE 0)
        OBVIOUS
      <4>1. CASE n.answer = appCall[c].id
        BY <1>9, <3>1, <3>2, <4>1
      <4>2. CASE n.cached /\ LastIn(n.answer) > 0 /\ hours <= LastIn(n.answer) + TokenKept
        BY <4>2
      <4> QED
        BY <1>9, <4>1, <4>2
    <3>4. ~n.blind /\ n.steady =>
            /\ AppInForce # NoApp
            /\ AppInForce \in Sound => n.answer \notin {NoApp, "raised"}
      BY <1>9, <3>1, NamesOfApps DEF Valid
    <3> QED
      BY <1>9, <3>1, <3>3, <3>4 DEF AppCallOK
  <2> QED
    BY <1>9, <2>1, AppCallGoesOn
<1>10. ASSUME NEW c \in AppCall, LookUp(c) PROVE ConnectorInv'
  <2> DEFINE token == minted[appCall[c].repo]
             m == [appCall[c] EXCEPT !.at = "mint"]
             n == [Finish(c, token.app) EXCEPT !.cached = TRUE, !.blind = @ \/ token.blind]
  <2>1. /\ appCall[c].at = "ask" /\ appCall[c].kind = "token"
        /\ UNCHANGED <<env, bundles, codexRow, conReq, minted, lastIn, hours>>
        /\ appCall' = [appCall EXCEPT ![c] = IF TokenFresh(appCall[c].repo) THEN n ELSE m]
    BY <1>10 DEF LookUp
  <2>2. token \in TokenRec /\ TokenOK(token) /\ token.app \in AnApp /\ token.until \in Nat /\ token.blind \in BOOLEAN
    BY <1>0, <1>c DEF TokensOK, TokenRec, AppCallRec
  <2>3. TokenFresh(appCall[c].repo) => token # NoToken /\ hours < token.until
    BY DEF TokenFresh
  <2>4. CASE ~TokenFresh(appCall[c].repo)
    <3>1. appCall' = [appCall EXCEPT ![c] = m]
      BY <2>1, <2>4
    <3>2. /\ m \in AppCallRec /\ m.at = "mint" /\ m.id = appCall[c].id /\ m.key = appCall[c].key
          /\ m.blind = appCall[c].blind /\ m.steady = appCall[c].steady
      BY <1>c DEF AppCallRec
    <3> HIDE DEF m, n, token
    <3>3. AppCallOK(m)
      BY <1>c, <2>1, <3>2 DEF AppCallOK
    <3> QED
      BY <1>0, <2>1, <3>1, <3>2, <3>3, AppCallGoesOn
  <2>5. CASE TokenFresh(appCall[c].repo)
    <3>1. appCall' = [appCall EXCEPT ![c] = n]
      BY <2>1, <2>5
    <3> HIDE DEF token
    <3>2. /\ n \in AppCallRec /\ n.at = "done" /\ n.kind = appCall[c].kind /\ n.id = appCall[c].id
          /\ n.answer = token.app /\ n.cached = TRUE /\ n.steady = appCall[c].steady
          /\ n.blind = (appCall[c].blind \/ token.blind)
      BY <1>c, <2>2 DEF AppCallRec, Finish
    <3> HIDE DEF m, n
    <3>3. token.app # NoApp /\ token.app # "raised"
      BY <2>2, <2>3, <2>5, NamesOfApps DEF TokenOK
    <3>4. ~token.blind => LastIn(token.app) > 0 /\ hours <= LastIn(token.app) + TokenKept
      <4>1. ~token.blind => LastIn(token.app) > 0 /\ token.until <= LastIn(token.app) + TokenKept
        BY <2>2, <3>3 DEF TokenOK
      <4>2. LastIn(token.app) \in Nat
        BY <1>0, <1>f, <2>2
      <4> QED
        BY <1>0, <2>2, <2>3, <2>5, <4>1, <4>2, ConnectorAssumption
    <3>5. ~n.blind => ~token.blind
      BY <3>2, Zenon
    <3>6. ~n.blind => ~appCall[c].blind
      BY <3>2, Zenon
    <3>7. ~n.blind => /\ n.cached /\ n.answer # NoApp /\ n.answer # "raised"
                      /\ LastIn(n.answer) > 0 /\ hours <= LastIn(n.answer) + TokenKept
      BY <3>2, <3>3, <3>4, <3>5
    <3>8. minted' \in [AppRepo -> TokenRec] /\ \A r \in AppRepo : minted'[r] = minted[r]
      BY <1>0, <2>1
    <3>9. appCall[c].at \in {"ask", "mint"}
      BY <2>1
    <3> QED
      BY <1>9, <2>1, <3>1, <3>2, <3>6, <3>7, <3>8, <3>9
  <2> QED
    BY <2>4, <2>5
<1>r. ASSUME NEW c \in AppCall, NEW answer \in AnApp \union {"raised"}
      PROVE  /\ Finish(c, answer) \in AppCallRec /\ Finish(c, answer).at = "done"
             /\ Finish(c, answer).kind = appCall[c].kind /\ Finish(c, answer).id = appCall[c].id
             /\ Finish(c, answer).answer = answer /\ Finish(c, answer).cached = appCall[c].cached
             /\ Finish(c, answer).blind = appCall[c].blind /\ Finish(c, answer).steady = appCall[c].steady
             /\ appCall[c].cached \in BOOLEAN /\ appCall[c].blind \in BOOLEAN
  BY <1>c, <1>r DEF AppCallRec, Finish
<1>11. ASSUME NEW c \in AppCall, Mint(c) PROVE ConnectorInv'
  <2> DEFINE t == [app |-> appCall[c].id, until |-> hours + TokenKept, blind |-> appCall[c].blind]
  <2>1. /\ appCall[c].at = "mint" /\ Valid(c) /\ minted' = [minted EXCEPT ![appCall[c].repo] = t]
        /\ appCall' = [appCall EXCEPT ![c] = Finish(c, appCall[c].id)]
        /\ UNCHANGED <<env, bundles, codexRow, conReq, lastIn, hours>>
    BY <1>11 DEF Mint
  <2>2. appCall[c].id \in AnApp /\ appCall[c].id # NoApp /\ appCall[c].repo \in AppRepo /\ appCall[c].blind \in BOOLEAN
    BY <1>c, <2>1 DEF AppCallRec, AppCallOK
  <2>3. t \in TokenRec /\ t.app = appCall[c].id /\ t.until = hours + TokenKept /\ t.blind = appCall[c].blind
    BY <1>0, <2>2, ConnectorAssumption DEF TokenRec
  <2> HIDE DEF t
  <2>4. TokenOK(t)
    <3>1. ~t.blind => LastIn(t.app) = hours
      BY <1>c, <2>1, <2>2, <2>3 DEF AppCallOK
    <3>2. hours > 0 /\ hours \in Nat
      BY <1>0
    <3>3. ~t.blind => LastIn(t.app) > 0 /\ t.until <= LastIn(t.app) + TokenKept
      BY <2>3, <3>1, <3>2, ConnectorAssumption
    <3> QED
      BY <2>2, <2>3, <3>3 DEF TokenOK
  <2>5. minted' \in [AppRepo -> TokenRec] /\ \A r \in AppRepo : minted'[r] = minted[r] \/ TokenOK(minted'[r])
    BY <1>0, <2>1, <2>2, <2>3, <2>4
  <2>6. PICK n : n = Finish(c, appCall[c].id)
    OBVIOUS
  <2>7. /\ n \in AppCallRec /\ n.at = "done" /\ n.kind = appCall[c].kind /\ n.id = appCall[c].id
        /\ n.answer = appCall[c].id /\ n.steady = appCall[c].steady
        /\ n.blind = appCall[c].blind
    BY <1>r, <2>2, <2>6
  <2>8. appCall' = [appCall EXCEPT ![c] = n] /\ appCall[c].at \in {"ask", "mint"}
    BY <2>1, <2>6
  <2>9. UNCHANGED <<env, bundles, codexRow, conReq, lastIn, hours>>
    BY <2>1
  <2> QED
    BY <1>9, <2>2, <2>5, <2>7, <2>8, <2>9
\* A call that is refused, or answered without a token.
<1>12. ASSUME NEW c \in AppCall, MintRefused(c) \/ AskPermissions(c) PROVE ConnectorInv'
  <2> DEFINE answer == IF MintRefused(c) THEN "raised" ELSE IF Valid(c) THEN appCall[c].id ELSE NoApp
  <2>1. /\ appCall[c].at \in {"ask", "mint"} /\ appCall' = [appCall EXCEPT ![c] = Finish(c, answer)]
        /\ UNCHANGED <<env, bundles, codexRow, conReq, minted, lastIn, hours>>
    BY <1>12 DEF MintRefused, AskPermissions
  <2>2. answer \in AnApp \union {"raised"}
    BY <1>c, NamesOfApps DEF AppCallRec
  <2>3. answer = appCall[c].id \/ (answer \in {NoApp, "raised"} /\ ~Valid(c) /\ (answer = "raised" \/ appCall[c].kind # "token"))
    BY <1>12 DEF MintRefused, AskPermissions
  <2> HIDE DEF answer
  <2>4. PICK n : n = Finish(c, answer)
    OBVIOUS
  <2>5. /\ n \in AppCallRec /\ n.at = "done" /\ n.kind = appCall[c].kind /\ n.id = appCall[c].id
        /\ n.answer = answer /\ n.steady = appCall[c].steady
        /\ n.blind = appCall[c].blind
    BY <1>r, <2>2, <2>4
  <2>6. appCall' = [appCall EXCEPT ![c] = n]
    BY <2>1, <2>4
  <2>7. \/ n.answer = appCall[c].id
        \/ n.answer \in {NoApp, "raised"} /\ ~Valid(c) /\ (n.answer = "raised" \/ n.kind # "token")
    BY <2>3, <2>5
  <2>8. /\ UNCHANGED <<env, bundles, codexRow, conReq, lastIn, hours>> /\ minted' \in [AppRepo -> TokenRec]
        /\ \A r \in AppRepo : minted'[r] = minted[r] \/ TokenOK(minted'[r])
    BY <1>0, <2>1
  <2>9. appCall[c].at \in {"ask", "mint"}
    BY <2>1
  <2> QED
    BY <1>9, <2>2, <2>5, <2>6, <2>7, <2>8, <2>9
<1>13. ASSUME NEW c \in AppCall, NetworkFails(c) PROVE ConnectorInv'
  <2> DEFINE answer == IF appCall[c].kind = "token" THEN "raised" ELSE NoApp
             n == [Finish(c, answer) EXCEPT !.blind = TRUE]
  <2>1. /\ appCall[c].at \in {"ask", "mint"} /\ appCall' = [appCall EXCEPT ![c] = n]
        /\ UNCHANGED <<env, bundles, codexRow, conReq, minted, lastIn, hours>>
    BY <1>13 DEF NetworkFails
  <2>2. answer \in AnApp \union {"raised"}
    BY NamesOfApps
  <2> HIDE DEF answer
  <2>3. /\ n \in AppCallRec /\ n.at = "done" /\ n.blind = TRUE
    <3>1. PICK f : f = Finish(c, answer)
      OBVIOUS
    <3>2. f \in AppCallRec /\ f.at = "done"
      BY <1>r, <2>2, <3>1
    <3>3. [f EXCEPT !.blind = TRUE] \in AppCallRec /\ [f EXCEPT !.blind = TRUE].at = "done" /\ [f EXCEPT !.blind = TRUE].blind = TRUE
      BY <3>2 DEF AppCallRec
    <3> QED
      BY <3>1, <3>3
  <2> HIDE DEF n
  <2>4. AppCallOK(n)
    BY <2>3 DEF AppCallOK
  <2> QED
    BY <1>0, <2>1, <2>3, <2>4, AppCallGoesOn
<1>14. ASSUME NEW c \in AppCall, Take(c) PROVE ConnectorInv'
  BY <1>0, <1>14, RestingCall, AppCallGoesOn DEF Take, AppCallOK
<1>15. ASSUME HourPasses PROVE ConnectorInv'
  <2>1. /\ hours' = hours + 1 /\ UNCHANGED <<env, bundles, codexRow, conReq, appCall, minted, lastIn>>
        /\ \A c \in AppCall : appCall[c].at = "idle"
    BY <1>15 DEF HourPasses
  <2>2. ConnectorTypes'
    BY <1>0, <2>1 DEF ConnectorTypes
  <2>3. StoreOK' /\ AdminsOK' /\ AppCallsOK'
    BY <1>0, <2>1 DEF StoreOK, AdminsOK, AdminOK, AppCallsOK, AppCallOK
  <2>4. TokensOK'
    <3> SUFFICES ASSUME NEW r \in AppRepo PROVE TokenOK(minted[r])'
      BY DEF TokensOK
    <3>1. PICK x \in AnApp : x = minted[r].app
      BY <1>0 DEF TokenRec
    <3>2. minted[r].until \in Nat /\ TokenOK(minted[r])
      BY <1>0 DEF TokenRec, TokensOK
    <3>3. LastIn(x)' >= LastIn(x) /\ LastIn(x) \in Nat /\ LastIn(x)' \in Nat
      BY <1>0, <1>f, <2>1 DEF LastIn, AppInForce, ConnectorTypes
    <3>4. \A m, k \in Nat : k >= m /\ m > 0 /\ minted[r].until <= m + TokenKept => k > 0 /\ minted[r].until <= k + TokenKept
      BY <3>2, ConnectorAssumption
    <3> QED
      BY <2>1, <3>1, <3>2, <3>3, <3>4 DEF TokenOK
  <2> QED
    BY <2>2, <2>3, <2>4 DEF ConnectorInv
<1>16. CASE UNCHANGED connectorVars
  <2>1. AppInForce' = AppInForce /\ \A x : LastIn(x)' = LastIn(x)
    BY <1>16 DEF connectorVars, LastIn, AppInForce
  <2> QED
    BY <1>0, <1>16, <2>1 DEF connectorVars, ConnectorInv, ConnectorTypes, StoreOK, AdminsOK, AdminOK, TokensOK, TokenOK,
       AppCallsOK, AppCallOK
<1> QED
  BY <1>1, <1>2, <1>3, <1>4, <1>5, <1>6, <1>7, <1>8, <1>10, <1>11, <1>12, <1>13, <1>14, <1>15, <1>16 DEF ConnectorNext

LEMMA ConnectorInvariant == ConnectorSpec => []ConnectorInv
<1>1. ConnectorInit => ConnectorInv
  BY InitConnectors
<1>2. ConnectorInv /\ [ConnectorNext]_connectorVars => ConnectorInv'
  BY ConnectorStep
<1> QED
  BY <1>1, <1>2, PTL DEF ConnectorSpec

\* However admins replace, remove and probe credentials while calls read them, only what a
\* probe accepted is stored, a replaced App acts no longer than its tokens are kept, and a
\* steady call's answer is true of the App in force.
THEOREM AppsAreTrue == ConnectorSpec => []AppsHold
<1>1. ConnectorInv => AppsHold
  <2> SUFFICES ASSUME ConnectorInv PROVE AppsHold
    OBVIOUS
  <2>0. ConnectorTypes /\ StoreOK /\ AppCallsOK
    BY DEF ConnectorInv
  <2>1. OnlyProbedIsStored
    BY <2>0 DEF ConnectorTypes, StoreOK, OnlyProbedIsStored
  <2>2. TokensAreOfAnApp
    <3> SUFFICES ASSUME NEW c \in AppCall, appCall[c].at = "done", appCall[c].kind = "token",
                        appCall[c].answer \notin {NoApp, "raised"}, ~appCall[c].blind
                 PROVE  /\ hours - LastIn(appCall[c].answer) <= (IF appCall[c].cached THEN TokenKept ELSE 0)
                        /\ LastIn(appCall[c].answer) > 0
      BY DEF TokensAreOfAnApp
    <3>1. appCall[c].answer \in AnApp /\ AppCallOK(appCall[c]) /\ hours \in Nat
      BY <2>0 DEF AppCallsOK, ConnectorTypes, AppCallRec
    <3>2. LastIn(appCall[c].answer) \in Nat
      BY <2>0, <3>1, InForce
    <3>3. /\ LastIn(appCall[c].answer) > 0
          /\ hours <= LastIn(appCall[c].answer) + (IF appCall[c].cached THEN TokenKept ELSE 0)
      BY <3>1 DEF AppCallOK
    <3> QED
      BY <3>1, <3>2, <3>3, ConnectorAssumption
  <2>3. AnswersAreTrue
    BY <2>0 DEF AppCallsOK, AppCallOK, AnswersAreTrue
  <2> QED
    BY <2>1, <2>2, <2>3 DEF AppsHold
<1> QED
  BY <1>1, ConnectorInvariant, PTL

-----------------------------------------------------------------------------
(* The session with Memra                                                   *)

\* A call that has the client for itself stays alone until another begins.
AloneIsAlone == \A t \in Running : memCall[t].alone => Running = {t}

\* After its retry such a call has no session, then the one it has just opened,
\* which the server knows and no token takes away.
Recovering(t) ==
  LET c == memCall[t]
  IN  /\ c.at = "ensure" => session = 0
      /\ c.at = "opening" => c.sends \in known /\ ~expired
      /\ c.at = "call" => session \in known /\ ~expired
      /\ c.at = "sent" => c.sends \in known
      /\ c.at # "failed"

RetryOK == \A t \in Thread : memCall[t].retried /\ memCall[t].alone /\ memCall[t].spared => Recovering(t)

\* A call is given up after its retry alone.
FirstTry == \A t \in Thread : memCall[t].at = "failed" /\ memCall[t].spared => memCall[t].retried

MemraInv == MemraTypeOK /\ AloneIsAlone /\ RetryOK /\ FirstTry

LEMMA InitMemra == ASSUME MemraInit PROVE MemraInv
BY MemraAssumption DEF MemraInit, MemraInv, MemraTypeOK, NoMemraCall, Session, AloneIsAlone, Running, RetryOK, FirstTry

CallType == [at : {"idle", "ensure", "opening", "call", "sent", "done", "failed"},
             sends : Session, retried : BOOLEAN, alone : BOOLEAN, spared : BOOLEAN]

\* The record of a call keeps its type, whichever fields change.
LEMMA CallKeeps ==
  ASSUME NEW c \in CallType, NEW b \in BOOLEAN, NEW d \in BOOLEAN
  PROVE  /\ \A at \in {"idle", "ensure", "opening", "call", "sent", "done", "failed"} :
              /\ [c EXCEPT !.at = at] \in CallType
              /\ \A n \in Session : [c EXCEPT !.at = at, !.sends = n] \in CallType
              /\ [c EXCEPT !.at = at, !.spared = b] \in CallType
              /\ [c EXCEPT !.at = at, !.retried = TRUE, !.alone = b, !.spared = d] \in CallType
              /\ [c EXCEPT !.at = at, !.alone = b] \in CallType
         /\ [c EXCEPT !.alone = b] \in CallType /\ [c EXCEPT !.spared = b] \in CallType
         /\ NoMemraCall \in CallType
<1>1. NoMemraCall \in CallType
  BY MemraAssumption DEF NoMemraCall, CallType, Session
<1>2. ASSUME NEW at \in {"idle", "ensure", "opening", "call", "sent", "done", "failed"}
      PROVE  [c EXCEPT !.at = at] \in CallType /\ \A n \in Session : [c EXCEPT !.at = at, !.sends = n] \in CallType
  BY DEF CallType
<1>3. ASSUME NEW at \in {"idle", "ensure", "opening", "call", "sent", "done", "failed"}
      PROVE  /\ [c EXCEPT !.at = at, !.spared = b] \in CallType /\ [c EXCEPT !.at = at, !.alone = b] \in CallType
             /\ [c EXCEPT !.at = at, !.retried = TRUE, !.alone = b, !.spared = d] \in CallType
  BY DEF CallType
<1>4. [c EXCEPT !.alone = b] \in CallType /\ [c EXCEPT !.spared = b] \in CallType
  BY DEF CallType
<1> QED
  BY <1>1, <1>2, <1>3, <1>4

LEMMA MemraTypes == ASSUME MemraTypeOK, [MemraNext]_memraVars PROVE MemraTypeOK'
<1>0. /\ expired \in BOOLEAN /\ session \in Session /\ known \subseteq 1..MaxSessions
      /\ opened \in Session /\ memCalls \in 0..MaxCalls /\ memFaults \in 0..MaxMemraFaults
      /\ memCall \in [Thread -> CallType] /\ 0 \in Session
  BY MemraAssumption DEF MemraTypeOK, CallType, Session
<1>t. SUFFICES /\ expired' \in BOOLEAN /\ session' \in Session /\ known' \subseteq 1..MaxSessions
               /\ opened' \in Session /\ memCalls' \in 0..MaxCalls /\ memFaults' \in 0..MaxMemraFaults
               /\ memCall' \in [Thread -> CallType]
  BY DEF MemraTypeOK, CallType, Session
<1>c. \A t \in Thread : memCall[t] \in CallType /\ memCall[t].sends \in Session
                        /\ memCall[t].alone \in BOOLEAN /\ memCall[t].spared \in BOOLEAN
  BY <1>0 DEF CallType
<1>1. ASSUME NEW t \in Thread, Begin(t)
      PROVE  memCall' \in [Thread -> CallType] /\ memCalls' \in 0..MaxCalls
  <2>1. memCalls' \in 0..MaxCalls
    <3>1. memCalls < MaxCalls /\ memCalls' = memCalls + 1
      BY <1>1 DEF Begin
    <3> QED
      BY <1>0, <3>1, MemraAssumption
  <2>2. [NoMemraCall EXCEPT !.at = "ensure", !.alone = (Running = {})] \in CallType
    BY <1>0, CallKeeps DEF NoMemraCall
  <2>3. \A u \in Thread : [memCall[u] EXCEPT !.alone = @ /\ u \notin Running] \in CallType
    BY <1>c, CallKeeps
  <2> QED
    BY <1>1, <2>1, <2>2, <2>3 DEF Begin
<1>2. ASSUME NEW t \in Thread, HasSession(t) \/ Accepted(t) \/ GiveUp(t) PROVE memCall' \in [Thread -> CallType]
  <2>1. CASE HasSession(t)
    BY <1>0, <1>c, <2>1, CallKeeps DEF HasSession
  <2>2. CASE Accepted(t)
    BY <1>0, <1>c, <2>2, CallKeeps DEF Accepted
  <2>3. CASE GiveUp(t)
    BY <1>0, <1>c, <2>3, CallKeeps DEF GiveUp
  <2> QED
    BY <1>2, <2>1, <2>2, <2>3
<1>3. Renewed \in Session
  BY <1>0 DEF Renewed
<1>4. ASSUME NEW t \in Thread, Initialize(t)
      PROVE  /\ opened' \in Session /\ known' \subseteq 1..MaxSessions
             /\ memCall' \in [Thread -> CallType]
  <2>1. opened + 1 \in Session /\ opened + 1 \in 1..MaxSessions
    BY <1>0, <1>4, MemraAssumption DEF Initialize, Session
  <2> QED
    BY <1>0, <1>c, <1>4, <2>1, CallKeeps DEF Initialize
<1>5. ASSUME NEW t \in Thread, InitializeFails(t)
      PROVE  memCall' \in [Thread -> CallType] /\ memFaults' \in 0..MaxMemraFaults
  <2>1. memFaults' \in 0..MaxMemraFaults
    BY <1>0, <1>5, MemraAssumption DEF InitializeFails
  <2> QED
    BY <1>0, <1>c, <1>5, <2>1, CallKeeps DEF InitializeFails
<1>6. ASSUME NEW t \in Thread, Opened(t) PROVE session' \in Session /\ memCall' \in [Thread -> CallType]
  BY <1>0, <1>c, <1>6, CallKeeps DEF Opened
<1>7. ASSUME NEW t \in Thread, SendCall(t) PROVE memCall' \in [Thread -> CallType]
  BY <1>0, <1>c, <1>3, <1>7, CallKeeps DEF SendCall
<1>8. ASSUME NEW t \in Thread, Retry(t) PROVE memCall' \in [Thread -> CallType]
  <2>1. memCall' = [memCall EXCEPT ![t].at = "ensure", ![t].retried = TRUE, ![t].alone = Running = {t}, ![t].spared = TRUE]
    BY <1>8 DEF Retry
  <2>2. [memCall[t] EXCEPT !.at = "ensure", !.retried = TRUE, !.alone = Running = {t}, !.spared = TRUE] \in CallType
    BY <1>c DEF CallType
  <2> QED
    BY <1>0, <2>1, <2>2
<1>9. ASSUME NEW t \in Thread, EndCall(t) PROVE memCall' \in [Thread -> CallType]
  BY <1>0, <1>9, CallKeeps DEF EndCall
<1>10. ASSUME MemraFault PROVE memCall' \in [Thread -> CallType] /\ memFaults' \in 0..MaxMemraFaults
  <2>1. memFaults' \in 0..MaxMemraFaults
    BY <1>0, <1>10, MemraAssumption DEF MemraFault
  <2>2. \A t \in Thread : [memCall[t] EXCEPT !.spared = @ /\ t \notin Running] \in CallType
    BY <1>c, CallKeeps
  <2> QED
    BY <1>10, <2>1, <2>2 DEF MemraFault
<1>11. CASE UNCHANGED memraVars
  BY <1>0, <1>11 DEF memraVars
<1> QED
  <2>1. memCall' \in [Thread -> CallType]
    BY <1>1, <1>2, <1>4, <1>5, <1>6, <1>7, <1>8, <1>9, <1>10, <1>11 DEF MemraNext, TokenExpires, DropSession
  <2>2. memCalls' \in 0..MaxCalls /\ memFaults' \in 0..MaxMemraFaults
    BY <1>0, <1>1, <1>5, <1>10, <1>11
       DEF MemraNext, Begin, HasSession, Accepted, GiveUp, Initialize, InitializeFails, Opened, SendCall, Retry, EndCall,
           TokenExpires, DropSession
  <2>3. expired' \in BOOLEAN /\ opened' \in Session
    BY <1>0, <1>4, <1>11
       DEF MemraNext, Begin, HasSession, Accepted, GiveUp, Initialize, InitializeFails, Opened, SendCall, Retry, EndCall,
           TokenExpires, DropSession
  <2>4. session' \in Session
    BY <1>0, <1>3, <1>6, <1>11
       DEF MemraNext, Begin, HasSession, Accepted, GiveUp, Initialize, InitializeFails, Opened, SendCall, Retry, EndCall,
           TokenExpires, DropSession
  <2>5. known' \subseteq 1..MaxSessions
    BY <1>0, <1>4, <1>11
       DEF MemraNext, Begin, HasSession, Accepted, GiveUp, Initialize, InitializeFails, Opened, SendCall, Retry, EndCall,
           TokenExpires, DropSession
  <2> QED
    BY <2>1, <2>2, <2>3, <2>4, <2>5


\* A step of a call that runs disturbs no other call that counts on being alone.
LEMMA RunningStep ==
  ASSUME MemraInv, MemraTypeOK', NEW t \in Running, \A u \in Thread \ {t} : memCall'[u] = memCall[u],
         memCall'[t].alone => memCall[t].alone \/ Running = {t},
         memCall'[t].retried /\ memCall'[t].alone /\ memCall'[t].spared => Recovering(t)',
         memCall'[t].at = "failed" /\ memCall'[t].spared => memCall'[t].retried
  PROVE  MemraInv'
<1>1. t \in Thread /\ Running' \subseteq Running
  BY DEF Running
<1>2. AloneIsAlone'
  <2> SUFFICES ASSUME NEW u \in Running', memCall'[u].alone PROVE Running' = {u}
    BY DEF AloneIsAlone
  <2>1. \A v \in Running : memCall[v].alone => Running = {v}
    BY DEF MemraInv, AloneIsAlone
  <2>2. u \in Running /\ u \in Thread
    BY <1>1 DEF Running
  <2>3. Running = {u}
    <3>1. CASE u = t
      BY <2>1, <2>2, <3>1
    <3>2. CASE u # t
      BY <2>1, <2>2, <3>2
    <3> QED
      BY <3>1, <3>2
  <2> QED
    BY <1>1, <2>3
<1>3. RetryOK'
  <2> SUFFICES ASSUME NEW u \in Thread, memCall'[u].retried /\ memCall'[u].alone /\ memCall'[u].spared
               PROVE  Recovering(u)'
    BY DEF RetryOK
  <2>1. CASE u # t
    <3>1. memCall'[u] = memCall[u] /\ Recovering(u)
      BY <2>1 DEF MemraInv, RetryOK
    <3>2. u \notin Running
      BY <2>1, <3>1 DEF MemraInv, AloneIsAlone
    <3> QED
      BY <3>1, <3>2 DEF Recovering, Running
  <2> QED
    BY <2>1
<1>4. FirstTry'
  BY <1>1 DEF MemraInv, FirstTry
<1> QED
  BY <1>2, <1>3, <1>4 DEF MemraInv

\* A session that is lost, or a token that expires, is noted in the calls that run.
LEMMA FaultStep == ASSUME MemraInv, MemraTypeOK', MemraFault, UNCHANGED session PROVE MemraInv'
<1>0. /\ memCall \in [Thread -> CallType]
      /\ \A t \in Thread : memCall'[t] = [memCall[t] EXCEPT !.spared = @ /\ t \notin Running]
  BY DEF MemraInv, MemraTypeOK, CallType, MemraFault
<1>1. \A t \in Thread : /\ memCall'[t].at = memCall[t].at /\ memCall'[t].sends = memCall[t].sends
                        /\ memCall'[t].retried = memCall[t].retried /\ memCall'[t].alone = memCall[t].alone
                        /\ memCall'[t].spared <=> memCall[t].spared /\ t \notin Running
  BY <1>0 DEF CallType
<1>2. Running' = Running
  BY <1>1 DEF Running
<1> QED
  BY <1>1, <1>2 DEF MemraInv, AloneIsAlone, RetryOK, Recovering, FirstTry, Running

LEMMA MemraStep == ASSUME MemraInv, [MemraNext]_memraVars PROVE MemraInv'
<1>0. MemraTypeOK /\ MemraTypeOK' /\ memCall \in [Thread -> CallType]
  BY MemraTypes DEF MemraInv, MemraTypeOK, CallType
<1>1. ASSUME NEW t \in Thread, Begin(t) PROVE MemraInv'
  <2>1. \A u \in Thread \ {t} :
          /\ memCall'[u].at = memCall[u].at /\ memCall'[u].sends = memCall[u].sends
          /\ memCall'[u].retried = memCall[u].retried /\ memCall'[u].spared = memCall[u].spared
          /\ memCall'[u].alone <=> memCall[u].alone /\ u \notin Running
    BY <1>0, <1>1 DEF Begin, CallType
  <2>2. memCall'[t].at = "ensure" /\ ~memCall'[t].retried /\ (memCall'[t].alone <=> Running = {})
    BY <1>0, <1>1 DEF Begin, NoMemraCall
  <2>3. Running' = Running \union {t}
    BY <2>1, <2>2 DEF Running
  <2>4. UNCHANGED <<expired, session, known>>
    BY <1>1 DEF Begin
  <2>5. AloneIsAlone'
    BY <2>1, <2>2, <2>3 DEF MemraInv, AloneIsAlone, Running
  <2>6. RetryOK'
    BY <2>1, <2>2, <2>4 DEF MemraInv, RetryOK, Recovering, Running
  <2> QED
    BY <1>0, <2>1, <2>2, <2>5, <2>6 DEF MemraInv, FirstTry
<1>2. ASSUME NEW t \in Thread, HasSession(t) PROVE MemraInv'
  <2>1. /\ memCall[t].at = "ensure" /\ session # 0 /\ memCall' = [memCall EXCEPT ![t].at = "call"]
    BY <1>2 DEF HasSession
  <2>2. ~(memCall[t].retried /\ memCall[t].alone /\ memCall[t].spared)
    BY <2>1 DEF MemraInv, RetryOK, Recovering
  <2> QED
    BY <1>0, <2>1, <2>2, RunningStep DEF CallType, Running
<1>3. ASSUME NEW t \in Thread, Initialize(t) PROVE MemraInv'
  <2>1. /\ memCall[t].at = "ensure" /\ ~expired' /\ opened + 1 \in known'
        /\ memCall' = [memCall EXCEPT ![t].at = "opening", ![t].sends = opened + 1]
    BY <1>3 DEF Initialize
  <2>2. Recovering(t)'
    BY <1>0, <2>1 DEF CallType, Recovering
  <2> QED
    BY <1>0, <2>1, <2>2, RunningStep DEF CallType, Running
<1>4. ASSUME NEW t \in Thread, InitializeFails(t) PROVE MemraInv'
  <2>1. /\ memCall[t].at = "ensure"
        /\ memCall' = [memCall EXCEPT ![t].at = "failed", ![t].spared = FALSE]
    BY <1>4 DEF InitializeFails
  <2> QED
    BY <1>0, <2>1, RunningStep DEF CallType, Running
<1>5. ASSUME NEW t \in Thread, Opened(t) PROVE MemraInv'
  <2>1. /\ memCall[t].at = "opening" /\ memCall' = [memCall EXCEPT ![t].at = "call"]
        /\ ~expired => session' = memCall[t].sends
        /\ ~expired' /\ known' = known
    BY <1>5 DEF Opened
  <2>2. memCall[t].retried /\ memCall[t].alone /\ memCall[t].spared => Recovering(t)'
    BY <1>0, <2>1 DEF MemraInv, RetryOK, Recovering, CallType
  <2> QED
    BY <1>0, <2>1, <2>2, RunningStep DEF CallType, Running
<1>6. ASSUME NEW t \in Thread, SendCall(t) PROVE MemraInv'
  <2>1. /\ memCall[t].at = "call" /\ memCall' = [memCall EXCEPT ![t].at = "sent", ![t].sends = Renewed]
        /\ known' = known /\ (~expired => Renewed = session)
    BY <1>6 DEF SendCall, Renewed
  <2>2. memCall[t].retried /\ memCall[t].alone /\ memCall[t].spared => Recovering(t)'
    BY <1>0, <2>1 DEF MemraInv, RetryOK, Recovering, CallType
  <2> QED
    BY <1>0, <2>1, <2>2, RunningStep DEF CallType, Running
<1>7. ASSUME NEW t \in Thread, Accepted(t) PROVE MemraInv'
  <2>1. memCall[t].at = "sent" /\ memCall' = [memCall EXCEPT ![t].at = "done"]
    BY <1>7 DEF Accepted
  <2>2. Recovering(t)'
    BY <1>0, <2>1 DEF Recovering, CallType
  <2> QED
    BY <1>0, <2>1, <2>2, RunningStep DEF CallType, Running
<1>8. ASSUME NEW t \in Thread, Retry(t) PROVE MemraInv'
  <2>1. /\ memCall[t].at = "sent" /\ session' = 0
        /\ memCall' = [memCall EXCEPT ![t].at = "ensure", ![t].retried = TRUE,
                                      ![t].alone = (Running = {t}), ![t].spared = TRUE]
    BY <1>8 DEF Retry
  <2>2. Recovering(t)'
    BY <1>0, <2>1 DEF Recovering, CallType
  <2> QED
    BY <1>0, <2>1, <2>2, RunningStep DEF CallType, Running
<1>9. ASSUME NEW t \in Thread, GiveUp(t) PROVE MemraInv'
  <2>1. /\ memCall[t].at = "sent" /\ memCall[t].sends \notin known /\ memCall[t].retried
        /\ memCall' = [memCall EXCEPT ![t].at = "failed"]
    BY <1>9 DEF GiveUp
  <2>2. ~(memCall[t].retried /\ memCall[t].alone /\ memCall[t].spared)
    BY <2>1 DEF MemraInv, RetryOK, Recovering
  <2> QED
    BY <1>0, <2>1, <2>2, RunningStep DEF CallType, Running
<1>10. ASSUME NEW t \in Thread, EndCall(t) PROVE MemraInv'
  <2>1. /\ memCall[t].at \in {"done", "failed"} /\ memCall' = [memCall EXCEPT ![t] = NoMemraCall]
        /\ UNCHANGED <<expired, session, known>>
    BY <1>10 DEF EndCall
  <2>2. Running' = Running
    BY <1>0, <2>1 DEF Running, NoMemraCall
  <2> QED
    BY <1>0, <2>1, <2>2 DEF MemraInv, AloneIsAlone, RetryOK, Recovering, FirstTry, NoMemraCall, Running
<1>11. ASSUME TokenExpires \/ \E s \in 1..MaxSessions : DropSession(s) PROVE MemraInv'
  BY <1>0, <1>11, FaultStep DEF TokenExpires, DropSession
<1>12. CASE UNCHANGED memraVars
  <2>1. UNCHANGED <<memCall, session, known, expired>>
    BY <1>12 DEF memraVars
  <2> QED
    BY <1>0, <2>1 DEF MemraInv, AloneIsAlone, RetryOK, Recovering, FirstTry, Running
<1> QED
  BY <1>1, <1>2, <1>3, <1>4, <1>5, <1>6, <1>7, <1>8, <1>9, <1>10, <1>11, <1>12 DEF MemraNext

\* Types, sessions and retries agree in every reachable state.
THEOREM MemraSafety == MemraSpec => []MemraInv
BY InitMemra, MemraStep, PTL DEF MemraSpec

\* A call that has the client for itself survives a session that is lost: it fails only when,
\* after its retry, one more is lost; for all threads, calls, sessions and faults.
THEOREM CallsRecover == MemraSpec => []ExpiryIsRecovered
<1>1. MemraInv => ExpiryIsRecovered
  BY DEF MemraInv, RetryOK, FirstTry, ExpiryIsRecovered, Recovering
<1> QED
  BY <1>1, MemraSafety, PTL
=============================================================================
