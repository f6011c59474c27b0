---------------------------- MODULE ModelBackend ----------------------------
(***************************************************************************)
(* The supervisor of the local Codex proxy (development only): it starts   *)
(* the proxy or takes over one that already answers, respawns it after     *)
(* missed health checks, and stops it with the application.  A proxy       *)
(* boots until it has the port; then it answers or is slow (the health     *)
(* check times out).  The one that has the port is the manager's child,    *)
(* one that the manager has replaced in vain, or a stranger's.             *)
(***************************************************************************)
EXTENDS Naturals, FiniteSets

CONSTANTS
  Proc,               \* processes the command can start, and the stranger
  Stranger,           \* a proxy started by somebody else
  CrashedThreshold,   \* misses after which an exited proxy is replaced
  HungThreshold,      \* misses after which one that is alive is
  MaxSlow             \* bound: times a proxy turns slow

\* "none" is no process.
ASSUME BackendAssumption ==
  /\ CrashedThreshold \in Nat /\ HungThreshold \in Nat /\ MaxSlow \in Nat
  /\ Stranger \in Proc /\ "none" \notin Proc

VARIABLES
  health,    \* [Proc -> "none", "booting", "up", "slow", "exited"]
  child,     \* the manager's _proc, or "none"
  spawn,     \* _spawn_and_wait, called by start() or the supervisor: "idle", "check", "kill", "wait"
  watch,     \* the supervisor thread: "off", "waiting", "respawning"
  misses,
  stopping,  \* the _stop event
  app,       \* "new", "starting", "running", "failed", "stopped"
  slowed,
  hasty,     \* history variable: those the supervisor killed alive before HungThreshold misses
  spared,    \* history variable: children that were alive when another took their place
  late       \* history variable: stop() ran while the supervisor was about to spawn

backendVars == <<health, child, spawn, watch, misses, stopping, app, slowed, hasty, spared, late>>

Alive(p)  == health[p] \in {"booting", "up", "slow"}
HasPort(p) == health[p] \in {"up", "slow"}
IsReady   == \E p \in Proc : health[p] = "up"
ProcAlive == child # "none" /\ Alive(child)

BackendTypeOK ==
  /\ health \in [Proc -> {"none", "booting", "up", "slow", "exited"}]
  /\ child \in Proc \union {"none"} /\ child # Stranger
  /\ spawn \in {"idle", "check", "kill", "wait"} /\ watch \in {"off", "waiting", "respawning"}
  /\ misses \in 0..HungThreshold /\ stopping \in BOOLEAN
  /\ app \in {"new", "starting", "running", "failed", "stopped"}
  /\ slowed \in 0..MaxSlow /\ hasty \subseteq Proc /\ spared \subseteq Proc \ {Stranger} /\ late \in BOOLEAN

BackendInit ==
  /\ health \in {[p \in Proc |-> IF p = Stranger THEN h ELSE "none"] : h \in {"none", "up", "slow"}}
  /\ child = "none" /\ spawn = "idle" /\ watch = "off" /\ misses = 0 /\ stopping = FALSE /\ app = "new"
  /\ slowed = 0 /\ hasty = {} /\ spared = {} /\ late = FALSE

-----------------------------------------------------------------------------
(* The processes                                                           *)

\* A booting proxy takes the port when it is free; one that has it turns slow or
\* answers again; and each may exit.
Binds(p) ==
  /\ health[p] = "booting" /\ \A q \in Proc : ~HasPort(q)
  /\ health' = [health EXCEPT ![p] = "up"]
  /\ UNCHANGED <<child, spawn, watch, misses, stopping, app, slowed, hasty, spared, late>>
Slows(p) ==
  /\ health[p] = "up" /\ slowed < MaxSlow
  /\ slowed' = slowed + 1
  /\ health' = [health EXCEPT ![p] = "slow"]
  /\ UNCHANGED <<child, spawn, watch, misses, stopping, app, hasty, spared, late>>
Answers(p) ==
  /\ health[p] = "slow"
  /\ health' = [health EXCEPT ![p] = "up"]
  /\ UNCHANGED <<child, spawn, watch, misses, stopping, app, slowed, hasty, spared, late>>
Exits(p) ==
  /\ Alive(p)
  /\ health' = [health EXCEPT ![p] = "exited"]
  /\ UNCHANGED <<child, spawn, watch, misses, stopping, app, slowed, hasty, spared, late>>

-----------------------------------------------------------------------------
(* _spawn_and_wait, which does not look at the stop event                  *)

Killed(procs) == [p \in Proc |-> IF p \in procs /\ Alive(p) THEN "exited" ELSE health[p]]
Fresh         == {p \in Proc \ {Stranger} : health[p] = "none"}

\* It returns to start(), which arms the supervisor, or to the supervisor's loop.
StartSucceeds ==
  /\ spawn' = "idle" /\ watch' = "waiting" /\ misses' = 0
  /\ app' = IF app = "starting" THEN "running" ELSE app
\* It raises: the application does not start, or the loop tries again.
StartFails ==
  /\ spawn' = "idle" /\ UNCHANGED misses
  /\ IF app = "starting" THEN app' = "failed" /\ UNCHANGED watch
     ELSE watch' = "waiting" /\ UNCHANGED app

\* Nothing is done when a proxy answers after all; without a login it raises.
SpawnChecks ==
  /\ spawn = "check"
  /\ \/ IsReady /\ StartSucceeds
     \/ ~IsReady /\ StartFails
     \/ ~IsReady /\ spawn' = "kill" /\ UNCHANGED <<watch, misses, app>>
  /\ UNCHANGED <<health, child, stopping, slowed, hasty, spared, late>>

\* _kill_port knows only who has the port, and kills those it can; whoever it leaves
\* lives on beside the new child.
KillPort(gone) ==
  /\ gone \subseteq {p \in Proc : HasPort(p)}
  /\ hasty' = IF app # "starting" /\ misses < HungThreshold THEN hasty \union gone ELSE hasty

SpawnKills ==
  /\ spawn = "kill"
  /\ \E gone \in SUBSET Proc, p \in Fresh :
       /\ KillPort(gone)
       /\ health' = [Killed(gone) EXCEPT ![p] = "booting"] /\ child' = p
       /\ spared' = spared \union {q \in {child} \ {"none"} : Alive(q) /\ q \notin gone}
  /\ spawn' = "wait"
  /\ UNCHANGED <<watch, misses, stopping, app, slowed, late>>

\* The log cannot be opened, or the command cannot be run.
PopenRaises ==
  /\ spawn = "kill"
  /\ \E gone \in SUBSET Proc : KillPort(gone) /\ health' = Killed(gone)
  /\ StartFails
  /\ UNCHANGED <<child, stopping, slowed, spared, late>>

\* The new child has exited (or stop() has taken it), a proxy answers, or the time is
\* up and the child is left as it is.
SpawnWaits ==
  /\ spawn = "wait"
  /\ \/ ~ProcAlive /\ StartFails
     \/ ProcAlive /\ IsReady /\ StartSucceeds
     \/ ProcAlive /\ ~IsReady /\ StartFails
  /\ UNCHANGED <<health, child, stopping, slowed, hasty, spared, late>>

-----------------------------------------------------------------------------
(* start, the supervisor, stop                                             *)

\* start() reuses a proxy that answers, whoever started it, and remembers no child.
StartReuses ==
  /\ app = "new" /\ IsReady
  /\ app' = "running" /\ watch' = "waiting"
  /\ UNCHANGED <<health, child, spawn, misses, stopping, slowed, hasty, spared, late>>
StartSpawns ==
  /\ app = "new" /\ ~IsReady
  /\ app' = "starting" /\ spawn' = "check"
  /\ UNCHANGED <<health, child, watch, misses, stopping, slowed, hasty, spared, late>>

\* Mutant: a process that is alive gets no longer than one that has exited.
ShouldRespawn_Blunt(n, alive) == n >= CrashedThreshold

ShouldRespawn(n, alive) == n >= IF alive THEN HungThreshold ELSE CrashedThreshold

\* The loop's wait ends: with the stop, or with a health check.  Misses beyond the
\* long window change nothing and are not counted.
LoopEnds ==
  /\ watch = "waiting" /\ stopping
  /\ watch' = "off"
  /\ UNCHANGED <<health, child, spawn, misses, stopping, app, slowed, hasty, spared, late>>
CheckHealth ==
  /\ watch = "waiting" /\ ~stopping
  /\ IF IsReady THEN misses' = 0 /\ UNCHANGED <<spawn, watch>>
     ELSE /\ misses' = IF misses < HungThreshold THEN misses + 1 ELSE misses
          /\ IF ShouldRespawn(misses', ProcAlive) THEN spawn' = "check" /\ watch' = "respawning"
             ELSE UNCHANGED <<spawn, watch>>
  /\ UNCHANGED <<health, child, stopping, app, slowed, hasty, spared, late>>

\* Mutant: the child is let go of without being terminated.
Stop_Forgets ==
  /\ app = "running"
  /\ app' = "stopped" /\ stopping' = TRUE
  /\ late' = (spawn \in {"check", "kill"})
  /\ child' = "none" /\ UNCHANGED health
  /\ UNCHANGED <<spawn, watch, misses, slowed, hasty, spared>>

\* stop() sets the event and terminates the child; it does not wait for the thread.
Stop ==
  /\ app = "running"
  /\ app' = "stopped" /\ stopping' = TRUE
  /\ late' = (spawn \in {"check", "kill"})
  /\ health' = Killed({child} \ {"none"}) /\ child' = "none"
  /\ UNCHANGED <<spawn, watch, misses, slowed, hasty, spared>>

BackendNext ==
  \/ StartReuses \/ StartSpawns \/ LoopEnds \/ CheckHealth \/ Stop
  \/ SpawnChecks \/ SpawnKills \/ PopenRaises \/ SpawnWaits
  \/ \E p \in Proc : Binds(p) \/ Slows(p) \/ Answers(p) \/ Exits(p)

BackendSpec == BackendInit /\ [][BackendNext]_backendVars

-----------------------------------------------------------------------------
(* Properties                                                              *)

\* A proxy that was started and runs is the manager's child, or was alive when it was
\* replaced and escaped the kill.
NoneForgotten == \A p \in Proc \ {Stranger} : Alive(p) => p = child \/ p \in spared

\* After stop() the child is gone and no other follows, unless stop() came when the
\* supervisor was about to spawn: that one starts a proxy nobody stops, although the
\* manager "shuts it down with the app" (codex.py 5-6).
StopEndsIt ==
  app = "stopped" /\ ~late => child = "none" /\ \A p \in Proc \ {Stranger} : Alive(p) => p \in spared

\* The child is not killed alive before the long window has passed.  What the manager
\* holds no process of is, whatever _arm_supervisor's docstring says of "a proxy whose
\* process is still alive" (codex.py 111-112): a stranger's proxy that was taken over, and
\* one that has escaped a kill and answers again.
ChildIsSpared == hasty \subseteq {Stranger} \union spared

\* No child process is left behind unseen, and none that works is killed early.
NoStrayChild == NoneForgotten /\ StopEndsIt /\ ChildIsSpared
=============================================================================
