------------------------------ MODULE Schedules ------------------------------
(***************************************************************************)
(* The schedules that members keep in the Agno scheduler.  A schedule's    *)
(* name is its key: creating a name that exists updates the row.  Its      *)
(* creator is in the description; who may pause, resume, fire or remove it *)
(* is checked first, and the scheduler is called afterwards, row by row.   *)
(*                                                                         *)
(* A name is << "personal", user, task >>, << "dsm", team, phase >>, or    *)
(* << "shared", digest >>; the last stands for the delivery, sprint,       *)
(* security, sentiment and portfolio schedules, one row each.              *)
(***************************************************************************)
EXTENDS Naturals, Sequences, FiniteSets

CONSTANTS
  Planner,          \* email addresses
  PlanAdmin,        \* those whose is_admin holds
  Task,             \* slugs of personal tasks
  Team,             \* stand-up teams
  Digest,           \* the other shared schedules
  Legacy,           \* rows made before created_by was stamped
  PlanRequest,      \* requests handled at the same time
  MaxPlanRequests,  \* bound on the requests
  MaxPlanFaults     \* bound on calls of the scheduler, and of Slack's users.info, that fail

VARIABLES
  plans,       \* [PlanName -> NoPlan, or [id, owner, enabled, creators]]
  born,        \* [PlanName -> rows inserted so far]: the latest one's id
  planReq,     \* what each request has still to do
  planReqs,    \* requests so far
  planFaults,  \* faults so far
  last         \* the user of the last write

planVars == << plans, born, planReq, planReqs, planFaults, last >>

Phases  == << "open", "preread", "callsummary" >>
DsmRows(team) == {<< "dsm", team, Phases[i] >> : i \in 1 .. 3}

Personal == {<< "personal", u, k >> : u \in Planner, k \in Task}
Shared   == {<< "shared", d >> : d \in Digest}
PlanName == Personal \union Shared \union UNION {DsmRows(t) : t \in Team}

\* The email of a Slack user whose profile could not be read.
Unknown == ""

ASSUME PlanAssumption == Unknown \notin Planner

NoPlan    == [id |-> 0]
NoPlanReq == [at |-> "idle"]

\* A legacy row's number is 1: rows of different names are never compared.
PlanInit == /\ plans = [n \in PlanName |->
                          IF n \in Legacy THEN [id |-> 1, owner |-> Unknown, enabled |-> TRUE, creators |-> {}]
                          ELSE NoPlan]
            /\ born = [n \in PlanName |-> IF n \in Legacy THEN 1 ELSE 0]
            /\ planReq = [q \in PlanRequest |-> NoPlanReq]
            /\ planReqs = 0 /\ planFaults = 0 /\ last = Unknown

Planned(n) == plans[n] # NoPlan
Existing   == {n \in PlanName : Planned(n)}

\* schedule_owner: created_by, or the user in the name of a personal row.
PlanOwner(n) == IF plans[n].owner # Unknown \/ n \notin Personal THEN plans[n].owner ELSE n[2]

\* No owner to be found: admins only.
MayAct(u, n) == u \in PlanAdmin \/ (Planned(n) /\ PlanOwner(n) # Unknown /\ PlanOwner(n) = u)

PlanArrives(q) == /\ planReq[q] = NoPlanReq /\ planReqs < MaxPlanRequests
                  /\ planReqs' = planReqs + 1
PlanBecomes(q, state) == planReq' = [planReq EXCEPT ![q] = state]
Fails == planFaults < MaxPlanFaults /\ planFaults' = planFaults + 1

-----------------------------------------------------------------------------
(* Creating                                                                *)

\* ScheduleManager.create with if_exists="update".  "creators" is who has created
\* or updated the present row.
Put(n, by) ==
  IF Planned(n)
  THEN /\ plans' = [plans EXCEPT ![n].owner = by, ![n].creators = @ \union {by}]
       /\ UNCHANGED born
  ELSE /\ born' = [born EXCEPT ![n] = @ + 1]
       /\ plans' = [plans EXCEPT ![n] =
            [id |-> born[n] + 1, owner |-> by, enabled |-> TRUE, creators |-> {by}]]

\* Mutant: the name of a personal task has no user in it.
PersonalName_Global(u, k) == << "personal", CHOOSE o \in Planner : TRUE, k >>

PersonalName(u, k) == << "personal", u, k >>

\* The chat tool and the console's "custom" kind: the name of the row is the
\* caller's own.
CreatePersonal(q, u, k) ==
  /\ PlanArrives(q)
  /\ Put(PersonalName(u, k), u)
  /\ last' = u
  /\ UNCHANGED << planReq, planFaults >>

\* Any member, whoever made the row before; from a modal whose user Slack could
\* not name, the creator is the empty string.
CreateShared(q, u, d) ==
  /\ PlanArrives(q)
  /\ \/ Put(<< "shared", d >>, u) /\ last' = u /\ UNCHANGED planFaults
     \/ Put(<< "shared", d >>, Unknown) /\ last' = Unknown /\ Fails
  /\ UNCHANGED planReq

\* create_dsm: three creates, one after the other.
StartDsm(q, u, t) ==
  /\ PlanArrives(q)
  /\ PlanBecomes(q, [at |-> "dsm", by |-> u, team |-> t, phase |-> 1])
  /\ UNCHANGED << plans, born, planFaults, last >>

CreatePhase(q) ==
  /\ planReq[q].at = "dsm"
  /\ Put(<< "dsm", planReq[q].team, Phases[planReq[q].phase] >>, planReq[q].by)
  /\ last' = planReq[q].by
  /\ PlanBecomes(q, IF planReq[q].phase = 3 THEN NoPlanReq ELSE [planReq[q] EXCEPT !.phase = @ + 1])
  /\ UNCHANGED << planReqs, planFaults >>

\* The phases made so far stay.
CreatePhaseRaises(q) ==
  /\ planReq[q].at = "dsm" /\ Fails /\ PlanBecomes(q, NoPlanReq)
  /\ UNCHANGED << plans, born, planReqs, last >>

-----------------------------------------------------------------------------
(* Changing and removing                                                   *)

Target(n) == << n, plans[n].id >>

\* The Home tab's Remove button holds the rows of a card: the three of a team, or
\* one.  Every one of them is checked.
Card(n) == IF n[1] = "dsm" THEN DsmRows(n[2]) \intersect Existing ELSE {n}

\* Mutant: one row of the card is enough.
MayActOnAll_Any(u, names) == \E n \in names : MayAct(u, n)
MayActOnAll(u, names)     == \A n \in names : MayAct(u, n)

AskHome(q, u, n) ==
  /\ PlanArrives(q) /\ Planned(n) /\ MayActOnAll(u, Card(n))
  /\ PlanBecomes(q, [at |-> "remove", by |-> u, ids |-> {Target(m) : m \in Card(n)}])
  /\ UNCHANGED << plans, born, planFaults, last >>

\* A console route on one id: pause, resume or delete.
AskConsole(q, u, n, op) ==
  /\ PlanArrives(q) /\ Planned(n) /\ MayAct(u, n)
  /\ PlanBecomes(q, [at |-> op, by |-> u, ids |-> {Target(n)}])
  /\ UNCHANGED << plans, born, planFaults, last >>

\* The chat tool: the rows whose name starts with the caller's prefix.
AskTool(q, u, k) ==
  /\ PlanArrives(q) /\ Planned(PersonalName(u, k))
  /\ PlanBecomes(q, [at |-> "remove", by |-> u, ids |-> {Target(PersonalName(u, k))}])
  /\ UNCHANGED << plans, born, planFaults, last >>

NextId(q, target) ==
  PlanBecomes(q, IF planReq[q].ids = {target} THEN NoPlanReq ELSE [planReq[q] EXCEPT !.ids = @ \ {target}])

\* The scheduler is asked by id: a row that has gone, or has been made anew, is not
\* found.
Apply(q) ==
  /\ planReq[q].at \in {"remove", "pause", "resume"}
  /\ \E target \in planReq[q].ids :
       LET n == target[1]
           found == plans[n].id = target[2]
       IN  /\ plans' = IF ~found THEN plans
                       ELSE IF planReq[q].at = "remove" THEN [plans EXCEPT ![n] = NoPlan]
                       ELSE [plans EXCEPT ![n].enabled = (planReq[q].at = "resume")]
           /\ last' = planReq[q].by
           /\ NextId(q, target)
  /\ UNCHANGED << born, planReqs, planFaults >>

\* remove() logs the error and goes on with the next id; a pause is answered 500.
ApplyRaises(q) ==
  /\ planReq[q].at \in {"remove", "pause", "resume"} /\ Fails
  /\ \E target \in planReq[q].ids : NextId(q, target)
  /\ UNCHANGED << plans, born, planReqs, last >>

-----------------------------------------------------------------------------
CreatePlan(q, u) == \/ \E k \in Task : CreatePersonal(q, u, k)
                    \/ \E d \in Digest : CreateShared(q, u, d)
                    \/ \E t \in Team : StartDsm(q, u, t)
AskPlan(q, u)    == \/ \E n \in PlanName : \/ AskHome(q, u, n)
                                           \/ \E op \in {"pause", "resume", "remove"} : AskConsole(q, u, n, op)
                    \/ \E k \in Task : AskTool(q, u, k)
HandlePlan(q)    == CreatePhase(q) \/ CreatePhaseRaises(q) \/ Apply(q) \/ ApplyRaises(q)

PlanNext == \E q \in PlanRequest : HandlePlan(q) \/ \E u \in Planner : CreatePlan(q, u) \/ AskPlan(q, u)

PlanSpec == PlanInit /\ [][PlanNext]_planVars

-----------------------------------------------------------------------------
(* What is shown                                                           *)

\* list_raw: the console's list for a viewer.
ListRaw(u) == {n \in Existing : n \in Personal => u \in PlanAdmin \/ PlanOwner(n) = u}

\* list_rows: the Home tab's, whose personal cards are found by their name.
ListRows(u) == {n \in Existing : n \in Personal => n[2] = u}

-----------------------------------------------------------------------------
(* Properties *)

\* Type invariant.
PlanTypeOK ==
  /\ \A n \in Existing : /\ plans[n].id \in 1 .. born[n]
                         /\ plans[n].owner \in Planner \union {Unknown}
                         /\ plans[n].enabled \in BOOLEAN
                         /\ plans[n].creators \in SUBSET (Planner \union {Unknown})
  /\ \A q \in PlanRequest : planReq[q].at \in {"idle", "dsm", "remove", "pause", "resume"}
  /\ planReqs \in 0 .. MaxPlanRequests /\ planFaults \in 0 .. MaxPlanFaults
  /\ last \in Planner \union {Unknown}

\* "Only this schedule's creator or an admin can do this": whatever requests
\* overlap, a row is removed, paused or resumed only for an admin or one who has
\* created or updated it, and a personal row changes only for an admin and the user
\* in its name.
Disturbed(n) == Planned(n) /\ (plans'[n] = NoPlan \/ plans'[n].enabled # plans[n].enabled)
ByOwners ==
  \A n \in PlanName :
    /\ Disturbed(n) => last' \in PlanAdmin \union plans[n].creators \union (IF n \in Personal THEN {n[2]} ELSE {})
    /\ n \in Personal /\ plans'[n] # plans[n] => last' \in PlanAdmin \union {n[2]}

\* A schedule is touched for its owners and admins; and the console, which goes by the
\* stamped creator, and the Home tab, which goes by the name, show a member the same
\* personal schedules: their own.
OnlyOwnersAct ==
  /\ [][ByOwners]_planVars
  /\ [](\A u \in Planner \ PlanAdmin : ListRaw(u) = ListRows(u))
=============================================================================
