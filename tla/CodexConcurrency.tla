-------------------------- MODULE CodexConcurrency --------------------------
(***************************************************************************)
(* The guard around the one shared Codex login: acquire_sync holds an      *)
(* org-wide and a per-user semaphore while run_codex_exec spawns `codex    *)
(* exec`.  A Turn is one guarded call, in a thread of its own.             *)
(*                                                                         *)
(* The semaphores are made at first use under a lock and then stay; since  *)
(* a full semaphore nobody has used yet is like one not made yet, they     *)
(* start full here.  threading.Semaphore is not a queue: whichever turn    *)
(* finds a free slot takes it.                                             *)
(***************************************************************************)
EXTENDS Naturals, FiniteSets

CONSTANTS
  Turn,      \* calls of run_codex_exec with a user_id
  User,      \* known users
  Nobody,    \* the empty user_id: only the org-wide cap applies
  UserOf,    \* [Turn -> User \union {Nobody}]
  OrgCap,    \* codex_max_concurrent_requests()
  PerUser    \* codex_max_concurrent_per_user()

ASSUME TurnAssumption == IsFiniteSet(Turn) /\ UserOf \in [Turn -> User \union {Nobody}]
ASSUME UserAssumption == Nobody \notin User
ASSUME CapAssumption  == OrgCap \in Nat \ {0} /\ PerUser \in Nat \ {0}

VARIABLES
  pc,        \* where each turn is
  orgFree,   \* the value of the org-wide semaphore
  userFree   \* the value of each user's semaphore

vars == << pc, orgFree, userFree >>

At(stage)     == {t \in Turn : pc[t] = stage}
TurnsOf(u)    == {t \in Turn : UserOf[t] = u}
OrgHolders    == {t \in Turn : pc[t] \in {"wait user", "running", "leave user", "leave org"}}
UserHolders(u) == {t \in TurnsOf(u) : pc[t] \in {"running", "leave user"}}

GoTo(t, stage) == pc' = [pc EXCEPT ![t] = stage]
Known(t)       == UserOf[t] \in User

Init == /\ pc       = [t \in Turn |-> "new"]
        /\ orgFree  = OrgCap
        /\ userFree = [u \in User |-> PerUser]

-----------------------------------------------------------------------------
Arrive(t) == /\ pc[t] = "new"
             /\ GoTo(t, "wait org")
             /\ UNCHANGED << orgFree, userFree >>

\* Mutant: a call that would block goes ahead.
AcquireOrg_NonBlocking(t) ==
  /\ pc[t] = "wait org"
  /\ orgFree' = orgFree - 1
  /\ GoTo(t, IF Known(t) THEN "wait user" ELSE "running")
  /\ UNCHANGED userFree

AcquireOrg(t) ==
  /\ pc[t] = "wait org" /\ orgFree > 0
  /\ orgFree' = orgFree - 1
  /\ GoTo(t, IF Known(t) THEN "wait user" ELSE "running")
  /\ UNCHANGED userFree

\* Mutant: a semaphore per call, "which would reset the count".
AcquireUser_Recreated(t) ==
  /\ pc[t] = "wait user"
  /\ userFree' = [userFree EXCEPT ![UserOf[t]] = PerUser - 1]
  /\ GoTo(t, "running")
  /\ UNCHANGED orgFree

\* The second semaphore, waited for while a slot of the first is held.
AcquireUser(t) ==
  /\ pc[t] = "wait user" /\ userFree[UserOf[t]] > 0
  /\ userFree' = [userFree EXCEPT ![UserOf[t]] = @ - 1]
  /\ GoTo(t, "running")
  /\ UNCHANGED orgFree

\* Mutant: the user's slot is given back only by a call that returns.
CallEnds_NoFinally(t) ==
  /\ pc[t] = "running"
  /\ \/ GoTo(t, IF Known(t) THEN "leave user" ELSE "leave org")
     \/ GoTo(t, "leave org")
  /\ UNCHANGED << orgFree, userFree >>

\* codex exec returns, fails or is killed at its timeout: all of them run the
\* finally clause.
CallEnds(t) ==
  /\ pc[t] = "running"
  /\ GoTo(t, IF Known(t) THEN "leave user" ELSE "leave org")
  /\ UNCHANGED << orgFree, userFree >>

ReleaseUser(t) ==
  /\ pc[t] = "leave user"
  /\ userFree' = [userFree EXCEPT ![UserOf[t]] = @ + 1]
  /\ GoTo(t, "leave org")
  /\ UNCHANGED orgFree

\* Mutant: releases the user's slot a second time and the org's never.
ReleaseOrg_Wrong(t) ==
  /\ pc[t] = "leave org"
  /\ userFree' = [u \in User |-> IF u = UserOf[t] THEN userFree[u] + 1 ELSE userFree[u]]
  /\ GoTo(t, "done")
  /\ UNCHANGED orgFree

ReleaseOrg(t) ==
  /\ pc[t] = "leave org"
  /\ orgFree' = orgFree + 1
  /\ GoTo(t, "done")
  /\ UNCHANGED userFree

-----------------------------------------------------------------------------
Step(t) == \/ AcquireOrg(t) \/ AcquireUser(t)
           \/ CallEnds(t)   \/ ReleaseUser(t) \/ ReleaseOrg(t)

Next == \E t \in Turn : Arrive(t) \/ Step(t)

Spec == Init /\ [][Next]_vars

-----------------------------------------------------------------------------
(* Properties *)

\* Type invariant.
TypeOK ==
  /\ pc \in [Turn -> {"new", "wait org", "wait user", "running",
                      "leave user", "leave org", "done"}]
  /\ orgFree \in 0 .. OrgCap
  /\ userFree \in [User -> 0 .. PerUser]

\* Every slot is free or is with a turn that will give it back; none is lost
\* when a call fails, and none is given back twice.
SlotsConserved ==
  /\ orgFree + Cardinality(OrgHolders) = OrgCap
  /\ \A u \in User : userFree[u] + Cardinality(UserHolders(u)) = PerUser

\* Never more calls in flight than the org-wide cap allows, nor more of one
\* user's than the per-user cap allows.
CapsRespected ==
  /\ Cardinality(At("running")) <= OrgCap
  /\ \A u \in User : Cardinality(At("running") \intersect TurnsOf(u)) <= PerUser

\* A turn waits only because the login is busy: while it cannot get a slot, and
\* nobody else can take one this moment, at least as many calls as the smaller
\* cap have slots of both kinds.  (A turn holds an org slot while it waits for
\* its user's, so the larger cap cannot be promised.)
Blocked(t)  == \/ pc[t] = "wait org"  /\ orgFree = 0
               \/ pc[t] = "wait user" /\ userFree[UserOf[t]] = 0
CanTake(t)  == pc[t] \in {"wait org", "wait user"} /\ ~Blocked(t)
SmallerCap  == IF PerUser < OrgCap THEN PerUser ELSE OrgCap
BusyWhenBlocked ==
  (\E t \in Turn : Blocked(t)) /\ (\A t \in Turn : ~CanTake(t)) =>
    Cardinality(At("running") \union At("leave user") \union At("leave org")) >= SmallerCap

\* "a smaller per-user cap so a single heavy user can't claim every concurrent
\* slot" (module docstring): a turn never finds all the slots held by the turns
\* of one other user.
NobodyHoldsAll ==
  \A u \in User : \A t \in Turn \ TurnsOf(u) :
    pc[t] = "wait org" /\ orgFree = 0 => ~(OrgHolders \subseteq TurnsOf(u))
=============================================================================
