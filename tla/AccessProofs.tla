---------------------------- MODULE AccessProofs ------------------------------
(*****************************************************************************)
(* Who may change what, for every set of people, requests and faults: the    *)
(* last admin goes only by a demotion that saw the wrong admins, and an      *)
(* invite sets a role once (Roles); a schedule is changed                    *)
(* by an owner or an admin (Schedules); a skill by its author or an admin,   *)
(* and its file follows its row (SkillLibrary); what an admin sets is what   *)
(* the answer tells (Settings).                                              *)
(*****************************************************************************)
EXTENDS Roles, Schedules, SkillLibrary, Settings, TLAPS, FiniteSetTheorems

-----------------------------------------------------------------------------
(* The inductive invariant                                                 *)

\* What is about to be written was not rejected on the admins that were seen.
DecidedOK ==
  \A q \in RoleRequest : roleReq[q].at \in {"write", "apply"} => ~Rejected(roleReq[q].p, roleReq[q].role, roleReq[q].seen)

Clearing(p) == \E q \in RoleRequest : roleReq[q] = [at |-> "clear", p |-> p]

\* An invite that has set a role is gone, or is about to be.
SpentOK ==
  \A p \in Person \ crossed : used[p] = 0 \/ (used[p] = 1 /\ (invite[p] = "none" \/ Clearing(p)))

RoleInv == RoleTypeOK /\ DecidedOK /\ SpentOK

LEMMA ReqShapes ==
  \A x \in Reqs :
    /\ x.at \in {"idle", "check", "write", "apply", "invite", "revoke", "clear"}
    /\ x.at # "idle" => x.p \in Person
    /\ x.at \in {"check", "write", "apply", "invite"} => x.role \in Grant
    /\ x.at = "check" => x.then \in {"write", "apply"}
    /\ x.at \in {"write", "apply"} => x.seen \in SUBSET Person
BY DEF Reqs, NoRequest, Grant

LEMMA InitRoles == ASSUME RoleInit PROVE RoleInv
<1>1. RoleTypeOK
  <2>1. NoRequest \in Reqs /\ {"none", "admin"} \subseteq Grant \union {"none"}
    BY DEF Grant, Reqs
  <2>2. role \in [Person -> Grant \union {"none"}] /\ invite \in [Person -> Grant \union {"none"}]
    BY <2>1 DEF RoleInit
  <2>3. roleReq \in [RoleRequest -> Reqs] /\ used \in [Person -> Nat]
    BY <2>1 DEF RoleInit
  <2>4. roleRequests \in 0 .. MaxRoleRequests /\ dbErrors \in 0 .. MaxDbErrors
    BY AdminAssumption DEF RoleInit
  <2>5. crossed \in SUBSET Person
    BY DEF RoleInit
  <2> QED
    BY <2>2, <2>3, <2>4, <2>5 DEF RoleTypeOK
<1>2. DecidedOK /\ SpentOK
  BY DEF RoleInit, DecidedOK, SpentOK, NoRequest
<1> QED
  BY <1>1, <1>2 DEF RoleInv

-----------------------------------------------------------------------------
(* Types                                                                   *)

LEMMA BecomeTypes ==
  ASSUME RoleTypeOK, NEW q \in RoleRequest, NEW state \in Reqs, Become(q, state)
  PROVE  roleReq' \in [RoleRequest -> Reqs] /\ \A o \in RoleRequest : roleReq'[o] = IF o = q THEN state ELSE roleReq[o]
BY DEF RoleTypeOK, Become

LEMMA EndTypes ==
  ASSUME RoleTypeOK, NEW q \in RoleRequest, End(q)
  PROVE  roleReq' \in [RoleRequest -> Reqs] /\ \A o \in RoleRequest : roleReq'[o] = IF o = q THEN NoRequest ELSE roleReq[o]
BY BecomeTypes DEF End, Reqs

LEMMA AskTypes ==
  ASSUME RoleTypeOK, NEW q \in RoleRequest, Ask(q)
  PROVE  /\ \E state \in Reqs : state.at \in {"check", "invite", "revoke"} /\ Become(q, state)
         /\ roleReq[q] = NoRequest /\ roleRequests' \in 0 .. MaxRoleRequests
         /\ UNCHANGED << role, invite, dbErrors, used, crossed >>
<1>1. \A p \in Person, r \in Grant : /\ \A then \in {"write", "apply"} :
                                          [at |-> "check", p |-> p, role |-> r, then |-> then] \in Reqs
                                     /\ [at |-> "invite", p |-> p, role |-> r] \in Reqs
                                     /\ [at |-> "revoke", p |-> p] \in Reqs
  BY DEF Reqs
<1>2. ASSUME NEW p \in Person, SignIn(q, p)
      PROVE  \E state \in Reqs : state.at \in {"check", "invite", "revoke"} /\ Become(q, state)
  BY <1>1, <1>2 DEF SignIn, RoleTypeOK
<1>3. ASSUME NEW p \in Person, NEW actor, AskRevoke(q, actor, p)
      PROVE  \E state \in Reqs : state.at \in {"check", "invite", "revoke"} /\ Become(q, state)
  <2> PICK r \in Grant : TRUE
    BY DEF Grant
  <2> QED
    BY <1>1, <1>3 DEF AskRevoke
<1>4. ASSUME NEW p \in Person, NEW actor, NEW r \in {"member", "admin"}, AskRole(q, actor, p, r)
      PROVE  \E state \in Reqs : state.at \in {"check", "invite", "revoke"} /\ Become(q, state)
  BY <1>1, <1>4 DEF AskRole, Grant
<1>5. ASSUME NEW p \in Person, NEW actor, NEW r \in {"member", "admin"}, AskInvite(q, actor, p, r)
      PROVE  \E state \in Reqs : state.at \in {"check", "invite", "revoke"} /\ Become(q, state)
  BY <1>1, <1>5 DEF AskInvite, Grant
<1>6. Arrives(q) => roleReq[q] = NoRequest /\ roleRequests' \in 0 .. MaxRoleRequests
  BY AdminAssumption DEF Arrives, RoleTypeOK
<1> QED
  BY <1>2, <1>3, <1>4, <1>5, <1>6 DEF Ask, SignIn, AskRevoke, AskRole, AskInvite


LEMMA CheckTypes ==
  ASSUME RoleTypeOK, NEW q \in RoleRequest, CheckRole(q)
  PROVE  /\ \E state \in Reqs : /\ Become(q, state)
                                /\ state.at \in {"write", "apply"} => ~Rejected(state.p, state.role, state.seen)
                                /\ state.at \in {"idle", "write", "apply"}
         /\ roleReq[q].at = "check" /\ dbErrors' \in {dbErrors, dbErrors + 1} /\ dbErrors' <= MaxDbErrors
         /\ UNCHANGED << role, invite, roleRequests, used, crossed >>
<1> PICK p, r, then : p = roleReq[q].p /\ r = roleReq[q].role /\ then = roleReq[q].then
  OBVIOUS
<1>1. roleReq[q].at = "check" /\ p \in Person /\ r \in Grant /\ then \in {"write", "apply"}
  BY ReqShapes DEF CheckRole, RoleTypeOK
<1> PICK seen \in SUBSET Person :
           /\ ReadRoles(seen)
           /\ IF Rejected(p, r, seen) THEN End(q)
              ELSE Become(q, [at |-> then, p |-> p, role |-> r, seen |-> seen])
  BY DEF CheckRole
<1> PICK state : state = [at |-> then, p |-> p, role |-> r, seen |-> seen]
  OBVIOUS
<1>2. state \in Reqs /\ state.at = then /\ state.p = p /\ state.role = r /\ state.seen = seen
  BY <1>1 DEF Reqs
<1>3. NoRequest \in Reqs /\ NoRequest.at = "idle"
  BY DEF Reqs, NoRequest
<1>4. \E x \in Reqs : /\ Become(q, x)
                      /\ x.at \in {"write", "apply"} => ~Rejected(x.p, x.role, x.seen)
                      /\ x.at \in {"idle", "write", "apply"}
  <2>1. CASE Rejected(p, r, seen)
    BY <1>3, <2>1 DEF End
  <2>2. CASE ~Rejected(p, r, seen)
    BY <1>1, <1>2, <2>2
  <2> QED
    BY <2>1, <2>2
<1>5. dbErrors' \in {dbErrors, dbErrors + 1} /\ dbErrors' <= MaxDbErrors
  BY AdminAssumption DEF ReadRoles, DbFails, RoleTypeOK
<1> QED
  BY <1>1, <1>4, <1>5 DEF CheckRole

LEMMA TypeStep == ASSUME RoleInv, [RoleNext]_roleVars PROVE RoleTypeOK'
<1> USE DEF RoleInv
<1>0. /\ \A q \in RoleRequest : roleReq[q].at # "idle" => roleReq[q].p \in Person
      /\ \A q \in RoleRequest : roleReq[q].at \in {"write", "apply", "invite"} => roleReq[q].role \in Grant
  BY ReqShapes DEF RoleTypeOK
<1>1. ASSUME NEW q \in RoleRequest, Ask(q) PROVE RoleTypeOK'
  <2>1. roleReq' \in [RoleRequest -> Reqs]
    BY <1>1, AskTypes, BecomeTypes
  <2> QED
    BY <1>1, <2>1, AskTypes DEF RoleTypeOK
<1>2. ASSUME NEW q \in RoleRequest, CheckRole(q) PROVE RoleTypeOK'
  <2>1. roleReq' \in [RoleRequest -> Reqs]
    BY <1>2, CheckTypes, BecomeTypes
  <2>2. dbErrors' \in 0 .. MaxDbErrors
    BY <1>2, CheckTypes, AdminAssumption DEF RoleTypeOK
  <2> QED
    BY <1>2, <2>1, <2>2, CheckTypes DEF RoleTypeOK
<1>3. ASSUME DbFails PROVE dbErrors' \in 0 .. MaxDbErrors
  BY <1>3, AdminAssumption DEF DbFails, RoleTypeOK
<1>4. ASSUME NEW q \in RoleRequest, WriteRole(q) PROVE RoleTypeOK'
  <2>1. role' \in [Person -> Grant \union {"none"}]
    BY <1>0, <1>4 DEF RoleTypeOK, WriteRole, SetRole
  <2> QED
    BY <1>4, <2>1, EndTypes DEF RoleTypeOK, WriteRole
<1>5. ASSUME NEW q \in RoleRequest, WriteFails(q) PROVE RoleTypeOK'
  BY <1>3, <1>5, EndTypes DEF RoleTypeOK, WriteFails
<1>6. ASSUME NEW q \in RoleRequest, AddInvite(q) PROVE RoleTypeOK'
  <2>1. invite' \in [Person -> Grant \union {"none"}] /\ used' \in [Person -> Nat]
    BY <1>0, <1>6 DEF RoleTypeOK, AddInvite
  <2> QED
    BY <1>6, <2>1, EndTypes DEF RoleTypeOK, AddInvite
<1>7. ASSUME NEW q \in RoleRequest, RevokeInvite(q) \/ ClearInvite(q) PROVE RoleTypeOK'
  <2>1. invite' \in [Person -> Grant \union {"none"}]
    BY <1>7 DEF RoleTypeOK, RevokeInvite, ClearInvite
  <2> QED
    BY <1>7, <2>1, EndTypes DEF RoleTypeOK, RevokeInvite, ClearInvite
<1>8. ASSUME NEW q \in RoleRequest, ApplyInvite(q) PROVE RoleTypeOK'
  <2>1. [at |-> "clear", p |-> roleReq[q].p] \in Reqs
    BY <1>0, <1>8 DEF ApplyInvite, Reqs
  <2>2. roleReq' \in [RoleRequest -> Reqs]
    BY <1>8, <2>1, BecomeTypes DEF ApplyInvite
  <2>3. role' \in [Person -> Grant \union {"none"}] /\ used' \in [Person -> Nat] /\ crossed' \in SUBSET Person
    BY <1>0, <1>8 DEF RoleTypeOK, ApplyInvite, SetRole
  <2> QED
    BY <1>8, <2>2, <2>3 DEF RoleTypeOK, ApplyInvite
<1>9. ASSUME NEW q \in RoleRequest, ClearFails(q) PROVE RoleTypeOK'
  BY <1>0, <1>3, <1>9, EndTypes DEF RoleTypeOK, ClearFails
<1>10. CASE UNCHANGED roleVars
  BY <1>10 DEF RoleTypeOK, roleVars
<1> QED
  BY <1>1, <1>2, <1>4, <1>5, <1>6, <1>7, <1>8, <1>9, <1>10 DEF RoleNext, Handle, RoleFault

-----------------------------------------------------------------------------
(* What was decided, and the last admin                                    *)

LEMMA DecidedStep == ASSUME RoleInv, [RoleNext]_roleVars PROVE DecidedOK'
<1> USE DEF RoleInv
<1>1. ASSUME NEW q \in RoleRequest, NEW state,
             \A o \in RoleRequest : roleReq'[o] = IF o = q THEN state ELSE roleReq[o],
             state.at \in {"write", "apply"} => ~Rejected(state.p, state.role, state.seen)
      PROVE  DecidedOK'
  BY <1>1 DEF DecidedOK
<1>2. ASSUME NEW q \in RoleRequest, Ask(q) PROVE DecidedOK'
  <2>1. PICK state \in Reqs : state.at \in {"check", "invite", "revoke"} /\ Become(q, state)
    BY <1>2, AskTypes
  <2> QED
    BY <1>1, <2>1, BecomeTypes
<1>3. ASSUME NEW q \in RoleRequest, CheckRole(q) PROVE DecidedOK'
  BY <1>1, <1>3, CheckTypes, BecomeTypes
<1>4. ASSUME NEW q \in RoleRequest, End(q) PROVE DecidedOK'
  BY <1>1, <1>4, EndTypes DEF NoRequest
<1>5. ASSUME NEW q \in RoleRequest, ApplyInvite(q) PROVE DecidedOK'
  <2> PICK state : state = [at |-> "clear", p |-> roleReq[q].p]
    OBVIOUS
  <2>1. state.at = "clear" /\ \A o \in RoleRequest : roleReq'[o] = IF o = q THEN state ELSE roleReq[o]
    BY <1>5 DEF ApplyInvite, Become, RoleTypeOK
  <2> QED
    BY <1>1, <2>1
<1>6. CASE UNCHANGED roleVars
  BY <1>6 DEF DecidedOK, roleVars
<1> QED
  BY <1>2, <1>3, <1>4, <1>5, <1>6
     DEF RoleNext, Handle, RoleFault, WriteRole, WriteFails, AddInvite, RevokeInvite, ClearInvite, ClearFails

\* A write that was not rejected on the admins it saw leaves no admin only if it saw
\* the wrong ones.
LEMMA LastOfAll ==
  ASSUME RoleTypeOK, Admins # {}, NEW p \in Person, NEW r \in Grant, NEW seen, ~Rejected(p, r, seen),
         role' = [role EXCEPT ![p] = r], Admins' = {}
  PROVE  r = "member" /\ Admins = {p} /\ (p \notin seen \/ seen \ Admins # {})
<1>1. \A x \in Person : role'[x] = IF x = p THEN r ELSE role[x]
  BY DEF RoleTypeOK
<1>2. r = "member" /\ p \notin EnvAdmin
  BY <1>1 DEF Admins, Grant
<1>3. Admins = {p}
  BY <1>1 DEF Admins
<1>4. ASSUME p \in seen PROVE seen \ Admins # {}
  <2>1. ~(Cardinality(seen) <= 1)
    BY <1>2, <1>4 DEF Rejected
  <2>2. seen # {p}
    <3>1. Cardinality({p}) = 1
      BY FS_Singleton
    <3> QED
      BY <2>1, <3>1
  <2> QED
    BY <1>3, <1>4, <2>2
<1> QED
  BY <1>2, <1>3, <1>4

LEMMA AdminStep == ASSUME RoleInv, [RoleNext]_roleVars PROVE LastAdminIsGuarded
<1> SUFFICES ASSUME Admins # {}, Admins' = {}
             PROVE  \E q \in RoleRequest :
                      /\ roleReq[q].at \in {"write", "apply"} /\ roleReq[q].role = "member" /\ Admins = {roleReq[q].p}
                      /\ roleReq[q].p \notin roleReq[q].seen \/ roleReq[q].seen \ Admins # {}
  BY DEF LastAdminIsGuarded
<1> USE DEF RoleInv
<1>1. ASSUME UNCHANGED role PROVE FALSE
  BY <1>1 DEF Admins
<1>2. PICK q \in RoleRequest : /\ roleReq[q].at \in {"write", "apply"}
                               /\ role' = [role EXCEPT ![roleReq[q].p] = roleReq[q].role]
  <2>1. ASSUME NEW q \in RoleRequest, WriteRole(q) \/ ApplyInvite(q)
        PROVE  /\ roleReq[q].at \in {"write", "apply"}
               /\ role' = [role EXCEPT ![roleReq[q].p] = roleReq[q].role]
    BY <2>1 DEF WriteRole, ApplyInvite, SetRole
  <2> QED
    BY <1>1, <2>1, AskTypes, CheckTypes
       DEF RoleNext, Handle, RoleFault, WriteFails, AddInvite, RevokeInvite, ClearInvite, ClearFails, roleVars, RoleTypeOK
<1>3. roleReq[q].p \in Person /\ roleReq[q].role \in Grant /\ ~Rejected(roleReq[q].p, roleReq[q].role, roleReq[q].seen)
  BY <1>2, ReqShapes DEF RoleTypeOK, DecidedOK
<1>4. roleReq[q].role = "member" /\ Admins = {roleReq[q].p}
      /\ (roleReq[q].p \notin roleReq[q].seen \/ roleReq[q].seen \ Admins # {})
  BY <1>2, <1>3, LastOfAll
<1> QED
  BY <1>2, <1>4

-----------------------------------------------------------------------------
(* Invites                                                                 *)

LEMMA SpentStep == ASSUME RoleInv, [RoleNext]_roleVars PROVE SpentOK'
<1> USE DEF RoleInv
<1>1. ASSUME NEW q \in RoleRequest, \A o \in RoleRequest : o # q => roleReq'[o] = roleReq[o], roleReq[q].at # "clear",
             UNCHANGED << invite, used, crossed >>
      PROVE  SpentOK'
  <2>1. \A p : Clearing(p) => Clearing(p)'
    BY <1>1 DEF Clearing
  <2> QED
    BY <1>1, <2>1 DEF SpentOK
<1>2. ASSUME NEW q \in RoleRequest, Ask(q) \/ CheckRole(q) PROVE SpentOK'
  <2>1. (\A o \in RoleRequest : o # q => roleReq'[o] = roleReq[o]) /\ roleReq[q].at # "clear"
    BY <1>2, AskTypes, CheckTypes, BecomeTypes DEF NoRequest
  <2> QED
    BY <1>1, <1>2, <2>1, AskTypes, CheckTypes
<1>3. ASSUME NEW q \in RoleRequest, WriteRole(q) PROVE SpentOK'
  <2>1. \A p : Clearing(p) => Clearing(p)'
    BY <1>3, EndTypes DEF WriteRole, Clearing
  <2> QED
    BY <1>3, <2>1 DEF WriteRole, SetRole, SpentOK
<1>4. ASSUME NEW q \in RoleRequest, WriteFails(q) PROVE SpentOK'
  BY <1>1, <1>4, EndTypes DEF WriteFails
<1>5. ASSUME NEW q \in RoleRequest, AddInvite(q) PROVE SpentOK'
  <2>1. \A p : Clearing(p) => Clearing(p)'
    BY <1>5, EndTypes DEF AddInvite, Clearing
  <2>2. /\ \A p \in Person : /\ used'[p] = IF p = roleReq[q].p THEN 0 ELSE used[p]
                             /\ p # roleReq[q].p => invite'[p] = invite[p]
        /\ UNCHANGED crossed
    BY <1>5 DEF AddInvite, RoleTypeOK
  <2> QED
    BY <2>1, <2>2 DEF SpentOK
<1>6. ASSUME NEW q \in RoleRequest, RevokeInvite(q) \/ ClearInvite(q) PROVE SpentOK'
  <2>1. \A p : p # roleReq[q].p /\ Clearing(p) => Clearing(p)'
    <3>1. \A o \in RoleRequest : o # q => roleReq'[o] = roleReq[o]
      BY <1>6, EndTypes DEF RevokeInvite, ClearInvite
    <3>2. \A p : [at |-> "clear", p |-> p].p = p
      OBVIOUS
    <3> QED
      BY <3>1, <3>2 DEF Clearing
  <2>2. /\ \A p \in Person : invite'[p] = IF p = roleReq[q].p THEN "none" ELSE invite[p]
        /\ UNCHANGED << used, crossed >>
    BY <1>6 DEF RevokeInvite, ClearInvite, RoleTypeOK
  <2> QED
    BY <2>1, <2>2 DEF SpentOK
<1>7. ASSUME NEW q \in RoleRequest, ApplyInvite(q) PROVE SpentOK'
  <2> PICK p : p = roleReq[q].p
    OBVIOUS
  <2>1. p \in Person /\ roleReq[q].at = "apply" /\ roleReq[q].role \in Grant
    BY <1>7, ReqShapes DEF RoleTypeOK, ApplyInvite
  <2>2. /\ \A o \in RoleRequest : roleReq'[o] = IF o = q THEN [at |-> "clear", p |-> p] ELSE roleReq[o]
        /\ \A x \in Person : used'[x] = IF x = p THEN used[p] + 1 ELSE used[x]
        /\ UNCHANGED invite
    BY <1>7 DEF ApplyInvite, Become, RoleTypeOK
  <2>3. Clearing(p)' /\ \A x : Clearing(x) => Clearing(x)'
    BY <2>1, <2>2 DEF Clearing
  <2>4. crossed \subseteq crossed' /\ (p \notin crossed' => invite[p] # "none" /\ ~Clearing(p))
    BY <1>7, <2>1 DEF ApplyInvite, Clearing, Grant
  <2>5. p \notin crossed' => used[p] = 0
    BY <2>1, <2>4 DEF SpentOK
  <2> QED
    BY <2>2, <2>3, <2>4, <2>5 DEF SpentOK
<1>8. ASSUME NEW q \in RoleRequest, ClearFails(q) PROVE SpentOK'
  <2>1. \A p : p # roleReq[q].p /\ Clearing(p) => Clearing(p)'
    <3>1. \A o \in RoleRequest : o # q => roleReq'[o] = roleReq[o]
      BY <1>8, EndTypes DEF ClearFails
    <3>2. \A p : [at |-> "clear", p |-> p].p = p
      OBVIOUS
    <3> QED
      BY <3>1, <3>2 DEF Clearing
  <2>2. UNCHANGED << invite, used >> /\ crossed' = crossed \union {roleReq[q].p}
    BY <1>8 DEF ClearFails
  <2> QED
    BY <2>1, <2>2 DEF SpentOK
<1>9. CASE UNCHANGED roleVars
  BY <1>9 DEF SpentOK, Clearing, roleVars
<1> QED
  BY <1>2, <1>3, <1>4, <1>5, <1>6, <1>7, <1>8, <1>9 DEF RoleNext, Handle, RoleFault

-----------------------------------------------------------------------------
(* The theorems                                                            *)

\* Roles, invites and requests agree in every reachable state.
THEOREM RoleSafety == RoleSpec => []RoleInv
<1>1. RoleInit => RoleInv
  BY InitRoles
<1>2. RoleInv /\ [RoleNext]_roleVars => RoleInv'
  BY TypeStep, DecidedStep, SpentStep DEF RoleInv
<1> QED
  BY <1>1, <1>2, PTL DEF RoleSpec

\* Type correctness of roles, invites and requests.
THEOREM TypeCorrect == RoleSpec => []RoleTypeOK
<1>1. RoleInv => RoleTypeOK
  BY DEF RoleInv
<1> QED
  BY <1>1, RoleSafety, PTL

\* Whatever requests overlap and whatever reads fail: the step that leaves no admin is a
\* demotion that did not see its subject among the admins, or saw another who has been
\* demoted since; and a person's invite sets their role at most once, unless it was applied
\* across a change, beside a sign-in that had not cleared it, or could not be cleared.
\* That such a demotion is possible is what the run roles_last shows.
THEOREM RolesAreKept == RoleSpec => RolesHold
<1>1. RoleInv /\ [RoleNext]_roleVars => [LastAdminIsGuarded]_roleVars
  BY AdminStep
<1>2. RoleInv => \A p \in Person : InviteUsedOnce(p)
  BY DEF RoleInv, InviteUsedOnce, SpentOK, RoleTypeOK
<1> QED
  BY <1>1, <1>2, RoleSafety, PTL DEF RoleSpec, RolesHold

-----------------------------------------------------------------------------
(* Schedules                                                                *)

PlanRec == [id : Nat \ {0}, owner : Planner \union {Unknown}, enabled : BOOLEAN,
            creators : SUBSET (Planner \union {Unknown})]
DsmReq  == [at : {"dsm"}, by : Planner, team : Team, phase : {1, 2, 3}]
OpReq   == [at : {"remove", "pause", "resume"}, by : Planner, ids : SUBSET (PlanName \X Nat)]

PlanTypes ==
  /\ plans \in [PlanName -> PlanRec \union {NoPlan}] /\ born \in [PlanName -> Nat]
  /\ planReq \in [PlanRequest -> {NoPlanReq} \union DsmReq \union OpReq]

\* A row has the latest of its name's ids, its owner is one of its creators, and a
\* personal row has no owner but the user in its name.
RowOK(n) ==
  Planned(n) => /\ plans[n].id <= born[n]
                /\ plans[n].owner # Unknown => plans[n].owner \in plans[n].creators
                /\ n \in Personal => plans[n].owner \in {n[2], Unknown}
RowsOK == \A n \in PlanName : RowOK(n)

\* Who may act on the row of this id, if it is still the one: an admin, or one who has
\* created it; and on a personal row nobody but an admin and the user in its name.
Entitled(u, n, id) ==
  /\ id > 0 /\ id <= born[n]
  /\ \/ u \in PlanAdmin
     \/ /\ plans[n].id = id => u \in plans[n].creators \/ (n \in Personal /\ u = n[2])
        /\ n \in Personal => u = n[2]

\* A check that a request has passed stays true of what it has still to do.
ReqOK(r) == r \in OpReq => \A target \in r.ids : Entitled(r.by, target[1], target[2])
ReqsOK == \A q \in PlanRequest : ReqOK(planReq[q])

PlanInv == PlanTypes /\ RowsOK /\ ReqsOK

LEMMA PlanShapes ==
  /\ \A r \in PlanRec : r # NoPlan
  /\ NoPlan.id = 0
  /\ NoPlanReq.at = "idle" /\ NoPlanReq \notin OpReq /\ NoPlanReq \notin DsmReq
  /\ \A r \in DsmReq : r \notin OpReq
BY DEF PlanRec, NoPlan, NoPlanReq, OpReq, DsmReq

\* The names of the kinds differ, and a personal name has its user in it.
LEMMA PlanNames ==
  /\ \A d \in Digest : <<"shared", d>> \in PlanName /\ <<"shared", d>> \notin Personal
  /\ \A t \in Team, i \in {1, 2, 3} : <<"dsm", t, Phases[i]>> \in PlanName /\ <<"dsm", t, Phases[i]>> \notin Personal
  /\ \A u \in Planner, k \in Task : PersonalName(u, k) \in Personal /\ PersonalName(u, k)[2] = u
  /\ \A n \in Personal : n \in PlanName /\ n[2] \in Planner /\ n[2] # Unknown
<1>1. \A n \in Personal : n[1] = "personal" /\ n[2] \in Planner
  BY DEF Personal
<1>2. \A d \in Digest : <<"shared", d>> \in PlanName /\ <<"shared", d>> \notin Personal
  <2>1. \A d \in Digest : <<"shared", d>>[1] = "shared"
    OBVIOUS
  <2> QED
    BY <1>1, <2>1 DEF PlanName, Shared
<1>3. \A t \in Team, i \in {1, 2, 3} : <<"dsm", t, Phases[i]>> \in PlanName /\ <<"dsm", t, Phases[i]>> \notin Personal
  <2>1. \A t \in Team, i \in {1, 2, 3} : <<"dsm", t, Phases[i]>>[1] = "dsm"
    OBVIOUS
  <2>2. \A t \in Team, i \in {1, 2, 3} : <<"dsm", t, Phases[i]>> \in DsmRows(t)
    BY DEF DsmRows
  <2> QED
    BY <1>1, <2>1, <2>2 DEF PlanName
<1>4. \A u \in Planner, k \in Task : PersonalName(u, k) \in Personal /\ PersonalName(u, k)[2] = u
  BY DEF PersonalName, Personal
<1> QED
  BY <1>1, <1>2, <1>3, <1>4, PlanAssumption DEF PlanName

LEMMA InitPlans == ASSUME PlanInit PROVE PlanInv
<1>1. [id |-> 1, owner |-> Unknown, enabled |-> TRUE, creators |-> {}] \in PlanRec
  BY DEF PlanRec
<1>2. PlanTypes
  BY <1>1 DEF PlanInit, PlanTypes
<1>3. RowsOK
  BY DEF PlanInit, RowsOK, RowOK, Planned
<1>4. ReqsOK
  BY PlanShapes DEF PlanInit, ReqsOK, ReqOK
<1> QED
  BY <1>2, <1>3, <1>4 DEF PlanInv

\* Creating or updating a row keeps the rows and what has been checked.
LEMMA PutKeeps ==
  ASSUME PlanInv, NEW n \in PlanName, NEW by \in Planner \union {Unknown}, n \in Personal => by = n[2], Put(n, by)
  PROVE  /\ plans' \in [PlanName -> PlanRec \union {NoPlan}] /\ born' \in [PlanName -> Nat] /\ RowsOK'
         /\ \A u, id : \A m \in PlanName : id \in Nat /\ Entitled(u, m, id) => Entitled(u, m, id)'
         /\ last' = by => ByOwners
<1>0. /\ plans \in [PlanName -> PlanRec \union {NoPlan}] /\ born \in [PlanName -> Nat] /\ RowsOK
      /\ plans[n] \in PlanRec \union {NoPlan} /\ born[n] \in Nat
  BY DEF PlanInv, PlanTypes
\* What the row is now.
<1>1. \E row \in PlanRec, k \in Nat :
        /\ plans' = [plans EXCEPT ![n] = row] /\ born' = [born EXCEPT ![n] = k]
        /\ row.owner = by /\ by \in row.creators /\ row.id <= k /\ k >= born[n]
        /\ Planned(n) => row.id = plans[n].id /\ row.enabled = plans[n].enabled /\ plans[n].creators \subseteq row.creators
        /\ ~Planned(n) => row.id > born[n]
  <2>1. CASE Planned(n)
    <3> DEFINE row == [plans[n] EXCEPT !.owner = by, !.creators = @ \union {by}]
    <3>1. plans' = [plans EXCEPT ![n] = row] /\ born' = [born EXCEPT ![n] = born[n]]
      BY <1>0, <2>1 DEF Put
    <3>2. plans[n] \in PlanRec /\ plans[n].id <= born[n]
      BY <1>0, <2>1 DEF Planned, RowsOK, RowOK
    <3>3. /\ row \in PlanRec /\ row.owner = by /\ row.creators = plans[n].creators \union {by}
          /\ row.id = plans[n].id /\ row.enabled = plans[n].enabled
      BY <3>2 DEF PlanRec
    <3> HIDE DEF row
    <3>4. PICK k \in Nat : k = born[n]
      BY <1>0
    <3>5. plans' = [plans EXCEPT ![n] = row] /\ born' = [born EXCEPT ![n] = k]
      BY <3>1, <3>4
    <3>6. /\ row \in PlanRec /\ row.owner = by /\ by \in row.creators /\ row.id <= k /\ k >= born[n]
          /\ Planned(n) => row.id = plans[n].id /\ row.enabled = plans[n].enabled /\ plans[n].creators \subseteq row.creators
          /\ ~Planned(n) => row.id > born[n]
      BY <1>0, <2>1, <3>2, <3>3, <3>4
    <3> QED
      BY <3>5, <3>6
  <2>2. CASE ~Planned(n)
    <3> DEFINE row == [id |-> born[n] + 1, owner |-> by, enabled |-> TRUE, creators |-> {by}]
    <3>1. plans' = [plans EXCEPT ![n] = row] /\ born' = [born EXCEPT ![n] = born[n] + 1]
      BY <1>0, <2>2 DEF Put
    <3>2. row \in PlanRec /\ row.owner = by /\ row.creators = {by} /\ row.id = born[n] + 1
      BY <1>0 DEF PlanRec
    <3> HIDE DEF row
    <3>4. PICK k \in Nat : k = born[n] + 1
      BY <1>0
    <3>5. plans' = [plans EXCEPT ![n] = row] /\ born' = [born EXCEPT ![n] = k]
      BY <3>1, <3>4
    <3>6. /\ row \in PlanRec /\ row.owner = by /\ by \in row.creators /\ row.id <= k /\ k >= born[n]
          /\ Planned(n) => row.id = plans[n].id /\ row.enabled = plans[n].enabled /\ plans[n].creators \subseteq row.creators
          /\ ~Planned(n) => row.id > born[n]
      BY <1>0, <2>2, <3>2, <3>4
    <3> QED
      BY <3>5, <3>6
  <2> QED
    BY <2>1, <2>2
<1>2. PICK row \in PlanRec, k \in Nat :
        /\ plans' = [plans EXCEPT ![n] = row] /\ born' = [born EXCEPT ![n] = k]
        /\ row.owner = by /\ by \in row.creators /\ row.id <= k /\ k >= born[n]
        /\ Planned(n) => row.id = plans[n].id /\ row.enabled = plans[n].enabled /\ plans[n].creators \subseteq row.creators
        /\ ~Planned(n) => row.id > born[n]
  BY <1>1
<1>3. plans' \in [PlanName -> PlanRec \union {NoPlan}] /\ born' \in [PlanName -> Nat]
  BY <1>0, <1>2
<1>4. /\ plans'[n] = row /\ born'[n] = k /\ row # NoPlan
      /\ \A m \in PlanName : m # n => plans'[m] = plans[m] /\ born'[m] = born[m]
  BY <1>0, <1>2, PlanShapes
<1>5. RowsOK'
  <2> SUFFICES ASSUME NEW m \in PlanName PROVE RowOK(m)'
    BY DEF RowsOK
  <2>1. CASE m = n
    BY <1>2, <1>4, <2>1 DEF RowOK
  <2>2. CASE m # n
    BY <1>0, <1>4, <2>2 DEF RowsOK, RowOK, Planned
  <2> QED
    BY <2>1, <2>2
<1>6. ASSUME NEW u, NEW id \in Nat, NEW m \in PlanName, Entitled(u, m, id) PROVE Entitled(u, m, id)'
  <2>1. CASE m = n
    <3>1. id <= k
      BY <1>0, <1>2, <1>6, <2>1 DEF Entitled
    <3>2. row.id = id => Planned(n) /\ plans[n].id = id
      <4>1. ~Planned(n) => row.id # id
        BY <1>0, <1>2, <1>6, <2>1 DEF Entitled, PlanRec
      <4> QED
        BY <1>2, <4>1
    <3> QED
      BY <1>2, <1>4, <1>6, <2>1, <3>1, <3>2 DEF Entitled
  <2>2. CASE m # n
    BY <1>4, <1>6, <2>2 DEF Entitled
  <2> QED
    BY <2>1, <2>2
<1>7. last' = by => ByOwners
  <2> SUFFICES ASSUME last' = by, NEW m \in PlanName
               PROVE  /\ Disturbed(m) => last' \in PlanAdmin \union plans[m].creators \union (IF m \in Personal THEN {m[2]} ELSE {})
                      /\ m \in Personal /\ plans'[m] # plans[m] => last' \in PlanAdmin \union {m[2]}
    BY DEF ByOwners
  <2>1. CASE m = n
    BY <1>2, <1>4, <2>1 DEF Disturbed
  <2>2. CASE m # n
    BY <1>4, <2>2 DEF Disturbed, Planned
  <2> QED
    BY <2>1, <2>2
<1> QED
  BY <1>3, <1>5, <1>6, <1>7

\* A request that passed its check: what it may act on.
LEMMA MayActIsEntitled ==
  ASSUME PlanInv, NEW u \in Planner, NEW n \in PlanName, Planned(n), MayAct(u, n)
  PROVE  plans[n].id \in Nat /\ Entitled(u, n, plans[n].id)
<1>1. plans[n] \in PlanRec /\ plans[n].id \in Nat \ {0} /\ RowOK(n)
  BY DEF PlanInv, PlanTypes, RowsOK, Planned, PlanRec
<1>2. plans[n].id > 0 /\ plans[n].id <= born[n]
  BY <1>1 DEF RowOK
<1>3. CASE u \in PlanAdmin
  BY <1>1, <1>2, <1>3 DEF Entitled
<1>4. CASE PlanOwner(n) # Unknown /\ PlanOwner(n) = u
  <2>1. CASE n \in Personal
    BY <1>1, <1>2, <1>4, <2>1 DEF RowOK, PlanOwner, Entitled
  <2>2. CASE n \notin Personal
    BY <1>1, <1>2, <1>4, <2>2 DEF RowOK, PlanOwner, Entitled
  <2> QED
    BY <2>1, <2>2
<1> QED
  BY <1>3, <1>4 DEF MayAct

\* A request that arrives, with the rows as they are.
LEMMA PlanReqKept ==
  ASSUME PlanInv, NEW q \in PlanRequest, NEW r \in {NoPlanReq} \union DsmReq \union OpReq,
         planReq' = [planReq EXCEPT ![q] = r], UNCHANGED <<plans, born>>, ReqOK(r)
  PROVE  PlanInv' /\ ByOwners
<1>0. PlanTypes /\ RowsOK /\ ReqsOK
  BY DEF PlanInv
<1>1. PlanTypes' /\ RowsOK'
  BY <1>0 DEF PlanTypes, RowsOK, RowOK, Planned
<1>2. ReqsOK'
  BY <1>0 DEF PlanTypes, ReqsOK, ReqOK, Entitled
<1>3. ByOwners
  BY DEF ByOwners, Disturbed, Planned
<1> QED
  BY <1>1, <1>2, <1>3 DEF PlanInv

\* The rest of a request of which one row is done.
LEMMA RestOfIds ==
  ASSUME PlanInv, NEW q \in PlanRequest, planReq[q].at \in {"remove", "pause", "resume"},
         NEW target \in planReq[q].ids, NextId(q, target)
  PROVE  /\ planReq[q] \in OpReq /\ target \in PlanName \X Nat /\ Entitled(planReq[q].by, target[1], target[2])
         /\ \E r \in {NoPlanReq} \union OpReq :
              /\ planReq' = [planReq EXCEPT ![q] = r]
              /\ r \in OpReq => r.by = planReq[q].by /\ r.ids \subseteq planReq[q].ids
<1>1. planReq[q] \in {NoPlanReq} \union DsmReq \union OpReq
  BY DEF PlanInv, PlanTypes
<1>2. planReq[q] \in OpReq
  BY <1>1, PlanShapes DEF DsmReq
<1>3. target \in PlanName \X Nat /\ Entitled(planReq[q].by, target[1], target[2])
  BY <1>2 DEF PlanInv, ReqsOK, ReqOK, OpReq
<1>4. CASE planReq[q].ids = {target}
  BY <1>2, <1>3, <1>4, PlanShapes DEF NextId, PlanBecomes
<1>5. CASE planReq[q].ids # {target}
  <2> DEFINE r == [planReq[q] EXCEPT !.ids = @ \ {target}]
  <2>1. planReq' = [planReq EXCEPT ![q] = r]
    BY <1>5 DEF NextId, PlanBecomes
  <2>2. r \in OpReq /\ r.by = planReq[q].by /\ r.ids = planReq[q].ids \ {target}
    BY <1>2 DEF OpReq
  <2> HIDE DEF r
  <2>3. r.ids \subseteq planReq[q].ids
    BY <2>2
  <2> QED
    BY <1>2, <1>3, <2>1, <2>2, <2>3
<1> QED
  BY <1>4, <1>5

LEMMA PlanStep == ASSUME PlanInv, [PlanNext]_planVars PROVE PlanInv' /\ (ByOwners \/ UNCHANGED planVars)
<1>0. /\ PlanTypes /\ RowsOK /\ ReqsOK
      /\ plans \in [PlanName -> PlanRec \union {NoPlan}] /\ born \in [PlanName -> Nat]
      /\ planReq \in [PlanRequest -> {NoPlanReq} \union DsmReq \union OpReq]
  BY DEF PlanInv, PlanTypes
\* A create, whatever the request does next.
<1>p. ASSUME NEW q \in PlanRequest, NEW n \in PlanName, NEW by \in Planner \union {Unknown}, n \in Personal => by = n[2],
             Put(n, by), last' = by, NEW r \in {NoPlanReq} \union DsmReq, planReq' = [planReq EXCEPT ![q] = r] \/ planReq' = planReq
      PROVE  PlanInv' /\ ByOwners
  <2>1. /\ plans' \in [PlanName -> PlanRec \union {NoPlan}] /\ born' \in [PlanName -> Nat] /\ RowsOK'
        /\ \A u, id : \A m \in PlanName : id \in Nat /\ Entitled(u, m, id) => Entitled(u, m, id)'
        /\ ByOwners
    BY <1>p, PutKeeps
  <2>2. PlanTypes'
    BY <1>0, <1>p, <2>1 DEF PlanTypes
  <2>3. ReqsOK'
    <3> SUFFICES ASSUME NEW p \in PlanRequest, planReq'[p] \in OpReq, NEW t \in planReq'[p].ids
                 PROVE  Entitled(planReq[p].by, t[1], t[2])'
      BY DEF ReqsOK, ReqOK
    <3>1. planReq'[p] = planReq[p]
      BY <1>0, <1>p, PlanShapes
    <3>2. t \in PlanName \X Nat /\ t[1] \in PlanName /\ t[2] \in Nat
      BY DEF OpReq
    <3>3. Entitled(planReq[p].by, t[1], t[2])
      BY <1>0, <3>1 DEF ReqsOK, ReqOK
    <3>4. PICK u : u = planReq[p].by
      OBVIOUS
    <3>5. Entitled(u, t[1], t[2])'
      BY <2>1, <3>2, <3>3, <3>4
    <3> QED
      BY <3>1, <3>4, <3>5
  <2> QED
    BY <2>1, <2>2, <2>3 DEF PlanInv
<1>1. ASSUME NEW q \in PlanRequest, NEW u \in Planner, NEW k \in Task, CreatePersonal(q, u, k) PROVE PlanInv' /\ ByOwners
  BY <1>1, <1>p, PlanNames DEF CreatePersonal
<1>2. ASSUME NEW q \in PlanRequest, NEW u \in Planner, NEW d \in Digest, CreateShared(q, u, d) PROVE PlanInv' /\ ByOwners
  BY <1>2, <1>p, PlanNames DEF CreateShared
<1>3. ASSUME NEW q \in PlanRequest, NEW u \in Planner, NEW t \in Team, StartDsm(q, u, t) PROVE PlanInv' /\ ByOwners
  <2> DEFINE r == [at |-> "dsm", by |-> u, team |-> t, phase |-> 1]
  <2>1. r \in DsmReq
    BY DEF DsmReq
  <2>2. planReq' = [planReq EXCEPT ![q] = r] /\ UNCHANGED <<plans, born>>
    BY <1>3 DEF StartDsm, PlanBecomes
  <2> HIDE DEF r
  <2> QED
    BY <2>1, <2>2, PlanReqKept, PlanShapes DEF ReqOK
<1>i. PlanInv
  OBVIOUS
<1>d. ASSUME NEW q \in PlanRequest, planReq[q].at = "dsm" PROVE planReq[q] \in DsmReq
  BY <1>0, <1>d, PlanShapes DEF OpReq
<1>4. ASSUME NEW q \in PlanRequest, CreatePhase(q) PROVE PlanInv' /\ ByOwners
  <2>1. planReq[q] \in DsmReq /\ planReq[q].by \in Planner /\ planReq[q].team \in Team /\ planReq[q].phase \in {1, 2, 3}
    BY <1>4, <1>d DEF CreatePhase, DsmReq
  <2> DEFINE n == <<"dsm", planReq[q].team, Phases[planReq[q].phase]>>
             r == IF planReq[q].phase = 3 THEN NoPlanReq ELSE [planReq[q] EXCEPT !.phase = @ + 1]
  <2>2. n \in PlanName /\ n \notin Personal
    BY <2>1, PlanNames
  <2>3. r \in {NoPlanReq} \union DsmReq
    <3>1. planReq[q].phase # 3 => planReq[q].phase + 1 \in {1, 2, 3}
      BY <2>1
    <3> QED
      BY <2>1, <3>1 DEF DsmReq
  <2>4. Put(n, planReq[q].by) /\ last' = planReq[q].by /\ planReq' = [planReq EXCEPT ![q] = r]
    BY <1>4 DEF CreatePhase, PlanBecomes
  <2> HIDE DEF n, r
  <2> QED
    BY <1>p, <2>1, <2>2, <2>3, <2>4
<1>5. ASSUME NEW q \in PlanRequest, CreatePhaseRaises(q) PROVE PlanInv' /\ ByOwners
  BY <1>5, PlanReqKept, PlanShapes DEF CreatePhaseRaises, PlanBecomes, ReqOK
\* A request that has been checked, on rows that exist.
<1>a. ASSUME NEW q \in PlanRequest, NEW u \in Planner, NEW at \in {"remove", "pause", "resume"}, NEW S \in SUBSET PlanName,
             \A m \in S : Planned(m) /\ Entitled(u, m, plans[m].id) /\ plans[m].id \in Nat,
             PlanBecomes(q, [at |-> at, by |-> u, ids |-> {Target(m) : m \in S}]), UNCHANGED <<plans, born>>
      PROVE  PlanInv' /\ ByOwners
  <2> DEFINE r == [at |-> at, by |-> u, ids |-> {Target(m) : m \in S}]
  <2>1. \A m \in S : Target(m) \in PlanName \X Nat /\ Target(m)[1] = m /\ Target(m)[2] = plans[m].id
    BY <1>a DEF Target
  <2>2. r \in OpReq /\ r.by = u /\ r.ids = {Target(m) : m \in S}
    BY <2>1 DEF OpReq
  <2>3. planReq' = [planReq EXCEPT ![q] = r]
    BY <1>a DEF PlanBecomes
  <2> HIDE DEF r
  <2>4. ReqOK(r)
    BY <1>a, <2>1, <2>2 DEF ReqOK
  <2> QED
    BY <1>a, <2>2, <2>3, <2>4, PlanReqKept
<1>6. ASSUME NEW q \in PlanRequest, NEW u \in Planner, NEW n \in PlanName, AskHome(q, u, n) PROVE PlanInv' /\ ByOwners
  <2>1. Card(n) \subseteq PlanName /\ \A m \in Card(n) : Planned(m) /\ MayAct(u, m)
    BY <1>6 DEF AskHome, Card, Existing, MayActOnAll
  <2>2. \A m \in Card(n) : Planned(m) /\ Entitled(u, m, plans[m].id) /\ plans[m].id \in Nat
    BY <1>i, <2>1, MayActIsEntitled
  <2> QED
    BY <1>6, <1>a, <2>1, <2>2 DEF AskHome
<1>7. ASSUME NEW q \in PlanRequest, NEW u \in Planner, NEW n \in PlanName, NEW op \in {"pause", "resume", "remove"},
             AskConsole(q, u, n, op)
      PROVE  PlanInv' /\ ByOwners
  <2>1. Entitled(u, n, plans[n].id) /\ plans[n].id \in Nat /\ Planned(n)
    BY <1>i, <1>7, MayActIsEntitled DEF AskConsole
  <2>2. PICK S \in SUBSET PlanName : S = {n} /\ {Target(n)} = {Target(m) : m \in S}
    OBVIOUS
  <2>3. PlanBecomes(q, [at |-> op, by |-> u, ids |-> {Target(m) : m \in S}]) /\ UNCHANGED <<plans, born>>
    BY <1>7, <2>2 DEF AskConsole
  <2>4. \A m \in S : Planned(m) /\ Entitled(u, m, plans[m].id) /\ plans[m].id \in Nat
    BY <2>1, <2>2
  <2> QED
    BY <1>a, <2>3, <2>4
<1>8. ASSUME NEW q \in PlanRequest, NEW u \in Planner, NEW k \in Task, AskTool(q, u, k) PROVE PlanInv' /\ ByOwners
  <2>1. PICK n \in PlanName : n = PersonalName(u, k) /\ n[2] = u /\ n \in Personal
    BY PlanNames
  <2>2. Planned(n) /\ UNCHANGED <<plans, born>>
    BY <1>8, <2>1 DEF AskTool
  <2>3. PlanOwner(n) = u /\ u # Unknown
    <3>1. plans[n].owner \in {u, Unknown}
      BY <1>0, <2>1, <2>2 DEF RowsOK, RowOK
    <3> QED
      BY <2>1, <3>1, PlanAssumption DEF PlanOwner
  <2>4. Entitled(u, n, plans[n].id) /\ plans[n].id \in Nat
    BY <1>i, <2>2, <2>3, MayActIsEntitled DEF MayAct
  <2>5. PICK S \in SUBSET PlanName : S = {n} /\ {Target(n)} = {Target(m) : m \in S}
    OBVIOUS
  <2>6. PlanBecomes(q, [at |-> "remove", by |-> u, ids |-> {Target(m) : m \in S}])
    BY <1>8, <2>1, <2>5 DEF AskTool
  <2>7. \A m \in S : Planned(m) /\ Entitled(u, m, plans[m].id) /\ plans[m].id \in Nat
    BY <2>2, <2>4, <2>5
  <2> QED
    BY <1>a, <2>2, <2>6, <2>7
<1>9. ASSUME NEW q \in PlanRequest, Apply(q) PROVE PlanInv' /\ ByOwners
  <2>1. PICK target \in planReq[q].ids :
          /\ plans' = IF plans[target[1]].id # target[2] THEN plans
                      ELSE IF planReq[q].at = "remove" THEN [plans EXCEPT ![target[1]] = NoPlan]
                      ELSE [plans EXCEPT ![target[1]].enabled = (planReq[q].at = "resume")]
          /\ last' = planReq[q].by /\ NextId(q, target)
    BY <1>9 DEF Apply
  <2>2. planReq[q].at \in {"remove", "pause", "resume"} /\ UNCHANGED born
    BY <1>9 DEF Apply
  <2>3. /\ planReq[q] \in OpReq /\ target \in PlanName \X Nat /\ Entitled(planReq[q].by, target[1], target[2])
        /\ \E r \in {NoPlanReq} \union OpReq :
             /\ planReq' = [planReq EXCEPT ![q] = r]
             /\ r \in OpReq => r.by = planReq[q].by /\ r.ids \subseteq planReq[q].ids
    BY <1>i, <2>1, <2>2, RestOfIds
  <2>4. PICK r \in {NoPlanReq} \union OpReq :
             /\ planReq' = [planReq EXCEPT ![q] = r]
             /\ r \in OpReq => r.by = planReq[q].by /\ r.ids \subseteq planReq[q].ids
    BY <2>3
  <2>5. PICK n \in PlanName, id \in Nat : n = target[1] /\ id = target[2]
    BY <2>3
  <2>6. PICK by \in Planner : by = planReq[q].by
    BY <2>3 DEF OpReq
  <2>7. Entitled(by, n, id) /\ id > 0
    BY <2>3, <2>5, <2>6 DEF Entitled
  \* The row as it is now: gone, or paused or resumed.
  <2>8. \/ plans' = plans
        \/ /\ plans[n].id = id /\ Planned(n)
           /\ \E row \in PlanRec \union {NoPlan} :
                /\ plans' = [plans EXCEPT ![n] = row]
                /\ row # NoPlan => row.id = plans[n].id /\ row.owner = plans[n].owner /\ row.creators = plans[n].creators
    <3>1. CASE plans[n].id # id
      BY <2>1, <2>5, <3>1
    <3>2. CASE plans[n].id = id
      <4>1. Planned(n) /\ plans[n] \in PlanRec
        BY <1>0, <2>7, <3>2, PlanShapes DEF Planned
      <4>2. CASE planReq[q].at = "remove"
        BY <2>1, <2>5, <3>2, <4>1, <4>2
      <4>3. CASE planReq[q].at # "remove"
        <5> DEFINE row == [plans[n] EXCEPT !.enabled = (planReq[q].at = "resume")]
        <5>1. plans' = [plans EXCEPT ![n] = row]
          BY <2>1, <2>5, <3>2, <4>3
        <5>2. row \in PlanRec /\ row.id = plans[n].id /\ row.owner = plans[n].owner /\ row.creators = plans[n].creators
          BY <4>1 DEF PlanRec
        <5> HIDE DEF row
        <5> QED
          BY <3>2, <4>1, <5>1, <5>2
      <4> QED
        BY <4>2, <4>3
    <3> QED
      BY <3>1, <3>2
  <2>9. CASE plans' = plans
    <3>1. ReqOK(r)
      <4> SUFFICES ASSUME r \in OpReq, NEW t \in r.ids PROVE Entitled(r.by, t[1], t[2])
        BY DEF ReqOK
      <4> QED
        BY <1>0, <2>3, <2>4 DEF ReqsOK, ReqOK
    <3> QED
      BY <1>i, <2>2, <2>4, <2>9, <3>1, PlanReqKept
  <2>10. CASE \E row \in PlanRec \union {NoPlan} :
                /\ plans[n].id = id /\ Planned(n)
                /\ plans' = [plans EXCEPT ![n] = row]
                /\ row # NoPlan => row.id = plans[n].id /\ row.owner = plans[n].owner /\ row.creators = plans[n].creators
    <3>1. PICK row \in PlanRec \union {NoPlan} :
                /\ plans[n].id = id /\ Planned(n)
                /\ plans' = [plans EXCEPT ![n] = row]
                /\ row # NoPlan => row.id = plans[n].id /\ row.owner = plans[n].owner /\ row.creators = plans[n].creators
      BY <2>10
    <3>2. PlanTypes'
      BY <1>0, <2>2, <2>4, <3>1 DEF PlanTypes
    <3>3. /\ plans'[n] = row
          /\ \A m \in PlanName : m # n => plans'[m] = plans[m]
      BY <1>0, <3>1
    <3>4. RowsOK'
      <4> SUFFICES ASSUME NEW m \in PlanName PROVE RowOK(m)'
        BY DEF RowsOK
      <4>1. RowOK(m)
        BY <1>0 DEF RowsOK
      <4> QED
        BY <2>2, <3>1, <3>3, <4>1 DEF RowOK, Planned
    <3>5. ASSUME NEW u, NEW m \in PlanName, NEW i \in Nat, Entitled(u, m, i) PROVE Entitled(u, m, i)'
      <4>1. CASE m # n
        BY <2>2, <3>3, <3>5, <4>1 DEF Entitled
      <4>2. CASE m = n /\ row = NoPlan
        <5>1. i > 0 /\ plans'[m].id = 0
          BY <3>3, <3>5, <4>2, PlanShapes DEF Entitled
        <5>2. plans'[m].id # i
          BY <5>1
        <5> QED
          BY <2>2, <3>5, <5>2 DEF Entitled
      <4>3. CASE m = n /\ row # NoPlan
        BY <2>2, <3>1, <3>3, <3>5, <4>3 DEF Entitled
      <4> QED
        BY <4>1, <4>2, <4>3
    <3>6. ReqsOK'
      <4> SUFFICES ASSUME NEW p \in PlanRequest, planReq'[p] \in OpReq, NEW t \in planReq'[p].ids
                   PROVE  Entitled(planReq[p].by, t[1], t[2])'
        BY DEF ReqsOK, ReqOK
      <4>1. planReq'[p].by = planReq[p].by /\ t \in planReq[p].ids /\ planReq[p] \in OpReq
        BY <1>0, <2>3, <2>4
      <4>2. PICK u : u = planReq[p].by
        OBVIOUS
      <4>3. PICK m \in PlanName, i \in Nat : m = t[1] /\ i = t[2]
        BY <4>1 DEF OpReq
      <4>4. Entitled(u, m, i)
        BY <1>0, <4>1, <4>2, <4>3 DEF ReqsOK, ReqOK
      <4>5. Entitled(u, m, i)'
        BY <3>5, <4>4
      <4> QED
        BY <4>1, <4>2, <4>3, <4>5
    <3>7. ByOwners
      <4> SUFFICES ASSUME NEW m \in PlanName
                   PROVE  /\ Disturbed(m) => last' \in PlanAdmin \union plans[m].creators \union (IF m \in Personal THEN {m[2]} ELSE {})
                          /\ m \in Personal /\ plans'[m] # plans[m] => last' \in PlanAdmin \union {m[2]}
        BY DEF ByOwners
      <4>1. CASE m = n
        <5>1. by \in PlanAdmin \/ ((by \in plans[n].creators \/ (n \in Personal /\ by = n[2])) /\ (n \in Personal => by = n[2]))
          BY <2>7, <3>1 DEF Entitled
        <5> QED
          BY <2>1, <2>6, <4>1, <5>1
      <4>2. CASE m # n
        BY <3>3, <4>2 DEF Disturbed, Planned
      <4> QED
        BY <4>1, <4>2
    <3> QED
      BY <3>2, <3>4, <3>6, <3>7 DEF PlanInv
  <2> QED
    BY <2>8, <2>9, <2>10
<1>10. ASSUME NEW q \in PlanRequest, ApplyRaises(q) PROVE PlanInv' /\ ByOwners
  <2>1. PICK target \in planReq[q].ids : NextId(q, target)
    BY <1>10 DEF ApplyRaises
  <2>2. planReq[q].at \in {"remove", "pause", "resume"} /\ UNCHANGED <<plans, born>>
    BY <1>10 DEF ApplyRaises
  <2>3. /\ planReq[q] \in OpReq
        /\ \E r \in {NoPlanReq} \union OpReq :
             /\ planReq' = [planReq EXCEPT ![q] = r]
             /\ r \in OpReq => r.by = planReq[q].by /\ r.ids \subseteq planReq[q].ids
    BY <1>i, <2>1, <2>2, RestOfIds
  <2>4. PICK r \in {NoPlanReq} \union OpReq :
             /\ planReq' = [planReq EXCEPT ![q] = r]
             /\ r \in OpReq => r.by = planReq[q].by /\ r.ids \subseteq planReq[q].ids
    BY <2>3
  <2>5. ReqOK(r)
    <3> SUFFICES ASSUME r \in OpReq, NEW t \in r.ids PROVE Entitled(r.by, t[1], t[2])
      BY DEF ReqOK
    <3> QED
      BY <1>0, <2>3, <2>4 DEF ReqsOK, ReqOK
  <2> QED
    BY <1>i, <2>2, <2>4, <2>5, PlanReqKept
<1>11. CASE UNCHANGED planVars
  BY <1>0, <1>11 DEF planVars, PlanInv, PlanTypes, RowsOK, RowOK, Planned, ReqsOK, ReqOK, Entitled
<1> QED
  BY <1>1, <1>2, <1>3, <1>4, <1>5, <1>6, <1>7, <1>8, <1>9, <1>10, <1>11 DEF PlanNext, HandlePlan, CreatePlan, AskPlan

LEMMA PlanInvariant == PlanSpec => []PlanInv
<1>1. PlanInit => PlanInv
  BY InitPlans
<1>2. PlanInv /\ [PlanNext]_planVars => PlanInv'
  BY PlanStep
<1> QED
  BY <1>1, <1>2, PTL DEF PlanSpec

\* However requests overlap between their check and their effect, and whatever rows are
\* made anew meanwhile, a schedule is touched for its creators and admins alone, a personal
\* one for its user and admins, and both lists show a member the same personal schedules.
THEOREM OwnersActAlone == PlanSpec => OnlyOwnersAct
<1>1. PlanInv /\ [PlanNext]_planVars => [ByOwners]_planVars
  BY PlanStep
<1>2. PlanInv => \A u \in Planner \ PlanAdmin : ListRaw(u) = ListRows(u)
  <2>1. PlanInv => \A n \in Personal : Planned(n) => PlanOwner(n) = n[2]
    BY PlanNames DEF PlanInv, RowsOK, RowOK, PlanOwner
  <2> QED
    BY <2>1 DEF ListRaw, ListRows, Existing
<1> QED
  BY <1>1, <1>2, PlanInvariant, PTL DEF PlanSpec, OnlyOwnersAct

-----------------------------------------------------------------------------
(* The skill library                                                        *)

CallOrNone == LibraryCall \union {NoLibraryCall}

LibraryTypes ==
  /\ skills \in [SkillSlug -> Skill \union {NoSkill}]
  /\ files \in [SkillSlug -> Author \union {"none", "curated"}]
  /\ calls \in [LibraryRequest -> CallOrNone]

\* The repository's skills are in the library, and no call is about one.
CuratedOK ==
  /\ \A s \in Curated : /\ ~InTable(s) /\ files[s] # "none" /\ s \in loaded
                        /\ s \notin disturbed => files[s] = "curated"
  /\ \A r \in LibraryRequest : calls[r].slug \notin Curated

\* A call that has passed its check and has writes before it.
Writes(c, s) == c.slug = s /\ c.pc # "look"

\* What such a call has found, and what it has written, is so.
WriterOK(c) ==
  LET s == c.slug
  IN  /\ c.pc = "upsert" => c.found = InTable(s) /\ (InTable(s) => MayChange(s, c.user))
      /\ c.pc = "edit"   => InTable(s) /\ MayChange(s, c.user)
      /\ c.pc = "file"   => InTable(s) /\ skills[s].text = c.user
      /\ c.pc = "delete" => InTable(s)
      /\ c.pc = "remove" => ~InTable(s)
      /\ c.pc = "reload" => files[s] = skills[s].text

\* An undisturbed skill has at most one writer; without one its file follows its row.
SlugOK(s) ==
  /\ \A r, o \in LibraryRequest : Writes(calls[r], s) /\ Writes(calls[o], s) => r = o
  /\ \A r \in LibraryRequest : Writes(calls[r], s) => WriterOK(calls[r])
  /\ (\A r \in LibraryRequest : ~Writes(calls[r], s)) => files[s] = skills[s].text

SlugsOK == \A s \in SkillSlug \ (Curated \union disturbed) : SlugOK(s)

LibraryInv == LibraryTypes /\ CuratedOK /\ SlugsOK

LEMMA LibraryShapes ==
  /\ NoLibraryCall.slug = "none" /\ NoLibraryCall.pc = "idle" /\ NoLibraryCall \in CallOrNone
  /\ NoLibraryCall.slug \notin SkillSlug
  /\ NoSkill.text = "none" /\ \A row \in Skill : row # NoSkill /\ row.text \in Author /\ row.author \in Author
  /\ \A c \in CallOrNone : c.pc # "idle" => c \in LibraryCall
  /\ \A c \in LibraryCall : c.slug \in SkillSlug /\ c.user \in Author /\ c.pc # "idle" /\ c # NoLibraryCall
BY LibraryAssumption DEF NoLibraryCall, NoSkill, Skill, LibraryCall, CallOrNone

LEMMA InitLibrary == ASSUME LibraryInit PROVE LibraryInv
<1>1. LibraryTypes
  BY LibraryShapes DEF LibraryInit, LibraryTypes
<1>2. CuratedOK
  BY LibraryShapes, LibraryAssumption DEF LibraryInit, CuratedOK, InTable
<1>3. SlugsOK
  BY LibraryShapes DEF LibraryInit, SlugsOK, SlugOK, Writes
<1> QED
  BY <1>1, <1>2, <1>3 DEF LibraryInv

\* A step of one call, on the skill s: the others' skills are as they were, and so is s
\* if another call may write it.
LEMMA CallStep ==
  ASSUME LibraryInv, NEW r \in LibraryRequest, NEW s \in SkillSlug \ Curated, NEW c \in CallOrNone,
         calls' = [calls EXCEPT ![r] = c], c.slug = s \/ c = NoLibraryCall,
         calls[r].slug = s \/ calls[r] = NoLibraryCall,
         skills' \in [SkillSlug -> Skill \union {NoSkill}], files' \in [SkillSlug -> Author \union {"none", "curated"}],
         \A t \in SkillSlug \ {s} : skills'[t] = skills[t] /\ files'[t] = files[t],
         Curated \subseteq loaded', disturbed \subseteq disturbed',
         disturbed' \intersect Curated \subseteq disturbed,
         s \notin disturbed' =>
           /\ Writes(c, s) => WriterOK(c)' /\ \A o \in LibraryRequest \ {r} : ~Writes(calls[o], s)
           /\ ~Writes(c, s) /\ (\A o \in LibraryRequest \ {r} : ~Writes(calls[o], s)) => files'[s] = skills'[s].text
           /\ \/ skills'[s] = skills[s] /\ files'[s] = files[s]
              \/ \A o \in LibraryRequest \ {r} : ~Writes(calls[o], s)
  PROVE  LibraryInv'
<1>0. /\ LibraryTypes /\ CuratedOK /\ SlugsOK /\ calls \in [LibraryRequest -> CallOrNone]
  BY DEF LibraryInv, LibraryTypes
<1>1. LibraryTypes'
  BY <1>0 DEF LibraryTypes
<1>2. calls'[r] = c /\ \A o \in LibraryRequest : o # r => calls'[o] = calls[o]
  BY <1>0
<1>3. CuratedOK'
  <2>1. \A o \in LibraryRequest : calls'[o].slug \notin Curated
    BY <1>0, <1>2, LibraryShapes, LibraryAssumption DEF CuratedOK
  <2>2. \A z \in Curated : z \in SkillSlug \ {s}
    BY LibraryAssumption
  <2> QED
    BY <1>0, <2>1, <2>2 DEF CuratedOK, InTable
<1>4. SlugsOK'
  <2> SUFFICES ASSUME NEW z \in SkillSlug \ Curated, z \notin disturbed' PROVE SlugOK(z)'
    BY DEF SlugsOK
  <2>1. SlugOK(z)
    BY <1>0 DEF SlugsOK
  <2>2. CASE z # s
    <3>1. ~Writes(c, z) /\ ~Writes(calls[r], z)
      BY <2>2, LibraryShapes DEF Writes
    <3>2. \A o \in LibraryRequest : /\ Writes(calls[o], z) <=> Writes(calls'[o], z)
                                    /\ Writes(calls[o], z) => calls'[o] = calls[o]
      BY <1>2, <3>1
    <3>3. skills'[z] = skills[z] /\ files'[z] = files[z]
      BY <2>2
    <3> QED
      BY <2>1, <3>2, <3>3 DEF SlugOK, WriterOK, Writes, InTable, MayChange
  <2>3. CASE z = s
    <3>1. /\ Writes(c, s) => WriterOK(c)' /\ \A o \in LibraryRequest \ {r} : ~Writes(calls[o], s)
          /\ ~Writes(c, s) /\ (\A o \in LibraryRequest \ {r} : ~Writes(calls[o], s)) => files'[s] = skills'[s].text
          /\ \/ skills'[s] = skills[s] /\ files'[s] = files[s]
             \/ \A o \in LibraryRequest \ {r} : ~Writes(calls[o], s)
      BY <2>3
    <3>2. CASE \A o \in LibraryRequest \ {r} : ~Writes(calls[o], s)
      <4>1. \A o \in LibraryRequest : o # r => ~Writes(calls'[o], s)
        BY <1>2, <3>2
      <4>2. WriterOK(calls[r])' <=> WriterOK(c)'
        BY <1>2 DEF WriterOK
      <4> QED
        BY <1>2, <2>3, <3>1, <3>2, <4>1, <4>2 DEF SlugOK, Writes
    <3>3. CASE \E o \in LibraryRequest \ {r} : Writes(calls[o], s)
      <4>1. skills'[s] = skills[s] /\ files'[s] = files[s] /\ ~Writes(c, s)
        BY <3>1, <3>3
      <4>2. ASSUME NEW o \in LibraryRequest, Writes(calls'[o], s) PROVE Writes(calls[o], s) /\ o # r /\ calls'[o] = calls[o]
        BY <1>2, <4>1, <4>2
      <4>3. \A p, o \in LibraryRequest : Writes(calls'[p], s) /\ Writes(calls'[o], s) => p = o
        BY <2>1, <2>3, <4>2 DEF SlugOK
      <4>4. \A o \in LibraryRequest : Writes(calls'[o], s) => WriterOK(calls[o])'
        BY <2>1, <2>3, <4>1, <4>2 DEF SlugOK, WriterOK, Writes, InTable, MayChange
      <4>5. \E o \in LibraryRequest : Writes(calls'[o], s)
        BY <1>2, <3>3
      <4> QED
        BY <2>3, <4>3, <4>4, <4>5 DEF SlugOK, Writes
    <3> QED
      BY <3>2, <3>3
  <2> QED
    BY <2>2, <2>3
<1> QED
  BY <1>1, <1>3, <1>4 DEF LibraryInv

LEMMA TextsStay == ASSUME UNCHANGED skills PROVE WrittenByOwners
BY DEF WrittenByOwners, InTable

LEMMA LibraryStepOK == ASSUME LibraryInv, [LibraryNext]_libraryVars PROVE LibraryInv' /\ (WrittenByOwners \/ UNCHANGED libraryVars)
<1>0. /\ LibraryTypes /\ CuratedOK /\ SlugsOK /\ calls \in [LibraryRequest -> CallOrNone]
      /\ skills \in [SkillSlug -> Skill \union {NoSkill}] /\ files \in [SkillSlug -> Author \union {"none", "curated"}]
  BY DEF LibraryInv, LibraryTypes
<1>i. LibraryInv
  OBVIOUS
<1>l. Curated \subseteq loaded /\ Curated \subseteq Names
  BY <1>0, LibraryAssumption DEF CuratedOK, Names
\* A call that is at work, and what its skill is like.
<1>c. ASSUME NEW r \in LibraryRequest, calls[r].pc # "idle"
      PROVE  /\ calls[r] \in LibraryCall /\ calls[r].slug \in SkillSlug \ Curated /\ calls[r].user \in Author
             /\ calls[r].pc # "look" /\ calls[r].slug \notin disturbed =>
                  /\ WriterOK(calls[r])
                  /\ \A o \in LibraryRequest \ {r} : ~Writes(calls[o], calls[r].slug)
             /\ calls[r].slug \notin disturbed /\ (\A o \in LibraryRequest : ~Writes(calls[o], calls[r].slug)) =>
                  files[calls[r].slug] = skills[calls[r].slug].text
  <2>1. calls[r] \in LibraryCall /\ calls[r].slug \in SkillSlug /\ calls[r].user \in Author
    BY <1>0, <1>c, LibraryShapes
  <2>2. calls[r].slug \notin Curated
    BY <1>0 DEF CuratedOK
  <2>3. calls[r].slug \notin disturbed => SlugOK(calls[r].slug)
    BY <1>0, <2>1, <2>2 DEF SlugsOK
  <2>4. calls[r].pc # "look" => Writes(calls[r], calls[r].slug)
    BY DEF Writes
  <2> QED
    BY <2>1, <2>2, <2>3, <2>4 DEF SlugOK
\* Its next state: at another step, or over.
<1>g. ASSUME NEW r \in LibraryRequest, calls[r].pc # "idle",
             NEW pc \in {"look", "upsert", "edit", "file", "delete", "remove", "reload"}, GoesOnAt(r, pc)
      PROVE  \E c \in LibraryCall : /\ calls' = [calls EXCEPT ![r] = c] /\ c.pc = pc /\ c.slug = calls[r].slug
                                    /\ c.user = calls[r].user /\ c.found = calls[r].found /\ c.kind = calls[r].kind
  <2> DEFINE c == [calls[r] EXCEPT !.pc = pc]
  <2>1. calls[r] \in LibraryCall
    BY <1>c, <1>g
  <2>2. c \in LibraryCall /\ c.pc = pc /\ c.slug = calls[r].slug /\ c.user = calls[r].user /\ c.found = calls[r].found
        /\ c.kind = calls[r].kind
    BY <2>1 DEF LibraryCall
  <2>3. calls' = [calls EXCEPT ![r] = c]
    BY <1>g DEF GoesOnAt
  <2> HIDE DEF c
  <2> QED
    BY <2>2, <2>3
<1>n. \A r \in LibraryRequest : CallOver(r) => calls' = [calls EXCEPT ![r] = NoLibraryCall]
  BY DEF CallOver
<1>w. \A s \in SkillSlug : ~Writes(NoLibraryCall, s)
  BY LibraryShapes DEF Writes
\* The check of a new call: nothing is written.
<1>k. ASSUME NEW r \in LibraryRequest, NEW s \in SkillSlug \ Curated, NEW c \in LibraryCall, c.slug = s,
             calls' = [calls EXCEPT ![r] = c], calls[r].slug = s \/ calls[r] = NoLibraryCall,
             UNCHANGED <<skills, files, loaded>>, (c.pc = "look" /\ UNCHANGED disturbed) \/ Mark(r, s),
             c.pc # "look" => WriterOK(c), ~Writes(calls[r], s)
      PROVE  LibraryInv'
  <2>1. disturbed \subseteq disturbed' /\ disturbed' \intersect Curated \subseteq disturbed
    BY <1>k DEF Mark
  <2>2. c.pc # "look" /\ s \notin disturbed' => \A o \in LibraryRequest \ {r} : ~Writes(calls[o], s)
    BY <1>k DEF Mark, Contended, Writes
  <2>3. WriterOK(c) => WriterOK(c)'
    BY <1>k DEF WriterOK, InTable, MayChange
  <2>4. Writes(c, s) <=> c.pc # "look"
    BY <1>k DEF Writes
  <2>5. s \notin disturbed /\ (\A o \in LibraryRequest \ {r} : ~Writes(calls[o], s)) => files[s] = skills[s].text
    BY <1>0, <1>k DEF SlugsOK, SlugOK
  <2>6. c \in CallOrNone
    BY DEF CallOrNone
  <2>7. s \notin disturbed' =>
           /\ Writes(c, s) => WriterOK(c)' /\ \A o \in LibraryRequest \ {r} : ~Writes(calls[o], s)
           /\ ~Writes(c, s) /\ (\A o \in LibraryRequest \ {r} : ~Writes(calls[o], s)) => files'[s] = skills'[s].text
           /\ skills'[s] = skills[s] /\ files'[s] = files[s]
    BY <1>k, <2>1, <2>2, <2>3, <2>4, <2>5
  <2> QED
    BY <1>0, <1>i, <1>k, <1>l, <2>1, <2>6, <2>7, CallStep
<1>1. ASSUME NEW r \in LibraryRequest, NEW s \in SkillSlug, NEW u \in Author, Propose(r, s, u) PROVE LibraryInv' /\ WrittenByOwners
  <2>1. PICK kind \in {"author", "create"} :
          /\ ~IsBuiltin(IF kind = "author" THEN loaded ELSE Names, s)
          /\ calls' = [calls EXCEPT ![r] = [kind |-> kind, slug |-> s, user |-> u, found |-> FALSE, pc |-> "look"]]
    BY <1>1 DEF Propose
  <2> DEFINE c == [kind |-> kind, slug |-> s, user |-> u, found |-> FALSE, pc |-> "look"]
  <2>2. s \notin Curated
    BY <1>0, <1>l, <2>1 DEF IsBuiltin, CuratedOK
  <2>3. c \in LibraryCall /\ c.slug = s /\ c.pc = "look"
    BY DEF LibraryCall
  <2>4. /\ calls[r] = NoLibraryCall /\ UNCHANGED <<skills, files, loaded, disturbed>>
        /\ calls' = [calls EXCEPT ![r] = c]
    BY <1>1, <2>1 DEF Propose
  <2> HIDE DEF c
  <2> QED
    BY <1>k, <1>w, <2>2, <2>3, <2>4, TextsStay
<1>2. ASSUME NEW r \in LibraryRequest, Look(r) PROVE LibraryInv' /\ WrittenByOwners
  <2> DEFINE s == calls[r].slug
             found == InTable(s)
             at == IF found /\ calls[r].kind = "author" THEN "edit" ELSE "upsert"
             c == [calls[r] EXCEPT !.found = found, !.pc = at]
  <2>1. /\ calls[r].pc = "look" /\ UNCHANGED <<skills, files, loaded>>
        /\ calls[r] \in LibraryCall /\ s \in SkillSlug \ Curated /\ ~Writes(calls[r], s)
    BY <1>2, <1>c DEF Look, Writes
  <2>2. CASE found /\ ~MayChange(s, calls[r].user)
    <3>1. calls' = [calls EXCEPT ![r] = NoLibraryCall] /\ UNCHANGED disturbed
      BY <1>2, <2>2 DEF Look, CallOver
    <3>2. s \notin disturbed /\ (\A o \in LibraryRequest \ {r} : ~Writes(calls[o], s)) => files[s] = skills[s].text
      BY <1>c, <2>1
    <3> HIDE DEF s
    <3> QED
      BY <1>0, <1>i, <1>l, <1>w, <2>1, <3>1, <3>2, CallStep, LibraryShapes, TextsStay DEF s
  <2>3. CASE ~(found /\ ~MayChange(s, calls[r].user))
    <3>1. calls' = [calls EXCEPT ![r] = c] /\ Mark(r, s)
      BY <1>0, <1>2, <2>3 DEF Look
    <3>2. at \in {"edit", "upsert"} /\ (at = "edit" => found) /\ found \in BOOLEAN
      BY DEF InTable
    <3> HIDE DEF at
    <3>3. c \in LibraryCall /\ c.slug = s /\ c.user = calls[r].user /\ c.pc = at /\ c.found = found
      BY <2>1, <3>2 DEF LibraryCall
    <3> HIDE DEF c
    <3>4. WriterOK(c)
      BY <2>3, <3>2, <3>3 DEF WriterOK
    <3> QED
      BY <1>k, <2>1, <3>1, <3>3, <3>4, TextsStay
  <2> QED
    BY <2>2, <2>3
<1>3. ASSUME NEW r \in LibraryRequest, NEW s \in SkillSlug, NEW u \in Author, AskSave(r, s, u) \/ AskRetire(r, s, u)
      PROVE  LibraryInv' /\ WrittenByOwners
  <2>1. /\ calls[r] = NoLibraryCall /\ InTable(s) /\ Mark(r, s) /\ UNCHANGED <<skills, files, loaded>>
        /\ \E c \in LibraryCall : /\ calls' = [calls EXCEPT ![r] = c] /\ c.slug = s /\ c.user = u
                                   /\ c.pc \in {"edit", "delete"} /\ (c.pc = "edit" => MayChange(s, u))
    <3>1. CASE AskSave(r, s, u)
      <4> DEFINE c == [kind |-> "save", slug |-> s, user |-> u, found |-> TRUE, pc |-> "edit"]
      <4>1. c \in LibraryCall /\ c.slug = s /\ c.user = u /\ c.pc = "edit"
        BY DEF LibraryCall
      <4>2. calls' = [calls EXCEPT ![r] = c]
        BY <3>1 DEF AskSave
      <4> HIDE DEF c
      <4> QED
        BY <3>1, <4>1, <4>2 DEF AskSave
    <3>2. CASE AskRetire(r, s, u)
      <4>1. PICK kind \in {"retire", "retireChat"} :
              calls' = [calls EXCEPT ![r] = [kind |-> kind, slug |-> s, user |-> u, found |-> TRUE, pc |-> "delete"]]
        BY <3>2 DEF AskRetire
      <4> DEFINE c == [kind |-> kind, slug |-> s, user |-> u, found |-> TRUE, pc |-> "delete"]
      <4>2. c \in LibraryCall /\ c.slug = s /\ c.user = u /\ c.pc = "delete"
        BY DEF LibraryCall
      <4>3. calls' = [calls EXCEPT ![r] = c]
        BY <4>1
      <4> HIDE DEF c
      <4> QED
        BY <3>2, <4>2, <4>3 DEF AskRetire
    <3> QED
      BY <1>3, <3>1, <3>2
  <2>2. s \notin Curated
    BY <1>0, <2>1 DEF CuratedOK
  <2>3. PICK c \in LibraryCall : /\ calls' = [calls EXCEPT ![r] = c] /\ c.slug = s /\ c.user = u
                                   /\ c.pc \in {"edit", "delete"} /\ (c.pc = "edit" => MayChange(s, u))
    BY <2>1
  <2>4. WriterOK(c)
    BY <2>1, <2>3 DEF WriterOK
  <2> QED
    BY <1>k, <1>w, <2>1, <2>2, <2>3, <2>4, TextsStay
\* A step of a call at work that leaves the library loaded: what it leaves behind.
<1>s. ASSUME NEW r \in LibraryRequest, calls[r].pc \notin {"idle", "look"}, NEW c \in CallOrNone,
             calls' = [calls EXCEPT ![r] = c], c.slug = calls[r].slug \/ c = NoLibraryCall,
             skills' \in [SkillSlug -> Skill \union {NoSkill}], files' \in [SkillSlug -> Author \union {"none", "curated"}],
             \A t \in SkillSlug \ {calls[r].slug} : skills'[t] = skills[t] /\ files'[t] = files[t],
             Curated \subseteq loaded',
             UNCHANGED disturbed \/ disturbed' = disturbed \union {calls[r].slug},
             calls[r].slug \notin disturbed' =>
               IF c = NoLibraryCall THEN files'[calls[r].slug] = skills'[calls[r].slug].text ELSE c.pc # "look" /\ WriterOK(c)'
      PROVE  LibraryInv'
  <2>1. PICK s : s = calls[r].slug
    OBVIOUS
  <2>2. s \in SkillSlug \ Curated /\ (s \notin disturbed => \A o \in LibraryRequest \ {r} : ~Writes(calls[o], s))
    BY <1>c, <1>s, <2>1
  <2>3. disturbed \subseteq disturbed' /\ disturbed' \intersect Curated \subseteq disturbed
    BY <1>s, <2>1, <2>2
  <2>4. IF c = NoLibraryCall THEN ~Writes(c, s) ELSE c.pc # "look" => Writes(c, s)
    BY <1>s, <1>w, <2>1, <2>2 DEF Writes
  <2>5. s \notin disturbed' =>
           /\ Writes(c, s) => WriterOK(c)' /\ \A o \in LibraryRequest \ {r} : ~Writes(calls[o], s)
           /\ ~Writes(c, s) /\ (\A o \in LibraryRequest \ {r} : ~Writes(calls[o], s)) => files'[s] = skills'[s].text
           /\ \A o \in LibraryRequest \ {r} : ~Writes(calls[o], s)
    BY <1>s, <2>1, <2>2, <2>3, <2>4
  <2> QED
    BY <1>i, <1>s, <2>1, <2>2, <2>3, <2>5, CallStep
<1>4. ASSUME NEW r \in LibraryRequest, Upsert(r) PROVE LibraryInv' /\ WrittenByOwners
  <2>1. PICK s : s = calls[r].slug
    OBVIOUS
  <2>2. PICK u : u = calls[r].user
    OBVIOUS
  <2>3. /\ calls[r].pc = "upsert" /\ UNCHANGED <<files, loaded, disturbed>>
        /\ skills' = [skills EXCEPT ![s] = UpsertRow(skills[s], u)]
        /\ GoesOnAt(r, IF calls[r].found THEN "file" ELSE "edit")
    BY <1>4, <2>1, <2>2 DEF Upsert
  <2>4. /\ s \in SkillSlug /\ u \in Author
        /\ s \notin disturbed => calls[r].found = InTable(s) /\ (InTable(s) => MayChange(s, u))
    BY <1>c, <2>1, <2>2, <2>3 DEF WriterOK
  <2>5. PICK row \in Skill : /\ skills' = [skills EXCEPT ![s] = row] /\ row.text = u
                             /\ row.author = IF InTable(s) THEN skills[s].author ELSE u
    <3> DEFINE row == UpsertRow(skills[s], u)
    <3>1. row \in Skill /\ row.text = u /\ row.author = IF InTable(s) THEN skills[s].author ELSE u
      <4>1. CASE skills[s] = NoSkill
        BY <2>4, <4>1 DEF UpsertRow, InTable, Skill
      <4>2. CASE skills[s] # NoSkill
        BY <1>0, <2>4, <4>2 DEF UpsertRow, InTable, Skill
      <4> QED
        BY <4>1, <4>2
    <3>2. skills' = [skills EXCEPT ![s] = row]
      BY <2>3
    <3> HIDE DEF row
    <3> QED
      BY <3>1, <3>2
  <2>6. skills'[s] = row /\ skills' \in [SkillSlug -> Skill \union {NoSkill}] /\ \A t \in SkillSlug \ {s} : skills'[t] = skills[t]
    BY <1>0, <2>4, <2>5
  <2>7. WrittenByOwners
    BY <2>2, <2>4, <2>5, <2>6 DEF WrittenByOwners, MayChange
  <2>8. PICK c \in LibraryCall : /\ calls' = [calls EXCEPT ![r] = c] /\ c.slug = s /\ c.user = u
                                 /\ c.pc = IF calls[r].found THEN "file" ELSE "edit"
    BY <1>g, <2>1, <2>2, <2>3
  <2>9. s \notin disturbed => WriterOK(c)'
    BY <2>4, <2>5, <2>6, <2>8, LibraryShapes DEF WriterOK, InTable, MayChange
  <2>10. c \in CallOrNone /\ c # NoLibraryCall /\ c.pc # "look"
    BY <2>8, LibraryShapes DEF CallOrNone
  <2> QED
    BY <1>0, <1>l, <1>s, <2>1, <2>3, <2>6, <2>7, <2>8, <2>9, <2>10
<1>5. ASSUME NEW r \in LibraryRequest, Edit(r) PROVE LibraryInv' /\ WrittenByOwners
  <2>1. PICK s : s = calls[r].slug
    OBVIOUS
  <2>2. PICK u : u = calls[r].user
    OBVIOUS
  <2>3. /\ calls[r].pc = "edit" /\ UNCHANGED <<files, loaded, disturbed>>
    BY <1>5 DEF Edit
  <2>4. /\ s \in SkillSlug /\ u \in Author
        /\ s \notin disturbed => InTable(s) /\ MayChange(s, u)
    BY <1>c, <2>1, <2>2, <2>3 DEF WriterOK
  <2>5. CASE InTable(s)
    <3>1. skills' = [skills EXCEPT ![s].text = u] /\ GoesOnAt(r, "file")
      BY <1>5, <2>1, <2>2, <2>5 DEF Edit
    <3>2. PICK row \in Skill : skills' = [skills EXCEPT ![s] = row] /\ row.text = u /\ row.author = skills[s].author
      <4> DEFINE row == [skills[s] EXCEPT !.text = u]
      <4>1. row \in Skill /\ row.text = u /\ row.author = skills[s].author
        BY <1>0, <2>4, <2>5 DEF InTable, Skill
      <4>2. skills' = [skills EXCEPT ![s] = row]
        BY <3>1
      <4> HIDE DEF row
      <4> QED
        BY <4>1, <4>2
    <3>3. skills'[s] = row /\ skills' \in [SkillSlug -> Skill \union {NoSkill}] /\ \A t \in SkillSlug \ {s} : skills'[t] = skills[t]
      BY <1>0, <2>4, <3>2
    <3>4. WrittenByOwners
      BY <2>4, <3>2, <3>3 DEF WrittenByOwners, MayChange
    <3>5. PICK c \in LibraryCall : calls' = [calls EXCEPT ![r] = c] /\ c.slug = s /\ c.user = u /\ c.pc = "file"
      BY <1>g, <2>1, <2>2, <2>3, <3>1
    <3>6. WriterOK(c)'
      BY <3>2, <3>3, <3>5, LibraryShapes DEF WriterOK, InTable
    <3>7. c \in CallOrNone /\ c # NoLibraryCall /\ c.pc # "look"
      BY <3>5, LibraryShapes DEF CallOrNone
    <3> QED
      BY <1>0, <1>l, <1>s, <2>1, <2>3, <3>3, <3>4, <3>5, <3>6, <3>7
  <2>6. CASE ~InTable(s)
    <3>1. UNCHANGED skills /\ (GoesOnAt(r, "reload") \/ CallOver(r))
      BY <1>5, <2>1, <2>6 DEF Edit
    <3>2. PICK c \in CallOrNone : calls' = [calls EXCEPT ![r] = c] /\ (c.slug = s \/ c = NoLibraryCall)
      <4>1. CASE GoesOnAt(r, "reload")
        BY <1>g, <2>1, <2>3, <4>1 DEF CallOrNone
      <4>2. CASE CallOver(r)
        BY <1>n, <4>2, LibraryShapes
      <4> QED
        BY <3>1, <4>1, <4>2
    <3> QED
      BY <1>0, <1>l, <1>s, <2>1, <2>3, <2>4, <2>6, <3>1, <3>2, TextsStay
  <2> QED
    BY <2>5, <2>6
<1>6. ASSUME NEW r \in LibraryRequest, WriteFile(r) PROVE LibraryInv' /\ WrittenByOwners
  <2>1. PICK s : s = calls[r].slug
    OBVIOUS
  <2>2. PICK u : u = calls[r].user
    OBVIOUS
  <2>3. /\ calls[r].pc = "file" /\ UNCHANGED <<skills, loaded, disturbed>>
        /\ files' = [files EXCEPT ![s] = u] /\ (GoesOnAt(r, "reload") \/ CallOver(r))
    BY <1>6, <2>1, <2>2 DEF WriteFile
  <2>4. s \in SkillSlug /\ u \in Author /\ (s \notin disturbed => skills[s].text = u)
    BY <1>c, <2>1, <2>2, <2>3 DEF WriterOK
  <2>5. /\ files'[s] = u /\ files' \in [SkillSlug -> Author \union {"none", "curated"}]
        /\ \A t \in SkillSlug \ {s} : files'[t] = files[t]
    BY <1>0, <2>3, <2>4
  <2>6. CASE GoesOnAt(r, "reload")
    <3>1. PICK c \in LibraryCall : calls' = [calls EXCEPT ![r] = c] /\ c.slug = s /\ c.pc = "reload"
      BY <1>g, <2>1, <2>3, <2>6
    <3>2. s \notin disturbed => WriterOK(c)'
      BY <2>3, <2>4, <2>5, <3>1 DEF WriterOK
    <3>3. c \in CallOrNone /\ c # NoLibraryCall /\ c.pc # "look"
      BY <3>1, LibraryShapes DEF CallOrNone
    <3> QED
      BY <1>0, <1>l, <1>s, <2>1, <2>3, <2>5, <3>1, <3>2, <3>3, TextsStay
  <2>7. CASE CallOver(r)
    BY <1>0, <1>l, <1>n, <1>s, <2>1, <2>3, <2>4, <2>5, <2>7, LibraryShapes, TextsStay
  <2> QED
    BY <2>3, <2>6, <2>7
<1>7. ASSUME NEW r \in LibraryRequest, WriteRaises(r) PROVE LibraryInv' /\ WrittenByOwners
  <2>1. calls[r].pc = "file" /\ UNCHANGED <<skills, files, loaded>> /\ disturbed' = disturbed \union {calls[r].slug}
    BY <1>7 DEF WriteRaises
  <2> QED
    BY <1>0, <1>7, <1>l, <1>n, <1>s, <2>1, LibraryShapes, TextsStay DEF WriteRaises
<1>8. ASSUME NEW r \in LibraryRequest, Reload(r) PROVE LibraryInv' /\ WrittenByOwners
  <2>1. calls[r].pc = "reload" /\ UNCHANGED <<skills, files, disturbed>> /\ loaded' \in {loaded, Names} /\ CallOver(r)
    BY <1>8 DEF Reload
  <2>2. calls[r].slug \notin disturbed => files[calls[r].slug] = skills[calls[r].slug].text
    BY <1>c, <2>1 DEF WriterOK
  <2>3. Curated \subseteq loaded'
    BY <1>l, <2>1
  <2> QED
    BY <1>0, <1>n, <1>s, <2>1, <2>2, <2>3, LibraryShapes, TextsStay
<1>9. ASSUME NEW r \in LibraryRequest, DeleteRow(r) PROVE LibraryInv' /\ WrittenByOwners
  <2>1. PICK s : s = calls[r].slug
    OBVIOUS
  <2>2. /\ calls[r].pc = "delete" /\ UNCHANGED <<files, loaded, disturbed>>
        /\ skills' = [skills EXCEPT ![s] = NoSkill]
        /\ GoesOnAt(r, "remove") \/ (~InTable(s) /\ CallOver(r))
    BY <1>9, <2>1 DEF DeleteRow
  <2>3. s \in SkillSlug /\ (s \notin disturbed => InTable(s))
    BY <1>c, <2>1, <2>2 DEF WriterOK
  <2>4. /\ skills'[s] = NoSkill /\ skills' \in [SkillSlug -> Skill \union {NoSkill}]
        /\ \A t \in SkillSlug \ {s} : skills'[t] = skills[t]
    BY <1>0, <2>2, <2>3
  <2>5. WrittenByOwners
    BY <2>4 DEF WrittenByOwners
  <2>6. CASE GoesOnAt(r, "remove")
    <3>1. PICK c \in LibraryCall : calls' = [calls EXCEPT ![r] = c] /\ c.slug = s /\ c.pc = "remove"
      BY <1>g, <2>1, <2>2, <2>6
    <3>2. WriterOK(c)'
      BY <2>4, <3>1 DEF WriterOK, InTable
    <3>3. c \in CallOrNone /\ c # NoLibraryCall /\ c.pc # "look"
      BY <3>1, LibraryShapes DEF CallOrNone
    <3> QED
      BY <1>0, <1>l, <1>s, <2>1, <2>2, <2>4, <2>5, <3>1, <3>2, <3>3
  <2>7. CASE ~InTable(s) /\ CallOver(r)
    BY <1>0, <1>l, <1>n, <1>s, <2>1, <2>2, <2>3, <2>4, <2>5, <2>7, LibraryShapes
  <2> QED
    BY <2>2, <2>6, <2>7
<1>10. ASSUME NEW r \in LibraryRequest, RemoveFiles(r) PROVE LibraryInv' /\ WrittenByOwners
  <2>1. PICK s : s = calls[r].slug
    OBVIOUS
  <2>2. /\ calls[r].pc = "remove" /\ UNCHANGED <<skills, loaded>> /\ (GoesOnAt(r, "reload") \/ CallOver(r))
        /\ \/ files' = [files EXCEPT ![s] = "none"] /\ UNCHANGED disturbed
           \/ disturbed' = disturbed \union {s} /\ UNCHANGED files
    BY <1>10, <2>1 DEF RemoveFiles
  <2>3. s \in SkillSlug /\ (s \notin disturbed => ~InTable(s))
    BY <1>c, <2>1, <2>2 DEF WriterOK
  <2>4. /\ files' \in [SkillSlug -> Author \union {"none", "curated"}] /\ \A t \in SkillSlug \ {s} : files'[t] = files[t]
        /\ s \notin disturbed' => s \notin disturbed /\ files'[s] = "none"
        /\ UNCHANGED disturbed \/ disturbed' = disturbed \union {s}
    BY <1>0, <2>2, <2>3
  <2>5. s \notin disturbed' => files'[s] = skills'[s].text /\ skills'[s] = skills[s]
    BY <2>2, <2>3, <2>4, LibraryShapes DEF InTable
  <2>6. CASE GoesOnAt(r, "reload")
    <3>1. PICK c \in LibraryCall : calls' = [calls EXCEPT ![r] = c] /\ c.slug = s /\ c.pc = "reload"
      BY <1>g, <2>1, <2>2, <2>6
    <3>2. s \notin disturbed' => WriterOK(c)'
      BY <2>5, <3>1 DEF WriterOK
    <3>3. c \in CallOrNone /\ c # NoLibraryCall /\ c.pc # "look"
      BY <3>1, LibraryShapes DEF CallOrNone
    <3> QED
      BY <1>0, <1>l, <1>s, <2>1, <2>2, <2>4, <3>1, <3>2, <3>3, TextsStay
  <2>7. CASE CallOver(r)
    BY <1>0, <1>l, <1>n, <1>s, <2>1, <2>2, <2>4, <2>5, <2>7, LibraryShapes, TextsStay
  <2> QED
    BY <2>2, <2>6, <2>7
<1>11. ASSUME NEW s \in SkillSlug, NEW u \in Author, NEW pinned \in BOOLEAN, SetPinned(s, u, pinned)
       PROVE  LibraryInv' /\ WrittenByOwners
  <2>1. /\ InTable(s) /\ UNCHANGED <<files, loaded, calls, disturbed>>
        /\ skills' = [skills EXCEPT ![s].pinned = pinned]
    BY <1>11 DEF SetPinned
  <2>2. PICK row \in Skill : skills' = [skills EXCEPT ![s] = row] /\ row.text = skills[s].text /\ row.author = skills[s].author
    <3> DEFINE row == [skills[s] EXCEPT !.pinned = pinned]
    <3>1. row \in Skill /\ row.text = skills[s].text /\ row.author = skills[s].author
      BY <1>0, <2>1 DEF InTable, Skill
    <3>2. skills' = [skills EXCEPT ![s] = row]
      BY <2>1
    <3> HIDE DEF row
    <3> QED
      BY <3>1, <3>2
  <2>3. skills' \in [SkillSlug -> Skill \union {NoSkill}]
    BY <1>0, <2>2
  <2>4. \A t \in SkillSlug : /\ InTable(t)' <=> InTable(t)
                             /\ skills'[t].text = skills[t].text /\ skills'[t].author = skills[t].author
    BY <1>0, <2>1, <2>2, LibraryShapes DEF InTable
  <2>5. LibraryTypes' /\ CuratedOK'
    BY <1>0, <2>1, <2>3, <2>4, LibraryAssumption DEF LibraryTypes, CuratedOK
  <2>6. \A c \in CallOrNone : c.slug \in SkillSlug /\ WriterOK(c) => WriterOK(c)'
    BY <2>1, <2>4 DEF WriterOK, MayChange, InTable
  <2>7. ASSUME NEW z \in SkillSlug, SlugOK(z) PROVE SlugOK(z)'
    <3>1. \A o \in LibraryRequest : Writes(calls[o], z) => WriterOK(calls[o])'
      BY <1>0, <2>1, <2>6, <2>7 DEF SlugOK, Writes
    <3> QED
      BY <2>1, <2>4, <2>7, <3>1 DEF SlugOK
  <2>8. SlugsOK'
    BY <1>0, <2>1, <2>7 DEF SlugsOK
  <2>9. WrittenByOwners
    BY <2>4 DEF WrittenByOwners
  <2> QED
    BY <2>5, <2>8, <2>9 DEF LibraryInv
<1>12. ASSUME NEW s \in SkillSlug, NEW u \in Author, Manage(s, u) PROVE LibraryInv' /\ WrittenByOwners
  <2>1. /\ UNCHANGED <<skills, calls>> /\ disturbed' = disturbed \union {s} /\ loaded \subseteq loaded' /\ s \in loaded'
        /\ files' = [files EXCEPT ![s] = u]
    BY <1>12 DEF Manage
  <2>2. /\ files' \in [SkillSlug -> Author \union {"none", "curated"}] /\ files'[s] # "none"
        /\ \A t \in SkillSlug : t # s => files'[t] = files[t]
    BY <1>0, <2>1, LibraryAssumption
  <2>3. CuratedOK'
    BY <1>0, <2>1, <2>2, LibraryAssumption DEF CuratedOK, InTable
  <2>4. ASSUME NEW z \in SkillSlug, z # s, SlugOK(z) PROVE SlugOK(z)'
    <3>1. \A o \in LibraryRequest : Writes(calls[o], z) => WriterOK(calls[o])'
      BY <2>1, <2>2, <2>4 DEF SlugOK, Writes, WriterOK, InTable, MayChange
    <3> QED
      BY <2>1, <2>2, <2>4, <3>1 DEF SlugOK
  <2>5. SlugsOK'
    BY <1>0, <2>1, <2>4 DEF SlugsOK
  <2> QED
    BY <1>0, <2>1, <2>2, <2>3, <2>5, TextsStay DEF LibraryInv, LibraryTypes
<1>13. CASE LibraryRestart
  <2>1. /\ UNCHANGED skills /\ calls' = [r \in LibraryRequest |-> NoLibraryCall]
        /\ files' = [s \in SkillSlug |-> IF InTable(s) THEN skills[s].text ELSE files[s]]
        /\ loaded' = {s \in SkillSlug : files'[s] # "none"}
        /\ disturbed' = {s \in SkillSlug : files'[s] # "none" /\ ~InTable(s)} \ (Curated \ disturbed)
    BY <1>13 DEF LibraryRestart
  <2>2. \A s \in SkillSlug : /\ InTable(s) => files'[s] = skills[s].text /\ skills[s].text \in Author
                             /\ ~InTable(s) => files'[s] = files[s] /\ skills[s].text = "none"
    BY <1>0, <2>1, LibraryShapes DEF InTable
  <2>3. LibraryTypes'
    BY <1>0, <2>1, <2>2, LibraryShapes DEF LibraryTypes
  <2>4. CuratedOK'
    <3>1. \A r \in LibraryRequest : calls'[r].slug \notin Curated
      BY <2>1, LibraryShapes, LibraryAssumption
    <3>2. ASSUME NEW s \in Curated
          PROVE  /\ ~InTable(s)' /\ files'[s] # "none" /\ s \in loaded'
                 /\ s \notin disturbed' => files'[s] = "curated"
      <4>1. s \in SkillSlug /\ ~InTable(s) /\ files[s] # "none" /\ (s \notin disturbed => files[s] = "curated")
        BY <1>0, LibraryAssumption DEF CuratedOK
      <4>2. files'[s] = files[s] /\ s \in loaded'
        BY <2>1, <2>2, <4>1
      <4>3. s \in disturbed => s \in disturbed'
        BY <2>1, <4>1, <4>2
      <4> QED
        BY <2>1, <4>1, <4>2, <4>3 DEF InTable
    <3> QED
      BY <3>1, <3>2 DEF CuratedOK
  <2>5. SlugsOK'
    <3> SUFFICES ASSUME NEW s \in SkillSlug \ Curated, s \notin disturbed' PROVE SlugOK(s)'
      BY DEF SlugsOK
    <3>1. files'[s] = skills'[s].text
      BY <2>1, <2>2
    <3>2. \A r \in LibraryRequest : ~Writes(calls'[r], s)
      BY <1>w, <2>1
    <3> QED
      BY <3>1, <3>2 DEF SlugOK
  <2> QED
    BY <2>1, <2>3, <2>4, <2>5, TextsStay DEF LibraryInv
<1>14. CASE UNCHANGED libraryVars
  <2>1. SlugsOK'
    BY <1>0, <1>14 DEF libraryVars, SlugsOK, SlugOK, Writes, WriterOK, InTable, MayChange
  <2> QED
    BY <1>0, <1>14, <2>1 DEF libraryVars, LibraryInv, LibraryTypes, CuratedOK, InTable
<1> QED
  BY <1>1, <1>2, <1>3, <1>4, <1>5, <1>6, <1>7, <1>8, <1>9, <1>10, <1>11, <1>12, <1>13, <1>14 DEF LibraryNext, LibraryStep

LEMMA LibraryInvariant == LibrarySpec => []LibraryInv
BY InitLibrary, LibraryStepOK, PTL DEF LibrarySpec

\* The skill library: a curated skill has no row and its file stays the repository's,
\* an authored skill has its row's text in its file when nobody is at work on it, and a text
\* is changed by its author or an admin alone, but where writers have overlapped or one
\* has stopped midway; for all skills, users, numbers of calls
\* in flight and of failures.
THEOREM LibraryIsKept == LibrarySpec => LibraryHolds
<1>1. ASSUME LibraryInv PROVE CuratedStay /\ FilesFollowRows
  <2>0. LibraryTypes /\ CuratedOK /\ SlugsOK
    BY <1>1 DEF LibraryInv
  <2>1. CuratedStay
    BY <2>0 DEF CuratedOK, CuratedStay
  <2>2. FilesFollowRows
    BY <2>0 DEF SlugsOK, SlugOK, Writes, FilesFollowRows
  <2> QED
    BY <2>1, <2>2
<1>2. LibraryInv /\ [LibraryNext]_libraryVars => [WrittenByOwners]_libraryVars
  BY LibraryStepOK
<1> QED
  BY <1>1, <1>2, LibraryInvariant, PTL DEF LibrarySpec, LibraryHolds

-----------------------------------------------------------------------------
(* What admins set                                                          *)

ModelValue == Model \union Vendor \union {NoModel}
Store      == [ModelKey -> ModelValue]
ChangeRec  == [at : {"idle", "write", "tell", "done"}, left : SUBSET ModelKey, picks : Store,
               told : {Matrix(st) : st \in Store}, alone : BOOLEAN]
Version    == {v \in [name : Prompt, content : UNION {PromptText[p] : p \in Prompt}] : v.content \in PromptText[v.name]}

SettingsTypes == /\ stored \in Store /\ change \in [SettingsAdmin -> ChangeRec]
                 /\ versions \in Seq(Version) /\ behind \in BOOLEAN

\* A request that is alone has no other beside it, and what it has written is in the store
\* as it was picked; what it tells last is the matrix of that store.
AloneInStore(a) ==
  /\ change[a].at = "write" => change[a].left # {}
  /\ change[a].at = "done" => change[a].left = {}
  /\ change[a].at # "idle" /\ change[a].alone =>
       /\ \A b \in SettingsAdmin \ {a} : change[b].at = "idle"
       /\ \A k \in ModelKey \ change[a].left : change[a].picks[k] # NoModel => stored[k] = change[a].picks[k]
       /\ change[a].at = "done" => change[a].told = Matrix(stored)

SettingsInv == /\ SettingsTypes /\ (\A a \in SettingsAdmin : AloneInStore(a))
               /\ (~behind => assistant = Assistant(stored))

LEMMA SettingsShapes ==
  /\ Unset \in Store /\ NoChange \in ChangeRec /\ NoChange.at = "idle"
BY DEF Unset, Store, ModelValue, NoChange, ChangeRec

\* There is a first of the keys to be written.
LEMMA FirstOfLeft == ASSUME NEW left \in SUBSET ModelKey, left # {} PROVE NextKey(left) \in left
<1>1. \A k \in ModelKey : k \in {"chat", "build", "review", "heavy"}
  BY DEF ModelKey, Role
<1>2. \E k \in left : \A l \in left : KeyTurn[k] <= KeyTurn[l]
  <2>0. /\ KeyTurn["chat"] = 1 /\ KeyTurn["build"] = 2 /\ KeyTurn["review"] = 3 /\ KeyTurn["heavy"] = 4
        /\ \A l \in left : l = "chat" \/ l = "build" \/ l = "review" \/ l = "heavy"
    BY <1>1 DEF KeyTurn
  <2>1. CASE "chat" \in left
    BY <2>0, <2>1
  <2>2. CASE "chat" \notin left /\ "build" \in left
    BY <2>0, <2>2
  <2>3. CASE "chat" \notin left /\ "build" \notin left /\ "review" \in left
    BY <2>0, <2>3
  <2>4. CASE "chat" \notin left /\ "build" \notin left /\ "review" \notin left
    <3>1. left = {"heavy"}
      BY <2>0, <2>4
    <3> QED
      BY <2>0, <3>1
  <2> QED
    BY <2>1, <2>2, <2>3, <2>4
<1> QED
  BY <1>2 DEF NextKey

\* The steps that write nothing leave the assistant as it is behind, or not.
LEMMA SameAssistant ==
  ASSUME ~behind => assistant = Assistant(stored), UNCHANGED <<stored, versions, assistant, behind>>
  PROVE  (~behind => assistant = Assistant(stored))'
BY DEF Assistant, Current

LEMMA InitSettings == ASSUME SettingsInit PROVE SettingsInv
<1>1. /\ stored = Unset /\ versions = <<>> /\ assistant = Assistant(Unset) /\ behind = FALSE
      /\ change = [a \in SettingsAdmin |-> NoChange]
  BY DEF SettingsInit
<1>2. SettingsTypes
  <2>1. <<>> \in Seq(Version)
    OBVIOUS
  <2>2. [a \in SettingsAdmin |-> NoChange] \in [SettingsAdmin -> ChangeRec]
    BY SettingsShapes
  <2> QED
    BY <1>1, <2>1, <2>2, SettingsShapes DEF SettingsTypes
<1>3. \A a \in SettingsAdmin : AloneInStore(a)
  BY <1>1, SettingsShapes DEF AloneInStore
<1> QED
  BY <1>1, <1>2, <1>3 DEF SettingsInv

\* A request begins: those that were under way are not alone any more.
LEMMA AskStep ==
  ASSUME SettingsInv, NEW a \in SettingsAdmin, NEW left \in SUBSET ModelKey, NEW picks \in Store, AskChange(a, left, picks),
         \A k \in ModelKey : picks[k] # NoModel => k \in left
  PROVE  SettingsInv'
<1>0. SettingsTypes /\ (\A b \in SettingsAdmin : AloneInStore(b)) /\ (~behind => assistant = Assistant(stored))
  BY DEF SettingsInv
<1> DEFINE busy == {b \in SettingsAdmin \ {a} : change[b].at # "idle"}
           new  == [NoChange EXCEPT !.at = "write", !.left = left, !.picks = picks, !.alone = busy = {}]
           old(b) == [change[b] EXCEPT !.alone = @ /\ b \notin busy]
<1>1. /\ left # {} /\ change' = [b \in SettingsAdmin |-> IF b = a THEN new ELSE old(b)]
      /\ UNCHANGED <<stored, versions, assistant, behind>>
  BY DEF AskChange
<1>2. /\ new \in ChangeRec /\ new.at = "write" /\ new.left = left /\ new.picks = picks
      /\ (new.alone => \A b \in SettingsAdmin \ {a} : change[b].at = "idle")
  BY SettingsShapes DEF ChangeRec
<1>3. ASSUME NEW b \in SettingsAdmin PROVE /\ old(b) \in ChangeRec /\ old(b).at = change[b].at
                                          /\ (old(b).alone /\ b # a => change[b].at = "idle")
                                          /\ old(b).left = change[b].left
  <2>1. change[b] \in ChangeRec
    BY <1>0 DEF SettingsTypes
  <2> QED
    BY <2>1 DEF ChangeRec
<1> HIDE DEF busy, new, old
<1>4. change'[a] = new /\ \A b \in SettingsAdmin : b # a => change'[b] = old(b)
  BY <1>1
<1>5. SettingsTypes'
  BY <1>0, <1>1, <1>2, <1>3 DEF SettingsTypes
<1>6. AloneInStore(a)'
  <2>1. new.alone => \A b \in SettingsAdmin \ {a} : change'[b].at = "idle"
    BY <1>2, <1>3, <1>4
  <2> QED
    BY <1>1, <1>2, <1>4, <2>1 DEF AloneInStore
<1>7. ASSUME NEW b \in SettingsAdmin, b # a PROVE AloneInStore(b)'
  BY <1>0, <1>3, <1>4, <1>7 DEF AloneInStore
<1>8. (~behind => assistant = Assistant(stored))'
  BY <1>0, <1>1, SameAssistant
<1> QED
  BY <1>5, <1>6, <1>7, <1>8 DEF SettingsInv

LEMMA SettingsStep == ASSUME SettingsInv, [SettingsNext]_settingsVars PROVE SettingsInv'
<1>0. SettingsTypes /\ (\A a \in SettingsAdmin : AloneInStore(a)) /\ (~behind => assistant = Assistant(stored))
  BY DEF SettingsInv
<1>t. /\ stored \in Store /\ change \in [SettingsAdmin -> ChangeRec] /\ versions \in Seq(Version) /\ behind \in BOOLEAN
  BY <1>0 DEF SettingsTypes
<1>1. ASSUME NEW a \in SettingsAdmin, NEW kv \in Overrides, Override(a, kv[1], kv[2]) PROVE SettingsInv'
  <2>1. kv[1] \in ModelKey /\ kv[2] \in ModelValue
    BY RequestAssumption DEF ModelValue
  <2>2. [Unset EXCEPT ![kv[1]] = kv[2]] \in Store /\ \A k \in ModelKey : [Unset EXCEPT ![kv[1]] = kv[2]][k] # NoModel => k \in {kv[1]}
    BY <2>1 DEF Unset, Store, ModelValue
  <2> QED
    BY <1>1, <2>1, <2>2, AskStep DEF Override
<1>2. ASSUME NEW a \in SettingsAdmin, NEW picks \in Picks, SubmitPicks(a, picks) PROVE SettingsInv'
  <2> DEFINE asked == [k \in ModelKey |-> IF k \in Role THEN picks[k] ELSE NoModel]
             left  == {r \in Role : picks[r] # NoModel}
  <2>1. picks \in [Role -> Model \union {NoModel}]
    BY RequestAssumption
  <2>2. asked \in Store /\ left \in SUBSET ModelKey /\ \A k \in ModelKey : asked[k] # NoModel => k \in left
    BY <2>1 DEF Store, ModelValue, ModelKey
  <2>3. AskChange(a, left, asked)
    BY <1>2 DEF SubmitPicks
  <2> HIDE DEF asked, left
  <2> QED
    BY <2>2, <2>3, AskStep
<1>3. ASSUME NEW a \in SettingsAdmin, WriteSetting(a) PROVE SettingsInv'
  <2> DEFINE k == NextKey(change[a].left)
             c == [change[a] EXCEPT !.at = "tell", !.left = @ \ {k}]
  <2>1. /\ change[a].at = "write" /\ stored' = [stored EXCEPT ![k] = change[a].picks[k]]
        /\ change' = [change EXCEPT ![a] = c] /\ behind' = TRUE /\ UNCHANGED versions
    BY <1>3, <1>t DEF WriteSetting
  <2>2. change[a] \in ChangeRec /\ change[a].left \in SUBSET ModelKey /\ change[a].left # {} /\ change[a].picks \in Store
    BY <1>0, <1>t, <2>1 DEF AloneInStore, ChangeRec
  <2>3. k \in change[a].left /\ k \in ModelKey
    BY <2>2, FirstOfLeft
  <2>4. c \in ChangeRec /\ c.at = "tell" /\ c.left = change[a].left \ {k} /\ c.picks = change[a].picks /\ c.alone = change[a].alone
    BY <2>2 DEF ChangeRec
  <2> HIDE DEF k, c
  <2>5. change'[a] = c /\ \A b \in SettingsAdmin : b # a => change'[b] = change[b]
    BY <1>t, <2>1
  <2>6. /\ stored' \in Store /\ stored'[k] = change[a].picks[k]
        /\ \A l \in ModelKey : l # k => stored'[l] = stored[l]
    BY <1>t, <2>1, <2>2, <2>3 DEF Store
  <2>7. SettingsTypes'
    BY <1>t, <2>1, <2>4, <2>6 DEF SettingsTypes
  <2>8. AloneInStore(a)'
    BY <1>0, <2>1, <2>3, <2>4, <2>5, <2>6 DEF AloneInStore
  <2>9. ASSUME NEW b \in SettingsAdmin, b # a PROVE AloneInStore(b)'
    <3>1. change[a].at # "idle" /\ change'[b] = change[b]
      BY <2>1, <2>5, <2>9
    <3> QED
      BY <1>0, <2>9, <3>1 DEF AloneInStore
  <2> QED
    BY <2>1, <2>7, <2>8, <2>9 DEF SettingsInv
<1>4. ASSUME NEW a \in SettingsAdmin, NEW blind \in BOOLEAN, TellMatrix(a, blind) PROVE SettingsInv'
  <2>1. PICK st \in Store : st = IF blind THEN Unset ELSE stored
    BY <1>t, SettingsShapes
  <2> DEFINE c == [change[a] EXCEPT !.told = Matrix(st), !.alone = @ /\ ~blind,
                                    !.at = IF change[a].left = {} THEN "done" ELSE "write"]
  <2>2. /\ change[a].at = "tell" /\ change' = [change EXCEPT ![a] = c] /\ UNCHANGED <<stored, versions, assistant, behind>>
    BY <1>4, <1>t, <2>1 DEF TellMatrix
  <2>3. change[a] \in ChangeRec
    BY <1>t
  <2>4. /\ c \in ChangeRec /\ c.at = (IF change[a].left = {} THEN "done" ELSE "write") /\ c.left = change[a].left
        /\ c.picks = change[a].picks /\ c.told = Matrix(st) /\ (c.alone => change[a].alone /\ ~blind)
    BY <2>3 DEF ChangeRec
  <2> HIDE DEF c
  <2>5. change'[a] = c /\ \A b \in SettingsAdmin : b # a => change'[b] = change[b]
    BY <1>t, <2>2
  <2>6. SettingsTypes'
    BY <1>t, <2>2, <2>4 DEF SettingsTypes
  <2>7. AloneInStore(a)'
    <3>1. c.alone => st = stored
      BY <2>1, <2>4
    <3>2. c.alone => Matrix(st) = Matrix(stored)
      BY <3>1
    <3>3. Matrix(stored)' = Matrix(stored)
      BY <2>2 DEF Matrix
    <3> QED
      BY <1>0, <2>2, <2>4, <2>5, <3>2, <3>3 DEF AloneInStore
  <2>8. ASSUME NEW b \in SettingsAdmin, b # a PROVE AloneInStore(b)'
    <3>1. change[a].at # "idle" /\ change'[b] = change[b]
      BY <2>2, <2>5, <2>8
    <3> QED
      BY <1>0, <2>8, <3>1 DEF AloneInStore
  <2>9. (~behind => assistant = Assistant(stored))'
    BY <1>0, <2>2, SameAssistant
  <2> QED
    BY <2>6, <2>7, <2>8, <2>9 DEF SettingsInv
<1>5. ASSUME NEW a \in SettingsAdmin, WriteSettingFails(a) \/ Answered(a) PROVE SettingsInv'
  <2>1. change' = [change EXCEPT ![a] = NoChange] /\ UNCHANGED <<stored, versions, assistant, behind>>
    BY <1>5 DEF WriteSettingFails, Answered
  <2>2. change'[a] = NoChange /\ \A b \in SettingsAdmin : b # a => change'[b] = change[b]
    BY <1>t, <2>1
  <2>3. SettingsTypes'
    BY <1>t, <2>1, SettingsShapes DEF SettingsTypes
  <2>4. \A b \in SettingsAdmin : AloneInStore(b)'
    BY <1>0, <2>1, <2>2, SettingsShapes DEF AloneInStore, Matrix
  <2>5. (~behind => assistant = Assistant(stored))'
    BY <1>0, <2>1, SameAssistant
  <2> QED
    BY <2>3, <2>4, <2>5 DEF SettingsInv
<1>6. ASSUME NEW name \in Prompt, (\E content \in PromptText[name] : SavePrompt(name, content))
                                  \/ (\E id \in 1..MaxSettingChanges : RevertPrompt(name, id))
      PROVE SettingsInv'
  <2>1. PICK content \in PromptText[name] : InsertVersion(name, content)
    <3>1. CASE \E content \in PromptText[name] : SavePrompt(name, content)
      BY <3>1 DEF SavePrompt
    <3>2. CASE \E id \in 1..MaxSettingChanges : RevertPrompt(name, id)
      <4>1. PICK id : id \in DOMAIN versions /\ versions[id].name = name /\ InsertVersion(name, versions[id].content)
        BY <3>2 DEF RevertPrompt
      <4>2. versions[id] \in Version
        BY <1>t, <4>1
      <4> QED
        BY <4>1, <4>2 DEF Version
    <3> QED
      BY <1>6, <3>1, <3>2
  <2>2. PICK v : v = [name |-> name, content |-> content]
    OBVIOUS
  <2>3. versions' = Append(versions, v) /\ behind' = TRUE /\ UNCHANGED <<stored, change>>
    BY <2>1, <2>2 DEF InsertVersion
  <2>4. v \in Version
    BY <2>1, <2>2 DEF Version
  <2>5. versions' \in Seq(Version)
    BY <1>t, <2>3, <2>4
  <2>6. SettingsTypes' /\ \A a \in SettingsAdmin : AloneInStore(a)'
    BY <1>0, <1>t, <2>3, <2>5 DEF SettingsTypes, AloneInStore, Matrix
  <2> QED
    BY <2>3, <2>6 DEF SettingsInv
<1>7. ASSUME NEW blind \in BOOLEAN, SettingsRestart(blind) PROVE SettingsInv'
  <2>1. /\ assistant' = Assistant(IF blind THEN Unset ELSE stored) /\ behind' = blind
        /\ change' = [a \in SettingsAdmin |-> NoChange] /\ UNCHANGED <<stored, versions>>
    BY <1>7 DEF SettingsRestart
  <2>2. SettingsTypes'
    BY <1>t, <2>1, SettingsShapes DEF SettingsTypes
  <2>3. \A a \in SettingsAdmin : AloneInStore(a)'
    BY <2>1, SettingsShapes DEF AloneInStore
  <2>4. (~behind => assistant = Assistant(stored))'
    BY <2>1 DEF Assistant, Current
  <2> QED
    BY <2>2, <2>3, <2>4 DEF SettingsInv
<1>8. CASE UNCHANGED settingsVars
  <2>1. UNCHANGED <<stored, versions, assistant, behind, change>>
    BY <1>8 DEF settingsVars
  <2>2. SettingsTypes' /\ (\A a \in SettingsAdmin : AloneInStore(a)')
    BY <1>0, <2>1 DEF SettingsTypes, AloneInStore, Matrix
  <2> QED
    BY <1>0, <2>1, <2>2, SameAssistant DEF SettingsInv
<1> QED
  BY <1>1, <1>2, <1>3, <1>4, <1>5, <1>6, <1>7, <1>8 DEF SettingsNext

LEMMA SettingsInvariant == SettingsSpec => []SettingsInv
BY InitSettings, SettingsStep, PTL DEF SettingsSpec

\* An answer that no other admin's request and no error has crossed tells the matrix in
\* force, with every Codex model that was picked; a restart switches the assistant to what
\* was set before it, and a prompt holds only what was written for it: for all admins,
\* models, prompts, requests and faults.
THEOREM SettingsAreTold == SettingsSpec => [](NoticeIsTrue /\ RestartSwitches)
<1>1. ASSUME SettingsInv PROVE NoticeIsTrue /\ RestartSwitches
  <2>0. SettingsTypes /\ (\A a \in SettingsAdmin : AloneInStore(a)) /\ (~behind => assistant = Assistant(stored))
    BY <1>1 DEF SettingsInv
  <2>1. ASSUME NEW a \in SettingsAdmin, change[a].at = "done", change[a].alone
        PROVE /\ change[a].told = Matrix(stored)
              /\ \A r \in Role : CodexId(change[a].picks[r]) # NoModel => change[a].told[r] = change[a].picks[r]
    <3>1. /\ change[a].told = Matrix(stored)
          /\ \A k \in ModelKey : change[a].picks[k] # NoModel => stored[k] = change[a].picks[k]
      BY <2>0, <2>1 DEF AloneInStore
    <3>2. ASSUME NEW r \in Role, CodexId(change[a].picks[r]) # NoModel PROVE Matrix(stored)[r] = change[a].picks[r]
      <4>1. change[a].picks[r] # NoModel /\ CodexId(change[a].picks[r]) = change[a].picks[r]
        BY <3>2 DEF CodexId
      <4>2. stored[r] = change[a].picks[r]
        BY <3>1, <4>1 DEF ModelKey
      <4> QED
        BY <3>2, <4>1, <4>2 DEF Matrix, ResolveModelId
    <3> QED
      BY <3>1, <3>2
  <2>2. ASSUME NEW i \in DOMAIN versions PROVE versions[i].content \in PromptText[versions[i].name]
    <3>1. versions[i] \in Version
      BY <2>0, <2>2 DEF SettingsTypes
    <3> QED
      BY <3>1 DEF Version
  <2> QED
    BY <2>0, <2>1, <2>2 DEF NoticeIsTrue, RestartSwitches
<1> QED
  BY <1>1, SettingsInvariant, PTL

\* Which model a task runs on: one of a removed provider only where the environment names it
\* and no Codex model is stored for the task; setting one task's model changes no other's, but
\* that the legacy tier reaches builds and reviews without one of their own.  For all models,
\* stores and environments, those that name a removed provider's model too.  That a review
\* runs on another model than the build is not said: it runs on the one that is set.
THEOREM ModelsResolveApart ==
  ASSUME NEW stores \in SUBSET Store, NEW envs \in SUBSET [Role \union {"heavy", "bott"} -> ModelValue],
         \A env \in envs : env["bott"] # NoModel, Model \intersect Vendor = {}, NoModel \notin Model \union Vendor
  PROVE  ModelsAreSeparate(stores, envs)
<1> SUFFICES ASSUME NEW st \in stores, NEW env \in envs, NEW r \in Role
             PROVE  /\ ResolveModelId(r, st, env) # NoModel
                    /\ ResolveModelId(r, st, env) \in Vendor =>
                         CodexId(st[r]) = NoModel /\ ResolveModelId(r, st, env) = RoleModelId(r, env)
                    /\ \A k \in ModelKey, v \in Model \union Vendor :
                         LET new == ResolveModelId(r, [st EXCEPT ![k] = v], env) IN
                         /\ k = r => new = (IF v \in Vendor THEN ResolveModelId(r, [st EXCEPT ![k] = NoModel], env) ELSE v)
                         /\ new # ResolveModelId(r, st, env) =>
                              k = r \/ (k = "heavy" /\ r # "chat" /\ CodexId(st[r]) = NoModel)
  BY DEF ModelsAreSeparate
<1>0. /\ st \in Store /\ r \in ModelKey /\ "heavy" \in ModelKey /\ r # "heavy"
      /\ env[r] \in ModelValue /\ env["heavy"] \in ModelValue /\ env["bott"] \in Model \union Vendor
  BY DEF ModelKey, Role, ModelValue
<1>1. \A x \in ModelValue : CodexId(x) = (IF x \in Model THEN x ELSE NoModel)
  BY DEF CodexId, ModelValue
<1>2. RoleModelId(r, env) \in Model \union Vendor
  BY <1>0 DEF RoleModelId, ModelValue
<1>3. \A s \in Store : ResolveModelId(r, s, env) = IF s[r] \in Model THEN s[r]
                                                     ELSE IF r # "chat" /\ s["heavy"] \in Model THEN s["heavy"]
                                                     ELSE RoleModelId(r, env)
  BY <1>0, <1>1 DEF ResolveModelId, Store
<1>4. /\ ResolveModelId(r, st, env) # NoModel
      /\ ResolveModelId(r, st, env) \in Vendor =>
           CodexId(st[r]) = NoModel /\ ResolveModelId(r, st, env) = RoleModelId(r, env)
  <2>1. CodexId(st[r]) = (IF st[r] \in Model THEN st[r] ELSE NoModel)
    BY <1>0, <1>1 DEF Store
  <2>2. ResolveModelId(r, st, env) \in Model \union {RoleModelId(r, env)}
    BY <1>0, <1>3
  <2>3. st[r] \in Model => ResolveModelId(r, st, env) = st[r]
    BY <1>0, <1>3
  <2> QED
    BY <1>2, <2>1, <2>2, <2>3
<1>5. ASSUME NEW k \in ModelKey, NEW v \in Model \union Vendor
      PROVE  /\ k = r => ResolveModelId(r, [st EXCEPT ![k] = v], env)
                              = (IF v \in Vendor THEN ResolveModelId(r, [st EXCEPT ![k] = NoModel], env) ELSE v)
             /\ ResolveModelId(r, [st EXCEPT ![k] = v], env) # ResolveModelId(r, st, env) =>
                  k = r \/ (k = "heavy" /\ r # "chat" /\ CodexId(st[r]) = NoModel)
  <2>1. PICK new : new = [st EXCEPT ![k] = v]
    OBVIOUS
  <2>2. PICK bare : bare = [st EXCEPT ![k] = NoModel]
    OBVIOUS
  <2>3. /\ new \in Store /\ new[k] = v /\ \A l \in ModelKey : l # k => new[l] = st[l]
        /\ bare \in Store /\ bare[k] = NoModel /\ \A l \in ModelKey : l # k => bare[l] = st[l]
    BY <1>0, <2>1, <2>2 DEF Store, ModelValue
  <2>4. CASE k = r
    <3>1. bare[r] \notin Model /\ bare["heavy"] = new["heavy"] /\ new[r] = v
      BY <1>0, <2>3, <2>4
    <3>2. ResolveModelId(r, bare, env) = (IF r # "chat" /\ new["heavy"] \in Model THEN new["heavy"] ELSE RoleModelId(r, env))
      BY <1>3, <2>3, <3>1
    <3>3. v \in Vendor => ResolveModelId(r, new, env) = ResolveModelId(r, bare, env)
      BY <1>3, <2>3, <3>1, <3>2
    <3>4. v \notin Vendor => ResolveModelId(r, new, env) = v
      BY <1>3, <2>3, <3>1
    <3> QED
      BY <2>1, <2>2, <2>4, <3>3, <3>4
  <2>5. CASE k # r
    <3>1. new[r] = st[r] /\ (k # "heavy" => new["heavy"] = st["heavy"])
      BY <1>0, <2>3, <2>5
    <3>2. CodexId(st[r]) = (IF st[r] \in Model THEN st[r] ELSE NoModel)
      BY <1>0, <1>1 DEF Store
    <3>3. ResolveModelId(r, new, env) # ResolveModelId(r, st, env) => k = "heavy" /\ r # "chat" /\ st[r] \notin Model
      BY <1>0, <1>3, <2>3, <3>1
    <3> QED
      BY <2>1, <2>5, <3>2, <3>3
  <2> QED
    BY <2>4, <2>5
<1> QED
  BY <1>4, <1>5
=============================================================================
