-------------------------------- MODULE Roles --------------------------------
(***************************************************************************)
(* Who is an admin of the console: BOTT_ADMINS, fixed for the life of the  *)
(* process, united with the role:<email> settings; and the invite:<email>  *)
(* settings that the first sign-in turns into a role.                      *)
(*                                                                         *)
(* Every console request is a thread of its own: what it checks and what   *)
(* it writes are separate transactions on the settings table.              *)
(***************************************************************************)
EXTENDS Naturals, FiniteSets

CONSTANTS
  Person,           \* email addresses
  EnvAdmin,         \* BOTT_ADMINS
  KvAdmin,          \* those with a stored admin role when the process starts
  Outsider,         \* addresses outside allowed_email_domain
  RoleRequest,      \* console requests handled at the same time
  MaxRoleRequests,  \* bound on the requests
  MaxDbErrors       \* bound on failed reads and writes of the settings

\* There is an admin when the process starts.
ASSUME AdminAssumption ==
  /\ EnvAdmin \subseteq Person /\ KvAdmin \subseteq Person /\ EnvAdmin \union KvAdmin # {}
  /\ MaxRoleRequests \in Nat /\ MaxDbErrors \in Nat

VARIABLES
  role,          \* [Person -> "none", "member", "admin"]: the role: settings
  invite,        \* the same of the invite: settings
  roleReq,       \* what each request is about to do
  roleRequests,  \* requests so far
  dbErrors,      \* database errors so far
  used,          \* [Person -> how often the present invite has set their role]
  crossed        \* those whose invite was applied while another request changed or cleared it,
                 \* or stayed because it could not be cleared

roleVars == << role, invite, roleReq, roleRequests, dbErrors, used, crossed >>

NoRequest == [at |-> "idle"]

RoleInit == /\ role = [p \in Person |-> IF p \in KvAdmin THEN "admin" ELSE "none"]
            /\ invite = [p \in Person |-> "none"]
            /\ roleReq = [q \in RoleRequest |-> NoRequest]
            /\ roleRequests = 0 /\ dbErrors = 0
            /\ used = [p \in Person |-> 0]
            /\ crossed = {}

Admins     == EnvAdmin \union {p \in Person : role[p] = "admin"}
is_admin(p) == p \in Admins

DbFails == dbErrors < MaxDbErrors /\ dbErrors' = dbErrors + 1

\* kv_admins() and invites() read as empty when the read fails.
ReadRoles(seen) == \/ seen = Admins /\ UNCHANGED dbErrors
                   \/ seen = EnvAdmin /\ DbFails

Become(q, state) == roleReq' = [roleReq EXCEPT ![q] = state]
End(q)           == Become(q, NoRequest)

-----------------------------------------------------------------------------
(* POST /users/{email}/role                                                *)

Arrives(q) == /\ roleReq[q] = NoRequest /\ roleRequests < MaxRoleRequests
              /\ roleRequests' = roleRequests + 1

\* current_user, require_admin.
AskRole(q, actor, p, r) ==
  /\ Arrives(q) /\ is_admin(actor)
  /\ Become(q, [at |-> "check", p |-> p, role |-> r, then |-> "write"])
  /\ UNCHANGED << role, invite, dbErrors, used, crossed >>

\* The three rejections of set_role.
Rejected_OffByOne(p, r, seen) ==
  r = "member" /\ (p \in EnvAdmin \/ (p \in seen /\ Cardinality(seen) < 1))
Rejected(p, r, seen) ==
  r = "member" /\ (p \in EnvAdmin \/ (p \in seen /\ Cardinality(seen) <= 1))

CheckRole(q) ==
  /\ roleReq[q].at = "check"
  /\ \E seen \in SUBSET Person :
       /\ ReadRoles(seen)
       /\ IF Rejected(roleReq[q].p, roleReq[q].role, seen) THEN End(q)
          ELSE Become(q, [at |-> roleReq[q].then, p |-> roleReq[q].p, role |-> roleReq[q].role, seen |-> seen])
  /\ UNCHANGED << role, invite, roleRequests, used, crossed >>

SetRole(p, r) == role' = [role EXCEPT ![p] = r]

WriteRole(q) ==
  /\ roleReq[q].at = "write"
  /\ SetRole(roleReq[q].p, roleReq[q].role)
  /\ End(q)
  /\ UNCHANGED << invite, roleRequests, dbErrors, used, crossed >>

\* A failed write is the request's error.
WriteFails(q) ==
  /\ roleReq[q].at \in {"write", "apply", "invite", "revoke"}
  /\ DbFails /\ End(q)
  /\ UNCHANGED << role, invite, roleRequests, used, crossed >>

-----------------------------------------------------------------------------
(* POST /users/invite, DELETE /users/invite/{email}                        *)

AskInvite(q, actor, p, r) ==
  /\ Arrives(q) /\ is_admin(actor) /\ p \notin Outsider
  /\ Become(q, [at |-> "invite", p |-> p, role |-> r])
  /\ UNCHANGED << role, invite, dbErrors, used, crossed >>

AddInvite(q) ==
  /\ roleReq[q].at = "invite"
  /\ invite' = [invite EXCEPT ![roleReq[q].p] = roleReq[q].role]
  /\ used' = [used EXCEPT ![roleReq[q].p] = 0]
  /\ End(q)
  /\ UNCHANGED << role, roleRequests, dbErrors, crossed >>

AskRevoke(q, actor, p) ==
  /\ Arrives(q) /\ is_admin(actor) /\ invite[p] # "none"
  /\ Become(q, [at |-> "revoke", p |-> p])
  /\ UNCHANGED << role, invite, dbErrors, used, crossed >>

RevokeInvite(q) ==
  /\ roleReq[q].at = "revoke"
  /\ invite' = [invite EXCEPT ![roleReq[q].p] = "none"]
  /\ End(q)
  /\ UNCHANGED << role, roleRequests, dbErrors, used, crossed >>

-----------------------------------------------------------------------------
(* GET /auth/callback: consume_invite, then the session                    *)

\* Without an invite, or when the invites cannot be read, nothing is written; a
\* rejected invite stays, and the sign-in goes on.
SignIn(q, p) ==
  /\ Arrives(q) /\ p \notin Outsider /\ invite[p] # "none"
  /\ Become(q, [at |-> "check", p |-> p, role |-> invite[p], then |-> "apply"])
  /\ UNCHANGED << role, invite, dbErrors, used, crossed >>

\* consume_invite writes the role first and clears the invite afterwards.
ApplyInvite(q) ==
  /\ roleReq[q].at = "apply"
  /\ LET p == roleReq[q].p IN
       /\ SetRole(p, roleReq[q].role)
       /\ crossed' = IF \/ invite[p] # roleReq[q].role
                        \/ \E o \in RoleRequest : roleReq[o] = [at |-> "clear", p |-> p]
                     THEN crossed \union {p} ELSE crossed
       /\ used' = [used EXCEPT ![p] = @ + 1]
       /\ Become(q, [at |-> "clear", p |-> p])
  /\ UNCHANGED << invite, roleRequests, dbErrors >>

\* Mutant: the invite stays.
ClearInvite_Kept(q) ==
  /\ roleReq[q].at = "clear" /\ End(q)
  /\ UNCHANGED << role, invite, roleRequests, dbErrors, used, crossed >>

ClearInvite(q) ==
  /\ roleReq[q].at = "clear"
  /\ invite' = [invite EXCEPT ![roleReq[q].p] = "none"]
  /\ End(q)
  /\ UNCHANGED << role, roleRequests, dbErrors, used, crossed >>

\* The role is written and the invite is not cleared: the next sign-in applies
\* it again.
ClearFails(q) ==
  /\ roleReq[q].at = "clear" /\ DbFails /\ End(q)
  /\ crossed' = crossed \union {roleReq[q].p}
  /\ UNCHANGED << role, invite, roleRequests, used >>

-----------------------------------------------------------------------------
Handle(q) == \/ CheckRole(q) \/ WriteRole(q) \/ AddInvite(q) \/ RevokeInvite(q)
             \/ ApplyInvite(q) \/ ClearInvite(q)
RoleFault(q)  == WriteFails(q) \/ ClearFails(q)
Ask(q)    == \E p \in Person :
               \/ SignIn(q, p)
               \/ \E actor \in Person :
                    \/ AskRevoke(q, actor, p)
                    \/ \E r \in {"member", "admin"} :
                         AskRole(q, actor, p, r) \/ AskInvite(q, actor, p, r)

RoleNext == \E q \in RoleRequest : Handle(q) \/ RoleFault(q) \/ Ask(q)

RoleSpec == RoleInit /\ [][RoleNext]_roleVars

-----------------------------------------------------------------------------
(* Properties *)

Grant == {"member", "admin"}
Reqs == {NoRequest} \union [at : {"check"}, p : Person, role : Grant, then : {"write", "apply"}]
               \union [at : {"write", "apply"}, p : Person, role : Grant, seen : SUBSET Person]
               \union [at : {"invite"}, p : Person, role : Grant]
               \union [at : {"revoke", "clear"}, p : Person]

\* Type invariant.
RoleTypeOK ==
  /\ role \in [Person -> Grant \union {"none"}] /\ invite \in [Person -> Grant \union {"none"}]
  /\ roleReq \in [RoleRequest -> Reqs]
  /\ roleRequests \in 0 .. MaxRoleRequests /\ dbErrors \in 0 .. MaxDbErrors
  /\ used \in [Person -> Nat] /\ crossed \in SUBSET Person

\* roles.py says that the last remaining admin can never be demoted.  Overlapping
\* demotions, and one that could not read the admins, do it.
SomeoneIsAdmin == Admins # {}

\* What the check does give, in every behaviour: the last admin goes only by a demotion
\* whose view of the admins was wrong.  It did not name them, since the read failed or
\* they were promoted after it, or it named another who has been demoted since.
LastAdminIsGuarded ==
  Admins # {} /\ Admins' = {} =>
    \E q \in RoleRequest :
      /\ roleReq[q].at \in {"write", "apply"} /\ roleReq[q].role = "member" /\ Admins = {roleReq[q].p}
      /\ roleReq[q].p \notin roleReq[q].seen \/ roleReq[q].seen \ Admins # {}

\* An invite sets a role once: a later demotion is not undone by signing in again,
\* but for those whose invite was `crossed`.
InviteUsedOnce(p) == p \in crossed \/ used[p] <= 1

\* The last admin is guarded, and an invite sets a role once.
RolesHold == [][LastAdminIsGuarded]_roleVars /\ [](\A p \in Person : InviteUsedOnce(p))
=============================================================================
