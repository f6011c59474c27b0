-------------------------- MODULE CodexGuardProofs --------------------------
(***************************************************************************)
(* The guard of the Codex login and the chat turns on it, for every number *)
(* of turns and users and for all caps: no slot is lost, the caps hold, a  *)
(* turn waits only for a busy login, and a tool runs as its turn's user.   *)
(***************************************************************************)
EXTENDS ChatTurns, TLAPS, FiniteSetTheorems

Stage == {"new", "wait org", "wait user", "running", "leave user", "leave org", "done"}

\* A turn at the second semaphore has a user.
HasUser == \A t \in Turn : pc[t] \in {"wait user", "leave user"} => Known(t)

\* The inductive invariant: a slot more to give back than there are free ones
\* missing would take the semaphores out of their type.
IInv == TypeOK /\ HasUser /\ SlotsConserved

USE TurnAssumption, UserAssumption

\* What the types say, without the sets they say it with.
LEMMA CapFacts == OrgCap \in Nat /\ OrgCap > 0 /\ PerUser \in Nat /\ PerUser > 0
BY CapAssumption

LEMMA OrgFacts == IInv => orgFree \in Nat /\ orgFree <= OrgCap /\ orgFree + Cardinality(OrgHolders) = OrgCap
<1>1. IInv => orgFree \in 0 .. OrgCap /\ orgFree + Cardinality(OrgHolders) = OrgCap
  BY DEF IInv, TypeOK, SlotsConserved
<1> QED
  BY <1>1, CapFacts

LEMMA UserFacts == IInv => /\ userFree \in [User -> 0 .. PerUser]
                           /\ \A u \in User : /\ userFree[u] \in Nat /\ userFree[u] <= PerUser
                                              /\ userFree[u] + Cardinality(UserHolders(u)) = PerUser
<1>1. IInv => /\ userFree \in [User -> 0 .. PerUser]
              /\ \A u \in User : userFree[u] + Cardinality(UserHolders(u)) = PerUser
  BY DEF IInv, TypeOK, SlotsConserved
<1> QED
  BY <1>1, CapFacts

\* The places of the turns, and the rest of the type.
LEMMA PlaceFacts == IInv => pc \in [Turn -> Stage] /\ HasUser
BY DEF IInv, TypeOK, Stage

LEMMA HoldersAreFinite ==
  /\ IsFiniteSet(OrgHolders) /\ Cardinality(OrgHolders) \in Nat
  /\ \A u \in User : IsFiniteSet(UserHolders(u)) /\ Cardinality(UserHolders(u)) \in Nat
<1>1. OrgHolders \in SUBSET Turn /\ \A u \in User : UserHolders(u) \in SUBSET Turn
  BY DEF OrgHolders, UserHolders, TurnsOf
<1>2. \A S \in SUBSET Turn : IsFiniteSet(S)
  BY FS_Subset
<1> QED
  BY <1>1, <1>2, FS_CardinalityType

LEMMA InitIInv == Init => IInv
<1> SUFFICES ASSUME Init PROVE IInv
  OBVIOUS
<1>1. TypeOK /\ HasUser
  BY CapFacts DEF Init, TypeOK, HasUser
<1>2. OrgHolders = {} /\ \A u \in User : UserHolders(u) = {}
  BY DEF Init, OrgHolders, UserHolders, TurnsOf
<1>3. Cardinality(OrgHolders) = 0 /\ \A u \in User : Cardinality(UserHolders(u)) = 0
  BY <1>2, FS_EmptySet
<1>4. orgFree = OrgCap /\ \A u \in User : userFree[u] = PerUser
  BY DEF Init
<1>5. SlotsConserved
  BY <1>3, <1>4, CapFacts DEF SlotsConserved
<1> QED
  BY <1>1, <1>5 DEF IInv

\* A slot that is taken, or given back, moves between the free ones and the holders.
LEMMA Taken == ASSUME NEW S, IsFiniteSet(S), Cardinality(S) \in Nat, NEW x, x \notin S
               PROVE  Cardinality(S \union {x}) = Cardinality(S) + 1
BY FS_AddElement

LEMMA GivenBack == ASSUME NEW S, IsFiniteSet(S), Cardinality(S) \in Nat, NEW x \in S
                   PROVE  Cardinality(S) >= 1 /\ Cardinality(S \ {x}) = Cardinality(S) - 1
<1>1. Cardinality(S \ {x}) = Cardinality(S) - 1
  BY FS_RemoveElement
<1>2. Cardinality(S \ {x}) \in Nat
  BY FS_RemoveElement, FS_CardinalityType
<1> QED
  BY <1>1, <1>2

LEMMA ArriveIInv == ASSUME IInv, NEW t \in Turn, Arrive(t) PROVE IInv'
<1>1. pc' \in [Turn -> Stage] /\ HasUser'
  BY PlaceFacts DEF Arrive, GoTo, HasUser, Known, Stage
<1>2. OrgHolders' = OrgHolders /\ \A u \in User : UserHolders(u)' = UserHolders(u)
  BY PlaceFacts DEF Arrive, GoTo, OrgHolders, UserHolders, TurnsOf
<1>3. SlotsConserved'
  BY <1>2 DEF Arrive, IInv, SlotsConserved
<1> QED
  BY <1>1, <1>3 DEF Arrive, IInv, TypeOK, Stage

LEMMA AcquireOrgIInv == ASSUME IInv, NEW t \in Turn, AcquireOrg(t) PROVE IInv'
<1>1. pc' \in [Turn -> Stage] /\ HasUser'
  BY PlaceFacts DEF AcquireOrg, GoTo, HasUser, Known, Stage
<1>2. OrgHolders' = OrgHolders \union {t} /\ t \notin OrgHolders
  BY PlaceFacts DEF AcquireOrg, GoTo, OrgHolders
<1>3. ASSUME NEW u \in User PROVE UserHolders(u)' = UserHolders(u)
  BY <1>3, PlaceFacts DEF AcquireOrg, GoTo, Known, UserHolders, TurnsOf
<1>4. Cardinality(OrgHolders') = Cardinality(OrgHolders) + 1
  BY <1>2, HoldersAreFinite, Taken
<1> orgFree > 0 /\ orgFree' = orgFree - 1
  BY DEF AcquireOrg
<1>5. orgFree' \in 0 .. OrgCap
  BY OrgFacts, CapFacts
<1>6. orgFree' + Cardinality(OrgHolders') = OrgCap
  BY <1>4, OrgFacts, CapFacts, HoldersAreFinite
<1>7. SlotsConserved'
  BY <1>3, <1>6, UserFacts DEF AcquireOrg, SlotsConserved
<1> QED
  BY <1>1, <1>5, <1>7, UserFacts DEF AcquireOrg, IInv, TypeOK, Stage

LEMMA AcquireUserIInv == ASSUME IInv, NEW t \in Turn, AcquireUser(t) PROVE IInv'
<1> DEFINE mine == UserOf[t]
<1>1. mine \in User
  BY PlaceFacts DEF AcquireUser, HasUser, Known
<1>2. pc' \in [Turn -> Stage] /\ HasUser'
  BY PlaceFacts DEF AcquireUser, GoTo, HasUser, Known, Stage
<1>3. OrgHolders' = OrgHolders
  BY PlaceFacts DEF AcquireUser, GoTo, OrgHolders
<1>4. UserHolders(mine)' = UserHolders(mine) \union {t} /\ t \notin UserHolders(mine)
  BY PlaceFacts DEF AcquireUser, GoTo, UserHolders, TurnsOf
<1>5. \A u \in User \ {mine} : UserHolders(u)' = UserHolders(u)
  BY PlaceFacts DEF AcquireUser, GoTo, UserHolders, TurnsOf
<1>6. Cardinality(UserHolders(mine)') = Cardinality(UserHolders(mine)) + 1
  BY <1>1, <1>4, HoldersAreFinite, Taken
<1>7. \A u \in User : userFree'[u] = IF u = mine THEN userFree[u] - 1 ELSE userFree[u]
  BY UserFacts DEF AcquireUser
<1>8. userFree[mine] - 1 \in 0 .. PerUser
  <2>1. userFree[mine] > 0
    BY DEF AcquireUser
  <2>2. userFree[mine] \in Nat /\ userFree[mine] <= PerUser
    BY <1>1, UserFacts
  <2> QED
    BY <2>1, <2>2, CapFacts
<1>9. userFree' \in [User -> 0 .. PerUser]
  BY <1>1, <1>8, UserFacts DEF AcquireUser
<1>10. ASSUME NEW u \in User PROVE userFree'[u] + Cardinality(UserHolders(u)') = PerUser
  <2>1. CASE u = mine
    BY <2>1, <1>6, <1>7, UserFacts, CapFacts, HoldersAreFinite
  <2>2. CASE u # mine
    BY <2>2, <1>5, <1>7, UserFacts
  <2> QED
    BY <2>1, <2>2
<1>11. SlotsConserved'
  BY <1>3, <1>10, OrgFacts DEF AcquireUser, SlotsConserved
<1> QED
  BY <1>2, <1>9, <1>11 DEF AcquireUser, IInv, TypeOK, Stage

LEMMA CallEndsIInv == ASSUME IInv, NEW t \in Turn, CallEnds(t) PROVE IInv'
<1>1. pc' \in [Turn -> Stage] /\ HasUser'
  BY PlaceFacts DEF CallEnds, GoTo, HasUser, Known, Stage
<1>2. OrgHolders' = OrgHolders
  BY PlaceFacts DEF CallEnds, GoTo, OrgHolders
<1>3. ASSUME NEW u \in User PROVE UserHolders(u)' = UserHolders(u)
  BY <1>3, PlaceFacts DEF CallEnds, GoTo, Known, UserHolders, TurnsOf
<1>4. SlotsConserved'
  BY <1>2, <1>3 DEF CallEnds, IInv, SlotsConserved
<1> QED
  BY <1>1, <1>4 DEF CallEnds, IInv, TypeOK, Stage

LEMMA ReleaseUserIInv == ASSUME IInv, NEW t \in Turn, ReleaseUser(t) PROVE IInv'
<1> DEFINE mine == UserOf[t]
<1>1. mine \in User
  BY PlaceFacts DEF ReleaseUser, HasUser, Known
<1>2. t \in UserHolders(mine)
  BY DEF ReleaseUser, UserHolders, TurnsOf
<1>3. /\ Cardinality(UserHolders(mine)) >= 1
      /\ Cardinality(UserHolders(mine) \ {t}) = Cardinality(UserHolders(mine)) - 1
  BY <1>1, <1>2, HoldersAreFinite, GivenBack
<1>4. userFree[mine] + 1 \in 0 .. PerUser
  BY <1>1, <1>3, HoldersAreFinite, UserFacts, CapFacts
<1>5. pc' \in [Turn -> Stage] /\ HasUser'
  BY PlaceFacts DEF ReleaseUser, GoTo, HasUser, Known, Stage
<1>6. OrgHolders' = OrgHolders
  BY PlaceFacts DEF ReleaseUser, GoTo, OrgHolders
<1>7. UserHolders(mine)' = UserHolders(mine) \ {t}
  BY PlaceFacts DEF ReleaseUser, GoTo, UserHolders, TurnsOf
<1>8. \A u \in User \ {mine} : UserHolders(u)' = UserHolders(u)
  BY PlaceFacts DEF ReleaseUser, GoTo, UserHolders, TurnsOf
<1>9. \A u \in User : userFree'[u] = IF u = mine THEN userFree[u] + 1 ELSE userFree[u]
  BY UserFacts DEF ReleaseUser
<1>10. userFree' \in [User -> 0 .. PerUser]
  BY <1>1, <1>4, UserFacts DEF ReleaseUser
<1>11. ASSUME NEW u \in User PROVE userFree'[u] + Cardinality(UserHolders(u)') = PerUser
  <2>1. CASE u = mine
    BY <2>1, <1>3, <1>7, <1>9, UserFacts, CapFacts, HoldersAreFinite
  <2>2. CASE u # mine
    BY <2>2, <1>8, <1>9, UserFacts
  <2> QED
    BY <2>1, <2>2
<1>12. SlotsConserved'
  BY <1>6, <1>11, OrgFacts DEF ReleaseUser, SlotsConserved
<1> QED
  BY <1>5, <1>10, <1>12 DEF ReleaseUser, IInv, TypeOK, Stage

LEMMA ReleaseOrgIInv == ASSUME IInv, NEW t \in Turn, ReleaseOrg(t) PROVE IInv'
<1>1. t \in OrgHolders
  BY DEF ReleaseOrg, OrgHolders
<1>2. Cardinality(OrgHolders) >= 1 /\ Cardinality(OrgHolders \ {t}) = Cardinality(OrgHolders) - 1
  BY <1>1, HoldersAreFinite, GivenBack
<1>3. orgFree + 1 \in 0 .. OrgCap
  BY <1>2, HoldersAreFinite, OrgFacts, CapFacts
<1>4. pc' \in [Turn -> Stage] /\ HasUser'
  BY PlaceFacts DEF ReleaseOrg, GoTo, HasUser, Known, Stage
<1>5. OrgHolders' = OrgHolders \ {t}
  BY PlaceFacts DEF ReleaseOrg, GoTo, OrgHolders
<1>6. \A u \in User : UserHolders(u)' = UserHolders(u)
  BY PlaceFacts DEF ReleaseOrg, GoTo, UserHolders, TurnsOf
<1>7. orgFree' + Cardinality(OrgHolders') = OrgCap
  <2>1. orgFree' = orgFree + 1
    BY DEF ReleaseOrg
  <2> QED
    BY <2>1, <1>2, <1>5, OrgFacts, CapFacts, HoldersAreFinite
<1>8. SlotsConserved'
  BY <1>6, <1>7, UserFacts DEF ReleaseOrg, SlotsConserved
<1> QED
  BY <1>3, <1>4, <1>8, UserFacts DEF ReleaseOrg, IInv, TypeOK, Stage

LEMMA NextIInv == IInv /\ [Next]_vars => IInv'
<1> SUFFICES ASSUME IInv, [Next]_vars PROVE IInv'
  OBVIOUS
<1>1. ASSUME NEW t \in Turn, Arrive(t) \/ Step(t) PROVE IInv'
  BY <1>1, ArriveIInv, AcquireOrgIInv, AcquireUserIInv, CallEndsIInv, ReleaseUserIInv, ReleaseOrgIInv DEF Step
<1>2. CASE UNCHANGED vars
  BY <1>2 DEF vars, IInv, TypeOK, HasUser, Known, SlotsConserved, OrgHolders, UserHolders, TurnsOf
<1> QED
  BY <1>1, <1>2 DEF Next

-----------------------------------------------------------------------------
(* The guard                                                               *)

\* In every behaviour of acquire_sync the semaphores stay within their caps, and a
\* slot is free or is with a turn that gives it back.
THEOREM Conserved == Spec => [](TypeOK /\ SlotsConserved)
<1>1. Spec => []IInv
  BY InitIInv, NextIInv, PTL DEF Spec
<1>2. IInv => TypeOK /\ SlotsConserved
  BY DEF IInv
<1> QED
  BY <1>1, <1>2, PTL

LEMMA CapsFollow == IInv => CapsRespected
<1> SUFFICES ASSUME IInv PROVE CapsRespected
  OBVIOUS
<1>1. Cardinality(At("running")) <= Cardinality(OrgHolders)
  <2>1. At("running") \in SUBSET OrgHolders
    BY DEF At, OrgHolders
  <2> QED
    BY <2>1, HoldersAreFinite, FS_Subset
<1>2. Cardinality(At("running")) \in Nat
  BY HoldersAreFinite, FS_Subset, FS_CardinalityType DEF At, OrgHolders
<1>3. Cardinality(At("running")) <= OrgCap
  BY <1>1, <1>2, HoldersAreFinite, OrgFacts, CapFacts
<1>4. ASSUME NEW u \in User PROVE Cardinality(At("running") \intersect TurnsOf(u)) <= PerUser
  <2>1. At("running") \intersect TurnsOf(u) \in SUBSET UserHolders(u)
    BY DEF At, UserHolders, TurnsOf
  <2>2. /\ Cardinality(At("running") \intersect TurnsOf(u)) <= Cardinality(UserHolders(u))
        /\ Cardinality(At("running") \intersect TurnsOf(u)) \in Nat
    BY <2>1, HoldersAreFinite, FS_Subset, FS_CardinalityType
  <2> QED
    BY <2>2, HoldersAreFinite, UserFacts, CapFacts
<1> QED
  BY <1>3, <1>4 DEF CapsRespected

\* The caps that config.py sets hold, of the organisation and of each user.
THEOREM Capped == Spec => []CapsRespected
<1>1. Spec => []IInv
  BY InitIInv, NextIInv, PTL DEF Spec
<1> QED
  BY <1>1, CapsFollow, PTL

LEMMA BusyFollows == IInv => BusyWhenBlocked
<1> DEFINE Busy == At("running") \union At("leave user") \union At("leave org")
<1> SUFFICES ASSUME IInv, NEW w \in Turn, Blocked(w), \A t \in Turn : ~CanTake(t)
             PROVE  Cardinality(Busy) >= SmallerCap
  BY DEF BusyWhenBlocked
<1>1. IsFiniteSet(Busy) /\ Cardinality(Busy) \in Nat
  <2>1. Busy \in SUBSET Turn
    BY DEF At
  <2> QED
    BY <2>1, FS_Subset, FS_CardinalityType
<1>2. SmallerCap \in Nat /\ SmallerCap <= OrgCap /\ SmallerCap <= PerUser
  BY CapFacts DEF SmallerCap
<1>3. CASE \E t \in Turn : pc[t] = "wait user"
  <2>1. PICK t \in Turn : pc[t] = "wait user"
    BY <1>3
  <2> DEFINE u == UserOf[t]
  <2>2. u \in User
    BY <2>1, PlaceFacts DEF HasUser, Known
  <2>3. userFree[u] = 0
    BY <2>1 DEF CanTake, Blocked
  <2>4. Cardinality(UserHolders(u)) = PerUser
    BY <2>2, <2>3, HoldersAreFinite, UserFacts
  <2>5. UserHolders(u) \in SUBSET Busy
    BY DEF UserHolders, TurnsOf, At
  <2>6. Cardinality(UserHolders(u)) <= Cardinality(Busy)
    BY <1>1, <2>5, FS_Subset
  <2> HIDE DEF u, Busy
  <2> QED
    BY <1>1, <1>2, <2>4, <2>6, CapFacts
<1>4. CASE ~\E t \in Turn : pc[t] = "wait user"
  <2>1. OrgHolders = Busy
    BY <1>4 DEF OrgHolders, At
  <2>2. orgFree = 0
    BY <1>4 DEF Blocked
  <2> HIDE DEF Busy
  <2>3. Cardinality(Busy) = OrgCap
    BY <2>1, <2>2, <1>1, OrgFacts
  <2> QED
    BY <1>2, <2>3, CapFacts
<1> QED
  BY <1>3, <1>4

\* "Callers that exceed a cap simply wait": they wait for calls, never for a slot
\* that nobody has.
THEOREM BusyLogin == Spec => []BusyWhenBlocked
<1>1. Spec => []IInv
  BY InitIInv, NextIInv, PTL DEF Spec
<1> QED
  BY <1>1, BusyFollows, PTL

-----------------------------------------------------------------------------
(* The chat turns                                                          *)

\* What the turn adds, its ticket, its timeout and its tool calls, is invisible to
\* the guard: every step of a chat turn is a step of the guard or leaves it alone.
THEOREM TurnsKeepTheGuard == ChatSpec => Spec
<1>1. ChatInit => Init
  BY DEF ChatInit
<1>2. [ChatNext]_chatVars => [Next]_vars
  BY DEF ChatNext, ChatStep, chatVars, vars, Tick, Invoke, WaitForSlots, RunCodex, GiveBack,
         Authorize, Dispatch, Next, Step
<1> QED
  BY <1>1, <1>2, PTL DEF ChatSpec, Spec

\* However the tool calls of concurrent turns interleave, each runs as the user of the
\* turn whose ticket it carries.
THEOREM CallersOwnIdentity == ChatSpec => []ToolsRunAsTheCaller
<1> DEFINE Inv == serving \in [Turn -> User \union {NoOne}] /\ ToolsRunAsTheCaller
<1>1. ChatInit => Inv
  BY DEF ChatInit, ToolsRunAsTheCaller
<1>2. Inv /\ [ChatNext]_chatVars => Inv'
  <2> SUFFICES ASSUME Inv, [ChatNext]_chatVars PROVE Inv'
    OBVIOUS
  <2>1. ASSUME NEW t \in Turn, Authorize(t) PROVE Inv'
    BY <2>1 DEF Authorize, Known, ToolsRunAsTheCaller
  <2>2. ASSUME NEW t \in Turn, Dispatch(t) PROVE Inv'
    BY <2>2 DEF Dispatch, ToolsRunAsTheCaller
  <2>3. CASE UNCHANGED serving
    BY <2>3 DEF ToolsRunAsTheCaller
  <2> QED
    BY <2>1, <2>2, <2>3 DEF ChatNext, ChatStep, chatVars, Tick, Invoke, WaitForSlots, RunCodex, GiveBack
<1> QED
  BY <1>1, <1>2, PTL DEF ChatSpec


\* The promises of the guard to the chat turns.
THEOREM GuardOfTurns == ChatSpec => []GuardHolds
<1>1. IInv => GuardHolds
  BY CapsFollow, BusyFollows DEF IInv, GuardHolds
<1>2. Spec => []IInv
  BY InitIInv, NextIInv, PTL DEF Spec
<1> QED
  BY <1>1, <1>2, TurnsKeepTheGuard, PTL

-----------------------------------------------------------------------------
(* Tickets                                                                 *)

\* The turns whose codex exec has ended.
Over == {t \in Turn : pc[t] \in {"leave user", "leave org", "done"}}
Past == Timeout * Cardinality(Over)

\* No ticket is older than the timeouts of the calls that have ended and the time
\* that some call is running: the clock ticks only while one runs.
ClockInv == \A t \in Turn : age[t] <= Past \/ \E o \in At("running") : age[t] <= Past + ran[o]

TicketInv == IInv /\ ChatTypeOK /\ ClockInv

LEMMA ClockFacts == Ttl \in Nat /\ Timeout \in Nat /\ Timeout > 0 /\ MaxAge \in Nat
BY ClockAssumption DEF MaxAge

LEMMA OverFacts == /\ IsFiniteSet(Over) /\ Cardinality(Over) \in Nat /\ Past \in Nat
                   /\ At("running") \subseteq Turn /\ Over \subseteq Turn
<1>1. Over \in SUBSET Turn /\ At("running") \in SUBSET Turn
  BY DEF Over, At
<1>2. IsFiniteSet(Over) /\ Cardinality(Over) \in Nat
  BY <1>1, FS_Subset, FS_CardinalityType
<1>3. \A n \in Nat : Timeout * n \in Nat
  BY ClockFacts
<1> QED
  BY <1>1, <1>2, <1>3 DEF Past

LEMMA NoLater == ASSUME NEW a \in Nat, NEW p \in Nat, NEW m \in Nat
                 PROVE  /\ a <= p => a <= p + m
                        /\ \A n \in Nat : n <= m /\ a <= p + n => a <= p + m
OBVIOUS

LEMMA OneMore == ASSUME NEW m \in Nat, NEW n \in Nat PROVE m * (n + 1) = m * n + m
OBVIOUS

LEMMA AgeFacts == ASSUME ChatTypeOK
                  PROVE  \A t \in Turn : age[t] \in Nat /\ ran[t] \in Nat /\ ran[t] <= Timeout
BY ClockFacts DEF ChatTypeOK

LEMMA InitTicket == ASSUME ChatInit PROVE TicketInv
<1>1. IInv
  BY InitIInv DEF ChatInit
<1>2. ChatTypeOK
  BY <1>1, ClockFacts DEF ChatInit, ChatTypeOK, IInv
<1>3. ClockInv
  BY OverFacts DEF ChatInit, ClockInv
<1> QED
  BY <1>1, <1>2, <1>3 DEF TicketInv

LEMMA ChatTypes == ASSUME TicketInv, IInv', [ChatNext]_chatVars PROVE ChatTypeOK'
<1> USE DEF TicketInv, ChatTypeOK
<1>1. TypeOK'
  BY DEF IInv
<1>2. CASE Tick
  <2>1. \A t \in Turn : (IF pc[t] \in {"new", "done"} \/ age[t] = MaxAge THEN age[t] ELSE age[t] + 1) \in 0 .. MaxAge
    BY ClockFacts
  <2>2. \A t \in Turn : (IF pc[t] = "running" THEN ran[t] + 1 ELSE ran[t]) \in 0 .. Timeout
    BY <1>2, ClockFacts DEF Tick, At
  <2> QED
    BY <1>1, <1>2, <2>1, <2>2 DEF Tick
<1>3. ASSUME NEW t \in Turn, Invoke(t) \/ WaitForSlots(t) \/ RunCodex(t) PROVE ChatTypeOK'
  BY <1>1, <1>3 DEF Invoke, WaitForSlots, RunCodex
<1>4. ASSUME NEW t \in Turn, GiveBack(t) PROVE ChatTypeOK'
  <2>1. 0 \in 0 .. MaxAge /\ 0 \in 0 .. Timeout
    BY ClockFacts
  <2> QED
    BY <1>1, <1>4, <2>1 DEF GiveBack
<1>5. ASSUME NEW t \in Turn, Authorize(t) \/ Dispatch(t) PROVE ChatTypeOK'
  BY <1>1, <1>5 DEF Authorize, Dispatch, Known
<1>6. CASE UNCHANGED chatVars
  BY <1>1, <1>6 DEF chatVars
<1> QED
  BY <1>2, <1>3, <1>4, <1>5, <1>6 DEF ChatNext, ChatStep

\* Steps that end no call and start no clock.
LEMMA ClockFrame ==
  ASSUME ClockInv, Over' = Over, At("running") \subseteq At("running")',
         \A o \in At("running") : ran'[o] = ran[o],
         \A t \in Turn : age'[t] = age[t] \/ age'[t] = 0
  PROVE  ClockInv'
<1>1. Past' = Past /\ Past \in Nat
  BY OverFacts DEF Past
<1> QED
  BY <1>1 DEF ClockInv

LEMMA ClockStep == ASSUME TicketInv, [ChatNext]_chatVars PROVE ClockInv'
<1> USE DEF TicketInv
<1>0. pc \in [Turn -> Stage]
  BY PlaceFacts
<1>1. ASSUME NEW t \in Turn, NEW stage,
             pc[t] \notin {"running", "leave user", "leave org", "done"},
             stage \notin {"leave user", "leave org", "done"}, GoTo(t, stage), UNCHANGED << age, ran >>
      PROVE  ClockInv'
  <2>1. \A o \in Turn : pc'[o] = IF o = t THEN stage ELSE pc[o]
    BY <1>0, <1>1 DEF GoTo
  <2>2. Over' = Over /\ At("running") \subseteq At("running")'
    BY <1>1, <2>1 DEF Over, At
  <2> QED
    BY <1>1, <2>2, ClockFrame DEF At
<1>2. ASSUME NEW t \in Turn, Invoke(t) \/ WaitForSlots(t) PROVE ClockInv'
  <2>1. PICK stage \in {"wait org", "wait user", "running"} : GoTo(t, stage)
    BY <1>2 DEF Invoke, Arrive, WaitForSlots, AcquireOrg, AcquireUser
  <2> QED
    BY <1>1, <1>2, <2>1 DEF Invoke, Arrive, WaitForSlots, AcquireOrg, AcquireUser
<1>3. ASSUME NEW t \in Turn, RunCodex(t) PROVE ClockInv'
  <2>1. PICK stage \in {"leave user", "leave org"} : GoTo(t, stage)
    BY <1>3 DEF RunCodex, CallEnds
  <2>2. pc[t] = "running" /\ \A o \in Turn : pc'[o] = IF o = t THEN stage ELSE pc[o]
    BY <1>0, <1>3, <2>1 DEF RunCodex, CallEnds, GoTo
  <2>3. Over' = Over \union {t} /\ t \notin Over
    BY <2>2 DEF Over
  <2>4. Cardinality(Over') = Cardinality(Over) + 1
    BY <2>3, OverFacts, FS_AddElement
  <2>5. Past' = Past + Timeout
    <3>1. \A n \in Nat : Timeout * (n + 1) = Timeout * n + Timeout
      BY ClockFacts, OneMore
    <3> QED
      BY <2>4, <3>1, OverFacts DEF Past
  <2>6. \A x \in Turn : age[x] <= Past + Timeout
    <3> SUFFICES ASSUME NEW x \in Turn PROVE age[x] <= Past + Timeout
      OBVIOUS
    <3>1. age[x] \in Nat /\ Past \in Nat /\ Timeout \in Nat
      BY ClockFacts, OverFacts, AgeFacts
    <3>2. CASE age[x] <= Past
      BY <3>1, <3>2, NoLater
    <3>3. ASSUME NEW o \in At("running"), age[x] <= Past + ran[o] PROVE age[x] <= Past + Timeout
      <4>1. ran[o] \in Nat /\ ran[o] <= Timeout
        BY OverFacts, AgeFacts
      <4> QED
        BY <3>1, <3>3, <4>1, NoLater
    <3> QED
      BY <3>2, <3>3 DEF ClockInv
  <2>7. \A x \in Turn : age'[x] = age[x]
    BY <1>3 DEF RunCodex
  <2> QED
    BY <2>5, <2>6, <2>7 DEF ClockInv
<1>4. ASSUME NEW t \in Turn, GiveBack(t) PROVE ClockInv'
  <2>1. PICK stage \in {"leave org", "done"} : GoTo(t, stage)
    BY <1>4 DEF GiveBack, ReleaseUser, ReleaseOrg
  <2>2. /\ pc[t] \in {"leave user", "leave org"}
        /\ \A o \in Turn : pc'[o] = IF o = t THEN stage ELSE pc[o]
    BY <1>0, <1>4, <2>1 DEF GiveBack, ReleaseUser, ReleaseOrg, GoTo
  <2>3. Over' = Over /\ At("running")' = At("running") /\ t \notin At("running")
    BY <2>2 DEF Over, At
  <2>4. \A x \in Turn : /\ age'[x] = age[x] \/ age'[x] = 0
                        /\ x # t => ran'[x] = ran[x]
    BY <1>4 DEF GiveBack, ChatTypeOK
  <2> QED
    BY <2>3, <2>4, ClockFrame, OverFacts
<1>5. CASE Tick
  <2>1. Over' = Over /\ At("running")' = At("running") /\ Past' = Past
    BY <1>5 DEF Tick, Over, At, Past
  <2>2. PICK r \in At("running") : TRUE
    BY <1>5 DEF Tick
  <2>3. \A t \in Turn : age'[t] = age[t] \/ age'[t] = age[t] + 1
    BY <1>5 DEF Tick
  <2>4. \A o \in At("running") : ran'[o] = ran[o] + 1
    BY <1>5 DEF Tick, At
  <2>5. ASSUME NEW t \in Turn PROVE \E o \in At("running") : age'[t] <= Past + ran'[o]
    <3>1. CASE age[t] <= Past
      <4>1. age'[t] <= Past + (ran[r] + 1)
        BY <2>3, <3>1, AgeFacts, OverFacts
      <4> QED
        BY <2>4, <4>1
    <3>2. ASSUME NEW o \in At("running"), age[t] <= Past + ran[o] PROVE age'[t] <= Past + ran'[o]
      <4>1. age'[t] <= Past + (ran[o] + 1)
        BY <2>3, <3>2, AgeFacts, OverFacts
      <4> QED
        BY <2>4, <4>1
    <3> QED
      BY <3>1, <3>2 DEF ClockInv
  <2> QED
    BY <2>1, <2>5 DEF ClockInv
<1>6. ASSUME UNCHANGED << pc, age, ran >> PROVE ClockInv'
  BY <1>6 DEF ClockInv, Past, Over, At
<1> QED
  BY <1>2, <1>3, <1>4, <1>5, <1>6 DEF ChatNext, ChatStep, chatVars, Authorize, Dispatch

LEMMA TicketSafety == ChatSpec => []TicketInv
<1>1. IInv /\ [ChatNext]_chatVars => IInv'
  <2>1. [ChatNext]_chatVars => [Next]_vars
    BY DEF ChatNext, ChatStep, chatVars, vars, Tick, Invoke, WaitForSlots, RunCodex, GiveBack,
           Authorize, Dispatch, Next, Step
  <2> QED
    BY <2>1, NextIInv
<1>2. TicketInv /\ [ChatNext]_chatVars => TicketInv'
  BY <1>1, ChatTypes, ClockStep DEF TicketInv
<1> QED
  BY <1>2, InitTicket, PTL DEF ChatSpec

\* The clocks of the turns and the identities at the server keep their types.
THEOREM ChatTypesHold == ChatSpec => []ChatTypeOK
<1>1. TicketInv => ChatTypeOK
  BY DEF TicketInv
<1> QED
  BY <1>1, TicketSafety, PTL

LEMMA TicketsFollow == TicketInv => TicketLastsTheTurn
<1> SUFFICES ASSUME TicketInv, Ttl >= Timeout * Cardinality(Turn), NEW t \in At("running")
             PROVE  age[t] <= Ttl
  BY DEF TicketLastsTheTurn
<1>1. t \in Turn /\ t \notin Over
  BY DEF At, Over
<1>2. Cardinality(Over) + 1 <= Cardinality(Turn) /\ Cardinality(Turn) \in Nat
  <2>1. Cardinality(Over \union {t}) = Cardinality(Over) + 1
    BY <1>1, OverFacts, FS_AddElement
  <2>2. Over \union {t} \in SUBSET Turn
    BY <1>1, OverFacts
  <2> QED
    BY <2>1, <2>2, FS_Subset, FS_CardinalityType
<1>3. Past + Timeout <= Timeout * Cardinality(Turn)
  <2>1. \A m, n \in Nat : n + 1 <= m => Timeout * n + Timeout <= Timeout * m
    BY ClockFacts
  <2> QED
    BY <1>2, <2>1, OverFacts DEF Past
<1>4. age[t] <= Past + Timeout
  BY <1>1, ClockFacts, OverFacts, AgeFacts DEF TicketInv, ClockInv
<1>5. age[t] \in Nat /\ Past + Timeout \in Nat /\ Timeout * Cardinality(Turn) \in Nat
  <2>1. \A n \in Nat : Timeout * n \in Nat
    BY ClockFacts
  <2> QED
    BY <1>1, <1>2, <2>1, ClockFacts, OverFacts, AgeFacts DEF TicketInv
<1> QED
  BY <1>3, <1>4, <1>5, ClockFacts

\* The guard keeps its promises; a tool runs as its turn's user; and, whichever turn the free slots go to, a
\* ticket that lives for as many timeouts as there are turns is still good when
\* its turn runs.
THEOREM TicketsLast == ChatSpec => []TurnsHold
<1>1. TicketInv => TicketLastsTheTurn
  BY TicketsFollow
<1> QED
  BY <1>1, TicketSafety, CallersOwnIdentity, GuardOfTurns, PTL DEF TurnsHold
=============================================================================
