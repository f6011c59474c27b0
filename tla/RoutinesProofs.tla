--------------------------- MODULE RoutinesProofs -----------------------------
(*****************************************************************************)
(* The team's routines, for every number of items, threads, runs, clicks and *)
(* faults: an owner gets one message for a snooze, however many threads sweep*)
(* at the same time, and a reminder the owner waits for is never nowhere     *)
(* (Reminders); the digest follows the stand-ups (Standup); a sprint is      *)
(* reported once (SprintReport), as the form for it was filled in            *)
(* (DigestModal); the portfolio page is of its day (PortfolioReport); a click*)
(* on the App Home acts once, and what it shows is current (HomeTab).        *)
(*****************************************************************************)
EXTENDS Reminders, Standup, SprintReport, DigestModal, PortfolioReport, HomeTab, TLAPS,
        FiniteSetTheorems, NaturalsInduction, WellFoundedInduction

-----------------------------------------------------------------------------
(* The inductive invariant                                                 *)

Holders(i) == {s \in Sweeper : i \in batch[s] \union undo[s]}
Waiting(i) == IF status[i] = "snoozed" THEN 1 ELSE 0

\* A sweep puts back the one item whose message has just raised, and has taken it
\* out of its batch.
UndoOK == \A s \in Sweeper : undo[s] \cap batch[s] = {} /\ \A i, j \in undo[s] : i = j

\* Every snooze pays for one of these: a message that was delivered, a sweeper that
\* holds the item, the row that is snoozed.  A message that raised after it was
\* delivered pays for itself.
CountOK ==
  \A i \in Item :
    /\ IsFiniteSet(Holders(i))
    /\ reminders[i] + Cardinality(Holders(i)) + Waiting(i) <= snoozes[i] + unsure[i]

UnsureOK == \A i \in Item : unsure[i] <= faults.slack

RemindInv == RemindTypeOK /\ UndoOK /\ CountOK /\ UnsureOK /\ OwedIsHeld

LEMMA Counts ==
  ASSUME NEW S, IsFiniteSet(S), NEW s
  PROVE  /\ Cardinality(S) \in Nat
         /\ IsFiniteSet(S \union {s}) /\ IsFiniteSet(S \ {s})
         /\ s \notin S => Cardinality(S \union {s}) = Cardinality(S) + 1
         /\ s \in S => Cardinality(S \ {s}) = Cardinality(S) - 1
         /\ s \notin S => Cardinality(S \ {s}) = Cardinality(S)
BY FS_CardinalityType, FS_AddElement, FS_RemoveElement

LEMMA InitRemind == ASSUME RemindInit PROVE RemindInv
<1> USE DEF RemindInit
<1>1. RemindTypeOK
  BY BoundAssumption DEF RemindTypeOK
<1>2. \A i \in Item : Holders(i) = {} /\ Waiting(i) = 0
  BY DEF Holders, Waiting
<1>3. CountOK
  BY <1>2, FS_EmptySet DEF CountOK
<1>4. UndoOK /\ UnsureOK /\ OwedIsHeld
  BY DEF UndoOK, UnsureOK, OwedIsHeld
<1> QED
  BY <1>1, <1>3, <1>4 DEF RemindInv

-----------------------------------------------------------------------------
(* Types                                                                   *)

LEMMA FaultTypes ==
  ASSUME RemindTypeOK
  PROVE  /\ faults.slack \in Nat /\ faults.crash \in Nat
         /\ SlackFails => /\ faults' \in [slack : 0 .. MaxSlackErrors, crash : 0 .. MaxCrashes]
                          /\ faults'.slack = faults.slack + 1 /\ faults'.slack \in 0 .. MaxSlackErrors
         /\ ProcessFails => /\ faults' \in [slack : 0 .. MaxSlackErrors, crash : 0 .. MaxCrashes]
                            /\ faults'.slack = faults.slack
BY BoundAssumption DEF RemindTypeOK, SlackFails, ProcessFails

LEMMA OwnerTypes == ASSUME RemindTypeOK, NEW i \in Item, Owner(i) PROVE RemindTypeOK'
<1>1. CASE AddItem(i) \/ CompleteItem(i)
  BY <1>1 DEF RemindTypeOK, AddItem, CompleteItem
<1>2. ASSUME NEW delay \in 0 .. MaxDelay, SnoozeItem(i, delay) PROVE RemindTypeOK'
  <2>1. delay \in 0 .. (MaxDelay + RetryDelay) /\ (snoozes[i] < MaxSnoozes => snoozes[i] + 1 \in 0 .. MaxSnoozes)
    BY BoundAssumption DEF RemindTypeOK
  <2>2. wait' \in [Item -> 0 .. (MaxDelay + RetryDelay)] /\ snoozes' \in [Item -> 0 .. MaxSnoozes]
    BY <1>2, <2>1 DEF RemindTypeOK, SnoozeItem
  <2> QED
    BY <1>2, <2>2 DEF RemindTypeOK, SnoozeItem
<1> QED
  BY <1>1, <1>2 DEF Owner

LEMMA AbandonTypes == ASSUME RemindTypeOK, NEW s \in Sweeper, Abandon(s) PROVE RemindTypeOK'
<1>1. batch' \in [Sweeper -> SUBSET Item] /\ undo' \in [Sweeper -> SUBSET Item] /\ owed' \in SUBSET Item
  BY DEF RemindTypeOK, Abandon, Drop
<1> QED
  BY <1>1, FaultTypes DEF RemindTypeOK, Abandon

LEMMA SendTypes ==
  ASSUME RemindTypeOK, UnsureOK, NEW s \in Sweeper, NEW i \in Item,
         SendDm(s, i) \/ DmRefused(s, i) \/ DmRaises(s, i)
  PROVE  RemindTypeOK'
<1>1. batch' \in [Sweeper -> SUBSET Item]
  BY DEF RemindTypeOK, SendDm, DmRefused, DmRaises, Handled
<1>2. ASSUME Delivered(s, i) PROVE reminders' \in [Item -> Nat] /\ owed' \in SUBSET Item
  BY <1>2 DEF RemindTypeOK, Delivered
<1>3. CASE SendDm(s, i)
  BY <1>1, <1>2, <1>3 DEF RemindTypeOK, SendDm
<1>4. CASE DmRefused(s, i)
  BY <1>1, <1>4, FaultTypes DEF RemindTypeOK, DmRefused, Drop
<1>5. CASE DmRaises(s, i)
  <2>1. undo' \in [Sweeper -> SUBSET Item]
    BY <1>5 DEF RemindTypeOK, DmRaises
  <2>2. unsure[i] + 1 \in 0 .. MaxSlackErrors
    <3>1. unsure[i] <= faults.slack /\ faults.slack + 1 \in 0 .. MaxSlackErrors /\ unsure[i] \in Nat
      BY <1>5, FaultTypes DEF RemindTypeOK, UnsureOK, DmRaises
    <3> QED
      BY <3>1, FaultTypes, BoundAssumption
  <2>3. unsure' \in [Item -> 0 .. MaxSlackErrors]
    BY <1>5, <2>2 DEF RemindTypeOK, DmRaises
  <2>4. reminders' \in [Item -> Nat] /\ owed' \in SUBSET Item
    BY <1>2, <1>5 DEF RemindTypeOK, DmRaises
  <2> QED
    BY <1>1, <1>5, <2>1, <2>3, <2>4, FaultTypes DEF RemindTypeOK, DmRaises
<1> QED
  BY <1>3, <1>4, <1>5

LEMMA TypeStep == ASSUME RemindInv, [RemindNext]_remindVars PROVE RemindTypeOK'
<1> USE DEF RemindInv
<1>1. CASE RemindTick
  <2>1. \A i \in Item : (IF wait[i] > 0 THEN wait[i] - 1 ELSE 0) \in 0 .. (MaxDelay + RetryDelay)
    BY BoundAssumption DEF RemindTypeOK
  <2> QED
    BY <1>1, <2>1 DEF RemindTypeOK, RemindTick
<1>2. ASSUME NEW s \in Sweeper, ClaimDue(s) PROVE RemindTypeOK'
  BY <1>2 DEF RemindTypeOK, ClaimDue, Due
<1>3. ASSUME NEW s \in Sweeper, Resnooze(s) PROVE RemindTypeOK'
  <2>1. PICK i \in undo[s], delay \in 0 .. RetryDelay :
               /\ status' = [status EXCEPT ![i] = "snoozed"]
               /\ wait' = [wait EXCEPT ![i] = delay]
               /\ undo' = [undo EXCEPT ![s] = {}]
               /\ UNCHANGED << batch, snoozes, reminders, unsure, owed, faults >>
    BY <1>3 DEF Resnooze
  <2>2. delay \in 0 .. (MaxDelay + RetryDelay)
    BY BoundAssumption
  <2> QED
    BY <2>1, <2>2 DEF RemindTypeOK
<1>4. CASE UNCHANGED remindVars
  BY <1>4 DEF RemindTypeOK, remindVars
<1> QED
  BY <1>1, <1>2, <1>3, <1>4, OwnerTypes, AbandonTypes, SendTypes
     DEF RemindNext, Sweep, RemindFault, ResnoozeRaises, SweeperDies


-----------------------------------------------------------------------------
(* The steps, as the invariant sees them                                   *)

\* The sweeper s lets go of the items, and nobody else's hands move.
Releases(s, put) ==
  \A i \in Item : Holders(i)' = IF i \in put THEN Holders(i) \ {s} ELSE Holders(i)

SameHands == \A i \in Item : Holders(i)' = Holders(i)

LEMMA HandsFrame == ASSUME UNCHANGED << batch, undo >> PROVE SameHands
BY DEF SameHands, Holders

LEMMA ClaimHands ==
  ASSUME RemindTypeOK, NEW s \in Sweeper, ClaimDue(s)
  PROVE  \A i \in Item : /\ i \in Due => Holders(i)' = Holders(i) \union {s} /\ s \notin Holders(i)
                         /\ i \notin Due => Holders(i)' = Holders(i)
<1>1. /\ \A r \in Sweeper : batch'[r] = IF r = s THEN Due ELSE batch[r]
      /\ batch[s] = {} /\ undo[s] = {} /\ undo' = undo
  BY DEF RemindTypeOK, ClaimDue, Unburdened
<1> QED
  BY <1>1 DEF Holders

LEMMA SendHands ==
  ASSUME RemindTypeOK, UndoOK, NEW s \in Sweeper, NEW i \in Item, Handled(s, i)
  PROVE  /\ s \in Holders(i)
         /\ UNCHANGED undo => Releases(s, {i})
         /\ undo' = [undo EXCEPT ![s] = {i}] => SameHands
<1>1. /\ \A r \in Sweeper : batch'[r] = IF r = s THEN batch[s] \ {i} ELSE batch[r]
      /\ i \in batch[s] /\ undo[s] = {}
  BY DEF RemindTypeOK, Handled
<1>2. s \in Holders(i)
  BY <1>1 DEF Holders
<1>3. CASE UNCHANGED undo
  <2>1. \A j \in Item, r \in Sweeper :
          j \in batch'[r] \union undo'[r] <=> j \in batch[r] \union undo[r] /\ ~(j = i /\ r = s)
    BY <1>1, <1>3
  <2>2. \A j \in Item : Holders(j)' = {r \in Sweeper : j \in batch'[r] \union undo'[r]}
    BY DEF Holders
  <2>3. \A j \in Item : Holders(j)' = IF j \in {i} THEN Holders(j) \ {s} ELSE Holders(j)
    BY <2>1, <2>2 DEF Holders
  <2>4. Releases(s, {i})
    BY <2>3 DEF Releases
  <2>5. undo' # [undo EXCEPT ![s] = {i}]
    <3>1. [undo EXCEPT ![s] = {i}][s] = {i}
      BY DEF RemindTypeOK
    <3>2. undo'[s] # {i}
      BY <1>1, <1>3
    <3> QED
      BY <3>1, <3>2
  <2> QED
    BY <1>3, <2>4, <2>5, <1>2
<1>4. CASE undo' = [undo EXCEPT ![s] = {i}]
  <2>1. \A r \in Sweeper : undo'[r] = IF r = s THEN {i} ELSE undo[r]
    BY <1>4 DEF RemindTypeOK
  <2> QED
    BY <1>1, <2>1 DEF Holders, SameHands
<1> QED
  BY <1>3, <1>4, <1>2

LEMMA ResnoozeHands ==
  ASSUME RemindTypeOK, UndoOK, NEW s \in Sweeper, NEW i \in undo[s], undo' = [undo EXCEPT ![s] = {}], UNCHANGED batch
  PROVE  i \in Item /\ s \in Holders(i) /\ Releases(s, {i})
<1>1. \A r \in Sweeper : undo'[r] = IF r = s THEN {} ELSE undo[r]
  BY DEF RemindTypeOK
<1>2. undo[s] = {i} /\ i \notin batch[s] /\ i \in Item
  BY DEF RemindTypeOK, UndoOK
<1> QED
  BY <1>1, <1>2 DEF Holders, Releases

LEMMA AbandonHands == ASSUME RemindTypeOK, NEW s \in Sweeper, Abandon(s) PROVE Releases(s, batch[s] \union undo[s])
<1>1. \A r \in Sweeper : /\ undo'[r] = IF r = s THEN {} ELSE undo[r]
                         /\ batch'[r] = IF r = s THEN {} ELSE batch[r]
  BY DEF RemindTypeOK, Abandon
<1> QED
  BY <1>1 DEF Holders, Releases

-----------------------------------------------------------------------------
(* Put-backs and unsure messages                                           *)

LEMMA UndoStep == ASSUME RemindInv, [RemindNext]_remindVars PROVE UndoOK' /\ UnsureOK'
<1> USE DEF RemindInv
<1>1. ASSUME UNCHANGED << batch, undo, unsure, faults >> PROVE UndoOK' /\ UnsureOK'
  BY <1>1 DEF UndoOK, UnsureOK
<1>2. CASE RemindTick \/ UNCHANGED remindVars \/ (\E i \in Item : Owner(i))
  BY <1>1, <1>2 DEF RemindTick, remindVars, Owner, AddItem, CompleteItem, SnoozeItem
<1>3. ASSUME NEW s \in Sweeper, ClaimDue(s) PROVE UndoOK' /\ UnsureOK'
  BY <1>3 DEF RemindTypeOK, ClaimDue, Unburdened, UndoOK, UnsureOK
<1>4. ASSUME NEW s \in Sweeper, Resnooze(s) PROVE UndoOK' /\ UnsureOK'
  BY <1>4 DEF RemindTypeOK, Resnooze, UndoOK, UnsureOK
<1>5. ASSUME NEW s \in Sweeper, Abandon(s) PROVE UndoOK' /\ UnsureOK'
  <2>1. faults'.slack = faults.slack
    BY <1>5 DEF RemindTypeOK, Abandon, ProcessFails
  <2> QED
    BY <1>5, <2>1 DEF RemindTypeOK, Abandon, UndoOK, UnsureOK
<1>6. ASSUME NEW s \in Sweeper, NEW i \in Item, SendDm(s, i) \/ DmRefused(s, i) \/ DmRaises(s, i)
      PROVE  UndoOK' /\ UnsureOK'
  <2>1. \A r \in Sweeper : batch'[r] = IF r = s THEN batch[s] \ {i} ELSE batch[r]
    BY <1>6 DEF RemindTypeOK, SendDm, DmRefused, DmRaises, Handled
  <2>2. undo' = undo \/ \A r \in Sweeper : undo'[r] = IF r = s THEN {i} ELSE undo[r]
    BY <1>6 DEF RemindTypeOK, SendDm, DmRefused, DmRaises
  <2>3. UndoOK'
    BY <2>1, <2>2 DEF UndoOK
  <2>4. faults.slack \in Nat /\ \A j \in Item : unsure[j] \in Int
    BY DEF RemindTypeOK
  <2>5. UnsureOK'
    <3>1. CASE UNCHANGED << unsure, faults >>
      BY <3>1 DEF UnsureOK
    <3>2. CASE faults'.slack = faults.slack + 1 /\ \A j \in Item : unsure'[j] \in {unsure[j], unsure[j] + 1}
      BY <2>4, <3>2 DEF UnsureOK
    <3> QED
      BY <1>6, <3>1, <3>2 DEF RemindTypeOK, SendDm, DmRefused, DmRaises, SlackFails
  <2> QED
    BY <2>3, <2>5
<1> QED
  BY <1>2, <1>3, <1>4, <1>5, <1>6 DEF RemindNext, Sweep, RemindFault, ResnoozeRaises, SweeperDies

-----------------------------------------------------------------------------
(* What is owed                                                            *)

LEMMA OwedStep == ASSUME RemindInv, [RemindNext]_remindVars PROVE OwedIsHeld'
<1> USE DEF RemindInv
<1>1. OwedIsHeld <=> \A i \in owed : status[i] = "snoozed" \/ Holders(i) # {}
  BY DEF OwedIsHeld, Holders
<1>2. OwedIsHeld' <=> \A i \in owed' : status'[i] = "snoozed" \/ Holders(i)' # {}
  BY DEF OwedIsHeld, Holders
<1>3. owed \subseteq Item
  BY DEF RemindTypeOK
<1>4. ASSUME SameHands, owed' \subseteq owed, \A i \in owed' : status[i] = "snoozed" => status'[i] = "snoozed"
      PROVE  OwedIsHeld'
  BY <1>1, <1>2, <1>3, <1>4 DEF SameHands
<1>5. CASE RemindTick \/ UNCHANGED remindVars
  BY <1>4, <1>5, HandsFrame DEF RemindTick, remindVars
<1>6. ASSUME NEW i \in Item, Owner(i) PROVE OwedIsHeld'
  <2>1. SameHands
    BY <1>6, HandsFrame DEF Owner, AddItem, CompleteItem, SnoozeItem
  <2>2. /\ owed' \subseteq owed \union {i}
        /\ \A j \in Item : j # i => status'[j] = status[j]
        /\ i \in owed' => status'[i] = "snoozed" \/ (i \in owed /\ status[i] = "none")
    BY <1>6 DEF RemindTypeOK, Owner, AddItem, CompleteItem, SnoozeItem
  <2>3. \A j \in owed' : status'[j] = "snoozed" \/ (j \in owed /\ (status[j] = "snoozed" => status'[j] = "snoozed"))
    BY <1>3, <2>2
  <2> QED
    BY <1>1, <1>2, <1>3, <2>1, <2>3 DEF SameHands
<1>7. ASSUME NEW s \in Sweeper, ClaimDue(s) PROVE OwedIsHeld'
  <2>1. owed' = owed /\ \A i \in Item : i \notin Due => status'[i] = status[i]
    BY <1>7 DEF RemindTypeOK, ClaimDue
  <2>2. \A i \in Item : Holders(i) \subseteq Holders(i)' /\ (i \in Due => Holders(i)' # {})
    BY <1>7, ClaimHands
  <2> QED
    BY <1>1, <1>2, <1>3, <2>1, <2>2
<1>8. ASSUME NEW s \in Sweeper, Resnooze(s) PROVE OwedIsHeld'
  <2>1. PICK i \in undo[s] : /\ status' = [status EXCEPT ![i] = "snoozed"]
                             /\ undo' = [undo EXCEPT ![s] = {}] /\ UNCHANGED << batch, owed >>
    BY <1>8 DEF Resnooze
  <2>2. i \in Item /\ Releases(s, {i})
    BY <2>1, ResnoozeHands
  <2>3. \A j \in Item : status'[j] = IF j = i THEN "snoozed" ELSE status[j]
    BY <2>1 DEF RemindTypeOK
  <2> QED
    BY <1>1, <1>2, <1>3, <2>1, <2>2, <2>3 DEF Releases
<1>9. ASSUME NEW s \in Sweeper, NEW put, Releases(s, put), owed' \subseteq owed, UNCHANGED status,
             \A i \in owed' : i \in put => ~LastHope(s, i)
      PROVE  OwedIsHeld'
  <2>1. \A i \in Item : ~LastHope(s, i) => status[i] = "snoozed" \/ Holders(i) \ {s} # {}
    BY DEF LastHope, Holders
  <2> QED
    BY <1>1, <1>2, <1>3, <1>9, <2>1 DEF Releases
<1>10. ASSUME NEW s \in Sweeper, Abandon(s) PROVE OwedIsHeld'
  <2>1. owed' = owed \ {i \in batch[s] \union undo[s] : LastHope(s, i)} /\ UNCHANGED status
    BY <1>10 DEF Abandon, Drop
  <2> QED
    BY <1>9, <1>10, <2>1, AbandonHands
<1>11. ASSUME NEW s \in Sweeper, NEW i \in Item, SendDm(s, i) \/ DmRefused(s, i) PROVE OwedIsHeld'
  <2>1. Releases(s, {i}) /\ UNCHANGED status
    BY <1>11, SendHands DEF SendDm, DmRefused
  <2>2. owed' \subseteq owed /\ (LastHope(s, i) => i \notin owed')
    BY <1>11 DEF SendDm, DmRefused, Delivered, Drop
  <2> QED
    BY <1>9, <2>1, <2>2
<1>12. ASSUME NEW s \in Sweeper, NEW i \in Item, DmRaises(s, i) PROVE OwedIsHeld'
  BY <1>4, <1>12, SendHands DEF DmRaises, Delivered
<1> QED
  BY <1>5, <1>6, <1>7, <1>8, <1>10, <1>11, <1>12 DEF RemindNext, Sweep, RemindFault, ResnoozeRaises, SweeperDies

-----------------------------------------------------------------------------
(* What the snoozes pay for                                                *)

LEMMA CountStep == ASSUME RemindInv, [RemindNext]_remindVars PROVE CountOK'
<1> USE DEF RemindInv
<1>1. CountOK' <=> \A i \in Item : /\ IsFiniteSet(Holders(i)')
                                   /\ reminders'[i] + Cardinality(Holders(i)') + Waiting(i)' <= snoozes'[i] + unsure'[i]
  BY DEF CountOK
<1>2. \A i \in Item : /\ IsFiniteSet(Holders(i)) /\ Cardinality(Holders(i)) \in Nat
                      /\ reminders[i] + Cardinality(Holders(i)) + Waiting(i) <= snoozes[i] + unsure[i]
  BY FS_CardinalityType DEF CountOK
<1>3. \A i \in Item : /\ reminders[i] \in Nat /\ snoozes[i] \in Int /\ unsure[i] \in Int
                      /\ Waiting(i) \in 0 .. 1 /\ Waiting(i)' \in 0 .. 1
  BY DEF RemindTypeOK, Waiting
<1>4. ASSUME SameHands, UNCHANGED << reminders, snoozes, unsure >>,
             \A i \in Item : status'[i] = "snoozed" => status[i] = "snoozed"
      PROVE  CountOK'
  <2>1. \A i \in Item : Waiting(i)' <= Waiting(i)
    BY <1>4 DEF Waiting
  <2> QED
    BY <1>1, <1>2, <1>3, <1>4, <2>1 DEF SameHands
<1>5. CASE RemindTick \/ UNCHANGED remindVars
  BY <1>4, <1>5, HandsFrame DEF RemindTick, remindVars
<1>6. ASSUME NEW i \in Item, AddItem(i) \/ CompleteItem(i) PROVE CountOK'
  <2>1. \A j \in Item : status'[j] = "snoozed" => status[j] = "snoozed"
    BY <1>6 DEF RemindTypeOK, AddItem, CompleteItem
  <2> QED
    BY <1>4, <1>6, <2>1, HandsFrame DEF AddItem, CompleteItem
<1>7. ASSUME NEW i \in Item, NEW delay \in 0 .. MaxDelay, SnoozeItem(i, delay) PROVE CountOK'
  <2>1. /\ \A j \in Item : snoozes'[j] = IF j = i THEN snoozes[i] + 1 ELSE snoozes[j]
        /\ UNCHANGED << reminders, unsure >> /\ SameHands
    BY <1>7, HandsFrame DEF RemindTypeOK, SnoozeItem
  <2>2. \A j \in Item : j # i => Waiting(j)' = Waiting(j)
    BY <1>7 DEF RemindTypeOK, SnoozeItem, Waiting
  <2> QED
    BY <1>1, <1>2, <1>3, <2>1, <2>2 DEF SameHands
<1>8. ASSUME NEW s \in Sweeper, ClaimDue(s) PROVE CountOK'
  <2>1. UNCHANGED << reminders, snoozes, unsure >>
    BY <1>8 DEF ClaimDue
  <2>2. \A i \in Item : Waiting(i)' = IF i \in Due THEN Waiting(i) - 1 ELSE Waiting(i)
    BY <1>8 DEF RemindTypeOK, ClaimDue, Waiting, Due
  <2>3. \A i \in Item : /\ IsFiniteSet(Holders(i)')
                        /\ Cardinality(Holders(i)') = Cardinality(Holders(i)) + (IF i \in Due THEN 1 ELSE 0)
    BY <1>2, <1>8, ClaimHands, Counts
  <2> QED
    BY <1>1, <1>2, <1>3, <2>1, <2>2, <2>3
<1>9. ASSUME NEW s \in Sweeper, NEW put, Releases(s, put)
      PROVE  \A i \in Item : /\ IsFiniteSet(Holders(i)') /\ Cardinality(Holders(i)') \in Nat
                             /\ Cardinality(Holders(i)') <= Cardinality(Holders(i))
                             /\ i \in put /\ s \in Holders(i) => Cardinality(Holders(i)') = Cardinality(Holders(i)) - 1
  <2> SUFFICES ASSUME NEW i \in Item
               PROVE  /\ IsFiniteSet(Holders(i)') /\ Cardinality(Holders(i)') \in Nat
                      /\ Cardinality(Holders(i)') <= Cardinality(Holders(i))
                      /\ i \in put /\ s \in Holders(i) => Cardinality(Holders(i)') = Cardinality(Holders(i)) - 1
    OBVIOUS
  <2>1. IsFiniteSet(Holders(i)) /\ Cardinality(Holders(i)) \in Nat
    BY <1>2
  <2>2. CASE i \in put
    <3>1. Holders(i)' = Holders(i) \ {s}
      BY <1>9, <2>2 DEF Releases
    <3>2. /\ IsFiniteSet(Holders(i) \ {s})
          /\ s \in Holders(i) => Cardinality(Holders(i) \ {s}) = Cardinality(Holders(i)) - 1
          /\ s \notin Holders(i) => Cardinality(Holders(i) \ {s}) = Cardinality(Holders(i))
      BY <2>1, Counts
    <3>3. Cardinality(Holders(i) \ {s}) \in Nat
      BY <3>2, FS_CardinalityType
    <3> QED
      BY <2>1, <3>1, <3>2, <3>3
  <2>3. CASE i \notin put
    <3>1. Holders(i)' = Holders(i)
      BY <1>9, <2>3 DEF Releases
    <3> QED
      BY <2>1, <2>3, <3>1
  <2> QED
    BY <2>2, <2>3
<1>10. ASSUME NEW s \in Sweeper, NEW i \in Item, Releases(s, {i}), s \in Holders(i), UNCHANGED << snoozes, unsure >>,
              \/ UNCHANGED reminders /\ \A j \in Item : j # i => status'[j] = status[j]
              \/ UNCHANGED status /\ reminders' = [reminders EXCEPT ![i] = @ + 1]
       PROVE  CountOK'
  <2>1. \A j \in Item : /\ IsFiniteSet(Holders(j)') /\ Cardinality(Holders(j)') \in Nat
                        /\ Cardinality(Holders(j)') <= Cardinality(Holders(j))
    BY <1>9, <1>10
  <2>2. Cardinality(Holders(i)') = Cardinality(Holders(i)) - 1
    BY <1>9, <1>10
  <2>3. \/ reminders' = reminders /\ \A j \in Item : j # i => Waiting(j)' = Waiting(j)
        \/ /\ \A j \in Item : Waiting(j)' = Waiting(j)
           /\ \A j \in Item : reminders'[j] = IF j = i THEN reminders[i] + 1 ELSE reminders[j]
    BY <1>10 DEF Waiting, RemindTypeOK
  <2> QED
    BY <1>1, <1>2, <1>3, <1>10, <2>1, <2>2, <2>3
<1>11. ASSUME NEW s \in Sweeper, Resnooze(s) PROVE CountOK'
  <2>1. PICK i \in undo[s] : /\ status' = [status EXCEPT ![i] = "snoozed"]
                             /\ undo' = [undo EXCEPT ![s] = {}]
                             /\ UNCHANGED << batch, snoozes, reminders, unsure >>
    BY <1>11 DEF Resnooze
  <2>2. i \in Item /\ s \in Holders(i) /\ Releases(s, {i})
    BY <2>1, ResnoozeHands
  <2>3. \A j \in Item : j # i => status'[j] = status[j]
    BY <2>1 DEF RemindTypeOK
  <2> QED
    BY <1>10, <2>1, <2>2, <2>3
<1>12. ASSUME NEW s \in Sweeper, Abandon(s) PROVE CountOK'
  <2>1. UNCHANGED << snoozes, unsure, reminders >> /\ \A i \in Item : Waiting(i)' = Waiting(i)
    BY <1>12 DEF Abandon, Waiting
  <2>2. \A i \in Item : /\ IsFiniteSet(Holders(i)') /\ Cardinality(Holders(i)') \in Nat
                        /\ Cardinality(Holders(i)') <= Cardinality(Holders(i))
    BY <1>9, <1>12, AbandonHands
  <2> QED
    BY <1>1, <1>2, <1>3, <2>1, <2>2
<1>13. ASSUME NEW s \in Sweeper, NEW i \in Item, SendDm(s, i) \/ DmRefused(s, i) PROVE CountOK'
  BY <1>10, <1>13, SendHands DEF SendDm, DmRefused, Delivered
<1>14. ASSUME NEW s \in Sweeper, NEW i \in Item, DmRaises(s, i) PROVE CountOK'
  <2>1. SameHands /\ UNCHANGED << status, snoozes >>
    BY <1>14, SendHands DEF DmRaises
  <2>2. CASE UNCHANGED << reminders, unsure >>
    BY <1>4, <2>1, <2>2
  <2>3. CASE reminders' = [reminders EXCEPT ![i] = @ + 1] /\ unsure' = [unsure EXCEPT ![i] = @ + 1]
    <3>1. \A j \in Item : \/ reminders'[j] = reminders[j] /\ unsure'[j] = unsure[j]
                          \/ reminders'[j] = reminders[j] + 1 /\ unsure'[j] = unsure[j] + 1
      BY <2>3 DEF RemindTypeOK
    <3>2. \A j \in Item : Waiting(j)' = Waiting(j)
      BY <2>1 DEF Waiting
    <3> QED
      BY <1>1, <1>2, <1>3, <2>1, <3>1, <3>2 DEF SameHands
  <2> QED
    BY <1>14, <2>2, <2>3 DEF DmRaises, Delivered
<1> QED
  BY <1>5, <1>6, <1>7, <1>8, <1>11, <1>12, <1>13, <1>14
     DEF RemindNext, Owner, Sweep, RemindFault, ResnoozeRaises, SweeperDies


-----------------------------------------------------------------------------
(* The theorems                                                            *)

\* Items, claims, messages and faults agree in every reachable state.
THEOREM RemindSafety == RemindSpec => []RemindInv
<1>1. RemindInit => RemindInv
  BY InitRemind
<1>2. RemindInv /\ [RemindNext]_remindVars => RemindInv'
  BY TypeStep, UndoStep, CountStep, OwedStep DEF RemindInv
<1> QED
  BY <1>1, <1>2, PTL DEF RemindSpec

\* Type correctness of items, sweeps and messages.
THEOREM TypeCorrect == RemindSpec => []RemindTypeOK
<1>1. RemindInv => RemindTypeOK
  BY DEF RemindInv
<1> QED
  BY <1>1, RemindSafety, PTL

\* An owner gets at most one message for a snooze, and one more only for a
\* message that raised after it was delivered; and a reminder the owner waits for
\* is snoozed or in the hands of a sweeper.
THEOREM SnoozesAreAnswered == RemindSpec => []RemindersExact
<1>1. RemindInv => RemindersExact
  <2> SUFFICES ASSUME RemindInv, NEW i \in Item PROVE reminders[i] <= snoozes[i] + unsure[i]
    BY DEF RemindInv, RemindersExact, OneReminderPerSnooze
  <2>1. /\ reminders[i] \in Nat /\ Waiting(i) \in 0 .. 1 /\ snoozes[i] + unsure[i] \in Int
        /\ Cardinality(Holders(i)) \in Nat
        /\ reminders[i] + Cardinality(Holders(i)) + Waiting(i) <= snoozes[i] + unsure[i]
    BY FS_CardinalityType DEF RemindInv, RemindTypeOK, CountOK, Waiting
  <2> QED
    BY <2>1
<1> QED
  BY <1>1, RemindSafety, PTL

-----------------------------------------------------------------------------
(* Sprint reports                                                           *)

\* The order of the numbers is well-founded.
LEMMA LeastNumber ==
  ASSUME NEW S \in SUBSET Nat, S # {}
  PROVE  \E m \in S : \A n \in S : m <= n
<1> DEFINE Less == {ss \in Nat \X Nat : ss[1] < ss[2]}
<1>1. IsWellFoundedOn(Less, Nat)
  BY NatLessThanWellFounded DEF OpToRel
<1>2. PICK m \in S : \A n \in S : ~(<<n, m>> \in Less)
  <2> HIDE DEF Less
  <2> QED
    BY <1>1, WFMin
<1>3. \A n \in S : n < m => <<n, m>> \in Less
  OBVIOUS
<1>4. \A n \in S : ~(n < m) /\ n \in Nat /\ m \in Nat
  <2> HIDE DEF Less
  <2> QED
    BY <1>2, <1>3
<1>5. \A n \in S : m <= n
  BY <1>4
<1> QED
  BY <1>5

\* A bounded set of numbers has its greatest: the least distance to the bound is its.
LEMMA MaxIsThere ==
  ASSUME NEW N \in Nat, NEW S \in SUBSET (1..N), S # {}
  PROVE  Max(S) \in S /\ \A x \in S : x <= Max(S)
<1> DEFINE D == {d \in Nat : \E x \in S : x = N - d}
<1>1. D # {}
  <2>1. PICK x \in S : TRUE
    OBVIOUS
  <2>2. N - x \in Nat /\ x = N - (N - x)
    OBVIOUS
  <2> QED
    BY <2>2
<1>2. PICK d \in D : \A e \in D : d <= e
  BY <1>1, LeastNumber
<1>3. N - d \in S /\ \A x \in S : x <= N - d
  <2>1. \A x \in S : N - x \in D
    <3> TAKE x \in S
    <3>1. N - x \in Nat /\ x = N - (N - x)
      OBVIOUS
    <3> QED
      BY <3>1
  <2> QED
    BY <1>2, <2>1
<1> QED
  BY <1>3 DEF Max

-----------------------------------------------------------------------------
(* The runs of a report *)

ReportRec == [at : Stages, sprint : 0..LastSprint]

ReportTypes ==
  /\ closed \subseteq Sprint
  /\ reportedAs \in closed \union {0}
  /\ report \in [ReportRun -> ReportRec]
  /\ deploys \in [Sprint -> Nat]

\* What a run has found out is so: its sprint is closed, and deployed when it says so.
RunOK(c) ==
  /\ c.at = "idle" => c = NoReport
  /\ c.at = "told" => closed # {}
  /\ c.at \notin {"idle", "told"} => c.sprint \in closed
  /\ c.at \in {"deployed", "linked"} => deploys[c.sprint] > 0

RunsOK == \A r \in ReportRun : RunOK(report[r])

\* One run at a time, on a sprint later than the mark; what was published was so once,
\* and the mark has passed it, or will when the run that deployed it sets it.
OneByOne ==
  /\ \A r, q \in ReportRun : report[r] # NoReport /\ report[q] # NoReport => r = q
  /\ \A r \in ReportRun :
       report[r].at \in {"gathered", "creating", "deploying", "deployed"} => reportedAs < report[r].sprint
  /\ \A s \in Sprint :
       /\ deploys[s] <= 1
       /\ deploys[s] = 0 \/ s <= reportedAs \/ \E r \in ReportRun : report[r] = [at |-> "deployed", sprint |-> s]

ReportInv == ReportTypes /\ RunsOK /\ MarkedIsPublished /\ MarkedIsShared /\ (apart => OneByOne)

LEMMA InitReport == ASSUME ReportInit PROVE ReportInv
<1>1. ReportTypes /\ RunsOK
  BY ReportAssumption DEF ReportInit, ReportTypes, RunsOK, RunOK, ReportRec, NoReport, Stages
<1>2. OneByOne
  BY ReportAssumption DEF ReportInit, OneByOne, NoReport, Sprint
<1> QED
  BY <1>1, <1>2 DEF ReportInit, ReportInv, MarkedIsPublished, MarkedIsShared

\* The sprint a report is about is the latest of the closed ones.
LEMMA LatestIsClosed ==
  ASSUME closed \subseteq Sprint, closed # {}
  PROVE  LatestClosed \in closed /\ \A s \in closed : s <= LatestClosed
BY MaxIsThere, ReportAssumption DEF LatestClosed, Sprint

\* A run's own step, that deploys nothing and leaves the mark.
LEMMA RunGoesOn ==
  ASSUME ReportInv, NEW r \in ReportRun, NEW c \in ReportRec, report' = [report EXCEPT ![r] = c],
         UNCHANGED <<closed, reportedAs, deploys>>, shared \union lost \subseteq (shared \union lost)',
         report[r].at # "idle", RunOK(c),
         report[r].at = "linked" => report[r].sprint \in (shared \union lost)',
         apart' => apart /\ report[r].at # "deployed"
                         /\ (c.at \in {"gathered", "creating", "deploying", "deployed"} => reportedAs < c.sprint)
  PROVE  ReportInv'
<1>0. /\ ReportTypes /\ RunsOK /\ MarkedIsPublished /\ MarkedIsShared /\ (apart => OneByOne)
      /\ report \in [ReportRun -> ReportRec]
  BY DEF ReportInv, ReportTypes
<1>1. ReportTypes'
  BY <1>0 DEF ReportTypes
<1>2. RunsOK'
  BY <1>0 DEF RunsOK, RunOK
<1>3. MarkedIsPublished'
  BY <1>0 DEF MarkedIsPublished
<1>4. MarkedIsShared'
  <2> SUFFICES ASSUME reportedAs # 0 PROVE MarkedIsShared'
    BY DEF MarkedIsShared
  <2>1. CASE reportedAs \in shared \union lost
    BY <2>1 DEF MarkedIsShared
  <2>2. CASE \E q \in ReportRun : report[q] = [at |-> "linked", sprint |-> reportedAs]
    <3>1. PICK q \in ReportRun : report[q] = [at |-> "linked", sprint |-> reportedAs]
      BY <2>2
    <3>2. CASE q = r
      BY <3>1, <3>2 DEF MarkedIsShared
    <3>3. CASE q # r
      BY <1>0, <3>1, <3>3 DEF MarkedIsShared
    <3> QED
      BY <3>2, <3>3
  <2> QED
    BY <1>0, <2>1, <2>2 DEF MarkedIsShared
<1>5. ASSUME apart' PROVE OneByOne'
  <2>0. OneByOne
    BY <1>0, <1>5
  <2>1. \A q \in ReportRun : q # r => report'[q] = report[q] /\ report[q] = NoReport
    BY <1>0, <2>0 DEF OneByOne, NoReport
  <2>2. report'[r] = c
    BY <1>0
  <2>3. \A q, p \in ReportRun : report'[q] # NoReport /\ report'[p] # NoReport => q = p
    BY <2>1
  <2>4. \A q \in ReportRun :
          report'[q].at \in {"gathered", "creating", "deploying", "deployed"} => reportedAs < report'[q].sprint
    BY <1>5, <2>1, <2>2 DEF NoReport
  <2>5. \A s \in Sprint : ~ \E q \in ReportRun : report[q] = [at |-> "deployed", sprint |-> s]
    BY <1>5, <2>1 DEF NoReport
  <2> QED
    BY <2>0, <2>3, <2>4, <2>5 DEF OneByOne
<1> QED
  BY <1>1, <1>2, <1>3, <1>4, <1>5 DEF ReportInv

LEMMA ReportStep == ASSUME ReportInv, [ReportNext]_reportVars PROVE ReportInv'
<1>0. /\ ReportTypes /\ RunsOK /\ MarkedIsPublished /\ MarkedIsShared /\ (apart => OneByOne)
      /\ report \in [ReportRun -> ReportRec] /\ closed \subseteq Sprint /\ reportedAs \in closed \union {0}
      /\ deploys \in [Sprint -> Nat]
  BY DEF ReportInv, ReportTypes
<1>s. /\ closed \subseteq Nat /\ reportedAs \in Nat /\ 0 \notin closed
      /\ \A s \in closed : s \in Sprint /\ s \in 0..LastSprint
      /\ \A r \in ReportRun : report[r] = [at |-> report[r].at, sprint |-> report[r].sprint]
                               /\ report[r].sprint \in 0..LastSprint /\ report[r] \in ReportRec
  BY <1>0, ReportAssumption DEF Sprint, ReportRec
\* A run that goes on keeps its sprint.
<1>g. ASSUME NEW r \in ReportRun, NEW at, ReportGoesTo(r, at)
      PROVE  report' = [report EXCEPT ![r] = [at |-> at, sprint |-> report[r].sprint]]
  <2>1. report[r] \in ReportRec
    BY <1>0
  <2>2. [report[r] EXCEPT !.at = at] = [at |-> at, sprint |-> report[r].sprint]
    BY <2>1 DEF ReportRec
  <2> QED
    BY <1>g, <2>2 DEF ReportGoesTo
<1>n. NoReport \in ReportRec /\ RunOK(NoReport)
  BY ReportAssumption DEF NoReport, ReportRec, Stages, RunOK
<1>l. closed # {} => LatestClosed \in closed /\ \A s \in closed : s <= LatestClosed
  BY <1>0, LatestIsClosed
<1>1. ASSUME NEW s \in Sprint, Close(s) PROVE ReportInv'
  BY <1>0, <1>1 DEF Close, ReportInv, ReportTypes, RunsOK, RunOK, MarkedIsPublished, MarkedIsShared, OneByOne
<1>2. ASSUME NEW r \in ReportRun, ReadDossier(r) PROVE ReportInv'
  <2>1. report[r] = NoReport /\ closed # {}
    BY <1>2 DEF ReadDossier, LatestClosed
  <2>2. report' = [report EXCEPT ![r] = [at |-> "told", sprint |-> 0]]
    BY <1>2, <1>g, <2>1 DEF ReadDossier, NoReport
  <2>3. [at |-> "told", sprint |-> 0] \in ReportRec
    BY ReportAssumption DEF ReportRec, Stages
  <2>4. UNCHANGED <<closed, reportedAs, deploys, shared, lost>> /\ apart' = (apart /\ \A q \in ReportRun : report[q] = NoReport)
    BY <1>2 DEF ReadDossier
  <2>5. ReportTypes' /\ RunsOK'
    BY <1>0, <2>1, <2>2, <2>3, <2>4 DEF ReportTypes, RunsOK, RunOK
  <2>6. MarkedIsPublished' /\ MarkedIsShared'
    BY <1>0, <2>1, <2>2, <2>4 DEF MarkedIsPublished, MarkedIsShared, NoReport
  <2>7. ASSUME apart' PROVE OneByOne'
    <3>1. OneByOne /\ \A q \in ReportRun : report[q] = NoReport
      BY <1>0, <2>4, <2>7
    <3>2. \A q \in ReportRun : q # r => report'[q] = NoReport
      BY <2>2, <3>1
    <3>3. report'[r].at = "told"
      BY <1>0, <2>2
    <3>4. \A q \in ReportRun : report'[q].at \notin {"gathered", "creating", "deploying", "deployed"}
      BY <3>2, <3>3 DEF NoReport
    <3>5. \A s \in Sprint : deploys[s] <= 1 /\ (deploys[s] = 0 \/ s <= reportedAs)
      <4>1. \A s \in Sprint : ~ \E q \in ReportRun : report[q] = [at |-> "deployed", sprint |-> s]
        BY <3>1 DEF NoReport
      <4> QED
        BY <3>1, <4>1 DEF OneByOne
    <3> QED
      BY <2>4, <3>2, <3>4, <3>5 DEF OneByOne
  <2> QED
    BY <2>5, <2>6, <2>7 DEF ReportInv
<1>3. ASSUME NEW r \in ReportRun, Gather(r) \/ GatherBlind(r) PROVE ReportInv'
  <2>1. report[r].at = "told" /\ closed # {}
    BY <1>0, <1>3 DEF Gather, GatherBlind, RunsOK, RunOK
  <2> DEFINE c == [at |-> "gathered", sprint |-> LatestClosed]
  <2>2. c \in ReportRec /\ RunOK(c)
    BY <1>l, <1>s, <2>1 DEF ReportRec, Stages, RunOK
  <2>3. UNCHANGED <<closed, reportedAs, deploys, shared, lost>>
    BY <1>3 DEF Gather, GatherBlind
  <2>4. CASE Gather(r) /\ Reported(LatestClosed)
    <3>1. report' = [report EXCEPT ![r] = NoReport] /\ apart' = apart
      BY <2>4 DEF Gather
    <3> QED
      BY <1>n, <2>1, <2>3, <3>1, RunGoesOn DEF NoReport
  <2>5. CASE Gather(r) /\ ~Reported(LatestClosed)
    <3>1. report' = [report EXCEPT ![r] = c] /\ apart' = apart
      BY <2>5 DEF Gather
    <3>2. reportedAs < LatestClosed
      BY <1>0, <1>s, <1>l, <2>1, <2>5 DEF Reported
    <3> HIDE DEF c
    <3> QED
      BY <2>1, <2>2, <2>3, <3>1, <3>2, RunGoesOn DEF c
  <2>6. CASE GatherBlind(r)
    <3>1. report' = [report EXCEPT ![r] = c] /\ ~apart'
      BY <2>6 DEF GatherBlind
    <3> HIDE DEF c
    <3> QED
      BY <2>1, <2>2, <2>3, <3>1, RunGoesOn
  <2> QED
    BY <1>3, <2>4, <2>5, <2>6
\* A run that only moves on.
<1>4. ASSUME NEW r \in ReportRun, NEW at \in {"creating", "deploying", "drafted"}, ReportGoesTo(r, at),
             report[r].at \in {"gathered", "creating", "deploying"},
             UNCHANGED <<closed, reportedAs, deploys, shared, lost, apart>>
      PROVE  ReportInv'
  <2> DEFINE c == [at |-> at, sprint |-> report[r].sprint]
  <2>1. report' = [report EXCEPT ![r] = c]
    BY <1>4, <1>g
  <2>2. c \in ReportRec /\ RunOK(c)
    BY <1>0, <1>s, <1>4 DEF ReportRec, RunOK, RunsOK, Stages
  <2>3. apart => reportedAs < c.sprint
    BY <1>0, <1>4 DEF OneByOne
  <2> HIDE DEF c
  <2> QED
    BY <1>4, <2>1, <2>2, <2>3, RunGoesOn
<1>5. ASSUME NEW r \in ReportRun, LookForProject(r) \/ CreateProject(r) \/ SpinFails(r) PROVE ReportInv'
  BY <1>4, <1>5 DEF LookForProject, CreateProject, SpinFails
<1>6. ASSUME NEW r \in ReportRun, Deploy(r) PROVE ReportInv'
  <2> DEFINE s == report[r].sprint
  <2>1. /\ report[r].at = "deploying" /\ s \in closed /\ s \in Sprint /\ deploys[s] \in Nat
        /\ report[r] # NoReport
    BY <1>0, <1>s, <1>6 DEF Deploy, RunsOK, RunOK, NoReport
  <2>2. /\ report' = [report EXCEPT ![r] = [at |-> "deployed", sprint |-> s]]
        /\ deploys' = [deploys EXCEPT ![s] = deploys[s] + 1]
        /\ UNCHANGED <<closed, reportedAs, shared, lost, apart>>
    BY <1>6, <1>g DEF Deploy
  <2> HIDE DEF s
  <2>3. \A z \in Sprint : deploys'[z] \in Nat /\ deploys'[z] >= deploys[z]
    BY <1>0, <2>1, <2>2
  <2>4. ReportTypes'
    BY <1>0, <1>s, <2>1, <2>2, <2>3 DEF ReportTypes, ReportRec, Stages
  <2>5. RunsOK'
    <3> SUFFICES ASSUME NEW q \in ReportRun PROVE RunOK(report[q])'
      BY DEF RunsOK
    <3>1. CASE q = r
      BY <1>0, <2>1, <2>2, <3>1 DEF RunOK
    <3>2. CASE q # r
      <4>1. report'[q] = report[q] /\ RunOK(report[q])
        BY <1>0, <2>2, <3>2 DEF RunsOK
      <4> QED
        BY <1>0, <1>s, <2>2, <2>3, <4>1 DEF RunOK
    <3> QED
      BY <3>1, <3>2
  <2>6. MarkedIsPublished'
    BY <1>0, <1>s, <2>2, <2>3 DEF MarkedIsPublished
  <2>7. MarkedIsShared'
    BY <1>0, <2>1, <2>2 DEF MarkedIsShared
  <2>8. ASSUME apart PROVE OneByOne'
    <3>0. OneByOne
      BY <1>0, <2>8
    <3>1. \A q \in ReportRun : q # r => report[q] = NoReport
      BY <2>1, <3>0 DEF OneByOne
    <3>2. reportedAs < s
      BY <2>1, <3>0 DEF OneByOne, s
    <3>3. deploys[s] = 0
      <4>1. ~ \E q \in ReportRun : report[q] = [at |-> "deployed", sprint |-> s]
        BY <2>1, <3>1 DEF NoReport
      <4>2. deploys[s] = 0 \/ s <= reportedAs
        BY <2>1, <3>0, <4>1 DEF OneByOne
      <4> QED
        BY <1>s, <2>1, <3>2, <4>2
    <3>4. \A q \in ReportRun : q # r => report'[q] = NoReport
      BY <1>0, <2>2, <3>1
    <3>5. report'[r] = [at |-> "deployed", sprint |-> s]
      BY <1>0, <2>2
    <3>6. \A z \in Sprint : z # s => deploys'[z] = deploys[z]
      BY <1>0, <2>2
    <3>7. deploys'[s] = 1
      BY <1>0, <2>1, <2>2, <3>3
    <3>8. \A q \in ReportRun :
            report'[q].at \in {"gathered", "creating", "deploying", "deployed"} => reportedAs < report'[q].sprint
      BY <3>2, <3>4, <3>5 DEF NoReport
    <3>9. \A z \in Sprint : z # s =>
            /\ deploys[z] <= 1
            /\ deploys[z] = 0 \/ z <= reportedAs
      <4>1. \A z \in Sprint : z # s => ~ \E q \in ReportRun : report[q] = [at |-> "deployed", sprint |-> z]
        BY <2>1, <3>1 DEF NoReport
      <4> QED
        BY <3>0, <4>1 DEF OneByOne
    <3>10. \A z \in Sprint :
             /\ deploys'[z] <= 1
             /\ deploys'[z] = 0 \/ z <= reportedAs \/ \E q \in ReportRun : report'[q] = [at |-> "deployed", sprint |-> z]
      <4> TAKE z \in Sprint
      <4>1. CASE z = s
        BY <3>5, <3>7, <4>1
      <4>2. CASE z # s
        BY <3>6, <3>9, <4>2
      <4> QED
        BY <4>1, <4>2
    <3> QED
      BY <2>2, <3>4, <3>8, <3>10 DEF OneByOne
  <2> QED
    BY <2>2, <2>4, <2>5, <2>6, <2>7, <2>8 DEF ReportInv
<1>7. ASSUME NEW r \in ReportRun, MarkReported(r) PROVE ReportInv'
  <2> DEFINE s == report[r].sprint
  <2>1. report[r].at = "deployed" /\ s \in closed /\ s \in Sprint /\ s \in Nat /\ deploys[s] > 0 /\ report[r] # NoReport
    BY <1>0, <1>s, <1>7 DEF MarkReported, RunsOK, RunOK, NoReport
  <2>2. /\ report' = [report EXCEPT ![r] = [at |-> "linked", sprint |-> s]] /\ reportedAs' = s
        /\ UNCHANGED <<closed, deploys, shared, lost, apart>>
    BY <1>7, <1>g DEF MarkReported
  <2> HIDE DEF s
  <2>3. ReportTypes'
    BY <1>0, <1>s, <2>1, <2>2 DEF ReportTypes, ReportRec, Stages
  <2>4. RunsOK'
    BY <1>0, <2>1, <2>2 DEF RunsOK, RunOK
  <2>5. MarkedIsPublished' /\ MarkedIsShared'
    BY <1>0, <2>1, <2>2 DEF MarkedIsPublished, MarkedIsShared
  <2>6. ASSUME apart PROVE OneByOne'
    <3>0. OneByOne
      BY <1>0, <2>6
    <3>1. \A q \in ReportRun : q # r => report[q] = NoReport
      BY <2>1, <3>0 DEF OneByOne
    <3>2. reportedAs < s
      BY <2>1, <3>0 DEF OneByOne, s
    <3>3. \A q \in ReportRun : q # r => report'[q] = NoReport
      BY <1>0, <2>2, <3>1
    <3>4. report'[r] = [at |-> "linked", sprint |-> s]
      BY <1>0, <2>2
    <3>5. \A q \in ReportRun : report'[q].at \notin {"gathered", "creating", "deploying", "deployed"}
      BY <3>3, <3>4 DEF NoReport
    <3>6. \A z \in Sprint : \A q \in ReportRun : report[q] = [at |-> "deployed", sprint |-> z] => z = s
      BY <3>1 DEF NoReport, s
    <3>7. \A z \in Sprint : deploys[z] <= 1 /\ (deploys[z] = 0 \/ z <= reportedAs \/ z = s)
      <4> SUFFICES ASSUME NEW z \in Sprint PROVE deploys[z] <= 1 /\ (deploys[z] = 0 \/ z <= reportedAs \/ z = s)
        OBVIOUS
      <4>1. /\ deploys[z] <= 1
            /\ deploys[z] = 0 \/ z <= reportedAs \/ \E q \in ReportRun : report[q] = [at |-> "deployed", sprint |-> z]
        BY <3>0 DEF OneByOne
      <4> QED
        BY <3>6, <4>1
    <3>8. \A z \in Sprint : deploys[z] <= 1 /\ (deploys[z] = 0 \/ z <= s)
      BY <1>s, <2>1, <3>2, <3>7 DEF Sprint
    <3> QED
      BY <2>2, <3>3, <3>5, <3>8 DEF OneByOne
  <2> QED
    BY <2>2, <2>3, <2>4, <2>5, <2>6 DEF ReportInv
<1>8. ASSUME NEW r \in ReportRun, MarkFails(r) PROVE ReportInv'
  <2> DEFINE c == [at |-> "linked", sprint |-> report[r].sprint]
  <2>1. report' = [report EXCEPT ![r] = c] /\ report[r].at = "deployed"
    BY <1>8, <1>g DEF MarkFails
  <2>2. c \in ReportRec /\ RunOK(c)
    BY <1>0, <1>s, <2>1 DEF ReportRec, RunOK, RunsOK, Stages
  <2>3. UNCHANGED <<closed, reportedAs, deploys, shared, lost>> /\ ~apart'
    BY <1>8 DEF MarkFails
  <2> HIDE DEF c
  <2> QED
    BY <2>1, <2>2, <2>3, RunGoesOn
<1>9. ASSUME NEW r \in ReportRun, Drafted(r) \/ ShareLink(r) PROVE ReportInv'
  <2>1. /\ report' = [report EXCEPT ![r] = NoReport] /\ UNCHANGED <<closed, reportedAs, deploys, lost, apart>>
        /\ report[r].at \in {"drafted", "linked"} /\ shared \subseteq shared'
        /\ report[r].at = "linked" => report[r].sprint \in shared'
    BY <1>9 DEF Drafted, ShareLink
  <2> QED
    BY <1>n, <2>1, RunGoesOn DEF NoReport
<1>10. ASSUME NEW r \in ReportRun, RunDies(r) PROVE ReportInv'
  <2>1. /\ report' = [report EXCEPT ![r] = NoReport] /\ UNCHANGED <<closed, reportedAs, deploys, shared>>
        /\ report[r] # NoReport /\ lost \subseteq lost'
        /\ report[r].at = "linked" => report[r].sprint \in lost'
        /\ apart' = (apart /\ report[r].at # "deployed")
    BY <1>10 DEF RunDies
  <2>2. report[r].at # "idle"
    BY <1>0, <2>1 DEF RunsOK, RunOK
  <2> QED
    BY <1>n, <2>1, <2>2, RunGoesOn DEF NoReport
<1>11. CASE UNCHANGED reportVars
  BY <1>0, <1>11 DEF reportVars, ReportInv, ReportTypes, RunsOK, RunOK, MarkedIsPublished, MarkedIsShared, OneByOne
<1> QED
  BY <1>1, <1>2, <1>3, <1>5, <1>6, <1>7, <1>8, <1>9, <1>10, <1>11 DEF ReportNext

LEMMA ReportInvariant == ReportSpec => []ReportInv
<1>1. ReportInit => ReportInv
  BY InitReport
<1>2. ReportInv /\ [ReportNext]_reportVars => ReportInv'
  BY ReportStep
<1> QED
  BY <1>1, <1>2, PTL DEF ReportSpec

\* Whatever fails, and however runs overlap and die, a sprint that is marked as reported
\* has its page on Spin, and its link was posted, is about to be, or died with its run;
\* and as long as runs do not overlap and no mark is lost, no sprint is published twice.
THEOREM ReportsAreSafe == ReportSpec => []ReportSafe
<1>1. ReportInv => ReportSafe
  BY DEF ReportInv, ReportSafe, PublishedOnce, OneByOne
<1> QED
  BY <1>1, ReportInvariant, PTL

-----------------------------------------------------------------------------
(* The form of a sprint report                                              *)

FormRec == [at : {"closed", "open"}, listed : SUBSET BoardKey, chosen : BoardKey \union {NoChoice},
            date : [key : BoardKey \union {NoChoice}, day : Weekday]]
Made      == [key : BoardKey, day : Weekday, sure : BOOLEAN]
ModalTask == [at : {"none", "begun", "dated"}, day : Weekday]

ModalTypes ==
  /\ boards \subseteq Board /\ ends \in [BoardKey -> Weekday] /\ kept \subseteq BoardKey
  /\ form \in FormRec /\ tasks \in [BoardKey \union {NoChoice} -> ModalTask]
  /\ scheduled \subseteq Made /\ picked \subseteq BoardKey
  /\ apiece \in BOOLEAN

Scrum     == BoardOptions(Board)
Active(k) == tasks[k] # NoModalTask

\* What is listed has sprints; an open form has created nothing, what is chosen in it was
\* picked in it, and so was what a task renders it for.
FormOK ==
  /\ form.listed \subseteq Scrum /\ kept \subseteq Scrum
  /\ form.at = "open" =>
       /\ scheduled = {} /\ (form.chosen # NoChoice => form.chosen \in picked \intersect Scrum)
       /\ \A k \in BoardKey : Active(k) => k \in picked /\ ~Active(NoChoice)
       /\ Active(NoChoice) => form.chosen = NoChoice /\ form.listed = {} /\ form.date = NoDate
  /\ \A s \in scheduled : s.key \in picked \intersect Scrum /\ (s.sure => s.day = ends[s.key])

\* While no tasks overlap and nothing fails, the boards stay what they are, the one task
\* is for what is chosen, and without one the date is that of what is chosen.
FormSettles ==
  /\ \A k, l \in BoardKey \union {NoChoice} : Active(k) /\ Active(l) => k = l
  /\ kept \in {{}, BoardOptions(boards)} /\ form.listed \subseteq BoardOptions(boards)
  /\ \A k \in BoardKey : tasks[k].at = "dated" => tasks[k].day = ends[k]
  /\ form.at = "open" =>
       /\ \A k \in BoardKey : Active(k) => form.chosen = k /\ k \in BoardOptions(boards)
       /\ (\A k \in BoardKey : ~Active(k)) =>
            form.date.key = form.chosen /\ (form.chosen # NoChoice => form.date.day = ends[form.chosen])

ModalInv == ModalTypes /\ FormOK /\ (apiece => FormSettles)

LEMMA ModalShapes ==
  /\ ClosedForm \in FormRec /\ ClosedForm.at = "closed" /\ ClosedForm.listed = {} /\ ClosedForm.chosen = NoChoice
  /\ ClosedForm.date = NoDate /\ NoDate.key = NoChoice
  /\ NoModalTask \in ModalTask /\ NoModalTask.at = "none" /\ NoChoice \notin BoardKey
BY ModalAssumption DEF ClosedForm, FormRec, NoDate, NoModalTask, ModalTask

LEMMA OptionsHaveSprints == ASSUME NEW B \in SUBSET Board PROVE BoardOptions(B) \subseteq Scrum /\ BoardOptions(B) \subseteq BoardKey
BY DEF BoardOptions, Scrum, BoardKey

\* The list that a task shows, and the one that is kept from then on.
LEMMA ListsAreOptions ==
  ASSUME ModalTypes, FormOK, KeepBoards
  PROVE  /\ ListedKeys \subseteq Scrum /\ ListedKeys \subseteq BoardKey /\ kept' \subseteq Scrum /\ kept' \subseteq BoardKey
         /\ kept \in {{}, BoardOptions(boards)} => ListedKeys = BoardOptions(boards) /\ kept' \in {{}, BoardOptions(boards)}
BY OptionsHaveSprints DEF ModalTypes, FormOK, KeepBoards, ListedKeys, BoardsFresh

LEMMA InitModal == ASSUME ModalInit PROVE ModalInv
<1>1. ModalTypes
  BY ModalShapes DEF ModalInit, ModalTypes
<1>2. \A k \in BoardKey \union {NoChoice} : ~Active(k) /\ tasks[k].at = "none"
  BY ModalShapes DEF ModalInit, Active
<1>3. FormOK
  BY <1>2, ModalShapes DEF ModalInit, FormOK
<1>4. FormSettles
  BY <1>2, ModalShapes DEF ModalInit, FormSettles
<1> QED
  BY <1>1, <1>3, <1>4 DEF ModalInv

LEMMA ModalStep == ASSUME ModalInv, [ModalNext]_modalVars PROVE ModalInv'
<1>0. /\ ModalTypes /\ FormOK /\ (apiece => FormSettles)
      /\ boards \subseteq Board /\ ends \in [BoardKey -> Weekday] /\ kept \subseteq BoardKey
      /\ form \in FormRec /\ tasks \in [BoardKey \union {NoChoice} -> ModalTask]
      /\ scheduled \subseteq Made /\ picked \subseteq BoardKey
      /\ apiece \in BOOLEAN
  BY DEF ModalInv, ModalTypes
<1>f. /\ form.at \in {"closed", "open"} /\ form.listed \subseteq BoardKey /\ form.chosen \in BoardKey \union {NoChoice}
      /\ form.date.day \in Weekday /\ form.date.key \in BoardKey \union {NoChoice}
  BY <1>0 DEF FormRec
<1>1. CASE OpenForm
  <2>1. /\ form.at = "closed" /\ scheduled = {} /\ form' = [ClosedForm EXCEPT !.at = "open"]
        /\ tasks' = [tasks EXCEPT ![NoChoice] = [NoModalTask EXCEPT !.at = "begun"]]
        /\ UNCHANGED <<boards, ends, kept, scheduled, picked, apiece>>
        /\ \A k \in BoardKey \union {NoChoice} : tasks[k] = NoModalTask
    BY <1>0, <1>1 DEF OpenForm, BeginTask, NoTasks
  <2>2. form' \in FormRec /\ form'.listed = {} /\ form'.chosen = NoChoice /\ form'.date = NoDate
    BY <2>1, ModalShapes DEF FormRec
  <2>3. [NoModalTask EXCEPT !.at = "begun"] \in ModalTask
    BY ModalShapes DEF ModalTask
  <2>4. ModalTypes'
    BY <1>0, <2>1, <2>2, <2>3 DEF ModalTypes
  <2>5. \A k \in BoardKey : tasks'[k] = NoModalTask
    BY <1>0, <2>1, ModalShapes
  <2>6. FormOK'
    BY <1>0, <2>1, <2>2, <2>5 DEF FormOK, Active
  <2>7. FormSettles => FormSettles'
    BY <2>1, <2>2, <2>5, ModalShapes DEF FormSettles, Active
  <2> QED
    BY <1>0, <2>1, <2>4, <2>6, <2>7 DEF ModalInv
<1>2. ASSUME NEW k \in BoardKey, Pick(k) PROVE ModalInv'
  <2>1. /\ form.at = "open" /\ k \in form.listed /\ form' = [form EXCEPT !.chosen = k] /\ picked' = picked \union {k}
        /\ tasks' = [tasks EXCEPT ![k] = [NoModalTask EXCEPT !.at = "begun"]]
        /\ apiece' = (apiece /\ \A l \in BoardKey \union {NoChoice} : tasks[l] = NoModalTask)
        /\ UNCHANGED <<boards, ends, kept, scheduled>>
    BY <1>0, <1>2 DEF Pick, BeginTask, NoTasks
  <2>2. /\ form' \in FormRec /\ form'.at = "open" /\ form'.listed = form.listed /\ form'.chosen = k
    BY <1>0, <2>1 DEF FormRec
  <2>3. [NoModalTask EXCEPT !.at = "begun"] \in ModalTask /\ [NoModalTask EXCEPT !.at = "begun"].at = "begun"
    BY ModalShapes DEF ModalTask
  <2>4. ModalTypes'
    BY <1>0, <2>1, <2>2, <2>3 DEF ModalTypes
  <2>5. \A l \in BoardKey \union {NoChoice} : l # k => tasks'[l] = tasks[l]
    BY <1>0, <2>1
  <2>6. k # NoChoice /\ ~Active(NoChoice) /\ k \in Scrum /\ scheduled = {}
    BY <1>0, <2>1, ModalShapes DEF FormOK
  <2>7. FormOK'
    BY <1>0, <2>1, <2>2, <2>5, <2>6 DEF FormOK, Active
  <2>8. apiece' => FormSettles'
    <3> SUFFICES ASSUME apiece' PROVE FormSettles'
      OBVIOUS
    <3>1. /\ FormSettles /\ \A l \in BoardKey \union {NoChoice} : l # k => tasks'[l] = NoModalTask
      BY <1>0, <2>1, <2>5
    <3>2. tasks'[k].at = "begun" /\ tasks'[k] # NoModalTask
      BY <1>0, <2>1, <2>3, ModalShapes
    <3> QED
      BY <2>1, <2>2, <3>1, <3>2, ModalShapes DEF FormSettles, Active
  <2> QED
    BY <2>4, <2>7, <2>8 DEF ModalInv
<1>3. CASE Cancel
  <2>1. /\ form.at = "open" /\ form' = ClosedForm /\ picked' = {} /\ UNCHANGED <<boards, ends, kept, tasks, scheduled, apiece>>
    BY <1>3 DEF Cancel
  <2>2. ModalTypes' /\ FormOK'
    BY <1>0, <2>1, ModalShapes DEF ModalTypes, FormOK
  <2>3. FormSettles => FormSettles'
    BY <2>1, ModalShapes DEF FormSettles, Active
  <2> QED
    BY <1>0, <2>1, <2>2, <2>3 DEF ModalInv
<1>4. CASE FillForm
  <2>1. /\ tasks[NoChoice].at = "begun" /\ tasks' = [tasks EXCEPT ![NoChoice] = NoModalTask] /\ KeepBoards
        /\ form' = IF form.at = "closed" THEN form ELSE [form EXCEPT !.listed = ListedKeys]
        /\ UNCHANGED <<boards, ends, scheduled, picked, apiece>>
    BY <1>4 DEF FillForm, FinishTask
  <2>2. /\ form' \in FormRec /\ form'.at = form.at /\ form'.chosen = form.chosen /\ form'.date = form.date
        /\ form'.listed \in {form.listed, ListedKeys}
    BY <1>0, <2>1, ListsAreOptions DEF FormRec
  <2>3. /\ tasks'[NoChoice] = NoModalTask /\ \A k \in BoardKey : tasks'[k] = tasks[k]
        /\ tasks' \in [BoardKey \union {NoChoice} -> ModalTask]
    BY <1>0, <2>1, ModalShapes
  <2>4. ModalTypes'
    BY <1>0, <2>1, <2>2, <2>3, ListsAreOptions DEF ModalTypes
  <2>5. FormOK'
    BY <1>0, <2>1, <2>2, <2>3, ListsAreOptions DEF FormOK, Active
  <2>6. FormSettles => FormSettles'
    BY <1>0, <2>1, <2>2, <2>3, ListsAreOptions DEF FormSettles, Active
  <2> QED
    BY <1>0, <2>1, <2>4, <2>5, <2>6 DEF ModalInv
<1>5. ASSUME NEW k \in BoardKey, LookUpEnd(k) \/ LookUpEndFails(k) PROVE ModalInv'
  <2>1. PICK told \in Weekday :
          /\ tasks[k].at = "begun" /\ tasks' = [tasks EXCEPT ![k] = [at |-> "dated", day |-> told]]
          /\ UNCHANGED <<boards, ends, kept, form, scheduled, picked>>
          /\ apiece' \in BOOLEAN /\ (apiece' => apiece /\ told = ends[k])
    <3>1. CASE LookUpEnd(k)
      BY <1>0, <3>1 DEF LookUpEnd
    <3>2. CASE LookUpEndFails(k)
      BY <3>2, ModalAssumption DEF LookUpEndFails
    <3> QED
      BY <1>5, <3>1, <3>2
  <2> DEFINE t == [at |-> "dated", day |-> told]
  <2>2. t \in ModalTask /\ t.at = "dated" /\ t.day = told
    BY DEF ModalTask
  <2>3. tasks' = [tasks EXCEPT ![k] = t]
    BY <2>1
  <2> HIDE DEF t
  <2>4. tasks'[k] = t /\ \A l \in BoardKey \union {NoChoice} : l # k => tasks'[l] = tasks[l]
    BY <1>0, <2>3
  <2>5. Active(k) /\ t # NoModalTask
    BY <2>1, <2>2, ModalShapes DEF Active
  <2>6. \A l \in BoardKey \union {NoChoice} : tasks'[l] # NoModalTask <=> Active(l)
    BY <2>4, <2>5 DEF Active
  <2>7. ModalTypes'
    BY <1>0, <2>1, <2>2, <2>3 DEF ModalTypes
  <2>8. FormOK'
    BY <1>0, <2>1, <2>6 DEF FormOK, Active
  <2>9. apiece' => FormSettles'
    <3> SUFFICES ASSUME apiece' PROVE FormSettles'
      OBVIOUS
    <3>1. FormSettles /\ told = ends[k]
      BY <1>0, <2>1
    <3> QED
      BY <2>1, <2>2, <2>4, <2>6, <3>1 DEF FormSettles, Active
  <2> QED
    BY <2>7, <2>8, <2>9 DEF ModalInv
<1>6. ASSUME NEW k \in BoardKey, Rerender(k) PROVE ModalInv'
  <2>1. PICK chosen \in {InitialOption(k), form.chosen} :
          /\ tasks[k].at = "dated" /\ tasks' = [tasks EXCEPT ![k] = NoModalTask] /\ KeepBoards
          /\ form' = IF form.at = "closed" THEN form
                     ELSE [form EXCEPT !.listed = ListedKeys, !.date = [key |-> k, day |-> tasks[k].day], !.chosen = chosen]
          /\ UNCHANGED <<boards, ends, scheduled, picked, apiece>>
    BY <1>6 DEF Rerender, FinishTask
  <2>2. tasks[k].day \in Weekday /\ Active(k)
    BY <1>0, <2>1, ModalShapes DEF ModalTask, Active
  <2>3. /\ tasks'[k] = NoModalTask /\ \A l \in BoardKey \union {NoChoice} : l # k => tasks'[l] = tasks[l]
        /\ tasks' \in [BoardKey \union {NoChoice} -> ModalTask]
    BY <1>0, <2>1, ModalShapes
  <2>4. chosen \in BoardKey \union {NoChoice} /\ (chosen = form.chosen \/ chosen = NoChoice \/ (chosen = k /\ k \in ListedKeys))
    BY <1>f, <2>1 DEF InitialOption
  <2>5. CASE form.at = "closed"
    <3>1. form' = form
      BY <2>1, <2>5
    <3>2. ModalTypes' /\ FormOK'
      BY <1>0, <2>1, <2>3, <2>5, <3>1, ListsAreOptions DEF ModalTypes, FormOK
    <3>3. FormSettles => FormSettles'
      BY <1>0, <2>1, <2>3, <2>5, <3>1, ListsAreOptions, ModalShapes DEF FormSettles, Active
    <3> QED
      BY <1>0, <2>1, <3>2, <3>3 DEF ModalInv
  <2>6. CASE form.at = "open"
    <3> DEFINE date == [key |-> k, day |-> tasks[k].day]
    <3>1. date \in [key : BoardKey \union {NoChoice}, day : Weekday] /\ date.key = k /\ date.day = tasks[k].day
      BY <2>2
    <3>2. form' = [form EXCEPT !.listed = ListedKeys, !.date = date, !.chosen = chosen]
      BY <2>1, <2>6
    <3> HIDE DEF date
    <3>3. /\ form' \in FormRec /\ form'.at = "open" /\ form'.listed = ListedKeys /\ form'.chosen = chosen /\ form'.date = date
      BY <1>0, <2>1, <2>4, <2>6, <3>1, <3>2, ListsAreOptions DEF FormRec
    <3>4. ModalTypes'
      BY <1>0, <2>1, <2>3, <3>3, ListsAreOptions DEF ModalTypes
    <3>5. k \in picked /\ ~Active(NoChoice) /\ tasks'[NoChoice] = NoModalTask
      BY <1>0, <2>2, <2>3, <2>6, ModalShapes DEF FormOK, Active
    <3>6. FormOK'
      <4>1. chosen # NoChoice => chosen \in picked \intersect Scrum
        BY <1>0, <2>1, <2>4, <2>6, <3>5, ListsAreOptions DEF FormOK
      <4>2. \A l \in BoardKey : tasks'[l] # NoModalTask => l \in picked
        BY <1>0, <2>3, <2>6 DEF FormOK, Active
      <4> QED
        BY <1>0, <2>1, <2>6, <3>3, <3>5, <4>1, <4>2, ListsAreOptions DEF FormOK, Active
    <3>7. FormSettles => FormSettles'
      <4> SUFFICES ASSUME FormSettles PROVE FormSettles'
        OBVIOUS
      <4>1. form.chosen = k /\ ListedKeys = BoardOptions(boards) /\ k \in ListedKeys /\ kept' \in {{}, BoardOptions(boards)}
        BY <1>0, <2>1, <2>2, <2>6, ListsAreOptions DEF FormSettles
      <4>2. chosen = k /\ tasks[k].day = ends[k]
        BY <2>1, <4>1 DEF InitialOption, FormSettles
      <4>3. \A l \in BoardKey \union {NoChoice} : tasks'[l] = NoModalTask
        BY <2>2, <2>3 DEF FormSettles, Active
      <4> QED
        BY <2>1, <3>1, <3>3, <4>1, <4>2, <4>3, ModalShapes DEF FormSettles, Active
    <3> QED
      BY <1>0, <2>1, <3>4, <3>6, <3>7 DEF ModalInv
  <2> QED
    BY <1>f, <2>5, <2>6
<1>7. ASSUME NEW k \in BoardKey \union {NoChoice}, UpdateFails(k) PROVE ModalInv'
  <2>1. /\ tasks' = [tasks EXCEPT ![k] = NoModalTask] /\ ~apiece'
        /\ UNCHANGED <<boards, ends, kept, form, scheduled, picked>> /\ apiece' \in BOOLEAN
    BY <1>7 DEF UpdateFails, FinishTask
  <2>2. /\ \A l \in BoardKey \union {NoChoice} : tasks'[l] \in {NoModalTask, tasks[l]}
        /\ tasks' \in [BoardKey \union {NoChoice} -> ModalTask]
    BY <1>0, <2>1, ModalShapes
  <2>3. ModalTypes' /\ FormOK'
    BY <1>0, <2>1, <2>2 DEF ModalTypes, FormOK, Active
  <2> QED
    BY <2>1, <2>3 DEF ModalInv
<1>8. CASE SubmitModal \/ SubmitModalBlind
  <2>1. /\ form.at = "open" /\ form' = ClosedForm /\ UNCHANGED <<boards, ends, kept, tasks, picked, apiece>>
        /\ \A s \in scheduled' :
             s \in scheduled \/ (/\ form.chosen \in BoardKey /\ s \in Made /\ s.key = form.chosen
                                /\ (s.sure => s.day = ends[form.chosen]))
    <3>1. CASE SubmitModal
      <4>1. /\ form.at = "open" /\ form' = ClosedForm /\ UNCHANGED <<boards, ends, kept, tasks, picked, apiece>>
            /\ scheduled' = IF form.chosen = NoChoice THEN scheduled
                            ELSE scheduled \union {[key |-> form.chosen, day |-> DayOf(form.chosen), sure |-> TRUE]}
        BY <3>1 DEF SubmitModal, CreateReport
      <4>2. CASE form.chosen = NoChoice
        BY <4>1, <4>2
      <4>3. CASE form.chosen # NoChoice
        <5>1. PICK s : s = [key |-> form.chosen, day |-> DayOf(form.chosen), sure |-> TRUE]
          OBVIOUS
        <5>2. form.chosen \in BoardKey /\ DayOf(form.chosen) = ends[form.chosen] /\ DayOf(form.chosen) \in Weekday
          BY <1>0, <1>f, <4>3, ModalAssumption DEF DayOf
        <5>3. s \in Made /\ s.key = form.chosen /\ (s.sure => s.day = ends[form.chosen])
          BY <5>1, <5>2 DEF Made
        <5> QED
          BY <4>1, <4>3, <5>1, <5>2, <5>3
      <4> QED
        BY <4>2, <4>3
    <3>2. CASE SubmitModalBlind
      <4>1. /\ form.at = "open" /\ form' = ClosedForm /\ UNCHANGED <<boards, ends, kept, tasks, picked, apiece>>
            /\ scheduled' = IF form.chosen = NoChoice THEN scheduled
                            ELSE scheduled \union {[key |-> form.chosen, day |-> Friday, sure |-> FALSE]}
        BY <3>2 DEF SubmitModalBlind, CreateReport
      <4>2. CASE form.chosen = NoChoice
        BY <4>1, <4>2
      <4>3. CASE form.chosen # NoChoice
        <5>1. PICK s : s = [key |-> form.chosen, day |-> Friday, sure |-> FALSE]
          OBVIOUS
        <5>2. form.chosen \in BoardKey /\ Friday \in Weekday
          BY <1>0, <1>f, <4>3, ModalAssumption DEF DayOf
        <5>3. s \in Made /\ s.key = form.chosen /\ (s.sure => s.day = ends[form.chosen])
          BY <5>1, <5>2 DEF Made
        <5> QED
          BY <4>1, <4>3, <5>1, <5>2, <5>3
      <4> QED
        BY <4>2, <4>3
    <3> QED
      BY <1>8, <3>1, <3>2
  <2>2. \A s \in scheduled' : s \in Made /\ s.key \in picked \intersect Scrum /\ (s.sure => s.day = ends[s.key])
    <3>1. \A s \in scheduled : s \in Made /\ s.key \in picked \intersect Scrum /\ (s.sure => s.day = ends[s.key])
      BY <1>0 DEF FormOK, ModalTypes
    <3>2. form.chosen \in BoardKey => form.chosen \in picked \intersect Scrum
      BY <1>0, <2>1, ModalShapes DEF FormOK
    <3> QED
      BY <2>1, <3>1, <3>2
  <2>3. ModalTypes'
    BY <1>0, <2>1, <2>2, ModalShapes DEF ModalTypes
  <2>4. FormOK'
    BY <1>0, <2>1, <2>2, ModalShapes DEF FormOK
  <2>5. FormSettles => FormSettles'
    BY <2>1, ModalShapes DEF FormSettles, Active
  <2> QED
    BY <1>0, <2>1, <2>3, <2>4, <2>5 DEF ModalInv
<1>9. ASSUME NEW b \in Board, BoardChanges(b) PROVE ModalInv'
  <2>1. /\ boards' \subseteq Board /\ ~apiece' /\ apiece' \in BOOLEAN
        /\ UNCHANGED <<ends, kept, form, tasks, scheduled, picked>>
    BY <1>0, <1>9 DEF BoardChanges
  <2>2. ModalTypes' /\ FormOK'
    BY <1>0, <2>1 DEF ModalTypes, FormOK, Active
  <2> QED
    BY <2>1, <2>2 DEF ModalInv
<1>10. CASE ClockTicks \/ UNCHANGED modalVars
  <2>1. UNCHANGED <<boards, ends, kept, form, tasks, scheduled, picked, apiece>>
    BY <1>10 DEF ClockTicks, modalVars
  <2> QED
    BY <1>0, <2>1 DEF ModalInv, ModalTypes, FormOK, FormSettles, Active
<1> QED
  BY <1>1, <1>2, <1>3, <1>4, <1>5, <1>6, <1>7, <1>8, <1>9, <1>10 DEF ModalNext

LEMMA ModalInvariant == ModalSpec => []ModalInv
BY InitModal, ModalStep, PTL DEF ModalSpec

\* A schedule is created for an engagement that its viewer chose in that form and that has
\* sprints, on the weekday its sprint ends on if Jira tells it; and a form at rest shows
\* the date of what is chosen, while no two tasks overlap and nothing fails: for all boards,
\* choices, clocks and faults.
THEOREM ModalIsTrue == ModalSpec => [](MadeAsPicked /\ DateIsOfTheChosen)
<1>1. ASSUME ModalInv PROVE MadeAsPicked /\ DateIsOfTheChosen
  <2>0. ModalTypes /\ FormOK /\ (apiece => FormSettles)
    BY <1>1 DEF ModalInv
  <2>1. MadeAsPicked
    BY <2>0 DEF FormOK, MadeAsPicked, Scrum, BoardOptions
  <2>2. DateIsOfTheChosen
    BY <2>0 DEF ModalTypes, FormSettles, DateIsOfTheChosen, NoTasks, Active
  <2> QED
    BY <2>1, <2>2
<1> QED
  BY <1>1, ModalInvariant, PTL

-----------------------------------------------------------------------------
(* Portfolio reports                                                        *)

RollupRec == [at : {"idle", "summing", "loaded", "built", "published"}, of : Nat, seen : SUBSET PageDate]

PortfolioTypes ==
  /\ day \in PageDate /\ live \in Nat /\ lastPage \in [date : Nat, of : Nat]
  /\ points \subseteq PageDate /\ Cardinality(points) <= HistoryCap
  /\ rollup \in [RollupRun -> RollupRec] /\ rollupFaults \in Nat /\ alone \in BOOLEAN

\* What a run holds: a history that is not too long, and nothing of a day to come.
HeldOK(c) ==
  /\ c.of <= day /\ \A d \in c.seen : d <= day
  /\ Cardinality(c.seen) <= HistoryCap /\ (c.at = "loaded" => c.of \in PageDate)

NothingAhead ==
  /\ lastPage.date <= day /\ \A d \in points : d <= day
  /\ \A r \in RollupRun : HeldOK(rollup[r])

\* While runs do not overlap, the one that is under way has this day's data and the
\* history as it is, and what it has published is the page that was last put there.
RunsApart ==
  /\ \A r, q \in RollupRun : rollup[r] # NoRollup /\ rollup[q] # NoRollup => r = q
  /\ \A r \in RollupRun : /\ rollup[r].at \in {"loaded", "built", "published"} => rollup[r].of = day
                          /\ rollup[r].at = "loaded" => rollup[r].seen = points
                          /\ rollup[r].at = "published" => live = day
  /\ lastPage.date = day => lastPage.of = day /\ live = day

PortfolioInv == PortfolioTypes /\ NothingAhead /\ (alone => RunsApart)

LEMMA DayFacts == LastDay \in Nat /\ PageDate = 1..LastDay /\ PageDate \subseteq Nat /\ HistoryCap \in Nat /\ HistoryCap > 0
BY PortfolioAssumption DEF PageDate

LEMMA RestingRun == NoRollup \in RollupRec /\ NoRollup.at = "idle" /\ NoRollup.of = 0 /\ NoRollup.seen = {}
BY DEF NoRollup, RollupRec

LEMMA RestsOK == ASSUME NEW c, c.of = 0, c.seen = {}, c.at # "loaded", day \in PageDate PROVE HeldOK(c)
<1>1. Cardinality({}) <= HistoryCap /\ 0 <= day
  BY DayFacts, FS_EmptySet
<1> QED
  BY <1>1 DEF HeldOK

\* What is kept of a history and today's point, none of which is of a day to come.
LEMMA KeptPoints ==
  ASSUME NEW S \in SUBSET PageDate, Cardinality(S) <= HistoryCap, NEW d \in PageDate
  PROVE  /\ Kept(S \union {d}) \subseteq S \union {d} /\ Cardinality(Kept(S \union {d})) <= HistoryCap
         /\ (\A e \in S : e <= d) =>
              /\ d \in Kept(S \union {d})
              /\ \A e \in S \ Kept(S \union {d}) : e = Min(S) /\ Cardinality(Kept(S \union {d})) = HistoryCap
<1> DEFINE D == S \union {d}
<1>1. IsFiniteSet(S) /\ Cardinality(S) \in Nat
  <2>1. IsFiniteSet(PageDate)
    BY DayFacts, FS_Interval
  <2>2. IsFiniteSet(S)
    BY <2>1, FS_Subset
  <2> QED
    BY <2>2, FS_CardinalityType
<1>2. IsFiniteSet(D) /\ Cardinality(D) = IF d \in S THEN Cardinality(S) ELSE Cardinality(S) + 1
  BY <1>1, FS_AddElement
<1>3. CASE Cardinality(D) <= HistoryCap
  BY <1>3 DEF Kept
<1>4. CASE ~(Cardinality(D) <= HistoryCap)
  <2>1. Kept(D) = D \ {Min(D)}
    BY <1>4 DEF Kept
  <2>2. d \notin S /\ Cardinality(D) = HistoryCap + 1 /\ Cardinality(S) = HistoryCap
    BY <1>1, <1>2, <1>4, DayFacts
  <2>3. S # {}
    BY <2>2, DayFacts, FS_EmptySet
  <2>4. Min(D) \in D /\ \A x \in D : Min(D) <= x
    <3>1. D \subseteq Nat /\ D # {}
      BY DayFacts
    <3>2. \E m \in D : \A n \in D : m <= n
      BY <3>1, LeastNumber
    <3> QED
      BY <3>2 DEF Min
  <2>5. Min(S) \in S /\ \A x \in S : Min(S) <= x
    <3>1. \E m \in S : \A n \in S : m <= n
      BY <2>3, DayFacts, LeastNumber
    <3> QED
      BY <3>1 DEF Min
  <2>6. Cardinality(Kept(D)) = HistoryCap
    <3>1. PICK m : m = Min(D)
      OBVIOUS
    <3> HIDE DEF D
    <3>2. Cardinality(D \ {m}) = Cardinality(D) - 1
      BY <1>2, <2>4, <3>1, FS_RemoveElement
    <3>3. HistoryCap + 1 - 1 = HistoryCap
      BY DayFacts
    <3> QED
      BY <2>1, <2>2, <3>1, <3>2, <3>3, DayFacts
  <2>7. ASSUME \A e \in S : e <= d PROVE Min(D) = Min(S) /\ Min(D) # d
    <3>1. Min(D) <= Min(S) /\ Min(S) \in Nat /\ Min(D) \in Nat /\ d \in Nat /\ Min(S) <= d /\ Min(S) # d
      BY <2>2, <2>4, <2>5, <2>7, DayFacts
    <3>2. Min(D) \in S
      BY <2>4, <3>1
    <3> QED
      BY <2>2, <2>5, <3>1, <3>2
  <2> HIDE DEF D
  <2>8. /\ Kept(D) \subseteq D /\ Cardinality(Kept(D)) <= HistoryCap
        /\ \A e \in D \ Kept(D) : e = Min(D)
    BY <2>1, <2>6, DayFacts
  <2>9. d \in D /\ S \subseteq D
    BY DEF D
  <2>10. (\A e \in S : e <= d) => d \in Kept(D) /\ \A e \in S \ Kept(D) : e = Min(S)
    BY <2>1, <2>7, <2>9
  <2> QED
    BY <2>6, <2>8, <2>10 DEF D
<1> QED
  BY <1>3, <1>4

LEMMA InitPortfolio == ASSUME PortfolioInit PROVE PortfolioInv
<1>1. PortfolioTypes
  <2>1. Cardinality({}) = 0 /\ 1 \in PageDate
    BY DayFacts, FS_EmptySet, PortfolioAssumption
  <2>2. NeverPublished \in [date : Nat, of : Nat]
    BY DEF NeverPublished
  <2>3. 0 \in Nat /\ 0 <= HistoryCap
    BY DayFacts
  <2> QED
    BY <2>1, <2>2, <2>3, RestingRun DEF PortfolioInit, PortfolioTypes
<1>2. NothingAhead
  <2>1. \A r \in RollupRun : HeldOK(rollup[r])
    BY <1>1, RestingRun, RestsOK DEF PortfolioInit, PortfolioTypes
  <2> QED
    BY <2>1 DEF PortfolioInit, NothingAhead, NeverPublished
<1>3. RunsApart
  BY RestingRun DEF PortfolioInit, RunsApart, NeverPublished
<1> QED
  BY <1>1, <1>2, <1>3 DEF PortfolioInv

\* Points go as they may.
PointsGo ==
  /\ \A d \in points \ points' : d = Min(points) /\ Cardinality(points') = HistoryCap
  /\ \A r \in RollupRun : Recorded(r) => rollup[r].of \in points'

LEMMA PortfolioStep == ASSUME PortfolioInv, [PortfolioNext]_portfolioVars PROVE PortfolioInv' /\ (alone' => PointsGo)
<1>0. /\ PortfolioTypes /\ NothingAhead /\ (alone => RunsApart)
      /\ day \in PageDate /\ live \in Nat /\ lastPage.date \in Nat /\ lastPage.of \in Nat
      /\ points \subseteq PageDate /\ Cardinality(points) <= HistoryCap
      /\ rollup \in [RollupRun -> RollupRec] /\ rollupFaults \in Nat /\ alone \in BOOLEAN
  BY DEF PortfolioInv, PortfolioTypes
<1>r. \A r \in RollupRun : rollup[r] \in RollupRec /\ rollup[r].of \in Nat /\ rollup[r].seen \subseteq PageDate
  BY <1>0 DEF RollupRec
\* A run goes on to c, and the history stays.
<1>g. ASSUME NEW r \in RollupRun, NEW c \in RollupRec, rollup' = [rollup EXCEPT ![r] = c],
             UNCHANGED <<day, lastPage, points, live>>, rollupFaults' \in Nat,
             HeldOK(c),
             alone' \in BOOLEAN, alone' => alone /\ \A q \in RollupRun : rollup[q] # NoRollup => q = r,
             alone' => /\ c.at \in {"loaded", "built", "published"} => c.of = day
                       /\ c.at = "loaded" => c.seen = points
                       /\ c.at = "published" => live = day,
             ~(rollup[r].at = "loaded" /\ c.at = "built") \/ rollupFaults' # rollupFaults
      PROVE  PortfolioInv' /\ PointsGo
  <2>1. rollup'[r] = c /\ \A q \in RollupRun : q # r => rollup'[q] = rollup[q]
    BY <1>0, <1>g
  <2>2. PortfolioTypes'
    BY <1>0, <1>g DEF PortfolioTypes
  <2>3. NothingAhead'
    BY <1>0, <1>g, <2>1 DEF NothingAhead, HeldOK
  <2>4. alone' => RunsApart'
    <3> SUFFICES ASSUME alone' PROVE RunsApart'
      OBVIOUS
    <3>1. RunsApart /\ \A q \in RollupRun : q # r => rollup'[q] = NoRollup
      BY <1>0, <1>g, <2>1
    <3> QED
      BY <1>g, <2>1, <3>1, RestingRun DEF RunsApart
  <2>5. PointsGo
    BY <1>g, <2>1 DEF PointsGo, Recorded
  <2> QED
    BY <2>2, <2>3, <2>4, <2>5 DEF PortfolioInv
\* Another stage of the run, with the data it has.
<1>h. ASSUME NEW r \in RollupRun, NEW at \in {"summing", "loaded", "built", "published"},
             rollup' = [rollup EXCEPT ![r].at = at]
      PROVE  \E c \in RollupRec : /\ rollup' = [rollup EXCEPT ![r] = c] /\ c.at = at /\ c.of = rollup[r].of
                                  /\ c.seen = rollup[r].seen
  <2> DEFINE c == [rollup[r] EXCEPT !.at = at]
  <2>1. c \in RollupRec /\ c.at = at /\ c.of = rollup[r].of /\ c.seen = rollup[r].seen
    BY <1>r DEF RollupRec
  <2>2. rollup' = [rollup EXCEPT ![r] = c]
    BY <1>h
  <2> HIDE DEF c
  <2> QED
    BY <2>1, <2>2
\* The run that is under way is the only one.
<1>u. ASSUME NEW r \in RollupRun, rollup[r] # NoRollup, alone PROVE \A q \in RollupRun : rollup[q] # NoRollup => q = r
  BY <1>0, <1>u DEF RunsApart
<1>a. ASSUME NEW r \in RollupRun PROVE HeldOK(rollup[r]) /\ (rollup[r].at # "idle" => rollup[r] # NoRollup)
  BY <1>0, RestingRun DEF NothingAhead
<1>1. CASE DayEnds
  <2>1. /\ day' = day + 1 /\ day < LastDay /\ UNCHANGED <<lastPage, points, rollup, live, rollupFaults>>
        /\ alone' = (alone /\ \A r \in RollupRun : rollup[r] = NoRollup)
    BY <1>1 DEF DayEnds
  <2>2. day' \in PageDate /\ day <= day' /\ day \in Nat
    BY <1>0, <2>1, DayFacts
  <2>3. PortfolioTypes'
    BY <1>0, <2>1, <2>2 DEF PortfolioTypes
  <2>4. NothingAhead'
    BY <1>0, <1>r, <2>1, <2>2, DayFacts DEF NothingAhead, HeldOK
  <2>5. alone' => RunsApart'
    <3>1. lastPage'.date # day'
      BY <1>0, <2>1, <2>2 DEF NothingAhead
    <3> QED
      BY <2>1, <3>1, RestingRun DEF RunsApart
  <2>6. PointsGo
    BY <2>1 DEF PointsGo, Recorded
  <2> QED
    BY <2>3, <2>4, <2>5, <2>6 DEF PortfolioInv
<1>2. ASSUME NEW r \in RollupRun, StartRollup(r) \/ StartBlind(r) PROVE PortfolioInv' /\ PointsGo
  <2>1. /\ rollup[r] = NoRollup /\ UNCHANGED <<day, lastPage, points, live>> /\ rollupFaults' \in Nat
        /\ alone' = (alone /\ \A q \in RollupRun : rollup[q] = NoRollup)
        /\ rollup' = rollup \/ rollup' = [rollup EXCEPT ![r].at = "summing"]
    BY <1>0, <1>2 DEF StartRollup, StartBlind, RollupStarts, RollupFault
  <2>2. PICK c \in RollupRec : rollup' = [rollup EXCEPT ![r] = c] /\ c.of = 0 /\ c.seen = {} /\ c.at \in {"idle", "summing"}
    <3>1. CASE rollup' = rollup
      BY <1>0, <2>1, <3>1, RestingRun
    <3>2. CASE rollup' = [rollup EXCEPT ![r].at = "summing"]
      <4>1. PICK c \in RollupRec : rollup' = [rollup EXCEPT ![r] = c] /\ c.at = "summing" /\ c.of = rollup[r].of
                                   /\ c.seen = rollup[r].seen
        BY <1>h, <3>2
      <4> QED
        BY <2>1, <4>1, RestingRun
    <3> QED
      BY <2>1, <3>1, <3>2
  <2>3. HeldOK(c)
    BY <1>0, <2>2, RestsOK
  <2> QED
    BY <1>0, <1>g, <2>1, <2>2, <2>3
<1>3. ASSUME NEW r \in RollupRun, LoadHistory(r) \/ LoadFails(r) PROVE PortfolioInv' /\ PointsGo
  <2>1. PICK seen \in {points, {}} :
          /\ rollup[r].at = "summing" /\ rollup' = [rollup EXCEPT ![r] = [at |-> "loaded", of |-> day, seen |-> seen]]
          /\ UNCHANGED <<day, lastPage, points, live>> /\ rollupFaults' \in Nat /\ alone' \in BOOLEAN
          /\ alone' => alone /\ seen = points
    <3>1. CASE LoadHistory(r)
      BY <1>0, <3>1 DEF LoadHistory, BuildPage
    <3>2. CASE LoadFails(r)
      <4>1. BuildPage(r, {}) /\ RollupFault /\ alone' = FALSE
        BY <3>2 DEF LoadFails
      <4>2. rollupFaults' \in Nat
        BY <1>0, <4>1 DEF RollupFault
      <4> QED
        BY <4>1, <4>2 DEF BuildPage
    <3> QED
      BY <1>3, <3>1, <3>2
  <2> DEFINE c == [at |-> "loaded", of |-> day, seen |-> seen]
  <2>2. c \in RollupRec /\ c.at = "loaded" /\ c.of = day /\ c.seen = seen
    BY <1>0, DayFacts DEF RollupRec
  <2>3. rollup' = [rollup EXCEPT ![r] = c]
    BY <2>1
  <2>4. Cardinality({}) <= HistoryCap
    BY DayFacts, FS_EmptySet
  <2>5. HeldOK(c)
    <3>1. Cardinality(seen) <= HistoryCap
      BY <1>0, <2>1, <2>4
    <3>2. \A d \in seen : d <= day
      BY <1>0, <2>1 DEF NothingAhead
    <3>3. day <= day
      BY <1>0, DayFacts
    <3> HIDE DEF c
    <3> QED
      BY <1>0, <2>2, <3>1, <3>2, <3>3 DEF HeldOK
  <2> HIDE DEF c
  <2> QED
    BY <1>a, <1>g, <1>u, <2>1, <2>2, <2>3, <2>5
<1>4. ASSUME NEW r \in RollupRun, RecordSnapshot(r) PROVE PortfolioInv' /\ (alone' => PointsGo)
  <2>1. /\ rollup[r].at = "loaded" /\ points' = Kept(rollup[r].seen \union {rollup[r].of})
        /\ rollup' = [rollup EXCEPT ![r].at = "built"]
        /\ UNCHANGED <<day, lastPage, live, rollupFaults, alone>>
    BY <1>4 DEF RecordSnapshot
  <2>2. PICK c \in RollupRec : rollup' = [rollup EXCEPT ![r] = c] /\ c.at = "built" /\ c.of = rollup[r].of /\ c.seen = rollup[r].seen
    BY <1>h, <2>1
  <2>3. rollup'[r] = c /\ \A q \in RollupRun : q # r => rollup'[q] = rollup[q]
    BY <1>0, <2>2
  <2>4. /\ rollup[r].seen \in SUBSET PageDate /\ rollup[r].of \in PageDate /\ Cardinality(rollup[r].seen) <= HistoryCap
        /\ rollup[r].of <= day /\ \A d \in rollup[r].seen : d <= day
    BY <1>a, <1>r, <2>1 DEF HeldOK
  <2>5. /\ points' \subseteq rollup[r].seen \union {rollup[r].of} /\ Cardinality(points') <= HistoryCap
        /\ (\A d \in rollup[r].seen : d <= rollup[r].of) =>
             /\ rollup[r].of \in points'
             /\ \A d \in rollup[r].seen \ points' : d = Min(rollup[r].seen) /\ Cardinality(points') = HistoryCap
    <3>1. PICK S \in SUBSET PageDate : S = rollup[r].seen
      BY <2>4
    <3>2. PICK d \in PageDate : d = rollup[r].of
      BY <2>4
    <3>3. PICK K : K = Kept(S \union {d})
      OBVIOUS
    <3>4. points' = K
      BY <2>1, <3>1, <3>2, <3>3
    <3>5. /\ K \subseteq S \union {d} /\ Cardinality(K) <= HistoryCap
          /\ (\A e \in S : e <= d) => d \in K /\ \A e \in S \ K : e = Min(S) /\ Cardinality(K) = HistoryCap
      BY <2>4, <3>1, <3>3, KeptPoints
    <3> QED
      BY <3>1, <3>2, <3>4, <3>5
  <2>6. PortfolioTypes'
    <3>1. points' \subseteq PageDate
      BY <2>4, <2>5
    <3>2. rollup' \in [RollupRun -> RollupRec]
      BY <1>0, <2>2 DEF PortfolioTypes
    <3>3. /\ day' = day /\ lastPage' = lastPage /\ live' = live /\ rollupFaults' = rollupFaults /\ alone' = alone
          /\ Cardinality(points') <= HistoryCap
      BY <2>1, <2>5
    <3> QED
      BY <1>0, <3>1, <3>2, <3>3 DEF PortfolioTypes
  <2>7. NothingAhead'
    <3>1. \A d \in points' : d <= day
      BY <2>4, <2>5
    <3>2. HeldOK(c)
      BY <1>a, <2>2 DEF HeldOK
    <3> QED
      BY <1>0, <2>1, <2>3, <3>1, <3>2 DEF NothingAhead, HeldOK
  <2>8. ASSUME alone PROVE RunsApart' /\ PointsGo
    <3>1. RunsApart /\ rollup[r].seen = points /\ rollup[r].of = day
      BY <1>0, <2>1, <2>8 DEF RunsApart
    <3>2. \A q \in RollupRun : q # r => rollup[q] = NoRollup /\ rollup'[q] = NoRollup
      BY <1>a, <1>u, <2>1, <2>3, <2>8
    <3>3. RunsApart'
      BY <2>1, <2>2, <2>3, <3>1, <3>2, RestingRun DEF RunsApart
    <3>4. \A q \in RollupRun : Recorded(q) => q = r
      BY <3>2, RestingRun DEF Recorded
    <3>5. PointsGo
      BY <2>4, <2>5, <3>1, <3>4 DEF PointsGo
    <3> QED
      BY <3>3, <3>5
  <2> QED
    BY <2>1, <2>6, <2>7, <2>8 DEF PortfolioInv
<1>5. ASSUME NEW r \in RollupRun, RecordFails(r) PROVE PortfolioInv' /\ PointsGo
  <2>1. /\ rollup[r].at = "loaded" /\ rollupFaults' = rollupFaults + 1 /\ rollup' = [rollup EXCEPT ![r].at = "built"]
        /\ UNCHANGED <<day, lastPage, points, live, alone>>
    BY <1>5 DEF RecordFails, RollupFault
  <2>2. PICK c \in RollupRec : rollup' = [rollup EXCEPT ![r] = c] /\ c.at = "built" /\ c.of = rollup[r].of /\ c.seen = rollup[r].seen
    BY <1>h, <2>1
  <2>3. rollupFaults' \in Nat /\ rollupFaults' # rollupFaults
    BY <1>0, <2>1
  <2>4. (alone => c.of = day) /\ HeldOK(c)
    BY <1>0, <1>a, <2>1, <2>2 DEF RunsApart, HeldOK
  <2> QED
    BY <1>0, <1>a, <1>g, <1>u, <2>1, <2>2, <2>3, <2>4
<1>6. ASSUME NEW r \in RollupRun, PublishPage(r) PROVE PortfolioInv' /\ PointsGo
  <2>1. /\ rollup[r].at = "built" /\ live' = rollup[r].of /\ rollup' = [rollup EXCEPT ![r].at = "published"]
        /\ UNCHANGED <<day, lastPage, points, rollupFaults, alone>>
    BY <1>6 DEF PublishPage
  <2>2. PICK c \in RollupRec : rollup' = [rollup EXCEPT ![r] = c] /\ c.at = "published" /\ c.of = rollup[r].of /\ c.seen = rollup[r].seen
    BY <1>h, <2>1
  <2>3. rollup'[r] = c /\ \A q \in RollupRun : q # r => rollup'[q] = rollup[q]
    BY <1>0, <2>2
  <2>4. PortfolioTypes'
    BY <1>0, <1>r, <2>1, <2>2 DEF PortfolioTypes
  <2>5. NothingAhead'
    <3>1. HeldOK(c)
      BY <1>a, <2>2 DEF HeldOK
    <3> QED
      BY <1>0, <2>1, <2>3, <3>1 DEF NothingAhead, HeldOK
  <2>6. ASSUME alone PROVE RunsApart'
    <3>1. RunsApart /\ rollup[r].of = day
      BY <1>0, <2>1, <2>6 DEF RunsApart
    <3>2. \A q \in RollupRun : q # r => rollup'[q] = NoRollup
      BY <1>a, <1>u, <2>1, <2>3, <2>6
    <3> QED
      BY <2>1, <2>2, <2>3, <3>1, <3>2, RestingRun DEF RunsApart
  <2>7. PointsGo
    BY <2>1, <2>2, <2>3 DEF PointsGo, Recorded
  <2> QED
    BY <2>1, <2>4, <2>5, <2>6, <2>7 DEF PortfolioInv
<1>7. ASSUME NEW r \in RollupRun, Remember(r) PROVE PortfolioInv' /\ PointsGo
  <2>1. /\ rollup[r].at = "published" /\ lastPage' = [date |-> day, of |-> rollup[r].of]
        /\ rollup' = [rollup EXCEPT ![r] = NoRollup]
        /\ UNCHANGED <<day, live, points, rollupFaults, alone>>
    BY <1>7 DEF Remember
  <2>2. rollup'[r] = NoRollup /\ \A q \in RollupRun : q # r => rollup'[q] = rollup[q]
    BY <1>0, <2>1
  <2>3. PortfolioTypes'
    BY <1>0, <1>r, <2>1, RestingRun, DayFacts DEF PortfolioTypes
  <2>4. NothingAhead'
    <3>1. HeldOK(NoRollup) /\ lastPage'.date <= day
      BY <1>0, <2>1, RestingRun, RestsOK, DayFacts
    <3> QED
      BY <1>0, <2>1, <2>2, <3>1 DEF NothingAhead, HeldOK
  <2>5. ASSUME alone PROVE RunsApart'
    <3>1. RunsApart /\ rollup[r].of = day /\ live = day
      BY <1>0, <2>1, <2>5 DEF RunsApart
    <3>2. \A q \in RollupRun : rollup'[q] = NoRollup
      BY <1>a, <1>u, <2>1, <2>2, <2>5
    <3> QED
      BY <2>1, <3>1, <3>2, RestingRun DEF RunsApart
  <2>6. PointsGo
    BY <2>1, <2>2, RestingRun DEF PointsGo, Recorded
  <2> QED
    BY <2>1, <2>3, <2>4, <2>5, <2>6 DEF PortfolioInv
<1>8. ASSUME NEW r \in RollupRun, RunEnds(r) PROVE PortfolioInv' /\ PointsGo
  <2>1. /\ rollup[r] # NoRollup /\ rollupFaults' \in Nat /\ rollup' = [rollup EXCEPT ![r] = NoRollup]
        /\ UNCHANGED <<day, lastPage, points, live, alone>>
    BY <1>0, <1>8 DEF RunEnds, RollupFault
  <2>2. HeldOK(NoRollup)
    BY <1>0, RestingRun, RestsOK
  <2> QED
    BY <1>0, <1>g, <1>u, <2>1, <2>2, RestingRun
<1>9. CASE UNCHANGED portfolioVars
  BY <1>0, <1>9 DEF portfolioVars, PortfolioInv, PortfolioTypes, NothingAhead, RunsApart, PointsGo, Recorded, HeldOK
<1> QED
  BY <1>1, <1>2, <1>3, <1>4, <1>5, <1>6, <1>7, <1>8, <1>9 DEF PortfolioNext

LEMMA PortfolioInvariant == PortfolioSpec => []PortfolioInv
BY InitPortfolio, PortfolioStep, PTL DEF PortfolioSpec

\* As long as no run spans midnight or overlaps another, the page that is linked as today's
\* is of today's data and is the page on Spin; and the history loses its oldest point alone,
\* when it is full, and gains the day that is recorded: for all runs, days, faults and
\* lengths of the history.
THEOREM PortfolioIsToday == PortfolioSpec => []TodayIsToday /\ HistoryIsKept
<1>1. PortfolioInv => TodayIsToday
  BY DEF PortfolioInv, RunsApart, TodayIsToday, PublishedToday
<1>2. PortfolioInv /\ [PortfolioNext]_portfolioVars =>
        [alone' => /\ \A d \in points \ points' : d = Min(points) /\ Cardinality(points') = HistoryCap
                   /\ \A r \in RollupRun : Recorded(r) => rollup[r].of \in points']_portfolioVars
  BY PortfolioStep DEF PointsGo
<1> QED
  BY <1>1, <1>2, PortfolioInvariant, PTL DEF PortfolioSpec, HistoryIsKept

-----------------------------------------------------------------------------
(* Stand-ups                                                                *)

Update == [date : Date, user : Member, blocker : BOOLEAN, id : Nat]
JobRec == [pc : {"idle", "record", "capture", "next", "add", "mark"}, date : 0..MaxDate, thread : Nat,
           shown : SUBSET Update, left : SUBSET Update, who : Member \union {"none"}]

StandupTypes ==
  /\ today \in Date /\ threads \in Nat
  /\ updates \in SUBSET Update /\ IsFiniteSet(updates)
  /\ marker \subseteq Date \X Member
  /\ items \in [Date \X Member -> Nat]
  /\ \A p \in posts : p.shown \subseteq Update
  /\ jobs \in [Job -> JobRec]

\* A close has filed what it shows, is about to, or has it still before it.
JobOK(c) ==
  /\ c.pc \in {"capture", "next", "add", "mark"} =>
       c.date \in Date /\ c.shown \subseteq updates /\ \A u \in c.shown \union c.left : u.date = c.date
  /\ c.pc \in {"next", "add", "mark"} =>
       \A u \in c.shown : u.blocker => \/ u \in c.left
                                       \/ items[<<c.date, u.user>>] >= 1
                                       \/ c.pc = "add" /\ c.who = u.user
  /\ c.pc \in {"add", "mark"} => c.who \in Member
  /\ c.pc = "mark" => items[<<c.date, c.who>>] >= 1

JobsOK == \A j \in Job : JobOK(jobs[j])

\* A day that no two closes have shared, and whose markers could be read: what was filed is
\* marked, or the one close that is at work is about to mark it, and it files nothing that
\* is marked.
DateOK(d) ==
  /\ \A i, j \in Job : jobs[i].date = d /\ jobs[j].date = d => i = j
  /\ \A u \in Member :
       /\ items[<<d, u>>] <= 1
       /\ \/ items[<<d, u>>] = 0 \/ <<d, u>> \in marker
          \/ \E j \in Job : jobs[j].pc = "mark" /\ jobs[j].date = d /\ jobs[j].who = u
  /\ \A j \in Job : jobs[j].pc = "add" /\ jobs[j].date = d => <<d, jobs[j].who>> \notin marker

DatesOK == \A d \in Date \ clashed : DateOK(d)

StandupInv == StandupTypes /\ JobsOK /\ DatesOK /\ MarkerMeansItem /\ ShownIsFollowedUp

LEMMA RestIsJob == Rest \in JobRec /\ Rest.pc = "idle" /\ Rest.date = 0 /\ JobOK(Rest)
BY StandupAssumption DEF Rest, JobRec, JobOK

LEMMA InitStandup == ASSUME StandupInit PROVE StandupInv
<1>1. StandupTypes
  BY RestIsJob, StandupAssumption, FS_EmptySet DEF StandupInit, StandupTypes, Date
<1>2. JobsOK
  BY RestIsJob DEF StandupInit, JobsOK
<1>3. DatesOK
  <2> SUFFICES ASSUME NEW d \in Date PROVE DateOK(d)
    BY DEF DatesOK
  <2>1. d # 0 /\ \A u \in Member : items[<<d, u>>] = 0
    BY StandupAssumption DEF StandupInit, Date
  <2>2. \A j \in Job : jobs[j].date = 0 /\ jobs[j].pc = "idle"
    BY RestIsJob DEF StandupInit
  <2> QED
    BY <2>1, <2>2 DEF DateOK
<1> QED
  BY <1>1, <1>2, <1>3 DEF StandupInit, StandupInv, MarkerMeansItem, ShownIsFollowedUp

\* The first of the updates left is one of them.
LEMMA FirstIsThere == ASSUME NEW S \in SUBSET Update, S # {} PROVE First(S) \in S
<1> DEFINE I == {u.id : u \in S}
<1>1. I \in SUBSET Nat /\ I # {}
  BY DEF Update
<1>2. PICK m \in I : \A n \in I : m <= n
  BY <1>1, LeastNumber
<1>3. \E u \in S : \A v \in S : u.id <= v.id
  BY <1>2
<1> QED
  BY <1>3 DEF First

\* A job that goes on, with the follow-ups and the markers as they are.
LEMMA JobGoesOn ==
  ASSUME StandupInv, NEW j \in Job, NEW c \in JobRec, jobs' = [jobs EXCEPT ![j] = c], JobOK(c),
         UNCHANGED <<today, updates, marker, items>>, threads' \in Nat, clashed \subseteq clashed',
         \A p \in posts' : p.shown \subseteq Update, ShownIsFollowedUp',
         jobs[j].pc = "mark" => jobs[j].date \in clashed',
         c.pc # "mark", c.pc = "add" => <<c.date, c.who>> \notin marker \/ c.date \in clashed',
         \/ c.date \in {0, jobs[j].date} \union clashed'
         \/ \A o \in Job : jobs[o].date # c.date
  PROVE  StandupInv'
<1>0. /\ StandupTypes /\ JobsOK /\ DatesOK /\ MarkerMeansItem
      /\ jobs \in [Job -> JobRec]
  BY DEF StandupInv, StandupTypes
<1>1. StandupTypes'
  BY <1>0 DEF StandupTypes
<1>2. JobsOK'
  BY <1>0 DEF JobsOK, JobOK
<1>3. DatesOK'
  <2> SUFFICES ASSUME NEW d \in Date, d \notin clashed' PROVE DateOK(d)'
    BY DEF DatesOK
  <2>1. DateOK(d) /\ d # 0
    BY <1>0, StandupAssumption DEF DatesOK, Date
  <2>2. /\ \A o \in Job : o # j => jobs'[o] = jobs[o]
        /\ jobs'[j] = c
    BY <1>0
  <2>3. \A i, k \in Job : jobs'[i].date = d /\ jobs'[k].date = d => i = k
    BY <2>1, <2>2 DEF DateOK
  <2>4. \A u \in Member : items[<<d, u>>] <= 1
          /\ (\/ items[<<d, u>>] = 0 \/ <<d, u>> \in marker
              \/ \E o \in Job : jobs'[o].pc = "mark" /\ jobs'[o].date = d /\ jobs'[o].who = u)
    <3> TAKE u \in Member
    <3>1. CASE \E o \in Job : jobs[o].pc = "mark" /\ jobs[o].date = d /\ jobs[o].who = u
      <4>1. PICK o \in Job : jobs[o].pc = "mark" /\ jobs[o].date = d /\ jobs[o].who = u
        BY <3>1
      <4>2. o # j
        BY <4>1
      <4> QED
        BY <2>1, <2>2, <4>1, <4>2 DEF DateOK
    <3> QED
      BY <2>1, <3>1 DEF DateOK
  <2>5. \A o \in Job : jobs'[o].pc = "add" /\ jobs'[o].date = d => <<d, jobs'[o].who>> \notin marker
    BY <2>1, <2>2 DEF DateOK
  <2> QED
    BY <2>3, <2>4, <2>5 DEF DateOK
<1>4. MarkerMeansItem'
  BY <1>0 DEF MarkerMeansItem
<1> QED
  BY <1>1, <1>2, <1>3, <1>4 DEF StandupInv

LEMMA StandupStep == ASSUME StandupInv, [StandupNext]_standupVars PROVE StandupInv'
<1>0. /\ StandupTypes /\ JobsOK /\ DatesOK /\ MarkerMeansItem /\ ShownIsFollowedUp
      /\ jobs \in [Job -> JobRec] /\ items \in [Date \X Member -> Nat] /\ updates \in SUBSET Update
      /\ today \in Date /\ threads \in Nat /\ IsFiniteSet(updates)
      /\ \A p \in posts : p.shown \subseteq Update
  BY DEF StandupInv, StandupTypes
<1>j. \A j \in Job : jobs[j] \in JobRec /\ JobOK(jobs[j])
  BY <1>0 DEF JobsOK
<1>1. ASSUME Midnight PROVE StandupInv'
  <2>1. today' \in Date
    BY <1>0, <1>1, StandupAssumption DEF Midnight, Date
  <2> QED
    BY <1>0, <1>1, <2>1 DEF Midnight, StandupInv, StandupTypes, JobsOK, JobOK, DatesOK, DateOK, MarkerMeansItem, ShownIsFollowedUp
<1>2. ASSUME NEW u \in Member, NEW blocker \in BOOLEAN, NEW d \in Date, Submit(u, blocker, d) PROVE StandupInv'
  <2> DEFINE n == [date |-> d, user |-> u, blocker |-> blocker, id |-> Cardinality(updates) + 1]
  <2>1. n \in Update
    BY <1>0, FS_CardinalityType DEF Update
  <2>2. IsFiniteSet(updates \union {n})
    BY <1>0, FS_AddElement
  <2>3. updates' = updates \union {n}
    BY <1>2 DEF Submit
  <2> HIDE DEF n
  <2>4. StandupTypes'
    BY <1>0, <1>2, <2>1, <2>2, <2>3 DEF Submit, StandupTypes
  <2> QED
    BY <1>0, <1>2, <2>3, <2>4 DEF Submit, StandupInv, JobsOK, JobOK, DatesOK, DateOK, MarkerMeansItem, ShownIsFollowedUp
<1>3. ASSUME NEW j \in Job, PostOpening(j) PROVE StandupInv'
  <2> DEFINE c == [Rest EXCEPT !.pc = "record", !.thread = threads + 1]
  <2>1. jobs' = [jobs EXCEPT ![j] = c] /\ jobs[j].pc = "idle"
    BY <1>3 DEF PostOpening, Busy
  <2>0. threads + 1 \in Nat
    BY <1>0
  <2>2. c \in JobRec /\ c.pc = "record" /\ c.date = Rest.date
    BY <2>0, RestIsJob DEF JobRec
  <2> HIDE DEF c
  <2>4. JobOK(c)
    BY <2>2 DEF JobOK
  <2>3. UNCHANGED <<today, updates, marker, items, posts, clashed>> /\ threads' \in Nat /\ ShownIsFollowedUp'
    BY <1>0, <1>3 DEF PostOpening, ShownIsFollowedUp
  <2> QED
    BY <1>0, <2>1, <2>2, <2>3, <2>4, RestIsJob, JobGoesOn
<1>4. ASSUME NEW j \in Job, RecordRound(j) PROVE StandupInv'
  <2>1. /\ jobs' = [jobs EXCEPT ![j] = Rest] /\ jobs[j].pc = "record"
        /\ UNCHANGED <<today, updates, marker, items, posts, clashed, threads>> /\ ShownIsFollowedUp'
    BY <1>0, <1>4 DEF RecordRound, ShownIsFollowedUp
  <2> QED
    BY <1>0, <2>1, RestIsJob, JobGoesOn
<1>5. ASSUME NEW j \in Job, StartClose(j) PROVE StandupInv'
  <2> DEFINE c == [Rest EXCEPT !.pc = "capture", !.date = today, !.shown = Of(today)]
  <2>1. jobs' = [jobs EXCEPT ![j] = c] /\ jobs[j].pc = "idle"
    BY <1>5 DEF StartClose, Busy
  <2>2. Of(today) \in SUBSET Update /\ today \in 0..MaxDate
    BY <1>0, StandupAssumption DEF Of, Date
  <2>5. /\ c \in JobRec /\ c.pc = "capture" /\ c.date = today /\ c.shown = Of(today) /\ c.left = Rest.left
    BY <2>2, RestIsJob DEF JobRec
  <2>6. Rest.left = {}
    BY DEF Rest
  <2> HIDE DEF c
  <2>7. JobOK(c)
    BY <1>0, <2>5, <2>6 DEF JobOK, Of
  <2>3. UNCHANGED <<today, updates, marker, items, posts, threads>> /\ ShownIsFollowedUp' /\ clashed \subseteq clashed'
    BY <1>0, <1>5 DEF StartClose, ShownIsFollowedUp
  <2>4. today \in clashed' \/ \A o \in Job : jobs[o].date # today
    BY <1>5 DEF StartClose
  <2> QED
    BY <1>0, <2>1, <2>3, <2>4, <2>5, <2>7, JobGoesOn
<1>6. ASSUME NEW j \in Job, ReadBlockers(j) PROVE StandupInv'
  <2> DEFINE L == {u \in Of(jobs[j].date) : u.blocker}
             c == [jobs[j] EXCEPT !.left = L, !.pc = "next"]
  <2>1. jobs' = [jobs EXCEPT ![j] = c] /\ jobs[j].pc = "capture"
    BY <1>0, <1>6 DEF ReadBlockers
  <2>2. L \subseteq updates /\ \A u \in L : u.date = jobs[j].date
    BY DEF Of
  <2>3. \A u \in updates : u.blocker /\ u.date = jobs[j].date => u \in L
    BY DEF Of
  <2> HIDE DEF L
  <2>4. c \in JobRec /\ c.pc = "next" /\ c.left = L /\ c.date = jobs[j].date /\ c.shown = jobs[j].shown
    BY <1>0, <1>j, <2>2 DEF JobRec
  <2> HIDE DEF c
  <2>5. JobOK(c)
    <3>1. jobs[j].date \in Date /\ jobs[j].shown \subseteq updates /\ \A u \in jobs[j].shown : u.date = jobs[j].date
      BY <1>j, <2>1 DEF JobOK
    <3> QED
      BY <2>2, <2>3, <2>4, <3>1 DEF JobOK
  <2>6. UNCHANGED <<today, updates, marker, items, posts, threads, clashed>> /\ ShownIsFollowedUp'
    BY <1>0, <1>6 DEF ReadBlockers, ShownIsFollowedUp
  <2> QED
    BY <1>0, <2>1, <2>4, <2>5, <2>6, JobGoesOn
\* The next of the updates: its author's marker is read, or cannot be, or the author is not
\* found.
<1>7. ASSUME NEW j \in Job, CheckMarker(j) \/ MissMarker(j) \/ Unresolved(j) PROVE StandupInv'
  <2> DEFINE next == First(jobs[j].left)
  <2>1. jobs[j].pc = "next" /\ jobs[j].left # {} /\ jobs[j].left \in SUBSET Update /\ jobs[j].shown \in SUBSET Update
    BY <1>7, <1>j DEF CheckMarker, MissMarker, Unresolved, JobRec
  <2>2. next \in jobs[j].left /\ next \in Update
    BY <2>1, FirstIsThere
  <2>3. next.user \in Member /\ next.date = jobs[j].date /\ jobs[j].date \in Date
    BY <1>j, <2>1, <2>2 DEF JobOK, Update
  <2>4. UNCHANGED <<today, updates, marker, items, posts, threads>> /\ ShownIsFollowedUp' /\ clashed \subseteq clashed'
    BY <1>0, <1>7 DEF CheckMarker, MissMarker, Unresolved, ShownIsFollowedUp
  <2>5. /\ jobs[j].shown \subseteq updates /\ \A u \in jobs[j].shown \union jobs[j].left : u.date = jobs[j].date
        /\ \A u \in jobs[j].shown : u.blocker => u \in jobs[j].left \/ items[<<jobs[j].date, u.user>>] >= 1
    BY <1>j, <2>1 DEF JobOK
  <2>6. CASE CheckMarker(j)
    <3> DEFINE at == IF Captured(next.date, next.user) THEN "next" ELSE "add"
               c  == [jobs[j] EXCEPT !.left = @ \ {next}, !.who = next.user, !.pc = at]
    <3>1. jobs' = [jobs EXCEPT ![j] = c]
      BY <1>0, <2>6 DEF CheckMarker
    <3>2. <<next.date, next.user>> \in marker => at = "next" /\ items[<<jobs[j].date, next.user>>] >= 1
      BY <1>0, <2>3 DEF MarkerMeansItem, Captured
    <3>3. <<next.date, next.user>> \notin marker => at = "add"
      BY DEF Captured
    <3> HIDE DEF next, at
    <3>4. /\ c \in JobRec /\ c.pc = at /\ c.left = jobs[j].left \ {next} /\ c.who = next.user
          /\ c.date = jobs[j].date /\ c.shown = jobs[j].shown
      BY <1>0, <1>j, <2>1, <2>3, <3>2, <3>3 DEF JobRec
    <3> HIDE DEF c
    <3>5. JobOK(c)
      BY <2>3, <2>5, <3>2, <3>3, <3>4 DEF JobOK
    <3>6. c.pc # "mark" /\ (c.pc = "add" => <<c.date, c.who>> \notin marker)
      BY <2>3, <3>2, <3>3, <3>4
    <3> QED
      BY <1>0, <2>1, <2>4, <3>1, <3>4, <3>5, <3>6, JobGoesOn
  <2>7. CASE Unresolved(j)
    <3> DEFINE S == {u \in jobs[j].shown : u.user # next.user}
               c == [jobs[j] EXCEPT !.left = @ \ {next}, !.shown = S]
    <3>1. jobs' = [jobs EXCEPT ![j] = c]
      BY <1>0, <2>7 DEF Unresolved
    <3>2. S \subseteq jobs[j].shown /\ next \notin S
      OBVIOUS
    <3> HIDE DEF next, S
    <3>4. /\ c \in JobRec /\ c.pc = "next" /\ c.left = jobs[j].left \ {next}
          /\ c.date = jobs[j].date /\ c.shown = S
      BY <1>0, <1>j, <2>1, <3>2 DEF JobRec
    <3> HIDE DEF c
    <3>5. JobOK(c)
      BY <2>3, <2>5, <3>2, <3>4 DEF JobOK
    <3> QED
      BY <1>0, <2>1, <2>4, <3>1, <3>4, <3>5, JobGoesOn
  <2>8. CASE MissMarker(j)
    <3> DEFINE c == [jobs[j] EXCEPT !.left = @ \ {next}, !.who = next.user, !.pc = "add"]
    <3>1. jobs' = [jobs EXCEPT ![j] = c] /\ jobs[j].date \in clashed'
      BY <1>0, <2>8 DEF MissMarker
    <3> HIDE DEF next
    <3>2. /\ c \in JobRec /\ c.pc = "add" /\ c.left = jobs[j].left \ {next} /\ c.who = next.user
          /\ c.date = jobs[j].date /\ c.shown = jobs[j].shown
      BY <1>0, <1>j, <2>1, <2>3 DEF JobRec
    <3> HIDE DEF c
    <3>3. JobOK(c)
      BY <2>3, <2>5, <3>2 DEF JobOK
    <3> QED
      BY <1>0, <2>1, <2>4, <3>1, <3>2, <3>3, JobGoesOn
  <2> QED
    BY <1>7, <2>6, <2>7, <2>8
<1>8. ASSUME NEW j \in Job, AddBlocker(j) PROVE StandupInv'
  <2> DEFINE d == jobs[j].date
             w == jobs[j].who
             c == [jobs[j] EXCEPT !.pc = "mark"]
  <2>1. jobs[j].pc = "add" /\ d \in Date /\ w \in Member /\ <<d, w>> \in Date \X Member
    BY <1>8, <1>j DEF AddBlocker, JobOK
  <2>2. /\ jobs' = [jobs EXCEPT ![j] = c] /\ items' = [items EXCEPT ![<<d, w>>] = items[<<d, w>>] + 1]
        /\ UNCHANGED <<today, threads, updates, marker, posts, clashed>>
    BY <1>8 DEF AddBlocker, GoOn
  <2>3. c \in JobRec /\ c.pc = "mark" /\ c.date = d /\ c.who = w /\ c.shown = jobs[j].shown /\ c.left = jobs[j].left
    BY <1>j DEF JobRec
  <2> HIDE DEF c, d, w
  <2>4. /\ \A k \in Date \X Member : items'[k] \in Nat /\ items'[k] >= items[k]
        /\ \A k \in Date \X Member : k # <<d, w>> => items'[k] = items[k]
        /\ items'[<<d, w>>] = items[<<d, w>>] + 1 /\ items'[<<d, w>>] >= 1
        /\ items' \in [Date \X Member -> Nat]
    BY <1>0, <2>1, <2>2
  <2>5. jobs'[j] = c /\ \A o \in Job : o # j => jobs'[o] = jobs[o]
    BY <1>0, <2>2
  <2>6. StandupTypes'
    BY <1>0, <2>2, <2>3, <2>4 DEF StandupTypes
  <2>g. \A k \in Date \X Member : items[k] >= 1 => items'[k] >= 1
    BY <1>0, <2>4
  <2>7. JobsOK'
    <3> SUFFICES ASSUME NEW o \in Job PROVE JobOK(jobs[o])'
      BY DEF JobsOK
    <3>1. /\ JobOK(jobs[o]) /\ jobs[o].who \in Member \union {"none"}
          /\ \A u \in jobs[o].shown : u.user \in Member
      BY <1>j DEF JobRec, Update
    <3>2. CASE o # j
      BY <2>2, <2>5, <2>g, <3>1, <3>2 DEF JobOK
    <3>3. CASE o = j
      <4>1. \A u \in jobs[j].shown : u.blocker =>
              u \in jobs[j].left \/ items[<<d, u.user>>] >= 1 \/ w = u.user
        BY <2>1, <3>1, <3>3 DEF JobOK, d, w
      <4>2. \A u \in jobs[j].shown : u.blocker => u \in jobs[j].left \/ items'[<<d, u.user>>] >= 1
        BY <2>1, <2>4, <2>g, <3>1, <3>3, <4>1
      <4>3. jobs[j].shown \subseteq updates /\ \A u \in jobs[j].shown \union jobs[j].left : u.date = d
        BY <2>1, <3>1, <3>3 DEF JobOK, d
      <4> QED
        BY <2>1, <2>2, <2>3, <2>4, <2>5, <3>3, <4>2, <4>3 DEF JobOK
    <3> QED
      BY <3>2, <3>3
  <2>8. MarkerMeansItem' /\ ShownIsFollowedUp'
    <3>1. marker \subseteq Date \X Member /\ \A p \in posts : \A u \in p.shown : <<u.date, u.user>> \in Date \X Member
      BY <1>0 DEF StandupTypes, Update
    <3> QED
      BY <1>0, <2>2, <2>g, <3>1 DEF MarkerMeansItem, ShownIsFollowedUp
  <2>9. DatesOK'
    <3> SUFFICES ASSUME NEW z \in Date, z \notin clashed PROVE DateOK(z)'
      BY <2>2 DEF DatesOK
    <3>0. DateOK(z)
      BY <1>0 DEF DatesOK
    <3>1. \A i, k \in Job : jobs'[i].date = z /\ jobs'[k].date = z => i = k
      BY <2>3, <2>5, <3>0 DEF DateOK, d
    <3>2. \A u \in Member : <<z, u>> # <<d, w>> =>
            /\ items'[<<z, u>>] <= 1
            /\ \/ items'[<<z, u>>] = 0 \/ <<z, u>> \in marker
               \/ \E o \in Job : jobs'[o].pc = "mark" /\ jobs'[o].date = z /\ jobs'[o].who = u
      <4> SUFFICES ASSUME NEW u \in Member, <<z, u>> # <<d, w>>
                   PROVE  /\ items'[<<z, u>>] <= 1
                          /\ \/ items'[<<z, u>>] = 0 \/ <<z, u>> \in marker
                             \/ \E o \in Job : jobs'[o].pc = "mark" /\ jobs'[o].date = z /\ jobs'[o].who = u
        OBVIOUS
      <4>1. items'[<<z, u>>] = items[<<z, u>>]
        BY <2>4
      <4>2. ASSUME NEW o \in Job, jobs[o].pc = "mark" PROVE jobs'[o] = jobs[o]
        BY <2>1, <2>5, <4>2
      <4> QED
        BY <3>0, <4>1, <4>2 DEF DateOK
    <3>3. CASE z = d
      <4>1. ~ \E o \in Job : jobs[o].pc = "mark" /\ jobs[o].date = z
        BY <2>1, <3>0, <3>3 DEF DateOK, d
      <4>2. <<d, w>> \notin marker /\ items[<<d, w>>] = 0
        BY <2>1, <3>0, <3>3, <4>1 DEF DateOK, d, w
      <4>3. items'[<<d, w>>] = 1
        BY <2>4, <4>2
      <4>4. \A o \in Job : jobs'[o].pc = "add" => jobs'[o].date # z
        BY <2>1, <2>3, <2>5, <3>0, <3>3 DEF DateOK, d
      <4>5. \A u \in Member :
              /\ items'[<<z, u>>] <= 1
              /\ \/ items'[<<z, u>>] = 0 \/ <<z, u>> \in marker
                 \/ \E o \in Job : jobs'[o].pc = "mark" /\ jobs'[o].date = z /\ jobs'[o].who = u
        BY <2>3, <2>5, <3>2, <3>3, <4>3
      <4> QED
        BY <2>2, <3>1, <4>4, <4>5 DEF DateOK
    <3>4. CASE z # d
      <4>1. \A o \in Job : jobs'[o].pc = "add" /\ jobs'[o].date = z => <<z, jobs'[o].who>> \notin marker
        BY <2>3, <2>5, <3>0, <3>4 DEF DateOK
      <4> QED
        BY <2>2, <3>1, <3>2, <3>4, <4>1 DEF DateOK
    <3> QED
      BY <3>3, <3>4
  <2> QED
    BY <2>6, <2>7, <2>8, <2>9 DEF StandupInv
<1>9. ASSUME NEW j \in Job, SetMarker(j) PROVE StandupInv'
  <2> DEFINE d == jobs[j].date
             w == jobs[j].who
             c == [jobs[j] EXCEPT !.pc = "next"]
  <2>1. /\ jobs[j].pc = "mark" /\ d \in Date /\ w \in Member /\ <<d, w>> \in Date \X Member
        /\ items[<<d, w>>] >= 1
    BY <1>9, <1>j DEF SetMarker, JobOK
  <2>2. /\ jobs' = [jobs EXCEPT ![j] = c] /\ marker' = marker \union {<<d, w>>}
        /\ UNCHANGED <<today, threads, updates, items, posts, clashed>>
    BY <1>9 DEF SetMarker, GoOn
  <2>3. c \in JobRec /\ c.pc = "next" /\ c.date = d /\ c.shown = jobs[j].shown /\ c.left = jobs[j].left
    BY <1>j DEF JobRec
  <2> HIDE DEF c, d, w
  <2>5. jobs'[j] = c /\ \A o \in Job : o # j => jobs'[o] = jobs[o]
    BY <1>0, <2>2
  <2>6. StandupTypes'
    BY <1>0, <2>1, <2>2, <2>3 DEF StandupTypes
  <2>7. JobsOK'
    <3> SUFFICES ASSUME NEW o \in Job PROVE JobOK(jobs[o])'
      BY DEF JobsOK
    <3>1. JobOK(jobs[o])
      BY <1>j
    <3>2. CASE o # j
      BY <2>2, <2>5, <3>1, <3>2 DEF JobOK
    <3>3. CASE o = j
      BY <2>1, <2>2, <2>3, <2>5, <3>1, <3>3 DEF JobOK, d, w
    <3> QED
      BY <3>2, <3>3
  <2>8. MarkerMeansItem' /\ ShownIsFollowedUp'
    BY <1>0, <2>1, <2>2 DEF MarkerMeansItem, ShownIsFollowedUp
  <2>9. DatesOK'
    <3> SUFFICES ASSUME NEW z \in Date, z \notin clashed PROVE DateOK(z)'
      BY <2>2 DEF DatesOK
    <3>0. DateOK(z)
      BY <1>0 DEF DatesOK
    <3>1. \A i, k \in Job : jobs'[i].date = z /\ jobs'[k].date = z => i = k
      BY <2>3, <2>5, <3>0 DEF DateOK, d
    <3>2. \A u \in Member :
            /\ items[<<z, u>>] <= 1
            /\ \/ items[<<z, u>>] = 0 \/ <<z, u>> \in marker'
               \/ \E o \in Job : jobs'[o].pc = "mark" /\ jobs'[o].date = z /\ jobs'[o].who = u
      <4> TAKE u \in Member
      <4>1. CASE \E o \in Job : jobs[o].pc = "mark" /\ jobs[o].date = z /\ jobs[o].who = u
        <5>1. PICK o \in Job : jobs[o].pc = "mark" /\ jobs[o].date = z /\ jobs[o].who = u
          BY <4>1
        <5>2. o = j => <<z, u>> \in marker'
          BY <2>2, <5>1 DEF d, w
        <5> QED
          BY <2>5, <3>0, <5>1, <5>2 DEF DateOK
      <4> QED
        BY <2>2, <3>0, <4>1 DEF DateOK
    <3>3. \A o \in Job : jobs'[o].pc = "add" /\ jobs'[o].date = z => <<z, jobs'[o].who>> \notin marker'
      <4> SUFFICES ASSUME NEW o \in Job, jobs'[o].pc = "add", jobs'[o].date = z PROVE <<z, jobs'[o].who>> \notin marker'
        OBVIOUS
      <4>1. o # j /\ jobs'[o] = jobs[o]
        BY <2>3, <2>5
      <4>2. z # d
        BY <3>0, <4>1 DEF DateOK, d
      <4> QED
        BY <2>2, <3>0, <4>1, <4>2 DEF DateOK
    <3> QED
      BY <2>2, <3>1, <3>2, <3>3 DEF DateOK
  <2> QED
    BY <2>6, <2>7, <2>8, <2>9 DEF StandupInv
<1>10. ASSUME NEW j \in Job, PostPreread(j) PROVE StandupInv'
  <2>1. /\ jobs[j].pc = "next" /\ jobs[j].left = {} /\ jobs' = [jobs EXCEPT ![j] = Rest]
        /\ UNCHANGED <<today, updates, marker, items, threads, clashed>>
    BY <1>10 DEF PostPreread
  <2>2. \A p \in posts' : p \in posts \/ p.shown = jobs[j].shown
    BY <1>10 DEF PostPreread
  <2>3. /\ jobs[j].shown \in SUBSET Update
        /\ \A u \in jobs[j].shown : u.blocker => items[<<u.date, u.user>>] >= 1
    BY <1>j, <2>1 DEF JobOK, JobRec
  <2>4. ShownIsFollowedUp' /\ \A p \in posts' : p.shown \subseteq Update
    BY <1>0, <2>1, <2>2, <2>3 DEF ShownIsFollowedUp
  <2> QED
    BY <1>0, <2>1, <2>4, RestIsJob, JobGoesOn
<1>11. ASSUME NEW j \in Job, Lost(j) PROVE StandupInv'
  <2>1. /\ jobs' = [jobs EXCEPT ![j] = Rest] /\ clashed' = clashed \union ({jobs[j].date} \ {0})
        /\ UNCHANGED <<today, updates, marker, items, posts, threads>> /\ ShownIsFollowedUp'
    BY <1>0, <1>11 DEF Lost, ShownIsFollowedUp
  <2>2. jobs[j].pc = "mark" => jobs[j].date \in clashed'
    <3>1. \A d \in Date : d # 0
      BY StandupAssumption DEF Date
    <3> QED
      BY <1>j, <2>1, <3>1 DEF JobOK
  <2> QED
    BY <1>0, <2>1, <2>2, RestIsJob, JobGoesOn
<1>12. CASE UNCHANGED standupVars
  BY <1>0, <1>12 DEF standupVars, StandupInv, StandupTypes, JobsOK, JobOK, DatesOK, DateOK, MarkerMeansItem, ShownIsFollowedUp
<1> QED
  BY <1>1, <1>2, <1>3, <1>4, <1>5, <1>6, <1>7, <1>8, <1>9, <1>10, <1>11, <1>12 DEF StandupNext

LEMMA StandupInvariant == StandupSpec => []StandupInv
<1>1. StandupInit => StandupInv
  BY InitStandup
<1>2. StandupInv /\ [StandupNext]_standupVars => StandupInv'
  BY StandupStep
<1> QED
  BY <1>1, <1>2, PTL DEF StandupSpec

\* Whatever closes overlap, fail, are lost or cannot read a marker, each blocker that a
\* pre-read shows has its follow-up and each marker its item.  A day on which no two closes
\* overlapped, none was lost midway and every marker could be read has at most one follow-up
\* for each member; on other days there may be more.
THEOREM FollowUpsAreFiled == StandupSpec => []FollowUpsHold
<1>1. StandupInv => FollowUpsHold
  BY DEF StandupInv, FollowUpsHold, NoSecondFollowUp, DatesOK, DateOK
<1> QED
  BY <1>1, StandupInvariant, PTL

-----------------------------------------------------------------------------
(* The App Home                                                             *)

TaskRec == [at : {"none", "work", "read", "half", "publish"}, sched : Nat, items : Nat]

HomeTypes ==
  /\ wire \in [Click -> SUBSET {"first", "retry"}] /\ answered \in [Click -> BOOLEAN]
  /\ acted \in [Click -> {0, 1}] /\ refused \subseteq Click /\ dropped \subseteq Click
  /\ task \in [Click -> TaskRec]
  /\ data \in Versions /\ home \in Versions

\* A click whose first delivery is under way, or whose task is at work, has not acted.
ClickOK(c) ==
  /\ "first" \in wire[c] => acted[c] = 0 /\ Resting(c) /\ c \notin refused
  /\ task[c].at = "work" => acted[c] = 0 /\ c \notin refused
  /\ c \in refused => acted[c] = 0
  /\ "first" \notin wire[c] =>
       acted[c] = 1 \/ c \in refused \union dropped \/ task[c].at = "work"

ClicksOK == \A c \in Click : ClickOK(c)

Shows == \E c \in Click : acted[c] > 0 /\ click[c] \in {"open", "done", "remove", "submit"}

\* In turn, the one task has read what is so, and a Home no task is about to refresh
\* shows what is so.
InTurnOK ==
  inTurn =>
    /\ \A c, d \in Click : ~Resting(c) /\ ~Resting(d) => c = d
    /\ \A c \in Click : /\ task[c].at \in {"half", "publish"} => task[c].sched = data.sched
                        /\ task[c].at = "publish" => task[c].items = data.items
    /\ (\A c \in Click : task[c].at \in {"none", "work"}) /\ Shows => home = data

HomeInv == HomeTypes /\ ClicksOK /\ InTurnOK

LEMMA InitHome == ASSUME HomeInit PROVE HomeInv
<1>1. HomeTypes
  BY DEF HomeInit, HomeTypes, TaskRec, NoTask, Versions
<1>2. ClicksOK
  BY DEF HomeInit, ClicksOK, ClickOK, NoTask, Resting
<1>3. InTurnOK
  BY DEF HomeInit, InTurnOK, NoTask, Resting, Shows
<1> QED
  BY <1>1, <1>2, <1>3 DEF HomeInv

\* A handler that leaves the tasks, the effects and the data alone.
LEMMA NothingBegins ==
  ASSUME HomeInv, UNCHANGED <<click, acted, task, data, home>>, refused' \subseteq Click, dropped' \subseteq Click,
         dropped \subseteq dropped', inTurn' => inTurn,
         NEW c \in Click, wire'[c] \subseteq wire[c] \union {"retry"},
         wire' \in [Click -> SUBSET {"first", "retry"}], answered' \in [Click -> BOOLEAN],
         \A d \in Click \ {c} : wire'[d] = wire[d] /\ (d \in refused' <=> d \in refused),
         refused \subseteq refused', c \in refused' \ refused => acted[c] = 0 /\ Resting(c) /\ "first" \notin wire'[c],
         "first" \in wire[c] /\ "first" \notin wire'[c] => c \in refused' \union dropped'
  PROVE  HomeInv'
<1>0. HomeTypes /\ ClicksOK /\ InTurnOK
  BY DEF HomeInv
<1>1. HomeTypes'
  BY <1>0 DEF HomeTypes
<1>2. ClicksOK'
  <2> SUFFICES ASSUME NEW d \in Click PROVE ClickOK(d)'
    BY DEF ClicksOK
  <2>1. ClickOK(d)
    BY <1>0 DEF ClicksOK
  <2>2. CASE d = c
    BY <2>1, <2>2 DEF ClickOK, Resting
  <2>3. CASE d # c
    BY <2>1, <2>3 DEF ClickOK, Resting
  <2> QED
    BY <2>2, <2>3
<1>3. InTurnOK'
  BY <1>0 DEF InTurnOK, Resting, Shows
<1> QED
  BY <1>1, <1>2, <1>3 DEF HomeInv

\* The first delivery of a click, that acts or starts a task.
LEMMA FirstDelivery ==
  ASSUME HomeInv, UNCHANGED <<click, home, refused>>, NEW c \in Click, Deliver(c, "first"), NEW n \in {0, 1},
         acted' = [acted EXCEPT ![c] = n], NEW at \in {"work", "read"}, StartTask(c, at), dropped' \subseteq Click,
         dropped \subseteq dropped', at = "work" => n = 0 /\ data' = data,
         at = "work" \/ n = 1 \/ c \in dropped', data' \in Versions
  PROVE  HomeInv'
<1>0. HomeTypes /\ ClicksOK /\ InTurnOK
  BY DEF HomeInv
<1>1. /\ wire' = [wire EXCEPT ![c] = @ \ {"first"}] /\ answered' = [answered EXCEPT ![c] = TRUE] /\ "first" \in wire[c]
      /\ task' = [task EXCEPT ![c] = [at |-> at, sched |-> 0, items |-> 0]] /\ inTurn' = (inTurn /\ Alone)
  <2>1. [NoTask EXCEPT !.at = at] = [at |-> at, sched |-> 0, items |-> 0]
    BY DEF NoTask
  <2> QED
    BY <2>1 DEF Deliver, StartTask
<1>2. HomeTypes'
  BY <1>0, <1>1 DEF HomeTypes, TaskRec
<1>3. acted[c] = 0 /\ c \notin refused /\ Resting(c)
  BY <1>0, <1>1 DEF ClicksOK, ClickOK
<1>4. \A d \in Click : d # c => /\ wire'[d] = wire[d] /\ answered'[d] = answered[d]
                                /\ task'[d] = task[d] /\ acted'[d] = acted[d]
  BY <1>0, <1>1 DEF HomeTypes
<1>5. "first" \notin wire'[c] /\ task'[c] = [at |-> at, sched |-> 0, items |-> 0] /\ acted'[c] = n
  BY <1>0, <1>1 DEF HomeTypes
<1>6. ClicksOK'
  <2> SUFFICES ASSUME NEW d \in Click PROVE ClickOK(d)'
    BY DEF ClicksOK
  <2>1. ClickOK(d)
    BY <1>0 DEF ClicksOK
  <2>2. CASE d = c
    BY <1>3, <1>5, <2>2 DEF ClickOK, Resting
  <2>3. CASE d # c
    BY <1>4, <2>1, <2>3 DEF ClickOK, Resting
  <2> QED
    BY <2>2, <2>3
<1>7. ASSUME inTurn' PROVE InTurnOK'
  <2>1. inTurn /\ Alone
    BY <1>1, <1>7
  <2>2. \A d \in Click : d # c => task'[d].at = "none"
    BY <1>4, <2>1 DEF Alone, Resting
  <2>3. at = "read" => ~ \A d \in Click : task'[d].at \in {"none", "work"}
    BY <1>5
  <2>4. at = "work" => (Shows' => Shows)
    BY <1>3, <1>4, <1>5 DEF Shows
  <2>5. \A d \in Click : task[d].at \in {"none", "work"}
    BY <2>1 DEF Alone, Resting
  <2> QED
    BY <1>0, <1>5, <2>1, <2>2, <2>3, <2>4, <2>5 DEF InTurnOK, Resting
<1> QED
  BY <1>2, <1>6, <1>7 DEF HomeInv, InTurnOK

LEMMA HomeStep == ASSUME HomeInv, [HomeNext]_homeVars PROVE HomeInv'
<1>0. /\ HomeTypes /\ ClicksOK /\ InTurnOK
      /\ wire \in [Click -> SUBSET {"first", "retry"}] /\ answered \in [Click -> BOOLEAN]
      /\ acted \in [Click -> {0, 1}] /\ task \in [Click -> TaskRec] /\ refused \subseteq Click /\ dropped \subseteq Click
      /\ data \in Versions /\ home \in Versions
  BY DEF HomeInv, HomeTypes
<1>c. \A c \in Click : ClickOK(c) /\ task[c] \in TaskRec /\ acted[c] \in {0, 1}
  BY <1>0 DEF ClicksOK
<1>v. \A what \in {"sched", "items"} : [data EXCEPT ![what] = @ + 1] \in Versions
  BY <1>0 DEF Versions
<1>1. ASSUME NEW c \in Click, SlackRetries(c) \/ HandleRetry(c), UNCHANGED click PROVE HomeInv'
  <2>1. /\ UNCHANGED <<click, acted, task, data, home, refused, dropped, inTurn>>
        /\ wire' \in [Click -> SUBSET {"first", "retry"}] /\ answered' \in [Click -> BOOLEAN]
        /\ wire'[c] \subseteq wire[c] \union {"retry"} /\ ("first" \in wire'[c] <=> "first" \in wire[c])
        /\ \A d \in Click \ {c} : wire'[d] = wire[d] /\ answered'[d] = answered[d]
    <3>1. CASE SlackRetries(c)
      BY <1>0, <1>1, <3>1 DEF SlackRetries
    <3>2. CASE HandleRetry(c)
      <4>1. wire' = [wire EXCEPT ![c] = @ \ {"retry"}] /\ answered' = [answered EXCEPT ![c] = TRUE]
            /\ UNCHANGED <<click, acted, task, data, home, refused, dropped, inTurn>>
        BY <1>1, <3>2 DEF HandleRetry, Deliver
      <4> QED
        BY <1>0, <4>1
    <3> QED
      BY <1>1, <3>1, <3>2
  <2> QED
    BY <1>0, <1>c, <2>1, NothingBegins DEF ClickOK
\* A first delivery that only ends: refused, raised in the handler or lost.
<1>2. ASSUME NEW c \in Click, Refuse(c) \/ RemoveCardsRaises(c) \/ LoseFirst(c), UNCHANGED click PROVE HomeInv'
  <2>1. /\ UNCHANGED <<click, acted, task, data, home, inTurn>> /\ "first" \in wire[c]
        /\ wire' = [wire EXCEPT ![c] = @ \ {"first"}]
        /\ answered' \in [Click -> BOOLEAN] /\ dropped \subseteq dropped' /\ dropped' \subseteq Click
        /\ refused' \in {refused, refused \union {c}} /\ c \in refused' \union dropped'
    <3>1. CASE Refuse(c)
      BY <1>0, <1>2, <3>1 DEF Refuse, Deliver
    <3>2. CASE RemoveCardsRaises(c)
      BY <1>0, <1>2, <3>2 DEF RemoveCardsRaises
    <3>3. CASE LoseFirst(c)
      BY <1>0, <1>2, <3>3 DEF LoseFirst
    <3> QED
      BY <1>2, <3>1, <3>2, <3>3
  <2>2. /\ wire' \in [Click -> SUBSET {"first", "retry"}] /\ wire'[c] = wire[c] \ {"first"}
        /\ \A d \in Click \ {c} : wire'[d] = wire[d]
    BY <1>0, <2>1
  <2>3. acted[c] = 0 /\ Resting(c)
    BY <1>c, <2>1 DEF ClickOK
  <2> QED
    BY <1>0, <2>1, <2>2, <2>3, NothingBegins
<1>3. ASSUME NEW c \in Click, Open(c) \/ MarkDone(c) \/ RemoveCards(c), UNCHANGED click PROVE HomeInv'
  <2>1. /\ UNCHANGED <<click, home, refused, dropped>> /\ Deliver(c, "first") /\ StartTask(c, "read") /\ Effect(c)
        /\ data' \in Versions
    BY <1>0, <1>3, <1>v DEF Open, MarkDone, RemoveCards, Change
  <2>2. acted[c] = 0
    BY <1>c, <2>1 DEF ClickOK, Deliver
  <2>3. acted' = [acted EXCEPT ![c] = 1]
    BY <2>1, <2>2 DEF Effect
  <2> QED
    BY <1>0, <2>1, <2>3, FirstDelivery
<1>4. ASSUME NEW c \in Click, DoneFails(c) \/ RemoveFails(c) \/ Defer(c), UNCHANGED click PROVE HomeInv'
  <2>1. /\ UNCHANGED <<click, home, refused, acted>> /\ Deliver(c, "first") /\ data' \in Versions
        /\ (StartTask(c, "work") /\ data' = data) \/ (StartTask(c, "read") /\ c \in dropped')
        /\ dropped \subseteq dropped' /\ dropped' \subseteq Click
    BY <1>0, <1>4, <1>v DEF DoneFails, RemoveFails, Defer, Change
  <2>2. acted[c] = 0
    BY <1>c, <2>1 DEF ClickOK, Deliver
  <2>3. acted' = [acted EXCEPT ![c] = 0]
    BY <1>0, <2>1, <2>2
  <2> QED
    BY <1>0, <2>1, <2>3, FirstDelivery
\* A task that ends its work, by an effect or a failure; only a form's changes what the Home shows.
<1>5. ASSUME NEW c \in Click, SubmitForm(c) \/ SubmitFails(c) \/ RunAndTell(c) \/ RunFails(c), UNCHANGED click PROVE HomeInv'
  <2>1. /\ UNCHANGED <<click, wire, refused, home, inTurn, answered>> /\ task[c].at = "work"
        /\ dropped \subseteq dropped' /\ dropped' \subseteq Click
        /\ Effect(c) \/ (UNCHANGED acted /\ c \in dropped')
        /\ data' \in Versions
    BY <1>0, <1>5, <1>v DEF SubmitForm, SubmitFails, RunAndTell, RunFails, Change
  <2>2. acted[c] = 0 /\ c \notin refused /\ "first" \notin wire[c]
    BY <1>c, <2>1 DEF ClickOK, Resting
  <2>3. \E n \in {0, 1} : acted' = [acted EXCEPT ![c] = n] /\ (n = 1 \/ c \in dropped')
    BY <1>0, <2>1, <2>2 DEF Effect
  <2>4. \E t \in TaskRec : /\ task' = [task EXCEPT ![c] = t]
                         /\ \/ t.at = "read" /\ click[c] = "submit"
                            \/ t.at = "none" /\ click[c] \in {"run", "ask"} /\ data' = data
    <3>1. [task[c] EXCEPT !.at = "read"] \in TaskRec /\ [task[c] EXCEPT !.at = "read"].at = "read"
      BY <1>c DEF TaskRec
    <3>2. NoTask \in TaskRec /\ NoTask.at = "none"
      BY DEF NoTask, TaskRec
    <3>3. CASE SubmitForm(c) \/ SubmitFails(c)
      <4>1. task' = [task EXCEPT ![c] = [task[c] EXCEPT !.at = "read"]] /\ click[c] = "submit"
        BY <3>3 DEF SubmitForm, SubmitFails
      <4> QED
        BY <3>1, <4>1
    <3>4. CASE RunAndTell(c) \/ RunFails(c)
      <4>1. task' = [task EXCEPT ![c] = NoTask] /\ click[c] \in {"run", "ask"} /\ data' = data
        BY <3>4 DEF RunAndTell, RunFails
      <4> QED
        BY <3>2, <4>1
    <3> QED
      BY <1>5, <3>3, <3>4
  <2>5. PICK n \in {0, 1} : acted' = [acted EXCEPT ![c] = n] /\ (n = 1 \/ c \in dropped')
    BY <2>3
  <2>6. PICK t \in TaskRec : /\ task' = [task EXCEPT ![c] = t]
                           /\ \/ t.at = "read" /\ click[c] = "submit"
                              \/ t.at = "none" /\ click[c] \in {"run", "ask"} /\ data' = data
    BY <2>4
  <2>a. acted' = [acted EXCEPT ![c] = n]
    BY <2>5
  <2>t. task' = [task EXCEPT ![c] = t]
    BY <2>6
  <2>7. HomeTypes'
    <3>1. acted' \in [Click -> {0, 1}] /\ task' \in [Click -> TaskRec]
      BY <1>0, <2>a, <2>t
    <3> QED
      BY <1>0, <2>1, <3>1 DEF HomeTypes
  <2>8. /\ \A d \in Click : d # c => task'[d] = task[d] /\ acted'[d] = acted[d]
        /\ task'[c] = t /\ acted'[c] = n
    BY <1>0, <2>a, <2>t
  <2>9. ClicksOK'
    <3> SUFFICES ASSUME NEW d \in Click PROVE ClickOK(d)'
      BY DEF ClicksOK
    <3>1. CASE d = c
      BY <2>1, <2>2, <2>5, <2>6, <2>8, <3>1 DEF ClickOK, Resting
    <3>2. CASE d # c
      <4>1. ClickOK(d)
        BY <1>c
      <4> QED
        BY <2>1, <2>8, <3>2, <4>1 DEF ClickOK, Resting
    <3> QED
      BY <3>1, <3>2
  <2>10. ASSUME inTurn' PROVE InTurnOK'
    <3>0. inTurn
      BY <2>1, <2>10
    <3>1. \A d \in Click : d # c => task'[d].at = "none"
      BY <1>0, <2>1, <2>8, <3>0 DEF InTurnOK, Resting
    <3>2. CASE t.at = "read"
      BY <2>8, <3>1, <3>2 DEF InTurnOK, Resting
    <3>3. CASE t.at = "none" /\ click[c] \in {"run", "ask"} /\ data' = data
      <4>1. \A d \in Click : task[d].at \in {"none", "work"}
        BY <2>1, <2>8, <3>1
      <4>2. Shows' => Shows
        <5> SUFFICES ASSUME NEW d \in Click, acted'[d] > 0 /\ click'[d] \in {"open", "done", "remove", "submit"} PROVE Shows
          BY DEF Shows
        <5>1. d # c
          BY <2>1, <3>3
        <5> QED
          BY <2>1, <2>8, <5>1 DEF Shows
      <4>3. Shows => home = data
        BY <1>0, <3>0, <4>1 DEF InTurnOK
      <4>4. \A d \in Click : task'[d].at = "none"
        BY <2>8, <3>1, <3>3
      <4> QED
        BY <2>1, <3>3, <4>2, <4>3, <4>4 DEF InTurnOK, Resting
    <3> QED
      BY <2>6, <3>2, <3>3
  <2> QED
    BY <2>7, <2>9, <2>10 DEF HomeInv, InTurnOK
\* A task that reads, publishes or fails: what has acted is as it was.
<1>6. ASSUME NEW c \in Click, NEW t \in TaskRec, task[c].at \in {"read", "half", "publish"}, t.at # "work",
             task' = [task EXCEPT ![c] = t], UNCHANGED <<click, wire, answered, acted, refused, dropped, data>>,
             home' \in Versions,
             inTurn' => /\ inTurn
                        /\ t.at \in {"half", "publish"} => t.sched = data.sched /\ home' = home
                        /\ t.at = "publish" => t.items = data.items
                        /\ t.at \in {"none", "work"} => home' = data
      PROVE  HomeInv'
  <2>1. /\ \A d \in Click : d # c => task'[d] = task[d]
        /\ task'[c] = t
    BY <1>0, <1>6
  <2>2. HomeTypes'
    BY <1>0, <1>6 DEF HomeTypes
  <2>3. ClicksOK'
    <3> SUFFICES ASSUME NEW d \in Click PROVE ClickOK(d)'
      BY DEF ClicksOK
    <3>1. ClickOK(d)
      BY <1>c
    <3> QED
      BY <1>6, <2>1, <3>1 DEF ClickOK, Resting
  <2>4. ASSUME inTurn' PROVE InTurnOK'
    <3>1. \A d \in Click : d # c => task'[d].at = "none"
      BY <1>0, <1>6, <2>1, <2>4 DEF InTurnOK, Resting
    <3> QED
      BY <1>6, <2>1, <2>4, <3>1 DEF InTurnOK, Resting
  <2> QED
    BY <2>2, <2>3, <2>4 DEF HomeInv, InTurnOK
<1>n. NoTask \in TaskRec /\ NoTask.at = "none"
  BY DEF NoTask, TaskRec
<1>7. ASSUME NEW c \in Click, ReadSchedules(c), UNCHANGED click PROVE HomeInv'
  <2> DEFINE t == [at |-> "half", sched |-> data.sched, items |-> 0]
  <2>1. t \in TaskRec /\ t.at = "half" /\ t.sched = data.sched
    BY <1>0 DEF TaskRec, Versions
  <2>2. task' = [task EXCEPT ![c] = t]
    BY <1>7 DEF ReadSchedules
  <2> HIDE DEF t
  <2> QED
    BY <1>0, <1>6, <1>7, <2>1, <2>2 DEF ReadSchedules
<1>8. ASSUME NEW c \in Click, ReadItems(c) \/ ItemsUnread(c), UNCHANGED click PROVE HomeInv'
  <2>1. data.items \in Nat /\ task[c].at = "half" /\ (inTurn => task[c].sched = data.sched)
    BY <1>0, <1>8 DEF Versions, ReadItems, ItemsUnread, InTurnOK
  <2>2. CASE ReadItems(c)
    <3> DEFINE t == [task[c] EXCEPT !.at = "publish", !.items = data.items]
    <3>1. task' = [task EXCEPT ![c] = t]
      BY <1>0, <2>2 DEF ReadItems
    <3>2. t \in TaskRec /\ t.at = "publish" /\ t.items = data.items /\ t.sched = task[c].sched
      BY <1>c, <2>1 DEF TaskRec
    <3> HIDE DEF t
    <3>3. UNCHANGED <<wire, answered, acted, refused, data, home, inTurn, dropped>>
      BY <2>2 DEF ReadItems
    <3> QED
      BY <1>0, <1>6, <1>8, <2>1, <3>1, <3>2, <3>3
  <2>3. CASE ItemsUnread(c)
    <3> DEFINE t == [task[c] EXCEPT !.at = "publish"]
    <3>1. task' = [task EXCEPT ![c] = t]
      BY <1>0, <2>3 DEF ItemsUnread
    <3>2. t \in TaskRec /\ t.at = "publish"
      BY <1>c DEF TaskRec
    <3> HIDE DEF t
    <3> QED
      BY <1>0, <1>6, <1>8, <2>1, <2>3, <3>1, <3>2 DEF ItemsUnread
  <2> QED
    BY <1>8, <2>2, <2>3
<1>9. ASSUME NEW c \in Click, Publish(c), UNCHANGED click PROVE HomeInv'
  <2>1. /\ task' = [task EXCEPT ![c] = NoTask] /\ task[c].at = "publish"
        /\ UNCHANGED <<wire, answered, acted, refused, data, inTurn, dropped>>
        /\ home' = [sched |-> task[c].sched, items |-> task[c].items]
    BY <1>9 DEF Publish
  <2>2. home' \in Versions
    BY <1>c, <2>1 DEF TaskRec, Versions
  <2>3. inTurn => home' = data
    <3>1. data = [sched |-> data.sched, items |-> data.items]
      BY <1>0 DEF Versions
    <3> QED
      BY <1>0, <2>1, <3>1 DEF InTurnOK
  <2> QED
    BY <1>6, <1>9, <1>n, <2>1, <2>2, <2>3
<1>10. ASSUME NEW c \in Click, PublishFails(c), UNCHANGED click PROVE HomeInv'
  BY <1>0, <1>6, <1>10, <1>n DEF PublishFails
<1>11. ASSUME NEW what \in {"sched", "items"}, Elsewhere(what), UNCHANGED click PROVE HomeInv'
  <2>1. data' \in Versions /\ ~inTurn' /\ UNCHANGED <<click, wire, answered, acted, refused, task, home, dropped>>
    BY <1>11, <1>v DEF Elsewhere, Change
  <2> QED
    BY <1>0, <2>1 DEF HomeInv, HomeTypes, ClicksOK, ClickOK, InTurnOK, Resting
<1>12. ASSUME HomeRestart, UNCHANGED click PROVE HomeInv'
  <2>1. /\ dropped' = dropped \union {c \in Click : task[c].at = "work"} /\ task' = [c \in Click |-> NoTask]
        /\ inTurn' = (inTurn /\ Alone) /\ UNCHANGED <<wire, answered, acted, refused, data, home>>
    BY <1>12 DEF HomeRestart
  <2>2. HomeTypes'
    BY <1>0, <1>n, <2>1 DEF HomeTypes
  <2>3. ClicksOK'
    BY <1>0, <1>n, <2>1 DEF ClicksOK, ClickOK, Resting
  <2>4. ASSUME inTurn' PROVE InTurnOK'
    <3>1. inTurn /\ \A c \in Click : task[c].at = "none"
      BY <2>1, <2>4 DEF Alone, Resting
    <3>2. Shows => home = data
      BY <1>0, <3>1 DEF InTurnOK
    <3>3. \A c \in Click : task'[c].at = "none"
      BY <1>n, <2>1
    <3> QED
      BY <1>12, <2>1, <3>2, <3>3 DEF InTurnOK, Resting, Shows
  <2> QED
    BY <2>2, <2>3, <2>4 DEF HomeInv, InTurnOK
<1>13. CASE UNCHANGED homeVars
  BY <1>0, <1>13 DEF homeVars, HomeInv, HomeTypes, ClicksOK, ClickOK, InTurnOK, Resting, Shows
<1> QED
  BY <1>1, <1>2, <1>3, <1>4, <1>5, <1>7, <1>8, <1>9, <1>10, <1>11, <1>12, <1>13 DEF HomeNext

LEMMA HomeInvariant == HomeSpec => []HomeInv
<1>1. HomeInit => HomeInv
  BY InitHome
<1>2. HomeInv /\ [HomeNext]_homeVars => HomeInv'
  BY HomeStep
<1> QED
  BY <1>1, <1>2, PTL DEF HomeSpec

\* However often Slack delivers a click, and whatever fails, it acts at most once and its
\* outcome is accounted for; and a Home at rest shows the data as it is, as long as no two
\* tasks overlapped, none failed and nothing changed elsewhere.
THEOREM HomeIsKept == HomeSpec => []HomeHolds
<1>1. HomeInv => HomeHolds
  <2>1. HomeInv => ClicksActOnce
    <3> SUFFICES ASSUME HomeInv, NEW c \in Click
                 PROVE  /\ acted[c] <= 1 /\ (c \in refused => acted[c] = 0)
                        /\ answered[c] /\ "first" \notin wire[c] =>
                             acted[c] = 1 \/ c \in refused \union dropped \/ task[c].at = "work"
      BY DEF ClicksActOnce
    <3>1. ClickOK(c) /\ acted[c] \in {0, 1}
      BY DEF HomeInv, HomeTypes, ClicksOK
    <3> QED
      BY <3>1 DEF ClickOK
  <2>2. HomeInv => HomeIsCurrent
    BY DEF HomeInv, InTurnOK, HomeIsCurrent, Shows, Alone, Resting
  <2> QED
    BY <2>1, <2>2 DEF HomeHolds
<1> QED
  BY <1>1, HomeInvariant, PTL
=============================================================================
