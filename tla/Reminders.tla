------------------------------ MODULE Reminders ------------------------------
(***************************************************************************)
(* Personal action items and the sweep that reminds their owners.  Every   *)
(* process runs one reminder thread (a Sweeper).  A sweep claims all due   *)
(* items in one transaction, then sends their messages one by one; a       *)
(* message that raises puts its item back.                                 *)
(*                                                                         *)
(* An item is one row of action_items.  Only its owner's requests reach it *)
(* (user_id is in every WHERE clause), so owners are not in the model.     *)
(***************************************************************************)
EXTENDS Naturals, FiniteSets

CONSTANTS
  Item,            \* rows of action_items
  Sweeper,         \* reminder threads, one per process
  RetryDelay,      \* _RETRY_DELAY_S, in ticks
  MaxDelay,        \* bound on the ticks an owner snoozes an item for
  MaxSnoozes,      \* bound on the requests that snooze an item
  MaxSlackErrors,  \* bound on messages that fail
  MaxCrashes       \* bound on crashes and database errors

ASSUME BoundAssumption ==
  /\ RetryDelay \in Nat /\ MaxDelay \in Nat
  /\ MaxSnoozes \in Nat /\ MaxSlackErrors \in Nat /\ MaxCrashes \in Nat

VARIABLES
  status,     \* "none" (no row yet), "open", "snoozed", "done"
  wait,       \* ticks until remind_at, 0 once it has passed
  batch,      \* what each sweep has claimed and not handled yet
  undo,       \* the items whose message has just raised, per sweeper
  snoozes,    \* [Item -> how often its owner has snoozed it]
  reminders,  \* [Item -> how many messages its owner has had]
  unsure,     \* [Item -> messages that raised and had been delivered]
  owed,       \* items whose owner still waits for the reminder of a snooze
  faults      \* [slack, crash: how many so far]

remindVars == << status, wait, batch, undo, snoozes, reminders, unsure, owed, faults >>

RemindInit == /\ status = [i \in Item |-> "none"] /\ wait = [i \in Item |-> 0]
              /\ batch = [s \in Sweeper |-> {}] /\ undo = [s \in Sweeper |-> {}]
              /\ snoozes = [i \in Item |-> 0] /\ reminders = [i \in Item |-> 0]
              /\ unsure = [i \in Item |-> 0]
              /\ owed = {} /\ faults = [slack |-> 0, crash |-> 0]

-----------------------------------------------------------------------------
(* Requests of the owner: agent tools, console routes, the App Home        *)

AddItem(i) ==
  /\ status[i] = "none"
  /\ status' = [status EXCEPT ![i] = "open"]
  /\ UNCHANGED << wait, batch, undo, snoozes, reminders, unsure, owed, faults >>

\* remind_at stays what it was.
CompleteItem(i) ==
  /\ status[i] # "none"
  /\ status' = [status EXCEPT ![i] = "done"]
  /\ owed' = owed \ {i}
  /\ UNCHANGED << wait, batch, undo, snoozes, reminders, unsure, faults >>

\* Any date is taken, a past one too, and an item that is done comes back.
SnoozeItem(i, delay) ==
  /\ status[i] # "none" /\ snoozes[i] < MaxSnoozes
  /\ status' = [status EXCEPT ![i] = "snoozed"]
  /\ wait' = [wait EXCEPT ![i] = delay]
  /\ snoozes' = [snoozes EXCEPT ![i] = @ + 1]
  /\ owed' = owed \union {i}
  /\ UNCHANGED << batch, undo, reminders, unsure, faults >>

-----------------------------------------------------------------------------
(* The sweep                                                               *)

Due     == {i \in Item : status[i] = "snoozed" /\ wait[i] = 0}
Unburdened(s) == batch[s] = {} /\ undo[s] = {}

\* Mutant: due_reminders and a mark_reminded that comes after the message.
ClaimDue_ReadOnly(s) ==
  /\ Unburdened(s) /\ Due # {}
  /\ batch' = [batch EXCEPT ![s] = Due]
  /\ UNCHANGED << status, wait, undo, snoozes, reminders, unsure, owed, faults >>

\* One transaction: the SELECT locks the rows, and skips those another sweeper
\* has locked.
ClaimDue(s) ==
  /\ Unburdened(s) /\ Due # {}
  /\ status' = [i \in Item |-> IF i \in Due THEN "open" ELSE status[i]]
  /\ batch' = [batch EXCEPT ![s] = Due]
  /\ UNCHANGED << wait, undo, snoozes, reminders, unsure, owed, faults >>

\* The sweeper s has the item's last claim: nobody else will send its message.
LastHope(s, i) == /\ status[i] # "snoozed"
                  /\ \A r \in Sweeper \ {s} : i \notin batch[r] \union undo[r]

Handled(s, i) == /\ i \in batch[s] /\ undo[s] = {}
                 /\ batch' = [batch EXCEPT ![s] = @ \ {i}]

Delivered(s, i) == /\ reminders' = [reminders EXCEPT ![i] = @ + 1]
                   /\ owed' = IF LastHope(s, i) THEN owed \ {i} ELSE owed

SendDm(s, i) ==
  /\ Handled(s, i) /\ Delivered(s, i)
  /\ UNCHANGED << status, wait, undo, snoozes, unsure, faults >>

SlackFails == faults.slack < MaxSlackErrors /\ faults' = [faults EXCEPT !.slack = @ + 1]
ProcessFails == faults.crash < MaxCrashes /\ faults' = [faults EXCEPT !.crash = @ + 1]

\* Nobody will send these messages any more.
Drop(gone) == owed' = owed \ gone

\* SlackApiError is caught inside _send_dm_via_slack: sweep_once counts the
\* message as sent.
DmRefused(s, i) ==
  /\ SlackFails /\ Handled(s, i)
  /\ Drop({j \in {i} : LastHope(s, j)})
  /\ UNCHANGED << status, wait, undo, snoozes, reminders, unsure >>

\* Any other exception: no answer in time, say, with the message delivered or not.
DmRaises(s, i) ==
  /\ SlackFails /\ Handled(s, i)
  /\ undo' = [undo EXCEPT ![s] = {i}]
  /\ \/ UNCHANGED << reminders, unsure, owed >>
     \/ Delivered(s, i) /\ unsure' = [unsure EXCEPT ![i] = @ + 1]
  /\ UNCHANGED << status, wait, snoozes >>

\* Mutant: the item whose message raised is not put back.
Resnooze_Skipped(s) ==
  /\ undo[s] # {}
  /\ undo' = [undo EXCEPT ![s] = {}]
  /\ UNCHANGED << status, wait, batch, snoozes, reminders, unsure, owed, faults >>

\* The delay counts from the start of the sweep.  Whatever the owner has done
\* with the item meanwhile is overwritten.
Resnooze(s) ==
  \E i \in undo[s], delay \in 0 .. RetryDelay :
    /\ status' = [status EXCEPT ![i] = "snoozed"]
    /\ wait' = [wait EXCEPT ![i] = delay]
    /\ undo' = [undo EXCEPT ![s] = {}]
    /\ UNCHANGED << batch, snoozes, reminders, unsure, owed, faults >>

Abandon(s) ==
  /\ ProcessFails
  /\ batch' = [batch EXCEPT ![s] = {}] /\ undo' = [undo EXCEPT ![s] = {}]
  /\ Drop({i \in batch[s] \union undo[s] : LastHope(s, i)})
  /\ UNCHANGED << status, wait, snoozes, reminders, unsure >>

\* resnooze_item raises out of sweep_once: sweep_main logs it, and the rest of
\* the batch is forgotten.
ResnoozeRaises(s) == undo[s] # {} /\ Abandon(s)

\* The process dies between the claim and the last message.
SweeperDies(s) == ~Unburdened(s) /\ Abandon(s)

RemindTick == /\ \E i \in Item : wait[i] > 0
              /\ wait' = [i \in Item |-> IF wait[i] > 0 THEN wait[i] - 1 ELSE 0]
              /\ UNCHANGED << status, batch, undo, snoozes, reminders, unsure, owed, faults >>

-----------------------------------------------------------------------------
Owner(i) == \/ AddItem(i) \/ CompleteItem(i)
            \/ \E delay \in 0 .. MaxDelay : SnoozeItem(i, delay)
Sweep(s) == \/ ClaimDue(s) \/ Resnooze(s)
            \/ \E i \in Item : SendDm(s, i)
RemindFault(s) == \/ ResnoozeRaises(s) \/ SweeperDies(s)
                  \/ \E i \in Item : DmRefused(s, i) \/ DmRaises(s, i)

RemindNext == \/ RemindTick
              \/ \E i \in Item : Owner(i)
              \/ \E s \in Sweeper : Sweep(s) \/ RemindFault(s)

RemindSpec == RemindInit /\ [][RemindNext]_remindVars

\* Time passes and the reminder threads run; owners owe nobody anything.
RemindFairness == /\ WF_remindVars(RemindTick)
                  /\ \A s \in Sweeper : WF_remindVars(Sweep(s))

-----------------------------------------------------------------------------
(* Properties *)

\* Type invariant.
RemindTypeOK ==
  /\ status \in [Item -> {"none", "open", "snoozed", "done"}]
  /\ wait \in [Item -> 0 .. (MaxDelay + RetryDelay)]
  /\ batch \in [Sweeper -> SUBSET Item] /\ undo \in [Sweeper -> SUBSET Item]
  /\ snoozes \in [Item -> 0 .. MaxSnoozes]
  /\ reminders \in [Item -> Nat] /\ unsure \in [Item -> 0 .. MaxSlackErrors]
  /\ owed \in SUBSET Item
  /\ faults \in [slack : 0 .. MaxSlackErrors, crash : 0 .. MaxCrashes]

\* "two replicas sweeping concurrently can never both send the same reminder"
\* (sweep_once): an owner gets one message for a snooze, and one more only for a
\* message that raised after it had been delivered.
OneReminderPerSnooze == \A i \in Item : reminders[i] <= snoozes[i] + unsure[i]

\* A reminder the owner waits for is never nowhere: the row is snoozed, or a
\* sweeper holds the item and will send the message or put it back.
OwedIsHeld ==
  \A i \in owed : status[i] = "snoozed" \/ \E s \in Sweeper : i \in batch[s] \union undo[s]

\* A snooze is answered by one message, and until then somebody holds the item.
RemindersExact == OneReminderPerSnooze /\ OwedIsHeld

\* A snooze that has come due ends in its message, unless the owner closes the item
\* or a fault drops it; the snoozes being finitely many, in the end nobody waits.
DueIsReminded == owed # {} ~> owed = {}
=============================================================================
