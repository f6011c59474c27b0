----------------------------- MODULE AdminAlerts -----------------------------
(***************************************************************************)
(* alert_admins_throttled: callers in several threads report an outage     *)
(* under a key; one of them tells every admin in a direct message, and the *)
(* key is silent for a cooldown.                                           *)
(***************************************************************************)
EXTENDS Naturals

CONSTANTS
  AlertKey,       \* what is reported: "codex-disconnected", "queue-poll-failed"
  Caller,         \* threads that report
  Admin,          \* BOTT_ADMINS
  Cooldown,       \* cooldown_s, in ticks
  MaxAlertFaults  \* bound on the messages that fail

ASSUME AlertAssumption == AlertKey # {} /\ Cooldown \in Nat /\ MaxAlertFaults \in Nat

VARIABLES
  quiet,       \* [AlertKey -> ticks until the key may alert again]: _last_sent
  sending,     \* [Caller -> [key, to]: the admins it has still to tell]
  told,        \* << key, admin >> told since the key was last claimed
  missed,      \* << key, admin >> a fault has kept from being told
  alertFaults  \* faults so far

alertVars == << quiet, sending, told, missed, alertFaults >>

Nothing == [key |-> CHOOSE k \in AlertKey : TRUE, to |-> {}]

AlertInit ==
  /\ quiet = [k \in AlertKey |-> 0]
  /\ sending = [c \in Caller |-> Nothing]
  /\ told = {} /\ missed = {} /\ alertFaults = 0

About(k)   == {k} \X Admin
AlertFails == alertFaults < MaxAlertFaults /\ alertFaults' = alertFaults + 1

-----------------------------------------------------------------------------
\* Read and write of _last_sent are one step under the lock: of the callers that
\* report a key at once, one tells the admins.
Claim(c, k) ==
  /\ sending[c].to = {} /\ quiet[k] = 0
  /\ quiet' = [quiet EXCEPT ![k] = Cooldown]
  /\ sending' = [sending EXCEPT ![c] = [key |-> k, to |-> Admin]]
  /\ told' = told \ About(k) /\ missed' = missed \ About(k)
  /\ UNCHANGED alertFaults

\* No token: the alert is dropped, and its key is silent all the same.
ClaimUnconfigured(c, k) ==
  /\ sending[c].to = {} /\ quiet[k] = 0 /\ AlertFails
  /\ quiet' = [quiet EXCEPT ![k] = Cooldown]
  /\ told' = told \ About(k) /\ missed' = missed \union About(k)
  /\ UNCHANGED sending

Done(c, admins) == sending' = [sending EXCEPT ![c].to = @ \ admins]

Send(c, a) ==
  /\ a \in sending[c].to
  /\ Done(c, {a})
  /\ told' = told \union {<< sending[c].key, a >>}
  /\ UNCHANGED << quiet, missed, alertFaults >>

\* Mutant: the first message refused ends the round.
SlackRefuses_Stops(c, a) ==
  /\ a \in sending[c].to /\ AlertFails
  /\ Done(c, Admin)
  /\ missed' = missed \union {<< sending[c].key, a >>}
  /\ UNCHANGED << quiet, told >>

\* SlackApiError is caught for each admin.
SlackRefuses(c, a) ==
  /\ a \in sending[c].to /\ AlertFails
  /\ Done(c, {a})
  /\ missed' = missed \union {<< sending[c].key, a >>}
  /\ UNCHANGED << quiet, told >>

\* Any other exception leaves the loop over the admins.
SendRaises(c) ==
  /\ sending[c].to # {} /\ AlertFails
  /\ Done(c, Admin)
  /\ missed' = missed \union ({sending[c].key} \X sending[c].to)
  /\ UNCHANGED << quiet, told >>

AlertTick == /\ \E k \in AlertKey : quiet[k] > 0
             /\ quiet' = [k \in AlertKey |-> IF quiet[k] > 0 THEN quiet[k] - 1 ELSE 0]
             /\ UNCHANGED << sending, told, missed, alertFaults >>

-----------------------------------------------------------------------------
AlertNext ==
  \/ AlertTick
  \/ \E c \in Caller :
       \/ \E k \in AlertKey : Claim(c, k) \/ ClaimUnconfigured(c, k)
       \/ \E a \in Admin : Send(c, a) \/ SlackRefuses(c, a)
       \/ SendRaises(c)

AlertSpec == AlertInit /\ [][AlertNext]_alertVars

-----------------------------------------------------------------------------
(* Properties *)

\* Type invariant.
AlertTypeOK ==
  /\ quiet \in [AlertKey -> 0 .. Cooldown]
  /\ sending \in [Caller -> [key : AlertKey, to : SUBSET Admin]]
  /\ told \in SUBSET (AlertKey \X Admin) /\ missed \in SUBSET (AlertKey \X Admin)
  /\ alertFaults \in 0 .. MaxAlertFaults

\* A key is silent only because every admin has been told in this cooldown, is
\* being told, or could not be told: the throttle alone hides nothing.
SilentMeansTold ==
  \A k \in AlertKey, a \in Admin :
    quiet[k] > 0 => \/ << k, a >> \in told \union missed
                    \/ \E c \in Caller : sending[c].key = k /\ a \in sending[c].to
=============================================================================
