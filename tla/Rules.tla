-------------------------------- MODULE Rules --------------------------------
(***************************************************************************)
(* The three sets of rules that other parts of bott ask and that keep no   *)
(* state: the verdict gate, the action policy and cron.  A behaviour has   *)
(* a focus, what it is about; when it is about the rules, they are asked   *)
(* about all the inputs.                                                   *)
(***************************************************************************)
EXTENDS VerdictGate, ActionPolicy, Cron

VARIABLE focus

\* The gate moves verdicts by its rules and tells the move, and a re-review that can be
\* observed leaves no issue unmentioned.
GateHolds == focus = "rules" => ReviewsAreJudged /\ NoneIsLeftOut

\* The default rules are safe, and the listed overrides are those in force, as long as they
\* can be read.
PolicyHolds == focus = "rules" => RulesAreSafe /\ ListedIsInForce

\* Labels tell when schedules run, shifts keep their days, and a stand-up's schedules
\* lie around its call.
CronHolds == focus = "rules" => LabelsAreTrue /\ ShiftsAreTrue /\ CallsAreFramed

\* What the gate decides, what needs an approval, and when things run.
RulesHold == GateHolds /\ PolicyHolds /\ CronHolds
=============================================================================
