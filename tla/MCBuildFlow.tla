---------------------------- MODULE MCBuildFlow -----------------------------
(* Small instances of BuildFlow: a call is named for its kind.               *)
EXTENDS BuildFlow, TLC

CONSTANTS build, triage, api
MCKind == [c \in Call |-> CASE c = build -> "build" [] c = triage -> "triage" [] c = api -> "api"]
Symmetry == Permutations(Decider)
=============================================================================
