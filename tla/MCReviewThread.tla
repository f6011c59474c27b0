--------------------------- MODULE MCReviewThread ---------------------------
(***************************************************************************)
(* One thread's reviews, on a pull request with a line in each of two      *)
(* files.                                                                  *)
(***************************************************************************)
EXTENDS ReviewThread, TLC

MCPathOf == "a" :> "p" @@ "b" :> "q"
None == {}

MCThreadOutputs == {o \in Output : o.confidence = "high"}

Calls == {{}, {[tool |-> "read_file", path |-> "p"]}}
MCThreadRuns == [calls : Calls, checks : {{}, {"failure"}}, files : {{}}, changedFiles : {1}, lines : {10},
                 observable : BOOLEAN, termination : {"natural"}, prior : {NoPrior}]
=============================================================================
