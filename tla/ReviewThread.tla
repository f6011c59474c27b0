---------------------------- MODULE ReviewThread ----------------------------
(***************************************************************************)
(* The reviews of one pull request in one Slack thread: a review starts    *)
(* afresh, a re-review takes up the newest trace of the thread, and each   *)
(* that comes to an output is judged by the verdict gate and leaves a      *)
(* trace.  (Queueing, posting and failing reviews are ReviewFlow's.)       *)
(***************************************************************************)
EXTENDS VerdictGate, Sequences, SequencesExt

CONSTANTS
  ThreadOutputs,   \* what the model may answer
  ThreadRuns,      \* what its runs may be like; their prior is set here
  MaxTraces        \* bound: reviews of a behaviour

VARIABLE
  traces           \* review_traces of the thread, oldest first

threadVars == <<traces>>

\* What a run leaves: the output and the verdict of the gate are stored; the run they come
\* from and what was asked for are kept for the properties.
Trace(asked, out, ctx) ==
  [asked |-> asked, out |-> out, run |-> ctx, verdict |-> FinalVerdict(out, ctx)]

\* Of all runs, those of codex exec, the engine that there is: they are not observable, list
\* no calls, and come to an output only when they end by themselves.
EngineRuns == {r \in ThreadRuns : ~r.observable /\ r.calls = {} /\ r.termination = "natural"}

ThreadInit == traces = <<>>

StartReview ==
  /\ Len(traces) < MaxTraces
  /\ \E out \in ThreadOutputs, run \in EngineRuns :
       traces' = Append(traces, Trace("review", out, [run EXCEPT !.prior = NoPrior]))

\* Without a trace in the thread there is nothing to re-review.
StartRereview ==
  /\ traces # <<>> /\ Len(traces) < MaxTraces
  /\ \E out \in ThreadOutputs, run \in EngineRuns :
       LET prior == PriorReview(Last(traces).out, Last(traces).verdict)
       IN  traces' = Append(traces, Trace("rereview", out, [run EXCEPT !.prior = prior]))

ThreadNext == StartReview \/ StartRereview
ThreadSpec == ThreadInit /\ [][ThreadNext]_threadVars

-----------------------------------------------------------------------------
(* What is promised of a re-review                                         *)

\* A re-review that turns "issues" into something else.
Flips(i) == /\ traces[i + 1].asked = "rereview"
            /\ traces[i].verdict = "issues" /\ traces[i + 1].verdict # "issues"
FlipsMade == {i \in 1 .. (Len(traces) - 1) : Flips(i)}

\* "The gate's v3.4/v3.6 rules then make any verdict flip evidence-bound" (rereview.py 5-6):
\* each issue of the review before is an issue still or withdrawn on some evidence in the one
\* that flips it, neither left out nor softened to a suggestion.
FlipsAreEvidenced ==
  \A i \in FlipsMade :
    IssuesOf(traces[i].out) \subseteq IssuesOf(traces[i + 1].out) \union Withdrawn(traces[i + 1].out)
=============================================================================
