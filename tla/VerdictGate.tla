----------------------------- MODULE VerdictGate -----------------------------
(***************************************************************************)
(* The verdict gate of a review: apply_gate takes the model's output and   *)
(* the context of its run, and decides the verdict that is posted.         *)
(*                                                                         *)
(* A spot is a path and a line; its path is PathOf[spot].  An output's     *)
(* comments and withdrawals are functions of the spots: prose is left out, *)
(* but for whether the summary claims that a prior finding is fixed.       *)
(***************************************************************************)
EXTENDS Naturals, FiniteSets

CONSTANTS
  Spot,                  \* path:line pairs
  PathOf,                \* [Spot -> path]
  LargeDiffFiles,        \* the thresholds of gate_thresholds
  LargeDiffLines,
  MinLookups,
  SubstantiveLines,
  Outputs, Runs,         \* what single reviews come from
  PairOutputs, PairRuns  \* what a review and the re-review after it come from

Paths      == {PathOf[s] : s \in Spot}
Verdicts   == {"approve", "suggestions", "issues"}
Severities == {"issue", "suggestion"}

\* ReviewOutput.  A withdrawal cites evidence, one path or more; {} stands for none.
Output == [verdict : Verdicts, comments : [Spot -> Severities \union {"none"}],
           withdrawn : [Spot -> SUBSET Paths], fixClaim : BOOLEAN, confidence : {"high", "low"}]

Commented(out) == {s \in Spot : out.comments[s] # "none"}
IssuesOf(out)  == {s \in Spot : out.comments[s] = "issue"}
Withdrawn(out) == {s \in Spot : out.withdrawn[s] # {}}

-----------------------------------------------------------------------------
(* What the gate is told of the run                                        *)

LookupTools        == {"read_file", "search_code", "find_references", "get_file_history", "read_review_rules"}
InvestigativeTools == LookupTools \ {"read_file"}

\* A call is [tool, path]; tools without a path argument have path "".
Visited(ctx)     == {c.path : c \in {c \in ctx.calls : c.tool \in LookupTools}} \ {""}
CallsOf(ctx, tools) == {c \in ctx.calls : c.tool \in tools}

\* get_ci_status: the worst of the checks; a conclusion it does not know is pending.
Conclusion(c) == CASE c \in {"failure", "timed_out", "cancelled", "action_required", "stale", "error"} -> "fail"
                   [] c \in {"success", "neutral", "skipped"} -> "pass"
                   [] OTHER -> "pending"
CiOverall(checks) ==
  LET seen == {Conclusion(c) : c \in checks}
  IN  IF "fail" \in seen THEN "fail" ELSE IF "pending" \in seen THEN "pending"
      ELSE IF "pass" \in seen THEN "pass" ELSE "none"

\* A file is [status, additions, kind]; the gate asks for code, not for markup or
\* for configuration, and counts a *.services.yml and the like as code.
IsMarkupOrConfig(f) == f.kind \in {"markup", "yml"}
SubstantiveAdd(ctx) == \E f \in ctx.files : /\ f.status = "added"
                                            /\ f.additions >= SubstantiveLines
                                            /\ ~IsMarkupOrConfig(f)

LargeDiff(ctx) == ctx.changedFiles >= LargeDiffFiles \/ ctx.lines >= LargeDiffLines

\* build_prior_review: the prior output's own issues, under the verdict the gate
\* gave it.
NoPrior == [verdict |-> "none", issues |-> {}]
PriorReview(out, final) == [verdict |-> final, issues |-> IssuesOf(out)]

\* What a run can tell the gate: its tool calls, the checks, the diff, how it ended, and of
\* the review before it the verdict and the issues.
Context == [calls : SUBSET [tool : STRING, path : Paths \union {""}], checks : SUBSET STRING,
            files : SUBSET [status : STRING, additions : Nat, kind : STRING],
            changedFiles : Nat, lines : Nat, observable : BOOLEAN, termination : STRING,
            prior : [verdict : Verdicts \union {"none"}, issues : SUBSET Spot]]

ASSUME InputAssumption == /\ Outputs \subseteq Output /\ PairOutputs \subseteq Output
                          /\ Runs \subseteq Context /\ PairRuns \subseteq Context

-----------------------------------------------------------------------------
(* The ten preconditions                                                   *)

CiGreen(ctx)        == CiOverall(ctx.checks) \in {"pass", "none"}
DiffVsLookups(ctx)  == ~ctx.observable \/ ~LargeDiff(ctx)
                       \/ Cardinality(CallsOf(ctx, LookupTools)) >= MinLookups
Depth(ctx)          == ~ctx.observable \/ ~LargeDiff(ctx)
                       \/ CallsOf(ctx, InvestigativeTools) # {}
ClaimsBacked(out, ctx) == ~ctx.observable \/ \A s \in Commented(out) : PathOf[s] \in Visited(ctx)
Natural(ctx)        == ctx.termination = "natural"
Confident(out)      == out.confidence # "low"
Engaged(out, ctx)   == ~SubstantiveAdd(ctx) \/ Commented(out) # {}
FixClaimsMatch(out) == ~out.fixClaim \/ Withdrawn(out) # {}

\* Mutant: one evidenced withdrawal stands for all of them.
WithdrawalsEvidenced_Any(out, ctx) ==
  ~ctx.observable \/ ctx.prior.verdict # "issues" \/ ctx.prior.issues = {} \/
  \E s \in ctx.prior.issues : s \in Commented(out) \/ out.withdrawn[s] \intersect Visited(ctx) # {}

\* A prior issue is raised again, or withdrawn on the evidence of a visited file.
WithdrawalsEvidenced(out, ctx) ==
  ~ctx.observable \/ ctx.prior.verdict # "issues" \/
  \A s \in ctx.prior.issues : s \in Commented(out) \/ out.withdrawn[s] \intersect Visited(ctx) # {}

Earned(out, ctx) ==
  /\ CiGreen(ctx) /\ DiffVsLookups(ctx) /\ Depth(ctx) /\ ClaimsBacked(out, ctx)
  /\ Natural(ctx) /\ Confident(out) /\ Engaged(out, ctx) /\ FixClaimsMatch(out)

-----------------------------------------------------------------------------
(* apply_gate                                                              *)

Downgrade(out, ctx) ==
  IF out.verdict = "approve" /\ ~Earned(out, ctx) THEN "suggestions" ELSE out.verdict

Escalate(out, ctx, verdict) ==
  IF IssuesOf(out) # {} \/ ~WithdrawalsEvidenced(out, ctx) THEN "issues" ELSE verdict

\* Mutant: the flip looks at the output's verdict.
FlipEmpty_Early(out, verdict) ==
  IF out.verdict = "suggestions" /\ Commented(out) = {} THEN "approve" ELSE verdict

\* Suggestions without a comment are an approval with a soft note.
FlipEmpty(out, verdict) ==
  IF verdict = "suggestions" /\ Commented(out) = {} THEN "approve" ELSE verdict

FinalVerdict(out, ctx) == FlipEmpty(out, Escalate(out, ctx, Downgrade(out, ctx)))

\* downgrade_reason, before the flip: a step that moves the verdict leaves a reason, and so
\* does a claim of a fix that is not backed, of an output that keeps its suggestions.
Reasoned(out, ctx) ==
  LET down == Downgrade(out, ctx)
  IN  \/ down # out.verdict
      \/ down = "suggestions" /\ ~FixClaimsMatch(out)
      \/ Escalate(out, ctx, down) # down

\* The flip turns the reason, if there is one, into the soft note.
Flipped(out, ctx) == /\ Escalate(out, ctx, Downgrade(out, ctx)) = "suggestions"
                     /\ Commented(out) = {}

Outcome(out, ctx) ==
  LET final == FinalVerdict(out, ctx)
  IN  IF final = out.verdict THEN IF out.verdict = "approve" THEN "approved" ELSE "none_applied"
      ELSE IF final = "issues" THEN "escalated_to_request_changes"
      ELSE IF Flipped(out, ctx) /\ Reasoned(out, ctx) THEN "approved" ELSE "downgraded_to_comment"

\* downgrade_footer: what the posted review says of its verdict.
Footer(out, ctx) ==
  IF ~Reasoned(out, ctx) \/ Flipped(out, ctx) THEN "none"
  ELSE IF Outcome(out, ctx) = "escalated_to_request_changes" THEN "escalated"
  ELSE "downgraded"

\* github_event_for_verdict.
Event(verdict) == CASE verdict = "approve" -> "APPROVE"
                    [] verdict = "issues"  -> "REQUEST_CHANGES"
                    [] OTHER               -> "COMMENT"

-----------------------------------------------------------------------------
(* Properties of the gate, for an output and a context                     *)

\* The order of the steps cannot be seen: the verdict is what the rules say
\* declaratively.  Issues, and a dropped prior issue, always win; an output with
\* comments is approved only when it asked for that and earned it; one without
\* comments is approved.
Reference(out, ctx) ==
  IF \/ out.verdict = "issues" \/ IssuesOf(out) # {}
     \/ /\ ctx.observable /\ ctx.prior.verdict = "issues"
        /\ \E s \in ctx.prior.issues \ Commented(out) : out.withdrawn[s] \intersect Visited(ctx) = {}
  THEN "issues"
  ELSE IF Commented(out) = {} \/ (out.verdict = "approve" /\ Earned(out, ctx)) THEN "approve"
  ELSE "suggestions"

VerdictIsTheRules(out, ctx) == FinalVerdict(out, ctx) = Reference(out, ctx)

\* What is logged and what the posted review says tell one move from the other, whichever
\* of the steps made it.  Two of the names are not what they say: suggestions raised to an
\* approval for want of a comment are logged as a downgrade, and the footer speaks of an
\* approval that was downgraded also when the model itself gave suggestions and claimed a
\* fix without a withdrawal.
MoveIsTold(out, ctx) ==
  LET from == out.verdict  to == FinalVerdict(out, ctx)
      outcome == Outcome(out, ctx)  footer == Footer(out, ctx)
  IN  /\ outcome = "none_applied" <=> from = to /\ to # "approve"
      /\ outcome = "escalated_to_request_changes" <=> from # "issues" /\ to = "issues"
      /\ outcome = "downgraded_to_comment" <=>
           \/ from = "approve" /\ to = "suggestions"
           \/ from = "suggestions" /\ to = "approve" /\ FixClaimsMatch(out)
      /\ outcome = "approved" <=> to = "approve" /\ (from = "approve" \/ ~FixClaimsMatch(out))
      /\ footer = "escalated" <=> from # "issues" /\ to = "issues"
      /\ footer = "downgraded" <=> to = "suggestions" /\ (from = "approve" \/ ~FixClaimsMatch(out))

\* Of a re-review whose tool calls are observable and that does not end as "issues": each
\* issue of the review before is commented on once more, be it as a suggestion, or withdrawn
\* on the evidence of a file that was visited.  The engine there is, codex exec, reports no
\* tool calls: what is left of this then is told by ReviewThread.
NoneLeftOut(first, second, ctx) ==
  LET again == [ctx EXCEPT !.prior = PriorReview(first, FinalVerdict(first, ctx))]
  IN  ctx.observable /\ FinalVerdict(second, again) # "issues" =>
        \A s \in IssuesOf(first) :
          s \in Commented(second) \/ second.withdrawn[s] \intersect Visited(ctx) # {}

ReviewsAreJudged == \A out \in Outputs, run \in Runs : VerdictIsTheRules(out, run) /\ MoveIsTold(out, run)
NoneIsLeftOut   == \A first, second \in PairOutputs, run \in PairRuns : NoneLeftOut(first, second, run)
=============================================================================
