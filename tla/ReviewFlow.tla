----------------------------- MODULE ReviewFlow -----------------------------
(***************************************************************************)
(* Automatic and requested code reviews: GitHub's webhook with its two     *)
(* dedup tables, start_review and start_rereview, and the review branches  *)
(* of handle_task, down to the reviews posted on the pull request.         *)
(*                                                                         *)
(* The jobs go through the queue, of which this module uses only what      *)
(* JobLedger promises.  A commit is numbered within its pull request; the  *)
(* review of a pull request is of the head it has when the worker fetches  *)
(* it, whatever commit the webhook was called for.                         *)
(***************************************************************************)
EXTENDS Naturals, FiniteSets, SequencesExt

CONSTANTS
  Pr,             \* pull requests
  Allowed,        \* those of repositories in ALLOWED_POST_REPOS
  Mirror,         \* whether REVIEW_SLACK_CHANNEL is set
  Hand,           \* queue workers
  MaxAttempts,    \* _MAX_ATTEMPTS
  MaxInputs,      \* bound: events of GitHub and reviews asked for in Slack, together
  MaxRequests,    \* bound: webhook requests in flight at once
  MaxPushes,      \* bound: commits of a pull request
  MaxFaults       \* bound: crashes, calls that raise, posts that are taken and raise

ASSUME PrAssumption    == Allowed \subseteq Pr /\ Mirror \in BOOLEAN
ASSUME BoundAssumption == /\ MaxAttempts \in Nat \ {0} /\ MaxPushes \in Nat \ {0}
                          /\ MaxInputs \in Nat /\ MaxRequests \in Nat /\ MaxFaults \in Nat

Delivery == 1 .. MaxInputs   \* X-GitHub-Delivery ids, one for each event
JobIds   == 1 .. MaxInputs
Commits == 1 .. MaxPushes
Rungs   == 1 .. 3   \* as rendered, as a comment, body only
NoJob   == [what |-> "none"]
NoEvent == [pr |-> "none"]
Hooks   == [at : {"delivery", "commit", "enqueue"}, delivery : Delivery]

VARIABLES
  phase, tries, has,  \* the queue, as in JobLedger
  head,               \* the newest commit of each pull request
  event,              \* the pull_request event each delivery id was given to
  deliveries,         \* github_deliveries
  commits,            \* reviewed_commits: pairs of a pull request and a commit
  hooks,              \* the webhook requests in flight: the next step and the delivery of each
  job, nextJob,
  at,                 \* the stage of the handler in each hand
  fetched,            \* the head the handler in each hand has fetched
  rung,               \* the rung of the posting ladder it is on
  traced,             \* pull requests with a row in review_traces, for their thread
  finished,           \* history: the newest commit each job finished a review of; 0 for none
  shown,              \* history: jobs whose review is in Slack
  posts,              \* history: the commits of each job's reviews on GitHub, in order
  failures,           \* history: crashes and calls that raised
  timeouts            \* history: posts that were taken and raised

queueVars   == << phase, tries, has >>
githubVars  == << head, event >>
dedupVars   == << deliveries, commits >>
jobVars     == << job, nextJob >>
handlerVars == << at, fetched, rung >>
history     == << finished, shown, posts >>
faults      == << failures, timeouts >>
vars == << queueVars, githubVars, dedupVars, hooks, jobVars, handlerVars, traced, history, faults >>

Queue == INSTANCE JobLedger WITH Item <- JobIds, Nothing <- 0

Init ==
  /\ Queue!Init
  /\ head       = [p \in Pr |-> 1]
  /\ event      = [d \in Delivery |-> NoEvent]
  /\ deliveries = {} /\ commits = {} /\ traced = {}
  /\ hooks      = {}
  /\ job        = [j \in JobIds |-> NoJob]
  /\ nextJob    = 1
  /\ at         = [h \in Hand |-> "idle"]
  /\ fetched    = [h \in Hand |-> 0]
  /\ rung       = [h \in Hand |-> 0]
  /\ finished   = [j \in JobIds |-> 0]
  /\ shown = {} /\ posts = [j \in JobIds |-> << >>]
  /\ failures = 0 /\ timeouts = 0

Asked     == {j \in JobIds : job[j] # NoJob /\ job[j].source = "slack"}
MoreInput == Cardinality(Asked) + Cardinality({d \in Delivery : event[d] # NoEvent}) < MaxInputs

MayFail  == failures + timeouts < MaxFaults
Fails    == MayFail /\ failures' = failures + 1 /\ UNCHANGED timeouts
TimesOut == MayFail /\ timeouts' = timeouts + 1 /\ UNCHANGED failures

-----------------------------------------------------------------------------
(* GitHub *)

\* An event about a commit of p, with the next delivery id; the webhook wants it
\* unless it is a draft's, a bot's or of another action.
EmitFor(p, n, d) ==
  /\ MoreInput
  /\ event[d] = NoEvent /\ \A c \in 1 .. d - 1 : event[c] # NoEvent
  /\ \E wanted \in BOOLEAN : event' = [event EXCEPT ![d] = [pr |-> p, commit |-> n, wanted |-> wanted]]
  /\ UNCHANGED << queueVars, dedupVars, hooks, jobVars, handlerVars, traced, history, faults >>

Push(p, d) ==
  /\ head[p] < MaxPushes
  /\ head' = [head EXCEPT ![p] = @ + 1]
  /\ EmitFor(p, head[p] + 1, d)

\* An event without a new commit (opened, ready_for_review, synchronize again).
Emit(p, d) ==
  /\ EmitFor(p, head[p], d)
  /\ UNCHANGED head

-----------------------------------------------------------------------------
(* github_webhook *)

\* A delivery arrives, for the first time or again, at once or late.  One more
\* request with the same delivery at the same step would change nothing.
Receive(d) ==
  /\ event[d] # NoEvent /\ Cardinality(hooks) < MaxRequests
  /\ hooks' = hooks \union {[at |-> "delivery", delivery |-> d]}
  /\ UNCHANGED << queueVars, githubVars, dedupVars, jobVars, handlerVars, traced, history, faults >>

EventOf(x)  == event[x.delivery]
CommitOf(x) == << EventOf(x).pr, EventOf(x).commit >>

Answer(x)      == hooks' = hooks \ {x}
GoOn(x, stage) == hooks' = (hooks \ {x}) \union {[x EXCEPT !.at = stage]}

\* What seen_delivery and seen_commit insert; that the key was taken is the answer.
RecordDelivery(x) == deliveries' = deliveries \union {x.delivery}
RecordCommit(x)   == commits' = commits \union {CommitOf(x)}

\* The automatic review jobs for a commit.
JobsFor(c) == {j \in JobIds : /\ job[j].what = "review" /\ job[j].source = "github"
                              /\ << job[j].pr, job[j].commit >> = c}

\* Mutant: the commit is recorded before the filters.
DedupDelivery_BeforeFilter(x) ==
  /\ x.at = "delivery"
  /\ RecordDelivery(x)
  /\ RecordCommit(x)
  /\ IF x.delivery \notin deliveries /\ EventOf(x).wanted /\ CommitOf(x) \notin commits
     THEN GoOn(x, "enqueue") ELSE Answer(x)
  /\ UNCHANGED << queueVars, githubVars, jobVars, handlerVars, traced, history, faults >>

\* The filters come after the insert of the id.
DedupDelivery(x) ==
  /\ x.at = "delivery"
  /\ RecordDelivery(x)
  /\ IF x.delivery \notin deliveries /\ EventOf(x).wanted
     THEN GoOn(x, "commit") ELSE Answer(x)
  /\ UNCHANGED << queueVars, githubVars, commits, jobVars, handlerVars, traced, history, faults >>

\* Mutants: the jobs looked up instead of the insert; the key without the commit.
DedupCommit_CheckOnly(x) ==
  /\ x.at = "commit"
  /\ IF JobsFor(CommitOf(x)) = {} THEN GoOn(x, "enqueue") ELSE Answer(x)
  /\ RecordCommit(x)
  /\ UNCHANGED << queueVars, githubVars, deliveries, jobVars, handlerVars, traced, history, faults >>

DedupCommit_ByPr(x) ==
  /\ x.at = "commit"
  /\ RecordCommit(x)
  /\ IF \A c \in commits : c[1] # EventOf(x).pr THEN GoOn(x, "enqueue") ELSE Answer(x)
  /\ UNCHANGED << queueVars, githubVars, deliveries, jobVars, handlerVars, traced, history, faults >>

DedupCommit(x) ==
  /\ x.at = "commit"
  /\ RecordCommit(x)
  /\ IF CommitOf(x) \notin commits THEN GoOn(x, "enqueue") ELSE Answer(x)
  /\ UNCHANGED << queueVars, githubVars, deliveries, jobVars, handlerVars, traced, history, faults >>

Enqueue(item) ==
  /\ nextJob \in JobIds
  /\ Queue!Submit(nextJob)
  /\ job'     = [job EXCEPT ![nextJob] = item]
  /\ nextJob' = nextJob + 1

EnqueueReview(x) ==
  /\ x.at = "enqueue"
  /\ Enqueue([what |-> "review", source |-> "github",
              pr |-> EventOf(x).pr, commit |-> EventOf(x).commit])
  /\ Answer(x)
  /\ UNCHANGED << githubVars, dedupVars, handlerVars, traced, history, faults >>

\* A database call raises (the answer is a 500) or the process is lost.
HookLost(x) ==
  /\ Fails
  /\ Answer(x)
  /\ UNCHANGED << queueVars, githubVars, dedupVars, jobVars, handlerVars, traced, history >>

-----------------------------------------------------------------------------
(* start_review and start_rereview, from a chat or a Re-review button *)

Ask(p, what) ==
  /\ MoreInput
  /\ Enqueue([what |-> what, source |-> "slack", pr |-> p, commit |-> 0])
  /\ UNCHANGED << githubVars, dedupVars, hooks, handlerVars, traced, history, faults >>

-----------------------------------------------------------------------------
(* handle_task, in a worker's hand *)

Job(h)        == job[has[h]]
HasChannel(h) == Job(h).source = "slack" \/ Mirror
GoTo(h, stage) == at' = [at EXCEPT ![h] = stage]
SameExceptStage == UNCHANGED << queueVars, githubVars, dedupVars, hooks, jobVars, fetched, rung >>

TakeJob(h) ==
  /\ \E j \in JobIds : Queue!Take(h, j)
  /\ GoTo(h, "begin")
  /\ UNCHANGED << githubVars, dedupVars, hooks, jobVars, fetched, rung, traced, history, faults >>

\* A re-review in a thread without a review says so and returns.
NothingToRereview(h) ==
  /\ at[h] = "begin" /\ Job(h).what = "rereview" /\ Job(h).pr \notin traced
  /\ GoTo(h, "returned")
  /\ SameExceptStage /\ UNCHANGED << traced, history, faults >>

Reviewable(h) == at[h] = "begin" /\ (Job(h).what = "review" \/ Job(h).pr \in traced)

\* The announcement and the status message are posted, if there is a channel;
\* then review_pr fetches the pull request as it is now.
AnnounceAndFetch(h) ==
  /\ Reviewable(h)
  /\ fetched' = [fetched EXCEPT ![h] = head[Job(h).pr]]
  /\ GoTo(h, "reviewing")
  /\ UNCHANGED << queueVars, githubVars, dedupVars, hooks, jobVars, rung, traced, history, faults >>

AnnounceRaises(h) ==
  /\ at[h] = "begin" /\ HasChannel(h)
  /\ Fails
  /\ GoTo(h, "raised")
  /\ SameExceptStage /\ UNCHANGED << traced, history >>

\* Fetching, cloning or the model fails: the failure is shown in Slack, if there
\* is a status message, and the job is done.
ReviewFails(h) ==
  /\ Reviewable(h) \/ at[h] = "reviewing"
  /\ Fails
  /\ GoTo(h, "returned")
  /\ SameExceptStage /\ UNCHANGED << traced, history >>

\* The review is finished; it goes to GitHub if the repository is allowed.
FinishReview(h) ==
  LET p == Job(h).pr IN
  /\ at[h] = "reviewing"
  /\ finished' = [finished EXCEPT ![has[h]] = fetched[h]]
  /\ rung' = [rung EXCEPT ![h] = 1]
  /\ GoTo(h, IF p \in Allowed THEN "posting" ELSE "show")
  /\ UNCHANGED << queueVars, githubVars, dedupVars, hooks, jobVars, fetched, traced, shown, posts, faults >>

Posted(h) == posts' = [posts EXCEPT ![has[h]] = Append(@, fetched[h])]

EndPosting(h) == GoTo(h, "show") /\ rung' = [rung EXCEPT ![h] = 0]
Degrade(h)    == rung' = [rung EXCEPT ![h] = @ + 1] /\ UNCHANGED at
SameInPosting == UNCHANGED << queueVars, githubVars, dedupVars, hooks, jobVars, fetched, traced,
                              finished, shown >>

\* Mutants: the ladder does not stop at a rung that held; it has no end.
PostAccepted_GoesOn(h) ==
  /\ at[h] = "posting"
  /\ Posted(h)
  /\ IF rung[h] < 3 THEN Degrade(h) ELSE EndPosting(h)
  /\ SameInPosting /\ UNCHANGED faults

NextRung_Unbounded(h) == Degrade(h)

PostAccepted(h) ==
  /\ at[h] = "posting"
  /\ Posted(h)
  /\ EndPosting(h)
  /\ SameInPosting /\ UNCHANGED faults

\* post_review raised: the next rung, or give up with the reason.
NextRung(h) == IF rung[h] < 3 THEN Degrade(h) ELSE EndPosting(h)

PostRejected(h) ==
  /\ at[h] = "posting"
  /\ NextRung(h)
  /\ SameInPosting /\ UNCHANGED << posts, faults >>

\* GitHub took the review, and the call raises all the same.
PostTimesOut(h) ==
  /\ at[h] = "posting"
  /\ TimesOut
  /\ Posted(h)
  /\ NextRung(h)
  /\ SameInPosting

\* The status message becomes the review; an edit that fails is ignored.
\* Without a channel there is no message, and no trace either.
Show(h) ==
  /\ at[h] = "show"
  /\ \/ HasChannel(h) /\ shown' = shown \union {has[h]} /\ UNCHANGED faults
     \/ HasChannel(h) /\ Fails /\ UNCHANGED shown
     \/ ~HasChannel(h) /\ UNCHANGED << shown, faults >>
  /\ GoTo(h, IF HasChannel(h) THEN "trace" ELSE "returned")
  /\ SameExceptStage /\ UNCHANGED << traced, finished, posts >>

SaveTrace(h) ==
  /\ at[h] = "trace"
  /\ traced' = traced \union {Job(h).pr}
  /\ GoTo(h, "returned")
  /\ SameExceptStage /\ UNCHANGED << history, faults >>

SaveTraceRaises(h) ==
  /\ at[h] = "trace"
  /\ Fails
  /\ GoTo(h, "raised")
  /\ SameExceptStage /\ UNCHANGED << traced, history >>

-----------------------------------------------------------------------------
(* What the worker loop does with the outcome, by JobLedger *)

LeaveHand(h) == /\ GoTo(h, "idle")
                /\ fetched' = [fetched EXCEPT ![h] = 0]
                /\ rung'    = [rung EXCEPT ![h] = 0]
                /\ UNCHANGED << githubVars, dedupVars, hooks, jobVars, traced, history >>

CompleteJob(h) ==
  /\ at[h] = "returned"
  /\ \E j \in JobIds : Queue!Finish(h, j)
  /\ LeaveHand(h) /\ UNCHANGED faults

CompleteRaises(h) ==
  /\ at[h] = "returned"
  /\ Fails
  /\ GoTo(h, "raised")
  /\ SameExceptStage /\ UNCHANGED << traced, history >>

RetryOrGiveUp(h) ==
  /\ at[h] = "raised"
  /\ \E j \in JobIds : Queue!PutBack(h, j) \/ Queue!GiveUp(h, j)
  /\ LeaveHand(h) /\ UNCHANGED faults

LoseHand(h) ==
  /\ Fails
  /\ Queue!Lose(h)
  /\ LeaveHand(h)

SweepOrphans ==
  /\ Queue!WriteOff
  /\ UNCHANGED << githubVars, dedupVars, hooks, jobVars, handlerVars, traced, history, faults >>

-----------------------------------------------------------------------------
GitHub == \E p \in Pr, d \in Delivery : Push(p, d) \/ Emit(p, d)

HookStep(x) == x \in hooks /\ (DedupDelivery(x) \/ DedupCommit(x) \/ EnqueueReview(x))

Handle(h) == \/ TakeJob(h)        \/ NothingToRereview(h)
             \/ AnnounceAndFetch(h)  \/ AnnounceRaises(h)
             \/ ReviewFails(h)    \/ FinishReview(h)
             \/ PostAccepted(h)   \/ PostRejected(h)     \/ PostTimesOut(h)
             \/ Show(h)           \/ SaveTrace(h)        \/ SaveTraceRaises(h)
             \/ CompleteJob(h)    \/ CompleteRaises(h)   \/ RetryOrGiveUp(h)

Next == \/ GitHub
        \/ \E d \in Delivery : Receive(d)
        \/ \E x \in Hooks : HookStep(x)
        \/ \E x \in hooks : HookLost(x)
        \/ \E p \in Pr : Ask(p, "review") \/ Ask(p, "rereview")
        \/ \E h \in Hand : Handle(h) \/ LoseHand(h)
        \/ SweepOrphans

Spec == Init /\ [][Next]_vars

\* A request goes on and a worker goes on; nobody has to push, deliver or ask.
Fairness == /\ \A x \in Hooks : WF_vars(HookStep(x))
            /\ \A h \in Hand : WF_vars(Handle(h))

FairSpec == Spec /\ Fairness

-----------------------------------------------------------------------------
(* Properties *)

Events == {NoEvent} \union [pr : Pr, commit : Commits, wanted : BOOLEAN]
Jobs   == {NoJob} \union [what : {"review", "rereview"}, source : {"github", "slack"},
                          pr : Pr, commit : Commits \union {0}]

\* Type invariant; a hand with no job is idle.
TypeOK ==
  /\ phase \in [JobIds -> {"none", "waiting", "taken", "done", "failed"}]
  /\ tries \in [JobIds -> 0 .. MaxAttempts]
  /\ has \in [Hand -> JobIds \union {0}]
  /\ head \in [Pr -> Commits]
  /\ event \in [Delivery -> Events]
  /\ deliveries \subseteq Delivery /\ commits \subseteq Pr \X Commits /\ traced \subseteq Pr
  /\ hooks \subseteq Hooks
  /\ job \in [JobIds -> Jobs] /\ nextJob \in 1 .. MaxInputs + 1
  /\ at \in [Hand -> {"idle", "begin", "reviewing", "posting", "show", "trace",
                      "returned", "raised"}]
  /\ fetched \in [Hand -> 0 .. MaxPushes] /\ rung \in [Hand -> Rungs \union {0}]
  /\ \A h \in Hand : has[h] = 0 <=> at[h] = "idle"
  /\ finished \in [JobIds -> 0 .. MaxPushes]
  /\ shown \subseteq JobIds /\ \A j \in shown : finished[j] > 0
  /\ posts \in [JobIds -> Seq(Commits)] /\ \A j \in JobIds : posts[j] # << >> => finished[j] > 0
  /\ failures \in Nat /\ timeouts \in Nat

\* However often, late or at the same time GitHub delivers its events, a commit
\* gets one automatic review job.  That is what the dedup of github_webhook keeps of "the
\* same head SHA shouldn't be reviewed twice": the job does not name the commit, and reviews
\* the head of the time it runs, which may be that of the next job as well.
OneJobPerCommit == \A c \in commits : Cardinality(JobsFor(c)) <= 1

\* While nothing raises or crashes, a commit that is recorded as seen is not
\* forgotten: it has its job, or the request that recorded it is about to
\* enqueue it.
SeenIsQueued ==
  failures = 0 =>
    \A c \in commits :
      JobsFor(c) # {} \/ \E x \in hooks : x.at = "enqueue" /\ CommitOf(x) = c

\* Each handling of a job puts at most one review on the pull request, however
\* far it goes down the ladder; only a call that GitHub took although it raised
\* adds another.
OnePostPerHandling ==
  \A j \in JobIds : Len(posts[j]) <= tries[j] + timeouts

\* As long as nothing raises or crashes, every wanted event that was received is
\* answered by a review of its commit or of a newer one, when the deliveries end.
SeenIsReviewed ==
  <>[](failures = 0 =>
         \A d \in deliveries : event[d].wanted =>
           \E j \in 1 .. nextJob - 1 : job[j].pr = event[d].pr /\ finished[j] >= event[d].commit)

\* handle_task, on a review that could not be posted: "The review FINISHED -
\* never lose it to a posting failure": when its job is done, a finished review
\* is on GitHub or in Slack.
FinishedIsNotLost ==
  \A j \in JobIds : finished[j] > 0 /\ phase[j] = "done" => j \in shown \/ posts[j] # << >>
=============================================================================
