----------------------------- MODULE BuildFlow ------------------------------
(***************************************************************************)
(* From a chat tool call to a pull request: start_build, start_triage and  *)
(* the gated API tools file approvals, an admin decides them in Slack or   *)
(* in the console, and what was approved is dispatched, as an implement    *)
(* job or as an API call.                                                  *)
(*                                                                         *)
(* The jobs go through the queue, of which this module uses only what      *)
(* JobLedger promises (JobQueue implements it): Hand is a worker, and      *)
(* at[h] is how far handle_task has come with the job in that hand.        *)
(***************************************************************************)
EXTENDS Naturals, FiniteSets

CONSTANTS
  Call,          \* tool calls an agent makes
  Kind,          \* [Call -> {"build", "triage", "api"}]
  Allowed,       \* the calls whose repository is in ALLOWED_POST_REPOS
  User, Admin,   \* who clicks Approve and Dismiss, and who of them may
  Decider,       \* requests in which a decision is being handled
  Hand,          \* queue workers
  MaxAttempts,   \* _MAX_ATTEMPTS
  MaxJobs,       \* bound: jobs
  MaxApprovals,  \* bound: approval rows
  MaxCrashes,    \* bound: processes lost
  MaxErrors,     \* bound: raising database, model and GitHub calls
  MaxSlackErrors \* bound: raising chat_postMessage calls

ASSUME CallAssumption  == /\ Kind \in [Call -> {"build", "triage", "api"}]
                          /\ Allowed \subseteq Call
                          /\ Admin \subseteq User
ASSUME BoundAssumption == /\ MaxAttempts \in Nat \ {0}
                          /\ MaxJobs \in Nat /\ MaxApprovals \in Nat
                          /\ MaxCrashes \in Nat /\ MaxErrors \in Nat
                          /\ MaxSlackErrors \in Nat

JobIds      == 1 .. MaxJobs
ApprovalIds == 1 .. MaxApprovals
NoJob       == [what |-> "none"]
Idle        == [doing |-> "idle"]
Decisions   == {"approved", "dismissed"}

VARIABLES
  phase, tries, has,  \* the queue, as in JobLedger
  made,               \* the calls made
  job,                \* job[j]: a "draft" job of a call or an "implement" job of an approval
  nextJob,
  at,                 \* the stage of the handler in each hand
  approval,           \* approvals rows: status, call, decided_by
  nextApproval,
  deciding,           \* what each Decider is doing
  builds,             \* history: times implement_task ran for each approval
  published,          \* history: pull requests opened or updated for each approval
  executed,           \* history: times execute_action ran for each approval
  crashes, errors, slackErrors

queueVars == << phase, tries, has >>
jobVars   == << job, nextJob >>
rowVars   == << approval, nextApproval >>
history   == << builds, published, executed >>
faults    == << crashes, errors, slackErrors >>
vars == << queueVars, made, jobVars, at, rowVars, deciding, history, faults >>

Queue == INSTANCE JobLedger WITH Item <- JobIds, Nothing <- 0

Init ==
  /\ Queue!Init
  /\ made         = {}
  /\ job          = [j \in JobIds |-> NoJob]
  /\ nextJob      = 1
  /\ at           = [h \in Hand |-> "idle"]
  /\ approval     = [a \in ApprovalIds |-> [status |-> "none"]]
  /\ nextApproval = 1
  /\ deciding     = [d \in Decider |-> Idle]
  /\ builds       = [a \in ApprovalIds |-> 0]
  /\ published    = [a \in ApprovalIds |-> 0]
  /\ executed     = [a \in ApprovalIds |-> 0]
  /\ crashes = 0 /\ errors = 0 /\ slackErrors = 0

Raises      == errors < MaxErrors /\ errors' = errors + 1 /\ UNCHANGED << crashes, slackErrors >>
SlackRaises == slackErrors < MaxSlackErrors /\ slackErrors' = slackErrors + 1
               /\ UNCHANGED << crashes, errors >>
Crashes     == crashes < MaxCrashes /\ crashes' = crashes + 1 /\ UNCHANGED << errors, slackErrors >>

-----------------------------------------------------------------------------
(* The tools the agent calls *)

Enqueue(item) ==
  /\ nextJob \in JobIds
  /\ Queue!Submit(nextJob)
  /\ job'     = [job EXCEPT ![nextJob] = item]
  /\ nextJob' = nextJob + 1

\* start_build and start_triage: one job, no dedup key.  What start_build can
\* refuse at once it refuses; the job may still be for a repository that is not
\* allowed (a Jira key names its repository only later).
StartDraft(c) ==
  /\ c \notin made /\ Kind[c] \in {"build", "triage"}
  /\ Enqueue([what |-> "draft", call |-> c])
  /\ made' = made \union {c}
  /\ UNCHANGED << at, rowVars, deciding, history, faults >>

CreateRequest(c) ==
  /\ nextApproval \in ApprovalIds
  /\ approval'     = [approval EXCEPT ![nextApproval] = [status |-> "pending", call |-> c]]
  /\ nextApproval' = nextApproval + 1

\* A gated API call: _file_for_approval creates the row in the chat turn itself;
\* the card is best effort.
FileApi(c) ==
  /\ c \notin made /\ Kind[c] = "api"
  /\ CreateRequest(c)
  /\ made' = made \union {c}
  /\ UNCHANGED << queueVars, jobVars, at, deciding, history, faults >>

-----------------------------------------------------------------------------
(* handle_task, in a worker's hand *)

Working(h, what) == has[h] # 0 /\ job[has[h]].what = what
DraftFor(h)      == job[has[h]].call
ApprovalOf(h)    == job[has[h]].approval

GoTo(h, stage) == at' = [at EXCEPT ![h] = stage]

TakeJob(h) ==
  /\ \E j \in JobIds : Queue!Take(h, j)
  /\ GoTo(h, "begin")
  /\ UNCHANGED << made, jobVars, rowVars, deciding, history, faults >>

\* run_plan_job and run_triage_job refuse (no repository, not allowed, no write
\* access, Sentry unreachable) and say so in the thread.
RefuseDraft(h) ==
  /\ Working(h, "draft") /\ at[h] = "begin"
  /\ GoTo(h, "reply")
  /\ UNCHANGED << queueVars, made, jobVars, rowVars, deciding, history, faults >>

\* Mutant: run_triage_job without its allowlist gate.
FileDraft_Ungated(h) ==
  /\ Working(h, "draft") /\ at[h] = "begin"
  /\ CreateRequest(DraftFor(h))
  /\ GoTo(h, "reply")
  /\ UNCHANGED << queueVars, made, jobVars, deciding, history, faults >>

\* The plan is drafted (or the incident diagnosed), the allowlist holds, and the
\* approval row is created; the card with its buttons is posted next.
FileDraft(h) ==
  /\ Working(h, "draft") /\ at[h] = "begin"
  /\ DraftFor(h) \in Allowed
  /\ CreateRequest(DraftFor(h))
  /\ GoTo(h, "reply")
  /\ UNCHANGED << queueVars, made, jobVars, deciding, history, faults >>

\* Drafting, diagnosing or create_request raises: nothing was recorded.
DraftRaises(h) ==
  /\ Working(h, "draft") /\ at[h] = "begin"
  /\ Raises
  /\ GoTo(h, "raised")
  /\ UNCHANGED << queueVars, made, jobVars, rowVars, deciding, history >>

\* _run_implement without a GitHub App token says so and returns.
ImplementRefused(h) ==
  /\ Working(h, "implement") /\ at[h] = "begin"
  /\ GoTo(h, "reply")
  /\ UNCHANGED << queueVars, made, jobVars, rowVars, deciding, history, faults >>

RunPipeline(h) ==
  /\ Working(h, "implement") /\ at[h] = "begin"
  /\ GoTo(h, "building")
  /\ builds' = [builds EXCEPT ![ApprovalOf(h)] = @ + 1]
  /\ UNCHANGED << queueVars, made, jobVars, rowVars, deciding, published, executed, faults >>

\* implement_task pushes its branch and opens the pull request.
Publish(h) ==
  /\ at[h] = "building"
  /\ GoTo(h, "reply")
  /\ published' = [published EXCEPT ![ApprovalOf(h)] = @ + 1]
  /\ UNCHANGED << queueVars, made, jobVars, rowVars, deciding, builds, executed, faults >>

\* implement_task finds nothing to change, or raises and is caught.
PipelineEnds(h) ==
  /\ at[h] = "building"
  /\ GoTo(h, "reply")
  /\ UNCHANGED << queueVars, made, jobVars, rowVars, deciding, history, faults >>

\* The card, the result or the refusal is posted to the thread, or there is no
\* channel to post to.
Reply(h) ==
  /\ at[h] = "reply"
  /\ GoTo(h, "returned")
  /\ UNCHANGED << queueVars, made, jobVars, rowVars, deciding, history, faults >>

\* _post has no try around it.
ReplyRaises(h) ==
  /\ at[h] = "reply"
  /\ SlackRaises
  /\ GoTo(h, "raised")
  /\ UNCHANGED << queueVars, made, jobVars, rowVars, deciding, history >>

\* Mutant: the hand is emptied but its stage is not reset.
CompleteJob_KeepsStage(h) ==
  /\ at[h] = "returned"
  /\ \E j \in JobIds : Queue!Finish(h, j)
  /\ UNCHANGED << made, jobVars, at, rowVars, deciding, history, faults >>

\* What the worker loop does with the outcome, by JobLedger.
CompleteJob(h) ==
  /\ at[h] = "returned"
  /\ \E j \in JobIds : Queue!Finish(h, j)
  /\ GoTo(h, "idle")
  /\ UNCHANGED << made, jobVars, rowVars, deciding, history, faults >>

CompleteRaises(h) ==
  /\ at[h] = "returned"
  /\ Raises
  /\ GoTo(h, "raised")
  /\ UNCHANGED << queueVars, made, jobVars, rowVars, deciding, history >>

RetryOrGiveUp(h) ==
  /\ at[h] = "raised"
  /\ \E j \in JobIds : Queue!PutBack(h, j) \/ Queue!GiveUp(h, j)
  /\ GoTo(h, "idle")
  /\ UNCHANGED << made, jobVars, rowVars, deciding, history, faults >>

\* The worker is lost with the job it has.
LoseHand(h) ==
  /\ Crashes
  /\ Queue!Lose(h)
  /\ GoTo(h, "idle")
  /\ UNCHANGED << made, jobVars, rowVars, deciding, history >>

\* Mutant: what a lost worker had is tried again.
SweepOrphans_Requeues ==
  /\ \E j \in JobIds : /\ phase[j] = "taken" /\ ~Queue!InSomeHand(j)
                        /\ phase' = [phase EXCEPT ![j] = "waiting"]
  /\ UNCHANGED << tries, has, made, jobVars, at, rowVars, deciding, history, faults >>

\* Orphans are swept by a worker that starts.
SweepOrphans ==
  /\ Queue!WriteOff
  /\ UNCHANGED << made, jobVars, at, rowVars, deciding, history, faults >>

-----------------------------------------------------------------------------
(* Deciding *)

\* Mutant: approvals.decide without AND status='pending'.
Decide_Unconditional(d, u, a, verdict) ==
  /\ approval' = [approval EXCEPT ![a] = [status |-> verdict, call |-> @.call, by |-> u]]
  /\ deciding' = [deciding EXCEPT ![d] =
       IF verdict = "approved" THEN [doing |-> "dispatch", row |-> a] ELSE Idle]

\* approvals.decide flips the row only if it is still pending; the caller goes
\* on to dispatch only if it flipped it to approved.
Decide(d, u, a, verdict) ==
  IF approval[a].status = "pending"
  THEN /\ approval' = [approval EXCEPT ![a] = [status |-> verdict, call |-> @.call, by |-> u]]
       /\ deciding' = [deciding EXCEPT ![d] =
            IF verdict = "approved" THEN [doing |-> "dispatch", row |-> a] ELSE Idle]
  ELSE /\ deciding' = [deciding EXCEPT ![d] = Idle]
       /\ UNCHANGED approval

\* Approve or Dismiss on a card or on the Home tab, by an admin.  A click by
\* anyone else, or one that Slack delivers again, is acknowledged and dropped.
SlackClick(d, u, a, verdict) ==
  /\ deciding[d] = Idle /\ u \in Admin /\ a < nextApproval
  /\ Decide(d, u, a, verdict)
  /\ UNCHANGED << queueVars, made, jobVars, at, nextApproval, history, faults >>

\* The console first reads the row and refuses one that is not pending ...
ConsoleRead(d, u, a, verdict) ==
  /\ deciding[d] = Idle /\ u \in Admin /\ a < nextApproval
  /\ approval[a].status = "pending"
  /\ deciding' = [deciding EXCEPT ![d] =
       [doing |-> "decide", row |-> a, verdict |-> verdict, user |-> u]]
  /\ UNCHANGED << queueVars, made, jobVars, at, rowVars, history, faults >>

\* ... and then decides, in another transaction.
ConsoleDecide(d) ==
  /\ deciding[d].doing = "decide"
  /\ Decide(d, deciding[d].user, deciding[d].row, deciding[d].verdict)
  /\ UNCHANGED << queueVars, made, jobVars, at, nextApproval, history, faults >>

ImplementJobs(a) == {j \in JobIds : job[j].what = "implement" /\ job[j].approval = a}

\* Mutant: the prefix test without "triage:".
Dispatchable_BuildOnly(a, kinds) ==
  /\ approval[a].status = "approved"
  /\ Kind[approval[a].call] \in kinds \ {"triage"}

Dispatchable(a, kinds) ==
  /\ approval[a].status = "approved"
  /\ Kind[approval[a].call] \in kinds

\* Mutant: the request goes on to dispatch the same row again.
DispatchBuild_Again(d) ==
  LET a == deciding[d].row IN
  /\ deciding[d].doing = "dispatch"
  /\ Dispatchable(a, {"build", "triage"})
  /\ Enqueue([what |-> "implement", approval |-> a])
  /\ UNCHANGED << made, at, rowVars, deciding, history, faults >>

\* dispatch_approved_build reads the row again (for any but an approved build or
\* triage row it does nothing) and enqueues its implement job,
\* under a dedup key of its own; a waiting job with that key is enough.
DispatchBuild(d) ==
  LET a == deciding[d].row IN
  /\ deciding[d].doing = "dispatch"
  /\ Dispatchable(a, {"build", "triage"})
  /\ \/ /\ \A j \in ImplementJobs(a) : phase[j] # "waiting"
        /\ Enqueue([what |-> "implement", approval |-> a])
     \/ /\ \E j \in ImplementJobs(a) : phase[j] = "waiting"
        /\ UNCHANGED << queueVars, jobVars >>
  /\ deciding' = [deciding EXCEPT ![d] = Idle]
  /\ UNCHANGED << made, at, rowVars, history, faults >>

\* dispatch_approved_api, for an approved api row, runs the stored call in a
\* background task.
DispatchApi(d) ==
  LET a == deciding[d].row IN
  /\ deciding[d].doing = "dispatch"
  /\ Dispatchable(a, {"api"})
  /\ executed' = [executed EXCEPT ![a] = @ + 1]
  /\ deciding' = [deciding EXCEPT ![d] = Idle]
  /\ UNCHANGED << queueVars, made, jobVars, at, rowVars, builds, published, faults >>

\* Reading or enqueueing raises after the decision was committed (the Slack
\* handler logs it, the console answers 500), or the process is gone.
DispatchLost(d) ==
  /\ deciding[d] # Idle
  /\ Raises \/ Crashes
  /\ deciding' = [deciding EXCEPT ![d] = Idle]
  /\ UNCHANGED << queueVars, made, jobVars, at, rowVars, history >>

-----------------------------------------------------------------------------
Ask(c) == StartDraft(c) \/ FileApi(c)

Handle(h) == \/ TakeJob(h)      \/ RefuseDraft(h) \/ FileDraft(h)    \/ DraftRaises(h)
             \/ RunPipeline(h)  \/ ImplementRefused(h)
             \/ Publish(h)      \/ PipelineEnds(h)
             \/ Reply(h)        \/ ReplyRaises(h)
             \/ CompleteJob(h)  \/ CompleteRaises(h) \/ RetryOrGiveUp(h)

Click(d) == \E u \in User, a \in ApprovalIds, verdict \in Decisions :
              SlackClick(d, u, a, verdict) \/ ConsoleRead(d, u, a, verdict)

FinishDecision(d) == ConsoleDecide(d) \/ DispatchBuild(d) \/ DispatchApi(d)

Next == \/ \E c \in Call : Ask(c)
        \/ \E h \in Hand : Handle(h) \/ LoseHand(h)
        \/ SweepOrphans
        \/ \E d \in Decider : Click(d) \/ FinishDecision(d) \/ DispatchLost(d)

Spec == Init /\ [][Next]_vars

\* A worker goes on with its job and a request with its decision; nobody has to
\* ask, click, crash or restart.
Fairness == /\ \A h \in Hand : WF_vars(Handle(h))
            /\ \A d \in Decider : WF_vars(FinishDecision(d))

FairSpec == Spec /\ Fairness

-----------------------------------------------------------------------------
(* Properties *)

Jobs      == {NoJob} \union [what : {"draft"}, call : Call]
                     \union [what : {"implement"}, approval : ApprovalIds]
Approvals == [status : {"none"}] \union [status : {"pending"}, call : Call]
                                \union [status : Decisions, call : Call, by : User]
Errands   == {Idle} \union [doing : {"dispatch"}, row : ApprovalIds]
                    \union [doing : {"decide"}, row : ApprovalIds, verdict : Decisions, user : User]

\* Type invariant: jobs and approvals are what their ids say, and a hand with
\* no job is idle.
TypeOK ==
  /\ phase \in [JobIds -> {"none", "waiting", "taken", "done", "failed"}]
  /\ tries \in [JobIds -> 0 .. MaxAttempts]
  /\ has \in [Hand -> JobIds \union {0}]
  /\ made \subseteq Call
  /\ job \in [JobIds -> Jobs] /\ approval \in [ApprovalIds -> Approvals]
  /\ nextJob \in 1 .. MaxJobs + 1 /\ nextApproval \in 1 .. MaxApprovals + 1
  /\ at \in [Hand -> {"idle", "begin", "building", "reply", "returned", "raised"}]
  /\ \A h \in Hand : has[h] = 0 <=> at[h] = "idle"
  /\ deciding \in [Decider -> Errands]
  /\ builds \in [ApprovalIds -> Nat] /\ published \in [ApprovalIds -> Nat]
  /\ executed \in [ApprovalIds -> Nat]
  /\ crashes \in 0 .. MaxCrashes /\ errors \in 0 .. MaxErrors
  /\ slackErrors \in 0 .. MaxSlackErrors

Acted(a) == ImplementJobs(a) # {} \/ executed[a] > 0

\* Nothing is done in the world that a person did not sign off: a row that was
\* acted on is approved, by an admin, and a build is on an allow-listed
\* repository ("this remains the only implement path and every implement is
\* allowlisted", dispatch_approved_build).
Sanctioned ==
  \A a \in ApprovalIds : Acted(a) =>
    /\ approval[a].status = "approved"
    /\ approval[a].by \in Admin
    /\ Kind[approval[a].call] # "api" => approval[a].call \in Allowed

\* However many people click in Slack and in the console at once, an approval
\* is dispatched once ("a double-click never double-dispatches", decide).
DispatchedOnce ==
  \A a \in ApprovalIds : Cardinality(ImplementJobs(a)) + executed[a] <= 1

\* One approval costs at most MaxAttempts builds, whatever fails.
BoundedBuilds ==
  \A a \in ApprovalIds : published[a] <= builds[a] /\ builds[a] <= MaxAttempts

\* A decision is never taken back or changed.
DecisionIsFinal ==
  [][\A a \in ApprovalIds :
       approval[a].status \in Decisions => approval'[a] = approval[a]]_vars

PublishedFor(c) == {a \in ApprovalIds : published[a] > 0 /\ approval[a].call = c}
OnePullRequest(c) == /\ Cardinality(PublishedFor(c)) <= 1
                     /\ \A a \in PublishedFor(c) : published[a] = 1

\* "One call = one plan = one pull request" (start_build), as far as processes
\* that are lost and sweeps go: what a lost worker had is failed, not tried again.
CrashesDoNotDuplicate ==
  errors = 0 /\ slackErrors = 0 => \A c \in Call : OnePullRequest(c)

\* An approved row is acted on, and its build is worked off: unless the
\* decision or the worker is lost on the way.
ApprovedIsWorkedOff ==
  [](errors = 0 /\ crashes = 0) =>
    \A a \in ApprovalIds :
      approval[a].status = "approved" ~>
        \/ executed[a] = 1
        \/ \E j \in ImplementJobs(a) : phase[j] \in {"done", "failed"}

\* _run_implement: "always returns normally so the worker marks the job done and
\* does NOT enqueue an expensive retry".
ImplementIsNeverRetried == \A a \in ApprovalIds : builds[a] <= 1
=============================================================================
