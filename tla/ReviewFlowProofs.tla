-------------------------- MODULE ReviewFlowProofs --------------------------
(***************************************************************************)
(* The safety of ReviewFlow for every number of pull requests, commits,    *)
(* events, webhook requests, workers, attempts and faults: a commit gets   *)
(* one automatic job, a commit that is recorded as seen is not forgotten,  *)
(* and a handling puts at most one review on the pull request.             *)
(***************************************************************************)
EXTENDS ReviewFlow, TLAPS, FiniteSetTheorems

\* Row ids are positive.
LEMMA IdFacts == 0 \notin JobIds /\ JobIds \subseteq Nat /\ Commits \subseteq Nat \ {0}
BY BoundAssumption DEF JobIds, Commits

-----------------------------------------------------------------------------
(* The inductive invariant                                                 *)

\* A job in a hand is taken, in no other hand, and a job.
HandsOK ==
  /\ \A h \in Hand : has[h] # 0 => phase[has[h]] = "taken"
  /\ \A g, h \in Hand : has[g] # 0 /\ has[g] = has[h] => g = h
  /\ \A j \in JobIds : phase[j] = "none" <=> job[j] = NoJob

\* What is posted or shown is a commit that was fetched and a review that was finished.
StagesOK ==
  \A h \in Hand : /\ at[h] \in {"reviewing", "posting"} => fetched[h] \in Commits
                  /\ at[h] \in {"posting", "show"} => finished[has[h]] > 0

\* A request is about an event, and passes the dedup by commit alone: the commit
\* is recorded, no other request is going to enqueue it and it has no job.
HooksOK ==
  /\ \A x \in hooks : event[x.delivery] # NoEvent
  /\ \A x \in hooks : x.at = "enqueue" => CommitOf(x) \in commits /\ JobsFor(CommitOf(x)) = {}
  /\ \A x, y \in hooks : x.at = "enqueue" /\ y.at = "enqueue" /\ CommitOf(x) = CommitOf(y) => x = y

\* A job of the webhook is about a recorded commit, and the only one.
JobsOK ==
  /\ \A j \in JobIds : job[j].what = "review" /\ job[j].source = "github" =>
       << job[j].pr, job[j].commit >> \in commits
  /\ \A c \in commits : \A j, k \in JobsFor(c) : j = k

\* A handling that has not ended its posting yet has a post to spare.
PostsOK ==
  \A j \in JobIds :
    /\ Len(posts[j]) <= tries[j] + timeouts
    /\ \A h \in Hand : has[h] = j /\ at[h] \in {"begin", "reviewing", "posting"} =>
         Len(posts[j]) < tries[j] + timeouts

ReviewInv == TypeOK /\ HandsOK /\ StagesOK /\ HooksOK /\ JobsOK /\ PostsOK


USE PrAssumption, BoundAssumption, IdFacts

LEMMA Shapes ==
  /\ \A x \in Jobs : \/ x = NoJob /\ x.what = "none"
                     \/ /\ x # NoJob /\ x.what \in {"review", "rereview"} /\ x.source \in {"github", "slack"}
                        /\ x.pr \in Pr /\ x.commit \in Commits \union {0}
  /\ \A e \in Events : \/ e = NoEvent
                       \/ e # NoEvent /\ e.pr \in Pr /\ e.commit \in Commits /\ e.wanted \in BOOLEAN
  /\ \A x \in Hooks : x.at \in {"delivery", "commit", "enqueue"} /\ x.delivery \in Delivery
BY DEF Jobs, NoJob, Events, NoEvent, Hooks

LEMMA NewRecords ==
  /\ \A what \in {"review", "rereview"}, source \in {"github", "slack"}, p \in Pr, n \in Commits \union {0} :
       /\ [what |-> what, source |-> source, pr |-> p, commit |-> n] \in Jobs
       /\ [what |-> what, source |-> source, pr |-> p, commit |-> n] # NoJob
  /\ \A p \in Pr, n \in Commits, w \in BOOLEAN :
       /\ [pr |-> p, commit |-> n, wanted |-> w] \in Events
       /\ [pr |-> p, commit |-> n, wanted |-> w] # NoEvent
  /\ \A d \in Delivery : [at |-> "delivery", delivery |-> d] \in Hooks
  /\ \A x \in Hooks, stage \in {"commit", "enqueue"} :
       /\ [x EXCEPT !.at = stage] \in Hooks
       /\ [x EXCEPT !.at = stage].at = stage /\ [x EXCEPT !.at = stage].delivery = x.delivery
BY DEF Jobs, NoJob, Events, NoEvent, Hooks

LEMMA InitReview == Init => ReviewInv
<1> SUFFICES ASSUME Init PROVE ReviewInv
  OBVIOUS
<1> USE DEF Init, Queue!Init
<1>1. TypeOK
  <2>1. job \in [JobIds -> Jobs] /\ event \in [Delivery -> Events]
    BY DEF Jobs, Events
  <2>2. posts \in [JobIds -> Seq(Commits)] /\ \A j \in JobIds : posts[j] = << >>
    OBVIOUS
  <2>3. nextJob \in 1 .. MaxInputs + 1 /\ head \in [Pr -> Commits]
    BY DEF Commits
  <2> QED
    BY <2>1, <2>2, <2>3 DEF TypeOK, Rungs
<1>2. HandsOK /\ StagesOK /\ HooksOK
  BY DEF HandsOK, StagesOK, HooksOK
<1>3. JobsOK /\ PostsOK
  BY DEF JobsOK, PostsOK, NoJob, JobsFor
<1> QED
  BY <1>1, <1>2, <1>3 DEF ReviewInv

-----------------------------------------------------------------------------
(* The steps, as the invariant sees them                                   *)

OutsideHand == << githubVars, dedupVars, hooks, jobVars >>

\* A failure is counted; nothing else happens to the counters.
MayHaveFailed == failures' \in {failures, failures + 1} /\ UNCHANGED timeouts

\* The handler goes on without finishing a review or posting one.
MovesOn(h) ==
  /\ at[h] # "idle"
  /\ \E stage \in {"returned", "raised", "trace"} : GoTo(h, stage)
  /\ UNCHANGED << OutsideHand, queueVars, fetched, rung, finished, posts >> /\ MayHaveFailed
  /\ traced' = traced \/ traced' = traced \union {Job(h).pr}
  /\ shown' = shown \/ (at[h] = "show" /\ shown' = shown \union {has[h]})

\* One rung of the ladder: a post that was taken is counted by the end of the
\* posting or by a timeout.
Posts(h) ==
  /\ at[h] = "posting"
  /\ \/ Posted(h) /\ GoTo(h, "show") /\ UNCHANGED timeouts
     \/ UNCHANGED << posts, timeouts >> /\ \E stage \in {"posting", "show"} : GoTo(h, stage)
     \/ Posted(h) /\ timeouts' = timeouts + 1 /\ \E stage \in {"posting", "show"} : GoTo(h, stage)
  /\ rung' \in [Hand -> Rungs \union {0}]
  /\ SameInPosting /\ UNCHANGED failures

\* The worker settles its job or puts it back.
LetsGo(h) ==
  /\ \E j \in JobIds, p \in {"waiting", "done", "failed"} : Queue!LetGo(h, j, p)
  /\ LeaveHand(h) /\ UNCHANGED faults

HandStep(h) == \/ TakeJob(h) \/ AnnounceAndFetch(h) \/ FinishReview(h) \/ Posts(h)
               \/ MovesOn(h) \/ LetsGo(h) \/ LoseHand(h)

LEMMA PostingSteps == ASSUME TypeOK, NEW h \in Hand, PostAccepted(h) \/ PostRejected(h) \/ PostTimesOut(h)
                      PROVE  Posts(h)
<1> USE DEF GoTo
<1>1. ASSUME at[h] = "posting", NextRung(h) PROVE \E stage \in {"posting", "show"} : GoTo(h, stage)
  <2>1. at = [at EXCEPT ![h] = "posting"]
    BY <1>1 DEF TypeOK
  <2> QED
    BY <1>1, <2>1 DEF NextRung, Degrade, EndPosting
<1>2. ASSUME NextRung(h) \/ EndPosting(h) PROVE rung' \in [Hand -> Rungs \union {0}]
  <2>1. rung[h] \in 0 .. 3
    BY DEF TypeOK, Rungs
  <2>2. rung[h] < 3 => rung[h] + 1 \in Rungs
    BY <2>1 DEF Rungs
  <2> QED
    BY <1>2, <2>2 DEF TypeOK, NextRung, Degrade, EndPosting
<1> QED
  BY <1>1, <1>2 DEF PostAccepted, PostRejected, PostTimesOut, EndPosting, Posts, TimesOut, faults

LEMMA HandSteps == ASSUME TypeOK, NEW h \in Hand, Handle(h) \/ LoseHand(h) PROVE HandStep(h)
<1> USE DEF SameExceptStage, OutsideHand, history, faults, MayHaveFailed
<1>1. CASE NothingToRereview(h) \/ SaveTrace(h)
  BY <1>1 DEF NothingToRereview, SaveTrace, MovesOn, HandStep
<1>2. CASE AnnounceRaises(h) \/ ReviewFails(h) \/ SaveTraceRaises(h) \/ CompleteRaises(h)
  BY <1>2 DEF AnnounceRaises, ReviewFails, SaveTraceRaises, CompleteRaises, Reviewable, Fails, MovesOn, HandStep
<1>3. CASE Show(h)
  <2>1. \E stage \in {"returned", "raised", "trace"} : GoTo(h, stage)
    BY <1>3 DEF Show
  <2> QED
    BY <1>3, <2>1 DEF Show, Fails, MovesOn, HandStep
<1>4. CASE CompleteJob(h)
  BY <1>4 DEF CompleteJob, Queue!Finish, LetsGo, HandStep
<1>5. CASE RetryOrGiveUp(h)
  BY <1>5 DEF RetryOrGiveUp, Queue!PutBack, Queue!GiveUp, LetsGo, HandStep
<1> QED
  BY <1>1, <1>2, <1>3, <1>4, <1>5, PostingSteps DEF Handle, HandStep

LEMMA Steps ==
  ASSUME TypeOK, [Next]_vars
  PROVE  \/ GitHub
         \/ \E d \in Delivery : Receive(d)
         \/ \E x \in hooks : DedupDelivery(x) \/ DedupCommit(x) \/ EnqueueReview(x) \/ HookLost(x)
         \/ \E p \in Pr, what \in {"review", "rereview"} : Ask(p, what)
         \/ \E h \in Hand : HandStep(h)
         \/ SweepOrphans
         \/ UNCHANGED vars
BY HandSteps DEF Next, HookStep

-----------------------------------------------------------------------------
(* Types                                                                   *)

\* Who works on a job, and on which.
LEMMA InHand ==
  ASSUME TypeOK, HandsOK, NEW h \in Hand, at[h] # "idle"
  PROVE  /\ has[h] \in JobIds /\ phase[has[h]] = "taken"
         /\ Job(h) \in Jobs /\ Job(h) # NoJob /\ Job(h).pr \in Pr
         /\ \A g \in Hand : has[g] = has[h] => g = h
<1>1. has[h] \in JobIds /\ phase[has[h]] = "taken"
  BY DEF TypeOK, HandsOK
<1>2. Job(h) \in Jobs /\ Job(h) # NoJob
  BY <1>1 DEF TypeOK, HandsOK, Job
<1>3. \A g \in Hand : has[g] = has[h] => g = h
  BY <1>1 DEF HandsOK
<1> QED
  BY <1>1, <1>2, <1>3, Shapes

LEMMA CommitTypes == ASSUME TypeOK, HooksOK, NEW x \in hooks
                     PROVE  /\ x \in Hooks /\ x.delivery \in Delivery
                            /\ EventOf(x) \in Events /\ EventOf(x) # NoEvent
                            /\ EventOf(x).pr \in Pr /\ EventOf(x).commit \in Commits
                            /\ CommitOf(x) \in Pr \X Commits
<1>1. x \in Hooks /\ x.delivery \in Delivery
  BY Shapes DEF TypeOK
<1>2. EventOf(x) \in Events /\ EventOf(x) # NoEvent
  BY <1>1 DEF TypeOK, HooksOK, EventOf
<1> QED
  BY <1>1, <1>2, Shapes DEF CommitOf

LEMMA EnqueueTypes ==
  ASSUME TypeOK, NEW item \in Jobs, Enqueue(item)
  PROVE  /\ job' \in [JobIds -> Jobs]
         /\ nextJob' \in 1 .. MaxInputs + 1
         /\ phase' \in [JobIds -> {"none", "waiting", "taken", "done", "failed"}]
         /\ UNCHANGED << tries, has >>
BY DEF TypeOK, Enqueue, Queue!Submit, JobIds

LEMMA GitHubTypes == ASSUME TypeOK, GitHub PROVE TypeOK'
<1> USE DEF queueVars, dedupVars, jobVars, handlerVars, history, faults
<1>1. ASSUME NEW p \in Pr, NEW n \in Commits, NEW d \in Delivery, EmitFor(p, n, d)
      PROVE  event' \in [Delivery -> Events]
  BY <1>1, NewRecords DEF TypeOK, EmitFor
<1>2. ASSUME NEW p \in Pr, NEW d \in Delivery, Push(p, d) PROVE TypeOK'
  <2>1. head[p] + 1 \in Commits
    BY <1>2 DEF TypeOK, Push, Commits
  <2>2. head' \in [Pr -> Commits] /\ event' \in [Delivery -> Events]
    BY <1>1, <1>2, <2>1 DEF TypeOK, Push
  <2> QED
    BY <1>2, <2>2 DEF TypeOK, Push, EmitFor
<1>3. ASSUME NEW p \in Pr, NEW d \in Delivery, Emit(p, d) PROVE TypeOK'
  <2>1. event' \in [Delivery -> Events]
    BY <1>1, <1>3 DEF TypeOK, Emit
  <2> QED
    BY <1>3, <2>1 DEF TypeOK, Emit, EmitFor
<1> QED
  BY <1>2, <1>3 DEF GitHub

LEMMA HookTypes ==
  ASSUME TypeOK, HooksOK, NEW x \in hooks,
         DedupDelivery(x) \/ DedupCommit(x) \/ EnqueueReview(x) \/ HookLost(x)
  PROVE  TypeOK'
<1> USE DEF queueVars, githubVars, jobVars, handlerVars, history, faults
<1>1. ASSUME NEW stage \in {"commit", "enqueue"}, Answer(x) \/ GoOn(x, stage) PROVE hooks' \subseteq Hooks
  <2>1. x \in Hooks /\ hooks \subseteq Hooks
    BY DEF TypeOK
  <2>2. [x EXCEPT !.at = stage] \in Hooks
    BY <2>1, NewRecords
  <2> QED
    BY <1>1, <2>1, <2>2 DEF Answer, GoOn
<1>2. CASE DedupDelivery(x)
  <2>1. hooks' \subseteq Hooks /\ deliveries' \subseteq Delivery
    BY <1>1, <1>2, CommitTypes DEF TypeOK, DedupDelivery, RecordDelivery
  <2> QED
    BY <1>2, <2>1 DEF TypeOK, DedupDelivery
<1>3. CASE DedupCommit(x)
  <2>1. hooks' \subseteq Hooks
    BY <1>1, <1>3 DEF DedupCommit
  <2>2. commits' = commits \union {CommitOf(x)} /\ CommitOf(x) \in Pr \X Commits
    BY <1>3, CommitTypes DEF DedupCommit, RecordCommit
  <2>3. commits' \subseteq Pr \X Commits
    BY <2>2 DEF TypeOK
  <2> QED
    BY <1>3, <2>1, <2>3 DEF TypeOK, DedupCommit
<1>4. CASE EnqueueReview(x)
  <2>1. hooks' \subseteq Hooks
    BY <1>1, <1>4 DEF EnqueueReview
  <2>2. PICK item \in Jobs : Enqueue(item)
    BY <1>4, NewRecords, CommitTypes DEF EnqueueReview
  <2>3. /\ job' \in [JobIds -> Jobs]
        /\ nextJob' \in 1 .. MaxInputs + 1
        /\ phase' \in [JobIds -> {"none", "waiting", "taken", "done", "failed"}]
        /\ UNCHANGED << tries, has >>
    BY <2>2, EnqueueTypes
  <2> QED
    BY <1>4, <2>1, <2>3 DEF TypeOK, EnqueueReview, dedupVars
<1>5. CASE HookLost(x)
  <2>1. hooks' \subseteq Hooks
    BY <1>1, <1>5 DEF HookLost
  <2> QED
    <3>1. failures' \in Nat /\ UNCHANGED timeouts
      BY <1>5 DEF TypeOK, HookLost, Fails
    <3> QED
      BY <1>5, <2>1, <3>1 DEF TypeOK, HookLost, dedupVars
<1> QED
  BY <1>2, <1>3, <1>4, <1>5

LEMMA HandTypes == ASSUME TypeOK, HandsOK, StagesOK, NEW h \in Hand, HandStep(h) PROVE TypeOK'
<1> USE DEF OutsideHand, queueVars, githubVars, dedupVars, jobVars, handlerVars, history, faults, GoTo
<1>1. CASE TakeJob(h)
  <2>1. /\ phase' \in [JobIds -> {"none", "waiting", "taken", "done", "failed"}]
        /\ tries' \in [JobIds -> 0 .. MaxAttempts]
    BY <1>1 DEF TypeOK, TakeJob, Queue!Take
  <2>2. /\ has' \in [Hand -> JobIds \union {0}]
        /\ at' \in [Hand -> {"idle", "begin", "reviewing", "posting", "show", "trace", "returned", "raised"}]
        /\ \A g \in Hand : has'[g] = 0 <=> at'[g] = "idle"
    BY <1>1 DEF TypeOK, TakeJob, Queue!Take
  <2> QED
    BY <1>1, <2>1, <2>2 DEF TypeOK, TakeJob
<1>2. CASE AnnounceAndFetch(h)
  <2>1. fetched' \in [Hand -> 0 .. MaxPushes]
    <3>1. head[Job(h).pr] \in Commits
      BY <1>2, InHand DEF TypeOK, AnnounceAndFetch, Reviewable
    <3> QED
      BY <1>2, <3>1 DEF TypeOK, AnnounceAndFetch, Commits
  <2> QED
    BY <1>2, <2>1 DEF TypeOK, AnnounceAndFetch, Reviewable
<1>3. CASE FinishReview(h)
  <2>1. has[h] \in JobIds /\ fetched[h] \in Commits
    BY <1>3, InHand DEF FinishReview, StagesOK
  <2>2. /\ finished' \in [JobIds -> 0 .. MaxPushes]
        /\ \A j \in JobIds : finished[j] > 0 => finished'[j] > 0
    BY <1>3, <2>1 DEF TypeOK, FinishReview, Commits
  <2>3. at' \in [Hand -> {"idle", "begin", "reviewing", "posting", "show", "trace", "returned", "raised"}]
        /\ \A g \in Hand : at'[g] = "idle" <=> at[g] = "idle"
    BY <1>3 DEF TypeOK, FinishReview
  <2>4. rung' \in [Hand -> Rungs \union {0}]
    BY <1>3 DEF TypeOK, FinishReview, Rungs
  <2> QED
    BY <1>3, <2>2, <2>3, <2>4 DEF TypeOK, FinishReview
<1>4. CASE Posts(h)
  <2>1. has[h] \in JobIds /\ fetched[h] \in Commits /\ finished[has[h]] > 0
    BY <1>4, InHand DEF Posts, StagesOK
  <2>2. /\ posts' \in [JobIds -> Seq(Commits)]
        /\ \A j \in JobIds : posts'[j] # << >> => posts[j] # << >> \/ j = has[h]
    <3>1. ASSUME Posted(h)
          PROVE  /\ posts' \in [JobIds -> Seq(Commits)]
                 /\ \A j \in JobIds : posts'[j] # << >> => posts[j] # << >> \/ j = has[h]
      <4>1. posts[has[h]] \in Seq(Commits)
        BY <2>1 DEF TypeOK
      <4>2. Append(posts[has[h]], fetched[h]) \in Seq(Commits)
        BY <2>1, <4>1
      <4> QED
        BY <2>1, <3>1, <4>2 DEF TypeOK, Posted
    <3> QED
      BY <1>4, <3>1 DEF TypeOK, Posts
  <2>3. at' \in [Hand -> {"idle", "begin", "reviewing", "posting", "show", "trace", "returned", "raised"}]
        /\ \A g \in Hand : at'[g] = "idle" <=> at[g] = "idle"
    <3> PICK stage \in {"posting", "show"} : GoTo(h, stage)
      BY <1>4 DEF Posts
    <3> QED
      BY <1>4 DEF TypeOK, Posts
  <2>4. timeouts' \in Nat
    BY <1>4 DEF TypeOK, Posts
  <2> QED
    BY <1>4, <2>1, <2>2, <2>3, <2>4 DEF TypeOK, Posts, SameInPosting
<1>5. CASE MovesOn(h)
  <2>1. has[h] \in JobIds /\ Job(h).pr \in Pr
    BY <1>5, InHand DEF MovesOn
  <2>2. traced' \subseteq Pr /\ shown' \subseteq JobIds /\ \A j \in shown' : finished[j] > 0
    BY <1>5, <2>1 DEF TypeOK, MovesOn, StagesOK
  <2>3. at' \in [Hand -> {"idle", "begin", "reviewing", "posting", "show", "trace", "returned", "raised"}]
        /\ \A g \in Hand : at'[g] = "idle" <=> at[g] = "idle"
    BY <1>5 DEF TypeOK, MovesOn
  <2>4. failures' \in Nat
    BY <1>5 DEF TypeOK, MovesOn, MayHaveFailed
  <2> QED
    BY <1>5, <2>2, <2>3, <2>4 DEF TypeOK, MovesOn, MayHaveFailed
<1>6. CASE LetsGo(h)
  <2>1. /\ phase' \in [JobIds -> {"none", "waiting", "taken", "done", "failed"}]
        /\ has' \in [Hand -> JobIds \union {0}] /\ UNCHANGED tries
    BY <1>6 DEF TypeOK, LetsGo, Queue!LetGo
  <2>2. /\ at' \in [Hand -> {"idle", "begin", "reviewing", "posting", "show", "trace", "returned", "raised"}]
        /\ \A g \in Hand : has'[g] = 0 <=> at'[g] = "idle"
    BY <1>6 DEF TypeOK, LetsGo, Queue!LetGo, LeaveHand
  <2>3. fetched' \in [Hand -> 0 .. MaxPushes] /\ rung' \in [Hand -> Rungs \union {0}]
    BY <1>6 DEF TypeOK, LetsGo, LeaveHand
  <2> QED
    BY <1>6, <2>1, <2>2, <2>3 DEF TypeOK, LetsGo, LeaveHand
<1>7. CASE LoseHand(h)
  <2>1. /\ has' \in [Hand -> JobIds \union {0}] /\ UNCHANGED << phase, tries >>
        /\ failures' \in Nat /\ UNCHANGED timeouts
    BY <1>7 DEF TypeOK, LoseHand, Queue!Lose, Fails
  <2>2. /\ at' \in [Hand -> {"idle", "begin", "reviewing", "posting", "show", "trace", "returned", "raised"}]
        /\ \A g \in Hand : has'[g] = 0 <=> at'[g] = "idle"
    BY <1>7 DEF TypeOK, LoseHand, Queue!Lose, LeaveHand
  <2>3. fetched' \in [Hand -> 0 .. MaxPushes] /\ rung' \in [Hand -> Rungs \union {0}]
    BY <1>7 DEF TypeOK, LoseHand, LeaveHand
  <2> QED
    BY <1>7, <2>1, <2>2, <2>3 DEF TypeOK, LoseHand, LeaveHand
<1> QED
  BY <1>1, <1>2, <1>3, <1>4, <1>5, <1>6, <1>7 DEF HandStep

LEMMA TypeStep == ASSUME ReviewInv, [Next]_vars PROVE TypeOK'
<1> USE DEF ReviewInv, queueVars, githubVars, dedupVars, jobVars, handlerVars, history, faults
<1>1. ASSUME NEW d \in Delivery, Receive(d) PROVE TypeOK'
  <2>1. hooks' \subseteq Hooks
    BY <1>1, NewRecords DEF TypeOK, Receive
  <2> QED
    BY <1>1, <2>1 DEF TypeOK, Receive
<1>2. ASSUME NEW p \in Pr, NEW what \in {"review", "rereview"}, Ask(p, what) PROVE TypeOK'
  <2>1. PICK item \in Jobs : Enqueue(item)
    BY <1>2, NewRecords DEF Ask
  <2>2. /\ job' \in [JobIds -> Jobs]
        /\ nextJob' \in 1 .. MaxInputs + 1
        /\ phase' \in [JobIds -> {"none", "waiting", "taken", "done", "failed"}]
        /\ UNCHANGED << tries, has >>
    BY <2>1, EnqueueTypes
  <2> QED
    BY <1>2, <2>2 DEF TypeOK, Ask
<1>3. CASE SweepOrphans
  BY <1>3 DEF TypeOK, SweepOrphans, Queue!WriteOff
<1>4. CASE UNCHANGED vars
  BY <1>4 DEF TypeOK, vars
<1> QED
  BY <1>1, <1>2, <1>3, <1>4, GitHubTypes, HookTypes, HandTypes, Steps

-----------------------------------------------------------------------------
(* Hands and stages                                                        *)

\* A new job is of a row that had none, and in nobody's hand.
LEMMA NewJob ==
  ASSUME TypeOK, HandsOK, NEW item \in Jobs, item # NoJob, Enqueue(item)
  PROVE  /\ nextJob \in JobIds /\ phase[nextJob] = "none" /\ job[nextJob] = NoJob
         /\ \A j \in JobIds : /\ phase'[j] = IF j = nextJob THEN "waiting" ELSE phase[j]
                              /\ job'[j]   = IF j = nextJob THEN item ELSE job[j]
         /\ \A h \in Hand : has[h] # nextJob
         /\ UNCHANGED << tries, has >>
<1>1. nextJob \in JobIds /\ phase[nextJob] = "none"
  BY DEF Enqueue, Queue!Submit
<1>2. \A h \in Hand : has[h] # nextJob
  BY <1>1 DEF HandsOK
<1> QED
  BY <1>1, <1>2 DEF TypeOK, HandsOK, Enqueue, Queue!Submit

LEMMA EnqueueHands ==
  ASSUME TypeOK, HandsOK, StagesOK, NEW item \in Jobs, item # NoJob, Enqueue(item),
         UNCHANGED << at, fetched, finished >>
  PROVE  HandsOK' /\ StagesOK'
<1>1. HandsOK'
  <2>0. \A h \in Hand : has[h] # nextJob
    BY NewJob
  <2>1. \A h \in Hand : has[h] # 0 => has[h] \in JobIds /\ has[h] # nextJob
    BY <2>0 DEF TypeOK
  <2>2. \A h \in Hand : has'[h] # 0 => phase'[has'[h]] = "taken"
    <3>1. UNCHANGED has /\ \A j \in JobIds : j # nextJob => phase'[j] = phase[j]
      BY NewJob
    <3> QED
      BY <2>1, <3>1 DEF HandsOK
  <2>3. \A j \in JobIds : phase'[j] = "none" <=> job'[j] = NoJob
    BY NewJob DEF HandsOK
  <2> QED
    BY <2>2, <2>3, NewJob DEF HandsOK
<1>2. StagesOK'
  BY NewJob DEF StagesOK
<1> QED
  BY <1>1, <1>2

LEMMA TakeHands == ASSUME TypeOK, HandsOK, StagesOK, NEW h \in Hand, TakeJob(h) PROVE HandsOK' /\ StagesOK'
<1>1. PICK j \in JobIds : Queue!Take(h, j)
  BY DEF TakeJob
<1>2. /\ phase[j] = "waiting" /\ \A k \in JobIds : phase'[k] = IF k = j THEN "taken" ELSE phase[k]
      /\ \A g \in Hand : has'[g] = (IF g = h THEN j ELSE has[g]) /\ has[g] # j
  BY <1>1 DEF Queue!Take, Queue!InSomeHand, TypeOK
<1>3. UNCHANGED << job, fetched, finished >>
  BY DEF TakeJob, jobVars, history
<1>4. \A g \in Hand : at'[g] = IF g = h THEN "begin" ELSE at[g]
  BY DEF TakeJob, GoTo, TypeOK
<1>5. HandsOK'
  <2>1. \A g \in Hand : has[g] # 0 => has[g] \in JobIds
    BY DEF TypeOK
  <2>2. \A g \in Hand : has'[g] # 0 => phase'[has'[g]] = "taken"
    BY <1>2, <2>1 DEF HandsOK
  <2>3. \A f, g \in Hand : has'[f] # 0 /\ has'[f] = has'[g] => f = g
    BY <1>2 DEF HandsOK
  <2>4. \A k \in JobIds : phase'[k] = "none" <=> job'[k] = NoJob
    BY <1>2, <1>3 DEF HandsOK
  <2> QED
    BY <2>2, <2>3, <2>4 DEF HandsOK
<1>6. StagesOK'
  BY <1>2, <1>3, <1>4 DEF StagesOK
<1> QED
  BY <1>5, <1>6

\* The hand is emptied, and its job, if it is written at all, was its own.
LEMMA LeaveHands ==
  ASSUME TypeOK, HandsOK, StagesOK, NEW h \in Hand, LetsGo(h) \/ LoseHand(h)
  PROVE  HandsOK' /\ StagesOK'
<1>1. /\ \A g \in Hand : /\ has'[g] = IF g = h THEN 0 ELSE has[g]
                         /\ at'[g] = IF g = h THEN "idle" ELSE at[g]
                         /\ g # h => fetched'[g] = fetched[g]
      /\ UNCHANGED << job, finished >>
  BY DEF LetsGo, LoseHand, Queue!LetGo, Queue!Lose, LeaveHand, GoTo, TypeOK, jobVars, history
<1>2. \A j \in JobIds : j # has[h] => phase'[j] = phase[j]
  BY DEF LetsGo, LoseHand, Queue!LetGo, Queue!Lose, TypeOK
<1>3. \A j \in JobIds : phase'[j] = "none" <=> phase[j] = "none"
  BY DEF LetsGo, LoseHand, Queue!LetGo, Queue!Lose, TypeOK
<1>4. HandsOK'
  <2>1. \A g \in Hand : g # h /\ has[g] # 0 => has[g] \in JobIds /\ has[g] # has[h]
    BY DEF TypeOK, HandsOK
  <2>2. \A g \in Hand : has'[g] # 0 => phase'[has'[g]] = "taken"
    <3>1. \A g \in Hand : has'[g] # 0 => g # h /\ has'[g] = has[g]
      BY <1>1
    <3>2. \A g \in Hand : g # h /\ has[g] # 0 => phase'[has[g]] = phase[has[g]]
      BY <1>2, <2>1
    <3> QED
      BY <3>1, <3>2 DEF HandsOK
  <2>3. \A f, g \in Hand : has'[f] # 0 /\ has'[f] = has'[g] => f = g
    BY <1>1 DEF HandsOK
  <2>4. \A k \in JobIds : phase'[k] = "none" <=> job'[k] = NoJob
    BY <1>1, <1>3 DEF HandsOK
  <2> QED
    BY <2>2, <2>3, <2>4 DEF HandsOK
<1>5. StagesOK'
  BY <1>1 DEF StagesOK
<1> QED
  BY <1>4, <1>5

LEMMA HandsStep == ASSUME ReviewInv, [Next]_vars PROVE HandsOK' /\ StagesOK'
<1> USE DEF ReviewInv, OutsideHand, queueVars, jobVars, handlerVars, history, faults
<1>1. ASSUME UNCHANGED << phase, has, job >> PROVE HandsOK'
  BY <1>1 DEF HandsOK
<1>2. ASSUME UNCHANGED << at, has, fetched, finished >> PROVE StagesOK'
  BY <1>2 DEF StagesOK
<1>3. CASE GitHub \/ (\E d \in Delivery : Receive(d)) \/ UNCHANGED vars
  BY <1>1, <1>2, <1>3 DEF GitHub, Push, Emit, EmitFor, Receive, vars
<1>4. ASSUME NEW x \in hooks, DedupDelivery(x) \/ DedupCommit(x) \/ HookLost(x) PROVE HandsOK' /\ StagesOK'
  BY <1>1, <1>2, <1>4 DEF DedupDelivery, DedupCommit, HookLost
<1>5. ASSUME NEW x \in hooks, EnqueueReview(x) PROVE HandsOK' /\ StagesOK'
  BY <1>5, EnqueueHands, NewRecords, CommitTypes DEF EnqueueReview
<1>6. ASSUME NEW p \in Pr, NEW what \in {"review", "rereview"}, Ask(p, what) PROVE HandsOK' /\ StagesOK'
  BY <1>6, EnqueueHands, NewRecords DEF Ask
<1>7. ASSUME NEW h \in Hand, HandStep(h) PROVE HandsOK' /\ StagesOK'
  <2>1. CASE AnnounceAndFetch(h)
    <3>1. head[Job(h).pr] \in Commits
      BY <2>1, InHand DEF TypeOK, AnnounceAndFetch, Reviewable
    <3>2. \A g \in Hand : /\ fetched'[g] = IF g = h THEN head[Job(h).pr] ELSE fetched[g]
                          /\ at'[g] = IF g = h THEN "reviewing" ELSE at[g]
      BY <2>1 DEF TypeOK, AnnounceAndFetch, GoTo
    <3> QED
      BY <1>1, <2>1, <3>1, <3>2 DEF AnnounceAndFetch, StagesOK
  <2>2. CASE FinishReview(h)
    <3>1. has[h] \in JobIds /\ fetched[h] \in Commits
      BY <2>2, InHand DEF FinishReview, StagesOK
    <3>2. \A j \in JobIds : finished'[j] = IF j = has[h] THEN fetched[h] ELSE finished[j]
      BY <2>2 DEF TypeOK, FinishReview
    <3>3. \A g \in Hand : at'[g] # "idle" => has[g] \in JobIds
      BY <2>2, <3>1 DEF TypeOK, FinishReview, GoTo
    <3>4. \A g \in Hand : g # h => at'[g] = at[g]
      BY <2>2 DEF TypeOK, FinishReview, GoTo
    <3>5. UNCHANGED << fetched, has >>
      BY <2>2 DEF FinishReview
    <3>6. \A g \in Hand : at'[g] \in {"posting", "show"} => finished'[has[g]] > 0
      <4>1. \A g \in Hand : g # h /\ at'[g] \in {"posting", "show"} => finished[has[g]] > 0
        BY <3>4 DEF StagesOK
      <4>2. fetched[h] > 0
        <5>1. fetched[h] \in Nat /\ fetched[h] # 0
          BY <3>1, IdFacts
        <5> QED
          BY <5>1
      <4> QED
        BY <3>1, <3>2, <3>3, <4>1, <4>2
    <3>7. \A g \in Hand : at'[g] \in {"reviewing", "posting"} => fetched[g] \in Commits
      BY <3>1, <3>4 DEF StagesOK
    <3>8. StagesOK'
      BY <3>5, <3>6, <3>7 DEF StagesOK
    <3> QED
      BY <1>1, <2>2, <3>8 DEF FinishReview
  <2>3. CASE Posts(h)
    <3>1. PICK stage \in {"posting", "show"} : GoTo(h, stage)
      BY <2>3 DEF Posts
    <3>2. \A g \in Hand : at'[g] = IF g = h THEN stage ELSE at[g]
      BY <3>1 DEF TypeOK, GoTo
    <3> QED
      BY <1>1, <2>3, <3>2 DEF Posts, SameInPosting, StagesOK
  <2>4. CASE MovesOn(h)
    <3>1. PICK stage \in {"returned", "raised", "trace"} : GoTo(h, stage)
      BY <2>4 DEF MovesOn
    <3>2. \A g \in Hand : at'[g] = IF g = h THEN stage ELSE at[g]
      BY <3>1 DEF TypeOK, GoTo
    <3> QED
      BY <1>1, <2>4, <3>2 DEF MovesOn, StagesOK
  <2> QED
    BY <1>7, <2>1, <2>2, <2>3, <2>4, TakeHands, LeaveHands DEF HandStep
<1>8. CASE SweepOrphans
  <2>1. PICK lost \in SUBSET {j \in JobIds : phase[j] = "taken" /\ ~ \E g \in Hand : has[g] = j} :
               phase' = [j \in JobIds |-> IF j \in lost THEN "failed" ELSE phase[j]]
    BY <1>8 DEF SweepOrphans, Queue!WriteOff, Queue!InSomeHand
  <2>2. \A j \in lost : phase[j] = "taken" /\ ~ \E g \in Hand : has[g] = j
    BY <2>1
  <2>3. UNCHANGED << has, job, at, fetched, finished >>
    BY <1>8 DEF SweepOrphans, Queue!WriteOff
  <2>4. \A g \in Hand : has[g] # 0 => has[g] \in JobIds
    BY DEF TypeOK
  <2>5. HandsOK'
    BY <2>1, <2>2, <2>3, <2>4 DEF HandsOK
  <2> QED
    BY <1>2, <2>3, <2>5
<1> QED
  BY <1>3, <1>4, <1>5, <1>6, <1>7, <1>8, Steps

-----------------------------------------------------------------------------
(* Dedup                                                                   *)

LEMMA JobsForNew ==
  ASSUME TypeOK, HandsOK, NEW p \in Pr, NEW n \in Commits \union {0}, NEW what \in {"review", "rereview"},
         NEW source \in {"github", "slack"},
         Enqueue([what |-> what, source |-> source, pr |-> p, commit |-> n])
  PROVE  \A c : JobsFor(c)' = IF what = "review" /\ source = "github" /\ c = << p, n >>
                              THEN JobsFor(c) \union {nextJob} ELSE JobsFor(c)
<1> DEFINE item == [what |-> what, source |-> source, pr |-> p, commit |-> n]
<1>1. item \in Jobs /\ item # NoJob
  BY NewRecords
<1>2. /\ nextJob \in JobIds /\ job[nextJob].what = "none"
      /\ \A j \in JobIds : job'[j] = IF j = nextJob THEN item ELSE job[j]
  BY <1>1, NewJob DEF NoJob
<1> SUFFICES ASSUME NEW c
             PROVE JobsFor(c)' = IF what = "review" /\ source = "github" /\ c = << p, n >>
                                 THEN JobsFor(c) \union {nextJob} ELSE JobsFor(c)
  OBVIOUS
<1>3. item.what = what /\ item.source = source /\ << item.pr, item.commit >> = << p, n >>
  OBVIOUS
<1> HIDE DEF item
<1>4. CASE what = "review" /\ source = "github" /\ c = << p, n >>
  BY <1>2, <1>3, <1>4 DEF JobsFor
<1>5. CASE ~(what = "review" /\ source = "github" /\ c = << p, n >>)
  BY <1>2, <1>3, <1>5 DEF JobsFor
<1> QED
  BY <1>4, <1>5

\* Steps that leave the recorded commits and the jobs, and let no request past the dedup.
LEMMA DedupFrame ==
  ASSUME HooksOK, JobsOK, UNCHANGED << commits, job >>,
         \A x \in hooks' : event'[x.delivery] # NoEvent,
         \A x \in hooks' : x.at = "enqueue" => x \in hooks /\ event'[x.delivery] = event[x.delivery]
  PROVE  HooksOK' /\ JobsOK'
<1>1. \A c : JobsFor(c)' = JobsFor(c)
  BY DEF JobsFor
<1>2. JobsOK'
  BY <1>1 DEF JobsOK
<1>3. \A x \in hooks' : x.at = "enqueue" => CommitOf(x)' = CommitOf(x)
  BY DEF CommitOf, EventOf
<1>4. HooksOK'
  BY <1>1, <1>3 DEF HooksOK
<1> QED
  BY <1>2, <1>4

LEMMA RequestDedup ==
  ASSUME TypeOK, HandsOK, HooksOK, JobsOK, NEW x \in hooks, DedupCommit(x) PROVE HooksOK' /\ JobsOK'
<1> PICK c : c = CommitOf(x)
  OBVIOUS
<1>1. x \in Hooks
  BY CommitTypes
<1>2. UNCHANGED << event, job >> /\ commits' = commits \union {c}
  BY DEF DedupCommit, RecordCommit, githubVars, jobVars
<1>3. CASE c \in commits
  <2>1. hooks' = hooks \ {x} /\ UNCHANGED commits
    BY <1>2, <1>3 DEF DedupCommit, Answer
  <2>2. \A y \in hooks' : y \in hooks /\ event'[y.delivery] = event[y.delivery]
    BY <1>2, <2>1
  <2> QED
    BY <1>2, <2>1, <2>2, DedupFrame DEF HooksOK
<1>4. CASE c \notin commits
  <2> PICK z : z = [x EXCEPT !.at = "enqueue"]
    OBVIOUS
  <2>1. hooks' = (hooks \ {x}) \union {z} /\ z.at = "enqueue" /\ z.delivery = x.delivery
    BY <1>1, <1>4, NewRecords DEF DedupCommit, GoOn
  <2>2. CommitOf(z)' = c /\ \A y : CommitOf(y)' = CommitOf(y)
    BY <1>2, <2>1 DEF CommitOf, EventOf
  <2>3. \A e : JobsFor(e)' = JobsFor(e)
    BY <1>2 DEF JobsFor
  <2>4. JobsFor(c) = {}
    <3>1. \A e : e \notin commits => JobsFor(e) = {}
      BY DEF JobsOK, JobsFor
    <3> QED
      BY <1>4, <3>1
  <2>5. \A y \in hooks : y.at = "enqueue" => CommitOf(y) \in commits /\ CommitOf(y) # c
    BY <1>4 DEF HooksOK
  <2>6. JobsOK'
    <3>1. \A j \in JobIds : job'[j].what = "review" /\ job'[j].source = "github" =>
            << job'[j].pr, job'[j].commit >> \in commits'
      BY <1>2 DEF JobsOK
    <3>2. \A e \in commits' : \A j, k \in JobsFor(e)' : j = k
      BY <1>2, <2>3, <2>4 DEF JobsOK
    <3> QED
      BY <3>1, <3>2 DEF JobsOK
  <2>7. \A y \in hooks' : event'[y.delivery] # NoEvent
    BY <1>2, <2>1 DEF HooksOK
  <2>8. \A y \in hooks' : y.at = "enqueue" => CommitOf(y)' \in commits' /\ JobsFor(CommitOf(y))' = {}
    <3>1. JobsFor(c)' = {} /\ c \in commits'
      BY <1>2, <2>3, <2>4
    <3>2. ASSUME NEW y \in hooks, y.at = "enqueue"
          PROVE  CommitOf(y)' \in commits' /\ JobsFor(CommitOf(y))' = {}
      BY <1>2, <2>2, <2>3, <3>2 DEF HooksOK
    <3> QED
      BY <2>1, <2>2, <2>3, <3>1, <3>2
  <2>9. \A y, w \in hooks' : y.at = "enqueue" /\ w.at = "enqueue" /\ CommitOf(y)' = CommitOf(w)' => y = w
    BY <2>1, <2>2, <2>5 DEF HooksOK
  <2> QED
    BY <2>2, <2>3, <2>6, <2>7, <2>8, <2>9 DEF HooksOK
<1> QED
  BY <1>3, <1>4

LEMMA EnqueueDedup ==
  ASSUME TypeOK, HandsOK, HooksOK, JobsOK, NEW x \in hooks, EnqueueReview(x) PROVE HooksOK' /\ JobsOK'
<1> PICK c : c = CommitOf(x)
  OBVIOUS
<1>1. /\ UNCHANGED << event, commits >> /\ hooks' = hooks \ {x} /\ x.at = "enqueue"
      /\ Enqueue([what |-> "review", source |-> "github", pr |-> EventOf(x).pr, commit |-> EventOf(x).commit])
  BY DEF EnqueueReview, Answer, githubVars, dedupVars
<1>2. /\ c \in commits /\ JobsFor(c) = {}
      /\ \A y \in hooks : y.at = "enqueue" /\ CommitOf(y) = c => y = x
  BY <1>1 DEF HooksOK
<1>3. EventOf(x).pr \in Pr /\ EventOf(x).commit \in Commits \union {0} /\ c = << EventOf(x).pr, EventOf(x).commit >>
  BY CommitTypes DEF CommitOf
<1>4. \A e : JobsFor(e)' = IF e = c THEN JobsFor(e) \union {nextJob} ELSE JobsFor(e)
  <2> PICK p, n : p = EventOf(x).pr /\ n = EventOf(x).commit
    OBVIOUS
  <2>1. p \in Pr /\ n \in Commits \union {0} /\ c = << p, n >>
    BY <1>3
  <2>2. Enqueue([what |-> "review", source |-> "github", pr |-> p, commit |-> n])
    BY <1>1
  <2> PICK what \in {"review", "rereview"}, source \in {"github", "slack"} : what = "review" /\ source = "github"
    OBVIOUS
  <2>3. Enqueue([what |-> what, source |-> source, pr |-> p, commit |-> n])
    BY <2>2
  <2>4. \A e : JobsFor(e)' = IF what = "review" /\ source = "github" /\ e = << p, n >>
                             THEN JobsFor(e) \union {nextJob} ELSE JobsFor(e)
    BY <2>1, <2>3, JobsForNew
  <2> QED
    BY <2>1, <2>4
<1>5. \A y : CommitOf(y)' = CommitOf(y)
  BY <1>1 DEF CommitOf, EventOf
<1>6. \A j \in JobIds : job'[j] = job[j] \/ << job'[j].pr, job'[j].commit >> = c
  BY <1>1, <1>3, NewJob, NewRecords
<1>7. JobsOK'
  <2>1. \A j \in JobIds : job'[j].what = "review" /\ job'[j].source = "github" =>
          << job'[j].pr, job'[j].commit >> \in commits'
    BY <1>1, <1>2, <1>6 DEF JobsOK
  <2>2. \A e \in commits' : \A j, k \in JobsFor(e)' : j = k
    BY <1>1, <1>2, <1>4 DEF JobsOK
  <2> QED
    BY <2>1, <2>2 DEF JobsOK
<1>8. HooksOK'
  <2>1. \A y \in hooks' : y.at = "enqueue" => CommitOf(y)' \in commits' /\ JobsFor(CommitOf(y))' = {}
    BY <1>1, <1>2, <1>4, <1>5 DEF HooksOK
  <2>2. \A y \in hooks' : event'[y.delivery] # NoEvent
    BY <1>1 DEF HooksOK
  <2>3. \A y, w \in hooks' : y.at = "enqueue" /\ w.at = "enqueue" /\ CommitOf(y)' = CommitOf(w)' => y = w
    BY <1>1, <1>5 DEF HooksOK
  <2> QED
    BY <2>1, <2>2, <2>3, <1>5, <1>4 DEF HooksOK
<1> QED
  BY <1>7, <1>8

LEMMA AskDedup ==
  ASSUME TypeOK, HandsOK, HooksOK, JobsOK, NEW p \in Pr, NEW what \in {"review", "rereview"}, Ask(p, what)
  PROVE  HooksOK' /\ JobsOK'
<1>1. UNCHANGED << event, commits, hooks >> /\ Enqueue([what |-> what, source |-> "slack", pr |-> p, commit |-> 0])
  BY DEF Ask, githubVars, dedupVars
<1>2. \A e : JobsFor(e)' = JobsFor(e)
  BY <1>1, JobsForNew
<1>3. \A j \in JobIds : job'[j] = job[j] \/ job'[j].source = "slack"
  BY <1>1, NewJob, NewRecords
<1>4. \A y : CommitOf(y)' = CommitOf(y)
  BY <1>1 DEF CommitOf, EventOf
<1>5. JobsOK'
  BY <1>1, <1>2, <1>3 DEF JobsOK
<1>6. HooksOK'
  BY <1>1, <1>2, <1>4 DEF HooksOK
<1> QED
  BY <1>5, <1>6

LEMMA DedupStep == ASSUME ReviewInv, [Next]_vars PROVE HooksOK' /\ JobsOK'
<1> USE DEF ReviewInv, OutsideHand, githubVars, dedupVars, jobVars
<1>1. ASSUME UNCHANGED << event, commits, hooks, job >> PROVE HooksOK' /\ JobsOK'
  BY <1>1, DedupFrame DEF HooksOK
<1>2. CASE GitHub
  <2>1. PICK d \in Delivery : /\ event[d] = NoEvent /\ UNCHANGED << commits, hooks, job >>
                              /\ \A e \in Delivery : e # d => event'[e] = event[e]
    BY <1>2 DEF GitHub, Push, Emit, EmitFor, TypeOK
  <2>2. \A x \in hooks : event'[x.delivery] = event[x.delivery]
    BY <2>1, CommitTypes DEF HooksOK
  <2> QED
    BY <2>1, <2>2, DedupFrame DEF HooksOK
<1>3. ASSUME NEW d \in Delivery, Receive(d) PROVE HooksOK' /\ JobsOK'
  <2>1. UNCHANGED << event, commits, job >> /\ event[d] # NoEvent
        /\ hooks' = hooks \union {[at |-> "delivery", delivery |-> d]}
    BY <1>3 DEF Receive
  <2>2. \A x \in hooks' : x \in hooks \/ (x.at = "delivery" /\ x.delivery = d)
    <3> PICK z : z = [at |-> "delivery", delivery |-> d]
      OBVIOUS
    <3>1. z.at = "delivery" /\ z.delivery = d /\ hooks' = hooks \union {z}
      BY <2>1
    <3> QED
      BY <3>1
  <2> QED
    BY <2>1, <2>2, DedupFrame DEF HooksOK
<1>4. ASSUME NEW x \in hooks, DedupDelivery(x) \/ HookLost(x) PROVE HooksOK' /\ JobsOK'
  <2>1. UNCHANGED << event, commits, job >> /\ (Answer(x) \/ GoOn(x, "commit"))
    BY <1>4 DEF DedupDelivery, HookLost
  <2> PICK z : z = [x EXCEPT !.at = "commit"]
    OBVIOUS
  <2>2. z.at = "commit" /\ z.delivery = x.delivery /\ hooks' \subseteq hooks \union {z}
    BY <2>1, NewRecords DEF TypeOK, Answer, GoOn
  <2>3. \A y \in hooks' : y \in hooks \/ (y.at = "commit" /\ y.delivery = x.delivery)
    BY <2>2
  <2> QED
    BY <2>1, <2>3, DedupFrame DEF HooksOK
<1>5. ASSUME NEW h \in Hand, HandStep(h) PROVE HooksOK' /\ JobsOK'
  BY <1>1, <1>5 DEF HandStep, TakeJob, AnnounceAndFetch, FinishReview, Posts, SameInPosting, MovesOn, LetsGo,
                    LoseHand, LeaveHand
<1>6. CASE SweepOrphans \/ UNCHANGED vars
  BY <1>1, <1>6 DEF SweepOrphans, vars
<1> QED
  BY <1>2, <1>3, <1>4, <1>5, <1>6, RequestDedup, EnqueueDedup, AskDedup, Steps


-----------------------------------------------------------------------------
(* Posts                                                                   *)

Early == {"begin", "reviewing", "posting"}

\* Steps that post nothing, and after which whoever has not ended its posting had
\* not before.
LEMMA PostsFrame ==
  ASSUME PostsOK, UNCHANGED << posts, tries, timeouts >>,
         \A g \in Hand : has'[g] \in JobIds /\ at'[g] \in Early => has[g] = has'[g] /\ at[g] \in Early
  PROVE  PostsOK'
BY DEF PostsOK, Early

LEMMA PostsStep == ASSUME ReviewInv, [Next]_vars PROVE PostsOK'
<1> USE DEF ReviewInv, OutsideHand, queueVars, handlerVars, history, faults
<1>1. ASSUME UNCHANGED << posts, tries, timeouts, has, at >> PROVE PostsOK'
  BY <1>1, PostsFrame
<1>2. CASE GitHub \/ (\E d \in Delivery : Receive(d)) \/ UNCHANGED vars
  BY <1>1, <1>2 DEF GitHub, Push, Emit, EmitFor, Receive, vars
<1>3. ASSUME NEW x \in hooks, DedupDelivery(x) \/ DedupCommit(x) \/ EnqueueReview(x) \/ HookLost(x) PROVE PostsOK'
  BY <1>1, <1>3 DEF DedupDelivery, DedupCommit, EnqueueReview, HookLost, Enqueue, Queue!Submit, Fails
<1>4. ASSUME NEW p \in Pr, NEW what \in {"review", "rereview"}, Ask(p, what) PROVE PostsOK'
  BY <1>1, <1>4 DEF Ask, Enqueue, Queue!Submit
<1>5. CASE SweepOrphans
  BY <1>1, <1>5 DEF SweepOrphans, Queue!WriteOff
<1>6. ASSUME NEW h \in Hand, HandStep(h) PROVE PostsOK'
  <2>0. /\ \A j \in JobIds : tries[j] \in Nat /\ Len(posts[j]) \in Nat
        /\ timeouts \in Nat
    BY DEF TypeOK
  <2>1. CASE TakeJob(h)
    <3>1. PICK j \in JobIds : Queue!Take(h, j)
      BY <2>1 DEF TakeJob
    <3>2. /\ \A k \in JobIds : tries'[k] = IF k = j THEN tries[k] + 1 ELSE tries[k]
          /\ \A g \in Hand : has'[g] = (IF g = h THEN j ELSE has[g]) /\ has[g] # j
      BY <3>1 DEF TypeOK, Queue!Take, Queue!InSomeHand
    <3>3. /\ \A g \in Hand : at'[g] = IF g = h THEN "begin" ELSE at[g]
          /\ UNCHANGED << posts, timeouts >>
      BY <2>1 DEF TypeOK, TakeJob, GoTo
    <3>4. \A k \in JobIds : k # j =>
            /\ Len(posts'[k]) <= tries'[k] + timeouts'
            /\ \A g \in Hand : has'[g] = k /\ at'[g] \in Early => Len(posts'[k]) < tries'[k] + timeouts'
      BY <3>2, <3>3 DEF PostsOK, Early
    <3>5. Len(posts'[j]) < tries'[j] + timeouts' /\ Len(posts'[j]) <= tries'[j] + timeouts'
      <4>1. Len(posts[j]) <= tries[j] + timeouts
        BY DEF PostsOK
      <4>2. tries[j] \in Nat /\ Len(posts[j]) \in Nat /\ timeouts \in Nat
        BY <2>0
      <4>3. Len(posts[j]) < (tries[j] + 1) + timeouts /\ Len(posts[j]) <= (tries[j] + 1) + timeouts
        BY <4>1, <4>2
      <4>4. tries'[j] = tries[j] + 1 /\ posts'[j] = posts[j] /\ timeouts' = timeouts
        BY <3>2, <3>3
      <4> QED
        BY <4>3, <4>4
    <3> QED
      BY <3>4, <3>5 DEF PostsOK, Early
  <2>2. CASE AnnounceAndFetch(h) \/ FinishReview(h)
    <3>1. /\ at[h] \in Early /\ \A g \in Hand : g # h => at'[g] = at[g]
          /\ UNCHANGED << posts, tries, timeouts, has >>
      BY <2>2 DEF TypeOK, AnnounceAndFetch, Reviewable, FinishReview, GoTo, Early
    <3> QED
      BY <3>1, PostsFrame
  <2>3. CASE MovesOn(h)
    <3>1. PICK stage \in {"returned", "raised", "trace"} : GoTo(h, stage)
      BY <2>3 DEF MovesOn
    <3>2. \A g \in Hand : at'[g] = IF g = h THEN stage ELSE at[g]
      BY <3>1 DEF TypeOK, GoTo
    <3>3. UNCHANGED << posts, tries, timeouts, has >> /\ stage \notin Early
      BY <2>3 DEF MovesOn, MayHaveFailed, Early
    <3> QED
      BY <3>2, <3>3, PostsFrame
  <2>4. CASE LetsGo(h) \/ LoseHand(h)
    <3>1. \A g \in Hand : /\ has'[g] = IF g = h THEN 0 ELSE has[g]
                          /\ at'[g] = IF g = h THEN "idle" ELSE at[g]
      BY <2>4 DEF LetsGo, LoseHand, Queue!LetGo, Queue!Lose, LeaveHand, GoTo, TypeOK
    <3>2. UNCHANGED << posts, tries, timeouts >>
      BY <2>4 DEF LetsGo, LoseHand, Queue!LetGo, Queue!Lose, LeaveHand, Fails
    <3> QED
      BY <3>1, <3>2, PostsFrame
  <2>5. CASE Posts(h)
    <3>1. UNCHANGED << tries, has >> /\ at[h] = "posting" /\ has[h] \in JobIds
      BY <2>5, InHand DEF Posts, SameInPosting
    <3>2. Len(posts[has[h]]) < tries[has[h]] + timeouts
      BY <3>1 DEF PostsOK
    <3>3. \A g \in Hand : g # h => at'[g] = at[g]
      BY <2>5 DEF Posts, GoTo, TypeOK
    <3>4. \A g \in Hand : has[g] = has[h] => g = h
      BY <3>1, InHand
    <3>5. CASE UNCHANGED << posts, timeouts >>
      BY <3>1, <3>3, <3>5, PostsFrame DEF Early
    <3>6. CASE Posted(h)
      <4>1. /\ Len(posts'[has[h]]) = Len(posts[has[h]]) + 1
            /\ \A j \in JobIds : j # has[h] => posts'[j] = posts[j]
        <5>1. posts[has[h]] \in Seq(Commits) /\ fetched[h] \in Commits
          BY <2>5, <3>1 DEF TypeOK, StagesOK
        <5>2. Len(Append(posts[has[h]], fetched[h])) = Len(posts[has[h]]) + 1
          BY <5>1
        <5> QED
          BY <3>1, <3>6, <5>2 DEF TypeOK, Posted
      <4>2. (timeouts' = timeouts /\ at'[h] = "show") \/ timeouts' = timeouts + 1
        <5>1. CASE Posted(h) /\ GoTo(h, "show") /\ UNCHANGED timeouts
          BY <5>1 DEF GoTo, TypeOK
        <5>2. ~ UNCHANGED posts
          <6>1. Len(posts[has[h]]) # Len(posts[has[h]]) + 1
            BY <2>0, <3>1
          <6> QED
            BY <4>1, <6>1
        <5> QED
          BY <2>5, <5>1, <5>2 DEF Posts
      <4>3. ASSUME NEW j \in JobIds, j # has[h]
            PROVE  /\ Len(posts'[j]) <= tries'[j] + timeouts'
                   /\ \A g \in Hand : has'[g] = j /\ at'[g] \in Early => Len(posts'[j]) < tries'[j] + timeouts'
        <5>1. /\ tries[j] \in Nat /\ Len(posts[j]) \in Nat /\ timeouts \in Nat
              /\ timeouts' = timeouts \/ timeouts' = timeouts + 1
          BY <2>0, <4>2
        <5>2. /\ Len(posts[j]) <= tries[j] + timeouts
              /\ \A g \in Hand : has[g] = j /\ at[g] \in Early => Len(posts[j]) < tries[j] + timeouts
          BY DEF PostsOK, Early
        <5>3. \A g \in Hand : has'[g] = j => g # h /\ has[g] = j /\ at'[g] = at[g]
          BY <3>1, <3>3, <4>3
        <5>4. posts'[j] = posts[j] /\ tries'[j] = tries[j]
          BY <3>1, <4>1, <4>3
        <5>5. /\ Len(posts[j]) <= tries[j] + timeouts'
              /\ Len(posts[j]) < tries[j] + timeouts => Len(posts[j]) < tries[j] + timeouts'
          BY <5>1, <5>2
        <5> QED
          BY <5>2, <5>3, <5>4, <5>5
      <4>4. /\ Len(posts'[has[h]]) <= tries'[has[h]] + timeouts'
            /\ at'[h] \in Early => Len(posts'[has[h]]) < tries'[has[h]] + timeouts'
        <5>1. tries[has[h]] \in Nat /\ Len(posts[has[h]]) \in Nat /\ timeouts \in Nat
          BY <2>0, <3>1
        <5>2. tries'[has[h]] = tries[has[h]]
          BY <3>1
        <5>3. "show" \notin Early
          BY DEF Early
        <5> QED
          BY <3>2, <4>1, <4>2, <5>1, <5>2, <5>3
      <4> QED
        BY <3>1, <3>4, <4>3, <4>4 DEF PostsOK, Early
    <3> QED
      BY <2>5, <3>5, <3>6 DEF Posts
  <2> QED
    BY <1>6, <2>1, <2>2, <2>3, <2>4, <2>5 DEF HandStep
<1> QED
  BY <1>2, <1>3, <1>4, <1>5, <1>6, Steps


-----------------------------------------------------------------------------
(* Recorded commits                                                        *)

\* Steps that record no commit, and keep the jobs and the requests about to enqueue.
LEMMA SeenFrame ==
  ASSUME SeenIsQueued, failures' = 0 => failures = 0, UNCHANGED commits,
         \A c : JobsFor(c) \subseteq JobsFor(c)',
         \A x \in hooks : x.at = "enqueue" => x \in hooks' /\ CommitOf(x)' = CommitOf(x)
  PROVE  SeenIsQueued'
BY DEF SeenIsQueued

LEMMA RequestSeen ==
  ASSUME TypeOK, HooksOK, SeenIsQueued, NEW x \in hooks, DedupCommit(x) PROVE SeenIsQueued'
<1> PICK c : c = CommitOf(x)
  OBVIOUS
<1>1. UNCHANGED << event, job, failures >> /\ commits' = commits \union {c} /\ x.at = "commit"
  BY DEF DedupCommit, RecordCommit, githubVars, jobVars, faults
<1>2. /\ \A e : JobsFor(e)' = JobsFor(e)
      /\ \A y : CommitOf(y)' = CommitOf(y)
  BY <1>1 DEF JobsFor, CommitOf, EventOf
<1>3. \A y \in hooks : y.at = "enqueue" => y \in hooks'
  BY <1>1 DEF DedupCommit, Answer, GoOn
<1>4. CASE c \in commits
  <2>1. UNCHANGED commits
    BY <1>1, <1>4
  <2> QED
    BY <1>1, <1>2, <1>3, <2>1, SeenFrame
<1>5. CASE c \notin commits
  <2> PICK z : z = [x EXCEPT !.at = "enqueue"]
    OBVIOUS
  <2>1. z \in hooks' /\ z.at = "enqueue" /\ z.delivery = x.delivery
    BY <1>5, CommitTypes, NewRecords DEF DedupCommit, GoOn
  <2>2. CommitOf(z)' = c
    BY <1>1, <2>1 DEF CommitOf, EventOf
  <2>3. ASSUME failures' = 0, NEW e \in commits'
        PROVE  JobsFor(e)' # {} \/ \E y \in hooks' : y.at = "enqueue" /\ CommitOf(y)' = e
    <3>1. CASE e = c
      BY <2>1, <2>2, <3>1
    <3>2. CASE e # c
      <4>1. JobsFor(e) # {} \/ \E y \in hooks : y.at = "enqueue" /\ CommitOf(y) = e
        BY <1>1, <2>3, <3>2 DEF SeenIsQueued
      <4> QED
        BY <1>2, <1>3, <4>1
    <3> QED
      BY <3>1, <3>2
  <2> QED
    BY <2>3 DEF SeenIsQueued
<1> QED
  BY <1>4, <1>5

LEMMA EnqueueSeen ==
  ASSUME TypeOK, HandsOK, HooksOK, SeenIsQueued, NEW x \in hooks, EnqueueReview(x) PROVE SeenIsQueued'
<1> PICK c : c = CommitOf(x)
  OBVIOUS
<1>1. UNCHANGED << event, commits, failures >> /\ hooks' = hooks \ {x}
  BY DEF EnqueueReview, Answer, githubVars, dedupVars, faults
<1> PICK what \in {"review", "rereview"}, source \in {"github", "slack"} :
           what = "review" /\ source = "github"
  OBVIOUS
<1> PICK p, n : p = EventOf(x).pr /\ n = EventOf(x).commit
  OBVIOUS
<1>2. p \in Pr /\ n \in Commits \union {0} /\ c = << p, n >>
  BY CommitTypes DEF CommitOf
<1>3. Enqueue([what |-> what, source |-> source, pr |-> p, commit |-> n])
  BY DEF EnqueueReview
<1>4. \A e : JobsFor(e)' = IF what = "review" /\ source = "github" /\ e = << p, n >>
                           THEN JobsFor(e) \union {nextJob} ELSE JobsFor(e)
  BY <1>2, <1>3, JobsForNew
<1>5. (\A e : JobsFor(e) \subseteq JobsFor(e)') /\ JobsFor(c)' # {}
  <2>1. \A e : JobsFor(e)' = IF e = c THEN JobsFor(e) \union {nextJob} ELSE JobsFor(e)
    BY <1>2, <1>4
  <2> QED
    BY <2>1
<1>6. \A y : CommitOf(y)' = CommitOf(y)
  BY <1>1 DEF CommitOf, EventOf
<1>7. ASSUME failures' = 0, NEW e \in commits'
      PROVE  JobsFor(e)' # {} \/ \E y \in hooks' : y.at = "enqueue" /\ CommitOf(y)' = e
  <2>1. CASE e = c
    BY <1>5, <2>1
  <2>2. CASE e # c
    <3>1. JobsFor(e) # {} \/ \E y \in hooks : y.at = "enqueue" /\ CommitOf(y) = e
      BY <1>1, <1>7 DEF SeenIsQueued
    <3>2. ASSUME NEW y \in hooks, y.at = "enqueue", CommitOf(y) = e PROVE y \in hooks'
      BY <1>1, <2>2, <3>2
    <3> QED
      BY <1>5, <1>6, <3>1, <3>2
  <2> QED
    BY <2>1, <2>2
<1> QED
  BY <1>7 DEF SeenIsQueued

LEMMA SeenStep == ASSUME ReviewInv, SeenIsQueued, [Next]_vars PROVE SeenIsQueued'
<1> USE DEF ReviewInv, OutsideHand, githubVars, dedupVars, jobVars, faults
<1>0. failures \in Nat
  BY DEF TypeOK
<1>1. ASSUME UNCHANGED << event, commits, hooks, job >>, failures' = 0 => failures = 0 PROVE SeenIsQueued'
  <2>1. \A c : JobsFor(c)' = JobsFor(c) /\ CommitOf(c)' = CommitOf(c)
    BY <1>1 DEF JobsFor, CommitOf, EventOf
  <2> QED
    BY <1>1, <2>1, SeenFrame
<1>2. CASE GitHub
  <2>1. PICK d \in Delivery : /\ event[d] = NoEvent /\ UNCHANGED << commits, hooks, job, failures >>
                              /\ \A e \in Delivery : e # d => event'[e] = event[e]
    BY <1>2 DEF GitHub, Push, Emit, EmitFor, TypeOK
  <2>2. \A x \in hooks : event'[x.delivery] = event[x.delivery]
    BY <2>1, CommitTypes DEF HooksOK
  <2>3. \A x \in hooks : CommitOf(x)' = CommitOf(x)
    BY <2>2 DEF CommitOf, EventOf
  <2>4. \A c : JobsFor(c)' = JobsFor(c)
    BY <2>1 DEF JobsFor
  <2> QED
    BY <2>1, <2>3, <2>4, SeenFrame
<1>3. ASSUME UNCHANGED << event, commits, job, failures >>,
             \A x \in hooks : x.at = "enqueue" => x \in hooks'
      PROVE  SeenIsQueued'
  <2>1. \A c : JobsFor(c)' = JobsFor(c) /\ CommitOf(c)' = CommitOf(c)
    BY <1>3 DEF JobsFor, CommitOf, EventOf
  <2> QED
    BY <1>3, <2>1, SeenFrame
<1>4. ASSUME NEW d \in Delivery, Receive(d) PROVE SeenIsQueued'
  BY <1>3, <1>4 DEF Receive
<1>5. ASSUME NEW x \in hooks, DedupDelivery(x) PROVE SeenIsQueued'
  <2>1. \A y \in hooks : y.at = "enqueue" => y \in hooks'
    BY <1>5 DEF DedupDelivery, Answer, GoOn
  <2> QED
    BY <1>3, <1>5, <2>1 DEF DedupDelivery
<1>6. ASSUME NEW x \in hooks, HookLost(x) PROVE SeenIsQueued'
  <2>1. failures' # 0
    BY <1>0, <1>6 DEF HookLost, Fails
  <2> QED
    BY <2>1 DEF SeenIsQueued
<1>7. ASSUME NEW p \in Pr, NEW what \in {"review", "rereview"}, Ask(p, what) PROVE SeenIsQueued'
  <2>1. UNCHANGED << event, commits, hooks, failures >>
    BY <1>7 DEF Ask
  <2> PICK source \in {"github", "slack"}, n \in Commits \union {0} : source = "slack" /\ n = 0
    OBVIOUS
  <2>2. Enqueue([what |-> what, source |-> source, pr |-> p, commit |-> n])
    BY <1>7 DEF Ask
  <2>3. \A c : JobsFor(c)' = IF what = "review" /\ source = "github" /\ c = << p, n >>
                             THEN JobsFor(c) \union {nextJob} ELSE JobsFor(c)
    BY <2>2, JobsForNew
  <2>4. \A c : JobsFor(c) \subseteq JobsFor(c)'
    BY <2>3
  <2>5. \A y : CommitOf(y)' = CommitOf(y)
    BY <2>1 DEF CommitOf, EventOf
  <2> QED
    BY <2>1, <2>4, <2>5, SeenFrame
<1>8. ASSUME NEW h \in Hand, HandStep(h) PROVE SeenIsQueued'
  <2>1. UNCHANGED << event, commits, hooks, job >>
    BY <1>8 DEF HandStep, TakeJob, AnnounceAndFetch, FinishReview, Posts, SameInPosting, MovesOn, LetsGo,
                LoseHand, LeaveHand
  <2>2. failures' = failures \/ failures' = failures + 1
    BY <1>8 DEF HandStep, TakeJob, AnnounceAndFetch, FinishReview, Posts, MovesOn, MayHaveFailed, LetsGo,
                LoseHand, Fails
  <2> QED
    BY <1>0, <1>1, <2>1, <2>2
<1>9. CASE SweepOrphans \/ UNCHANGED vars
  BY <1>1, <1>9 DEF SweepOrphans, vars
<1> QED
  BY <1>2, <1>4, <1>5, <1>6, <1>7, <1>8, <1>9, RequestSeen, EnqueueSeen, Steps

-----------------------------------------------------------------------------
(* The theorems                                                            *)

\* The webhook, the rows of jobs, the hands and the posts agree in every reachable
\* state.
THEOREM ReviewSafety == Spec => []ReviewInv
<1>1. ReviewInv /\ [Next]_vars => ReviewInv'
  BY TypeStep, HandsStep, DedupStep, PostsStep DEF ReviewInv
<1> QED
  BY <1>1, InitReview, PTL DEF Spec

\* Every variable of the review flow keeps its type, and a hand is idle exactly
\* when it has no job.
THEOREM TypeCorrect == Spec => []TypeOK
<1>1. ReviewInv => TypeOK
  BY DEF ReviewInv
<1> QED
  BY <1>1, ReviewSafety, PTL

\* However often, late or at the same time GitHub delivers its events, and
\* whatever crashes in between, a commit gets at most one automatic review job.
THEOREM OneJobEach == Spec => []OneJobPerCommit
<1>1. ReviewInv => OneJobPerCommit
  <2> SUFFICES ASSUME ReviewInv, NEW c \in commits PROVE Cardinality(JobsFor(c)) <= 1
    BY DEF OneJobPerCommit
  <2>1. \A j, k \in JobsFor(c) : j = k
    BY DEF ReviewInv, JobsOK
  <2>2. CASE JobsFor(c) = {}
    BY <2>2, FS_EmptySet
  <2>3. ASSUME NEW j \in JobsFor(c) PROVE Cardinality(JobsFor(c)) = 1
    <3>1. JobsFor(c) = {j}
      BY <2>1
    <3> QED
      BY <3>1, FS_Singleton
  <2> QED
    BY <2>2, <2>3
<1> QED
  BY <1>1, ReviewSafety, PTL

\* As long as no call raises and nothing crashes, a commit recorded as seen has
\* its job or a request on the way to enqueue it: it is never dropped between the
\* dedup tables and the queue.
THEOREM SeenIsNotForgotten == Spec => []SeenIsQueued
<1>1. Init => SeenIsQueued
  BY DEF Init, SeenIsQueued
<1>2. ReviewInv /\ SeenIsQueued /\ [Next]_vars => SeenIsQueued'
  BY SeenStep
<1> QED
  BY <1>1, <1>2, ReviewSafety, PTL DEF Spec

\* A handling of a job puts at most one review on the pull request, plus one for
\* each call that GitHub took although it raised.
THEOREM OnePostEach == Spec => []OnePostPerHandling
<1>1. ReviewInv => OnePostPerHandling
  BY DEF ReviewInv, PostsOK, OnePostPerHandling
<1> QED
  BY <1>1, ReviewSafety, PTL

-----------------------------------------------------------------------------
(* The queue                                                               *)

LEMMA QueueStep == ASSUME [Next]_vars PROVE [Queue!Next]_(Queue!ledger)
<1>1. ASSUME NEW item, Enqueue(item) PROVE Queue!Next
  BY <1>1 DEF Enqueue, Queue!Next
<1>2. ASSUME NEW h \in Hand, TakeJob(h) \/ CompleteJob(h) \/ RetryOrGiveUp(h) \/ LoseHand(h) PROVE Queue!Next
  BY <1>2 DEF TakeJob, CompleteJob, RetryOrGiveUp, LoseHand, Queue!Next
<1>3. SweepOrphans => Queue!Next
  BY DEF SweepOrphans, Queue!Next
<1>4. ASSUME NEW h \in Hand,
             \/ NothingToRereview(h) \/ AnnounceAndFetch(h) \/ AnnounceRaises(h) \/ ReviewFails(h)
             \/ FinishReview(h) \/ PostAccepted(h) \/ PostRejected(h) \/ PostTimesOut(h)
             \/ Show(h) \/ SaveTrace(h) \/ SaveTraceRaises(h) \/ CompleteRaises(h)
      PROVE  UNCHANGED Queue!ledger
  BY <1>4 DEF NothingToRereview, AnnounceAndFetch, AnnounceRaises, ReviewFails, FinishReview, PostAccepted,
              PostRejected, PostTimesOut, Show, SaveTrace, SaveTraceRaises, CompleteRaises,
              SameExceptStage, SameInPosting, queueVars, Queue!ledger
<1>5. ASSUME NEW p \in Pr, NEW what \in {"review", "rereview"}, Ask(p, what) PROVE Queue!Next
  BY <1>1, <1>5 DEF Ask
<1>6. ASSUME NEW x, DedupDelivery(x) \/ DedupCommit(x) \/ EnqueueReview(x) \/ HookLost(x)
      PROVE  Queue!Next \/ UNCHANGED Queue!ledger
  <2>1. CASE EnqueueReview(x)
    BY <1>1, <2>1 DEF EnqueueReview
  <2>2. CASE DedupDelivery(x) \/ DedupCommit(x) \/ HookLost(x)
    BY <2>2 DEF DedupDelivery, DedupCommit, HookLost, queueVars, Queue!ledger
  <2> QED
    BY <1>6, <2>1, <2>2
<1>7. ASSUME GitHub \/ \E d \in Delivery : Receive(d) PROVE UNCHANGED Queue!ledger
  BY <1>7 DEF GitHub, Push, Emit, EmitFor, Receive, queueVars, Queue!ledger
<1>8. CASE UNCHANGED vars
  BY <1>8 DEF vars, queueVars, Queue!ledger
<1> QED
  BY <1>2, <1>3, <1>4, <1>5, <1>6, <1>7, <1>8 DEF Next, Handle, HookStep

\* Every step of this flow takes the queue from state to state as JobLedger allows,
\* the contract that JobQueue, where the queue is modelled in full, also keeps.
THEOREM QueueIsKept == Spec => Queue!Spec
<1>1. Init => Queue!Init
  BY DEF Init
<1>2. [Next]_vars => [Queue!Next]_(Queue!ledger)
  BY QueueStep
<1> QED
  BY <1>1, <1>2, PTL DEF Spec, Queue!Spec
=============================================================================
