-------------------------- MODULE BuildFlowProofs ---------------------------
(***************************************************************************)
(* The safety of BuildFlow, for every number of calls, users, workers,     *)
(* requests, rows, attempts and faults: nothing is done that was not       *)
(* signed off, a decision is final and dispatched once, an approval costs  *)
(* at most MaxAttempts builds, and lost workers duplicate no pull request. *)
(***************************************************************************)
EXTENDS BuildFlow, TLAPS, FiniteSetTheorems

\* Row ids are positive.
LEMMA IdFacts == 0 \notin JobIds /\ JobIds \subseteq Nat /\ ApprovalIds \subseteq Nat
BY BoundAssumption DEF JobIds, ApprovalIds

-----------------------------------------------------------------------------
(* The inductive invariant                                                 *)

\* A job in a hand is taken, and in no other hand; only implement jobs build.
HandsOK ==
  /\ \A h \in Hand : has[h] # 0 => phase[has[h]] = "taken"
  /\ \A g, h \in Hand : has[g] # 0 /\ has[g] = has[h] => g = h
  /\ \A h \in Hand : at[h] = "building" => job[has[h]].what = "implement"

\* Ids are given out in order, and what has none yet is blank.
Numbered ==
  /\ \A j \in JobIds : job[j] = NoJob <=> j >= nextJob
  /\ \A j \in JobIds : phase[j] = "none" => tries[j] = 0
  /\ \A a \in ApprovalIds : approval[a].status = "none" <=> a >= nextApproval
  /\ \A d \in Decider : deciding[d].doing # "idle" => deciding[d].row < nextApproval

\* Rows pass the allowlist when they are filed, and only admins decide them.
Gated ==
  /\ \A a \in ApprovalIds :
       /\ approval[a].status # "none" /\ Kind[approval[a].call] # "api" => approval[a].call \in Allowed
       /\ approval[a].status \in Decisions => approval[a].by \in Admin
  /\ \A d \in Decider : deciding[d].doing = "decide" => deciding[d].user \in Admin

Dispatching(d, a) == deciding[d].doing = "dispatch" /\ deciding[d].row = a

\* The right to dispatch a row comes with the flip to approved, to one request; it
\* is used up by the one job, or the one execution.
OneDispatchOf(a) ==
  /\ Acted(a) => approval[a].status = "approved"
  /\ executed[a] <= 1 /\ (executed[a] > 0 => ImplementJobs(a) = {})
  /\ \A j, k \in ImplementJobs(a) : j = k
  /\ \A d \in Decider : Dispatching(d, a) => approval[a].status = "approved" /\ ~Acted(a)
  /\ \A d, e \in Decider : Dispatching(d, a) /\ Dispatching(e, a) => d = e

OneDispatch == \A a \in ApprovalIds : OneDispatchOf(a)

\* A build belongs to an attempt of the one implement job, and a pull request to
\* a build; what a hand has begun and not counted yet is still to come.
Costs(a) == published[a] <= builds[a] /\ (builds[a] > 0 => ImplementJobs(a) # {})

Attempts(j) ==
  job[j].what = "implement" =>
    /\ builds[job[j].approval] <= tries[j]
    /\ \A h \in Hand : has[h] = j =>
         /\ at[h] = "begin"    => builds[job[j].approval] < tries[j]
         /\ at[h] = "building" => published[job[j].approval] < builds[job[j].approval]

Counted == (\A a \in ApprovalIds : Costs(a)) /\ (\A j \in JobIds : Attempts(j))

SafeInv == TypeOK /\ HandsOK /\ Numbered /\ Gated /\ OneDispatch /\ Counted

\* No database, model, GitHub or Slack call has raised so far.
Calm == errors = 0 /\ slackErrors = 0

\* Without a raised call no job is tried a second time, whatever crashes.
TriedOnce ==
  /\ \A h \in Hand : at[h] # "raised"
  /\ \A j \in JobIds : tries[j] <= 1 /\ (phase[j] = "waiting" => tries[j] = 0)

DraftJobsOf(c) == {j \in JobIds : job[j].what = "draft" /\ job[j].call = c}
RowsFor(c)     == {a \in ApprovalIds : approval[a].status # "none" /\ approval[a].call = c}

\* A call has one row, and once it has it no job is going to file another.
OneRowOf(c) ==
  /\ c \notin made => DraftJobsOf(c) = {} /\ RowsFor(c) = {}
  /\ \A j, k \in DraftJobsOf(c) : j = k
  /\ \A a, b \in RowsFor(c) : a = b
  /\ RowsFor(c) # {} => \A j \in DraftJobsOf(c) :
       phase[j] # "waiting" /\ \A h \in Hand : has[h] = j => at[h] # "begin"

AllOneRow == \A c \in Call : OneRowOf(c)

CalmInv == SafeInv /\ (Calm => TriedOnce /\ AllOneRow)

USE CallAssumption, BoundAssumption, IdFacts

LEMMA InitSafe == Init => SafeInv
<1> SUFFICES ASSUME Init PROVE SafeInv
  OBVIOUS
<1> USE DEF Init, Queue!Init
<1>1. TypeOK
  BY DEF TypeOK, Jobs, Approvals, Errands, JobIds, ApprovalIds
<1>2. HandsOK /\ Gated
  BY DEF HandsOK, Gated, Idle, Decisions
<1>3. Numbered
  BY DEF Numbered, NoJob, Idle, JobIds, ApprovalIds
<1>4. OneDispatch /\ Counted
  BY DEF OneDispatch, OneDispatchOf, Counted, Costs, Attempts, Dispatching, Acted, ImplementJobs, NoJob, Idle
<1> QED
  BY <1>1, <1>2, <1>3, <1>4 DEF SafeInv

-----------------------------------------------------------------------------
(* Types                                                                   *)

\* What a job, an approval and an errand can be.
LEMMA Shapes ==
  /\ \A x \in Jobs : \/ x = NoJob /\ x.what = "none"
                     \/ x.what = "draft" /\ x.call \in Call
                     \/ x.what = "implement" /\ x.approval \in ApprovalIds
  /\ \A x \in Approvals : \/ x.status = "none"
                          \/ x.status = "pending" /\ x.call \in Call
                          \/ x.status \in Decisions /\ x.call \in Call /\ x.by \in User
  /\ \A x \in Errands : \/ x = Idle /\ x.doing = "idle"
                        \/ x.doing = "dispatch" /\ x.row \in ApprovalIds
                        \/ /\ x.doing = "decide" /\ x.row \in ApprovalIds
                           /\ x.verdict \in Decisions /\ x.user \in User
BY DEF Jobs, NoJob, Approvals, Errands, Idle

LEMMA NewRecords ==
  /\ \A c \in Call : [what |-> "draft", call |-> c] \in Jobs
  /\ \A a \in ApprovalIds : [what |-> "implement", approval |-> a] \in Jobs
  /\ \A c \in Call : [status |-> "pending", call |-> c] \in Approvals
  /\ \A c \in Call, u \in User, v \in Decisions : [status |-> v, call |-> c, by |-> u] \in Approvals
  /\ Idle \in Errands
  /\ \A a \in ApprovalIds : [doing |-> "dispatch", row |-> a] \in Errands
  /\ \A a \in ApprovalIds, v \in Decisions, u \in User :
       [doing |-> "decide", row |-> a, verdict |-> v, user |-> u] \in Errands
BY DEF Jobs, Approvals, Errands

\* What is in a hand, and on whose behalf.
LEMMA InHand ==
  ASSUME TypeOK, HandsOK, NEW h \in Hand
  PROVE  /\ has[h] \in JobIds <=> at[h] # "idle"
         /\ Working(h, "draft") => DraftFor(h) \in Call
         /\ Working(h, "implement") \/ at[h] = "building" => ApprovalOf(h) \in ApprovalIds
<1>1. has[h] \in JobIds <=> at[h] # "idle"
  BY DEF TypeOK
<1>2. has[h] \in JobIds => job[has[h]] \in Jobs
  BY DEF TypeOK
<1>3. at[h] = "building" => job[has[h]].what = "implement"
  BY DEF HandsOK
<1> QED
  BY <1>1, <1>2, <1>3, Shapes DEF TypeOK, Working, DraftFor, ApprovalOf

LEMMA CountUp ==
  ASSUME NEW f \in [ApprovalIds -> Nat], NEW a \in ApprovalIds
  PROVE  [f EXCEPT ![a] = @ + 1] \in [ApprovalIds -> Nat]
OBVIOUS

\* The steps that write a job or an approval row.
LEMMA EnqueueTypes ==
  ASSUME TypeOK, NEW item \in Jobs, Enqueue(item)
  PROVE  /\ job' \in [JobIds -> Jobs]
         /\ nextJob' \in 1 .. MaxJobs + 1
         /\ phase' \in [JobIds -> {"none", "waiting", "taken", "done", "failed"}]
         /\ UNCHANGED << tries, has >>
BY DEF TypeOK, Enqueue, Queue!Submit, JobIds

LEMMA RequestTypes ==
  ASSUME TypeOK, NEW c \in Call, CreateRequest(c)
  PROVE  approval' \in [ApprovalIds -> Approvals] /\ nextApproval' \in 1 .. MaxApprovals + 1
<1>1. approval' \in [ApprovalIds -> Approvals]
  BY NewRecords DEF TypeOK, CreateRequest
<1>2. nextApproval' \in 1 .. MaxApprovals + 1
  BY DEF TypeOK, CreateRequest, ApprovalIds
<1> QED
  BY <1>1, <1>2

LEMMA DecideTypes ==
  ASSUME TypeOK, NEW d \in Decider, NEW u \in User, NEW a \in ApprovalIds,
         NEW verdict \in Decisions, Decide(d, u, a, verdict)
  PROVE  approval' \in [ApprovalIds -> Approvals] /\ deciding' \in [Decider -> Errands]
<1>1. CASE approval[a].status = "pending"
  <2>1. approval[a].call \in Call
    BY <1>1, Shapes DEF TypeOK, Decisions
  <2> QED
    BY <1>1, <2>1, NewRecords DEF TypeOK, Decide
<1>2. CASE approval[a].status # "pending"
  BY <1>2, NewRecords DEF TypeOK, Decide
<1> QED
  BY <1>1, <1>2

LEMMA AskTypes == ASSUME SafeInv, NEW c \in Call, Ask(c) PROVE TypeOK'
<1> USE DEF SafeInv, jobVars, queueVars, rowVars, history, faults
<1>1. CASE StartDraft(c)
  BY <1>1, EnqueueTypes, NewRecords DEF StartDraft, TypeOK
<1>2. CASE FileApi(c)
  BY <1>2, RequestTypes DEF FileApi, TypeOK
<1> QED
  BY <1>1, <1>2 DEF Ask

LEMMA HandleTypes == ASSUME SafeInv, NEW h \in Hand, Handle(h) \/ LoseHand(h) PROVE TypeOK'
<1> USE DEF SafeInv, jobVars, queueVars, rowVars, history, faults, GoTo
<1>1. CASE TakeJob(h)
  BY <1>1 DEF TypeOK, TakeJob, Queue!Take
<1>2. CASE FileDraft(h)
  BY <1>2, RequestTypes, InHand DEF TypeOK, FileDraft, Working
<1>3. CASE RunPipeline(h)
  <2>1. builds' \in [ApprovalIds -> Nat]
    BY <1>3, InHand, CountUp DEF TypeOK, RunPipeline
  <2> QED
    BY <1>3, <2>1, InHand DEF TypeOK, RunPipeline, Working
<1>4. CASE Publish(h)
  <2>1. published' \in [ApprovalIds -> Nat]
    BY <1>4, InHand, CountUp DEF TypeOK, Publish
  <2> QED
    BY <1>4, <2>1, InHand DEF TypeOK, Publish
<1>5. CASE RefuseDraft(h) \/ ImplementRefused(h) \/ PipelineEnds(h) \/ Reply(h)
  BY <1>5 DEF TypeOK, RefuseDraft, ImplementRefused, PipelineEnds, Reply, Working
<1>6. CASE DraftRaises(h) \/ ReplyRaises(h) \/ CompleteRaises(h)
  BY <1>6 DEF TypeOK, DraftRaises, ReplyRaises, CompleteRaises, Working, Raises, SlackRaises
<1>7. CASE CompleteJob(h)
  BY <1>7 DEF TypeOK, CompleteJob, Queue!Finish, Queue!LetGo
<1>8. CASE RetryOrGiveUp(h)
  BY <1>8 DEF TypeOK, RetryOrGiveUp, Queue!PutBack, Queue!GiveUp, Queue!LetGo
<1>9. CASE LoseHand(h)
  BY <1>9 DEF TypeOK, LoseHand, Queue!Lose, Crashes
<1> QED
  BY <1>1, <1>2, <1>3, <1>4, <1>5, <1>6, <1>7, <1>8, <1>9 DEF Handle

LEMMA SweepTypes == ASSUME SafeInv, SweepOrphans PROVE TypeOK'
BY DEF SafeInv, TypeOK, SweepOrphans, Queue!WriteOff, jobVars, rowVars, history, faults

LEMMA DeciderTypes == ASSUME SafeInv, NEW d \in Decider, Click(d) \/ FinishDecision(d) \/ DispatchLost(d)
                      PROVE  TypeOK'
<1> USE DEF SafeInv, jobVars, queueVars, rowVars, history, faults
<1>0. deciding[d].doing \in {"decide", "dispatch"} => deciding[d].row \in ApprovalIds
  BY Shapes DEF TypeOK
<1>1. ASSUME NEW u \in User, NEW a \in ApprovalIds, NEW verdict \in Decisions,
             SlackClick(d, u, a, verdict)
      PROVE  TypeOK'
  BY <1>1, DecideTypes DEF TypeOK, SlackClick
<1>2. ASSUME NEW u \in User, NEW a \in ApprovalIds, NEW verdict \in Decisions,
             ConsoleRead(d, u, a, verdict)
      PROVE  TypeOK'
  BY <1>2, NewRecords DEF TypeOK, ConsoleRead
<1>3. CASE ConsoleDecide(d)
  <2>1. deciding[d].user \in User /\ deciding[d].verdict \in Decisions
    BY <1>3, Shapes DEF TypeOK, ConsoleDecide
  <2> QED
    BY <1>0, <1>3, <2>1, DecideTypes DEF TypeOK, ConsoleDecide
<1>4. CASE DispatchBuild(d)
  <2>1. [what |-> "implement", approval |-> deciding[d].row] \in Jobs
    BY <1>0, <1>4, NewRecords DEF DispatchBuild
  <2>2. deciding' \in [Decider -> Errands]
    BY <1>4, NewRecords DEF TypeOK, DispatchBuild
  <2> QED
    BY <1>4, <2>1, <2>2, EnqueueTypes DEF TypeOK, DispatchBuild
<1>5. CASE DispatchApi(d)
  <2>1. executed' \in [ApprovalIds -> Nat]
    BY <1>0, <1>5, CountUp DEF TypeOK, DispatchApi
  <2> QED
    BY <1>5, <2>1, NewRecords DEF TypeOK, DispatchApi
<1>6. CASE DispatchLost(d)
  BY <1>6, NewRecords DEF TypeOK, DispatchLost, Raises, Crashes
<1> QED
  BY <1>1, <1>2, <1>3, <1>4, <1>5, <1>6 DEF Click, FinishDecision

LEMMA StutterTypes == ASSUME SafeInv, UNCHANGED vars PROVE TypeOK'
BY DEF SafeInv, TypeOK, vars, jobVars, queueVars, rowVars, history, faults

-----------------------------------------------------------------------------
(* The steps, as the rest of the invariant sees them                       *)

\* The handler goes from one stage to another and does nothing else.
MovesOn(h) ==
  /\ at[h] # "idle" /\ (Calm' => Calm)
  /\ \E stage \in {"reply", "returned", "raised"} : GoTo(h, stage) /\ (stage = "raised" => ~Calm')
  /\ UNCHANGED << queueVars, made, jobVars, rowVars, deciding, history >>

\* The worker settles its job, or puts it back after an exception.
LetsGo(h) ==
  /\ \E j \in JobIds, p \in {"waiting", "done", "failed"} :
       Queue!LetGo(h, j, p) /\ (p # "done" => at[h] = "raised")
  /\ GoTo(h, "idle") /\ (Calm' => Calm)
  /\ UNCHANGED << made, jobVars, rowVars, deciding, history >>

\* An admin decides an existing row, in Slack or in the console.
Decides(d) ==
  /\ \E u \in Admin, a \in ApprovalIds, verdict \in Decisions :
       a < nextApproval /\ Decide(d, u, a, verdict)
  /\ Calm' => Calm
  /\ UNCHANGED << queueVars, made, jobVars, at, nextApproval, history >>

\* The console has read a pending row and is about to decide it.
ReadsRow(d) ==
  /\ \E u \in Admin, a \in ApprovalIds, verdict \in Decisions :
       /\ a < nextApproval
       /\ deciding' = [deciding EXCEPT ![d] = [doing |-> "decide", row |-> a, verdict |-> verdict, user |-> u]]
  /\ Calm' => Calm
  /\ UNCHANGED << queueVars, made, jobVars, at, rowVars, history >>

HandStep(h) == \/ TakeJob(h) \/ FileDraft(h) \/ RunPipeline(h) \/ Publish(h)
               \/ MovesOn(h) \/ LetsGo(h)    \/ LoseHand(h)

DeciderStep(d) == \/ Decides(d) \/ ReadsRow(d) \/ DispatchBuild(d) \/ DispatchApi(d)
                  \/ DispatchLost(d)

LEMMA HandSteps == ASSUME TypeOK, NEW h \in Hand, Handle(h) \/ LoseHand(h) PROVE HandStep(h)
<1>1. CASE RefuseDraft(h) \/ ImplementRefused(h) \/ PipelineEnds(h) \/ Reply(h)
  BY <1>1 DEF RefuseDraft, ImplementRefused, PipelineEnds, Reply, MovesOn, HandStep, faults, Calm
<1>2. CASE DraftRaises(h) \/ ReplyRaises(h) \/ CompleteRaises(h)
  BY <1>2 DEF DraftRaises, ReplyRaises, CompleteRaises, MovesOn, HandStep, Raises, SlackRaises, TypeOK, Calm
<1>3. CASE CompleteJob(h)
  BY <1>3 DEF CompleteJob, Queue!Finish, LetsGo, HandStep, faults, Calm
<1>4. CASE RetryOrGiveUp(h)
  BY <1>4 DEF RetryOrGiveUp, Queue!PutBack, Queue!GiveUp, LetsGo, HandStep, faults, Calm
<1> QED
  BY <1>1, <1>2, <1>3, <1>4 DEF Handle, HandStep

LEMMA DeciderSteps ==
  ASSUME SafeInv, NEW d \in Decider, Click(d) \/ FinishDecision(d) \/ DispatchLost(d)
  PROVE  DeciderStep(d)
<1>1. ASSUME NEW u \in User, NEW a \in ApprovalIds, NEW verdict \in Decisions,
             SlackClick(d, u, a, verdict) \/ ConsoleRead(d, u, a, verdict)
      PROVE  DeciderStep(d)
  BY <1>1 DEF SlackClick, ConsoleRead, Decides, ReadsRow, DeciderStep, faults, Calm
<1>2. CASE ConsoleDecide(d)
  <2>1. /\ deciding[d].row \in ApprovalIds /\ deciding[d].row < nextApproval
        /\ deciding[d].verdict \in Decisions /\ deciding[d].user \in Admin
    BY <1>2, Shapes DEF SafeInv, TypeOK, Numbered, Gated, ConsoleDecide
  <2> QED
    BY <1>2, <2>1 DEF ConsoleDecide, Decides, DeciderStep, faults, Calm
<1> QED
  BY <1>1, <1>2 DEF Click, FinishDecision, DeciderStep

LEMMA Steps ==
  ASSUME SafeInv, [Next]_vars
  PROVE  \/ \E c \in Call : StartDraft(c) \/ FileApi(c)
         \/ \E h \in Hand : HandStep(h)
         \/ SweepOrphans
         \/ \E d \in Decider : DeciderStep(d)
         \/ UNCHANGED vars
BY HandSteps, DeciderSteps DEF Next, Ask, SafeInv

LEMMA TypeStep == ASSUME SafeInv, [Next]_vars PROVE TypeOK'
BY AskTypes, HandleTypes, SweepTypes, DeciderTypes, StutterTypes DEF Next

-----------------------------------------------------------------------------
(* Hands                                                                   *)

LEMMA EnqueueHands == ASSUME SafeInv, NEW item, Enqueue(item), UNCHANGED at PROVE HandsOK'
<1>1. \A h \in Hand : has[h] # nextJob
  BY DEF SafeInv, TypeOK, HandsOK, Enqueue, Queue!Submit, JobIds
<1> QED
  BY <1>1 DEF SafeInv, TypeOK, HandsOK, Enqueue, Queue!Submit

LEMMA HandsStep == ASSUME SafeInv, TypeOK', [Next]_vars PROVE HandsOK'
<1> USE DEF SafeInv, HandsOK, queueVars, jobVars
<1>1. ASSUME NEW c \in Call, StartDraft(c) PROVE HandsOK'
  BY <1>1, EnqueueHands DEF StartDraft
<1>2. ASSUME NEW c \in Call, FileApi(c) PROVE HandsOK'
  BY <1>2 DEF FileApi
<1>3. ASSUME NEW h \in Hand, HandStep(h) PROVE HandsOK'
  <2>1. CASE TakeJob(h)
    BY <2>1 DEF TakeJob, Queue!Take, Queue!InSomeHand, GoTo, TypeOK
  <2>2. CASE FileDraft(h) \/ MovesOn(h)
    <3>1. /\ UNCHANGED << phase, has, job >>
          /\ \A g \in Hand : at'[g] = "building" => at[g] = "building"
      <4>1. CASE FileDraft(h)
        BY <4>1 DEF FileDraft, GoTo, TypeOK
      <4>2. CASE MovesOn(h)
        BY <4>2 DEF MovesOn, GoTo, TypeOK
      <4> QED
        BY <2>2, <4>1, <4>2
    <3> QED
      BY <3>1
  <2>3. CASE RunPipeline(h) \/ Publish(h)
    BY <2>3 DEF RunPipeline, Publish, Working, GoTo, TypeOK
  <2>4. CASE LetsGo(h)
    BY <2>4 DEF LetsGo, Queue!LetGo, GoTo, TypeOK
  <2>5. CASE LoseHand(h)
    BY <2>5 DEF LoseHand, Queue!Lose, GoTo, TypeOK
  <2> QED
    BY <1>3, <2>1, <2>2, <2>3, <2>4, <2>5 DEF HandStep
<1>4. CASE SweepOrphans
  <2>1. ASSUME NEW h \in Hand, has[h] # 0 PROVE phase'[has[h]] = phase[has[h]]
    <3>1. PICK lost \in SUBSET {j \in JobIds : phase[j] = "taken" /\ ~ \E g \in Hand : has[g] = j} :
                 phase' = [j \in JobIds |-> IF j \in lost THEN "failed" ELSE phase[j]]
      BY <1>4 DEF SweepOrphans, Queue!WriteOff, Queue!InSomeHand
    <3>2. \A j \in lost : ~ \E g \in Hand : has[g] = j
      BY <3>1
    <3>3. has[h] \in JobIds
      BY <2>1 DEF TypeOK
    <3> QED
      BY <3>1, <3>2, <3>3
  <2> QED
    BY <1>4, <2>1 DEF SweepOrphans, Queue!WriteOff
<1>5. ASSUME NEW d \in Decider, DeciderStep(d) PROVE HandsOK'
  <2>1. CASE DispatchBuild(d)
    BY <2>1, EnqueueHands DEF DispatchBuild
  <2>2. CASE Decides(d) \/ ReadsRow(d) \/ DispatchApi(d) \/ DispatchLost(d)
    BY <2>2 DEF Decides, ReadsRow, DispatchApi, DispatchLost
  <2> QED
    BY <1>5, <2>1, <2>2 DEF DeciderStep
<1>6. CASE UNCHANGED vars
  BY <1>6 DEF vars
<1> QED
  BY <1>1, <1>2, <1>3, <1>4, <1>5, <1>6, Steps

-----------------------------------------------------------------------------
(* Numbers                                                                 *)

LEMMA EnqueueNumbers ==
  ASSUME SafeInv, NEW item \in Jobs, item # NoJob, Enqueue(item)
  PROVE  /\ \A j \in JobIds : job'[j] = NoJob <=> j >= nextJob'
         /\ \A j \in JobIds : phase'[j] = "none" => tries'[j] = 0
BY DEF SafeInv, TypeOK, Numbered, Enqueue, Queue!Submit, JobIds

LEMMA RequestNumbers ==
  ASSUME SafeInv, NEW c \in Call, CreateRequest(c), UNCHANGED deciding
  PROVE  /\ \A a \in ApprovalIds : approval'[a].status = "none" <=> a >= nextApproval'
         /\ \A d \in Decider : deciding'[d].doing # "idle" => deciding'[d].row < nextApproval'
<1>1. \A a \in ApprovalIds : approval'[a].status = "none" <=> a >= nextApproval'
  BY DEF SafeInv, TypeOK, Numbered, CreateRequest, ApprovalIds
<1>2. \A d \in Decider : deciding[d].doing # "idle" => deciding[d].row \in ApprovalIds
  BY Shapes DEF SafeInv, TypeOK
<1> QED
  BY <1>1, <1>2 DEF SafeInv, TypeOK, Numbered, CreateRequest, ApprovalIds

LEMMA NumberedStep == ASSUME SafeInv, TypeOK', [Next]_vars PROVE Numbered'
<1> USE DEF SafeInv, queueVars, jobVars, rowVars
<1>1. ASSUME NEW c \in Call, StartDraft(c) PROVE Numbered'
  <2>1. [what |-> "draft", call |-> c] # NoJob
    BY DEF NoJob
  <2> QED
    BY <1>1, <2>1, EnqueueNumbers, NewRecords DEF StartDraft, Numbered
<1>2. ASSUME NEW c \in Call, FileApi(c) PROVE Numbered'
  BY <1>2, RequestNumbers DEF FileApi, Numbered
<1>3. ASSUME NEW h \in Hand, HandStep(h) PROVE Numbered'
  <2>1. CASE TakeJob(h)
    BY <2>1 DEF TakeJob, Queue!Take, TypeOK, Numbered
  <2>2. CASE FileDraft(h)
    BY <2>2, InHand, RequestNumbers DEF FileDraft, Numbered
  <2>3. CASE MovesOn(h) \/ RunPipeline(h) \/ Publish(h)
    BY <2>3 DEF MovesOn, RunPipeline, Publish, Numbered
  <2>4. CASE LetsGo(h) \/ LoseHand(h)
    BY <2>4 DEF LetsGo, LoseHand, Queue!LetGo, Queue!Lose, TypeOK, Numbered
  <2> QED
    BY <1>3, <2>1, <2>2, <2>3, <2>4 DEF HandStep
<1>4. CASE SweepOrphans
  BY <1>4 DEF SweepOrphans, Queue!WriteOff, TypeOK, Numbered
<1>5. ASSUME NEW d \in Decider, DeciderStep(d) PROVE Numbered'
  <2>0. Idle.doing = "idle"
    BY DEF Idle
  <2>1. CASE DispatchBuild(d)
    <3>1. [what |-> "implement", approval |-> deciding[d].row] # NoJob
      BY DEF NoJob
    <3>2. [what |-> "implement", approval |-> deciding[d].row] \in Jobs
      BY <2>1, Shapes, NewRecords DEF DispatchBuild, TypeOK
    <3>3. /\ \A j \in JobIds : job'[j] = NoJob <=> j >= nextJob'
          /\ \A j \in JobIds : phase'[j] = "none" => tries'[j] = 0
      BY <2>1, <3>1, <3>2, EnqueueNumbers DEF DispatchBuild, Numbered
    <3> QED
      BY <2>0, <2>1, <3>3 DEF DispatchBuild, TypeOK, Numbered
  <2>2. CASE Decides(d)
    <3> PICK u \in Admin, a \in ApprovalIds, verdict \in Decisions :
               a < nextApproval /\ Decide(d, u, a, verdict)
      BY <2>2 DEF Decides
    <3>1. \A b \in ApprovalIds : approval'[b].status = "none" <=> approval[b].status = "none"
      BY DEF Decide, Decisions, TypeOK
    <3>2. \A e \in Decider : deciding'[e].doing # "idle" =>
            deciding'[e] = deciding[e] \/ deciding'[e].row = a
      BY <2>0 DEF Decide, TypeOK
    <3> QED
      BY <2>2, <3>1, <3>2 DEF Decides, Numbered
  <2>3. CASE ReadsRow(d)
    BY <2>3 DEF ReadsRow, TypeOK, Numbered
  <2>4. CASE DispatchApi(d) \/ DispatchLost(d)
    BY <2>0, <2>4 DEF DispatchApi, DispatchLost, TypeOK, Numbered
  <2> QED
    BY <1>5, <2>1, <2>2, <2>3, <2>4 DEF DeciderStep
<1>6. CASE UNCHANGED vars
  BY <1>6 DEF vars, Numbered
<1> QED
  BY <1>1, <1>2, <1>3, <1>4, <1>5, <1>6, Steps

-----------------------------------------------------------------------------
(* The gate                                                                *)

LEMMA RequestGate == ASSUME SafeInv, NEW c \in Call, Kind[c] = "api" \/ c \in Allowed, CreateRequest(c),
                            UNCHANGED deciding
                     PROVE  Gated'
BY DEF SafeInv, TypeOK, Gated, CreateRequest, Decisions

LEMMA GatedStep == ASSUME SafeInv, [Next]_vars PROVE Gated'
<1> USE DEF SafeInv, rowVars
<1>1. ASSUME NEW c \in Call, StartDraft(c) PROVE Gated'
  BY <1>1 DEF StartDraft, Gated
<1>2. ASSUME NEW c \in Call, FileApi(c) PROVE Gated'
  BY <1>2, RequestGate DEF FileApi
<1>3. ASSUME NEW h \in Hand, HandStep(h) PROVE Gated'
  <2>1. CASE FileDraft(h)
    BY <2>1, InHand, RequestGate DEF FileDraft
  <2>2. CASE TakeJob(h) \/ RunPipeline(h) \/ Publish(h) \/ MovesOn(h) \/ LetsGo(h) \/ LoseHand(h)
    BY <2>2 DEF TakeJob, RunPipeline, Publish, MovesOn, LetsGo, LoseHand, Gated
  <2> QED
    BY <1>3, <2>1, <2>2 DEF HandStep
<1>4. CASE SweepOrphans
  BY <1>4 DEF SweepOrphans, Gated
<1>5. ASSUME NEW d \in Decider, DeciderStep(d) PROVE Gated'
  <2>0. Idle.doing = "idle"
    BY DEF Idle
  <2>1. CASE Decides(d)
    <3> PICK u \in Admin, a \in ApprovalIds, verdict \in Decisions : Decide(d, u, a, verdict)
      BY <2>1 DEF Decides
    <3>1. \A e \in Decider : deciding'[e].doing = "decide" => deciding'[e] = deciding[e]
      BY <2>0 DEF Decide, TypeOK
    <3>2. \A b \in ApprovalIds :
            \/ approval'[b] = approval[b]
            \/ /\ approval[b].status = "pending" /\ approval'[b].status \in Decisions
               /\ approval'[b].call = approval[b].call /\ approval'[b].by \in Admin
      BY DEF Decide, TypeOK
    <3> QED
      BY <3>1, <3>2 DEF Gated, Decisions
  <2>2. CASE ReadsRow(d)
    BY <2>2 DEF ReadsRow, TypeOK, Gated
  <2>3. CASE DispatchBuild(d) \/ DispatchApi(d) \/ DispatchLost(d)
    BY <2>0, <2>3 DEF DispatchBuild, DispatchApi, DispatchLost, TypeOK, Gated
  <2> QED
    BY <1>5, <2>1, <2>2, <2>3 DEF DeciderStep
<1>6. CASE UNCHANGED vars
  BY <1>6 DEF vars, Gated
<1> QED
  BY <1>1, <1>2, <1>3, <1>4, <1>5, <1>6, Steps

-----------------------------------------------------------------------------
(* Dispatch                                                                *)

LEMMA DraftJobs == ASSUME SafeInv, NEW c \in Call, Enqueue([what |-> "draft", call |-> c])
                   PROVE  \A a \in ApprovalIds : ImplementJobs(a)' = ImplementJobs(a)
<1>1. nextJob \in JobIds /\ job[nextJob].what = "none"
  BY DEF SafeInv, Numbered, Enqueue, NoJob, JobIds
<1> QED
  BY <1>1 DEF SafeInv, TypeOK, Enqueue, ImplementJobs

LEMMA BuildJobs ==
  ASSUME SafeInv, NEW a \in ApprovalIds, Enqueue([what |-> "implement", approval |-> a])
  PROVE  /\ ImplementJobs(a)' = ImplementJobs(a) \union {nextJob}
         /\ \A b \in ApprovalIds : b # a => ImplementJobs(b)' = ImplementJobs(b)
<1>1. nextJob \in JobIds /\ job[nextJob].what = "none"
  BY DEF SafeInv, Numbered, Enqueue, NoJob, JobIds
<1> QED
  BY <1>1 DEF SafeInv, TypeOK, Enqueue, ImplementJobs

LEMMA OneDispatchFrame ==
  ASSUME OneDispatch, UNCHANGED << approval, executed >>,
         \A a \in ApprovalIds : ImplementJobs(a)' = ImplementJobs(a),
         \A d \in Decider : deciding'[d] = deciding[d] \/ deciding'[d].doing # "dispatch"
  PROVE  OneDispatch'
<1> SUFFICES ASSUME NEW a \in ApprovalIds PROVE OneDispatchOf(a)'
  BY DEF OneDispatch
<1>1. OneDispatchOf(a) /\ ImplementJobs(a)' = ImplementJobs(a)
  BY DEF OneDispatch
<1>2. \A d \in Decider : Dispatching(d, a)' => Dispatching(d, a)
  BY DEF Dispatching
<1>3. Acted(a)' <=> Acted(a)
  BY DEF Acted
<1> QED
  BY <1>1, <1>2, <1>3 DEF OneDispatchOf

\* A new row is pending: nobody dispatches it or has acted on it.
LEMMA RequestDispatch == ASSUME SafeInv, NEW c \in Call, CreateRequest(c), UNCHANGED << job, executed, deciding >>
                         PROVE  OneDispatch'
<1>1. nextApproval \in ApprovalIds /\ approval[nextApproval].status = "none"
  BY DEF SafeInv, Numbered, CreateRequest, ApprovalIds
<1>2. \A a \in ApprovalIds : approval[a].status = "approved" => approval'[a].status = "approved"
  BY <1>1 DEF SafeInv, TypeOK, CreateRequest
<1>3. \A a \in ApprovalIds : ImplementJobs(a)' = ImplementJobs(a)
  BY DEF ImplementJobs
<1> QED
  BY <1>2, <1>3 DEF SafeInv, OneDispatch, OneDispatchOf, Acted, Dispatching

LEMMA DecideDispatch == ASSUME SafeInv, NEW d \in Decider, Decides(d) PROVE OneDispatch'
<1> USE DEF SafeInv
<1> PICK u \in Admin, a \in ApprovalIds, verdict \in Decisions : Decide(d, u, a, verdict)
  BY DEF Decides
<1>0. Idle.doing = "idle"
  BY DEF Idle
<1>1. \A b \in ApprovalIds : ImplementJobs(b)' = ImplementJobs(b)
  BY DEF Decides, jobVars, ImplementJobs
<1>2. \A b \in ApprovalIds : Acted(b)' <=> Acted(b)
  BY <1>1 DEF Decides, history, Acted
<1>3. CASE approval[a].status = "pending" /\ verdict = "approved"
  <2>1. ~Acted(a) /\ \A e \in Decider : ~Dispatching(e, a)
    BY <1>3 DEF OneDispatch, OneDispatchOf
  <2>2. /\ approval'[a].status = "approved"
        /\ \A b \in ApprovalIds : b # a => approval'[b] = approval[b]
    BY <1>3 DEF Decide, TypeOK
  <2>3. /\ deciding'[d] = [doing |-> "dispatch", row |-> a]
        /\ \A e \in Decider : e # d => deciding'[e] = deciding[e]
    BY <1>3 DEF Decide, TypeOK
  <2>4. \A e \in Decider, b \in ApprovalIds :
          Dispatching(e, b)' <=> IF e = d THEN b = a ELSE Dispatching(e, b)
    BY <2>3 DEF Dispatching
  <2> SUFFICES ASSUME NEW b \in ApprovalIds PROVE OneDispatchOf(b)'
    BY DEF OneDispatch
  <2>5. OneDispatchOf(b) /\ UNCHANGED executed
    BY DEF OneDispatch, Decides, history
  <2>6. CASE b = a
    <3>1. Acted(a)' <=> Acted(a)
      BY <1>2
    <3>2. ImplementJobs(a)' = ImplementJobs(a)
      BY <1>1
    <3>3. ASSUME NEW e \in Decider, Dispatching(e, a)' PROVE e = d
      <4>1. Dispatching(e, a)' <=> IF e = d THEN a = a ELSE Dispatching(e, a)
        BY <2>4
      <4> QED
        BY <2>1, <3>3, <4>1
    <3> QED
      BY <2>1, <2>2, <2>5, <2>6, <3>1, <3>2, <3>3 DEF OneDispatchOf
  <2>7. CASE b # a
    <3>1. Acted(b)' <=> Acted(b)
      BY <1>2
    <3>2. ImplementJobs(b)' = ImplementJobs(b) /\ approval'[b] = approval[b]
      BY <1>1, <2>2, <2>7
    <3>3. \A e \in Decider : Dispatching(e, b)' => Dispatching(e, b)
      BY <2>4, <2>7
    <3> QED
      BY <2>5, <3>1, <3>2, <3>3 DEF OneDispatchOf
  <2> QED
    BY <2>6, <2>7
<1>4. CASE ~(approval[a].status = "pending" /\ verdict = "approved")
  <2>1. \A b \in ApprovalIds : approval[b].status = "approved" => approval'[b].status = "approved"
    BY <1>4 DEF Decide, TypeOK
  <2>2. \A e \in Decider : deciding'[e] = deciding[e] \/ deciding'[e] = Idle
    BY <1>4 DEF Decide, TypeOK
  <2>3. \A e \in Decider, b \in ApprovalIds : Dispatching(e, b)' => Dispatching(e, b)
    BY <1>0, <2>2 DEF Dispatching
  <2> QED
    <3> SUFFICES ASSUME NEW b \in ApprovalIds PROVE OneDispatchOf(b)'
      BY DEF OneDispatch
    <3>1. OneDispatchOf(b) /\ UNCHANGED executed
      BY DEF OneDispatch, Decides, history
    <3> QED
      BY <1>1, <1>2, <2>1, <2>3, <3>1 DEF OneDispatchOf
<1> QED
  BY <1>3, <1>4

\* The one request that may dispatch a row gives that right up as it uses it.
LEMMA BuildDispatch == ASSUME SafeInv, NEW d \in Decider, DispatchBuild(d) PROVE OneDispatch'
<1> USE DEF SafeInv
<1> PICK a \in ApprovalIds : a = deciding[d].row /\ Dispatching(d, a)
  BY Shapes DEF TypeOK, DispatchBuild, Dispatching
<1>0. Idle.doing = "idle"
  BY DEF Idle
<1>1. OneDispatchOf(a)
  BY DEF OneDispatch
<1>2. ~Acted(a) /\ approval[a].status = "approved"
  BY <1>1 DEF OneDispatchOf
<1>3. Enqueue([what |-> "implement", approval |-> a])
  BY <1>2 DEF DispatchBuild, Acted
<1>4. /\ ImplementJobs(a)' = {nextJob}
      /\ \A b \in ApprovalIds : b # a => ImplementJobs(b)' = ImplementJobs(b)
  BY <1>1, <1>2, <1>3, BuildJobs DEF Acted
<1>5. \A e \in Decider, b \in ApprovalIds : Dispatching(e, b)' => Dispatching(e, b) /\ e # d
  BY <1>0 DEF DispatchBuild, TypeOK, Dispatching
<1>6. \A e \in Decider : ~Dispatching(e, a)'
  BY <1>1, <1>5 DEF OneDispatchOf
<1>7. UNCHANGED << approval, executed >>
  BY DEF DispatchBuild, rowVars, history
<1> SUFFICES ASSUME NEW b \in ApprovalIds PROVE OneDispatchOf(b)'
  BY DEF OneDispatch
<1>8. CASE b = a
  BY <1>2, <1>4, <1>6, <1>7, <1>8 DEF OneDispatchOf, Acted, TypeOK
<1>9. CASE b # a
  <2>1. OneDispatchOf(b) /\ ImplementJobs(b)' = ImplementJobs(b)
    BY <1>4, <1>9 DEF OneDispatch
  <2> QED
    BY <1>5, <1>7, <2>1 DEF OneDispatchOf, Acted
<1> QED
  BY <1>8, <1>9

LEMMA ApiDispatch == ASSUME SafeInv, NEW d \in Decider, DispatchApi(d) PROVE OneDispatch'
<1> USE DEF SafeInv
<1> PICK a \in ApprovalIds : a = deciding[d].row /\ Dispatching(d, a)
  BY Shapes DEF TypeOK, DispatchApi, Dispatching
<1>0. Idle.doing = "idle"
  BY DEF Idle
<1>1. OneDispatchOf(a)
  BY DEF OneDispatch
<1>2. ~Acted(a) /\ approval[a].status = "approved"
  BY <1>1 DEF OneDispatchOf
<1>3. executed[a] = 0
  BY <1>1, <1>2 DEF Acted, TypeOK
<1>4. executed'[a] = 1 /\ \A b \in ApprovalIds : b # a => executed'[b] = executed[b]
  BY <1>1, <1>3 DEF DispatchApi, TypeOK
<1>5. \A b \in ApprovalIds : ImplementJobs(b)' = ImplementJobs(b)
  BY DEF DispatchApi, jobVars, ImplementJobs
<1>6. \A e \in Decider, b \in ApprovalIds : Dispatching(e, b)' => Dispatching(e, b) /\ e # d
  BY <1>0 DEF DispatchApi, TypeOK, Dispatching
<1>7. \A e \in Decider : ~Dispatching(e, a)'
  BY <1>1, <1>6 DEF OneDispatchOf
<1>8. UNCHANGED approval
  BY DEF DispatchApi, rowVars
<1> SUFFICES ASSUME NEW b \in ApprovalIds PROVE OneDispatchOf(b)'
  BY DEF OneDispatch
<1>9. CASE b = a
  <2>1. ImplementJobs(a) = {} /\ ImplementJobs(a)' = {}
    BY <1>2, <1>5 DEF Acted
  <2>2. executed'[a] <= 1 /\ approval'[a].status = "approved"
    BY <1>2, <1>4, <1>8
  <2> QED
    BY <1>7, <1>9, <2>1, <2>2 DEF OneDispatchOf
<1>10. CASE b # a
  <2>1. OneDispatchOf(b)
    BY DEF OneDispatch
  <2>2. Acted(b)' <=> Acted(b)
    BY <1>4, <1>5, <1>10 DEF Acted
  <2> QED
    BY <1>4, <1>5, <1>6, <1>8, <1>10, <2>1, <2>2 DEF OneDispatchOf
<1> QED
  BY <1>9, <1>10

LEMMA OneDispatchStep == ASSUME SafeInv, [Next]_vars PROVE OneDispatch'
<1> USE DEF SafeInv, queueVars, jobVars, rowVars, history
<1>1. ASSUME NEW c \in Call, StartDraft(c) PROVE OneDispatch'
  BY <1>1, DraftJobs, OneDispatchFrame DEF StartDraft
<1>2. ASSUME NEW c \in Call, FileApi(c) PROVE OneDispatch'
  BY <1>2, RequestDispatch DEF FileApi
<1>3. ASSUME UNCHANGED << job, approval, executed, deciding >> PROVE OneDispatch'
  BY <1>3, OneDispatchFrame DEF ImplementJobs
<1>4. ASSUME NEW h \in Hand, HandStep(h) PROVE OneDispatch'
  <2>1. CASE FileDraft(h)
    BY <2>1, InHand, RequestDispatch DEF FileDraft
  <2>2. CASE TakeJob(h) \/ RunPipeline(h) \/ Publish(h) \/ MovesOn(h) \/ LetsGo(h) \/ LoseHand(h)
    BY <1>3, <2>2 DEF TakeJob, RunPipeline, Publish, MovesOn, LetsGo, LoseHand
  <2> QED
    BY <1>4, <2>1, <2>2 DEF HandStep
<1>5. CASE SweepOrphans \/ UNCHANGED vars
  BY <1>3, <1>5 DEF SweepOrphans, vars
<1>6. ASSUME NEW d \in Decider, DeciderStep(d) PROVE OneDispatch'
  <2>1. CASE ReadsRow(d) \/ DispatchLost(d)
    <3>1. \A e \in Decider : deciding'[e] = deciding[e] \/ deciding'[e].doing # "dispatch"
      BY <2>1 DEF ReadsRow, DispatchLost, TypeOK, Idle
    <3>2. UNCHANGED << job, approval, executed >>
      BY <2>1 DEF ReadsRow, DispatchLost
    <3> QED
      BY <3>1, <3>2, OneDispatchFrame DEF ImplementJobs
  <2> QED
    BY <1>6, <2>1, DecideDispatch, BuildDispatch, ApiDispatch DEF DeciderStep
<1> QED
  BY <1>1, <1>2, <1>4, <1>5, <1>6, Steps

-----------------------------------------------------------------------------
(* Builds                                                                  *)

LEMMA CountedFrame ==
  ASSUME SafeInv, UNCHANGED << tries, builds, published, job >>,
         \A h \in Hand : \/ has'[h] = 0
                         \/ has'[h] = has[h] /\ (at'[h] \in {"begin", "building"} => at'[h] = at[h])
  PROVE  Counted'
<1>1. ASSUME NEW a \in ApprovalIds PROVE Costs(a)'
  BY DEF SafeInv, Counted, Costs, ImplementJobs
<1>2. ASSUME NEW j \in JobIds PROVE Attempts(j)'
  <2>1. Attempts(j)
    BY DEF SafeInv, Counted
  <2>2. \A h \in Hand : has'[h] = j => has[h] = j /\ (at'[h] \in {"begin", "building"} => at'[h] = at[h])
    BY IdFacts
  <2> QED
    BY <2>1, <2>2 DEF Attempts
<1> QED
  BY <1>1, <1>2 DEF Counted

\* A job that is enqueued was not tried yet and is in no hand.
LEMMA NewJob == ASSUME SafeInv, NEW item, Enqueue(item)
                PROVE  /\ nextJob \in JobIds /\ tries'[nextJob] = 0
                       /\ \A h \in Hand : has'[h] # nextJob
                       /\ \A j \in JobIds : j # nextJob => job'[j] = job[j] /\ tries'[j] = tries[j]
                       /\ job'[nextJob] = item
                       /\ UNCHANGED << tries, has >>
<1>1. \A h \in Hand : has[h] # nextJob
  BY DEF SafeInv, TypeOK, HandsOK, Enqueue, Queue!Submit, JobIds
<1> QED
  BY <1>1 DEF SafeInv, TypeOK, Numbered, Enqueue, Queue!Submit

LEMMA DraftCounted ==
  ASSUME SafeInv, NEW c \in Call, Enqueue([what |-> "draft", call |-> c]), UNCHANGED << at, builds, published >>
  PROVE  Counted'
<1>1. ASSUME NEW a \in ApprovalIds PROVE Costs(a)'
  BY DraftJobs DEF SafeInv, Counted, Costs
<1>2. ASSUME NEW j \in JobIds PROVE Attempts(j)'
  <2>1. CASE j = nextJob
    BY <2>1, NewJob DEF Attempts
  <2>2. CASE j # nextJob
    <3>1. Attempts(j)
      BY DEF SafeInv, Counted
    <3>2. job'[j] = job[j] /\ tries'[j] = tries[j] /\ UNCHANGED has
      BY <2>2, NewJob
    <3> QED
      BY <3>1, <3>2 DEF Attempts
  <2> QED
    BY <2>1, <2>2
<1> QED
  BY <1>1, <1>2 DEF Counted

\* No build has run for a row that was not acted on.
LEMMA BuildCounted ==
  ASSUME SafeInv, NEW a \in ApprovalIds, ~Acted(a), Enqueue([what |-> "implement", approval |-> a]),
         UNCHANGED << at, builds, published >>
  PROVE  Counted'
<1>1. ASSUME NEW b \in ApprovalIds PROVE Costs(b)'
  BY BuildJobs DEF SafeInv, Counted, Costs
<1>2. ASSUME NEW j \in JobIds PROVE Attempts(j)'
  <2>1. CASE j = nextJob
    <3>1. builds[a] = 0
      BY DEF SafeInv, TypeOK, Counted, Costs, Acted
    <3> QED
      BY <2>1, <3>1, NewJob DEF Attempts
  <2>2. CASE j # nextJob
    <3>1. Attempts(j)
      BY DEF SafeInv, Counted
    <3>2. job'[j] = job[j] /\ tries'[j] = tries[j] /\ UNCHANGED has
      BY <2>2, NewJob
    <3> QED
      BY <3>1, <3>2 DEF Attempts
  <2> QED
    BY <2>1, <2>2
<1> QED
  BY <1>1, <1>2 DEF Counted

\* A hand that runs the pipeline or publishes has the only job of its approval.
LEMMA OnlyJob ==
  ASSUME SafeInv, NEW h \in Hand, Working(h, "implement") \/ at[h] = "building"
  PROVE  /\ has[h] \in JobIds /\ job[has[h]].what = "implement"
         /\ \A j \in JobIds : job[j].what = "implement" /\ job[j].approval = ApprovalOf(h) => j = has[h]
         /\ \A g \in Hand : has[g] = has[h] => g = h
<1>1. has[h] \in JobIds /\ job[has[h]].what = "implement"
  BY InHand DEF SafeInv, TypeOK, HandsOK, Working
<1>2. ApprovalOf(h) \in ApprovalIds
  BY InHand DEF SafeInv
<1>3. has[h] \in ImplementJobs(ApprovalOf(h))
  BY <1>1 DEF ImplementJobs, ApprovalOf
<1>4. \A j \in ImplementJobs(ApprovalOf(h)) : j = has[h]
  BY <1>2, <1>3 DEF SafeInv, OneDispatch, OneDispatchOf
<1>5. \A g \in Hand : has[g] = has[h] => g = h
  BY <1>1, IdFacts DEF SafeInv, HandsOK
<1> QED
  BY <1>1, <1>4, <1>5 DEF ImplementJobs

LEMMA PipelineCounted == ASSUME SafeInv, NEW h \in Hand, RunPipeline(h) PROVE Counted'
<1> USE DEF SafeInv, jobVars, queueVars
<1> DEFINE a == ApprovalOf(h)
<1>1. a \in ApprovalIds /\ has[h] \in ImplementJobs(a)
  BY InHand, OnlyJob DEF RunPipeline, ImplementJobs, ApprovalOf
<1>2. /\ builds'[a] = builds[a] + 1 /\ builds[a] < tries[has[h]]
      /\ \A b \in ApprovalIds : b # a => builds'[b] = builds[b]
  BY <1>1 DEF RunPipeline, TypeOK, Counted, Attempts, ImplementJobs
<1>3. UNCHANGED << job, has, tries, published >>
  BY DEF RunPipeline
<1>4. at'[h] = "building" /\ \A g \in Hand : g # h => at'[g] = at[g]
  BY DEF RunPipeline, GoTo, TypeOK
<1>5. ASSUME NEW b \in ApprovalIds PROVE Costs(b)'
  BY <1>1, <1>2, <1>3 DEF TypeOK, Counted, Costs, ImplementJobs
<1>6. ASSUME NEW j \in JobIds PROVE Attempts(j)'
  <2>1. CASE j = has[h]
    <3>1. job[j].approval = a /\ \A g \in Hand : has[g] = j => g = h
      BY <2>1, OnlyJob DEF RunPipeline, ApprovalOf
    <3>0. Costs(a)
      BY <1>1 DEF Counted
    <3>2. published[a] <= builds[a] /\ published[a] \in Nat /\ builds[a] \in Nat /\ tries[j] \in Nat
      <4>1. published[a] \in Nat /\ builds[a] \in Nat
        BY <1>1 DEF TypeOK
      <4>2. tries[j] \in Nat
        BY DEF TypeOK
      <4> QED
        BY <3>0, <4>1, <4>2 DEF Costs
    <3> HIDE DEF a
    <3> QED
      BY <1>2, <1>3, <1>4, <2>1, <3>1, <3>2 DEF Attempts
  <2>2. CASE j # has[h] /\ job[j].what = "implement"
    <3>1. job[j].approval # a /\ job[j].approval \in ApprovalIds
      BY <2>2, OnlyJob, Shapes DEF RunPipeline, TypeOK
    <3>2. \A g \in Hand : has[g] = j => at'[g] = at[g]
      BY <1>4, <2>2
    <3>3. Attempts(j)
      BY DEF Counted
    <3> HIDE DEF a
    <3> QED
      BY <1>2, <1>3, <3>1, <3>2, <3>3 DEF Attempts
  <2>3. CASE job[j].what # "implement"
    BY <1>3, <2>3 DEF Attempts
  <2> QED
    BY <2>1, <2>2, <2>3
<1> QED
  BY <1>5, <1>6 DEF Counted

LEMMA PublishCounted == ASSUME SafeInv, NEW h \in Hand, Publish(h) PROVE Counted'
<1> USE DEF SafeInv, jobVars, queueVars
<1> DEFINE a == ApprovalOf(h)
<1>1. a \in ApprovalIds /\ has[h] \in ImplementJobs(a)
  BY InHand, OnlyJob DEF Publish, ImplementJobs, ApprovalOf
<1>2. /\ published'[a] = published[a] + 1 /\ published[a] < builds[a]
      /\ \A b \in ApprovalIds : b # a => published'[b] = published[b]
  BY <1>1 DEF Publish, TypeOK, Counted, Attempts, ImplementJobs
<1>3. UNCHANGED << job, has, tries, builds >>
  BY DEF Publish
<1>4. at'[h] = "reply" /\ \A g \in Hand : g # h => at'[g] = at[g]
  BY DEF Publish, GoTo, TypeOK
<1>5. ASSUME NEW b \in ApprovalIds PROVE Costs(b)'
  BY <1>1, <1>2, <1>3 DEF TypeOK, Counted, Costs, ImplementJobs
<1>6. ASSUME NEW j \in JobIds PROVE Attempts(j)'
  <2>1. CASE j = has[h]
    <3>1. \A g \in Hand : has[g] = j => g = h
      BY <2>1, OnlyJob DEF Publish
    <3> QED
      BY <1>3, <1>4, <2>1, <3>1 DEF Counted, Attempts
  <2>2. CASE j # has[h] /\ job[j].what = "implement"
    <3>1. job[j].approval # a /\ job[j].approval \in ApprovalIds
      BY <2>2, OnlyJob, Shapes DEF Publish, TypeOK
    <3>2. \A g \in Hand : has[g] = j => at'[g] = at[g]
      BY <1>4, <2>2
    <3>3. Attempts(j)
      BY DEF Counted
    <3> HIDE DEF a
    <3> QED
      BY <1>2, <1>3, <3>1, <3>2, <3>3 DEF Attempts
  <2>3. CASE job[j].what # "implement"
    BY <1>3, <2>3 DEF Attempts
  <2> QED
    BY <2>1, <2>2, <2>3
<1> QED
  BY <1>5, <1>6 DEF Counted

LEMMA TakeCounted == ASSUME SafeInv, NEW h \in Hand, TakeJob(h) PROVE Counted'
<1> USE DEF SafeInv, jobVars
<1>1. PICK j \in JobIds : Queue!Take(h, j)
  BY DEF TakeJob
<1>2. UNCHANGED << job, builds, published >>
  BY DEF TakeJob, history
<1>3. /\ tries'[j] = tries[j] + 1 /\ \A k \in JobIds : k # j => tries'[k] = tries[k]
      /\ has'[h] = j /\ \A g \in Hand : g # h => has'[g] = has[g] /\ has[g] # j
  BY <1>1 DEF Queue!Take, Queue!InSomeHand, TypeOK
<1>4. at'[h] = "begin" /\ \A g \in Hand : g # h => at'[g] = at[g]
  BY DEF TakeJob, GoTo, TypeOK
<1>5. ASSUME NEW a \in ApprovalIds PROVE Costs(a)'
  BY <1>2 DEF Counted, Costs, ImplementJobs
<1>6. ASSUME NEW k \in JobIds PROVE Attempts(k)'
  <2>1. CASE k = j /\ job[j].what = "implement"
    <3>0. Attempts(j) /\ job[j].approval \in ApprovalIds
      BY <2>1, Shapes DEF TypeOK, Counted
    <3>1. builds[job[j].approval] \in Nat /\ tries[j] \in Nat /\ builds[job[j].approval] <= tries[j]
      <4>1. builds[job[j].approval] \in Nat
        BY <3>0 DEF TypeOK
      <4>2. tries[j] \in Nat
        BY DEF TypeOK
      <4> QED
        BY <2>1, <3>0, <4>1, <4>2 DEF Attempts
    <3> QED
      BY <1>2, <1>3, <1>4, <2>1, <3>1 DEF Attempts
  <2>2. CASE k # j
    <3>1. Attempts(k)
      BY DEF Counted
    <3>2. \A g \in Hand : has'[g] = k => has[g] = k /\ at'[g] = at[g]
      BY <1>3, <1>4, <2>2
    <3> QED
      BY <1>2, <1>3, <2>2, <3>1, <3>2 DEF Attempts
  <2>3. CASE job[k].what # "implement"
    BY <1>2, <2>3 DEF Attempts
  <2> QED
    BY <2>1, <2>2, <2>3
<1> QED
  BY <1>5, <1>6 DEF Counted

LEMMA CountedStep == ASSUME SafeInv, [Next]_vars PROVE Counted'
<1> USE DEF queueVars, jobVars, history
<1>1. ASSUME NEW c \in Call, StartDraft(c) PROVE Counted'
  BY <1>1, DraftCounted DEF StartDraft
<1>2. ASSUME UNCHANGED << tries, builds, published, job, has, at >> PROVE Counted'
  BY <1>2, CountedFrame
<1>3. ASSUME NEW h \in Hand, HandStep(h) PROVE Counted'
  <2>1. CASE FileDraft(h) \/ MovesOn(h)
    <3>1. /\ UNCHANGED << tries, builds, published, job, has >>
          /\ \E stage \in {"reply", "returned", "raised"} : at' = [at EXCEPT ![h] = stage]
      BY <2>1 DEF FileDraft, MovesOn, GoTo
    <3> PICK stage \in {"reply", "returned", "raised"} : at' = [at EXCEPT ![h] = stage]
      BY <3>1
    <3>2. \A g \in Hand : at'[g] = IF g = h THEN stage ELSE at[g]
      BY DEF SafeInv, TypeOK
    <3> QED
      BY <3>1, <3>2, CountedFrame
  <2>2. CASE LetsGo(h) \/ LoseHand(h)
    <3>1. /\ UNCHANGED << tries, builds, published, job >>
          /\ has' = [has EXCEPT ![h] = 0] /\ at' = [at EXCEPT ![h] = "idle"]
      BY <2>2 DEF LetsGo, LoseHand, Queue!LetGo, Queue!Lose, GoTo
    <3>2. \A g \in Hand : has'[g] = IF g = h THEN 0 ELSE has[g]
      BY <3>1 DEF SafeInv, TypeOK
    <3>3. \A g \in Hand : at'[g] = IF g = h THEN "idle" ELSE at[g]
      BY <3>1 DEF SafeInv, TypeOK
    <3> QED
      BY <3>1, <3>2, <3>3, CountedFrame
  <2> QED
    BY <1>3, <2>1, <2>2, PipelineCounted, PublishCounted, TakeCounted DEF HandStep
<1>4. ASSUME NEW d \in Decider, DeciderStep(d) PROVE Counted'
  <2>1. CASE DispatchBuild(d)
    <3>1. PICK a \in ApprovalIds : a = deciding[d].row /\ Dispatching(d, a)
      BY <2>1, Shapes DEF SafeInv, TypeOK, DispatchBuild, Dispatching
    <3>2. ~Acted(a)
      BY <3>1 DEF SafeInv, OneDispatch, OneDispatchOf
    <3>3. Enqueue([what |-> "implement", approval |-> a]) /\ UNCHANGED << at, builds, published >>
      BY <2>1, <3>1, <3>2 DEF DispatchBuild, Acted
    <3> QED
      BY <3>2, <3>3, BuildCounted
  <2>2. CASE Decides(d) \/ ReadsRow(d) \/ DispatchApi(d) \/ DispatchLost(d)
    BY <1>2, <2>2 DEF Decides, ReadsRow, DispatchApi, DispatchLost
  <2> QED
    BY <1>4, <2>1, <2>2 DEF DeciderStep
<1>5. CASE UNCHANGED vars \/ SweepOrphans \/ \E c \in Call : FileApi(c)
  BY <1>2, <1>5 DEF vars, SweepOrphans, Queue!WriteOff, FileApi
<1> QED
  BY <1>1, <1>3, <1>4, <1>5, Steps

-----------------------------------------------------------------------------
(* Without raised calls: one row per call, one try per job                 *)

LEMMA CalmBack == ASSUME SafeInv, [Next]_vars, Calm' PROVE Calm
<1> USE DEF Calm, faults
<1>1. ASSUME NEW c \in Call, StartDraft(c) \/ FileApi(c) PROVE Calm
  BY <1>1 DEF StartDraft, FileApi
<1>2. ASSUME NEW h \in Hand, HandStep(h) PROVE Calm
  BY <1>2 DEF HandStep, TakeJob, FileDraft, RunPipeline, Publish, MovesOn, LetsGo, LoseHand, Crashes
<1>3. CASE SweepOrphans \/ UNCHANGED vars
  BY <1>3 DEF SweepOrphans, vars
<1>4. ASSUME NEW d \in Decider, DeciderStep(d) PROVE Calm
  BY <1>4 DEF DeciderStep, Decides, ReadsRow, DispatchBuild, DispatchApi, DispatchLost, Raises, Crashes,
              SafeInv, TypeOK
<1> QED
  BY <1>1, <1>2, <1>3, <1>4, Steps

LEMMA TriedOnceFrame ==
  ASSUME TriedOnce, UNCHANGED tries,
         \A h \in Hand : at'[h] = "raised" => at[h] = "raised",
         \A j \in JobIds : phase'[j] = "waiting" => phase[j] = "waiting"
  PROVE  TriedOnce'
BY DEF TriedOnce

LEMMA EnqueueTriedOnce == ASSUME SafeInv, TriedOnce, NEW item, Enqueue(item), UNCHANGED at PROVE TriedOnce'
<1>1. \A j \in JobIds : j # nextJob => phase'[j] = phase[j]
  BY DEF SafeInv, TypeOK, Enqueue, Queue!Submit
<1> QED
  BY <1>1, NewJob DEF TriedOnce

LEMMA TakeTriedOnce == ASSUME SafeInv, TriedOnce, NEW h \in Hand, TakeJob(h) PROVE TriedOnce'
<1>1. PICK j \in JobIds : Queue!Take(h, j)
  BY DEF TakeJob
<1>2. tries[j] = 0
  BY <1>1 DEF TriedOnce, Queue!Take
<1>3. /\ tries'[j] = 1 /\ phase'[j] = "taken"
      /\ \A k \in JobIds : k # j => tries'[k] = tries[k] /\ phase'[k] = phase[k]
  BY <1>1, <1>2 DEF SafeInv, TypeOK, Queue!Take
<1>4. \A g \in Hand : at'[g] = IF g = h THEN "begin" ELSE at[g]
  BY DEF SafeInv, TypeOK, TakeJob, GoTo
<1> QED
  BY <1>3, <1>4 DEF TriedOnce

LEMMA TriedOnceStep == ASSUME SafeInv, [Next]_vars, Calm', TriedOnce PROVE TriedOnce'
<1> USE DEF queueVars
<1>1. ASSUME NEW c \in Call, StartDraft(c) PROVE TriedOnce'
  BY <1>1, EnqueueTriedOnce DEF StartDraft
<1>2. ASSUME UNCHANGED << queueVars, at >> PROVE TriedOnce'
  BY <1>2, TriedOnceFrame
<1>3. ASSUME NEW h \in Hand, HandStep(h) PROVE TriedOnce'
  <2>1. ASSUME NEW stage \in {"idle", "building", "reply", "returned"}, GoTo(h, stage), UNCHANGED queueVars
        PROVE  TriedOnce'
    <3>1. \A g \in Hand : at'[g] = IF g = h THEN stage ELSE at[g]
      BY <2>1 DEF SafeInv, TypeOK, GoTo
    <3> QED
      BY <2>1, <3>1, TriedOnceFrame
  <2>2. CASE FileDraft(h) \/ RunPipeline(h) \/ Publish(h) \/ MovesOn(h)
    BY <2>1, <2>2 DEF FileDraft, RunPipeline, Publish, MovesOn
  <2>3. CASE LetsGo(h)
    <3>1. PICK j \in JobIds : Queue!LetGo(h, j, "done")
      BY <2>3 DEF LetsGo, TriedOnce
    <3>2. \A k \in JobIds : phase'[k] = IF k = j THEN "done" ELSE phase[k]
      BY <3>1 DEF SafeInv, TypeOK, Queue!LetGo
    <3>3. \A g \in Hand : at'[g] = IF g = h THEN "idle" ELSE at[g]
      BY <2>3 DEF SafeInv, TypeOK, LetsGo, GoTo
    <3>4. UNCHANGED tries
      BY <3>1 DEF Queue!LetGo
    <3> QED
      BY <3>2, <3>3, <3>4, TriedOnceFrame
  <2>4. CASE LoseHand(h)
    <3>1. \A g \in Hand : at'[g] = IF g = h THEN "idle" ELSE at[g]
      BY <2>4 DEF SafeInv, TypeOK, LoseHand, GoTo
    <3> QED
      BY <2>4, <3>1, TriedOnceFrame DEF LoseHand, Queue!Lose
  <2> QED
    BY <1>3, <2>2, <2>3, <2>4, TakeTriedOnce DEF HandStep
<1>4. CASE SweepOrphans
  <2>1. \A j \in JobIds : phase'[j] = phase[j] \/ phase'[j] = "failed"
    BY <1>4 DEF SweepOrphans, Queue!WriteOff
  <2> QED
    BY <1>4, <2>1, TriedOnceFrame DEF SweepOrphans, Queue!WriteOff
<1>5. ASSUME NEW d \in Decider, DeciderStep(d) PROVE TriedOnce'
  <2>1. CASE DispatchBuild(d)
    BY <1>2, <2>1, EnqueueTriedOnce DEF DispatchBuild
  <2>2. CASE Decides(d) \/ ReadsRow(d) \/ DispatchApi(d) \/ DispatchLost(d)
    BY <1>2, <2>2 DEF Decides, ReadsRow, DispatchApi, DispatchLost
  <2> QED
    BY <1>5, <2>1, <2>2 DEF DeciderStep
<1>6. CASE UNCHANGED vars \/ \E c \in Call : FileApi(c)
  BY <1>2, <1>6 DEF vars, FileApi
<1> QED
  BY <1>1, <1>3, <1>4, <1>5, <1>6, Steps

LEMMA NewRow == ASSUME SafeInv, NEW c \in Call, CreateRequest(c)
                PROVE  /\ RowsFor(c)' = RowsFor(c) \union {nextApproval}
                       /\ \A e \in Call : e # c => RowsFor(e)' = RowsFor(e)
<1>1. nextApproval \in ApprovalIds /\ approval[nextApproval].status = "none"
  BY DEF SafeInv, Numbered, CreateRequest, ApprovalIds
<1>2. \A a \in ApprovalIds :
        approval'[a] = IF a = nextApproval THEN [status |-> "pending", call |-> c] ELSE approval[a]
  BY DEF SafeInv, TypeOK, CreateRequest
<1>3. \A a \in ApprovalIds, e \in Call :
        approval'[a].status # "none" /\ approval'[a].call = e
          <=> \/ a = nextApproval /\ e = c
              \/ approval[a].status # "none" /\ approval[a].call = e
  BY <1>1, <1>2
<1> QED
  BY <1>1, <1>3 DEF RowsFor

LEMMA NewDraft == ASSUME SafeInv, NEW c \in Call, Enqueue([what |-> "draft", call |-> c])
                  PROVE  /\ DraftJobsOf(c)' = DraftJobsOf(c) \union {nextJob}
                         /\ \A e \in Call : e # c => DraftJobsOf(e)' = DraftJobsOf(e)
<1>1. job[nextJob].what = "none"
  BY DEF SafeInv, Numbered, Enqueue, NoJob, JobIds
<1>2. /\ nextJob \in JobIds
      /\ \A j \in JobIds : job'[j] = IF j = nextJob THEN [what |-> "draft", call |-> c] ELSE job[j]
  BY NewJob
<1>3. ASSUME NEW e \in Call, NEW j \in JobIds
      PROVE  j \in DraftJobsOf(e)' <=> j \in DraftJobsOf(e) \/ (j = nextJob /\ e = c)
  <2>1. CASE j = nextJob
    <3>1. job'[j] = [what |-> "draft", call |-> c]
      BY <1>2, <2>1
    <3> QED
      BY <1>1, <2>1, <3>1 DEF DraftJobsOf
  <2>2. CASE j # nextJob
    <3>1. job'[j] = job[j]
      BY <1>2, <2>2
    <3> QED
      BY <2>2, <3>1 DEF DraftJobsOf
  <2> QED
    BY <2>1, <2>2
<1>4. \A e \in Call : DraftJobsOf(e) \subseteq JobIds /\ DraftJobsOf(e)' \subseteq JobIds
  BY DEF DraftJobsOf
<1> QED
  BY <1>2, <1>3, <1>4

LEMMA NewBuild == ASSUME SafeInv, NEW a \in ApprovalIds, Enqueue([what |-> "implement", approval |-> a])
                  PROVE  \A c \in Call : DraftJobsOf(c)' = DraftJobsOf(c)
<1>1. job[nextJob].what = "none"
  BY DEF SafeInv, Numbered, Enqueue, NoJob, JobIds
<1>2. job'[nextJob].what = "implement"
  BY NewJob
<1>3. \A j \in JobIds : j # nextJob => job'[j] = job[j]
  BY NewJob
<1> QED
  BY <1>1, <1>2, <1>3 DEF DraftJobsOf

LEMMA OneRowFrame ==
  ASSUME NEW c \in Call, OneRowOf(c), UNCHANGED made,
         DraftJobsOf(c)' = DraftJobsOf(c), RowsFor(c)' = RowsFor(c),
         \A j \in DraftJobsOf(c) :
           /\ phase'[j] = "waiting" => phase[j] = "waiting"
           /\ \A h \in Hand : has'[h] = j /\ at'[h] = "begin" => has[h] = j /\ at[h] = "begin"
  PROVE  OneRowOf(c)'
BY DEF OneRowOf

\* Decisions leave a row with its call.
LEMMA DecideRows == ASSUME SafeInv, NEW d \in Decider, Decides(d)
                    PROVE  \A c \in Call : RowsFor(c)' = RowsFor(c)
<1> PICK u \in Admin, a \in ApprovalIds, verdict \in Decisions : Decide(d, u, a, verdict)
  BY DEF Decides
<1>1. \A b \in ApprovalIds :
        \/ approval'[b] = approval[b]
        \/ /\ approval[b].status # "none" /\ approval'[b].status # "none"
           /\ approval'[b].call = approval[b].call
  BY DEF SafeInv, TypeOK, Decide, Decisions
<1> QED
  BY <1>1 DEF RowsFor

LEMMA StartOneRow == ASSUME SafeInv, NEW c \in Call, StartDraft(c), AllOneRow PROVE AllOneRow'
<1> SUFFICES ASSUME NEW e \in Call PROVE OneRowOf(e)'
  BY DEF AllOneRow
<1>1. OneRowOf(e) /\ Enqueue([what |-> "draft", call |-> c])
  BY DEF AllOneRow, StartDraft
<1>2. RowsFor(e)' = RowsFor(e)
  BY DEF StartDraft, rowVars, RowsFor
<1>3. CASE e = c
  <2>1. DraftJobsOf(c) = {} /\ RowsFor(c) = {}
    BY <1>1, <1>3 DEF OneRowOf, StartDraft
  <2>2. DraftJobsOf(c)' = {nextJob} /\ c \in made'
    BY <1>1, <2>1, NewDraft DEF StartDraft
  <2> QED
    BY <1>2, <1>3, <2>1, <2>2 DEF OneRowOf
<1>4. CASE e # c
  <2>1. DraftJobsOf(e)' = DraftJobsOf(e) /\ (e \in made' <=> e \in made)
    BY <1>1, <1>4, NewDraft DEF StartDraft
  <2>2. \A j \in DraftJobsOf(e) : phase'[j] = phase[j]
    BY <1>1 DEF SafeInv, TypeOK, Numbered, Enqueue, Queue!Submit, DraftJobsOf, NoJob, JobIds
  <2>3. UNCHANGED << has, at >>
    BY <1>1, NewJob DEF StartDraft
  <2> QED
    BY <1>1, <1>2, <2>1, <2>2, <2>3 DEF OneRowOf
<1> QED
  BY <1>3, <1>4

LEMMA FileApiOneRow == ASSUME SafeInv, NEW c \in Call, FileApi(c), AllOneRow PROVE AllOneRow'
<1> SUFFICES ASSUME NEW e \in Call PROVE OneRowOf(e)'
  BY DEF AllOneRow
<1>1. OneRowOf(e) /\ CreateRequest(c)
  BY DEF AllOneRow, FileApi
<1>2. DraftJobsOf(e)' = DraftJobsOf(e) /\ UNCHANGED << phase, has, at >>
  BY DEF FileApi, jobVars, queueVars, DraftJobsOf
<1>3. CASE e = c
  <2>1. DraftJobsOf(c) = {} /\ RowsFor(c) = {}
    BY <1>1, <1>3 DEF OneRowOf, FileApi
  <2>2. RowsFor(c)' = {nextApproval} /\ c \in made'
    BY <1>1, <2>1, NewRow DEF FileApi
  <2> QED
    BY <1>2, <1>3, <2>1, <2>2 DEF OneRowOf
<1>4. CASE e # c
  <2>1. RowsFor(e)' = RowsFor(e) /\ (e \in made' <=> e \in made)
    BY <1>1, <1>4, NewRow DEF FileApi
  <2> QED
    BY <1>1, <1>2, <2>1 DEF OneRowOf
<1> QED
  BY <1>3, <1>4

\* The one job that drafts for a call is at its beginning, so there is no row yet.
LEMMA FileDraftOneRow == ASSUME SafeInv, NEW h \in Hand, FileDraft(h), AllOneRow PROVE AllOneRow'
<1> USE DEF SafeInv
<1>0. PICK c \in Call : c = DraftFor(h) /\ has[h] \in JobIds /\ has[h] \in DraftJobsOf(c)
  BY InHand DEF FileDraft, Working, TypeOK, DraftJobsOf, DraftFor
<1>1. OneRowOf(c) /\ CreateRequest(c)
  BY <1>0 DEF AllOneRow, FileDraft
<1>2. RowsFor(c) = {} /\ c \in made
  BY <1>0, <1>1 DEF OneRowOf, FileDraft
<1>3. UNCHANGED << made, phase, has, job >>
  BY DEF FileDraft, jobVars, queueVars
<1>4. \A g \in Hand : at'[g] = IF g = h THEN "reply" ELSE at[g]
  BY DEF FileDraft, GoTo, TypeOK
<1>5. phase[has[h]] = "taken" /\ \A g \in Hand : has[g] = has[h] => g = h
  BY <1>0, IdFacts DEF HandsOK
<1>6. RowsFor(c)' = {nextApproval} /\ \A e \in Call : e # c => RowsFor(e)' = RowsFor(e)
  BY <1>0, <1>1, <1>2, NewRow
<1> SUFFICES ASSUME NEW e \in Call PROVE OneRowOf(e)'
  BY DEF AllOneRow
<1>7. OneRowOf(e) /\ DraftJobsOf(e)' = DraftJobsOf(e)
  BY <1>3 DEF AllOneRow, DraftJobsOf
<1>8. CASE e = c
  <2>1. \A j \in DraftJobsOf(c) : j = has[h]
    BY <1>0, <1>7, <1>8 DEF OneRowOf
  <2> QED
    <3>1. c \in made' /\ (\A j, k \in DraftJobsOf(c)' : j = k) /\ (\A a, b \in RowsFor(c)' : a = b)
      BY <1>2, <1>3, <1>6, <1>7, <1>8, <2>1
    <3>2. \A j \in DraftJobsOf(c)' :
            phase'[j] # "waiting" /\ \A g \in Hand : has'[g] = j => at'[g] # "begin"
      BY <1>3, <1>4, <1>5, <1>7, <1>8, <2>1
    <3> QED
      BY <1>8, <3>1, <3>2 DEF OneRowOf
<1>9. CASE e # c
  BY <1>3, <1>4, <1>6, <1>7, <1>9, OneRowFrame
<1> QED
  BY <1>8, <1>9

LEMMA TakeOneRow == ASSUME SafeInv, NEW h \in Hand, TakeJob(h), AllOneRow PROVE AllOneRow'
<1> USE DEF SafeInv
<1>1. PICK j \in JobIds : Queue!Take(h, j)
  BY DEF TakeJob
<1>2. UNCHANGED << made, job, approval >>
  BY DEF TakeJob, jobVars, rowVars
<1>3. /\ phase[j] = "waiting" /\ \A k \in JobIds : phase'[k] = IF k = j THEN "taken" ELSE phase[k]
      /\ \A g \in Hand : has'[g] = IF g = h THEN j ELSE has[g]
  BY <1>1 DEF Queue!Take, TypeOK
<1>4. \A g \in Hand : at'[g] = IF g = h THEN "begin" ELSE at[g]
  BY DEF TakeJob, GoTo, TypeOK
<1> SUFFICES ASSUME NEW c \in Call PROVE OneRowOf(c)'
  BY DEF AllOneRow
<1>5. OneRowOf(c) /\ DraftJobsOf(c)' = DraftJobsOf(c) /\ RowsFor(c)' = RowsFor(c)
  BY <1>2 DEF AllOneRow, DraftJobsOf, RowsFor
<1>6. CASE j \in DraftJobsOf(c)
  <2>1. RowsFor(c) = {}
    BY <1>3, <1>5, <1>6 DEF OneRowOf
  <2> QED
    BY <1>2, <1>5, <2>1 DEF OneRowOf
<1>7. CASE j \notin DraftJobsOf(c)
  <2>1. \A k \in DraftJobsOf(c) : k \in JobIds /\ k # j
    BY <1>7 DEF DraftJobsOf
  <2> QED
    BY <1>2, <1>3, <1>4, <1>5, <2>1, OneRowFrame
<1> QED
  BY <1>6, <1>7

LEMMA OneRowStep == ASSUME SafeInv, [Next]_vars, Calm', TriedOnce, AllOneRow PROVE AllOneRow'
<1> USE DEF SafeInv, queueVars, jobVars, rowVars, history
\* Steps that leave jobs and rows alone and put no job back.
<1>1. ASSUME UNCHANGED << made, job >>, \A c \in Call : RowsFor(c)' = RowsFor(c),
             \A j \in JobIds : /\ phase'[j] = "waiting" => phase[j] = "waiting"
                               /\ \A h \in Hand : has'[h] = j /\ at'[h] = "begin" => has[h] = j /\ at[h] = "begin"
      PROVE  AllOneRow'
  <2> SUFFICES ASSUME NEW c \in Call PROVE OneRowOf(c)'
    BY DEF AllOneRow
  <2>1. OneRowOf(c) /\ DraftJobsOf(c)' = DraftJobsOf(c)
    BY <1>1 DEF AllOneRow, DraftJobsOf
  <2>2. DraftJobsOf(c) \subseteq JobIds
    BY DEF DraftJobsOf
  <2> QED
    BY <1>1, <2>1, <2>2, OneRowFrame
<1>2. ASSUME NEW h \in Hand, HandStep(h) PROVE AllOneRow'
  <2>1. ASSUME NEW stage \in {"idle", "building", "reply", "returned", "raised"}, GoTo(h, stage),
               UNCHANGED << made, job, approval >>, \A g \in Hand : has'[g] = 0 \/ has'[g] = has[g],
               \A j \in JobIds : phase'[j] = "waiting" => phase[j] = "waiting"
        PROVE  AllOneRow'
    <3>1. \A g \in Hand : at'[g] = IF g = h THEN stage ELSE at[g]
      BY <2>1 DEF TypeOK, GoTo
    <3>2. \A c \in Call : RowsFor(c)' = RowsFor(c)
      BY <2>1 DEF RowsFor
    <3> QED
      BY <1>1, <2>1, <3>1, <3>2, IdFacts
  <2>2. CASE RunPipeline(h) \/ Publish(h) \/ MovesOn(h)
    BY <2>1, <2>2 DEF RunPipeline, Publish, MovesOn
  <2>3. CASE LetsGo(h)
    <3>1. PICK j \in JobIds : Queue!LetGo(h, j, "done")
      BY <2>3 DEF LetsGo, TriedOnce
    <3>2. \A k \in JobIds : phase'[k] = IF k = j THEN "done" ELSE phase[k]
      BY <3>1 DEF TypeOK, Queue!LetGo
    <3>3. \A g \in Hand : has'[g] = IF g = h THEN 0 ELSE has[g]
      BY <3>1 DEF TypeOK, Queue!LetGo
    <3> QED
      BY <2>1, <2>3, <3>2, <3>3 DEF LetsGo
  <2>4. CASE LoseHand(h)
    <3>1. \A g \in Hand : has'[g] = IF g = h THEN 0 ELSE has[g]
      BY <2>4 DEF TypeOK, LoseHand, Queue!Lose
    <3> QED
      BY <2>1, <2>4, <3>1 DEF LoseHand, Queue!Lose
  <2> QED
    BY <1>2, <2>2, <2>3, <2>4, TakeOneRow, FileDraftOneRow DEF HandStep
<1>3. CASE SweepOrphans
  <2>1. \A j \in JobIds : phase'[j] = phase[j] \/ phase'[j] = "failed"
    BY <1>3 DEF SweepOrphans, Queue!WriteOff
  <2> QED
    BY <1>1, <1>3, <2>1 DEF SweepOrphans, Queue!WriteOff, RowsFor
<1>4. ASSUME NEW d \in Decider, DeciderStep(d) PROVE AllOneRow'
  <2>1. CASE DispatchBuild(d)
    <3>1. PICK a \in ApprovalIds : a = deciding[d].row /\ Dispatching(d, a)
      BY <2>1, Shapes DEF TypeOK, DispatchBuild, Dispatching
    <3>2. ~Acted(a)
      BY <3>1 DEF OneDispatch, OneDispatchOf
    <3>3. Enqueue([what |-> "implement", approval |-> a])
      BY <2>1, <3>1, <3>2 DEF DispatchBuild, Acted
    <3> SUFFICES ASSUME NEW c \in Call PROVE OneRowOf(c)'
      BY DEF AllOneRow
    <3>4. OneRowOf(c) /\ DraftJobsOf(c)' = DraftJobsOf(c)
      BY <3>3, NewBuild DEF AllOneRow
    <3>5. \A j \in DraftJobsOf(c) : phase'[j] = phase[j]
      BY <3>3 DEF TypeOK, Numbered, Enqueue, Queue!Submit, DraftJobsOf, NoJob, JobIds
    <3>6. UNCHANGED << has, at, made >> /\ RowsFor(c)' = RowsFor(c)
      BY <2>1, <3>3, NewJob DEF DispatchBuild, RowsFor
    <3> QED
      BY <3>4, <3>5, <3>6, OneRowFrame
  <2>2. CASE Decides(d)
    BY <1>1, <2>2, DecideRows DEF Decides
  <2>3. CASE ReadsRow(d) \/ DispatchApi(d) \/ DispatchLost(d)
    BY <1>1, <2>3 DEF ReadsRow, DispatchApi, DispatchLost, RowsFor
  <2> QED
    BY <1>4, <2>1, <2>2, <2>3 DEF DeciderStep
<1>5. CASE UNCHANGED vars
  BY <1>1, <1>5 DEF vars, RowsFor
<1> QED
  BY <1>2, <1>3, <1>4, <1>5, Steps, StartOneRow, FileApiOneRow

-----------------------------------------------------------------------------
(* The theorems                                                            *)

\* The invariant the other theorems are read off from.
THEOREM Safety == Spec => []SafeInv
<1>1. SafeInv /\ [Next]_vars => SafeInv'
  BY TypeStep, HandsStep, NumberedStep, GatedStep, OneDispatchStep, CountedStep DEF SafeInv
<1> QED
  BY <1>1, InitSafe, PTL DEF Spec

\* Jobs, approvals, errands and hands are always what their types say.
THEOREM TypeCorrect == Spec => []TypeOK
BY Safety, PTL DEF SafeInv

\* Whatever is built or called was approved by an admin, and a build is on an
\* allow-listed repository.
THEOREM OnlySanctioned == Spec => []Sanctioned
<1>1. SafeInv => Sanctioned
  BY DEF SafeInv, OneDispatch, OneDispatchOf, Gated, Sanctioned, Decisions
<1> QED
  BY <1>1, Safety, PTL

\* However many requests decide the same row, in Slack and in the console, it is
\* dispatched once.
THEOREM NeverDispatchedTwice == Spec => []DispatchedOnce
<1>1. ASSUME SafeInv, NEW a \in ApprovalIds PROVE Cardinality(ImplementJobs(a)) + executed[a] <= 1
  <2>1. OneDispatchOf(a) /\ executed[a] \in Nat
    BY <1>1 DEF SafeInv, TypeOK, OneDispatch
  <2>2. CASE ImplementJobs(a) = {}
    BY <2>1, <2>2, FS_EmptySet DEF OneDispatchOf
  <2>3. CASE ImplementJobs(a) # {}
    <3>1. PICK j : ImplementJobs(a) = {j}
      BY <2>1, <2>3 DEF OneDispatchOf
    <3>2. Cardinality(ImplementJobs(a)) = 1
      BY <3>1, FS_Singleton
    <3> QED
      BY <2>1, <2>3, <3>2 DEF OneDispatchOf
  <2> QED
    BY <2>2, <2>3
<1>2. SafeInv => DispatchedOnce
  BY <1>1 DEF DispatchedOnce
<1> QED
  BY <1>2, Safety, PTL

\* One approval costs at most MaxAttempts runs of the pipeline.
THEOREM BuildsAreBounded == Spec => []BoundedBuilds
<1>1. ASSUME SafeInv, NEW a \in ApprovalIds PROVE published[a] <= builds[a] /\ builds[a] <= MaxAttempts
  <2> USE <1>1 DEF SafeInv
  <2>1. Costs(a) /\ builds[a] \in Nat
    BY DEF TypeOK, Counted
  <2>2. CASE builds[a] > 0
    <3>1. PICK j \in JobIds : job[j].what = "implement" /\ job[j].approval = a
      BY <2>1, <2>2 DEF Costs, ImplementJobs
    <3>2. Attempts(j) /\ tries[j] \in 0 .. MaxAttempts
      BY DEF TypeOK, Counted
    <3> QED
      BY <2>1, <3>1, <3>2 DEF Attempts, Costs
  <2> QED
    BY <2>1, <2>2 DEF Costs
<1>2. SafeInv => BoundedBuilds
  BY <1>1 DEF BoundedBuilds
<1> QED
  BY <1>2, Safety, PTL

\* No step takes a decision back or changes who made it.
THEOREM DecisionsStay == Spec => DecisionIsFinal
<1>1. ASSUME SafeInv, [Next]_vars, NEW a \in ApprovalIds, approval[a].status \in Decisions
      PROVE  approval'[a] = approval[a]
  <2> USE <1>1 DEF SafeInv, rowVars
  <2>0. ASSUME NEW c \in Call, CreateRequest(c) PROVE approval'[a] = approval[a]
    BY <2>0 DEF Numbered, CreateRequest, TypeOK, Decisions, ApprovalIds
  <2>1. ASSUME NEW c \in Call, StartDraft(c) \/ FileApi(c) PROVE approval'[a] = approval[a]
    BY <2>0, <2>1 DEF StartDraft, FileApi
  <2>2. ASSUME NEW h \in Hand, HandStep(h) PROVE approval'[a] = approval[a]
    <3>1. CASE FileDraft(h)
      BY <2>0, <3>1, InHand DEF FileDraft
    <3> QED
      BY <2>2, <3>1 DEF HandStep, TakeJob, RunPipeline, Publish, MovesOn, LetsGo, LoseHand
  <2>3. CASE SweepOrphans \/ UNCHANGED vars
    BY <2>3 DEF SweepOrphans, vars
  <2>4. ASSUME NEW d \in Decider, DeciderStep(d) PROVE approval'[a] = approval[a]
    BY <2>4 DEF DeciderStep, Decides, Decide, ReadsRow, DispatchBuild, DispatchApi, DispatchLost,
                TypeOK, Decisions
  <2> QED
    BY <2>1, <2>2, <2>3, <2>4, Steps
<1>2. SafeInv /\ [Next]_vars =>
        [\A a \in ApprovalIds : approval[a].status \in Decisions => approval'[a] = approval[a]]_vars
  BY <1>1
<1> QED
  BY <1>2, Safety, PTL DEF Spec, DecisionIsFinal

\* As long as no call raised, a job is tried once and a call has one row.
THEOREM Calmness == Spec => []CalmInv
<1>1. Init => CalmInv
  <2> SUFFICES ASSUME Init PROVE TriedOnce /\ AllOneRow
    BY InitSafe DEF CalmInv
  <2>1. TriedOnce
    BY DEF Init, Queue!Init, TriedOnce
  <2>2. AllOneRow
    BY DEF Init, AllOneRow, OneRowOf, DraftJobsOf, RowsFor, NoJob
  <2> QED
    BY <2>1, <2>2
<1>2. CalmInv /\ SafeInv' /\ [Next]_vars => CalmInv'
  BY CalmBack, TriedOnceStep, OneRowStep DEF CalmInv
<1> QED
  BY <1>1, <1>2, Safety, PTL DEF Spec

\* Lost workers and sweeps alone never open a second pull request for a call.
THEOREM CrashesAreHarmless == Spec => []CrashesDoNotDuplicate
<1>1. ASSUME CalmInv, Calm, NEW c \in Call PROVE OnePullRequest(c)
  <2> USE <1>1 DEF CalmInv, SafeInv
  <2>1. ASSUME NEW a \in PublishedFor(c) PROVE a \in RowsFor(c) /\ published[a] = 1
    <3>1. a \in ApprovalIds /\ published[a] > 0 /\ approval[a].call = c
      BY DEF PublishedFor
    <3>2. Costs(a) /\ OneDispatchOf(a) /\ builds[a] \in Nat /\ published[a] \in Nat
      BY <3>1 DEF TypeOK, Counted, OneDispatch
    <3>3. PICK j \in JobIds : job[j].what = "implement" /\ job[j].approval = a
      <4>1. builds[a] > 0
        BY <3>1, <3>2 DEF Costs
      <4> QED
        BY <3>2, <4>1 DEF Costs, ImplementJobs
    <3>4. Attempts(j) /\ tries[j] <= 1 /\ tries[j] \in Nat
      BY DEF TypeOK, Counted, TriedOnce
    <3>5. published[a] = 1
      BY <3>1, <3>2, <3>3, <3>4 DEF Attempts, Costs
    <3>6. approval[a].status = "approved"
      BY <3>2, <3>3 DEF OneDispatchOf, Acted, ImplementJobs
    <3> QED
      BY <3>1, <3>5, <3>6 DEF RowsFor
  <2>2. \A a, b \in PublishedFor(c) : a = b
    BY <2>1 DEF AllOneRow, OneRowOf
  <2>3. CASE PublishedFor(c) = {}
    BY <2>3, FS_EmptySet DEF OnePullRequest
  <2>4. CASE PublishedFor(c) # {}
    <3>1. PICK a : PublishedFor(c) = {a}
      BY <2>2, <2>4
    <3>2. Cardinality(PublishedFor(c)) = 1
      BY <3>1, FS_Singleton
    <3> QED
      BY <2>1, <3>2 DEF OnePullRequest
  <2> QED
    BY <2>3, <2>4
<1>2. CalmInv => CrashesDoNotDuplicate
  BY <1>1 DEF CrashesDoNotDuplicate, Calm
<1> QED
  BY <1>2, Calmness, PTL

-----------------------------------------------------------------------------
(* The queue                                                               *)

LEMMA QueueStep == ASSUME [Next]_vars PROVE [Queue!Next]_(Queue!ledger)
<1>1. ASSUME NEW item, Enqueue(item) PROVE Queue!Next
  BY <1>1 DEF Enqueue, Queue!Next
<1>2. ASSUME NEW h \in Hand, TakeJob(h) \/ CompleteJob(h) \/ RetryOrGiveUp(h) \/ LoseHand(h) PROVE Queue!Next
  BY <1>2 DEF TakeJob, CompleteJob, RetryOrGiveUp, LoseHand, Queue!Next
<1>3. SweepOrphans => Queue!Next
  BY DEF SweepOrphans, Queue!Next
<1>4. ASSUME NEW h \in Hand,
             \/ RefuseDraft(h) \/ FileDraft(h) \/ DraftRaises(h) \/ RunPipeline(h) \/ ImplementRefused(h)
             \/ Publish(h) \/ PipelineEnds(h) \/ Reply(h) \/ ReplyRaises(h) \/ CompleteRaises(h)
      PROVE  UNCHANGED Queue!ledger
  BY <1>4 DEF RefuseDraft, FileDraft, DraftRaises, RunPipeline, ImplementRefused, Publish, PipelineEnds, Reply,
              ReplyRaises, CompleteRaises, queueVars, Queue!ledger
<1>5. ASSUME NEW c \in Call, Ask(c) PROVE Queue!Next \/ UNCHANGED Queue!ledger
  BY <1>1, <1>5 DEF Ask, StartDraft, FileApi, queueVars, Queue!ledger
<1>6. ASSUME NEW d \in Decider, Click(d) \/ FinishDecision(d) \/ DispatchLost(d)
      PROVE  Queue!Next \/ UNCHANGED Queue!ledger
  <2>1. CASE DispatchBuild(d)
    BY <1>1, <2>1 DEF DispatchBuild, queueVars, Queue!ledger
  <2>2. CASE Click(d) \/ ConsoleDecide(d) \/ DispatchApi(d) \/ DispatchLost(d)
    BY <2>2 DEF Click, SlackClick, ConsoleRead, ConsoleDecide, DispatchApi, DispatchLost, queueVars, Queue!ledger
  <2> QED
    BY <1>6, <2>1, <2>2 DEF FinishDecision
<1>7. CASE UNCHANGED vars
  BY <1>7 DEF vars, queueVars, Queue!ledger
<1> QED
  BY <1>2, <1>3, <1>4, <1>5, <1>6, <1>7 DEF Next, Handle

\* Every step of this flow takes the queue from state to state as JobLedger allows,
\* the contract that JobQueue, where the queue is modelled in full, also keeps.
THEOREM QueueIsKept == Spec => Queue!Spec
<1>1. Init => Queue!Init
  BY DEF Init
<1>2. [Next]_vars => [Queue!Next]_(Queue!ledger)
  BY QueueStep
<1> QED
  BY <1>1, <1>2, PTL DEF Spec, Queue!Spec
=============================================================================
