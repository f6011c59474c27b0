# Bott in TLA+

A verification project for Bott, the Slack teammate in `src/`: chat tools that
queue work, a Postgres job queue with worker threads, an approval gate in front
of everything that changes the world, a GitHub review engine, one Codex login
shared by a whole organisation, and the services around them: reminders,
schedules, stand-ups, skills, settings, credentials, reports and the App Home.
The modules here model the parts where processes, threads, retries and crashes
meet, and the algorithms whose answers are shown or acted on; TLC checks them on
small instances, and TLAPS proves the safety of the queue, of the flows that use it, of
the Codex guard and of the services for every instance.

Paths below are relative to `src/src/bott/` unless they start with `src/`.

## 1. The system

### Parts, their state and what makes them correct

| Part | State it keeps | Operations | What must hold |
| --- | --- | --- | --- |
| Job queue (`shared/persistence/queue.py`) | table `jobs` | `enqueue`, `claim_one`, `complete`, `requeue`, `recover_orphans` | a row is in one hand at a time, is tried at most three times, settles once, is never lost silently |
| Worker loop (`worker_main`) | a thread, the job it has | claim, handle, complete or retry, back off | survives errors, works the queue off |
| Approval gate (`shared/approvals.py`) | table `approvals` | `create_request`, `decide`, `get_request` | one decision per row, for ever; only what was approved is done |
| Build and fix, triage (`agents/build_fix`, `agents/triage`) | jobs of kind `plan`, `triage`, `implement` | `start_build`, `start_triage`, `run_plan_job`, `run_triage_job`, `implement_task` | allow-listed repositories only, one pull request per call |
| Gated API calls (`skills/connectors/actions.py`) | approvals of action `api:*` | `_file_for_approval`, `dispatch_approved_api` | executed once, and only after approval |
| Action policy (`shared/action_policy.py`, `policy_overrides.py`) | settings `policy_override:*` | `classify`, set, remove and list an override | refuses what no approval may allow; what is listed is in force |
| Slack router, console API (`interfaces/`) | requests in flight | Approve, Dismiss, `decide_approval`, `dispatch_approved_build` | admins decide; two clicks dispatch once |
| Codex guard (`shared/codex_concurrency.py`) | two levels of semaphores | `acquire_sync` | caps hold, no slot lost, nobody starves |
| Chat turns, MCP server (`shared/codex_exec_model.py`, `interfaces/mcp`) | signed tickets, a context variable per request | mint, check, dispatch | a tool runs as the user of the turn; the ticket outlasts it |
| Webhook and review engine (`agents/code_review`) | `github_deliveries`, `reviewed_commits`, `review_traces` | `github_webhook`, `review_pr`, `save_trace` | a commit is reviewed, and once |
| Verdict gate (`core/verdict_gate.py`) | none | `apply_gate` | the verdict is the rules', and a re-review does not drop an issue unseen |
| Reminders (`shared/reminders.py`, `persistence/action_items.py`) | table `action_items` | `claim_due_reminders`, `resnooze_item`, an owner's edits | a reminder is sent, and once |
| Roles and invites (`shared/roles.py`) | settings `role:*`, `invite:*` | `set_role`, `consume_invite` | the last admin is not demoted, an invite is used once |
| Alerts (`shared/alerts.py`) | last sent time per key | `alert_admins_throttled` | an outage is reported, not flooded |
| Codex backend and login (`shared/codex.py`, `shared/codex_login.py`) | a child process, a login attempt | respawn, `stop`; start, disconnect and reap a login | no child is forgotten or killed early, one login attempt; stop means stop |
| Schedules (`skills/scheduling.py`, `slack_home/service.py`, `cron.py`) | Agno's schedule rows | create, pause, resume, fire, remove | only owners and admins act; the label tells the runs |
| Stand-ups (`skills/dsm.py`) | `standup_rounds`, `standup_responses`, a marker per member and day | open, submit, close | a blocker is followed up, once |
| Skill library (`skills/skill_authoring.py`, `skills_store.py`) | table, history and files | author, save, retire, restart | files follow rows, curated skills stay |
| Models and prompts (`shared/model.py`, `slack_home/models.py`, `prompts_store.py`) | settings, `prompt_versions` | set the matrix, save and revert a prompt, restart | what is shown is in force |
| Credentials (`connector_credentials.py`, `config.py`, `app_auth.py`) | `connector_tokens`, minted tokens in memory | store, remove, probe; mint a token | only what was probed is stored; a replaced App stops acting |
| Memra client (`shared/context/memra.py`) | a session id, a token | `call_tool` | an expired session costs one retry |
| Sprint and portfolio reports (`skills/sprint_report`, `skills/portfolio`) | markers, a cache, a history | publish | one page per sprint or day, with Jira's and Memra's facts |
| App Home (`interfaces/slack_home`) | a view per member | clicks, modals, refresh | a click acts once, the view shows what is |
| Statistics (`persistence/records.py`) | none | `trace_stats`, `trace_stats_by_week` | the two charts agree |
| Console UI (`src/console`) | none of the system's | calls the console API | out of scope |

### How they interact

Chat tools, the webhook and the buttons **enqueue**; the worker thread of each
process **claims** and runs `handle_task`; plan and triage jobs **file
approvals**; a click or a console request **decides** and then **dispatches**,
which enqueues an implement job or runs an API call in a background task. All
of it shares one Postgres database and nothing else: there is no lock between
processes but the row locks of `claim_one`, and each database call is its own
transaction. Every chat turn takes a slot of the Codex guard, which is per
process.

### What is hard here

A process may be lost between any two calls (the worker is a daemon thread and
the container is restarted, `src/docker-compose.prod.yml`); each database,
Slack and GitHub call may raise; retries run whole handlers again; two admins
click at once; the sweep of orphans is based on a clock. `PROJECT.json` lists
each hazard at its line.

## 2. The modules

| Module | Models | Reads with |
| --- | --- | --- |
| `JobLedger` | what the queue promises to those who use it, without table, clock, locks or loop | abstract |
| `JobQueue` | the table `jobs`, the five statements that write it, `worker_main` with each of its exits, processes that crash and restart | implements `JobLedger` |
| `JobQueueProofs` | the theorems about `JobQueue` | |
| `BuildFlow` | tool call, draft job, approval, decision, dispatch, implement job, pull request | composes with `JobLedger` |
| `ReviewFlow` | webhook deliveries, the two dedup tables, the review job, the posting ladder, re-reviews | composes with `JobLedger` |
| `CodexConcurrency` | `acquire_sync` around `codex exec` | stand-alone |
| `ChatTurns` | a chat turn with its ticket, its timeout and its tool calls | extends `CodexConcurrency`, implements it |
| `CodexGuardProofs` | the theorems about `CodexConcurrency` and `ChatTurns` | |
| `BuildFlowProofs`, `ReviewFlowProofs` | the theorems about the two flows | |
| `AccessProofs` | the theorems about `Roles`, `Schedules`, `SkillLibrary` and `Settings` | |
| `RoutinesProofs` | the theorems about `Reminders`, `SprintReport`, `DigestModal`, `PortfolioReport`, `Standup` and `HomeTab` | |
| `ExternalsProofs` | the theorems about `ModelBackend`, `CodexLogin`, `AdminAlerts`, `Connectors` and `MemraSession` | |
| `RulesProofs` | the theorems about `VerdictGate`, `ActionPolicy` and `Cron` | |
| `Reminders` | `action_items`, the owner's requests, the sweep with claim, message and put-back | |
| `Roles` | roles and invites, read and written by overlapping requests | |
| `AdminAlerts` | the throttle and the messages to every admin | |
| `CodexLogin` | the device login's child, its reaper, connect and disconnect | |
| `ModelBackend` | the local proxy, health checks, respawn timer, `stop` | |
| `Schedules` | rows by name, the check and the calls that follow it, from Slack, console and agent | names its times with `Cron` |
| `SkillLibrary` | rows, history, files, the chat's loaded names | |
| `Standup` | rounds, updates, closes that overlap, markers and follow-ups | |
| `SprintReport`, `PortfolioReport` | the two publishing tools with their markers, caches and fallbacks | |
| `HomeTab`, `DigestModal` | clicks, deliveries, background tasks; the sprint digest's form | |
| `Connectors` | the credentials' store and the GitHub App that reads it, with kept tokens | |
| `MemraSession` | one client shared by threads: session, token, retry | |
| `Settings` | the model matrix, prompt versions, the assistant built at start | |
| `VerdictGate`, `ActionPolicy`, `Cron`, `ReviewInput`, `JiraFacts`, `ReviewStats`, `HomeView` | pure algorithms, with the statements they are held to | operators only |
| `ReviewThread` | the reviews and re-reviews of one Slack thread, each judged by the gate on what the one before it left | extends `VerdictGate` |
| `Rules` | the properties of the first three of them, asked for when the focus of a behaviour is on the rules | extends them |
| `MCServices` | the services above on small instances, one at a time | extends every module with state, instantiates the operators only |
| `MC...` | the small instances TLC runs | |

`BuildFlow` and `ReviewFlow` do not repeat the queue: they instantiate `JobLedger`
and drive it (theorems `QueueIsKept`), so what they show holds for any queue that keeps
those promises, and `JobQueue` is shown to be one (theorem `Refinement`, run `queue_service`).

### JobQueue

Each row is an id; `status`, `attempts`, `claimedAt` and `dedupKey` are the
columns that decide something. A worker is one process with its thread; `pc`
is where it is, `held` the row it has, `seen` the `job["attempts"]` it read.

* `SelectPending`, `MarkRunning`: the two statements of `claim_one`. The row
  lock is held in between, so `Claimable` skips a locked row.
* `EnqueueCheck`, `EnqueueInsert`: the two statements of a keyed `enqueue`; no
  lock joins them, and two pending rows with one key are possible, in the code
  as in the model. `EnqueueCoalesce` returns the id of a pending row.
* `Boot` runs `recover_orphans` as one UPDATE; `BootRaises` is the thread that
  dies before its loop.
* `HandlerReturns`/`HandlerRaises`, `CompleteDone`/`CompleteRaises`,
  `Requeue`, `GiveUp`, `FailureWriteRaises`: the try and the except clause,
  exit by exit.
* `Crash` loses the process; `Tick` is the clock, which does not let a job be
  in hand for longer than `MaxRuntime`.

A database call commits or raises without effect; a commit whose answer is
lost is not modelled. `stop` is not modelled apart from `Crash`: the thread is
a daemon and an orderly shutdown does not wait for it.

### BuildFlow

A `Call` is what an agent asks for: a build, a triage, or a gated API call.
`job` says what each queue item is for, `at` how far `handle_task` is with it,
`approval` is the table, `deciding` what each request that decides is doing.
`builds`, `published` and `executed` are history variables that count what was
done in the world. The console's check of the status and its decision are two
steps; Slack's decision and its dispatch are two steps; the dispatchers read
the row again. `StartDraft` lets a call for a repository that is not allowed
through to its job, as a Jira key does whose repository is known only there.
A Slack request that Slack delivers again is dropped by the router
(`X-Slack-Retry-Num`), which is why a delivery is not duplicated here: two
clicks are two `Decider`s.

### ReviewFlow

A commit is a number within its pull request and `head` the newest one.
GitHub's events get delivery ids in order; `Receive` brings a delivery to the
webhook, any number of times, and `hooks` is the set of requests in flight,
each with its next step. `DedupDelivery`, `DedupCommit` and `EnqueueReview` are
the three database calls of `github_webhook`. No `await` lies between the last
two, so within one process they run on; several processes and crashes separate
them. `Ask` is `start_review`, `start_rereview` and the Re-review button.

In the worker's hand, `AnnounceAndFetch` posts to Slack and fetches the pull
request as it then is (one step: nothing else reads what the posting changes),
`FinishReview` ends the model's work, `PostAccepted`, `PostRejected` and
`PostTimesOut` climb down the ladder of `_post_with_fallback`, `Show` edits the
status message and `SaveTrace` writes `review_traces`. A refusal is not counted
as a fault: GitHub refuses for reasons of its own, and the ladder ends after
three. A post that GitHub takes although the call raises is one, and so is
every call that raises and every crash. `posts`, `finished` and `shown` are
history variables. Each pull request has one Slack thread, and a review asked
for in a chat has that thread (the console's chat has none).

### CodexConcurrency and ChatTurns

A `Turn` is one guarded call in its own thread: org-wide slot first, then the
user's, then `codex exec`, then the user's slot back, then the org-wide one.
`threading.Semaphore` promises no order, so any waiting turn may take a free
slot. A call without a `user_id` (a job) takes no slot and is not here.

`ChatTurns` adds to such a turn what a chat has around it: `Invoke` mints the
ticket before the wait, `Tick` is time, which kills a child at its timeout and
lets a ticket expire, `Authorize` is the bearer check of the MCP server and
`Dispatch` the tool that then runs. A step of a thread that can go on takes no
time (`Settled`).

### The services

Each is a module of its own with its variables, one action per request, thread
step or timer, and faults with a bound. What is common to them:

* A request that checks and then writes is two actions, with another request
  possible in between, wherever the code makes two database calls (roles,
  schedules, skills, credentials, stand-ups) and has no lock.
* A read that is tolerant in the code (`get_setting` and `load` answer `None`
  for an error, `kv_admins` nobody) has a blind variant: one that costs a fault
  where the module has state, an argument in `ActionPolicy` and `JiraFacts`.
* Where the code is only right as long as requests do not overlap, a history
  variable remembers that they have (`crossed`, `disturbed`, `clashed`, `apart`,
  `inTurn`, `steady`, `alone`, `late`), and the property says so. Section 6 lists
  what happens otherwise, and section 4 which
  texts of the repository deny it.
* Other history variables count messages, posts, deployments and the like.

`Reminders`: an item is a row, a sweep claims all due rows in one transaction,
then sends one message after another; `DmRaises` may or may not have delivered;
`DmRefused` is a `SlackApiError`, which `_send_dm_via_slack` swallows.
`Roles`: the settings `role:` and `invite:` of each person; `Rejected` is the
check for the last admin, on the admins that the request has `seen`: all of them, or
those of the environment when the settings cannot be read. `AdminAlerts`: the throttle is
taken first and the messages follow. `CodexLogin`: the child that polls and the thread
that reaps it. `ModelBackend`: a proxy boots until it has the port, then answers or is slow;
`spawn` is where `_spawn_and_wait` is, whether `start` or the supervisor called it:
`SpawnChecks`, `SpawnKills` (`_kill_port` kills some of those that have the port, perhaps
none) and `SpawnWaits`, each with its way to raise; only the time-out leaves a child that
is alive. `hasty` has those the supervisor killed alive, `spared` the children that escaped
the kill, `late` is a `Stop` that met a spawn about to begin.

`Schedules`: the name is the key, so a schedule that is created again is
replaced; `MayAct` is read before the calls that act on each row. `Cron` has the
translation both ways and the times of a stand-up's three schedules; `Fires` is
what the scheduler makes of an expression, which is Agno's part.
`Standup`: a close (`StartClose` to `PostPreread`) reads the updates, files each blocker in
three transactions (`CheckMarker`, `AddBlocker`, `SetMarker`) and posts; `MissMarker` is a marker
that cannot be read. `SkillLibrary`: a row, its file and the
names the chat has loaded are written one after the other.

`Settings`: a request of the Slack modal writes role by role, in the order of `KeyTurn`
(`left` is the set of keys still to be written), and tells the matrix after each; the assistant keeps what it was built with. `ActionPolicy` classifies a
call by what the rules look at, and `GetOverride` answers nothing when it is `blind`; a key
keeps the spelling of its method, which the rules themselves strip and raise. `VerdictGate` has every rule that moves a verdict,
over comments at spots and withdrawals with the paths that were visited, with what is logged (`Outcome`) and what the
posted review says (`Footer`). `ReviewThread` runs it with the engine there is, `codex exec`, whose
tool calls are never observable. `Connectors`: the probe comes before the store, and
the App's id and its key are two reads. `MemraSession`: sessions are numbered;
`TokenExpires` and `DropSession` are the server's.

`SprintReport` and `PortfolioReport`: the steps of the publishing tools, with the
marker or the cache as the only memory; `JiraFacts` has what the first takes from
Jira; its `FindBoard` reads one page, and any error of the query by key sends it to the search by name. `HomeTab` delivers a click once or more and runs its task beside others; `RunFails` and `RemoveFails` are errors that
`service.py` swallows;
`DigestModal` is the one form that is filled by tasks of its own; `HomeView` counts
the blocks of the view, and joins, cuts and splits the values of options as the code does.

## 3. The runs

| Run | Instance | Shows |
| --- | --- | --- |
| `queue_safety` | 2 workers, 2 rows, 1 key, 3 attempts, 1 crash, 1 database error; jobs may outlive the staleness limit | `ExclusiveHandling`, `BoundedHandling`, `CoalescedIsStillToRun`, and the inductive invariant's parts |
| `queue_service` | the same without keys; no job outlives the limit; fairness | refinement of `JobLedger`, `LiveJobsRun`, `FailsForACause`, `SettledIsFinal`, `PendingIsWorkedOff` |
| `queue_loop` | violation | a database error in the except clause ends the thread |
| `build_safety` | a build (not allowed), a triage, an API call; 2 requests deciding; 1 crash, 2 errors | `Sanctioned`, `DispatchedOnce`, `BoundedBuilds`, `DecisionIsFinal`, `CrashesDoNotDuplicate` |
| `build_live` | a triage and an API call; fairness | `ApprovedIsWorkedOff` |
| `build_retry` | violation | a Slack error after the pull request is open builds it again |
| `review_flow` | 2 pull requests, one in an allowed repository, 2 commits; 2 events or requests for a review; 2 webhook requests at once; 2 faults; fairness | `OneJobPerCommit`, `SeenIsQueued`, `OnePostPerHandling`, `SeenIsReviewed` |
| `review_lost` | violation | no channel and GitHub refuses every rung: the review is nowhere |
| `services` | the other components, one per behaviour; their bounds are in `MCServices` and `Services.cfg`; fairness for chat turns and reminders | the properties named below |
| `codex_share` | violation | one user's waiting turns hold every org-wide slot |
| `roles_last` | violation | 2 people, 2 requests: two demotions that overlap leave no admin |
| `thread_flip` | violation | a re-review leaves an issue out, or makes it a suggestion, and the verdict flips without evidence |

**The run `services`.** The services share no state that a property looks at, so
one behaviour of `MCServices` runs one of them, its `focus`, and leaves the others
at rest; with the focus `rules` nothing moves and the pure algorithms are
evaluated over bounded inputs. A step of one service beside a step of another would
reach no state of either that is not reached here. The properties group those of the
modules:

| Property | Stands for |
| --- | --- |
| `TypesOK` | the type invariants, each in its focus |
| `EveryTurnEnds` | whoever waits is served, also behind calls that fail or time out |
| `TurnsHold` | `GuardHolds`: slots conserved, both caps, no idle login; a tool call runs as its own turn's user; the ticket outlasts the wait if its lifetime covers a timeout per turn |
| `RemindersExact`, `DueIsReminded` | one message per snooze, nothing owed is nowhere; each due snooze ends |
| `RolesHold` | the last admin goes only by a demotion whose view of the admins was wrong, read blind or outdated since; an invite sets a role once, unless it was `crossed` or its clearing failed |
| `SilentMeansTold` | a throttled alert was told to each admin, is being told, or could not be |
| `NoStrayLogin` | no login but the current one polls, unless it is about to be killed |
| `NoStrayChild` | a proxy that was started and lives is the child or was replaced by a spawn whose kill missed it; none follows a `stop` unless a spawn was about to begin; the child is not killed alive before the long window |
| `OnlyOwnersAct` | a schedule changes only for its owners and admins, and a member sees their own |
| `LibraryHolds` | curated skills stay, files follow rows, a text is its owner's or an admin's |
| `FollowUpsHold` | a blocker that a pre-read shows has a follow-up, a marker its item, and closes that do not overlap, are not lost and read their markers file it once |
| `ReportSafe` | only a published report suppresses the next, no sprint is published twice, its link is posted |
| `HomeHolds` | a click acts once and its outcome is accounted for, a Home at rest is current |
| `AppsHold` | only what a probe accepted is stored, a replaced App's tokens end, a steady call's answer is true |
| `ExpiryIsRecovered` | an expired Memra session costs a call its one retry, and no more |
| `RulesHold` | `GateHolds`: the verdict is the rules' in any order of steps, what is logged and posted tells one move from the other, and a re-review whose tool calls are observable comments on each prior issue or withdraws it on a path it visited; `PolicyHolds`: the default rules refuse what they must, an override that is listed decides the calls of its spelling if it can be read, and the rules if it cannot; `CronHolds`: the label names the minutes a schedule runs at, stand-up times keep their day and order |
| `PagesHold` | the portfolio's page is of its day and its history kept; the digest is made as picked; what an admin is told of models is in force, a removed provider's id runs only where the environment names it, and a restart switches; and the rules over bounded inputs: Jira's facts, charts, the view's hundred blocks, rosters, GitHub's pages, retries, checks, diff and anchors |

**Bounds.** Two workers are the least that compete and the most that can hold
two rows; a third only repeats a role. With 3 attempts (the code's value) a row
goes through two retries; 2 suffice where liveness makes states dear. Time runs
to 3 so that a row claimed at 1 can be stale at 3 with a limit of 1. One crash
and one error are enough to put a failure at every point of every behaviour;
the theorems do away with all of these bounds. In `BuildFlow` three calls, one
of each kind, two rows of approvals and three jobs let two rows be decided at
once while a job is retried; two `Decider`s are a double click; Slack errors come in
`build_live` and `build_retry`. In `ReviewFlow` two inputs are two events of one
commit, events of two commits, an event and a request, or a review and its
re-review; two faults use up the two attempts of a job. In
`CodexConcurrency` one user has more turns than its cap, and the turns together
more than the org-wide cap. In `services` each has two requests or
threads at once, a third to come after them, and one fault (two for the alerts,
which may be refused per admin, and for Memra, whose session and token may both be lost; the proxy turns slow twice,
and there are three processes, so that one is taken over, one replaces it and one replaces that):
enough to cross any check with any write, to fail at any step, and to ask again
afterwards. The pure algorithms take every input up to a size at which each of
their cuts and pages has an input below, at and above it.

`CHECK_DEADLOCK FALSE` is said everywhere because every instance ends: rows,
clock, calls and turns are bounded, and a queue with nothing on it is at rest.

**Fairness.** The worker loop is a thread that runs; a handler ends because its
subprocess and model calls have timeouts; the container is restarted
(`restart: unless-stopped`); the clock advances. A webhook request
that was received goes on. Nothing makes a person push, ask or click, GitHub deliver, a call raise or a process crash. A turn that waits for a slot that stays
free gets it; since every instance has finitely many turns, weak fairness is
enough although semaphores are not queues. The reminder threads sweep and the clock goes on;
nothing else of the services is assumed to happen.

## 4. The findings

Each is a run that TLC must find violated, quoting what the code says of itself.

1. `queue_loop` - `requeue` or `complete` raising in the except clause kills the
   worker thread; the comment there says only `claim_one` could.
2. `build_retry` - `_run_implement` "always returns normally", but posting the
   result can raise, and the implement job runs again.
3. `codex_share` - the per-user cap does not keep one user from holding every
   org-wide slot, because the org-wide slot is taken first.
4. `review_lost` - "never lose it to a posting failure" holds only where there
   is a Slack message to show the review in.
5. `roles_last` - "the last remaining admin can never be demoted to zero admins", but the
   check and the write are two transactions, and a failed read of the admins counts as
   one that does not list the person.
6. `thread_flip` - rules that "make any verdict flip evidence-bound" are skipped for the engine
   there is, whose tool calls cannot be observed; and where they can, any comment at the place of
   an issue stands for it, also a suggestion.

Other texts the code does not keep to. The properties say what holds instead, and each of these is
a behaviour of its module:

* "Fail jobs stuck in 'running' for longer than `stale_after_s`" (`queue.py:90`): orphans are swept
  only at start, and one that is not yet stale then is never failed. `PendingIsWorkedOff` lets a row end so.
* "The same head SHA shouldn't be reviewed twice" (`webhook.py:88-89`): the dedup is by the commit of
  the event, but the job names only the pull request, and the worker reviews its newest
  commit. `OneJobPerCommit` is about the jobs.
* "Never kill a proxy whose process is still alive just because a health check was slow"
  (`codex.py:111-112`): the supervisor holds no process of a proxy that `start` reused, and
  takes two slow checks for a crash. "Shuts it down with the app" (`codex.py:5-6`): a supervisor that
  has passed its check of the stop event goes on to spawn. `NoStrayChild` makes both exceptions.
* "Idempotent: re-closing the same round never duplicates" (`dsm.py:197`): item and marker are two
  transactions, and a marker that cannot be read counts as not set. `FollowUpsHold` promises one follow-up where
  closes do not overlap, are not lost and read their markers.
* "Bott will auto-swap the reviewer at run time" (`slack_home/blocks.py:334-336`): `_review_anti_affinity`
  returns what it is given, as its own text says. `ModelsAreSeparate` has a role run on the model set
  for it, whatever the others run on.
* "Footer line appended to the GitHub review body explaining a verdict change" (`verdict_gate.py:438`): a
  fix that is claimed and not backed gives an unchanged suggestions verdict a reason, and the footer then tells of a
  downgraded approval. `MoveIsTold` says when.

Smaller differences met on the way, which no run states: `app_token_for` says "refreshed ~5 min
before expiry" and keeps a token for 50 of its 60 minutes (`TokensHaveTime`); the
notice that asks to connect Codex first is never shown, because the roster of models is
never empty (`RosterIsListed`).

## 5. What is proved

`JobQueueProofs`, about `JobQueue` with any numbers of workers, clients, keys,
rows, attempts, crashes and errors:

* `Invariance`: `Spec => []IInv`. `IInv` is `TypeOK`, `ExclusiveHandling` and
  `Consistent`. Exclusion alone is not inductive: that no worker selects a row
  another has in hand follows because a row in hand is running or failed, never
  pending (`WorkersConsistent`), and that a retry is counted right follows
  because what a worker has `seen` is still the row's `attempts` and the
  handler was given the row exactly once more (`RowsConsistent`).
* `TypeCorrect`, `Exclusive`, `Bounded` follow from it.
* `LiveJobsAreSafe`, `SettledStays`, `FailureHasACause`: under
  `RuntimeAssumption`, the precondition config.py states
  (`JOB_ORPHAN_STALE_AFTER_S` exceeds the longest job), no sweep takes a row
  that is in somebody's hands. `LiveJobsRun` is inductive relative to `IInv`:
  the clock cannot pass `claimedAt + MaxRuntime` while the row is in hand, and
  the sweep spares everything younger. `queue_safety` runs with the assumption
  false and shows what does not depend on it.
* `Refinement`: under the same assumption every step of `JobQueue` is a step of
  `JobLedger` or leaves it unchanged.

`CodexGuardProofs`, about `CodexConcurrency` and `ChatTurns` with any finite set of
turns, any users and any caps of one or more:

* `Conserved`, `Capped`, `BusyLogin`: the semaphores' values and the turns that hold
  slots always add up to the caps. `SlotsConserved` alone is not inductive: a release
  adds to the semaphore of `UserOf[t]`, so that a turn at the second semaphore must
  have a user (`HasUser`), and the values stay within their type only because a turn that
  gives a slot back is counted among the holders. The caps and the idle login follow from
  the sums by counting subsets.
* `TurnsKeepTheGuard`: a chat turn's steps are the guard's or leave it alone, so that the three
  hold of chats.
* `CallersOwnIdentity`: `serving` is set per request and from the request's own turn.

* `GuardOfTurns`: so `GuardHolds`, which is these three for `ChatTurns`. `ChatTypesHold`
  has the types of tickets and tool calls.
* `TicketsLast`: `TurnsHold`, with the ticket that outlasts its turn. What makes it
  inductive is `ClockInv` of `TicketInv`: time passes only while a call runs, so no ticket
  is older than the timeouts of the calls that have ended plus the time some
  running call has had. The bound is then one timeout per turn, whatever the order.

`BuildFlowProofs`, about `BuildFlow` with any calls, allow list, admins, hands, deciding
requests, rows, attempts, crashes and errors:

* `Safety`: `Spec => []SafeInv`. None of the run's properties is inductive. That a row is
  dispatched once needs to know who has the right to: it comes with the flip to
  approved, to one request, and is used up by one job or one execution
  (`OneDispatch`). That it was sanctioned needs what each filed row passed and who may
  be deciding (`Gated`). That builds are bounded ties the builds of a row to the
  tries of its one job, and what a hand has begun and not counted yet (`Counted`), with
  `HandsOK` and `Numbered` for the ids. `TypeCorrect`, `OnlySanctioned`,
  `NeverDispatchedTwice`, `BuildsAreBounded` and `DecisionsStay` follow.
* `CrashesAreHarmless`, from `CalmInv`: while no call has raised no job is tried twice
  (a sweep fails what a lost worker had), so a call has one draft job and one row.
* `QueueIsKept`: each step is one of `JobLedger`'s or leaves the queue alone.

`ReviewFlowProofs`, about `ReviewFlow` with any pull requests, pushes, deliveries, requests,
hands, attempts and faults:

* `ReviewSafety`: `Spec => []ReviewInv`. `OneJobPerCommit` is not inductive since several
  requests may be about one commit: `HooksOK` says that at most one of them is past the dedup by commit, and
  that its commit has no job yet. `PostsOK` lets a handling that has not ended its
  posting have a post to spare. `TypeCorrect`, `OneJobEach` and `OnePostEach` follow.
* `SeenIsNotForgotten`: `SeenIsQueued` is inductive beside `ReviewInv`.
* `QueueIsKept`, as above.

`JobQueueProofs` has `Agree`, and `PromisesAreOpen` from `PromiseInv`: an
`enqueue` promises no more than the row's next handling.

`AccessProofs`:

* `Roles` (`AdminAssumption`: there is an admin when the process starts, in the environment
  or in the store): `TypeCorrect` and `RolesAreKept`, for any people, requests and failed reads.
  That there is always an admin is not so (run `roles_last`) and is not claimed: `LastAdminIsGuarded`
  is an action property, that who demotes the last admin saw another who has gone since, or did not
  see the one demoted. It follows from `DecidedOK`: what is about to be written was not rejected on
  the admins its request saw. `SpentOK` has an invite that has set a role gone or about to be cleared.
* `Schedules` (`PlanAssumption`: no planner is "Unknown"): `OwnersActAlone`. The check and the
  calls behind it are apart, and a row may be replaced in between. What a request carries
  across is `Entitled`: its user is an admin, or has created the row of that id *if it
  still is the row of that name*. That is stable because ids only grow (`born`) and a row's
  creators only grow with its id. That both lists show a member the same rows needs the
  shape of the rows: an owner is one of the creators, and a personal row's is in its name.
* `SkillLibrary` (`LibraryAssumption`: curated names are names, "none" is none): `LibraryIsKept`.
  `FilesFollowRows` is not inductive: `SlugOK` gives an undisturbed name at most one call that has
  passed its check, what that call has found still holds, and, step by step, what it has
  written so far; without such a call the file is the row's.
* `Settings` (`RequestAssumption`: what requests may ask for): `SettingsAreTold`. `AloneInStore` says that a
  request nobody has crossed finds in the store every key it has written, and that what it
  tells last is the matrix of that store. `ModelsResolveApart` has the resolution of models
  for every store and every environment, ids of removed providers in both: a stored one is passed over,
  one of the environment is used.

`RoutinesProofs`:

* `Reminders` (`BoundAssumption`: ticks and limits are numbers): `TypeCorrect` and `SnoozesAreAnswered`, for
  any items, sweepers and faults. In `RemindInv` each snooze pays for one of three things, a
  message, a sweeper that holds the item or the row that is snoozed (`CountOK`), and a sweep
  puts back only what it took out of its batch (`UndoOK`).
* `SprintReport` (`ReportAssumption`): `ReportsAreSafe`. While runs stay `apart`, `OneByOne` says that the
  one run is about a sprint later than the mark, and that a sprint that was deployed is at or
  before the mark, or its run is about to set it. That the sprint a run is about is the latest of
  those closed needs that a set of numbers that is bounded has a greatest one (`LeastNumber`, `MaxIsThere`):
  by the well-foundedness of `<` on the naturals, since the induction theorems take an
  operator and cannot be used.
* `DigestModal` (`ModalAssumption`): `ModalIsTrue`. `FormOK` ties the form to what was picked in it;
  `FormSettles` holds while no tasks overlap and nothing fails: the one task is for what is chosen, what
  it has looked up is the end of that sprint, and without a task the date shown is that of what is chosen.
* `PortfolioReport` (`PortfolioAssumption`): `PortfolioIsToday`, an invariant and an action property. `NothingAhead`
  keeps every point, page and run from being of a day to come, so that the newest of a full history is the day's
  and what is dropped is the oldest alone (`KeptPoints`, by counting); `RunsApart` says what the one run holds.
* `Standup` (`StandupAssumption`): `FollowUpsAreFiled`. `JobOK` says of each blocker a close shows that it
  is filed, is being filed or is left to be; `DateOK`, of a day no two closes have shared, that
  what was filed is marked or about to be, and that nothing marked is filed again. A marker that is missed (`MissMarker`) makes its day one of `clashed`.
* `HomeTab`: `HomeIsKept`. `ClickOK` says that a first delivery that is under way has not acted, and that one that is
  over acted, was refused or dropped (an error that is swallowed drops it), or is at work; `InTurnOK` that the one task has read what is so.

`ExternalsProofs`:

* `ModelBackend` (`BackendAssumption`: thresholds and limits are numbers): `NoChildIsStray`. `BackendInv`
  says that a live proxy is the child, the stranger's or one that escaped a kill, that a supervisor which
  is about to spawn before the long window has no live child (`RespawnOK`), and that one that was waiting,
  or waited for its child, when `stop` ran starts nothing more (`StoppedOK`). No more holds (section 4).
* `CodexLogin` (`LoginAssumption`: no child is "none"): `NoLoginIsStray`. `LoginInv` adds that a disconnect holds a
  child only while it is about to kill it.
* `AdminAlerts` (`AlertAssumption`: there is a key to report): `SilenceIsExplained`, inductive with the types.
* `BackendTypes`, `LoginTypes`, `AlertTypes`: the type invariants.
* `Connectors` (`ConnectorAssumption`: the App is one of the names, no bundle is called "none" or "raised"): `AppsAreTrue`.
  `TokenOK` bounds a kept token by the last hour its App was in force; `AppCallOK` follows a call
  through its two reads: the App it read is in force at this hour, and still is when the call is steady.
* `MemraSession` (`MemraAssumption`: limits are numbers): `MemraSafety` and `CallsRecover`. `Recovering` says that, after its
  retry, a call that has the client for itself has no session, and then one the server knows and no token takes away.

`RulesProofs` has the pure algorithms for every input, where TLC takes bounded ones:
`GateIsSound` for any spots, thresholds, answers of a model and contexts of a run
(`InputAssumption` says what these are made of; `NoneLeftOut` is about runs that are observable, and what is lost
without that is in the run `thread_flip`), `PolicyIsSound` for any repositories,
spellings and reads that succeed or fail, and
`CronIsRead` (`TimeAssumption`) for every minute of the day and every shift of less than one. The
attempt to prove `PolicyIsSound` showed that the guards of the `CASE` in `ClassifySlack`
overlapped, so that the definition did not say which rule wins; it now gives the
order of the code's `if`s, as a prefix that only reads does not excuse an `admin.` method.

The assumptions are those the modules name; TLC evaluates each of them in the runs.

Only model-checked:

* liveness (`PendingIsWorkedOff`, `ApprovedIsWorkedOff`, `SeenIsReviewed`, `EveryTurnEnds`,
  `DueIsReminded`), which needs fairness and ENABLED;
* `TypesOK` and `PagesHold` as wholes, since they speak of `focus`: the theorems state `TypesOK`'s part
  for chat turns, reminders, roles, alerts, login, backend and Memra, and the parts of
  `PagesHold` that are about state, with `ModelsAreSeparate`; for the other services the invariants have the types without
  the instance's bounds on clocks and counters;
* the algorithms over sequences and sums in `ReviewInput`, `ReviewStats`, `JiraFacts`, `HomeView`, the
  roll-up of `PortfolioReport` and the roster of `Settings`, which would need induction over data.

## 6. What is not promised

What the code does where the properties' conditions do not hold, as the models show it:

* Reminders: a `SlackApiError` counts as sent, and the reminder is gone. An item that its
  owner closes between the claim and a message that fails comes back and is sent.
* Roles: two demotions that overlap leave no admin, and so does one that cannot read the admins (`roles_last`).
* Alerts: the throttle is set before the message is sent, and whether it was delivered is not
  looked at: if Slack refuses it or no token is configured, the key is silent for
  fifteen minutes and the outage goes untold (`alerts.py:68-78`).
* Codex proxy: one that was taken over, or escaped a kill, is killed alive after the short window; `stop` does not
  end a spawn that is about to begin; `_kill_port` may miss, and then two proxies live; a start that
  times out leaves its child (`codex.py:101`), and without the supervisor, which is not yet armed, nobody
  looks at it again.
* Verdict gate: where tool calls are not observable, which is always, the check of withdrawals is skipped and an
  issue may be left out in silence; observable or not, one may come back as a suggestion without
  evidence (`verdict_gate.py:312-324`). Suggestions raised to an approval because no comment is left are
  logged as `downgraded_to_comment`, and the footer can tell of a downgrade that was none
  (`verdict_gate.py:412-443`).
* Skills: two users who create one name at once overwrite each other, and a process lost between row and file leaves
  them apart until the next start.
* Stand-ups: a close lost between the item and its marker, one beside another, or one whose marker cannot be
  read files the item again; a
  stand-up whose schedules carry no known phase raises `IndexError` in the Home
  (`blocks.py:176`).
* Action policy: an override to `deny` set while a gated call waits for its approval is not consulted
  when the call is approved. An override that cannot be read is none: a method that was denied falls back to
  the rules. The key of an override keeps blanks and the empty verb, which the rules read as the trimmed method and as GET,
  so that two spellings of one call may be decided differently.
* GitHub client: a POST is repeated after a 5xx although it may have taken effect; the
  CI summary sees one page of each list and skips what it cannot read.
* Reports: the sprint's mark is set before the link is posted, so that a run lost in
  between leaves a page nobody is told of; a database error while the mark is read publishes
  again; two portfolio runs at once keep the last one's history.
* Jira: any HTTP error of the board query by key, 429 and 5xx too, is taken for a key that is not there, and the search by
  name sees one page of fifty boards.
* Models: two roles may run on one model, and an id of a removed provider in the environment is
  used as it stands.
* Home: an account with a bar in it gives a delivery schedule a wrong account and band (`router.py:638-641`); errors of a
  removal or a trigger are logged and told to nobody; a retry is dropped even if the first delivery was lost; more than a hundred
  blocks are never published; two refreshes may land in the wrong order.
* Credentials: the id of one App may be read with the key of another, which GitHub refuses; a
  database error falls back to the environment's App without a word.
* Memra: a token renewed within a call drops the session and uses up the call's retry.
* Queue: if `init_queue` or `recover_orphans` raises, the process serves without a worker
  (`BootRaises`); jobs run Codex outside the guard (`shared/codex_cli.py:261`);
  `reviewed_commits` is keyed by repository and commit, so that two pull requests with one head share a row.

## 7. Not modelled

Agents' prompts and read-only skills (what a model says is not decided by this code);
the console's web UI; HTML and message layout; sessions, cookies and the exchange with the
identity provider, apart from the invite a sign-in applies; `acquire_async`, which has no
caller; todos, which are single rows of one user; the migrations; and Agno's scheduler,
agents and memory, whose code is a library. `PROJECT.json` gives each component its
status.

## 8. Plan

The modules of the plan are written, and every safety property of a module with state has its
theorem. What remains, should the code or its library change: the exact type invariants of
the services that have weaker ones in their inductive invariants, and a refinement of `Reminders`
and `Standup` by one abstract specification of a table of items that both write. A change in
`src/` that touches lines of the map in `PROJECT.json` asks for its definition to be read
again, the run of its module, and then the theorems of the module that names it.
