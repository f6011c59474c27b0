------------------------------ MODULE HomeTab -------------------------------
(***************************************************************************)
(* One viewer's App Home (interfaces/slack_home/router.py): Slack delivers *)
(* a click, and delivers it again when it has no answer in time; the       *)
(* handler answers a retry without acting, acts on the first delivery or   *)
(* leaves the work to a task in the background, and a task rebuilds the    *)
(* Home from several reads.  What a click is for:                          *)
(*   open    app_home_opened             done    an action item, in line   *)
(*   remove  a schedule, in line         run     a schedule, in the task   *)
(*   submit  a schedule or the models    ask     the agent or a report,    *)
(*           are set, in the task                in the task               *)
(* The viewer's data is told by version numbers, of the schedules and of   *)
(* the action items.                                                       *)
(***************************************************************************)
EXTENDS Naturals

CONSTANTS
  Click,         \* the clicks of a behaviour
  MaxHomeFaults  \* bound: calls that fail and restarts

VARIABLES
  click,         \* click -> what it is for
  wire,          \* click -> deliveries under way
  answered,      \* click -> Slack has a 200
  acted,         \* click -> times its effect was brought about
  refused,       \* clicks the viewer was not allowed
  task,          \* click -> its background task, and what it has read
  data,          \* the viewer's schedules and items, by version
  home,          \* the versions that the Home shows
  owner,         \* whether the viewer owns the schedule (another's change of it may end that)
  dropped,       \* clicks whose work a restart or a failure has cost
  homeFaults, inTurn

homeVars == <<click, wire, answered, acted, refused, task, data, home, owner, dropped, homeFaults, inTurn>>

KindsOfClick == {"open", "done", "remove", "submit", "run", "ask"}
Versions     == [sched : Nat, items : Nat]
NoTask       == [at |-> "none", sched |-> 0, items |-> 0]

HomeTypeOK ==
  /\ click \in [Click -> KindsOfClick]
  /\ wire \in [Click -> SUBSET {"first", "retry"}] /\ answered \in [Click -> BOOLEAN]
  /\ acted \in [Click -> 0..2] /\ refused \subseteq Click
  /\ \A c \in Click : task[c].at \in {"none", "work", "read", "half", "publish"}
  /\ data \in Versions /\ home \in Versions /\ owner \in BOOLEAN
  /\ homeFaults \in 0..MaxHomeFaults /\ inTurn \in BOOLEAN /\ dropped \in SUBSET Click

HomeInit ==
  /\ click \in [Click -> KindsOfClick]
  /\ wire = [c \in Click |-> {"first"}] /\ answered = [c \in Click |-> FALSE]
  /\ acted = [c \in Click |-> 0] /\ refused = {}
  /\ task = [c \in Click |-> NoTask]
  /\ data = [sched |-> 1, items |-> 1] /\ home = [sched |-> 0, items |-> 0]
  /\ owner \in BOOLEAN
  /\ homeFaults = 0 /\ inTurn = TRUE /\ dropped = {}

HomeFault == homeFaults < MaxHomeFaults /\ homeFaults' = homeFaults + 1

\* No answer within three seconds: the same click once more, with X-Slack-Retry-Num.
SlackRetries(c) ==
  /\ ~answered[c] /\ "retry" \notin wire[c]
  /\ wire' = [wire EXCEPT ![c] = @ \union {"retry"}]
  /\ UNCHANGED <<answered, acted, refused, task, data, home, owner, homeFaults, inTurn, dropped>>

Resting(c) == task[c].at = "none"
Alone      == \A c \in Click : Resting(c)

-----------------------------------------------------------------------------
(* slack_events, slack_interactivity *)

Deliver(c, how) ==
  /\ how \in wire[c]
  /\ wire' = [wire EXCEPT ![c] = @ \ {how}]
  /\ answered' = [answered EXCEPT ![c] = TRUE]

\* A task that overlaps another may publish what it read before the other's change.
StartTask(c, at) == /\ task' = [task EXCEPT ![c] = [NoTask EXCEPT !.at = at]]
                    /\ inTurn' = (inTurn /\ Alone)
Effect(c)        == acted' = [acted EXCEPT ![c] = @ + 1]
Change(what)     == data' = [data EXCEPT ![what] = @ + 1]

HandleRetry_Again(c) ==
  /\ Deliver(c, "retry")
  /\ IF click[c] = "run" THEN StartTask(c, "work") ELSE UNCHANGED <<task, inTurn>>
  /\ UNCHANGED <<acted, refused, data, home, owner, homeFaults, dropped>>
HandleRetry(c) ==
  /\ Deliver(c, "retry")
  /\ UNCHANGED <<acted, refused, task, data, home, owner, homeFaults, inTurn, dropped>>

Open(c) ==
  /\ click[c] = "open" /\ Deliver(c, "first")
  /\ StartTask(c, "read") /\ Effect(c)
  /\ UNCHANGED <<refused, data, home, owner, homeFaults, dropped>>

MarkDone_NoRefresh(c) ==
  /\ click[c] = "done" /\ Deliver(c, "first")
  /\ Effect(c) /\ Change("items")
  /\ UNCHANGED <<refused, task, home, owner, homeFaults, inTurn, dropped>>
MarkDone(c) ==
  /\ click[c] = "done" /\ Deliver(c, "first")
  /\ Effect(c) /\ Change("items") /\ StartTask(c, "read")
  /\ UNCHANGED <<refused, home, owner, homeFaults, dropped>>

\* The database refuses: logged, and the Home follows all the same.
DoneFails(c) ==
  /\ click[c] = "done" /\ Deliver(c, "first") /\ HomeFault
  /\ dropped' = dropped \union {c} /\ StartTask(c, "read")
  /\ UNCHANGED <<acted, refused, data, home, owner>>

\* The owner or an admin may remove and run a schedule; when users.info fails the viewer
\* has no email, and is refused.
Allowed(c) == owner \/ click[c] \notin {"remove", "run"}

Refuse(c) ==
  /\ click[c] \in {"remove", "run"} /\ Deliver(c, "first")
  /\ \/ ~Allowed(c) /\ UNCHANGED homeFaults
     \/ Allowed(c) /\ HomeFault
  /\ refused' = refused \union {c}
  /\ UNCHANGED <<acted, task, data, home, owner, inTurn, dropped>>

RemoveCards(c) ==
  /\ click[c] = "remove" /\ Allowed(c) /\ Deliver(c, "first")
  /\ Effect(c) /\ Change("sched") /\ StartTask(c, "read")
  /\ UNCHANGED <<refused, home, owner, homeFaults, dropped>>

\* service.remove logs what a deletion raises and goes on to the next id.
RemoveFails(c) ==
  /\ click[c] = "remove" /\ Allowed(c) /\ Deliver(c, "first") /\ HomeFault
  /\ Change("sched") \/ UNCHANGED data
  /\ dropped' = dropped \union {c} /\ StartTask(c, "read")
  /\ UNCHANGED <<acted, refused, home, owner>>

\* Nothing catches what the owner's check or the removal raises: Slack gets a 500, and its
\* retry is answered without acting.
RemoveCardsRaises(c) ==
  /\ click[c] \in {"remove", "run"} /\ "first" \in wire[c] /\ HomeFault
  /\ wire' = [wire EXCEPT ![c] = @ \ {"first"}]
  /\ dropped' = dropped \union {c}
  /\ UNCHANGED <<answered, acted, refused, task, data, home, owner, inTurn>>

\* Answered at once: the modal closes before its task has begun.
Defer(c) ==
  /\ click[c] \in {"submit", "run", "ask"} /\ Allowed(c) /\ Deliver(c, "first")
  /\ StartTask(c, "work")
  /\ UNCHANGED <<acted, refused, data, home, owner, homeFaults, dropped>>

-----------------------------------------------------------------------------
(* The background tasks *)

\* _do_submit, _do_models_submit: the Home follows, whether the write succeeded or not.
SubmitForm(c) ==
  /\ click[c] = "submit" /\ task[c].at = "work"
  /\ Effect(c) /\ Change("sched")
  /\ task' = [task EXCEPT ![c].at = "read"]
  /\ UNCHANGED <<wire, answered, refused, home, owner, homeFaults, inTurn, dropped>>
SubmitFails(c) ==
  /\ click[c] = "submit" /\ task[c].at = "work" /\ HomeFault
  /\ task' = [task EXCEPT ![c].at = "read"]
  /\ dropped' = dropped \union {c}
  /\ UNCHANGED <<wire, answered, acted, refused, data, home, owner, inTurn>>

\* run_now, run_ask, the quick actions: the result goes to a channel or a DM.
RunAndTell(c) ==
  /\ click[c] \in {"run", "ask"} /\ task[c].at = "work"
  /\ Effect(c)
  /\ task' = [task EXCEPT ![c] = NoTask]
  /\ UNCHANGED <<wire, answered, refused, data, home, owner, homeFaults, inTurn, dropped>>

\* What the trigger or Slack raises is logged, and nothing is told.
RunFails(c) ==
  /\ click[c] \in {"run", "ask"} /\ task[c].at = "work" /\ HomeFault
  /\ task' = [task EXCEPT ![c] = NoTask]
  /\ dropped' = dropped \union {c}
  /\ UNCHANGED <<wire, answered, acted, refused, data, home, owner, inTurn>>

\* publish_home: the schedules, then the items and approvals, then views.publish.
ReadSchedules(c) ==
  /\ task[c].at = "read"
  /\ task' = [task EXCEPT ![c] = [at |-> "half", sched |-> data.sched, items |-> 0]]
  /\ UNCHANGED <<wire, answered, acted, refused, data, home, owner, homeFaults, inTurn, dropped>>
ReadItems(c) ==
  /\ task[c].at = "half"
  /\ task' = [task EXCEPT ![c].at = "publish", ![c].items = data.items]
  /\ UNCHANGED <<wire, answered, acted, refused, data, home, owner, homeFaults, inTurn, dropped>>
\* A source that fails is shown as empty.
ItemsUnread(c) ==
  /\ task[c].at = "half" /\ HomeFault
  /\ task' = [task EXCEPT ![c].at = "publish"]
  /\ inTurn' = FALSE
  /\ UNCHANGED <<wire, answered, acted, refused, data, home, owner, dropped>>
Publish(c) ==
  /\ task[c].at = "publish"
  /\ home' = [sched |-> task[c].sched, items |-> task[c].items]
  /\ task' = [task EXCEPT ![c] = NoTask]
  /\ UNCHANGED <<wire, answered, acted, refused, data, owner, homeFaults, inTurn, dropped>>

\* A read or the call to Slack raises: the Home stays as it was.
PublishFails(c) ==
  /\ task[c].at \in {"read", "half", "publish"} /\ HomeFault
  /\ task' = [task EXCEPT ![c] = NoTask]
  /\ inTurn' = FALSE
  /\ UNCHANGED <<wire, answered, acted, refused, data, home, owner, dropped>>

\* Chat, the console or another process changes the viewer's data: no Home follows.
Elsewhere(what) ==
  /\ HomeFault /\ Change(what) /\ inTurn' = FALSE
  /\ owner' \in (IF what = "sched" THEN BOOLEAN ELSE {owner})
  /\ UNCHANGED <<wire, answered, acted, refused, task, home, dropped>>

\* Tasks live in memory: a restart loses them, and the first deliveries it answers not.
HomeRestart ==
  /\ HomeFault
  /\ dropped' = dropped \union {c \in Click : task[c].at = "work"}
  /\ task' = [c \in Click |-> NoTask]
  /\ inTurn' = (inTurn /\ Alone)
  /\ UNCHANGED <<wire, answered, acted, refused, data, home, owner>>
LoseFirst(c) ==
  /\ HomeFault /\ "first" \in wire[c]
  /\ wire' = [wire EXCEPT ![c] = @ \ {"first"}]
  /\ dropped' = dropped \union {c}
  /\ UNCHANGED <<answered, acted, refused, task, data, home, owner, inTurn>>

HomeNext ==
  /\ UNCHANGED click
  /\ \/ \E c \in Click :
          \/ SlackRetries(c) \/ HandleRetry(c) \/ Open(c) \/ MarkDone(c) \/ DoneFails(c) \/ Refuse(c) \/ RemoveCards(c)
          \/ RemoveFails(c) \/ RemoveCardsRaises(c) \/ Defer(c) \/ SubmitForm(c) \/ SubmitFails(c)
          \/ RunAndTell(c) \/ RunFails(c) \/ ReadSchedules(c)
          \/ ReadItems(c) \/ ItemsUnread(c) \/ Publish(c) \/ PublishFails(c) \/ LoseFirst(c)
     \/ \E what \in {"sched", "items"} : Elsewhere(what)
     \/ HomeRestart

HomeSpec == HomeInit /\ [][HomeNext]_homeVars

-----------------------------------------------------------------------------
(* Properties *)

\* However often Slack delivers a click, it acts once; and one that Slack has an answer
\* to has acted, was refused, is being worked on, or was lost in a restart or a failure.
ClicksActOnce ==
  \A c \in Click :
    /\ acted[c] <= 1 /\ (c \in refused => acted[c] = 0)
    /\ answered[c] /\ "first" \notin wire[c] =>
         acted[c] = 1 \/ c \in refused \union dropped \/ task[c].at = "work"

\* A Home at rest shows the viewer's data as it is, as long as no two tasks overlap,
\* none fails, and nothing changes elsewhere: every handler that changes something
\* refreshes it.
HomeIsCurrent ==
  inTurn /\ Alone /\ (\E c \in Click : acted[c] > 0 /\ click[c] \in {"open", "done", "remove", "submit"})
    => home = data

\* A click acts once, and the Home follows what it changed.
HomeHolds == ClicksActOnce /\ HomeIsCurrent
=============================================================================
