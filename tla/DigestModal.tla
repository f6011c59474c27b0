---------------------------- MODULE DigestModal -----------------------------
(***************************************************************************)
(* The form that schedules a sprint report (interfaces/slack_home/): it is *)
(* opened with a placeholder, and a background task fills in the boards    *)
(* that Jira has.  Picking an engagement starts another task, which looks  *)
(* up when its sprint ends and renders the form anew, with that engagement *)
(* chosen and its date shown.  Updates carry no version: the last to reach *)
(* Slack stands.  A submission looks the date up again, and pins the       *)
(* schedule to its weekday.                                                *)
(***************************************************************************)
EXTENDS Naturals, FiniteSets

CONSTANTS
  Board,          \* the boards that Jira may have
  KeyOf,          \* board -> the key of its project
  ScrumBoard,     \* those that have sprints
  Weekday,        \* the weekdays a sprint may end on
  Friday,         \* the one that stands for none known
  BoardsKept,     \* how long a list of boards is kept (300 s in the code)
  MaxModalTime,   \* bound: the clock
  MaxPicks,       \* bound: choices made in the form
  MaxModalFaults  \* bound: calls to Jira or Slack that fail

VARIABLES
  boards, ends,  \* Jira: its boards, and key -> the weekday its sprint ends on
  kept, keptAt,  \* the list of keys kept by the process, and since when
  form,          \* what Slack shows: "closed" or "open", the keys listed, the key chosen,
                 \* the key and the weekday that the date shown is of
  tasks,         \* key -> a task that renders the form for it; NoChoice fills it
  scheduled,     \* schedules created: key, weekday, whether Jira told it
  picked,        \* the keys the viewer chose, of this form
  now, picks, modalFaults, apiece

modalVars == <<boards, ends, kept, keptAt, form, tasks, scheduled, picked, now, picks, modalFaults, apiece>>

NoChoice    == "none"   \* the value of a placeholder option, and no date
BoardKey    == {KeyOf[b] : b \in Board}
NoDate      == [key |-> NoChoice, day |-> Friday]
ClosedForm  == [at |-> "closed", listed |-> {}, chosen |-> NoChoice, date |-> NoDate]
NoModalTask == [at |-> "none", day |-> Friday]

ASSUME ModalAssumption == NoChoice \notin BoardKey /\ Friday \in Weekday

ModalTypeOK ==
  /\ boards \subseteq Board /\ ends \in [BoardKey -> Weekday]
  /\ kept \subseteq BoardKey /\ keptAt \in 0..MaxModalTime
  /\ form \in [at : {"closed", "open"}, listed : SUBSET BoardKey, chosen : BoardKey \union {NoChoice},
               date : [key : BoardKey \union {NoChoice}, day : Weekday]]
  /\ tasks \in [BoardKey \union {NoChoice} -> [at : {"none", "begun", "dated"}, day : Weekday]]
  /\ scheduled \subseteq [key : BoardKey, day : Weekday, sure : BOOLEAN] /\ picked \subseteq BoardKey
  /\ now \in 0..MaxModalTime /\ picks \in 0..MaxPicks /\ modalFaults \in 0..MaxModalFaults /\ apiece \in BOOLEAN

ModalInit ==
  /\ boards \in SUBSET Board /\ ends \in [BoardKey -> Weekday]
  /\ kept = {} /\ keptAt = 0
  /\ form = ClosedForm /\ tasks = [k \in BoardKey \union {NoChoice} |-> NoModalTask]
  /\ scheduled = {} /\ picked = {}
  /\ now = 0 /\ picks = 0 /\ modalFaults = 0 /\ apiece = TRUE

ModalFault == modalFaults < MaxModalFaults /\ modalFaults' = modalFaults + 1

-----------------------------------------------------------------------------
(* sprint_board_options_with_reason: a list that is not empty is kept for a while *)

BoardOptions_All(bs) == {KeyOf[b] : b \in bs}
BoardOptions(bs)     == {KeyOf[b] : b \in bs \intersect ScrumBoard}
BoardsFresh == kept # {} /\ now - keptAt < BoardsKept
ListedKeys  == IF BoardsFresh THEN kept ELSE BoardOptions(boards)
KeepBoards ==
  IF BoardsFresh \/ BoardOptions(boards) = {} THEN UNCHANGED <<kept, keptAt>>
  ELSE kept' = BoardOptions(boards) /\ keptAt' = now

-----------------------------------------------------------------------------
(* The clicks *)

BeginTask(k)  == tasks' = [tasks EXCEPT ![k] = [NoModalTask EXCEPT !.at = "begun"]]
FinishTask(k) == tasks' = [tasks EXCEPT ![k] = NoModalTask]
NoTasks == \A k \in DOMAIN tasks : tasks[k] = NoModalTask

\* add_sprint: the placeholder at once, within the time that the click is good for.
OpenForm ==
  /\ form.at = "closed" /\ NoTasks /\ scheduled = {}
  /\ form' = [ClosedForm EXCEPT !.at = "open"]
  /\ BeginTask(NoChoice)
  /\ UNCHANGED <<boards, ends, kept, keptAt, scheduled, picked, now, picks, modalFaults, apiece>>

\* sprint_eng_selected: any option but the placeholder starts a task.
Pick(k) ==
  /\ form.at = "open" /\ k \in form.listed /\ picks < MaxPicks /\ tasks[k] = NoModalTask
  /\ picks' = picks + 1
  /\ form' = [form EXCEPT !.chosen = k]
  /\ picked' = picked \union {k}
  /\ BeginTask(k)
  /\ apiece' = (apiece /\ NoTasks)
  /\ UNCHANGED <<boards, ends, kept, keptAt, scheduled, now, modalFaults>>

\* The viewer closes the form; a task that is under way updates nothing.
Cancel ==
  /\ form.at = "open"
  /\ form' = ClosedForm /\ picked' = {}
  /\ UNCHANGED <<boards, ends, kept, keptAt, tasks, scheduled, now, picks, modalFaults, apiece>>

-----------------------------------------------------------------------------
(* The background tasks *)

\* fill_sprint_modal
FillForm ==
  /\ tasks[NoChoice].at = "begun" /\ FinishTask(NoChoice) /\ KeepBoards
  /\ form' = IF form.at = "closed" THEN form ELSE [form EXCEPT !.listed = ListedKeys]
  /\ UNCHANGED <<boards, ends, scheduled, picked, now, picks, modalFaults, apiece>>

\* show_sprint_end: the date first; without one, a line says Friday.
LookUpEnd(k) ==
  /\ k \in BoardKey /\ tasks[k].at = "begun"
  /\ tasks' = [tasks EXCEPT ![k] = [at |-> "dated", day |-> ends[k]]]
  /\ UNCHANGED <<boards, ends, kept, keptAt, form, scheduled, picked, now, picks, modalFaults, apiece>>
LookUpEndFails(k) ==
  /\ k \in BoardKey /\ tasks[k].at = "begun" /\ ModalFault
  /\ tasks' = [tasks EXCEPT ![k] = [at |-> "dated", day |-> Friday]]
  /\ apiece' = FALSE
  /\ UNCHANGED <<boards, ends, kept, keptAt, form, scheduled, picked, now, picks>>

\* The key of the task is the initial option, if it is listed; whether that replaces what
\* was chosen since is Slack's.
InitialOption_Lost(k) == NoChoice
InitialOption(k) == IF k \in ListedKeys THEN k ELSE NoChoice
Rerender(k) ==
  /\ tasks[k].at = "dated" /\ FinishTask(k) /\ KeepBoards
  /\ \E chosen \in {InitialOption(k), form.chosen} :
       form' = IF form.at = "closed" THEN form
               ELSE [form EXCEPT !.listed = ListedKeys, !.date = [key |-> k, day |-> tasks[k].day],
                                 !.chosen = chosen]
  /\ UNCHANGED <<boards, ends, scheduled, picked, now, picks, modalFaults, apiece>>

\* views.update raises: logged, and the form stays as it was.
UpdateFails(k) ==
  /\ tasks[k].at \in (IF k = NoChoice THEN {"begun"} ELSE {"dated"}) /\ ModalFault /\ FinishTask(k)
  /\ apiece' = FALSE
  /\ UNCHANGED <<boards, ends, kept, keptAt, form, scheduled, picked, now, picks>>

\* create_sprint, and create_sprint_report_schedule: a placeholder creates nothing.
CreateReport(day, sure) ==
  /\ form.at = "open" /\ form' = ClosedForm
  /\ scheduled' = IF form.chosen = NoChoice THEN scheduled
                  ELSE scheduled \union {[key |-> form.chosen, day |-> day, sure |-> sure]}
  /\ UNCHANGED <<boards, ends, kept, keptAt, tasks, picked, now, picks, apiece>>
DayOf_Shown(k) == form.date.day
DayOf(k) == IF k = NoChoice THEN Friday ELSE ends[k]
SubmitModal == CreateReport(DayOf(form.chosen), TRUE) /\ UNCHANGED modalFaults

\* Jira cannot tell: Fridays.
SubmitModalBlind == CreateReport(Friday, FALSE) /\ ModalFault

-----------------------------------------------------------------------------
(* Jira, and the clock *)

BoardChanges(b) ==
  /\ ModalFault
  /\ boards' = IF b \in boards THEN boards \ {b} ELSE boards \union {b}
  /\ apiece' = FALSE
  /\ UNCHANGED <<ends, kept, keptAt, form, tasks, scheduled, picked, now, picks>>

ClockTicks ==
  /\ now < MaxModalTime /\ now' = now + 1
  /\ UNCHANGED <<boards, ends, kept, keptAt, form, tasks, scheduled, picked, picks, modalFaults, apiece>>

ModalNext ==
  \/ OpenForm \/ Cancel \/ FillForm \/ SubmitModal \/ SubmitModalBlind \/ ClockTicks
  \/ \E k \in BoardKey : Pick(k) \/ LookUpEnd(k) \/ LookUpEndFails(k) \/ Rerender(k)
  \/ \E k \in BoardKey \union {NoChoice} : UpdateFails(k)
  \/ \E b \in Board : BoardChanges(b)

ModalSpec == ModalInit /\ [][ModalNext]_modalVars

-----------------------------------------------------------------------------
(* Properties *)

\* A schedule is created for an engagement that its viewer chose in that form and that
\* has sprints, and on the weekday that its own sprint ends on if Jira tells it, whatever
\* date the form shows when two choices overlap.
MadeAsPicked ==
  \A s \in scheduled : s.key \in picked /\ (\E b \in ScrumBoard : KeyOf[b] = s.key) /\ (s.sure => s.day = ends[s.key])

\* As long as no two tasks overlap and nothing fails, a form at rest shows the date of the
\* engagement that is chosen.
DateIsOfTheChosen ==
  apiece /\ NoTasks /\ form.at = "open" =>
    /\ form.date.key = form.chosen
    /\ form.chosen # NoChoice => form.date.day = ends[form.chosen]
=============================================================================
