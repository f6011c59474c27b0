---------------------------- MODULE SprintReport ----------------------------
(***************************************************************************)
(* The scheduled report of one engagement (skills/sprint_report/tool.py,   *)
(* shared/integrations/spin.py).  A run first reads the dossier, then      *)
(* publishes: the facts are read from Jira again, a sprint that is already *)
(* marked is skipped, the page goes to Spin or, when Spin fails, to Slack  *)
(* as a draft, and only a page on Spin sets the mark.  The link is posted  *)
(* by the run itself, after the tool has returned.                         *)
(* A sprint is named by its Jira id; 0 stands for none.                    *)
(***************************************************************************)
EXTENDS Naturals, FiniteSets, FiniteSetsExt

CONSTANTS
  ReportRun,       \* slots of scheduled runs: the scheduler, its retries, a run by hand
  LastSprint,      \* the sprints are 1..LastSprint
  MaxReports,      \* bound: runs started
  MaxReportFaults  \* bound: calls that fail and runs that die

ASSUME ReportAssumption == LastSprint \in Nat /\ MaxReports \in Nat /\ MaxReportFaults \in Nat

VARIABLES
  closed,        \* Jira: the closed sprints
  projects,      \* Spin: the sprints that have a project (one subdomain each)
  reportedAs,    \* settings: the sprint last reported
  report,        \* slot -> where its run is
  deploys,       \* sprint -> times its page was deployed
  shared, lost,  \* sprints whose link was posted, or whose run died with the link
  reports, reportFaults, apart

reportVars == <<closed, projects, reportedAs, report, deploys, shared, lost, reports, reportFaults, apart>>

Sprint   == 1..LastSprint
NoReport == [at |-> "idle", sprint |-> 0]
Stages   == {"idle", "told", "gathered", "creating", "deploying", "deployed", "drafted", "linked"}

ReportTypeOK ==
  /\ closed \subseteq Sprint /\ projects \subseteq Sprint
  /\ reportedAs \in 0..LastSprint
  /\ report \in [ReportRun -> [at : Stages, sprint : 0..LastSprint]]
  /\ deploys \in [Sprint -> 0..MaxReports]
  /\ shared \subseteq Sprint /\ lost \subseteq Sprint
  /\ reports \in 0..MaxReports /\ reportFaults \in 0..MaxReportFaults /\ apart \in BOOLEAN

ReportInit ==
  /\ closed = {} /\ projects = {} /\ reportedAs = 0
  /\ report = [r \in ReportRun |-> NoReport]
  /\ deploys = [s \in Sprint |-> 0]
  /\ shared = {} /\ lost = {} /\ reports = 0 /\ reportFaults = 0 /\ apart = TRUE

\* The most recently closed sprint, by id.
LatestClosed == IF closed = {} THEN 0 ELSE Max(closed)

ReportGoesTo(r, at) == report' = [report EXCEPT ![r].at = at]
ReportFault          == reportFaults < MaxReportFaults /\ reportFaults' = reportFaults + 1

-----------------------------------------------------------------------------
(* Jira, and the run's first tool call *)

Close(s) ==
  /\ s \notin closed
  /\ closed' = closed \union {s}
  /\ UNCHANGED <<projects, reportedAs, report, deploys, shared, lost, reports, reportFaults, apart>>

\* build_sprint_dossier; with no closed sprint there is nothing to report.
ReadDossier(r) ==
  /\ report[r] = NoReport /\ reports < MaxReports /\ LatestClosed # 0
  /\ reports' = reports + 1
  /\ ReportGoesTo(r, "told")
  /\ apart' = (apart /\ \A q \in ReportRun : report[q] = NoReport)
  /\ UNCHANGED <<closed, projects, reportedAs, deploys, shared, lost, reportFaults>>

(* publish_sprint_report, scheduled and only_if_new *)

Reported_Never(s) == FALSE
Reported(s) == reportedAs = s

\* The facts are read again; a sprint that is marked is skipped.
Gather(r) ==
  /\ report[r].at = "told"
  /\ report' = [report EXCEPT ![r] = IF Reported(LatestClosed) THEN NoReport
                                     ELSE [at |-> "gathered", sprint |-> LatestClosed]]
  /\ UNCHANGED <<closed, projects, reportedAs, deploys, shared, lost, reports, reportFaults, apart>>

\* get_setting answers None to a database error.
GatherBlind(r) ==
  /\ report[r].at = "told" /\ ReportFault
  /\ report' = [report EXCEPT ![r] = [at |-> "gathered", sprint |-> LatestClosed]]
  /\ apart' = FALSE
  /\ UNCHANGED <<closed, projects, reportedAs, deploys, shared, lost, reports>>

LookForProject(r) ==
  /\ report[r].at = "gathered"
  /\ ReportGoesTo(r, IF report[r].sprint \in projects THEN "deploying" ELSE "creating")
  /\ UNCHANGED <<closed, projects, reportedAs, deploys, shared, lost, reports, reportFaults, apart>>

\* A subdomain is unique: the second of two runs is refused, and falls back.
CreateProject(r) ==
  /\ report[r].at = "creating"
  /\ ReportGoesTo(r, IF report[r].sprint \in projects THEN "drafted" ELSE "deploying")
  /\ projects' = projects \union {report[r].sprint}
  /\ UNCHANGED <<closed, reportedAs, deploys, shared, lost, reports, reportFaults, apart>>

Deploy(r) ==
  /\ report[r].at = "deploying"
  /\ deploys' = [deploys EXCEPT ![report[r].sprint] = @ + 1]
  /\ ReportGoesTo(r, "deployed")
  /\ UNCHANGED <<closed, projects, reportedAs, shared, lost, reports, reportFaults, apart>>

\* Any call to Spin raises: the page is uploaded to Slack, or not even that.
SpinFails(r) ==
  /\ report[r].at \in {"gathered", "creating", "deploying"} /\ ReportFault
  /\ ReportGoesTo(r, "drafted")
  /\ UNCHANGED <<closed, projects, reportedAs, deploys, shared, lost, reports, apart>>

MarkReported_Draft(r) ==
  /\ report[r].at \in {"deployed", "drafted"}
  /\ reportedAs' = report[r].sprint
  /\ ReportGoesTo(r, "linked")
  /\ UNCHANGED <<closed, projects, deploys, shared, lost, reports, reportFaults, apart>>

\* The mark is set for a page on Spin alone; a draft ends the run without it.
MarkReported(r) ==
  /\ report[r].at = "deployed"
  /\ reportedAs' = report[r].sprint
  /\ ReportGoesTo(r, "linked")
  /\ UNCHANGED <<closed, projects, deploys, shared, lost, reports, reportFaults, apart>>

MarkFails(r) ==
  /\ report[r].at = "deployed" /\ ReportFault
  /\ ReportGoesTo(r, "linked")
  /\ apart' = FALSE
  /\ UNCHANGED <<closed, projects, reportedAs, deploys, shared, lost, reports>>

Drafted(r) ==
  /\ report[r].at = "drafted"
  /\ report' = [report EXCEPT ![r] = NoReport]
  /\ UNCHANGED <<closed, projects, reportedAs, deploys, shared, lost, reports, reportFaults, apart>>

\* The run posts the link with its own Slack tool.
ShareLink(r) ==
  /\ report[r].at = "linked"
  /\ shared' = shared \union {report[r].sprint}
  /\ report' = [report EXCEPT ![r] = NoReport]
  /\ UNCHANGED <<closed, projects, reportedAs, deploys, lost, reports, reportFaults, apart>>

\* A run times out, its process ends, or its post fails; the scheduler starts another.
RunDies(r) ==
  /\ report[r] # NoReport /\ ReportFault
  /\ report' = [report EXCEPT ![r] = NoReport]
  /\ lost' = IF report[r].at = "linked" THEN lost \union {report[r].sprint} ELSE lost
  /\ apart' = (apart /\ report[r].at # "deployed")
  /\ UNCHANGED <<closed, projects, reportedAs, deploys, shared, reports>>

ReportNext ==
  \/ \E s \in Sprint : Close(s)
  \/ \E r \in ReportRun :
       \/ ReadDossier(r) \/ Gather(r) \/ GatherBlind(r) \/ LookForProject(r) \/ CreateProject(r)
       \/ Deploy(r) \/ SpinFails(r) \/ MarkReported(r) \/ MarkFails(r) \/ Drafted(r)
       \/ ShareLink(r) \/ RunDies(r)

ReportSpec == ReportInit /\ [][ReportNext]_reportVars

-----------------------------------------------------------------------------
(* Properties *)

\* A draft or a failed delivery never suppresses the report: what is marked is on Spin.
MarkedIsPublished == reportedAs # 0 => deploys[reportedAs] > 0

\* As long as runs do not overlap and no mark is lost or unread, a sprint is published
\* once, whatever else fails and however the sprints close.
PublishedOnce == apart => \A s \in Sprint : deploys[s] <= 1

\* A published sprint is shared in the end, unless the run that has the link dies with
\* it: the mark is set before the link is posted, so no later run posts it.
MarkedIsShared ==
  reportedAs # 0 => \/ reportedAs \in shared \union lost
                    \/ \E r \in ReportRun : report[r] = [at |-> "linked", sprint |-> reportedAs]

\* A delivered report suppresses the next one of its sprint, and nothing else does.
ReportSafe == MarkedIsPublished /\ PublishedOnce /\ MarkedIsShared
=============================================================================
