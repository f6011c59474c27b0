------------------------------- MODULE Standup -------------------------------
(***************************************************************************)
(* A team's asynchronous stand-up: the round is opened with a message in   *)
(* the channel, members submit updates, and closing it posts the pre-read  *)
(* in the round's thread and files a personal follow-up for each member    *)
(* with a blocker.  Closes come from the scheduler and from "Run now", so  *)
(* that two may run at once.  An update is its author, whether it names a  *)
(* blocker, and its place in the table.                                    *)
(***************************************************************************)
EXTENDS Naturals, FiniteSets

CONSTANTS
  Member,
  Job,            \* runs of the schedules in flight
  MaxDate,        \* bound: days
  MaxUpdates,     \* bound: updates submitted
  MaxRuns,        \* bound: runs of a schedule
  MaxUpsets       \* bound: Slack errors, database errors and crashes

ASSUME StandupAssumption ==
  MaxDate \in Nat \ {0} /\ MaxUpdates \in Nat /\ MaxRuns \in Nat /\ MaxUpsets \in Nat

VARIABLES
  today,       \* today_key()
  threads,     \* messages posted by open_standup
  round,       \* [date -> thread of the round, 0 for none]
  updates,     \* standup_responses: set of [date, user, blocker, id]
  marker,      \* the dsm.blocker_captured settings: set of <<date, user>>
  items,       \* [<<date, user>> -> follow-ups filed]
  posts,       \* pre-reads posted: set of [thread, shown]
  jobs, runs, upsets,
  clashed      \* history variable: rounds on which two closes were at work at
               \* once, one was lost midway, or one could not read a marker

standupVars == <<today, threads, round, updates, marker, items, posts, jobs, runs, upsets, clashed>>

Date  == 1..MaxDate
Rest  == [pc |-> "idle", date |-> 0, thread |-> 0, shown |-> {}, left |-> {}, who |-> "none"]
Busy(j) == jobs[j].pc # "idle"

StandupTypeOK ==
  /\ today \in Date /\ threads \in 0..MaxRuns
  /\ round \in [Date -> 0..threads]
  /\ \A u \in updates : u.date \in Date /\ u.user \in Member /\ u.id \in 1..MaxUpdates
  /\ marker \subseteq Date \X Member
  /\ items \in [Date \X Member -> Nat]
  /\ \A p \in posts : p.thread \in 1..threads /\ p.shown \subseteq updates
  /\ \A j \in Job : jobs[j].shown \subseteq updates /\ jobs[j].left \subseteq updates
  /\ runs \in 0..MaxRuns /\ upsets \in 0..MaxUpsets
  /\ clashed \subseteq Date

StandupInit ==
  /\ today = 1 /\ threads = 0 /\ round = [d \in Date |-> 0]
  /\ updates = {} /\ marker = {} /\ items = [k \in Date \X Member |-> 0] /\ posts = {}
  /\ jobs = [j \in Job |-> Rest] /\ runs = 0 /\ upsets = 0 /\ clashed = {}

-----------------------------------------------------------------------------

Midnight == /\ today < MaxDate /\ today' = today + 1
            /\ UNCHANGED <<threads, round, updates, marker, items, posts, jobs, runs, upsets, clashed>>

GoOn(j, pc) == jobs' = [jobs EXCEPT ![j].pc = pc]
Upset       == upsets < MaxUpsets /\ upsets' = upsets + 1
BeginRun    == runs < MaxRuns /\ runs' = runs + 1

\* open_standup posts the message, and then records the round with its thread.
PostOpening(j) ==
  /\ ~Busy(j) /\ BeginRun
  /\ threads' = threads + 1
  /\ jobs' = [jobs EXCEPT ![j] = [Rest EXCEPT !.pc = "record", !.thread = threads + 1]]
  /\ UNCHANGED <<today, round, updates, marker, items, posts, upsets, clashed>>

\* open_round: a second opening of the day resets the round to its own thread.
RecordRound(j) ==
  /\ jobs[j].pc = "record"
  /\ round' = [round EXCEPT ![today] = jobs[j].thread]
  /\ jobs' = [jobs EXCEPT ![j] = Rest]
  /\ UNCHANGED <<today, threads, updates, marker, items, posts, runs, upsets, clashed>>

\* The modal's date is that of the day it was opened; nothing asks whether the
\* round is still open.
Submit(u, blocker, d) ==
  /\ Cardinality(updates) < MaxUpdates
  /\ threads > 0 /\ d \in 1..today
  /\ updates' = updates \union {[date |-> d, user |-> u, blocker |-> blocker, id |-> Cardinality(updates) + 1]}
  /\ UNCHANGED <<today, threads, round, marker, items, posts, jobs, runs, upsets, clashed>>

Of(d) == {u \in updates : u.date = d}

\* close_standup reads the updates it will show.
StartClose(j) ==
  /\ ~Busy(j) /\ BeginRun
  /\ jobs' = [jobs EXCEPT ![j] = [Rest EXCEPT !.pc = "capture", !.date = today, !.shown = Of(today)]]
  /\ clashed' = IF \E o \in Job : jobs[o].date = today THEN clashed \union {today} ELSE clashed
  /\ UNCHANGED <<today, threads, round, updates, marker, items, posts, upsets>>

\* _capture_blocker_action_items reads them again.
ReadBlockers(j) ==
  /\ jobs[j].pc = "capture"
  /\ jobs' = [jobs EXCEPT ![j].left = {u \in Of(jobs[j].date) : u.blocker}, ![j].pc = "next"]
  /\ UNCHANGED <<today, threads, round, updates, marker, items, posts, runs, upsets, clashed>>

First(set) == CHOOSE u \in set : \A v \in set : u.id <= v.id

\* Mutant: the marker's key is without the date.
Captured_Undated(d, u) == \E e \in Date : <<e, u>> \in marker

Captured(d, u) == <<d, u>> \in marker

\* The next update in the table's order: skipped when its author's marker is set.
CheckMarker(j) ==
  LET next == First(jobs[j].left)
  IN  /\ jobs[j].pc = "next" /\ jobs[j].left # {}
      /\ jobs' = [jobs EXCEPT ![j].left = @ \ {next},
                              ![j].who = next.user,
                              ![j].pc = IF Captured(next.date, next.user) THEN "next" ELSE "add"]
      /\ UNCHANGED <<today, threads, round, updates, marker, items, posts, runs, upsets, clashed>>

\* get_setting takes an error of the database for a missing row: the blocker is filed
\* although its author's marker is set.
MissMarker(j) ==
  LET next == First(jobs[j].left)
  IN  /\ jobs[j].pc = "next" /\ jobs[j].left # {} /\ Captured(next.date, next.user) /\ Upset
      /\ jobs' = [jobs EXCEPT ![j].left = @ \ {next}, ![j].who = next.user, ![j].pc = "add"]
      /\ clashed' = clashed \union {jobs[j].date}
      /\ UNCHANGED <<today, threads, round, updates, marker, items, posts, runs>>

\* users_info gives no e-mail: the blocker is skipped.
Unresolved(j) ==
  /\ jobs[j].pc = "next" /\ jobs[j].left # {} /\ Upset
  /\ jobs' = [jobs EXCEPT ![j].left = @ \ {First(jobs[j].left)},
                          ![j].shown = {u \in @ : u.user # First(jobs[j].left).user}]
  /\ UNCHANGED <<today, threads, round, updates, marker, items, posts, runs, clashed>>

AddBlocker(j) ==
  /\ jobs[j].pc = "add"
  /\ items' = [items EXCEPT ![<<jobs[j].date, jobs[j].who>>] = @ + 1]
  /\ GoOn(j, "mark")
  /\ UNCHANGED <<today, threads, round, updates, marker, posts, runs, upsets, clashed>>

\* Mutant: the marker is forgotten.
SetMarker_Forgotten(j) ==
  /\ jobs[j].pc = "mark" /\ GoOn(j, "next")
  /\ UNCHANGED <<today, threads, round, updates, marker, items, posts, runs, upsets, clashed>>

SetMarker(j) ==
  /\ jobs[j].pc = "mark"
  /\ marker' = marker \union {<<jobs[j].date, jobs[j].who>>}
  /\ GoOn(j, "next")
  /\ UNCHANGED <<today, threads, round, updates, items, posts, runs, upsets, clashed>>

\* _post_in_thread asks for the day again: past midnight, or with no round
\* recorded, nothing is posted; a Slack error is caught.
PostPreread(j) ==
  /\ jobs[j].pc = "next" /\ jobs[j].left = {}
  /\ \/ /\ posts' = IF round[today] = 0 THEN posts
                    ELSE posts \union {[thread |-> round[today], shown |-> jobs[j].shown]}
        /\ UNCHANGED upsets
     \/ Upset /\ UNCHANGED posts
  /\ jobs' = [jobs EXCEPT ![j] = Rest]
  /\ UNCHANGED <<today, threads, round, updates, marker, items, runs, clashed>>

\* The process is lost, or a statement raises, in the middle of j's run.
Lost(j) ==
  /\ Busy(j) /\ Upset
  /\ jobs' = [jobs EXCEPT ![j] = Rest]
  /\ clashed' = clashed \union ({jobs[j].date} \ {0})
  /\ UNCHANGED <<today, threads, round, updates, marker, items, posts, runs>>

StandupNext ==
  \/ Midnight
  \/ \E j \in Job : \/ PostOpening(j) \/ RecordRound(j) \/ StartClose(j) \/ ReadBlockers(j) \/ CheckMarker(j)
                    \/ MissMarker(j) \/ Unresolved(j) \/ AddBlocker(j) \/ SetMarker(j) \/ PostPreread(j) \/ Lost(j)
  \/ \E u \in Member, blocker \in BOOLEAN, d \in Date : Submit(u, blocker, d)

StandupSpec == StandupInit /\ [][StandupNext]_standupVars

-----------------------------------------------------------------------------
(* Properties                                                              *)

\* The rounds whose closes came one after the other, to their ends, and could read the
\* markers have one follow-up for a member at most, however often they are closed and
\* however many updates the member submits.  The docstring of close_standup ("idempotent:
\* re-closing the same round never duplicates", dsm.py 197) does not name these conditions,
\* and without each of them a second close does duplicate.
NoSecondFollowUp == \A d \in Date \ clashed, u \in Member : items[<<d, u>>] <= 1

\* A marker is set only when the item is there, so that a lost close costs a
\* duplicate at worst, never the follow-up.
MarkerMeansItem == \A k \in marker : items[k] >= 1

\* Each member whose blocker a pre-read shows, and whose e-mail was found, has a
\* follow-up for that day: one for a new day too, though the blocker is the same.
ShownIsFollowedUp == \A p \in posts : \A u \in p.shown : u.blocker => items[<<u.date, u.user>>] >= 1

\* A blocker that a pre-read shows has a follow-up, a marker has its item, and closes that
\* do not overlap, come to their ends and read their markers file it once.
FollowUpsHold == NoSecondFollowUp /\ MarkerMeansItem /\ ShownIsFollowedUp
=============================================================================
