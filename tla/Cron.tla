-------------------------------- MODULE Cron --------------------------------
(***************************************************************************)
(* The translation between a friendly schedule and cron, and the times of  *)
(* a stand-up's schedules.  A time of day is its minute, a minute of the   *)
(* week counts from Sunday 00:00, and a cron expression is the days it     *)
(* names (0 = Sunday) with its time, or EveryMinute.  That the scheduler   *)
(* reads it so is Agno's part (Fires).                                     *)
(***************************************************************************)
EXTENDS Integers

CONSTANTS
  Times,   \* times of day that schedules are made for
  Offsets  \* shifts of a time, in minutes

Hour == 60
Day  == 24 * Hour
Week == 7 * Day

ASSUME TimeAssumption == Times \subseteq 0..(Day - 1) /\ Offsets \subseteq -(Day - 1)..(Day - 1)

Frequency == {"daily", "weekdays", "weekly", "minutely"}

EveryMinute == [dow |-> 0..6, at |-> -1]

\* The minutes of the week at which a cron fires.
Fires(cron) ==
  IF cron = EveryMinute THEN 0..(Week - 1) ELSE {d * Day + cron.at : d \in cron.dow}

-----------------------------------------------------------------------------
(* cron.py                                                                 *)

\* _FREQ_TO_DOW: weekly means Mondays.
FreqToDow(frequency) == CASE frequency = "daily"    -> 0..6
                          [] frequency = "weekdays" -> 1..5
                          [] frequency = "weekly"   -> {1}

ToCron(frequency, time) ==
  IF frequency = "minutely" THEN EveryMinute ELSE [dow |-> FreqToDow(frequency), at |-> time]

\* Mutant: Python's Monday = 0 taken for cron's.
WeekdayToCronDow_Same(weekday) == weekday

\* date.weekday() counts from Monday, cron from Sunday.
WeekdayToCronDow(weekday) == (weekday + 1) % 7

ToCronWeekday(dow, time) == [dow |-> {dow}, at |-> time]

\* Mutant: hours modulo 12, without the "or 12".
TimeTo12h_Zero(time) ==
  [hour |-> (time \div Hour) % 12, minute |-> time % Hour, pm |-> time \div Hour >= 12]

TimeTo12h(time) ==
  LET h == (time \div Hour) % 12
  IN  [hour |-> IF h = 0 THEN 12 ELSE h, minute |-> time % Hour, pm |-> time \div Hour >= 12]

\* Wraps within a day.
ShiftTime(time, minus) == (time - minus) % Day

DayLabels == {"Daily", "Weekdays", "Weekly", "Sundays", "Tuesdays", "Wednesdays",
              "Thursdays", "Fridays", "Saturdays"}
WeekdayLabel(dow) == CASE dow = 0 -> "Sundays"    [] dow = 2 -> "Tuesdays" [] dow = 3 -> "Wednesdays"
                       [] dow = 4 -> "Thursdays"  [] dow = 5 -> "Fridays"  [] dow = 6 -> "Saturdays"
DayLabel(dow) == CASE dow = 0..6 -> "Daily"
                   [] dow = 1..5 -> "Weekdays"
                   [] dow = {1}  -> "Weekly"
                   [] OTHER      -> WeekdayLabel(CHOOSE d \in dow : TRUE)

CronToFriendly(cron) ==
  IF cron = EveryMinute THEN "Every minute" ELSE <<DayLabel(cron.dow), TimeTo12h(cron.at)>>

-----------------------------------------------------------------------------
(* create_dsm: three schedules around a call                               *)

OpenCron(call, offset, days)     == ToCron(days, ShiftTime(call, offset))
PrereadCron(call, offset, days)  == ToCron(days, ShiftTime(call, offset))
PostcallCron(post, days)         == ToCron(days, post)

\* create_dsm_default: two hours and one hour before, half an hour after.
DefaultDsm(call, days) == [open     |-> OpenCron(call, 120, days),
                           preread  |-> PrereadCron(call, 60, days),
                           postcall |-> PostcallCron(ShiftTime(call, -30), days)]

-----------------------------------------------------------------------------
(* Properties                                                              *)

\* What a reader of the label understands.
Reads12h(t) == (IF t.hour = 12 THEN 0 ELSE t.hour) * Hour + t.minute + (IF t.pm THEN 12 * Hour ELSE 0)
ReadsDays(label) == CASE label = "Daily" -> 0..6 [] label = "Weekdays" -> 1..5 [] label = "Weekly" -> {1}
                      [] OTHER -> {CHOOSE d \in 0..6 \ {1} : WeekdayLabel(d) = label}

\* The label on a schedule's card names exactly the minutes at which it runs, on a
\* twelve-hour clock that has no hour 0.
LabelTellsTheRuns(cron) ==
  cron # EveryMinute =>
    LET label == CronToFriendly(cron)
    IN  /\ Fires(cron) = {d * Day + Reads12h(label[2]) : d \in ReadsDays(label[1])}
        /\ label[2].hour \in 1..12

\* A report pinned to the weekday on which a sprint ends (Monday = 0 in Python)
\* runs on that weekday.
RunsOnTheWeekday(weekday, time) ==
  Fires(ToCronWeekday(WeekdayToCronDow(weekday), time)) = {((weekday + 1) % 7) * Day + time}

\* The calls of a team, and the minutes that lie `minus` before them.
CallTimes(call, days)     == Fires(ToCron(days, call))
Before(call, minus, days) == {(c - minus) % Week : c \in CallTimes(call, days)}

\* A derived schedule runs `minus` minutes before each call and at no other time,
\* exactly when the shift stays within the day of the call or the team meets every
\* day: shift_time wraps the time of day, and the days of the week stay.
ShiftKeepsTheDay(call, minus, days) ==
  days # "minutely" =>
    (Fires(ToCron(days, ShiftTime(call, minus))) = Before(call, minus, days)
      <=> (days = "daily" \/ call - minus \in 0..(Day - 1)))

\* With the console's offsets a call between 02:00 and 23:29 gets its three
\* schedules in order on the day of the call.
DefaultInOrder(call, days) ==
  days # "minutely" /\ call \in 120..(Day - 31) =>
    LET dsm == DefaultDsm(call, days)
    IN  \A d \in FreqToDow(days) :
          /\ dsm.open.at < dsm.preread.at /\ dsm.preread.at < call /\ call < dsm.postcall.at
          /\ d * Day + dsm.open.at \in Fires(dsm.open) /\ d * Day + dsm.postcall.at \in Fires(dsm.postcall)

LabelsAreTrue  == \A time \in Times :
                    /\ \A f \in Frequency : LabelTellsTheRuns(ToCron(f, time))
                    /\ \A d \in 0..6 : LabelTellsTheRuns(ToCronWeekday(d, time)) /\ RunsOnTheWeekday(d, time)
ShiftsAreTrue  == \A time \in Times, offset \in Offsets, f \in Frequency : ShiftKeepsTheDay(time, offset, f)
CallsAreFramed == \A time \in Times, f \in Frequency : DefaultInOrder(time, f)
=============================================================================
