-------------------------- MODULE PortfolioReport ---------------------------
(***************************************************************************)
(* The scheduled roll-up of all engagements (skills/portfolio/): one page  *)
(* a day, remembered with its date and link in a setting, and a history of *)
(* one point a day, kept as one JSON list that is read, extended and       *)
(* written back.                                                           *)
(* summarize is pure: one row for an account, the worst of its engagements.*)
(***************************************************************************)
EXTENDS Integers, FiniteSets, FiniteSetsExt

CONSTANTS
  RollupRun,       \* slots of scheduled runs
  LastDay,         \* bound: days passed
  HistoryCap,      \* points the history keeps (26 in the code)
  MaxRollups,      \* bound: runs started
  MaxRollupFaults  \* bound: reads and writes that fail, runs that die

ASSUME PortfolioAssumption == LastDay \in Nat \ {0} /\ HistoryCap \in Nat \ {0}

VARIABLES
  day,       \* the date, in UTC
  lastPage,  \* setting portfolio_last_published: its date, and the day its data is of
  points,    \* setting portfolio_history: the dates that have a point
  rollup,    \* slot -> where its run is
  live,      \* the day the data of the page on Spin is of, 0 before the first
  rollups, rollupFaults, alone

portfolioVars == <<day, lastPage, points, rollup, live, rollups, rollupFaults, alone>>

PageDate       == 1..LastDay
NeverPublished == [date |-> 0, of |-> 0]
NoRollup       == [at |-> "idle", of |-> 0, seen |-> {}]

PortfolioTypeOK ==
  /\ day \in PageDate /\ live \in 0..LastDay
  /\ lastPage \in [date : 0..LastDay, of : 0..LastDay]
  /\ points \subseteq PageDate /\ Cardinality(points) <= HistoryCap
  /\ \A r \in RollupRun : /\ rollup[r].at \in {"idle", "summing", "loaded", "built", "published"}
                          /\ rollup[r].of \in 0..LastDay /\ rollup[r].seen \subseteq PageDate
  /\ rollups \in 0..MaxRollups /\ rollupFaults \in 0..MaxRollupFaults /\ alone \in BOOLEAN

PortfolioInit ==
  /\ day = 1 /\ lastPage = NeverPublished /\ points = {} /\ live = 0
  /\ rollup = [r \in RollupRun |-> NoRollup]
  /\ rollups = 0 /\ rollupFaults = 0 /\ alone = TRUE

RollupFault == rollupFaults < MaxRollupFaults /\ rollupFaults' = rollupFaults + 1

\* Midnight: a run that is under way ends on another day than it began.
DayEnds ==
  /\ day < LastDay
  /\ day' = day + 1
  /\ alone' = (alone /\ \A r \in RollupRun : rollup[r] = NoRollup)
  /\ UNCHANGED <<lastPage, points, rollup, live, rollups, rollupFaults>>

-----------------------------------------------------------------------------
(* publish_portfolio_dashboard *)

PublishedToday == lastPage.date = day

\* A page published today is linked again, not built again.
RollupStarts(r) ==
  /\ rollup[r] = NoRollup /\ rollups < MaxRollups
  /\ rollups' = rollups + 1
  /\ alone' = (alone /\ \A q \in RollupRun : rollup[q] = NoRollup)
  /\ UNCHANGED <<day, lastPage, points, live>>

StartRollup(r) ==
  /\ RollupStarts(r)
  /\ rollup' = IF PublishedToday THEN rollup ELSE [rollup EXCEPT ![r].at = "summing"]
  /\ UNCHANGED rollupFaults

\* The cache cannot be read: the run goes on.
StartBlind(r) ==
  /\ RollupStarts(r) /\ RollupFault
  /\ rollup' = [rollup EXCEPT ![r].at = "summing"]

\* The data is fetched and dated; the history is read, empty when that fails.
BuildPage(r, seen) ==
  /\ rollup[r].at = "summing"
  /\ rollup' = [rollup EXCEPT ![r] = [at |-> "loaded", of |-> day, seen |-> seen]]
  /\ UNCHANGED <<day, lastPage, points, live, rollups>>

LoadHistory(r) == BuildPage(r, points) /\ UNCHANGED <<rollupFaults, alone>>
LoadFails(r)   == BuildPage(r, {}) /\ RollupFault /\ alone' = FALSE

Kept_Oldest(dates) == IF Cardinality(dates) <= HistoryCap THEN dates ELSE dates \ {Max(dates)}
\* The last Cap points, and today's among them.
Kept(dates) == IF Cardinality(dates) <= HistoryCap THEN dates ELSE dates \ {Min(dates)}

RecordSnapshot(r) ==
  /\ rollup[r].at = "loaded"
  /\ points' = Kept(rollup[r].seen \union {rollup[r].of})
  /\ rollup' = [rollup EXCEPT ![r].at = "built"]
  /\ UNCHANGED <<day, lastPage, live, rollups, rollupFaults, alone>>

\* The write fails, and the page is published all the same.
RecordFails(r) ==
  /\ rollup[r].at = "loaded" /\ RollupFault
  /\ rollup' = [rollup EXCEPT ![r].at = "built"]
  /\ UNCHANGED <<day, lastPage, points, live, rollups, alone>>

PublishPage(r) ==
  /\ rollup[r].at = "built"
  /\ live' = rollup[r].of
  /\ rollup' = [rollup EXCEPT ![r].at = "published"]
  /\ UNCHANGED <<day, lastPage, points, rollups, rollupFaults, alone>>

Remember_Built(r) ==
  /\ rollup[r].at \in {"built", "published"}
  /\ lastPage' = [date |-> day, of |-> rollup[r].of]
  /\ rollup' = [rollup EXCEPT ![r] = NoRollup]
  /\ UNCHANGED <<day, points, live, rollups, rollupFaults, alone>>
\* The date is taken again when the link is remembered.
Remember(r) ==
  /\ rollup[r].at = "published"
  /\ lastPage' = [date |-> day, of |-> rollup[r].of]
  /\ rollup' = [rollup EXCEPT ![r] = NoRollup]
  /\ UNCHANGED <<day, points, live, rollups, rollupFaults, alone>>

\* Memra is down, Spin refuses (a draft goes to Slack), the write of the cache fails, or
\* the run dies: nothing is remembered.
RunEnds(r) ==
  /\ rollup[r] # NoRollup /\ RollupFault
  /\ rollup' = [rollup EXCEPT ![r] = NoRollup]
  /\ UNCHANGED <<day, lastPage, points, live, rollups, alone>>

PortfolioNext ==
  \/ DayEnds
  \/ \E r \in RollupRun :
       \/ StartRollup(r) \/ StartBlind(r) \/ LoadHistory(r) \/ LoadFails(r) \/ RecordSnapshot(r)
       \/ RecordFails(r) \/ PublishPage(r) \/ Remember(r) \/ RunEnds(r)

PortfolioSpec == PortfolioInit /\ [][PortfolioNext]_portfolioVars

-----------------------------------------------------------------------------
(* aggregate.summarize: an engagement has an account, a band, a score, a   *)
(* sentiment, a trend (in hundredths) and a weight                         *)

Bands == <<"high", "medium", "low", "unknown">>
BandRank(band) == CHOOSE i \in 1..4 : Bands[i] = band

Sum(S, f(_)) == FoldSet(LAMBDA e, n : n + f(e), 0, S)

\* The mean of the trends, weighted by activity; no activity counts as one message.
Weight(e)   == IF e.weight = 0 THEN 1 ELSE e.weight
Mean(total, n) == IF total >= 0 THEN total \div n ELSE -((-total) \div n)
TrendOf(S) == LET trends(e) == e.trend * Weight(e) IN Mean(Sum(S, trends), Sum(S, Weight))

Row_Calmest(S) == [band      |-> Bands[Max({BandRank(e.band) : e \in S})],
                   score     |-> Max({e.score : e \in S}),
                   sentiment |-> Min({e.sentiment : e \in S}),
                   trend     |-> TrendOf(S)]
Row(S) == [band      |-> Bands[Min({BandRank(e.band) : e \in S})],
           score     |-> Max({e.score : e \in S}),
           sentiment |-> Min({e.sentiment : e \in S}),
           trend     |-> TrendOf(S)]

Accounts(E)  == {e.account : e \in E}
RowOf(E, a)  == Row({e \in E : e.account = a})
Declining(E) == {a \in Accounts(E) : RowOf(E, a).trend < -5}
Improving(E) == {a \in Accounts(E) : RowOf(E, a).trend > 5}
InBand(E, b) == {a \in Accounts(E) : RowOf(E, a).band = b}
Flat(E)      == Cardinality(Accounts(E)) - Cardinality(Declining(E)) - Cardinality(Improving(E))

-----------------------------------------------------------------------------
(* Properties *)

\* As long as no run spans midnight or overlaps another, the link given as today's is a
\* page of today's data, and it is the page on Spin.
TodayIsToday == alone /\ PublishedToday => lastPage.of = day /\ live = day

\* The history loses its oldest point alone, and only when it is full, and gains the
\* point of the day that is recorded, unless a read or a write of it failed or two runs
\* wrote it at once.
Recorded(r) == rollup[r].at = "loaded" /\ rollup'[r].at = "built" /\ rollupFaults' = rollupFaults
HistoryIsKept ==
  [][alone' => /\ \A d \in points \ points' : d = Min(points) /\ Cardinality(points') = HistoryCap
              /\ \A r \in RollupRun : Recorded(r) => rollup[r].of \in points']_portfolioVars

\* A risk is never averaged away: an account's row is as alarming as its worst engagement,
\* every account is in one band, and its trend lies between those of its engagements.
WorstShows(E) ==
  /\ \A e \in E : LET row == RowOf(E, e.account) IN
       /\ BandRank(row.band) <= BandRank(e.band) /\ row.score >= e.score /\ row.sentiment <= e.sentiment
       /\ \E x, y \in E : /\ x.account = e.account /\ y.account = e.account
                          /\ x.trend <= row.trend /\ row.trend <= y.trend
  /\ Sum({"high", "medium", "low", "unknown"}, LAMBDA b : Cardinality(InBand(E, b)))
       = Cardinality(Accounts(E))
  /\ Flat(E) >= 0
=============================================================================
