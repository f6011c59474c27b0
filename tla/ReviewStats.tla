----------------------------- MODULE ReviewStats -----------------------------
(***************************************************************************)
(* The statistics over the traces of reviews (trace_stats and              *)
(* trace_stats_by_week of persistence/records.py), which the console       *)
(* charts.  A trace is [created, repo, original, final]; a verdict may be  *)
(* absent ("none"), and so may the time (0).                               *)
(***************************************************************************)
EXTENDS Naturals, Sequences, SequencesExt, FiniteSets, FiniteSetsExt, Functions

CONSTANTS Week, Top     \* how long a week is, and how many repositories are shown

Count(traces, Test(_)) == Len(SelectSeq(traces, Test))

\* WHERE created >= :since leaves a row without a time out; without a window it is counted.
InWindow(traces, since) ==
  IF since = 0 THEN traces ELSE SelectSeq(traces, LAMBDA t : t.created >= since)

WeekOf(created)  == created \div Week
VerdictOf(trace) == IF trace.final = "none" THEN "unknown" ELSE trace.final
Dated(traces)    == SelectSeq(traces, LAMBDA t : t.created # 0)

\* The rows of each value of a column, counted: GROUP BY, or a dictionary of counters.
CountBy(column)  == [v \in Range(column) |-> Cardinality({i \in DOMAIN column : column[i] = v})]
Verdicts(rows)   == [i \in DOMAIN rows |-> VerdictOf(rows[i])]
Repos(rows)      == [i \in DOMAIN rows |-> rows[i].repo]
Weeks(rows)      == [i \in DOMAIN rows |-> WeekOf(rows[i].created)]

\* ORDER BY cnt DESC LIMIT 10; equal counts come in any order.
Busiest(counts) ==
  LET order == SetToSortSeq(DOMAIN counts, LAMBDA q, r : counts[q] > counts[r] \/ (counts[q] = counts[r] /\ q < r))
  IN SubSeq(order, 1, IF Len(order) < Top THEN Len(order) ELSE Top)

\* Mutant: a first review counts as changed.
Changed_First(trace) == trace.original # trace.final
Changed(trace)       == trace.original # "none" /\ trace.final # "none" /\ trace.original # trace.final

TraceStats(traces, since) ==
  LET rows == InWindow(traces, since)
      repos == CountBy(Repos(rows))
  IN [total      |-> Len(rows),
      by_verdict |-> CountBy(Verdicts(rows)),
      by_repo    |-> [i \in DOMAIN Busiest(repos) |-> repos[Busiest(repos)[i]]],
      changed    |-> Count(rows, Changed),
      by_week    |-> CountBy(Weeks(Dated(rows)))]

\* Mutant: a review whose verdict was not recorded is left out of the chart.
TraceStatsByWeek_Known(traces, since) ==
  LET rows == SelectSeq(Dated(InWindow(traces, since)), LAMBDA t : t.final # "none")
  IN [w \in Range(Weeks(rows)) |->
        CountBy(Verdicts(SelectSeq(rows, LAMBDA t : WeekOf(t.created) = w)))]

TraceStatsByWeek(traces, since) ==
  LET rows == Dated(InWindow(traces, since))
  IN [w \in Range(Weeks(rows)) |->
        CountBy(Verdicts(SelectSeq(rows, LAMBDA t : WeekOf(t.created) = w)))]

Total(counts) == MapThenSumSet(LAMBDA v : counts[v], DOMAIN counts)

\* "Summing the inner dict for a week reproduces trace_stats's by_week total for that week";
\* every review of the window is in exactly one verdict, at most one repository's count, and,
\* where a window asks for a time, exactly one week; only a re-review can have changed.
ChartsAgree(lists, windows) ==
  \A traces \in lists, since \in windows :
    LET stats == TraceStats(traces, since)
        weeks == TraceStatsByWeek(traces, since)
    IN /\ stats.by_week = [w \in DOMAIN weeks |-> Total(weeks[w])]
       /\ Total(stats.by_verdict) = stats.total
       /\ since > 0 => Total(stats.by_week) = stats.total
       /\ Total(stats.by_repo) <= stats.total
       /\ (Len(stats.by_repo) < Top => Total(stats.by_repo) = stats.total)
       /\ stats.changed <= Count(InWindow(traces, since), LAMBDA t : t.original # "none")
=============================================================================
