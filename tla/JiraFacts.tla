----------------------------- MODULE JiraFacts ------------------------------
(***************************************************************************)
(* What a sprint report takes from Jira (shared/integrations/jira.py) and  *)
(* makes of it (skills/sprint_report/): paged reads, the choice of a board *)
(* and of sprints, the metrics, the blocks of the page and its subdomain.  *)
(* Pure: a server is the list it holds and the pages it cuts of it.        *)
(***************************************************************************)
EXTENDS Integers, SequencesExt

-----------------------------------------------------------------------------
(* Paged reads: list_boards, _sprints and sprint_issues *)

\* The page from an offset on, of a server that holds `items`.
Page(items, start, size) == SubSeq(items, start + 1, IF start + size < Len(items) THEN start + size
                                                    ELSE Len(items))

IsLast_Early(items, next, tells) == ~tells \/ next + 1 >= Len(items)
\* isLast ends list_boards and _sprints, and a server that does not tell it counts as done.
IsLast(items, next, tells) == ~tells \/ next >= Len(items)

ReadByFlag(items, size, tells) ==
  LET walk[start \in 0..Len(items)] ==
        LET page == Page(items, start, size)
            next == start + Len(page)
        IN IF page = <<>> \/ IsLast(items, next, tells) THEN page ELSE page \o walk[next]
  IN walk[0]

\* total ends sprint_issues, and an empty page does, whatever the server says.
ReadByTotal(items, size, total) ==
  LET walk[start \in 0..Len(items)] ==
        LET page == Page(items, start, size)
            next == start + Len(page)
        IN IF page = <<>> \/ next >= total THEN page ELSE page \o walk[next]
  IN walk[0]

\* _get: 410, 429 and 5xx are tried again, three times in all; the rest raises or answers.
Transient(status) == status \in {"gone", "busy", "down"}
Attempts(answers) ==
  SelectInSeq(answers, LAMBDA s : ~Transient(s)) \* the first that is not retried, 0 if none
Answer(answers) == LET i == Attempts(answers) IN answers[IF i = 0 THEN 3 ELSE i]

-----------------------------------------------------------------------------
(* find_board, latest_closed_sprint, active_sprint, next_future_sprint *)

Lowest(S)  == CHOOSE x \in S : \A y \in S : x.id <= y.id
Highest(S) == CHOOSE x \in S : \A y \in S : x.id >= y.id

PreferScrum_Any(boards) == Lowest(boards)
PreferScrum(boards) ==
  LET scrum == {b \in boards : b.scrum} IN Lowest(IF scrum # {} THEN scrum ELSE boards)

\* One page of the boards of the project of that key, then those whose name contains the
\* query, of all.  Any status that the key-scoped query raises counts as no such project.
NoBoard == [id |-> 0]
FindBoard(query, boards, size, raises) ==
  LET scoped == SetToSortSeq({b \in boards : b.key = query}, LAMBDA b, c : b.id < c.id)
      byKey  == IF raises THEN {} ELSE ToSet(Page(scoped, 0, size))
      byName == {b \in boards : query \in b.words}
  IN IF byKey # {} THEN PreferScrum(byKey) ELSE IF byName # {} THEN PreferScrum(byName) ELSE NoBoard

\* A board without sprints (Kanban) answers 400, and counts as having none.
Sprints(board, state) == IF board.scrum THEN {s \in board.sprints : s.state = state} ELSE {}

NoSprint == [id |-> 0, state |-> "none"]
LatestClosedSprint(board) ==
  LET S == Sprints(board, "closed") IN IF S = {} THEN NoSprint ELSE Highest(S)
ActiveSprint(board) ==
  LET S == Sprints(board, "active") IN IF S = {} THEN NoSprint ELSE Lowest(S)
NextFutureSprint(board) ==
  LET S == Sprints(board, "future") IN IF S = {} THEN NoSprint ELSE Lowest(S)

\* What sprint_snapshot reports on.
SnapshotSprint(board) ==
  IF ActiveSprint(board) # NoSprint THEN ActiveSprint(board) ELSE LatestClosedSprint(board)

-----------------------------------------------------------------------------
(* The dossier and its metrics: an issue has points (-1: none set) and may be done *)

Points(i)    == IF i.points < 0 THEN 0 ELSE i.points
Total(S)     == FoldSet(LAMBDA i, n : n + Points(i), 0, S)
Done(S)      == {i \in S : i.done}
Incomplete(S) == {i \in S : ~i.done}

\* A percentage, rounded; None (-1) when nothing was planned.
Velocity(S) == IF Total(S) = 0 THEN -1 ELSE (200 * Total(Done(S)) + Total(S)) \div (2 * Total(S))

Metrics_AllCount(S) == [delivered |-> Cardinality(S), planned |-> Total(S), achieved |-> Total(Done(S)),
                        velocity |-> Velocity(S), hasPoints |-> \E i \in S : i.points >= 0]
Metrics(S) == [delivered |-> Cardinality(Done(S)), planned |-> Total(S), achieved |-> Total(Done(S)),
               velocity |-> Velocity(S), hasPoints |-> \E i \in S : i.points >= 0]

Sources(S, next) == [delivered_stories |-> Done(S), incomplete |-> Incomplete(S),
                     next_sprint_stories |-> next]

-----------------------------------------------------------------------------
(* render_report: a block has a type, may name a source, and brings rows of its own *)

JiraTables == {"delivered_stories", "incomplete"}
PlainTypes == {"bullets", "actions", "callout", "prose"}

TableBlock_Own(b, src) == IF b.rows # {} \/ b.source \notin JiraTables THEN b.rows ELSE src[b.source]
\* A table that names another source shows the rows it brings; cards with an unknown
\* source raise.
TableBlock(b, src) == IF b.source \in JiraTables THEN src[b.source] ELSE b.rows
CardsBlock(b, src) == IF b.source = "" THEN b.rows ELSE src[b.source]

Shown(b, src) == CASE b.type = "table" -> TableBlock(b, src)
                   [] b.type = "cards" -> CardsBlock(b, src)
                   [] b.type \in PlainTypes -> b.rows

\* The blocks of the page, in order; one of an unknown type is skipped.
Known(b) == b.type \in {"table", "cards"} \union PlainTypes
Render(blocks, src) ==
  LET known == SelectSeq(blocks, Known) IN [i \in DOMAIN known |-> Shown(known[i], src)]

-----------------------------------------------------------------------------
(* The subdomain: bott-<key>-sprint-<n>-report, cut to 32 characters and stripped of *)
(* dashes; a key is told by its length                                               *)

Digits(n) == IF n < 10 THEN <<n>> ELSE IF n < 100 THEN <<n \div 10, n % 10>>
             ELSE <<n \div 100, (n \div 10) % 10, n % 10>>
Dash      == 10
Letter    == 11
Rest(n)   == Digits(n) \o <<Dash>> \o [i \in 1..6 |-> Letter]
Strip(s)  == IF s # <<>> /\ Last(s) = Dash THEN Front(s) ELSE s

\* "bott-" and "-sprint-" take 13 characters.
Room(key) == IF key < 19 THEN 19 - key ELSE 0
Slug(key, n) == Strip(Page(Rest(n), 0, Room(key)))

-----------------------------------------------------------------------------
(* Properties *)

\* A paged read returns what the server holds, in its order and nothing twice; a server
\* that leaves isLast out, or tells too low a total, gets its first pages read.
ReadsAreComplete(lists, sizes) ==
  \A items \in lists, size \in sizes :
    /\ ReadByFlag(items, size, TRUE) = items
    /\ ReadByFlag(items, size, FALSE) = Page(items, 0, size)
    /\ ReadByTotal(items, size, Len(items)) = items
    /\ \A total \in 0..(Len(items) + 2) : /\ IsPrefix(ReadByTotal(items, size, total), items)
                                          /\ total > Len(items) => ReadByTotal(items, size, total) = items

\* When Jira answers, an engagement is the project of that key before any of that name, and
\* its board one with sprints if a page's boards have one: a Kanban board would have nothing
\* to report.  When the key-scoped query raises, what is found is of that name, whichever
\* project's it is.
BoardHasSprints(query, boards, size) ==
  LET b     == FindBoard(query, boards, size, FALSE)
      blind == FindBoard(query, boards, size, TRUE)
      keyed == {c \in boards : c.key = query}
  IN
  /\ keyed # {} => b.key = query
  /\ (\E c \in keyed : c.scrum) /\ Cardinality(keyed) <= size => b.scrum
  /\ b = NoBoard => \A c \in boards : c.key # query /\ query \notin c.words
  /\ IF blind = NoBoard THEN \A c \in boards : query \notin c.words
     ELSE query \in blind.words /\ \A c \in boards : query \in c.words /\ c.scrum => blind.scrum

\* The closed sprint, the running one and the next are in that order when the ids are in
\* the order of the sprints, and a snapshot finds one if there is any.
SprintsInOrder(board) ==
  LET closed == LatestClosedSprint(board)  active == ActiveSprint(board)  next == NextFutureSprint(board)
      ordered == \A s, t \in board.sprints :
                   <<s.state, t.state>> \in {<<"closed", "active">>, <<"closed", "future">>, <<"active", "future">>}
                     => s.id < t.id
  IN /\ ordered /\ active # NoSprint => closed.id < active.id
     /\ ordered /\ next # NoSprint => closed.id < next.id /\ active.id < next.id
     /\ \A s \in board.sprints : s.state = "closed" => s.id <= closed.id \/ ~board.scrum
     /\ SnapshotSprint(board) = NoSprint =>
          ~board.scrum \/ \A s \in board.sprints : s.state = "future"

\* The header counts what the tables show: each issue is in one table, the delivered
\* ones in the first, and the velocity is between 0 and 100.
HeaderMatchesTables(S, next) ==
  LET m == Metrics(S)  src == Sources(S, next) IN
  /\ m.delivered = Cardinality(src.delivered_stories)
  /\ Cardinality(S) = m.delivered + Cardinality(src.incomplete)
  /\ m.achieved <= m.planned /\ m.velocity \in -1..100
  /\ m.velocity = -1 <=> m.planned = 0
  /\ m.planned > 0 => m.hasPoints

\* The agent composes the page and cannot alter a fact: a table of delivered or
\* incomplete stories and the cards of the next sprint show Jira's rows, whatever rows
\* come with the block, and a block of an unknown type costs no other block its place.
FactsAreJiras(blocks, src) ==
  LET page == Render(blocks, src)  known == SelectSeq(blocks, Known) IN
  /\ Len(page) = Cardinality({i \in DOMAIN blocks : Known(blocks[i])})
  /\ \A i \in DOMAIN page :
       LET b == known[i] IN
       (b.type = "table" /\ b.source \in JiraTables) \/ (b.type = "cards" /\ b.source # "")
         => page[i] = src[b.source]

\* With a key of at most ten characters, Jira's limit, no two sprints share a subdomain.
SlugsApart(keys, numbers) ==
  \A k \in keys : \A m, n \in numbers : k <= 10 /\ m # n => Slug(k, m) # Slug(k, n)

\* A call that is retried ends as its last attempt did, and a refusal ends it at once.
RetriesEnd(answers) ==
  Answer(answers) \in {"ok", "refused"} \/ \A i \in 1..3 : Transient(answers[i])
=============================================================================
