------------------------------ MODULE HomeView ------------------------------
(***************************************************************************)
(* What the App Home and its forms are built of (interfaces/slack_home/    *)
(* blocks.py, engagements.py): the sections and how many blocks each takes *)
(* (Slack takes a hundred), who sees which, and the options of a form,     *)
(* whose values Slack hands back.  Pure.                                   *)
(* A row of the schedules has the ids that its Remove button carries.      *)
(***************************************************************************)
EXTENDS Integers, SequencesExt

SlackBlocks == 100   \* of a view
SlackValue  == 75    \* the code cuts the text and the value of an option here

-----------------------------------------------------------------------------
(* build_home_view: sections that are hidden when empty, and the others    *)

Hidden(n, blocks) == IF n = 0 THEN 0 ELSE blocks

Hero            == 4
Waiting(n)      == Hidden(n, 2 + 2 * n)
Recent(n)       == Hidden(n, 3)
ActionItems(n)  == 1 + (IF n = 0 THEN 1 ELSE 2 * n)
Schedules_Padded(n) == 3 + 4 * n
Schedules(n)    == 2 + (IF n = 0 THEN 1 ELSE 3 * n)
Skills(n)       == Hidden(n, 3)
QuickActions    == 3
Connectors      == 3
Models(admin)   == IF admin THEN 2 ELSE 0
System(admin)   == IF admin THEN 4 ELSE 0

\* Dividers: three between the sections, one before each of the prebuilt ones; the models
\* have a header besides.
Blocks(v) ==
  Hero + 1 + Waiting(v.approvals) + Recent(v.jobs) + ActionItems(v.items) + 1
    + Schedules(Len(v.rows)) + 1 + Skills(v.skills) + QuickActions + (1 + Connectors)
    + Hidden(Models(v.admin), 2 + Models(v.admin)) + Hidden(System(v.admin), 1 + System(v.admin))

\* A row without an id has no Remove button to build, and raises.
Builds(v)    == \A i \in DOMAIN v.rows : v.rows[i] # <<>>
Publishes(v) == Builds(v) /\ Blocks(v) <= SlackBlocks

\* A stand-up's row has the ids of its phases, those it knows.
Phases           == <<"open", "preread", "callsummary">>
StandupRow(idOf) == LET known == SelectSeq(Phases, LAMBDA p : p \in DOMAIN idOf)
                    IN [i \in DOMAIN known |-> idOf[known[i]]]

-----------------------------------------------------------------------------
(* The delivery form: an option's value is the engagement's id, its account *)
(* cut to 28 characters and its band, with bars between.  Of a text only    *)
(* whose it is and where it has a bar is told.                              *)

Least(a, b)   == IF a < b THEN a ELSE b
CutTo(s, n)   == SubSeq(s, 1, Least(n, Len(s)))
CutAccount(e) == CutTo(e.account, 28)
Value(e)      == CutTo(e.id \o <<"|">> \o CutAccount(e) \o <<"|">> \o e.band, SlackValue)

\* The parts between the bars.
Parts(value) ==
  LET bars == SetToSortSeq({i \in DOMAIN value : value[i] = "|"} \union {0, Len(value) + 1}, <)
  IN [k \in 1..(Len(bars) - 1) |-> SubSeq(value, bars[k] + 1, bars[k + 1] - 1)]

\* What _submit_delivery reads of it: the first three parts, whatever they are.
Submitted(e) ==
  LET parts == Parts(Value(e))
  IN [id      |-> parts[1],
      account |-> IF Len(parts) > 1 THEN parts[2] ELSE parts[1],
      band    |-> IF Len(parts) > 2 THEN parts[3] ELSE <<>>]

-----------------------------------------------------------------------------
(* engagement_shortlist: the worst first, cut, and those without an id left out *)

BandOrder(b) == CASE b = "high" -> 0 [] b = "medium" -> 1 [] b = "low" -> 2 [] OTHER -> 3
\* Mutant: the score is not looked at.
Riskier_Band(d, e) == BandOrder(d.band) < BandOrder(e.band)

Riskier(d, e) == \/ BandOrder(d.band) < BandOrder(e.band)
                 \/ BandOrder(d.band) = BandOrder(e.band) /\ d.score > e.score
Before(d, e)  == Riskier(d, e) \/ (~Riskier(e, d) /\ d.id <= e.id)
Shortlist(E, limit) ==
  LET all == SetToSortSeq(E, Before)
  IN SelectSeq(SubSeq(all, 1, Least(limit, Len(all))), LAMBDA e : e.id # 0)

-----------------------------------------------------------------------------
(* sprint_board_options_with_reason: one option for each project that has a Scrum board *)

\* The boards come in the order of their projects' names.
BoardOptions(boards, limit) ==
  LET scrum == SelectSeq(boards, LAMBDA b : b.scrum /\ b.key # "")
      first == {i \in DOMAIN scrum : \A j \in 1..(i - 1) : scrum[j].key # scrum[i].key}
      opts  == SetToSortSeq(first, <)
  IN [i \in 1..Least(limit, Len(opts)) |-> scrum[opts[i]].key]

-----------------------------------------------------------------------------
(* Properties *)

\* Fourteen schedules and seven open items are always shown, whoever looks and whatever
\* else there is; a member sees neither the models nor the system.
HomeFits(counts) ==
  \A a, j, sk \in counts, i \in 0..7, n \in 0..14, admin \in BOOLEAN :
    LET v == [approvals |-> a, jobs |-> j, items |-> i, skills |-> sk, admin |-> admin,
              rows |-> [k \in 1..n |-> <<k>>]]
    IN Publishes(v) /\ (~admin => Blocks(v) < Blocks([v EXCEPT !.admin = TRUE]))

\* A stand-up that has one of the three phases has a row that builds, whatever it misses.
StandupsBuild(sets) ==
  \A P \in sets : (\E p \in P : p \in {"open", "preread", "callsummary"})
                    => StandupRow([p \in P |-> p]) # <<>>

\* A digest is never scheduled for a part of an id, for ids of up to 38 characters, and an
\* engagement comes back from the form as it went in, unless its account has a bar: what
\* follows the bar is then taken for the band.
Text(of, n) == [i \in 1..n |-> of]
ValuesSurvive(accounts) ==
  \A n \in 1..38, a \in accounts, b \in 3..7 :
    LET e == [id |-> Text("id", n), account |-> a, band |-> Text("band", b)]
    IN /\ Submitted(e).id = e.id
       /\ Submitted(e) = [id |-> e.id, account |-> CutAccount(e), band |-> e.band]
            <=> "|" \notin ToSet(CutAccount(e))

\* The riskiest first: nothing left out of the list is riskier than what is in it, but for
\* engagements without an id.
\* (Risk scores go to 100.)
Danger(e) == 101 * (3 - BandOrder(e.band)) + e.score
WorstAreListed(E, limit) ==
  LET list == Shortlist(E, limit) IN
  /\ \A i \in DOMAIN list, e \in E : e.id # 0 /\ Danger(e) > Danger(list[i]) => e \in ToSet(list)
  /\ \A i, j \in DOMAIN list : i < j => Danger(list[i]) >= Danger(list[j])

\* Every project with a Scrum board is offered once, and no other, up to the limit.
ProjectsOfferedOnce(boards, limit) ==
  LET opts  == BoardOptions(boards, limit)
      scrum == {b.key : b \in {b \in ToSet(boards) : b.scrum /\ b.key # ""}}
  IN /\ IsInjective(opts) /\ ToSet(opts) \subseteq scrum
     /\ Cardinality(scrum) <= limit => ToSet(opts) = scrum
=============================================================================
