----------------------------- MODULE RulesProofs -----------------------------
(***************************************************************************)
(* The pure rules, for every input and every value of their constants: the *)
(* verdict gate of a review (VerdictGate), the action policy and its       *)
(* overrides (ActionPolicy), the cron of schedules (Cron).                 *)
(***************************************************************************)
EXTENDS Rules, TLAPS, FiniteSetTheorems

-----------------------------------------------------------------------------
(* The verdict gate                                                        *)

\* A withdrawn spot has evidence, and a comment has one of the severities.
LEMMA OutputFacts ==
  ASSUME NEW out \in Output
  PROVE  /\ out.verdict \in Verdicts
         /\ IssuesOf(out) \subseteq Commented(out) /\ Commented(out) \subseteq Spot
BY DEF Output, IssuesOf, Commented, Severities

\* What the three steps of apply_gate come to: the flip is undone by issues alone.
LEMMA Steps ==
  ASSUME NEW out \in Output, NEW ctx
  PROVE  /\ FinalVerdict(out, ctx) =
              IF out.verdict = "issues" \/ IssuesOf(out) # {} \/ ~WithdrawalsEvidenced(out, ctx) THEN "issues"
              ELSE IF Commented(out) = {} \/ (out.verdict = "approve" /\ Earned(out, ctx)) THEN "approve"
              ELSE "suggestions"
         /\ FinalVerdict(out, ctx) \in Verdicts
BY OutputFacts DEF FinalVerdict, FlipEmpty, Escalate, Downgrade, Verdicts

LEMMA GateFollowsRules ==
  ASSUME NEW out \in Output, NEW ctx \in Context
  PROVE  VerdictIsTheRules(out, ctx)
<1>1. ~WithdrawalsEvidenced(out, ctx) <=>
        /\ ctx.observable /\ ctx.prior.verdict = "issues"
        /\ \E s \in ctx.prior.issues \ Commented(out) : out.withdrawn[s] \intersect Visited(ctx) = {}
  BY DEF WithdrawalsEvidenced
<1> QED
  BY <1>1, Steps DEF VerdictIsTheRules, Reference

LEMMA GateTellsTheMove ==
  ASSUME NEW out \in Output, NEW ctx
  PROVE  MoveIsTold(out, ctx)
<1> DEFINE from == out.verdict
           to   == FinalVerdict(out, ctx)
           down == Downgrade(out, ctx)
           up   == Escalate(out, ctx, down)
<1>1. from \in Verdicts /\ to \in Verdicts
  BY Steps, OutputFacts
<1>2. /\ down = IF from = "approve" /\ ~Earned(out, ctx) THEN "suggestions" ELSE from
      /\ up \in {"issues", down}
      /\ to = IF up = "suggestions" /\ Commented(out) = {} THEN "approve" ELSE up
  BY DEF Downgrade, Escalate, FinalVerdict, FlipEmpty
<1>3. /\ Reasoned(out, ctx) <=> down # from \/ (down = "suggestions" /\ ~FixClaimsMatch(out)) \/ up # down
      /\ Flipped(out, ctx) <=> up = "suggestions" /\ Commented(out) = {}
  BY DEF Reasoned, Flipped
<1>4. Earned(out, ctx) => FixClaimsMatch(out)
  BY DEF Earned
<1>5. /\ Outcome(out, ctx) =
           IF to = from THEN IF from = "approve" THEN "approved" ELSE "none_applied"
           ELSE IF to = "issues" THEN "escalated_to_request_changes"
           ELSE IF Flipped(out, ctx) /\ Reasoned(out, ctx) THEN "approved" ELSE "downgraded_to_comment"
      /\ Footer(out, ctx) =
           IF ~Reasoned(out, ctx) \/ Flipped(out, ctx) THEN "none"
           ELSE IF Outcome(out, ctx) = "escalated_to_request_changes" THEN "escalated" ELSE "downgraded"
  BY DEF Outcome, Footer
<1> HIDE DEF from, to, down, up
<1>6. /\ Outcome(out, ctx) = "none_applied" <=> from = to /\ to # "approve"
      /\ Outcome(out, ctx) = "escalated_to_request_changes" <=> from # "issues" /\ to = "issues"
  BY <1>1, <1>2, <1>5 DEF Verdicts
<1>7. /\ Outcome(out, ctx) = "downgraded_to_comment" <=>
           \/ from = "approve" /\ to = "suggestions"
           \/ from = "suggestions" /\ to = "approve" /\ FixClaimsMatch(out)
      /\ Outcome(out, ctx) = "approved" <=> to = "approve" /\ (from = "approve" \/ ~FixClaimsMatch(out))
  BY <1>1, <1>2, <1>3, <1>5 DEF Verdicts
<1>8. /\ Footer(out, ctx) = "escalated" <=> from # "issues" /\ to = "issues"
      /\ Footer(out, ctx) = "downgraded" <=> to = "suggestions" /\ (from = "approve" \/ ~FixClaimsMatch(out))
  BY <1>1, <1>2, <1>3, <1>4, <1>5, <1>6 DEF Verdicts
<1> QED
  BY <1>6, <1>7, <1>8 DEF MoveIsTold, from, to

LEMMA GateLeavesNoneOut ==
  ASSUME NEW first \in Output, NEW second \in Output, NEW ctx \in Context
  PROVE  NoneLeftOut(first, second, ctx)
<1> DEFINE again == [ctx EXCEPT !.prior = PriorReview(first, FinalVerdict(first, ctx))]
<1>1. again.prior = PriorReview(first, FinalVerdict(first, ctx)) /\ again.calls = ctx.calls
      /\ again.observable = ctx.observable
  BY DEF Context
<1>2. Visited(again) = Visited(ctx)
  BY <1>1 DEF Visited
<1>3. ASSUME ctx.observable, FinalVerdict(second, again) # "issues", NEW s \in IssuesOf(first)
      PROVE  s \in Commented(second) \/ second.withdrawn[s] \intersect Visited(ctx) # {}
  <2>1. FinalVerdict(first, ctx) = "issues"
    BY <1>3, Steps
  <2>2. WithdrawalsEvidenced(second, again)
    BY <1>3, Steps
  <2>3. again.prior.verdict = "issues" /\ s \in again.prior.issues
    BY <1>1, <1>3, <2>1 DEF PriorReview
  <2> HIDE DEF again
  <2> QED
    BY <1>1, <1>2, <1>3, <2>2, <2>3 DEF WithdrawalsEvidenced
<1> QED
  BY <1>3 DEF NoneLeftOut

\* Whatever a model answers and whatever run it comes from, the verdict is what the rules
\* say and the logged outcome and the footer tell one move from the other.  A re-review with
\* observable tool calls leaves no issue of the review before unmentioned: an issue may be
\* softened to a suggestion, and nothing is said of runs that are not observable.
THEOREM GateIsSound == []GateHolds
<1>1. ReviewsAreJudged /\ NoneIsLeftOut
  BY InputAssumption, GateFollowsRules, GateTellsTheMove, GateLeavesNoneOut
     DEF ReviewsAreJudged, NoneIsLeftOut
<1> QED
  <2>1. GateHolds
    BY <1>1 DEF GateHolds
  <2> QED
    BY <2>1, PTL

-----------------------------------------------------------------------------
(* The action policy                                                       *)

\* Each system's calls are judged by its own rules.
LEMMA CallFacts ==
  ASSUME NEW c \in Calls
  PROVE  \/ c.system = "slack"     /\ c.list \in {"admin", "safe_write", "gated", "none"} /\ c.readPrefix \in BOOLEAN
         \/ c.system = "github"    /\ c.verb \in Verbs /\ (c.path = "conversation" => c.repo # "none")
         \/ c.system = "atlassian" /\ c.verb \in Verbs
         \/ c.system = "http"      /\ c.verb \in {"GET", "POST"}
BY DEF Calls, Slack, GitHub, Atlassian, Http

LEMMA DefaultFacts ==
  ASSUME NEW c \in Calls, NEW allowed
  PROVE  /\ c.system = "slack"     => DefaultVerdict(c, allowed) = ClassifySlack(c)
         /\ c.system = "github"    => DefaultVerdict(c, allowed) = ClassifyGitHub(c, allowed)
         /\ c.system = "atlassian" => DefaultVerdict(c, allowed) = ClassifyAtlassian(c)
         /\ c.system = "http"      => DefaultVerdict(c, allowed) = ClassifyHttp(c)
BY DEF DefaultVerdict

LEMMA RulesSafe == RulesAreSafe
<1> SUFFICES ASSUME NEW c \in Calls, NEW allowed \in SUBSET Repo
    PROVE  LET verdict == DefaultVerdict(c, allowed)
           IN  /\ verdict = "allow" /\ ~Reads(c) =>
                    \/ c.system = "slack" /\ c.list = "safe_write"
                    \/ c.system = "github" /\ c.path = "conversation" /\ c.repo \in allowed
               /\ ~Reads(c) /\ c.system = "github" =>
                    /\ c.verb = "DELETE" \/ c.path = "surgery" => verdict = "deny"
                    /\ c.repo # "none" /\ allowed = {} => verdict = "deny"
               /\ \A fewer \in SUBSET allowed : verdict = "deny" => DefaultVerdict(c, fewer) = "deny"
  BY DEF RulesAreSafe
<1>1. CASE c.system = "slack"
  <2>1. c.list \in {"admin", "safe_write", "gated", "none"} /\ c.readPrefix \in BOOLEAN
    BY <1>1, CallFacts
  <2>2. ClassifySlack(c) = "allow" => c.list \in {"safe_write", "none"}
    BY <2>1 DEF ClassifySlack
  <2>3. \A any \in SUBSET Repo : DefaultVerdict(c, any) = ClassifySlack(c)
    BY <1>1, DefaultFacts
  <2> QED
    BY <1>1, <2>1, <2>2, <2>3 DEF Reads
<1>2. CASE c.system = "github"
  BY <1>2, CallFacts, DefaultFacts DEF ClassifyGitHub, Listed, Reads
<1>3. CASE c.system \in {"atlassian", "http"}
  BY <1>3, CallFacts, DefaultFacts DEF ClassifyAtlassian, ClassifyHttp, Reads
<1> QED
  BY <1>1, <1>2, <1>3, CallFacts

LEMMA OverridesListed == ListedIsInForce
<1> SUFFICES ASSUME NEW k1 \in Keys, NEW k2 \in Keys, NEW v \in Decisions \union {Empty}, NEW settings,
                    settings = Edited(k1, k2, v)
             PROVE  ListIsInForce(settings)
  BY DEF ListedIsInForce
<1>1. \A k \in Keys : settings[k] = IF k = k2 THEN v ELSE IF k = k1 THEN "gate" ELSE NoSetting
  BY DEF Edited, RemoveOverride, SetOverride, NoOverrides
<1>2. ASSUME NEW c \in Calls
      PROVE  LET mine == {e \in ListOverrides(settings) : e[1] = OverrideKey(c)}
             IN  IF mine = {} THEN RunCall(c, settings, Repo, FALSE) = RunCall(c, NoOverrides, Repo, FALSE)
                 ELSE mine = {<<OverrideKey(c), Classify(c, settings, Repo, FALSE)>>}
  <2> DEFINE key == OverrideKey(c)
             mine == {e \in ListOverrides(settings) : e[1] = key}
  <2>1. key \in Keys
    BY DEF Keys
  <2> HIDE DEF key
  <2>2. mine = IF InForce(settings[key]) THEN {<<key, settings[key]>>} ELSE {}
    <3>1. ASSUME NEW e \in mine PROVE e = <<key, settings[key]>> /\ InForce(settings[key])
      <4>1. PICK k \in Keys : InForce(settings[k]) /\ e = <<k, settings[k]>>
        BY DEF ListOverrides
      <4>2. k = key
        BY <4>1
      <4> QED
        BY <4>1, <4>2
    <3>2. ASSUME InForce(settings[key]) PROVE <<key, settings[key]>> \in mine
      BY <2>1, <3>2 DEF ListOverrides
    <3> HIDE DEF mine
    <3> QED
      BY <3>1, <3>2
  <2>3. CASE InForce(settings[key])
    <3>1. settings[key] \in Decisions
      BY <1>1, <2>1, <2>3 DEF InForce, NoSetting, Decisions
    <3>2. Classify(c, settings, Repo, FALSE) = settings[key]
      BY <2>3, <3>1 DEF Classify, GetOverride, Decisions, key
    <3> QED
      BY <2>2, <2>3, <3>2 DEF key
  <2>4. CASE ~InForce(settings[key])
    <3>1. ~InForce(NoOverrides[key])
      BY <2>1 DEF NoOverrides, InForce
    <3>2. Classify(c, settings, Repo, FALSE) = Classify(c, NoOverrides, Repo, FALSE)
      BY <2>4, <3>1 DEF Classify, GetOverride, key
    <3> QED
      BY <2>2, <2>4, <3>2 DEF RunCall, key
  <2> QED
    BY <2>3, <2>4
<1>3. Cardinality(ListOverrides(settings)) <= 2
  <2> DEFINE one == <<k1, settings[k1]>>  two == <<k2, settings[k2]>>
  <2>1. ListOverrides(settings) \subseteq {one} \union {two}
    <3>1. ASSUME NEW k \in Keys, InForce(settings[k]) PROVE k \in {k1, k2}
      BY <1>1, <3>1 DEF InForce, NoSetting
    <3> QED
      BY <3>1 DEF ListOverrides
  <2> HIDE DEF one, two
  <2>2. IsFiniteSet({one}) /\ Cardinality({one}) = 1
    BY FS_Singleton
  <2>3. IsFiniteSet({one} \union {two}) /\ Cardinality({one} \union {two}) \in {1, 1 + 1}
    BY <2>2, FS_AddElement, Zenon
  <2>4. /\ IsFiniteSet(ListOverrides(settings))
        /\ Cardinality(ListOverrides(settings)) <= Cardinality({one} \union {two})
    BY <2>1, <2>3, FS_Subset
  <2>5. Cardinality(ListOverrides(settings)) \in Nat
    BY <2>4, FS_CardinalityType
  <2>6. Cardinality({one} \union {two}) \in Nat /\ Cardinality({one} \union {two}) <= 2
    BY <2>3
  <2> QED
    BY <2>4, <2>5, <2>6
<1> QED
  <2> DEFINE Mine(c) == {e \in ListOverrides(settings) : e[1] = OverrideKey(c)}
             ByRules(c) == RunCall(c, NoOverrides, Repo, FALSE)
  <2>1. ASSUME NEW c \in Calls
        PROVE  /\ Mine(c) = {} => RunCall(c, settings, Repo, FALSE) = ByRules(c)
               /\ Mine(c) # {} => Mine(c) = {<<OverrideKey(c), Classify(c, settings, Repo, FALSE)>>}
    BY <1>2
  <2>2. ASSUME NEW c \in Calls
        PROVE  RunCall(c, settings, Repo, TRUE) = ByRules(c)
    <3>1. OverrideKey(c) \in Keys
      BY DEF Keys
    <3>2. ~InForce(NoOverrides[OverrideKey(c)])
      BY <3>1 DEF NoOverrides, InForce
    <3>3. Classify(c, settings, Repo, TRUE) = Classify(c, NoOverrides, Repo, FALSE)
      BY <3>2 DEF Classify, GetOverride
    <3> QED
      BY <3>3 DEF RunCall
  <2> HIDE DEF ByRules
  <2> QED
    BY <1>3, <2>1, <2>2 DEF ListIsInForce, ByRules

\* For every set of repositories: the default rules let no write through but the safe
\* ones.  After two edits of the overrides, a call whose override can be read is decided by
\* the one the console lists for its spelling, or by the rules; a call whose read fails is
\* decided by the rules, whatever is listed.
THEOREM PolicyIsSound == []PolicyHolds
<1>1. RulesAreSafe /\ ListedIsInForce
  BY RulesSafe, OverridesListed
<1> QED
  <2>1. PolicyHolds
    BY <1>1 DEF PolicyHolds
  <2> QED
    BY <2>1, PTL

-----------------------------------------------------------------------------
(* Cron                                                                    *)

\* The times of a day, the shifts of less than one, and the sets of days of a schedule.
Minutes == 0 .. Day - 1
Shifts  == -(Day - 1) .. Day - 1
AllDays == 0 .. 6
At(dow, time) == {d * 1440 + time : d \in dow}
Moved(dow, q) == {(d + q) % 7 : d \in dow}
DaySets == {0 .. 6, 1 .. 5} \union {{d} : d \in 0 .. 6}

LEMMA DayFacts == Hour = 60 /\ Day = 1440 /\ Week = 10080
BY DEF Hour, Day, Week

\* A time on the twelve-hour clock is read back as it was, and has no hour 0.
LEMMA ClockIsRead ==
  ASSUME NEW time \in Minutes
  PROVE  Reads12h(TimeTo12h(time)) = time /\ TimeTo12h(time).hour \in 1 .. 12
<1>1. time \in Nat /\ time < 1440
  BY DayFacts DEF Minutes
<1>2. PICK q \in 0 .. 23, r \in 0 .. 59 : time = 60 * q + r
  <2>1. time \div 60 \in 0 .. 23 /\ time % 60 \in 0 .. 59 /\ time = 60 * (time \div 60) + (time % 60)
    BY <1>1
  <2> QED
    BY <2>1
<1>3. time \div 60 = q /\ time % 60 = r
  BY <1>2
<1>4. q % 12 = IF q >= 12 THEN q - 12 ELSE q
  OBVIOUS
<1> DEFINE h == IF q % 12 = 0 THEN 12 ELSE q % 12
<1>5. TimeTo12h(time) = [hour |-> h, minute |-> r, pm |-> q >= 12]
  BY <1>3, DayFacts DEF TimeTo12h
<1>6. /\ h \in 1 .. 12
      /\ (IF h = 12 THEN 0 ELSE h) = IF q >= 12 THEN q - 12 ELSE q
  BY <1>4
<1> HIDE DEF h
<1>7. TimeTo12h(time).hour = h /\ TimeTo12h(time).minute = r /\ TimeTo12h(time).pm = (q >= 12)
  BY <1>5
<1>8. Reads12h(TimeTo12h(time)) = (IF h = 12 THEN 0 ELSE h) * 60 + r + (IF q >= 12 THEN 12 * 60 ELSE 0)
  <2> DEFINE label == TimeTo12h(time)
  <2>1. Reads12h(label) = (IF label.hour = 12 THEN 0 ELSE label.hour) * Hour + label.minute
                            + (IF label.pm THEN 12 * Hour ELSE 0)
    BY DEF Reads12h
  <2> HIDE DEF label
  <2>2. label.hour = h /\ label.minute = r /\ label.pm = (q >= 12)
    BY <1>7 DEF label
  <2>3. /\ (IF label.hour = 12 THEN 0 ELSE label.hour) = (IF h = 12 THEN 0 ELSE h)
        /\ (IF label.pm THEN 12 * Hour ELSE 0) = (IF q >= 12 THEN 12 * 60 ELSE 0)
    <3>1. label.pm <=> q >= 12
      BY <2>2
    <3>2. (IF label.pm THEN 12 * Hour ELSE 0) = (IF q >= 12 THEN 12 * 60 ELSE 0)
      BY <3>1, DayFacts
    <3> QED
      BY <2>2, <3>2
  <2>4. Reads12h(label) = (IF h = 12 THEN 0 ELSE h) * 60 + r + (IF q >= 12 THEN 12 * 60 ELSE 0)
    <3> DEFINE a == IF h = 12 THEN 0 ELSE h
    <3> DEFINE b == IF q >= 12 THEN 12 * 60 ELSE 0
    <3>1. (IF label.hour = 12 THEN 0 ELSE label.hour) = a /\ (IF label.pm THEN 12 * Hour ELSE 0) = b
      BY <2>3
    <3> HIDE DEF a, b
    <3>2. Reads12h(label) = a * 60 + r + b
      BY <2>1, <2>2, <3>1, DayFacts
    <3> QED
      BY <3>2 DEF a, b
  <2> QED
    BY <2>4 DEF label
<1> QED
  BY <1>2, <1>6, <1>7, <1>8

\* A label names the days it was made from.
LEMMA LabelIsRead == ASSUME NEW dow \in DaySets PROVE ReadsDays(DayLabel(dow)) = dow
<1>1. (0 .. 6) # (1 .. 5) /\ (1 .. 5) # {1} /\ (0 .. 6) # {1}
  <2>1. 0 \in 0 .. 6 /\ 0 \notin 1 .. 5 /\ 0 \notin {1} /\ 2 \in 1 .. 5 /\ 2 \notin {1}
    OBVIOUS
  <2> QED
    BY <2>1
<1>2. CASE dow = 0 .. 6
  <2>1. DayLabel(dow) = "Daily"
    BY <1>1, <1>2 DEF DayLabel
  <2> QED
    BY <1>2, <2>1 DEF ReadsDays
<1>3. CASE dow = 1 .. 5
  <2>1. DayLabel(dow) = "Weekdays"
    BY <1>1, <1>3 DEF DayLabel
  <2> QED
    BY <1>3, <2>1 DEF ReadsDays
<1>4. CASE dow = {1}
  <2>1. DayLabel(dow) = "Weekly"
    BY <1>1, <1>4 DEF DayLabel
  <2> QED
    BY <1>4, <2>1 DEF ReadsDays
<1>5. ASSUME NEW d \in (0 .. 6) \ {1}, dow = {d} PROVE ReadsDays(DayLabel(dow)) = dow
  <2>1. dow # 0 .. 6 /\ dow # 1 .. 5 /\ dow # {1}
    <3>1. 2 \in 0 .. 6 /\ 3 \in 0 .. 6 /\ 2 \in 1 .. 5 /\ 3 \in 1 .. 5 /\ 2 # 3 /\ d # 1
      OBVIOUS
    <3> QED
      BY <1>5, <3>1
  <2>2. (CHOOSE e \in dow : TRUE) = d
    BY <1>5
  <2>3. DayLabel(dow) = WeekdayLabel(d)
    BY <2>1, <2>2 DEF DayLabel
  <2>4. \A e, f \in (0 .. 6) \ {1} : WeekdayLabel(e) = WeekdayLabel(f) => e = f
    BY DEF WeekdayLabel
  <2>5. WeekdayLabel(d) \notin {"Daily", "Weekdays", "Weekly"}
    BY DEF WeekdayLabel
  <2>6. (CHOOSE e \in (0 .. 6) \ {1} : WeekdayLabel(e) = WeekdayLabel(d)) = d
    BY <2>4
  <2> QED
    BY <1>5, <2>3, <2>5, <2>6 DEF ReadsDays
<1> QED
  BY <1>2, <1>3, <1>4, <1>5 DEF DaySets

LEMMA LabelsTell ==
  ASSUME NEW dow \in DaySets, NEW time \in Minutes
  PROVE  LabelTellsTheRuns([dow |-> dow, at |-> time])
<1> DEFINE cron == [dow |-> dow, at |-> time]
<1>1. cron # EveryMinute
  BY DayFacts DEF Minutes, EveryMinute
<1>2. CronToFriendly(cron) = <<DayLabel(dow), TimeTo12h(time)>>
  BY <1>1 DEF CronToFriendly
<1>3. Fires(cron) = {d * Day + time : d \in dow}
  BY <1>1 DEF Fires
<1> HIDE DEF cron
<1>4. LabelTellsTheRuns(cron)
  BY <1>2, <1>3, LabelIsRead, ClockIsRead DEF LabelTellsTheRuns
<1> QED
  BY <1>4 DEF cron

\* A shift of less than a day leaves the time on the day it was, or moves it by one.
LEMMA ShiftByADay ==
  ASSUME NEW time \in Minutes, NEW minus \in Shifts
  PROVE  \E q \in {-1, 0, 1} : /\ time - minus = q * 1440 + ShiftTime(time, minus)
                             /\ ShiftTime(time, minus) \in Minutes
<1> DEFINE n == time - minus
<1>1. time \in 0 .. 1439 /\ minus \in -1439 .. 1439
  BY DayFacts DEF Minutes, Shifts
<1>2. n \in -1439 .. 2878
  <2>1. time \in Int /\ 0 <= time /\ time <= 1439
    BY <1>1
  <2>2. minus \in Int /\ -1439 <= minus /\ minus <= 1439
    BY <1>1
  <2> HIDE DEF n
  <2>3. n = time - minus
    BY DEF n
  <2> QED
    BY <2>1, <2>2, <2>3
<1> HIDE DEF n
<1>3. ShiftTime(time, minus) = n % 1440 /\ Minutes = 0 .. 1439
  BY DayFacts DEF ShiftTime, Minutes, n
<1>4. CASE n \in -1439 .. -1
  <2>1. \A m \in -1439 .. -1 : m % 1440 = m + 1440 /\ m + 1440 \in 0 .. 1439 /\ m = -1 * 1440 + (m + 1440)
    OBVIOUS
  <2>2. n = -1 * 1440 + (n % 1440) /\ n % 1440 \in 0 .. 1439
    BY <1>4, <2>1
  <2>3. time - minus = -1 * 1440 + ShiftTime(time, minus) /\ ShiftTime(time, minus) \in Minutes
    BY <1>3, <2>2 DEF n
  <2> QED
    BY <2>3
<1>5. CASE n \in 0 .. 1439
  <2>1. \A m \in 0 .. 1439 : m % 1440 = m /\ m = 0 * 1440 + m
    OBVIOUS
  <2>2. n = 0 * 1440 + (n % 1440) /\ n % 1440 \in 0 .. 1439
    BY <1>5, <2>1
  <2>3. time - minus = 0 * 1440 + ShiftTime(time, minus) /\ ShiftTime(time, minus) \in Minutes
    BY <1>3, <2>2 DEF n
  <2> QED
    BY <2>3
<1>6. CASE n \in 1440 .. 2878
  <2>1. \A m \in 1440 .. 2878 : m % 1440 = m - 1440
    OBVIOUS
  <2>2. n = 1 * 1440 + (n % 1440) /\ n % 1440 \in 0 .. 1439
    <3>1. n % 1440 = n - 1440
      BY <1>6, <2>1
    <3>2. n - 1440 \in 0 .. 1439 /\ n = 1 * 1440 + (n - 1440)
      BY <1>6
    <3> QED
      BY <3>1, <3>2
  <2>3. time - minus = 1 * 1440 + ShiftTime(time, minus) /\ ShiftTime(time, minus) \in Minutes
    BY <1>3, <2>2 DEF n
  <2> QED
    BY <2>3
<1> QED
  BY <1>2, <1>4, <1>5, <1>6

\* A minute of the week, moved by a day.
LEMMA WeekWraps ==
  ASSUME NEW d \in 0 .. 6, NEW q \in {-1, 0, 1}, NEW s \in 0 .. 1439
  PROVE  (d * 1440 + q * 1440 + s) % 10080 = ((d + q) % 7) * 1440 + s
<1>1. CASE d + q = -1
  <2>1. (d + q) % 7 = 6 /\ (s - 1440) % 10080 = 8640 + s
    BY <1>1
  <2> QED
    BY <1>1, <2>1
<1>2. CASE d + q = 7
  <2>1. (d + q) % 7 = 0 /\ (10080 + s) % 10080 = s
    BY <1>2
  <2> QED
    BY <1>2, <2>1
<1>3. CASE d + q \in 0 .. 6
  <2>1. (d + q) % 7 = d + q /\ (d * 1440 + q * 1440 + s) % 10080 = d * 1440 + q * 1440 + s
    BY <1>3
  <2> QED
    BY <1>3, <2>1
<1> QED
  BY <1>1, <1>2, <1>3

\* The days moved by one are other days, unless they are all of them.
LEMMA DaysMove ==
  ASSUME NEW dow \in {0 .. 6, 1 .. 5, {1}}, NEW q \in {-1, 0, 1}
  PROVE  Moved(dow, q) = dow <=> q = 0 \/ dow = 0 .. 6
<1> DEFINE moved == Moved(dow, q)
<1> USE DEF Moved
<1>1. CASE q = 0
  <2>1. \A d \in dow : (d + q) % 7 = d
    BY <1>1
  <2> QED
    BY <1>1, <2>1
<1>2. CASE dow = 0 .. 6
  <2>1. \A d \in 0 .. 6 : (d + q) % 7 \in 0 .. 6
    OBVIOUS
  <2>2. \A e \in 0 .. 6 : \E d \in 0 .. 6 : (d + q) % 7 = e
    <3> TAKE e \in 0 .. 6
    <3>1. CASE e - q \in 0 .. 6
      <4>1. (e - q + q) % 7 = e
        OBVIOUS
      <4> QED
        BY <3>1, <4>1
    <3>2. CASE e - q = -1
      <4>1. (6 + q) % 7 = e
        BY <3>2
      <4> QED
        BY <4>1
    <3>3. CASE e - q = 7
      <4>1. (0 + q) % 7 = e
        BY <3>3
      <4> QED
        BY <4>1
    <3> QED
      BY <3>1, <3>2, <3>3
  <2> QED
    BY <1>2, <2>1, <2>2
<1>3. CASE q = -1 /\ dow # 0 .. 6
  <2>1. 1 \in dow /\ (1 + q) % 7 = 0 /\ 0 \notin dow
    BY <1>3
  <2>2. 0 \in moved
    BY <2>1
  <2> QED
    BY <1>3, <2>1, <2>2
<1>4. CASE q = 1 /\ dow = 1 .. 5
  <2>1. 5 \in dow /\ (5 + q) % 7 = 6 /\ 6 \notin dow
    BY <1>4
  <2>2. 6 \in moved
    BY <2>1
  <2>3. dow # 0 .. 6
    <3>1. 6 \in 0 .. 6
      OBVIOUS
    <3> QED
      BY <2>1, <3>1
  <2> QED
    BY <1>4, <2>1, <2>2, <2>3
<1>5. CASE q = 1 /\ dow = {1}
  <2>1. (1 + q) % 7 = 2 /\ 2 \notin dow
    BY <1>5
  <2>2. 2 \in moved
    BY <1>5, <2>1
  <2>3. dow # 0 .. 6
    <3>1. 2 \in 0 .. 6
      OBVIOUS
    <3> QED
      BY <2>1, <3>1
  <2> QED
    BY <1>5, <2>1, <2>2, <2>3
<1> QED
  BY <1>1, <1>2, <1>3, <1>4, <1>5

\* The days of a frequency.
LEMMA FrequencyDays ==
  ASSUME NEW days \in Frequency \ {"minutely"}, NEW time \in Minutes
  PROVE  /\ FreqToDow(days) \in {0 .. 6, 1 .. 5, {1}}
         /\ FreqToDow(days) = 0 .. 6 <=> days = "daily"
         /\ ToCron(days, time) = [dow |-> FreqToDow(days), at |-> time]
         /\ Fires(ToCron(days, time)) = At(FreqToDow(days), time)
<1>1. 0 \in 0 .. 6 /\ 0 \notin 1 .. 5 /\ 0 \notin {1}
  OBVIOUS
<1>2. /\ FreqToDow(days) \in {0 .. 6, 1 .. 5, {1}}
      /\ FreqToDow(days) = 0 .. 6 <=> days = "daily"
  BY <1>1 DEF FreqToDow, Frequency
<1>3. ToCron(days, time) = [dow |-> FreqToDow(days), at |-> time]
  BY DEF ToCron
<1>4. ToCron(days, time) # EveryMinute
  BY <1>3, DayFacts DEF EveryMinute, Minutes
<1>5. Fires(ToCron(days, time)) = At(FreqToDow(days), time)
  BY <1>3, <1>4, DayFacts DEF Fires, At
<1> QED
  BY <1>2, <1>3, <1>5

\* The minutes at one time of the day tell the days.
LEMMA TimesTell ==
  ASSUME NEW D, NEW E, NEW s, D \subseteq AllDays, E \subseteq AllDays, s \in Minutes, At(D, s) = At(E, s)
  PROVE  D = E
<1>1. ASSUME NEW d \in AllDays, NEW e \in AllDays, d * 1440 + s = e * 1440 + s PROVE d = e
  BY <1>1, DayFacts DEF AllDays, Minutes
<1>2. ASSUME NEW A, NEW B, A \subseteq AllDays, B \subseteq AllDays, At(A, s) = At(B, s), NEW d \in A PROVE d \in B
  <2>1. d * 1440 + s \in At(A, s)
    BY DEF At
  <2>2. d * 1440 + s \in At(B, s)
    BY <1>2, <2>1
  <2>3. PICK e \in B : d * 1440 + s = e * 1440 + s
    BY <2>2 DEF At
  <2> QED
    BY <1>1, <1>2, <2>3
<1>3. \A d : d \in D <=> d \in E
  BY <1>2
<1> QED
  BY <1>3

\* A derived schedule keeps its distance to the call if and only if the shift stays
\* within the day, or every day is a day of the team.
LEMMA ShiftsKeepTheDay ==
  ASSUME NEW call \in Minutes, NEW minus \in Shifts, NEW days \in Frequency
  PROVE  ShiftKeepsTheDay(call, minus, days)
<1> SUFFICES ASSUME days # "minutely"
             PROVE  Fires(ToCron(days, ShiftTime(call, minus))) = Before(call, minus, days)
                      <=> (days = "daily" \/ call - minus \in 0 .. (Day - 1))
  BY DEF ShiftKeepsTheDay
<1>0. PICK q \in {-1, 0, 1} : /\ call - minus = q * 1440 + ShiftTime(call, minus)
                            /\ ShiftTime(call, minus) \in Minutes
  BY ShiftByADay
<1> DEFINE s == ShiftTime(call, minus)
<1>1. s \in 0 .. 1439 /\ call - minus = q * 1440 + s
  BY <1>0, DayFacts DEF Minutes
<1> HIDE DEF s
<1>2. call \in 0 .. 1439 /\ minus \in -1439 .. 1439 /\ s \in Minutes
  BY <1>1, DayFacts DEF Minutes, Shifts
<1>3. PICK dow : /\ dow = FreqToDow(days) /\ dow \in {0 .. 6, 1 .. 5, {1}}
                 /\ dow = 0 .. 6 <=> days = "daily"
  BY <1>2, FrequencyDays
<1>4. Fires(ToCron(days, s)) = At(dow, s)
  BY <1>2, <1>3, FrequencyDays
<1>5. Before(call, minus, days) = At(Moved(dow, q), s)
  <2>1. CallTimes(call, days) = At(dow, call)
    BY <1>3, FrequencyDays DEF CallTimes
  <2>2. \A d \in dow : d \in 0 .. 6
    BY <1>3
  <2>3. \A d \in dow : ((d * 1440 + call) - minus) % Week = ((d + q) % 7) * 1440 + s
    <3> TAKE d \in dow
    <3>1. (d * 1440 + call) - minus = d * 1440 + q * 1440 + s
      BY <1>1, <1>2, <2>2
    <3>2. d \in 0 .. 6 /\ q \in {-1, 0, 1} /\ s \in 0 .. 1439
      BY <1>1, <2>2
    <3>3. (d * 1440 + q * 1440 + s) % 10080 = ((d + q) % 7) * 1440 + s
      BY <3>2, WeekWraps
    <3> QED
      BY <3>1, <3>3, DayFacts
  <2>4. Before(call, minus, days) = {((d * 1440 + call) - minus) % Week : d \in dow}
    BY <2>1 DEF Before, At
  <2> QED
    BY <2>3, <2>4 DEF At, Moved
<1>6. dow \subseteq 0 .. 6 /\ Moved(dow, q) \subseteq 0 .. 6
  BY <1>3 DEF Moved
<1>7. At(dow, s) = At(Moved(dow, q), s) <=> Moved(dow, q) = dow
  <2> DEFINE moved == Moved(dow, q)
  <2>1. moved \subseteq AllDays /\ dow \subseteq AllDays
    BY <1>6 DEF AllDays
  <2> HIDE DEF moved
  <2>2. At(dow, s) = At(moved, s) <=> dow = moved
    <3>1. At(dow, s) = At(moved, s) => dow = moved
      BY <1>2, <2>1, TimesTell
    <3> QED
      BY <3>1
  <2> QED
    BY <2>2 DEF moved
<1>8. q = 0 <=> call - minus \in 0 .. 1439
  <2> DEFINE n == call - minus
  <2>1. n \in Int /\ n = q * 1440 + s
    BY <1>1, <1>2
  <2> HIDE DEF n
  <2>2. q = 0 <=> n \in 0 .. 1439
    BY SMTT(30), <1>1, <2>1
  <2> QED
    BY <2>2 DEF n
<1>9. Moved(dow, q) = dow <=> q = 0 \/ dow = 0 .. 6
  BY <1>3, DaysMove
<1>10. Fires(ToCron(days, ShiftTime(call, minus))) = Before(call, minus, days) <=> q = 0 \/ dow = 0 .. 6
  BY <1>4, <1>5, <1>7, <1>9 DEF s
<1> QED
  BY <1>3, <1>8, <1>10, DayFacts

\* The schedules of a stand-up lie around its call, on its days.
LEMMA StandupsInOrder ==
  ASSUME NEW call \in Minutes, NEW days \in Frequency
  PROVE  DefaultInOrder(call, days)
<1> SUFFICES ASSUME days # "minutely", call \in 120 .. 1409
             PROVE  \A d \in FreqToDow(days) :
                      LET dsm == DefaultDsm(call, days)
                      IN  /\ dsm.open.at < dsm.preread.at /\ dsm.preread.at < call /\ call < dsm.postcall.at
                          /\ d * Day + dsm.open.at \in Fires(dsm.open)
                          /\ d * Day + dsm.postcall.at \in Fires(dsm.postcall)
  BY DayFacts DEF DefaultInOrder
<1>1. /\ (call - 120) % 1440 = call - 120 /\ (call - 60) % 1440 = call - 60
      /\ (call - (-30)) % 1440 = call + 30
  OBVIOUS
<1>2. /\ ShiftTime(call, 120) = call - 120 /\ ShiftTime(call, 60) = call - 60
      /\ ShiftTime(call, -30) = call + 30
  BY <1>1, DayFacts DEF ShiftTime
<1>3. call - 120 \in Minutes /\ call - 60 \in Minutes /\ call + 30 \in Minutes
  BY DayFacts DEF Minutes
<1>4. /\ DefaultDsm(call, days).open = ToCron(days, call - 120)
      /\ DefaultDsm(call, days).preread = ToCron(days, call - 60)
      /\ DefaultDsm(call, days).postcall = ToCron(days, call + 30)
  BY <1>2 DEF DefaultDsm, OpenCron, PrereadCron, PostcallCron
<1>5. ASSUME NEW time \in Minutes, NEW d \in FreqToDow(days)
      PROVE  d * Day + time \in Fires(ToCron(days, time))
  <2>1. d * 1440 + time \in At(FreqToDow(days), time)
    BY DEF At
  <2> QED
    BY <2>1, FrequencyDays, DayFacts
<1>6. call - 120 < call - 60 /\ call - 60 < call /\ call < call + 30
  OBVIOUS
<1> DEFINE dsm == DefaultDsm(call, days)
<1>7. dsm.open.at = call - 120 /\ dsm.preread.at = call - 60 /\ dsm.postcall.at = call + 30
  <2>1. \A time \in Minutes : ToCron(days, time).at = time
    BY FrequencyDays
  <2> HIDE DEF dsm
  <2>2. /\ dsm.open = ToCron(days, call - 120) /\ dsm.preread = ToCron(days, call - 60)
        /\ dsm.postcall = ToCron(days, call + 30)
    BY <1>4 DEF dsm
  <2> QED
    BY <1>3, <2>1, <2>2
<1>8. dsm.open.at < dsm.preread.at /\ dsm.preread.at < call /\ call < dsm.postcall.at
  BY <1>6, <1>7
<1>9. ASSUME NEW d \in FreqToDow(days)
      PROVE  d * Day + dsm.open.at \in Fires(dsm.open) /\ d * Day + dsm.postcall.at \in Fires(dsm.postcall)
  <2>1. d * Day + (call - 120) \in Fires(ToCron(days, call - 120))
    BY <1>3, <1>5
  <2>2. d * Day + (call + 30) \in Fires(ToCron(days, call + 30))
    BY <1>3, <1>5
  <2> QED
    BY <1>4, <1>7, <2>1, <2>2
<1> QED
  BY <1>8, <1>9

\* Python's weekday is cron's.
LEMMA WeekdaysAgree ==
  ASSUME NEW weekday \in 0 .. 6, NEW time \in Minutes
  PROVE  RunsOnTheWeekday(weekday, time)
<1> DEFINE cron == ToCronWeekday((weekday + 1) % 7, time)
<1>1. cron.at # -1 /\ cron = [dow |-> {(weekday + 1) % 7}, at |-> time]
  BY DayFacts DEF Minutes, ToCronWeekday
<1>2. cron # EveryMinute
  BY <1>1 DEF EveryMinute
<1>3. Fires(cron) = {d * Day + time : d \in {(weekday + 1) % 7}}
  BY <1>1, <1>2 DEF Fires
<1> QED
  BY <1>3 DEF RunsOnTheWeekday, WeekdayToCronDow

\* For every minute of a day and every shift of less than one: the labels of the
\* schedules name the minutes at which they run, a report runs on the weekday that was
\* meant, a derived schedule keeps its distance to the call whenever the shift stays
\* within the day, and a stand-up's schedules lie around its call.
THEOREM CronIsRead == []CronHolds
<1>0. Times \subseteq Minutes /\ Offsets \subseteq Shifts
  BY TimeAssumption DEF Minutes, Shifts
<1>1. ASSUME NEW time \in Times, NEW f \in Frequency PROVE LabelTellsTheRuns(ToCron(f, time))
  <2>1. CASE f = "minutely"
    BY <2>1 DEF ToCron, LabelTellsTheRuns
  <2>2. CASE f # "minutely"
    <3>1. FreqToDow(f) \in DaySets
      BY <1>0, <2>2, FrequencyDays DEF DaySets
    <3>2. ToCron(f, time) = [dow |-> FreqToDow(f), at |-> time]
      BY <1>0, <2>2, FrequencyDays
    <3> QED
      BY <1>0, <3>1, <3>2, LabelsTell
  <2> QED
    BY <2>1, <2>2
<1>2. ASSUME NEW time \in Times, NEW d \in 0 .. 6
      PROVE  LabelTellsTheRuns(ToCronWeekday(d, time)) /\ RunsOnTheWeekday(d, time)
  <2>1. {d} \in DaySets
    BY DEF DaySets
  <2> QED
    BY <2>1, <1>0, LabelsTell, WeekdaysAgree DEF ToCronWeekday
<1>3. \A time \in Times, offset \in Offsets, f \in Frequency : ShiftKeepsTheDay(time, offset, f)
  BY <1>0, ShiftsKeepTheDay
<1>4. \A time \in Times, f \in Frequency : DefaultInOrder(time, f)
  BY <1>0, StandupsInOrder
<1>5. LabelsAreTrue /\ ShiftsAreTrue /\ CallsAreFramed
  BY <1>1, <1>2, <1>3, <1>4 DEF LabelsAreTrue, ShiftsAreTrue, CallsAreFramed
<1> QED
  <2>1. CronHolds
    BY <1>5 DEF CronHolds
  <2> QED
    BY <2>1, PTL

-----------------------------------------------------------------------------
\* The three sets of rules, for all the inputs that the constants name.
THEOREM RulesAreKept == []RulesHold
BY GateIsSound, PolicyIsSound, CronIsRead, PTL DEF RulesHold
=============================================================================
