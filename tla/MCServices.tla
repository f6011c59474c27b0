----------------------------- MODULE MCServices -----------------------------
(***************************************************************************)
(* The services around the job queue, on small instances, in one run.      *)
(* They share no state that a property looks at, so a behaviour runs one   *)
(* of them, its `focus`, and leaves the others at their initial states.    *)
(* With focus "rules" nothing moves: the pure algorithms are evaluated     *)
(* over bounded inputs.                                                    *)
(*                                                                         *)
(* No variable has the name of a parameter of a constant operator: TLC     *)
(* would then evaluate the operator's constant properties in every state.  *)
(***************************************************************************)
EXTENDS ChatTurns, Reminders, Roles, AdminAlerts, CodexLogin, ModelBackend, Schedules,
        SkillLibrary, Standup, SprintReport, PortfolioReport, HomeTab, DigestModal,
        Connectors, MemraSession, Settings, Rules, TLC, SequencesExt

servicesVars == <<focus, chatVars, remindVars, roleVars, alertVars, loginVars, backendVars, planVars, libraryVars,
                  standupVars, reportVars, portfolioVars, homeVars, modalVars, connectorVars, memraVars, settingsVars>>

-----------------------------------------------------------------------------
(* The small instances                                                     *)

MCUserOf == "a1" :> "ann" @@ "a2" :> "ann" @@ "b1" :> "bob" @@ "n1" :> "nobody"

MCLegacy == {<<"shared", "d">>}
MCNameOf == "x" :> "github-app" @@ "y" :> "github-app"

\* The clicks of a behaviour are alike, so their kinds come in this order.
ClickKinds == <<"open", "done", "remove", "submit", "run", "ask">>

MCKeyOf == "b1" :> "acme" @@ "b2" :> "zeta" @@ "b4" :> "kan"

MCText      == "identity" :> {"i1", "i2"} @@ "voice" :> {"v1"}
MCEnv       == "chat" :> "none" @@ "build" :> "none" @@ "review" :> "g1" @@ "heavy" :> "none" @@ "bott" :> "g1"
MCPicks     == {"chat" :> "g2" @@ "build" :> "none" @@ "review" :> "g2"}
MCOverrides == {<<"heavy", "g2">>, <<"chat", "v/m">>}

ServicesInit ==
  /\ focus \in {"rules", "chat", "reminders", "roles", "alerts", "login", "backend",
                "schedules", "library", "standup", "report", "portfolio", "home", "modal",
                "connectors", "memra", "settings"}
  /\ ChatInit /\ RemindInit /\ RoleInit /\ AlertInit
  /\ LoginInit /\ (focus # "login" => ~loggedIn)
  /\ BackendInit /\ (focus # "backend" => \A p \in Proc : health[p] = "none")
  /\ PlanInit /\ LibraryInit /\ StandupInit /\ ReportInit /\ PortfolioInit
  /\ ModalInit
  /\ IF focus = "modal" THEN ends["kan"] = 5 ELSE boards = {} /\ \A k \in DOMAIN ends : ends[k] = 5
  /\ ConnectorInit /\ (focus # "connectors" => env = "none")
  /\ MemraInit /\ SettingsInit
  /\ HomeInit
  /\ IF focus = "home" THEN \E i, j \in DOMAIN ClickKinds : i <= j /\ click = <<ClickKinds[i], ClickKinds[j]>>
     ELSE owner /\ \A c \in DOMAIN click : click[c] = "open"

ServicesNext ==
  /\ UNCHANGED focus
  /\ \/ focus = "chat" /\ ChatNext
     \/ focus # "chat" /\ UNCHANGED chatVars
  /\ \/ focus = "reminders" /\ RemindNext
     \/ focus # "reminders" /\ UNCHANGED remindVars
  /\ \/ focus = "roles" /\ RoleNext
     \/ focus # "roles" /\ UNCHANGED roleVars
  /\ \/ focus = "alerts" /\ AlertNext
     \/ focus # "alerts" /\ UNCHANGED alertVars
  /\ \/ focus = "login" /\ LoginNext
     \/ focus # "login" /\ UNCHANGED loginVars
  /\ \/ focus = "backend" /\ BackendNext
     \/ focus # "backend" /\ UNCHANGED backendVars
  /\ \/ focus = "schedules" /\ PlanNext
     \/ focus # "schedules" /\ UNCHANGED planVars
  /\ \/ focus = "library" /\ LibraryNext
     \/ focus # "library" /\ UNCHANGED libraryVars
  /\ \/ focus = "standup" /\ StandupNext
     \/ focus # "standup" /\ UNCHANGED standupVars
  /\ \/ focus = "report" /\ ReportNext
     \/ focus # "report" /\ UNCHANGED reportVars
  /\ \/ focus = "portfolio" /\ PortfolioNext
     \/ focus # "portfolio" /\ UNCHANGED portfolioVars
  /\ \/ focus = "home" /\ HomeNext
     \/ focus # "home" /\ UNCHANGED homeVars
  /\ \/ focus = "modal" /\ ModalNext
     \/ focus # "modal" /\ UNCHANGED modalVars
  /\ \/ focus = "connectors" /\ ConnectorNext
     \/ focus # "connectors" /\ UNCHANGED connectorVars
  /\ \/ focus = "memra" /\ MemraNext
     \/ focus # "memra" /\ UNCHANGED memraVars
  /\ \/ focus = "settings" /\ SettingsNext
     \/ focus # "settings" /\ UNCHANGED settingsVars

\* Those of ChatTurns and Reminders, asked for where there is something to be fair to.
ServicesFairness ==
  /\ \A t \in Turn :
       WF_chatVars(focus = "chat" /\ (WaitForSlots(t) \/ RunCodex(t) \/ GiveBack(t)))
  /\ WF_remindVars(focus = "reminders" /\ RemindTick)
  /\ \A s \in Sweeper : WF_remindVars(focus = "reminders" /\ Sweep(s))

ServicesSpec == ServicesInit /\ [][ServicesNext]_servicesVars /\ ServicesFairness

-----------------------------------------------------------------------------
(* The inputs of the pure algorithms                                       *)

MCPathOf == "a" :> "p" @@ "b" :> "q"
Lookup(tool, path) == [tool |-> tool, path |-> path]
MCRuns ==
  [calls : {{}, {Lookup("read_file", "p"), Lookup("search_code", ""), Lookup("get_file_history", "q")}},
   checks : {{}, {"success", "failure"}, {"success", "queued"}},
   files : {{}, {[status |-> "added", additions |-> 50, kind |-> "code"]}},
   changedFiles : {1}, lines : {199, 200}, observable : BOOLEAN, termination : {"natural", "max_turns"},
   prior : {NoPrior, [verdict |-> "issues", issues |-> {"a"}],
            [verdict |-> "issues", issues |-> {"a", "b"}], [verdict |-> "approve", issues |-> {"a"}]}]
MCOutputs == [verdict : Verdicts, comments : [{"a", "b"} -> Severities \union {"none"}],
              withdrawn : [{"a", "b"} -> {{}, {"p"}}], fixClaim : BOOLEAN, confidence : {"high", "low"}]
MCPairOutputs == {o \in MCOutputs : ~o.fixClaim /\ o.confidence = "high"}
MCPairRuns == {c \in MCRuns : /\ c.checks = {} /\ c.files = {} /\ c.lines = 199 /\ c.observable
                              /\ c.termination = "natural" /\ c.prior = NoPrior}

MCTimes   == {k * 30 : k \in 0..47} \union {1, 719, 721, 1439}
MCOffsets == {0, 30, 60, 120, -30, 1439}

Inp == INSTANCE ReviewInput WITH MaxTries <- 3, PerPage <- 2, DiffCap <- 7, PatchCap <- 4
Patches == BoundedSeq({Inp!Header(1), Inp!Header(5), Inp!Line("+"), Inp!Line("-"), Inp!Line(" "), Inp!Line("\\")}, 4)
CiLists == BoundedSeq({"pass", "fail", "pending"}, 3) \union {<<"error">>}
Kinds   == {0, 2, 9, 98, 99}
File(id, kind) == [id |-> id, removed |-> kind = 99, noise |-> kind = 98, size |-> kind]
FileLists == UNION {{[i \in 1..n |-> File(i, f[i])] : f \in [1..n -> Kinds]} : n \in 0..4}

Jir == INSTANCE JiraFacts
Issues == {i \in [id : 1..2, points : {-1, 0, 3}, done : BOOLEAN] : TRUE}
IssueSets == {S \in SUBSET Issues : Cardinality(S) <= 3}
Boards == {[id |-> id, key |-> k, words |-> w, scrum |-> sc] :
             id \in 1..2, k \in {"acme", "other"}, w \in {{}, {"acme"}}, sc \in BOOLEAN}
BoardSets == {S \in SUBSET Boards : Cardinality(S) <= 3 /\ \A b, c \in S : b.id = c.id => b = c}
SprintSets == {S \in SUBSET [id : 1..4, state : {"closed", "active", "future"}] :
                 \A s, t \in S : s.id = t.id => s = t}
BlockOf == [type : {"table", "cards", "bullets", "poem"},
            source : {"", "delivered_stories", "next_sprint_stories"}, rows : {{}, {"own"}}]
Facts == [delivered_stories |-> {"a"}, incomplete |-> {"b"}, next_sprint_stories |-> {"c"}]
JiraRules ==
  /\ Jir!ReadsAreComplete({[i \in 1..n |-> i] : n \in 0..5}, 1..3)
  /\ \A B \in BoardSets : \A size \in 1..2 : Jir!BoardHasSprints("acme", B, size)
  /\ \A S \in SprintSets, sc \in BOOLEAN : Jir!SprintsInOrder([sprints |-> S, scrum |-> sc])
  /\ \A S \in IssueSets : Jir!HeaderMatchesTables(S, {})
  /\ \A bs \in BoundedSeq(BlockOf, 2) : Jir!FactsAreJiras(bs, Facts)
  /\ Jir!SlugsApart(2..12, 1..120)
  /\ \A a \in [1..3 -> {"ok", "refused", "gone", "busy", "down"}] : Jir!RetriesEnd(a)

Envs == {[MCEnv EXCEPT !["chat"] = c, !["build"] = b, !["heavy"] = h] : c, b, h \in {"none", "g2", "v/m"}}
Rosters == {c \in BoundedSeq([slug : {"a", "b", "c"}, list : BOOLEAN, priority : 0..2], 3) :
              \A i, j \in DOMAIN c : i # j => c[i].slug # c[j].slug}
Trc == INSTANCE ReviewStats WITH Week <- 2, Top <- 2
TraceLists == BoundedSeq([created : {0, 1, 3}, repo : {1}, original : {"none", "a"}, final : {"none", "a", "b"}], 2)
              \union BoundedSeq([created : {1, 5}, repo : 1..3, original : {"a"}, final : {"a"}], 3)

Engagements == [account : {"x", "y"}, band : {"high", "low", "unknown"}, score : {10, 80},
                sentiment : {40}, trend : {-9, 0, 9}, weight : {0, 2}]
EngagementSets == {{d, e} : d, e \in Engagements}

Viw == INSTANCE HomeView
\* Accounts of several lengths, and some with a bar, in or behind the part that is kept.
AccountTexts == {Viw!Text("name", n) : n \in {1, 27, 28, 29, 90}}
                \union {[Viw!Text("name", b[1]) EXCEPT ![b[2]] = "|"] : b \in {<<5, 1>>, <<5, 5>>, <<30, 28>>, <<40, 29>>}}
AtRisk == [id : {0, 1, 2}, band : {"high", "low", "none"}, score : {10, 80}]
HomeRules ==
  /\ Viw!HomeFits({0, 1, 5})
  /\ Viw!StandupsBuild(SUBSET {"open", "preread", "callsummary", "post"})
  /\ Viw!ValuesSurvive(AccountTexts)
  /\ \A E \in {{d, e, f} : d, e, f \in AtRisk}, limit \in 1..2 :
       (\A d, e \in E : d.id = e.id /\ d.id # 0 => d = e) => Viw!WorstAreListed(E, limit)
  /\ \A bs \in BoundedSeq([key : {"", "a", "b"}, scrum : BOOLEAN], 3), limit \in 1..2 :
       Viw!ProjectsOfferedOnce(bs, limit)

SettingsRules ==
  /\ ModelsAreSeparate([ModelKey -> {"none", "g1", "g2", "v/m"}], Envs)
  /\ RosterIsListed(Rosters)

-----------------------------------------------------------------------------
(* Properties: those of the components.  The modules that this one extends *)
(* have theirs in themselves.                                              *)

\* The type invariants of all the components.
TypesOK ==
  /\ focus = "chat"      => ChatTypeOK
  /\ focus = "reminders" => RemindTypeOK
  /\ focus = "roles"     => RoleTypeOK
  /\ focus = "alerts"    => AlertTypeOK
  /\ focus = "login"     => LoginTypeOK
  /\ focus = "backend"   => BackendTypeOK
  /\ focus = "schedules" => PlanTypeOK
  /\ focus = "library"   => LibraryTypeOK
  /\ focus = "standup"   => StandupTypeOK
  /\ focus = "report"    => ReportTypeOK
  /\ focus = "portfolio" => PortfolioTypeOK
  /\ focus = "home"      => HomeTypeOK
  /\ focus = "modal"     => ModalTypeOK
  /\ focus = "connectors" => ConnectorTypeOK
  /\ focus = "memra"     => MemraTypeOK
  /\ focus = "settings"  => SettingsTypeOK

\* What the pages and modals show is what Jira, Memra and the store say, a schedule is made for
\* what its viewer chose, the models and prompts an admin sets are in force as shown, and a
\* review reads all there is and comments where it may.
PagesHold ==
  /\ HistoryIsKept /\ [](focus = "portfolio" => TodayIsToday)
  /\ [](focus = "modal" => MadeAsPicked /\ DateIsOfTheChosen)
  /\ [](focus = "settings" => NoticeIsTrue /\ RestartSwitches)
  /\ focus = "rules" =>
       /\ JiraRules /\ HomeRules /\ SettingsRules
       /\ \A E \in EngagementSets : WorstShows(E)
       /\ Trc!ChartsAgree(TraceLists, {0, 1, 2})
       /\ Inp!RetriesAreBlind /\ Inp!PagesAreComplete /\ Inp!CiIsTheWorst(CiLists)
       /\ Inp!DiffIsAPrefix(FileLists) /\ Inp!AnchorsAreHeadLines(Patches) /\ Inp!TokensHaveTime
=============================================================================
