----------------------------- MODULE Connectors -----------------------------
(***************************************************************************)
(* The credentials that admins add from the console                        *)
(* (shared/connector_credentials.py, the connector routes, skills/         *)
(* connectors/probes.py) and their one reader that acts on them, the       *)
(* GitHub App (config.py, github/app_auth.py): its id and its key are read *)
(* one after the other, outside the lock, and minted tokens are kept.      *)
(* A bundle is one set of credentials; it is stored under a name.          *)
(***************************************************************************)
EXTENDS Naturals, FiniteSets

CONSTANTS
  Bundle, NameOf,                    \* what admins may enter, and the name each is stored under
  EnvApp,                            \* the App that the environment may hold
  Sound,                             \* the bundles the service at the other end accepts
  ConnectorAdmin, AppCall, AppRepo,  \* slots of requests and of calls for a token, and the repositories
  TokenKept,                         \* how long a minted token is handed out
  MaxHours,                          \* bound on the clock
  MaxConnectorChanges,               \* bound: requests of admins
  MaxConnectorFaults                 \* bound: database and network errors

NoApp == "none"
App   == "github-app"

\* The catalog has the GitHub App, and no connector has the name of the Codex login's row.
ASSUME ConnectorAssumption ==
  /\ App \in {NameOf[b] : b \in Bundle} /\ "codex-org" \notin {NameOf[b] : b \in Bundle}
  /\ {NoApp, "raised"} \intersect (Bundle \union {EnvApp}) = {} /\ NoApp \notin Sound
  /\ AppRepo # {} /\ TokenKept \in Nat

VARIABLES
  env,               \* the App of the environment, or NoApp; never changes
  bundles,           \* name -> the bundle stored for the console
  codexRow,          \* the org's Codex login, in the same table under its own user
  conReq,            \* admin slot -> [at, name, bundle]
  appCall,           \* call slot -> where it is, what it read, and what happened meanwhile
  minted,            \* repository -> the token kept for it
  lastIn,            \* App -> when it was last in force, 0 for never
  hours, changes, conFaults

connectorVars == <<env, bundles, codexRow, conReq, appCall, minted, lastIn, hours, changes, conFaults>>

AppName == {NameOf[b] : b \in Bundle} \union {"codex-org"}
AnApp   == {b \in Bundle : NameOf[b] = App} \union {EnvApp, NoApp}
NoReq   == [at |-> "idle", name |-> App, bundle |-> NoApp]
NoToken == [app |-> NoApp, until |-> 0, blind |-> FALSE]
NoAppCall == [at |-> "idle", kind |-> "token", repo |-> CHOOSE r \in AppRepo : TRUE,
              id |-> NoApp, key |-> NoApp, answer |-> NoApp, cached |-> FALSE, blind |-> FALSE, steady |-> TRUE]

ConnectorTypeOK ==
  /\ env \in {EnvApp, NoApp}
  /\ bundles \in [AppName -> Bundle \union {NoApp}] /\ codexRow \in BOOLEAN
  /\ conReq \in [ConnectorAdmin -> [at : {"idle", "probe", "store", "remove"}, name : AppName, bundle : Bundle \union {NoApp}]]
  /\ appCall \in [AppCall -> [at : {"idle", "key", "ask", "mint", "done"}, kind : {"token", "permissions"},
                              repo : AppRepo, id : AnApp, key : AnApp, answer : AnApp \union {"raised"},
                              cached : BOOLEAN, blind : BOOLEAN, steady : BOOLEAN]]
  /\ minted \in [AppRepo -> [app : AnApp, until : 0..(MaxHours + TokenKept), blind : BOOLEAN]]
  /\ lastIn \in [AnApp -> 0..MaxHours]
  /\ hours \in 1..MaxHours /\ changes \in 0..MaxConnectorChanges /\ conFaults \in 0..MaxConnectorFaults

ConnectorInit ==
  /\ env \in {EnvApp, NoApp}
  /\ bundles = [n \in AppName |-> NoApp] /\ codexRow = TRUE
  /\ conReq = [a \in ConnectorAdmin |-> NoReq] /\ appCall = [c \in AppCall |-> NoAppCall]
  /\ minted = [r \in AppRepo |-> NoToken]
  /\ lastIn = [a \in AnApp |-> 0]
  /\ hours = 1 /\ changes = 0 /\ conFaults = 0

\* github_app_credentials: the store first, then the environment.
AppInForce     == IF bundles[App] # NoApp THEN bundles[App] ELSE env
ConnectorFault == conFaults < MaxConnectorFaults /\ conFaults' = conFaults + 1

-----------------------------------------------------------------------------
(* The admins' requests                                                    *)

CallStarted == changes < MaxConnectorChanges /\ changes' = changes + 1

\* A bundle whose fields are complete is probed before it is stored.
AskAdd(a, b) ==
  /\ conReq[a] = NoReq /\ CallStarted
  /\ conReq' = [conReq EXCEPT ![a] = [at |-> "probe", name |-> NameOf[b], bundle |-> b]]
  /\ UNCHANGED <<env, bundles, codexRow, appCall, minted, lastIn, hours, conFaults>>

ProbeAnswers(b) == b \in Sound

\* Mutant: only an error of the server counts against a candidate, as for an HTTP API.
Probed_Reachable(a) ==
  /\ conReq[a].at = "probe"
  /\ conReq' = [conReq EXCEPT ![a].at = "store"]
  /\ UNCHANGED <<env, bundles, codexRow, appCall, minted, lastIn, hours, changes, conFaults>>

Probed(a) ==
  /\ conReq[a].at = "probe"
  /\ \/ ProbeAnswers(conReq[a].bundle) /\ conReq' = [conReq EXCEPT ![a].at = "store"] /\ UNCHANGED conFaults
     \/ ~ProbeAnswers(conReq[a].bundle) /\ conReq' = [conReq EXCEPT ![a] = NoReq] /\ UNCHANGED conFaults
     \/ ConnectorFault /\ conReq' = [conReq EXCEPT ![a] = NoReq]
  /\ UNCHANGED <<env, bundles, codexRow, appCall, minted, lastIn, hours, changes>>

\* Every change of the store is one transaction; the App that was in force was so until now.
Write(name, bundle) ==
  /\ bundles' = [bundles EXCEPT ![name] = bundle]
  /\ lastIn' = [lastIn EXCEPT ![AppInForce] = hours]
  /\ appCall' = IF bundles[App] = bundles'[App] THEN appCall
                ELSE [c \in AppCall |-> [appCall[c] EXCEPT !.steady = appCall[c].at = "idle"]]

Store(a) ==
  /\ conReq[a].at = "store"
  /\ Write(conReq[a].name, conReq[a].bundle)
  /\ conReq' = [conReq EXCEPT ![a] = NoReq]
  /\ UNCHANGED <<env, codexRow, minted, hours, changes, conFaults>>

\* Of two stores of one name that overlap, one may violate the primary key.
StoreRaises(a) ==
  /\ conReq[a].at = "store" /\ ConnectorFault
  /\ conReq' = [conReq EXCEPT ![a] = NoReq]
  /\ UNCHANGED <<env, bundles, codexRow, appCall, minted, lastIn, hours, changes>>

\* Mutant: the names of the whole table.
ConfiguredNames_All == {n \in AppName : bundles[n] # NoApp} \union (IF codexRow THEN {"codex-org"} ELSE {})
ConfiguredNames     == {n \in AppName : bundles[n] # NoApp}

\* A name that is not in the store is a 404; the check and the delete are two transactions.
AskRemove(a, name) ==
  /\ conReq[a] = NoReq /\ name \in ConfiguredNames /\ CallStarted
  /\ conReq' = [conReq EXCEPT ![a] = [NoReq EXCEPT !.at = "remove", !.name = name]]
  /\ UNCHANGED <<env, bundles, codexRow, appCall, minted, lastIn, hours, conFaults>>

\* The row goes, and with it whatever was stored under the name since the check.
RemoveRow(a) ==
  /\ conReq[a].at = "remove"
  /\ Write(conReq[a].name, NoApp)
  /\ codexRow' = (codexRow /\ conReq[a].name # "codex-org")
  /\ conReq' = [conReq EXCEPT ![a] = NoReq]
  /\ UNCHANGED <<env, minted, hours, changes, conFaults>>

-----------------------------------------------------------------------------
(* app_token_for and app_permissions_for                                   *)

\* load answers None for a database error, and the environment's App takes over.
Loaded(blind) == IF blind THEN env ELSE AppInForce
Costs(blind)  == IF blind THEN ConnectorFault ELSE UNCHANGED conFaults

\* github_app_id, then github_app_private_key: each loads the bundle again.
ReadId(c, kind, repo, blind) ==
  /\ appCall[c] = NoAppCall /\ Costs(blind)
  /\ appCall' = [appCall EXCEPT ![c] = [NoAppCall EXCEPT !.at = "key", !.kind = kind, !.repo = repo,
                                                         !.id = Loaded(blind), !.blind = blind]]
  /\ UNCHANGED <<env, bundles, codexRow, conReq, minted, lastIn, hours, changes>>

\* Mutant: the kept token is looked up before the credentials.
ReadKey_CacheFirst(c, blind) ==
  /\ appCall[c].at = "key" /\ Costs(blind)
  /\ appCall' = [appCall EXCEPT ![c].key = Loaded(blind), ![c].blind = @ \/ blind, ![c].at = "ask"]
  /\ UNCHANGED <<env, bundles, codexRow, conReq, minted, lastIn, hours, changes>>

ReadKey(c, blind) ==
  /\ appCall[c].at = "key" /\ Costs(blind)
  /\ appCall' = [appCall EXCEPT ![c].key = Loaded(blind), ![c].blind = @ \/ blind,
                                ![c].at = IF NoApp \in {appCall[c].id, Loaded(blind)} THEN "done" ELSE "ask"]
  /\ UNCHANGED <<env, bundles, codexRow, conReq, minted, lastIn, hours, changes>>

Valid(c) == appCall[c].id = appCall[c].key /\ appCall[c].id \in Sound
Finish(c, answer) == [appCall[c] EXCEPT !.at = "done", !.answer = answer]

\* Mutant: a token is good for ever.
TokenFresh_Always(repo) == minted[repo] # NoToken
TokenFresh(repo)        == minted[repo] # NoToken /\ hours < minted[repo].until

\* One lock for all repositories, held while a token is minted.
LookUp(c) ==
  /\ appCall[c].at = "ask" /\ appCall[c].kind = "token"
  /\ \A d \in AppCall : appCall[d].at # "mint"
  /\ LET token == minted[appCall[c].repo] IN
     appCall' = [appCall EXCEPT ![c] = IF TokenFresh(appCall[c].repo)
                                       THEN [Finish(c, token.app) EXCEPT !.cached = TRUE, !.blind = @ \/ token.blind]
                                       ELSE [@ EXCEPT !.at = "mint"]]
  /\ UNCHANGED <<env, bundles, codexRow, conReq, minted, lastIn, hours, changes, conFaults>>

Mint(c) ==
  /\ appCall[c].at = "mint" /\ Valid(c)
  /\ minted' = [minted EXCEPT ![appCall[c].repo] = [app |-> appCall[c].id, until |-> hours + TokenKept, blind |-> appCall[c].blind]]
  /\ appCall' = [appCall EXCEPT ![c] = Finish(c, appCall[c].id)]
  /\ UNCHANGED <<env, bundles, codexRow, conReq, lastIn, hours, changes, conFaults>>

\* The id of one App with the key of another is refused, and nothing is kept.
MintRefused(c) ==
  /\ appCall[c].at = "mint" /\ ~Valid(c)
  /\ appCall' = [appCall EXCEPT ![c] = Finish(c, "raised")]
  /\ UNCHANGED <<env, bundles, codexRow, conReq, minted, lastIn, hours, changes, conFaults>>

\* app_permissions_for asks without a token, and answers None to any failure.
AskPermissions(c) ==
  /\ appCall[c].at = "ask" /\ appCall[c].kind = "permissions"
  /\ appCall' = [appCall EXCEPT ![c] = Finish(c, IF Valid(c) THEN appCall[c].id ELSE NoApp)]
  /\ UNCHANGED <<env, bundles, codexRow, conReq, minted, lastIn, hours, changes, conFaults>>

NetworkFails(c) ==
  /\ appCall[c].at = "mint" \/ (appCall[c].at = "ask" /\ appCall[c].kind = "permissions")
  /\ ConnectorFault
  /\ appCall' = [appCall EXCEPT ![c] = [Finish(c, IF appCall[c].kind = "token" THEN "raised" ELSE NoApp) EXCEPT !.blind = TRUE]]
  /\ UNCHANGED <<env, bundles, codexRow, conReq, minted, lastIn, hours, changes>>

Take(c) ==
  /\ appCall[c].at = "done"
  /\ appCall' = [appCall EXCEPT ![c] = NoAppCall]
  /\ UNCHANGED <<env, bundles, codexRow, conReq, minted, lastIn, hours, changes, conFaults>>

\* A call takes seconds and a token is kept for an hour: no time passes during a call.
HourPasses ==
  /\ hours < MaxHours /\ \A c \in AppCall : appCall[c].at = "idle"
  /\ hours' = hours + 1
  /\ UNCHANGED <<env, bundles, codexRow, conReq, appCall, minted, lastIn, changes, conFaults>>

ConnectorNext ==
  \/ \E a \in ConnectorAdmin : \/ \E b \in Bundle : AskAdd(a, b)
                               \/ \E n \in AppName : AskRemove(a, n)
                               \/ Probed(a) \/ Store(a) \/ StoreRaises(a) \/ RemoveRow(a)
  \/ \E c \in AppCall : \/ \E kind \in {"token", "permissions"}, r \in AppRepo, blind \in BOOLEAN : ReadId(c, kind, r, blind)
                        \/ \E blind \in BOOLEAN : ReadKey(c, blind)
                        \/ LookUp(c) \/ Mint(c) \/ MintRefused(c)
                        \/ AskPermissions(c) \/ NetworkFails(c) \/ Take(c)
  \/ HourPasses

ConnectorSpec == ConnectorInit /\ [][ConnectorNext]_connectorVars

-----------------------------------------------------------------------------
(* Properties                                                              *)

\* Only what a probe has accepted is in the store, and the org's Codex login, a row
\* of the same table, cannot be removed as if it were a connector.
OnlyProbedIsStored == codexRow /\ \A n \in AppName : bundles[n] \in Sound \union {NoApp}

LastIn(app) == IF app = AppInForce THEN hours ELSE lastIn[app]

\* Without errors, a token belongs to an App that was in force during the call or, when it
\* was kept, within the time that tokens are kept: a replaced App acts no longer than that.
TokensAreOfAnApp ==
  \A c \in AppCall :
    appCall[c].at = "done" /\ appCall[c].kind = "token" /\ appCall[c].answer \notin {NoApp, "raised"} /\ ~appCall[c].blind
      => hours - LastIn(appCall[c].answer) <= (IF appCall[c].cached THEN TokenKept ELSE 0) /\ LastIn(appCall[c].answer) > 0

\* Without errors and changes during the call: no App in force, no token, whatever is kept;
\* and an App that GitHub accepts is never reported as missing, nor its token refused.
AnswersAreTrue ==
  \A c \in AppCall :
    appCall[c].at = "done" /\ ~appCall[c].blind /\ appCall[c].steady
      => /\ AppInForce = NoApp => appCall[c].answer = NoApp
         /\ AppInForce \in Sound => appCall[c].answer \notin {NoApp, "raised"}

\* Which App acts: one that a probe has accepted, that of the store before that of the
\* environment, and a replaced one no longer than its tokens are kept.
AppsHold == OnlyProbedIsStored /\ TokensAreOfAnApp /\ AnswersAreTrue
=============================================================================
