------------------------------ MODULE Settings ------------------------------
(***************************************************************************)
(* What admins set for all of bott: the model of each task                 *)
(* (shared/model.py, slack_home/models.py), kept in the settings store     *)
(* over the environment, and the versions of the two prompts               *)
(* (persistence/prompts_store.py).  Calls resolve their model when they    *)
(* are made; the always-on chat assistant takes its model and its prompts  *)
(* when the process starts.                                                *)
(***************************************************************************)
EXTENDS Naturals, Sequences, SequencesExt, Functions, FiniteSets

CONSTANTS
  Model, Vendor,     \* model ids, and those of the removed providers ("vendor/model")
  Overrides, Picks,  \* the requests made: <<key, value>> of the console, role -> value of Slack
  ModelEnv,          \* what the environment names per role, for "heavy" and for all ("bott")
  SettingsAdmin,     \* slots of requests
  PromptText,        \* prompt -> what may be written into it
  MaxSettingChanges, MaxSettingFaults   \* bounds: requests that change something, errors

NoModel  == "none"
Role     == {"chat", "build", "review"}
ModelKey == Role \union {"heavy"}
Prompt   == DOMAIN PromptText
Unset    == [k \in ModelKey |-> NoModel]

\* What the console and the Slack modal ask for.
ASSUME RequestAssumption ==
  /\ Overrides \subseteq ModelKey \X (Model \union Vendor \union {NoModel})
  /\ Picks \subseteq [Role -> Model \union {NoModel}]

-----------------------------------------------------------------------------
(* Which model                                                             *)

\* Mutant: an id of a removed provider is taken from the store.
CodexId_Any(value) == value
CodexId(value)     == IF value \in Vendor THEN NoModel ELSE value

\* role_model_id: the environment's own name, then the heavy tier, then the one for all, taken
\* as they are, the id of a removed provider too.
RoleModelId(role, env) ==
  CASE env[role] # NoModel -> env[role]
    [] role # "chat" /\ env[role] = NoModel /\ env["heavy"] # NoModel -> env["heavy"]
    [] OTHER -> env["bott"]

\* Mutant: the legacy tier overrides the setting of the role itself.
ResolveModelId_HeavyFirst(role, store, env) ==
  LET legacy == IF role = "chat" THEN NoModel ELSE CodexId(store["heavy"])
  IN IF legacy # NoModel THEN legacy
     ELSE IF CodexId(store[role]) # NoModel THEN CodexId(store[role]) ELSE RoleModelId(role, env)

ResolveModelId(role, store, env) ==
  LET direct == CodexId(store[role])
      legacy == IF role = "chat" THEN NoModel ELSE CodexId(store["heavy"])
  IN IF direct # NoModel THEN direct ELSE IF legacy # NoModel THEN legacy ELSE RoleModelId(role, env)

Matrix(store) == [r \in Role |-> ResolveModelId(r, store, ModelEnv)]

\* The roster of the Codex CLI: what it lists, by priority, unprioritized ones last (0 here);
\* a static list when its cache is missing, malformed or lists nothing.
ListedModels(cache) == {i \in DOMAIN cache : cache[i].list}
ListedBefore(cache, i, j) ==
  LET rank(k) == IF cache[k].priority = 0 THEN 99 ELSE cache[k].priority
  IN rank(i) < rank(j) \/ (rank(i) = rank(j) /\ i < j)
AvailableCodexModels(cache, fallback) ==
  IF ListedModels(cache) = {} THEN fallback
  ELSE LET order == SetToSortSeq(ListedModels(cache), LAMBDA i, j : ListedBefore(cache, i, j))
       IN [k \in DOMAIN order |-> cache[order[k]].slug]

-----------------------------------------------------------------------------
VARIABLES
  stored, versions,  \* the settings, and the prompts' versions in the order of their ids
  assistant,         \* what the chat assistant was started with
  behind,            \* something was written since, or the store was not read at the start
  change,            \* slot -> [at, left: the keys still to be written, picks, told, alone]
  setChanges, setFaults

settingsVars == <<stored, versions, assistant, behind, change, setChanges, setFaults>>

NoChange == [at |-> "idle", left |-> {}, picks |-> Unset, told |-> Matrix(Unset), alone |-> TRUE]
Current(name) ==
  LET own == {i \in DOMAIN versions : versions[i].name = name}
  IN IF own = {} THEN "built-in" ELSE versions[CHOOSE i \in own : \A j \in own : j <= i].content
Assistant(st) == [model |-> ResolveModelId("chat", st, ModelEnv), prompts |-> [p \in Prompt |-> Current(p)]]

SettingsTypeOK ==
  /\ stored \in [ModelKey -> Model \union Vendor \union {NoModel}]
  /\ versions \in BoundedSeq([name : Prompt, content : UNION Range(PromptText)], MaxSettingChanges)
  /\ assistant.model \in Model \union Vendor /\ behind \in BOOLEAN
  /\ \A a \in SettingsAdmin : /\ change[a].at \in {"idle", "write", "tell", "done"} /\ change[a].alone \in BOOLEAN
                             /\ change[a].left \subseteq ModelKey
                             /\ change[a].told \in [Role -> Model \union Vendor]
  /\ setChanges \in 0..MaxSettingChanges /\ setFaults \in 0..MaxSettingFaults

SettingsInit ==
  /\ stored = Unset /\ versions = <<>> /\ assistant = Assistant(Unset) /\ behind = FALSE
  /\ change = [a \in SettingsAdmin |-> NoChange] /\ setChanges = 0 /\ setFaults = 0

SettingsFault == setFaults < MaxSettingFaults /\ setFaults' = setFaults + 1

\* A request that overlaps another is not alone, nor is the other.
AskChange(a, left, picks) ==
  /\ change[a].at = "idle" /\ left # {}
  /\ setChanges < MaxSettingChanges /\ setChanges' = setChanges + 1
  /\ LET busy == {b \in SettingsAdmin \ {a} : change[b].at # "idle"} IN
     change' = [b \in SettingsAdmin |->
       IF b = a THEN [NoChange EXCEPT !.at = "write", !.left = left, !.picks = picks, !.alone = busy = {}]
       ELSE [change[b] EXCEPT !.alone = @ /\ b \notin busy]]
  /\ UNCHANGED <<stored, versions, assistant, behind, setFaults>>

\* The console sets one key, "heavy" too; any text is taken for an id.
Override(a, key, value) == AskChange(a, {key}, [Unset EXCEPT ![key] = value])

\* The Slack modal applies what is selected in it.
SubmitPicks(a, picks) ==
  AskChange(a, {r \in Role : picks[r] # NoModel}, [k \in ModelKey |-> IF k \in Role THEN picks[k] ELSE NoModel])

\* One by one, in this order.
KeyTurn == [chat |-> 1, build |-> 2, review |-> 3, heavy |-> 4]
NextKey(left) == CHOOSE k \in left : \A l \in left : KeyTurn[k] <= KeyTurn[l]

WriteSetting(a) ==
  /\ change[a].at = "write"
  /\ LET k == NextKey(change[a].left)
     IN /\ stored' = [stored EXCEPT ![k] = change[a].picks[k]]
        /\ change' = [change EXCEPT ![a].at = "tell", ![a].left = @ \ {k}]
  /\ behind' = TRUE
  /\ UNCHANGED <<versions, assistant, setChanges, setFaults>>

\* Each answer shows the matrix as it resolves after the write; the reads are tolerant, and
\* without the database it is the environment's.
TellMatrix(a, blind) ==
  /\ change[a].at = "tell"
  /\ IF blind THEN SettingsFault ELSE UNCHANGED setFaults
  /\ change' = [change EXCEPT ![a].told = Matrix(IF blind THEN Unset ELSE stored), ![a].alone = @ /\ ~blind,
                              ![a].at = IF change[a].left = {} THEN "done" ELSE "write"]
  /\ UNCHANGED <<stored, versions, assistant, behind, setChanges>>

\* A write that raises ends the request: what was written before it stays.
WriteSettingFails(a) ==
  /\ change[a].at = "write" /\ SettingsFault
  /\ change' = [change EXCEPT ![a] = NoChange]
  /\ UNCHANGED <<stored, versions, assistant, behind, setChanges>>

Answered(a) ==
  /\ change[a].at = "done"
  /\ change' = [change EXCEPT ![a] = NoChange]
  /\ UNCHANGED <<stored, versions, assistant, behind, setChanges, setFaults>>

InsertVersion(name, content) ==
  /\ setChanges < MaxSettingChanges /\ setChanges' = setChanges + 1
  /\ versions' = Append(versions, [name |-> name, content |-> content])
  /\ behind' = TRUE
  /\ UNCHANGED <<stored, assistant, change, setFaults>>

SavePrompt(name, content) == content \in PromptText[name] /\ InsertVersion(name, content)

\* Mutant: any version can be restored, whichever prompt it is of.
RevertPrompt_Any(name, id) == id \in DOMAIN versions /\ InsertVersion(name, versions[id].content)

\* The text of an earlier version becomes a new one; a version of the other prompt is a 404.
RevertPrompt(name, id) ==
  /\ id \in DOMAIN versions /\ versions[id].name = name
  /\ InsertVersion(name, versions[id].content)

\* Mutant: the assistant keeps the prompts it had.
SettingsRestart_Keeps(blind) ==
  /\ IF blind THEN SettingsFault ELSE UNCHANGED setFaults
  /\ assistant' = [Assistant(IF blind THEN Unset ELSE stored) EXCEPT !.prompts = assistant.prompts]
  /\ behind' = blind
  /\ change' = [a \in SettingsAdmin |-> NoChange]
  /\ UNCHANGED <<stored, versions, setChanges>>

\* The process starts again: requests are lost where they are.  A setting that cannot be read
\* is taken for unset; a prompt that cannot be read stops the start.
SettingsRestart(blind) ==
  /\ IF blind THEN SettingsFault ELSE UNCHANGED setFaults
  /\ assistant' = Assistant(IF blind THEN Unset ELSE stored)
  /\ behind' = blind
  /\ change' = [a \in SettingsAdmin |-> NoChange]
  /\ UNCHANGED <<stored, versions, setChanges>>

SettingsNext ==
  \/ \E a \in SettingsAdmin :
       \/ \E kv \in Overrides : Override(a, kv[1], kv[2])
       \/ \E picks \in Picks : SubmitPicks(a, picks)
       \/ WriteSetting(a) \/ (\E blind \in BOOLEAN : TellMatrix(a, blind)) \/ WriteSettingFails(a) \/ Answered(a)
  \/ \E name \in Prompt : \/ \E content \in PromptText[name] : SavePrompt(name, content)
                          \/ \E id \in 1..MaxSettingChanges : RevertPrompt(name, id)
  \/ \E blind \in BOOLEAN : SettingsRestart(blind)

SettingsSpec == SettingsInit /\ [][SettingsNext]_settingsVars

-----------------------------------------------------------------------------
(* Properties                                                              *)

\* An answer that no other admin's request and no error has crossed tells the matrix in
\* force, and in it every Codex model that was picked.
NoticeIsTrue ==
  \A a \in SettingsAdmin : change[a].at = "done" /\ change[a].alone =>
    /\ change[a].told = Matrix(stored)
    /\ \A r \in Role : CodexId(change[a].picks[r]) # NoModel => change[a].told[r] = change[a].picks[r]

\* A restart switches the assistant to what was set and written before it, and a prompt
\* only ever holds what was written for it.
RestartSwitches ==
  /\ ~behind => assistant = Assistant(stored)
  /\ \A i \in DOMAIN versions : versions[i].content \in PromptText[versions[i].name]

\* Whatever is in the store, a task runs on a model: on one of a removed provider only where
\* the environment names it and no Codex model is stored for the task.  Setting one task's
\* model changes no other's, except that the legacy tier reaches builds and reviews without
\* one of their own.  Nor does it matter which models are alike: a reviewer that is set to
\* the builder's model runs on it.  The modal's "Bott will auto-swap the reviewer at run
\* time" (slack_home/blocks.py 333-336) is not so; _review_anti_affinity returns the id it is
\* given (shared/model.py 75-84).
ModelsAreSeparate(stores, envs) ==
  \A st \in stores, env \in envs, role \in Role :
    /\ ResolveModelId(role, st, env) # NoModel
    /\ ResolveModelId(role, st, env) \in Vendor =>
         CodexId(st[role]) = NoModel /\ ResolveModelId(role, st, env) = RoleModelId(role, env)
    /\ \A k \in ModelKey, v \in Model \union Vendor :
         LET new == ResolveModelId(role, [st EXCEPT ![k] = v], env) IN
         /\ k = role => new = (IF v \in Vendor THEN ResolveModelId(role, [st EXCEPT ![k] = NoModel], env) ELSE v)
         /\ new # ResolveModelId(role, st, env) => k = role \/ (k = "heavy" /\ role # "chat" /\ CodexId(st[role]) = NoModel)

\* There is always a model to pick, what is offered is listed, each once and in order.
RosterIsListed(caches) ==
  \A cache \in caches :
    LET roster == AvailableCodexModels(cache, <<"fallback">>) IN
    /\ roster # <<>>
    /\ ListedModels(cache) # {} => /\ Len(roster) = Cardinality(ListedModels(cache))
                             /\ Range(roster) = {cache[i].slug : i \in ListedModels(cache)}
                             /\ \A i, j \in ListedModels(cache) : ListedBefore(cache, i, j) =>
                                  \E k, l \in DOMAIN roster : k < l /\ roster[k] = cache[i].slug /\ roster[l] = cache[j].slug
=============================================================================
