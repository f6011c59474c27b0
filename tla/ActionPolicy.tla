---------------------------- MODULE ActionPolicy ----------------------------
(***************************************************************************)
(* The gate in front of the general API tools: classify decides whether a  *)
(* call the agent has composed is run, filed for approval or refused, and  *)
(* an admin's override of a system and method is consulted first.          *)
(*                                                                         *)
(* A call is what the rules look at.  Slack: the sets and prefixes its     *)
(* method matches.  GitHub and Atlassian: verb, repository, and whether    *)
(* the path is repository surgery or conversation.  HTTP: the host.  The   *)
(* agent may spell a Slack method with blanks around it, and leave the     *)
(* verb of a GET empty: the rules read through that, the overrides do not. *)
(* Filing and deciding an approval, and the call that follows, are         *)
(* BuildFlow's.                                                            *)
(***************************************************************************)
EXTENDS Naturals, FiniteSets

CONSTANT Repo    \* repositories a path can name

Verbs == {"GET", "POST", "PUT", "DELETE"}
Decisions == {"allow", "gate", "deny"}

\* A method is in at most one of the lists; a mutating conversations.* method also
\* has a read prefix.
Slack == [system : {"slack"}, list : {"admin", "safe_write", "gated", "none"}, readPrefix : BOOLEAN,
          odd : BOOLEAN]
GitHub == {c \in [system : {"github"}, verb : Verbs, repo : Repo \union {"none"},
                  path : {"surgery", "conversation", "other"}, odd : BOOLEAN] :
             (c.path = "conversation" => c.repo # "none") /\ (c.odd => c.verb = "GET")}
Atlassian == {c \in [system : {"atlassian"}, verb : Verbs, odd : BOOLEAN] : c.odd => c.verb = "GET"}
Http      == [system : {"http"}, verb : {"GET", "POST"}, host : {"public", "private", "not_http"}, odd : {FALSE}]
Calls     == Slack \union GitHub \union Atlassian \union Http

-----------------------------------------------------------------------------
(* The default rules, in the order in which the code asks                  *)

ClassifySlack(c) ==
  CASE c.list = "admin"      -> "deny"
    [] c.list = "safe_write" -> "allow"
    [] c.list = "gated"      -> "gate"
    [] c.list = "none"       -> IF c.readPrefix THEN "allow" ELSE "deny"

\* Mutant: an empty allowlist is no restriction.
Listed_FailOpen(repo, allowed) == allowed = {} \/ repo \in allowed

Listed(repo, allowed) == repo \in allowed

ClassifyGitHub(c, allowed) ==
  IF c.verb = "GET" THEN "allow"
  ELSE IF \/ c.verb = "DELETE"
          \/ c.path = "surgery"
          \/ c.repo # "none" /\ ~Listed(c.repo, allowed)
       THEN "deny"
  ELSE IF c.verb = "POST" /\ c.path = "conversation" THEN "allow"
  ELSE "gate"

ClassifyAtlassian(c) == CASE c.verb = "GET" -> "allow" [] c.verb = "DELETE" -> "deny" [] OTHER -> "gate"

ClassifyHttp(c) == IF c.verb = "GET" /\ c.host = "public" THEN "allow" ELSE "deny"

DefaultVerdict(c, allowed) ==
  CASE c.system = "slack"     -> ClassifySlack(c)
    [] c.system = "github"    -> ClassifyGitHub(c, allowed)
    [] c.system = "atlassian" -> ClassifyAtlassian(c)
    [] c.system = "http"      -> ClassifyHttp(c)

\* An override is for a system and a method as it is spelled, whatever the path.
OverrideKey(c) ==
  IF c.system = "slack" THEN <<c.system, c.list, c.readPrefix, c.odd>> ELSE <<c.system, c.verb, c.odd>>
Keys     == {OverrideKey(c) : c \in Calls}

-----------------------------------------------------------------------------
(* The overrides: settings whose empty value means none.  A key is stored  *)
(* in lower case, so that spellings of one method share it.                *)

NoSetting == "missing"
Empty     == ""
NoOverrides == [k \in Keys |-> NoSetting]

SetOverride(settings, k, verdict) == [settings EXCEPT ![k] = verdict]

\* The row stays, with an empty value.
RemoveOverride(settings, k) == [settings EXCEPT ![k] = Empty]

InForce(value) == value \notin {NoSetting, Empty}

\* get_setting takes any error of the database for a missing row: the read is blind then.
GetOverride(settings, k, blind) == IF ~blind /\ InForce(settings[k]) THEN settings[k] ELSE "none"

\* Mutant: removed overrides are listed.
ListOverrides_All(settings) == {<<k, settings[k]>> : k \in {k \in Keys : settings[k] # NoSetting}}

ListOverrides(settings) == {<<k, settings[k]>> : k \in {k \in Keys : InForce(settings[k])}}

Classify(c, settings, allowed, blind) ==
  LET override == GetOverride(settings, OverrideKey(c), blind)
  IN  IF override # "none" THEN override ELSE DefaultVerdict(c, allowed)

\* _run: what happens to a call.
RunCall(c, settings, allowed, blind) ==
  CASE Classify(c, settings, allowed, blind) = "allow" -> "executed"
    [] Classify(c, settings, allowed, blind) = "gate"  -> "filed"
    [] Classify(c, settings, allowed, blind) = "deny"  -> "refused"

-----------------------------------------------------------------------------
(* Properties                                                              *)

\* Does the call change something, by its own kind?  (An unlisted Slack method with
\* a read prefix is taken for a read, whatever Slack makes of it.)
Reads(c) == IF c.system = "slack" THEN c.list = "none" ELSE c.verb = "GET"

\* The default rules run a write on their own only when it is a safe one on a
\* listed repository; they refuse deletions and repository surgery whoever would
\* approve them; a smaller allowlist never permits more, and an empty one permits
\* no write to any repository.
RulesAreSafe ==
  \A c \in Calls, allowed \in SUBSET Repo :
    LET verdict == DefaultVerdict(c, allowed)
    IN  /\ verdict = "allow" /\ ~Reads(c) =>
             \/ c.system = "slack" /\ c.list = "safe_write"
             \/ c.system = "github" /\ c.path = "conversation" /\ c.repo \in allowed
        /\ ~Reads(c) /\ c.system = "github" =>
             /\ c.verb = "DELETE" \/ c.path = "surgery" => verdict = "deny"
             /\ c.repo # "none" /\ allowed = {} => verdict = "deny"
        /\ \A fewer \in SUBSET allowed : verdict = "deny" => DefaultVerdict(c, fewer) = "deny"

\* While the store can be read, the console's list names exactly the overrides that decide
\* calls, each those of its own spelling, and every other call is decided by the rules.  A
\* call whose read fails is decided by the rules alone, so that an override of "deny" or
\* "gate" lapses for it without a word.
ListIsInForce(settings) ==
  LET listed == ListOverrides(settings)
      Mine(c) == {e \in listed : e[1] = OverrideKey(c)}
      ByRules(c) == RunCall(c, NoOverrides, Repo, FALSE)
  IN  /\ \A c \in Calls :
           /\ Mine(c) = {} => RunCall(c, settings, Repo, FALSE) = ByRules(c)
           /\ Mine(c) # {} => Mine(c) = {<<OverrideKey(c), Classify(c, settings, Repo, FALSE)>>}
           /\ RunCall(c, settings, Repo, TRUE) = ByRules(c)
      /\ Cardinality(listed) <= 2

\* So it is after any two edits, the second of which sets or removes an override.
Edited(k1, k2, v) ==
  LET first == SetOverride(NoOverrides, k1, "gate")
  IN  IF v = Empty THEN RemoveOverride(first, k2) ELSE SetOverride(first, k2, v)

ListedIsInForce == \A k1, k2 \in Keys : \A v \in Decisions \union {Empty} : ListIsInForce(Edited(k1, k2, v))
=============================================================================
