---------------------------- MODULE SkillLibrary ----------------------------
(***************************************************************************)
(* The skill library: rows of the skills table, their edit history, the    *)
(* SKILL.md files that cache them, and the names the chat agent has        *)
(* loaded.  Skills are written by the author_skill tool of the chat and by *)
(* the console's routes: each checks, and only then writes the row, the    *)
(* history and the file, one after the other.  A text is identified with   *)
(* the user who wrote it; the text of a curated skill is "curated".        *)
(* The console builds its library from the files for every request; the    *)
(* chat keeps the one it has loaded.                                       *)
(***************************************************************************)
EXTENDS Naturals, FiniteSets

CONSTANTS
  SkillSlug,
  Curated,          \* slugs of the repository's own skills
  Author,           \* users
  LibraryAdmin,     \* a subset of Author
  LibraryRequest,   \* slots for the calls in flight
  MaxLibraryCalls,  \* bound: calls made
  MaxFlaws          \* bound: files that cannot be written or removed, restarts

ASSUME LibraryAssumption == Curated \subseteq SkillSlug /\ "none" \notin SkillSlug \union Author

VARIABLES
  skills,    \* [SkillSlug -> row of the table, or NoSkill]
  files,     \* [SkillSlug -> text of SKILL.md, or "none"]
  loaded,    \* names in the chat agent's library
  history,   \* [SkillSlug -> the texts in skill_versions]
  calls,     \* [LibraryRequest -> the call in flight, or NoLibraryCall]
  made, flaws,
  disturbed  \* history variable: slugs on which writers have overlapped, or one
             \* has stopped midway, or skill_manage has written

libraryVars == <<skills, files, loaded, history, calls, made, flaws, disturbed>>

NoSkill == [text |-> "none", author |-> "none", pinned |-> FALSE]
Skill   == [text : Author, author : Author, pinned : BOOLEAN]
NoLibraryCall == [kind |-> "none", slug |-> "none", user |-> "none", found |-> FALSE, pc |-> "idle"]
LibraryCall == [kind : {"author", "create", "save", "retire", "retireChat"}, slug : SkillSlug, user : Author,
                found : BOOLEAN, pc : {"look", "upsert", "edit", "file", "delete", "remove", "reload"}]

LibraryTypeOK ==
  /\ skills \in [SkillSlug -> Skill \union {NoSkill}]
  /\ files \in [SkillSlug -> Author \union {"none", "curated"}]
  /\ loaded \subseteq SkillSlug /\ disturbed \subseteq SkillSlug
  /\ history \in [SkillSlug -> SUBSET Author]
  /\ calls \in [LibraryRequest -> LibraryCall \union {NoLibraryCall}]
  /\ made \in 0..MaxLibraryCalls /\ flaws \in 0..MaxFlaws

LibraryInit ==
  /\ skills = [s \in SkillSlug |-> NoSkill]
  /\ files = [s \in SkillSlug |-> IF s \in Curated THEN "curated" ELSE "none"]
  /\ loaded = Curated
  /\ history = [s \in SkillSlug |-> {}]
  /\ calls = [r \in LibraryRequest |-> NoLibraryCall]
  /\ made = 0 /\ flaws = 0 /\ disturbed = {}

-----------------------------------------------------------------------------

\* The names a fresh Skills() finds.
Names == {s \in SkillSlug : files[s] # "none"}

InTable(s) == skills[s] # NoSkill

\* Mutant: the table alone is asked.
IsBuiltin_RowOnly(names, s) == FALSE

\* In the library with no row.
IsBuiltin(names, s) == s \in names /\ ~InTable(s)

MayChange(s, u) == u \in LibraryAdmin \/ skills[s].author = u

Spend == made < MaxLibraryCalls /\ made' = made + 1

\* r's call goes on at pc, or is over.
GoesOnAt(r, pc) == calls' = [calls EXCEPT ![r].pc = pc]
CallOver(r)      == calls' = [calls EXCEPT ![r] = NoLibraryCall]

\* Another call is between its check and its last write of s.
Contended(r, s) == \E o \in LibraryRequest \ {r} : calls[o].slug = s /\ calls[o].pc # "look"
Mark(r, s) == disturbed' = IF Contended(r, s) THEN disturbed \union {s} ELSE disturbed

\* author_skill and the console's POST: refuse a built-in; the row is read again
\* in Look.
Propose(r, s, u) ==
  /\ calls[r] = NoLibraryCall
  /\ Spend
  /\ \E kind \in {"author", "create"} :
       /\ ~IsBuiltin(IF kind = "author" THEN loaded ELSE Names, s)
       /\ calls' = [calls EXCEPT ![r] = [kind |-> kind, slug |-> s, user |-> u, found |-> FALSE, pc |-> "look"]]
  /\ UNCHANGED <<skills, files, loaded, history, flaws, disturbed>>

\* An existing skill is its author's, or an admin's, to change.  The chat edits it;
\* the console upserts it again.
Look(r) ==
  LET c == calls[r]  found == InTable(c.slug)
  IN  /\ c.pc = "look"
      /\ IF found /\ ~MayChange(c.slug, c.user)
         THEN CallOver(r) /\ UNCHANGED disturbed
         ELSE /\ calls' = [calls EXCEPT ![r].found = found,
                                        ![r].pc = IF found /\ c.kind = "author" THEN "edit" ELSE "upsert"]
              /\ Mark(r, c.slug)
      /\ UNCHANGED <<skills, files, loaded, history, made, flaws>>

\* ON CONFLICT(slug) DO UPDATE: the author and the pin stay.
UpsertRow(row, u) ==
  IF row = NoSkill THEN [text |-> u, author |-> u, pinned |-> FALSE] ELSE [row EXCEPT !.text = u]

\* A new skill goes on to its first version; the console's repeated POST to its file.
Upsert(r) ==
  LET c == calls[r]
  IN  /\ c.pc = "upsert"
      /\ skills' = [skills EXCEPT ![c.slug] = UpsertRow(skills[c.slug], c.user)]
      /\ GoesOnAt(r, IF c.found THEN "file" ELSE "edit")
      /\ UNCHANGED <<files, loaded, history, made, flaws, disturbed>>

\* Mutant: everyone may save.
AskSave_Anyone(r, s, u) ==
  /\ calls[r] = NoLibraryCall /\ InTable(s)
  /\ Spend
  /\ calls' = [calls EXCEPT ![r] = [kind |-> "save", slug |-> s, user |-> u, found |-> TRUE, pc |-> "edit"]]
  /\ Mark(r, s)
  /\ UNCHANGED <<skills, files, loaded, history, flaws>>

\* The console's PUT.
AskSave(r, s, u) ==
  /\ calls[r] = NoLibraryCall /\ InTable(s) /\ MayChange(s, u)
  /\ Spend
  /\ calls' = [calls EXCEPT ![r] = [kind |-> "save", slug |-> s, user |-> u, found |-> TRUE, pc |-> "edit"]]
  /\ Mark(r, s)
  /\ UNCHANGED <<skills, files, loaded, history, flaws>>

\* update_content: the row and its version in one transaction; nothing when the row
\* has vanished (the chat takes no notice and reloads).
Edit(r) ==
  LET c == calls[r]
  IN  /\ c.pc = "edit"
      /\ IF InTable(c.slug)
         THEN /\ skills' = [skills EXCEPT ![c.slug].text = c.user]
              /\ history' = [history EXCEPT ![c.slug] = @ \union {c.user}]
              /\ GoesOnAt(r, "file")
         ELSE /\ IF c.kind = "author" THEN GoesOnAt(r, "reload") ELSE CallOver(r)
              /\ UNCHANGED <<skills, history>>
      /\ UNCHANGED <<files, loaded, made, flaws, disturbed>>

WriteFile(r) ==
  LET c == calls[r]
  IN  /\ c.pc = "file"
      /\ files' = [files EXCEPT ![c.slug] = c.user]
      /\ IF c.kind = "author" THEN GoesOnAt(r, "reload") ELSE CallOver(r)
      /\ UNCHANGED <<skills, loaded, history, made, flaws, disturbed>>

\* The file cannot be written: the tool or the route raises.
WriteRaises(r) ==
  /\ calls[r].pc = "file" /\ flaws < MaxFlaws
  /\ flaws' = flaws + 1
  /\ disturbed' = disturbed \union {calls[r].slug}
  /\ CallOver(r)
  /\ UNCHANGED <<skills, files, loaded, history, made>>

\* skills.reload(), which may raise.
Reload(r) ==
  /\ calls[r].pc = "reload"
  /\ \/ loaded' = Names /\ UNCHANGED flaws
     \/ flaws < MaxFlaws /\ flaws' = flaws + 1 /\ UNCHANGED loaded
  /\ CallOver(r)
  /\ UNCHANGED <<skills, files, history, made, disturbed>>

\* An admin pins or unpins: one conditional update.
SetPinned(s, u, pinned) ==
  /\ u \in LibraryAdmin /\ InTable(s)
  /\ Spend
  /\ skills' = [skills EXCEPT ![s].pinned = pinned]
  /\ UNCHANGED <<files, loaded, history, calls, flaws, disturbed>>

\* An admin retires a skill that is there, authored and not pinned.
AskRetire(r, s, u) ==
  /\ calls[r] = NoLibraryCall /\ u \in LibraryAdmin
  /\ InTable(s) /\ ~skills[s].pinned
  /\ Spend
  /\ \E kind \in {"retire", "retireChat"} :
       calls' = [calls EXCEPT ![r] = [kind |-> kind, slug |-> s, user |-> u, found |-> TRUE, pc |-> "delete"]]
  /\ Mark(r, s)
  /\ UNCHANGED <<skills, files, loaded, history, flaws>>

\* Mutant: the console leaves the files to the next start.
DeleteRow_ConsoleKeeps(r) ==
  LET c == calls[r]
  IN  /\ c.pc = "delete"
      /\ skills' = [skills EXCEPT ![c.slug] = NoSkill]
      /\ IF c.kind = "retireChat" THEN GoesOnAt(r, "remove") ELSE CallOver(r)
      /\ UNCHANGED <<files, loaded, history, made, flaws, disturbed>>

\* The console ends when the row is gone already; the chat removes the files anyway.
DeleteRow(r) ==
  LET c == calls[r]
  IN  /\ c.pc = "delete"
      /\ skills' = [skills EXCEPT ![c.slug] = NoSkill]
      /\ IF InTable(c.slug) \/ c.kind = "retireChat" THEN GoesOnAt(r, "remove") ELSE CallOver(r)
      /\ UNCHANGED <<files, loaded, history, made, flaws, disturbed>>

\* rmtree(ignore_errors=True): a directory that cannot be removed stays.
RemoveFiles(r) ==
  LET c == calls[r]
  IN  /\ c.pc = "remove"
      /\ \/ files' = [files EXCEPT ![c.slug] = "none"] /\ UNCHANGED <<flaws, disturbed>>
         \/ flaws < MaxFlaws /\ flaws' = flaws + 1
            /\ disturbed' = disturbed \union {c.slug} /\ UNCHANGED files
      /\ IF c.kind = "retireChat" THEN GoesOnAt(r, "reload") ELSE CallOver(r)
      /\ UNCHANGED <<skills, loaded, history, made>>

\* The older skill_manage tool writes a file, with no row and no check of who asks
\* or of what is there, and reloads.
Manage(s, u) ==
  /\ Spend
  /\ files' = [files EXCEPT ![s] = u]
  /\ loaded' = loaded \union Names \union {s}
  /\ disturbed' = disturbed \union {s}
  /\ UNCHANGED <<skills, history, calls, flaws>>

\* The process is lost with its calls; the next one writes every row to its file
\* and then loads the library.  Files without a row stay what they are.
LibraryRestart ==
  /\ flaws < MaxFlaws
  /\ flaws' = flaws + 1
  /\ calls' = [r \in LibraryRequest |-> NoLibraryCall]
  /\ files' = [s \in SkillSlug |-> IF InTable(s) THEN skills[s].text ELSE files[s]]
  /\ loaded' = {s \in SkillSlug : files'[s] # "none"}
  /\ disturbed' = {s \in SkillSlug : files'[s] # "none" /\ ~InTable(s)} \ (Curated \ disturbed)
  /\ UNCHANGED <<skills, history, made>>

LibraryStep(r) ==
  \/ Look(r) \/ Upsert(r) \/ Edit(r) \/ WriteFile(r) \/ WriteRaises(r) \/ Reload(r)
  \/ DeleteRow(r) \/ RemoveFiles(r)

LibraryNext ==
  \/ \E r \in LibraryRequest : LibraryStep(r)
  \/ \E r \in LibraryRequest, s \in SkillSlug, u \in Author : Propose(r, s, u) \/ AskSave(r, s, u) \/ AskRetire(r, s, u)
  \/ \E s \in SkillSlug, u \in Author : Manage(s, u) \/ \E pinned \in BOOLEAN : SetPinned(s, u, pinned)
  \/ LibraryRestart

LibrarySpec == LibraryInit /\ [][LibraryNext]_libraryVars

-----------------------------------------------------------------------------
(* Properties                                                              *)

\* A curated skill has no row, and its file is the repository's, whatever is
\* authored, saved or retired; only skill_manage changes it.
CuratedStay == \A s \in Curated : /\ ~InTable(s)
                                  /\ s \notin disturbed => files[s] = "curated" /\ s \in loaded

\* When no call is at work on an authored skill, its file is its row's text, and
\* a retired one has none (it would be taken for a built-in, which nobody can edit
\* or retire), unless writers have overlapped or one has stopped midway since the
\* last start.
FilesFollowRows ==
  \A s \in SkillSlug \ (Curated \union disturbed) :
    (\A r \in LibraryRequest : calls[r].slug # s) => files[s] = skills[s].text

\* A skill's text is changed by its author or an admin, and the author stays while
\* the row does.  Somebody else's text gets in only where writers have overlapped:
\* two users create the skill at once, or one edits what is meanwhile retired and
\* created anew.
WrittenByOwners ==
  \A s \in SkillSlug \ disturbed : InTable(s) /\ skills'[s] # NoSkill =>
    /\ skills'[s].author = skills[s].author
    /\ skills'[s].text # skills[s].text => skills'[s].text \in LibraryAdmin \union {skills[s].author}

\* Curated skills stay, files follow their rows, and a text is its owners'.
LibraryHolds == [][WrittenByOwners]_libraryVars /\ [](CuratedStay /\ FilesFollowRows)
=============================================================================
