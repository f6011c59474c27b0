---------------------------- MODULE ReviewInput ----------------------------
(***************************************************************************)
(* What a review is fed with and where its comments may go: the GitHub     *)
(* client's retries, its pages and its view of the checks, the capped      *)
(* diff, the lines of a patch that take an inline comment, and the cached  *)
(* installation token.  All of it is computed from what GitHub answers.    *)
(***************************************************************************)
EXTENDS Naturals, FiniteSets, SequencesExt

CONSTANTS
  MaxTries,      \* _MAX_TRIES
  PerPage,       \* per_page
  DiffCap,       \* DIFF_CAP
  PatchCap       \* PER_FILE_PATCH_CAP

-----------------------------------------------------------------------------
(* GitHubClient                                                            *)

\* A status: "ok", "refused" (another 4xx), or "transient" (429, 5xx, rate limit).
Statuses == {"ok", "refused", "transient"}

\* Mutant: a refusal is retried as well.
GivesUpAt_Refused(answers, i) == answers[i] = "ok" \/ i = MaxTries

\* _send stops at the first answer that is not transient, and with the last try.
GivesUpAt(answers, i) == answers[i] # "transient" \/ i = MaxTries

Tries(answers) == CHOOSE i \in 1..MaxTries : /\ GivesUpAt(answers, i)
                                             /\ \A j \in 1..(i - 1) : ~GivesUpAt(answers, j)
Send(answers) == answers[Tries(answers)]

\* What GitHub has done after a POST: `done[i]` says whether the i-th request took
\* effect, which a transient answer does not tell.
Effects(answers, done) == Cardinality({i \in 1..Tries(answers) : done[i]})

Batch(items, page) ==
  SubSeq(items, (page - 1) * PerPage + 1, IF page * PerPage < Len(items) THEN page * PerPage ELSE Len(items))

\* Mutant: a full page is taken for the last.
LastPage_Full(batch) == Len(batch) <= PerPage

\* _paginate asks on until a page is not full.
LastPage(batch) == Len(batch) < PerPage

Paginate(items) ==
  LET pages == 1..(Len(items) \div PerPage + 2)
      From[page \in pages] ==
        LET batch == Batch(items, page)
        IN  IF LastPage(batch) THEN batch ELSE batch \o From[page + 1]
  IN  From[1]

\* get_ci_status reads the first page of each of the two lists; a list that cannot
\* be read ("error") is passed over.
FirstPage(list) == {list[i] : i \in 1..(IF Len(list) < PerPage THEN Len(list) ELSE PerPage)}
Seen(list)      == IF list = <<"error">> THEN {} ELSE FirstPage(list)

CiStatus(statuses, runs) ==
  LET seen == Seen(statuses) \union Seen(runs)
  IN  IF "fail" \in seen THEN "fail" ELSE IF "pending" \in seen THEN "pending"
      ELSE IF "pass" \in seen THEN "pass" ELSE "none"

-----------------------------------------------------------------------------
(* fetch_pr_essentials                                                     *)

\* A file is [id, removed, noise, size], size the length of its patch; the header of
\* its block is one.
Reviewable(files) == SelectSeq(files, LAMBDA f : ~f.removed /\ ~f.noise)
Skipped(files)    == SelectSeq(files, LAMBDA f : f.removed \/ f.noise)

BlockSize(f) == 1 + (IF f.size < PatchCap THEN f.size ELSE PatchCap)

\* Mutant: the file that does not fit is left out and the next one is tried.
TakeFile_Skips(diff, f) ==
  IF diff.total + BlockSize(f) > DiffCap
  THEN [diff EXCEPT !.truncated = TRUE]
  ELSE [diff EXCEPT !.files = Append(@, f.id), !.total = @ + BlockSize(f)]

\* One round of the loop; after the break nothing more is taken.
TakeFile(diff, f) ==
  IF diff.truncated \/ diff.total + BlockSize(f) > DiffCap
  THEN [diff EXCEPT !.truncated = TRUE]
  ELSE [diff EXCEPT !.files = Append(@, f.id), !.total = @ + BlockSize(f)]

Diff(files) == FoldLeft(TakeFile, [files |-> <<>>, total |-> 0, truncated |-> FALSE], Reviewable(files))

-----------------------------------------------------------------------------
(* anchorable_lines, _split_anchors                                        *)

\* A line of a patch: a hunk header with the head-side line it starts at, or "+",
\* "-", " ", "\".
Header(start) == [kind |-> "@@", start |-> start]
Line(kind)    == [kind |-> kind, start |-> 0]

\* Mutant: a removed line counts.
OnHeadSide_Removed(line) == line.kind \in {"+", "-", " "}

OnHeadSide(line) == line.kind \in {"+", " "}

ReadLine(at, line) ==
  CASE line.kind = "@@"          -> [at EXCEPT !.next = line.start, !.hunk = TRUE]
    [] at.hunk /\ OnHeadSide(line) -> [at EXCEPT !.next = @ + 1, !.lines = @ \union {at.next}]
    [] OTHER                     -> at

AnchorableLines(patch) == FoldLeft(ReadLine, [next |-> 0, hunk |-> FALSE, lines |-> {}], patch).lines

\* Comments are <<path, line>>, `patches` maps a path to its patch.
Resolvable(comments, patches) ==
  {c \in comments : c[1] \in DOMAIN patches /\ c[2] \in AnchorableLines(patches[c[1]])}

-----------------------------------------------------------------------------
(* app_token_for, in minutes: GitHub's tokens live 60, the cache says 55 and *)
(* lets go 5 before.                                                       *)

Lives  == 60
Cached == 55
Early  == 5

NoToken == [minted |-> 0, until |-> 0]

TokenFor(cache, now) ==
  IF cache # NoToken /\ cache.until - Early > now THEN cache ELSE [minted |-> now, until |-> now + Cached]

-----------------------------------------------------------------------------
(* Properties                                                              *)

\* A call is repeated only after transient answers; the answer the caller sees is
\* the last one; and a POST takes effect twice only if a transient answer hid the
\* first time.
RetriesAreBlind ==
  \A answers \in [1..MaxTries -> Statuses], done \in [1..MaxTries -> BOOLEAN] :
    LET n == Tries(answers)
    IN  /\ \A i \in 1..(n - 1) : answers[i] = "transient"
        /\ Send(answers) = "transient" => n = MaxTries
        /\ Effects(answers, done) > 1 => \E i \in 1..(n - 1) : answers[i] = "transient" /\ done[i]

\* Every item is read once and in order, also when they fill the last page exactly.
PagesAreComplete == \A n \in 0..(3 * PerPage) : Paginate([i \in 1..n |-> i]) = [i \in 1..n |-> i]

\* The verdict over two readable lists of at most a page is the worst of all checks.
\* Beyond the first page, and when a list cannot be read, a failing check is not seen.
CiIsTheWorst(lists) ==
  \A s, r \in lists :
    LET all == {s[i] : i \in DOMAIN s} \union {r[i] : i \in DOMAIN r}
        ci  == CiStatus(s, r)
    IN  /\ Len(s) <= PerPage /\ Len(r) <= PerPage /\ "error" \notin all =>
             /\ ci = "fail" <=> "fail" \in all
             /\ ci = "pass" <=> all = {"pass"}
        /\ ci # "none" => ci \in all

\* Each file is reviewed or skipped; the diff holds the reviewable files in order, as
\* many as fit, within the cap, and says so exactly when one is left out.
DiffIsAPrefix(fileLists) ==
  \A files \in fileLists :
    LET diff == Diff(files)
        ids  == [i \in DOMAIN Reviewable(files) |-> Reviewable(files)[i].id]
    IN  /\ Len(Reviewable(files)) + Len(Skipped(files)) = Len(files)
        /\ IsPrefix(diff.files, ids)
        /\ diff.total <= DiffCap
        /\ diff.truncated <=> Len(diff.files) < Len(ids)

\* A line is anchorable when the new file shows it in a hunk: counted from the
\* hunk's start over the lines that are added or unchanged.
AnchorsAreHeadLines(patches) ==
  \A patch \in patches :
    AnchorableLines(patch) =
      UNION {LET hunk == {h \in 1..i : patch[h].kind = "@@"}
                 h    == CHOOSE h \in hunk : \A o \in hunk : o <= h
             IN  IF hunk = {} THEN {}
                 ELSE {patch[h].start + Cardinality({j \in (h + 1)..(i - 1) : patch[j].kind \in {"+", " "}})}
             : i \in {i \in DOMAIN patch : patch[i].kind \in {"+", " "}}}

\* A token is handed out with ten minutes or more of its life left.
TokensHaveTime ==
  \A first \in 1..5, later \in 0..(Lives + 5) :
    LET token == TokenFor(TokenFor(NoToken, first), first + later)
    IN  token.minted + Lives - (first + later) > 9
=============================================================================
