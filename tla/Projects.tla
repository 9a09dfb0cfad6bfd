------------------------------ MODULE Projects ------------------------------
(***************************************************************************)
(* The projects of one user: created with a slug that is unique among all  *)
(* of the user's rows, deleted softly, and listed page by page.  Every     *)
(* query is scoped by the user, so users do not meet; a project that is    *)
(* missing or another's is refused before any of this.                     *)
(*                                                                         *)
(* A slug is a word and its numeric suffixes: "api-2" has the word "api"   *)
(* and the suffixes <<2>>.  A name may itself derive a slug with suffixes. *)
(***************************************************************************)
EXTENDS Integers, Sequences, FiniteSets

CONSTANTS
  Requests,       \* clients, with one request at a time each
  ProjectNames,
  WORDS,          \* slugs without their numeric suffixes
  slugify(_),     \* slugify(name): the slug a name derives
  PAGE,           \* the limit of a listing's page
  MAX_PROJECTS,   \* projects of the user, for TLC
  SAFE            \* numbers from here on have no successor: 2^53 in the code

Slugs == [word : WORDS, suffixes : Seq(Nat)]

ASSUME ProjectConstants ==
  /\ \A name \in ProjectNames : slugify(name) \in Slugs
  /\ PAGE \in Nat \ {0} /\ MAX_PROJECTS \in Nat /\ SAFE \in Nat

VARIABLES
  projects,    \* projects[i]: the slug of the i-th row, and whether it is deleted
  announced,   \* announced[i]: times emitProjectDeleted was called for it
  doing,       \* doing[q]: what client q awaits next; it stops at a conflict or a listing
  subject,     \* subject[q]: the slug it inserts, <<the project>> it deletes, <<its cursor>>
  insertedBy,  \* insertedBy[q]: slugs others inserted since it read the taken ones
  pages,       \* pages[q]: the projects of the pages it got
  due,         \* due[q]: the projects there were when the listing began, and still are
  cut          \* cut[q]: the cursors that were deleted when q sent them

projectVars == <<projects, announced, doing, subject, insertedBy, pages, due, cut>>

Ids == DOMAIN projects
LiveIds == {i \in Ids : ~projects[i].deleted}
SlugTaken(s) == \E i \in Ids : projects[i].slug = s
-----------------------------------------------------------------------------
(* s is base-N for some N.                                                 *)
Extends(s, base) ==
  /\ s.word = base.word /\ Len(s.suffixes) = Len(base.suffixes) + 1
  /\ \A k \in DOMAIN base.suffixes : s.suffixes[k] = base.suffixes[k]

BugIgnoresDeleted(base) ==
  {projects[i].slug : i \in {j \in LiveIds : Extends(projects[j].slug, base)}}

(* slug.startsWith(base), of those rows that matter.                       *)
findSlugsForUserByPrefix(base) ==
  {projects[i].slug : i \in {j \in Ids : Extends(projects[j].slug, base)}}

Successor(n) == IF n < SAFE THEN n + 1 ELSE n

LastSuffix(s) == s.suffixes[Len(s.suffixes)]

(* One past the highest suffix there is; the base alone counts as 1.       *)
nextSuffixedSlug(base, taken) ==
  LET suffixes == {1} \cup {LastSuffix(s) : s \in taken}
      highest == CHOOSE n \in suffixes : \A m \in suffixes : m <= n
  IN [word |-> base.word, suffixes |-> Append(base.suffixes, Successor(highest))]

Turns(q, next) == doing' = [doing EXCEPT ![q] = next]
Done(q) == Turns(q, "idle") /\ subject' = [subject EXCEPT ![q] = <<>>]

BeginCreate(q) ==
  /\ doing[q] = "idle" /\ Len(projects) < MAX_PROJECTS
  /\ \E name \in ProjectNames : subject' = [subject EXCEPT ![q] = slugify(name)]
  /\ Turns(q, "insert")
  /\ UNCHANGED <<projects, announced, insertedBy, pages, due, cut>>

(* Request q is over; the others learn of the slug, if they are to retry.  *)
InsertRow(q, slug) ==
  /\ projects' = Append(projects, [slug |-> slug, deleted |-> FALSE])
  /\ announced' = Append(announced, 0)
  /\ insertedBy' = [r \in Requests |->
       IF r # q /\ doing[r] = "insert-again" THEN insertedBy[r] \cup {slug}
       ELSE IF r = q THEN {} ELSE insertedBy[r]]
  /\ Done(q)

InsertFirst(q) ==
  /\ doing[q] = "insert"
  /\ \/ ~SlugTaken(subject[q]) /\ InsertRow(q, subject[q])
     \/ SlugTaken(subject[q]) /\ Turns(q, "find") /\ UNCHANGED <<projects, announced, insertedBy, subject>>
  /\ UNCHANGED <<pages, due, cut>>

FindSlugs(q) ==
  /\ doing[q] = "find"
  /\ subject' = [subject EXCEPT ![q] = nextSuffixedSlug(@, findSlugsForUserByPrefix(@))]
  /\ Turns(q, "insert-again")
  /\ UNCHANGED <<projects, announced, insertedBy, pages, due, cut>>

(* The one retry; a second collision is a ConflictError.                   *)
InsertAgain(q) ==
  /\ doing[q] = "insert-again"
  /\ \/ ~SlugTaken(subject[q]) /\ InsertRow(q, subject[q])
     \/ SlugTaken(subject[q]) /\ Turns(q, "conflict") /\ UNCHANGED <<projects, announced, insertedBy, subject>>
  /\ UNCHANGED <<pages, due, cut>>

(* The tenancy check lets a project through that is deleted already.       *)
BeginDelete(q) ==
  /\ doing[q] = "idle"
  /\ \E i \in Ids : subject' = [subject EXCEPT ![q] = <<i>>]
  /\ Turns(q, "delete")
  /\ UNCHANGED <<projects, announced, insertedBy, pages, due, cut>>

(* No listing owes a project that is deleted.                              *)
DueWithout(i) == [q \in Requests |-> due[q] \ {i}]

BugAnnouncesAgain(q) ==
  LET i == subject[q][1] IN
  /\ doing[q] = "delete"
  /\ projects' = [projects EXCEPT ![i].deleted = TRUE]
  /\ announced' = [announced EXCEPT ![i] = @ + 1]
  /\ due' = DueWithout(i)
  /\ Done(q)
  /\ UNCHANGED <<insertedBy, pages, cut>>

(* The event is emitted if a row changed, and not waited for.              *)
SoftDelete(q) ==
  LET i == subject[q][1] IN
  /\ doing[q] = "delete"
  /\ \/ /\ ~projects[i].deleted
        /\ projects' = [projects EXCEPT ![i].deleted = TRUE]
        /\ announced' = [announced EXCEPT ![i] = @ + 1]
        /\ due' = DueWithout(i)
     \/ projects[i].deleted /\ UNCHANGED <<projects, announced, due>>
  /\ Done(q)
  /\ UNCHANGED <<insertedBy, pages, cut>>

BeginList(q) ==
  /\ doing[q] = "idle"
  /\ Turns(q, "page")
  /\ due' = [due EXCEPT ![q] = LiveIds]
  /\ UNCHANGED <<projects, announced, subject, insertedBy, pages, cut>>

Descending(S) ==
  [k \in 1 .. Cardinality(S) |-> CHOOSE i \in S : Cardinality({j \in S : j > i}) = k - 1]

FirstOf(s, n) == SubSeq(s, 1, IF Len(s) < n THEN Len(s) ELSE n)

(* Newest first, from the cursor's place on; one row too many.  The first  *)
(* row is skipped as the cursor's own: if that is deleted, it is the next. *)
listByUser(cursor) ==
  IF cursor = <<>> THEN FirstOf(Descending(LiveIds), PAGE + 1)
  ELSE LET rows == Descending({i \in LiveIds : i <= cursor[1]})
       IN FirstOf(SubSeq(rows, 2, Len(rows)), PAGE + 1)

BugCursorIsTheExtraRow(rows) == rows[Len(rows)]

nextCursor(rows) == rows[PAGE]

ListPage(q) ==
  LET rows == listByUser(subject[q]) IN
  /\ doing[q] = "page"
  /\ pages' = [pages EXCEPT ![q] = @ \o FirstOf(rows, PAGE)]
  /\ cut' = [cut EXCEPT ![q] = @ \cup {c \in Ids \ LiveIds : subject[q] = <<c>>}]
  /\ IF Len(rows) > PAGE
       THEN subject' = [subject EXCEPT ![q] = <<nextCursor(rows)>>] /\ UNCHANGED doing
       ELSE subject' = [subject EXCEPT ![q] = <<>>] /\ Turns(q, "listed")
  /\ UNCHANGED <<projects, announced, insertedBy, due>>

ProjectInit ==
  /\ projects = <<>> /\ announced = <<>>
  /\ doing = [q \in Requests |-> "idle"]
  /\ subject = [q \in Requests |-> <<>>]
  /\ insertedBy = [q \in Requests |-> {}]
  /\ pages = [q \in Requests |-> <<>>]
  /\ due = [q \in Requests |-> {}]
  /\ cut = [q \in Requests |-> {}]

ProjectNext ==
  \E q \in Requests :
    \/ BeginCreate(q) \/ InsertFirst(q) \/ FindSlugs(q) \/ InsertAgain(q)
    \/ BeginDelete(q) \/ SoftDelete(q)
    \/ BeginList(q) \/ ListPage(q)

ProjectSpec == ProjectInit /\ [][ProjectNext]_projectVars
-----------------------------------------------------------------------------
(* A create is refused only if another request took the very slug it had   *)
(* found free, deleted projects' slugs included, or if the suffixes have   *)
(* outgrown the numbers that can be counted on (project.service.ts:94-104, *)
(* project.repository.ts:99-107).                                          *)
ConflictNeedsARace ==
  \A q \in Requests : doing[q] = "conflict" =>
    \/ subject[q] \in insertedBy[q]
    \/ LastSuffix(subject[q]) >= SAFE

(* A deletion is announced at most once, however many requests delete one  *)
(* project at the same time (project.service.ts:207-219).                  *)
AnnouncedOnce ==
  \A i \in Ids : announced[i] <= 1 /\ (announced[i] = 1 => projects[i].deleted)

(* What client q was due and has not got.                                  *)
Missed(q) == {i \in due[q] : \A k \in DOMAIN pages[q] : pages[q][k] # i}

(* Who follows the cursors to the end gets no project twice, and of those  *)
(* that were there all the time it misses none but the first one behind a  *)
(* cursor that was deleted before it was sent, while others are created    *)
(* and deleted (project.service.ts:156-178, project.repository.ts:90-96).  *)
OnlyDeletedCursorsLose ==
  \A q \in Requests : doing[q] = "listed" =>
    /\ \A i \in Missed(q) : \E c \in cut[q] :
         i < c /\ \A k \in due[q] : k < c => k <= i
    /\ \A j, k \in DOMAIN pages[q] : pages[q][j] = pages[q][k] => j = k

(* A cursor is handed out only with the proof that a row follows, "so an   *)
(* empty last page never happens" (project.service.ts:157-159): no page    *)
(* after the first is empty while a project that was there all the time is *)
(* still to come.  It is, if the cursor's row was deleted in between.      *)
LastPageIsNeverEmpty ==
  [][\A q \in Requests : ListPage(q) /\ subject[q] # <<>> /\ Missed(q) # {} =>
       listByUser(subject[q]) # <<>>]_projectVars
=============================================================================
