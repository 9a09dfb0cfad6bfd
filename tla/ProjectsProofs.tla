--------------------------- MODULE ProjectsProofs ---------------------------
(***************************************************************************)
(* Proofs about Projects, for every number of clients, all names and all   *)
(* page sizes.                                                             *)
(***************************************************************************)
EXTENDS Projects, SequenceTheorems, FiniteSetTheorems, WellFoundedInduction, TLAPS

USE ProjectConstants

(* A bounded set of numbers has a greatest one: the smallest distance from *)
(* the bound is that of the greatest number.                               *)
LEMMA Greatest ==
  ASSUME NEW S \in SUBSET Nat, S # {}, NEW m \in Nat, \A x \in S : x <= m
  PROVE  \E n \in S : \A x \in S : x <= n
<1>. DEFINE T == {m - x : x \in S}
<1>1. T \in SUBSET Nat /\ T # {}
  <2>1. PICK x \in S : TRUE
    OBVIOUS
  <2>2. m - x \in T
    BY <2>1
  <2>3. \A y \in S : m - y \in Nat
    OBVIOUS
  <2>. QED BY <2>2, <2>3
<1>2. PICK t \in T : \A y \in T : ~(<<y, t>> \in OpToRel(<, Nat))
  BY <1>1, WFMin, NatLessThanWellFounded
<1>3. PICK n \in S : t = m - n
  BY <1>2
<1>4. \A x \in S : ~(m - x < m - n)
  BY <1>1, <1>2, <1>3 DEF OpToRel
<1>. QED BY <1>3, <1>4

Rows == [slug : Slugs, deleted : BOOLEAN]
Suffixed(s) == s \in Slugs /\ Len(s.suffixes) >= 1
Creating == {"insert", "find", "insert-again", "conflict"}

(* The types of the rows, and what each request is about.                  *)
ProjectTypes ==
  /\ projects \in Seq(Rows)
  /\ announced \in Seq(Nat) /\ Len(announced) = Len(projects)
  /\ doing \in [Requests -> Creating \cup {"idle", "delete", "page", "listed"}]
  /\ subject = [q \in Requests |-> subject[q]]
  /\ insertedBy = [q \in Requests |-> insertedBy[q]]
  /\ \A q \in Requests :
       /\ doing[q] \in Creating => subject[q] \in Slugs
       /\ doing[q] \in {"insert-again", "conflict"} => Suffixed(subject[q])
       /\ doing[q] = "delete" => \E i \in Ids : subject[q] = <<i>>

(* A row is announced when it is deleted.                                  *)
Announced == \A i \in Ids : announced[i] = IF projects[i].deleted THEN 1 ELSE 0

(* The suffixes of the rows have a bound, so they have a greatest one.     *)
Bounded == \E m \in Nat : \A i \in Ids : Suffixed(projects[i].slug) => LastSuffix(projects[i].slug) <= m

(* Whoever is about to insert the slug it found free inserts it, or        *)
(* somebody else did meanwhile, or there are no more numbers.              *)
StillFree ==
  \A q \in Requests :
    doing[q] = "conflict" \/ (doing[q] = "insert-again" /\ SlugTaken(subject[q])) =>
      subject[q] \in insertedBy[q] \/ LastSuffix(subject[q]) >= SAFE

ProjectInv == ProjectTypes /\ Announced /\ Bounded /\ StillFree

(* The slug of a second attempt is nobody's, as long as numbers go on.     *)
LEMMA NextSlugIsFree ==
  ASSUME ProjectTypes, Bounded, NEW base \in Slugs
  PROVE  LET s == nextSuffixedSlug(base, findSlugsForUserByPrefix(base))
         IN  /\ Suffixed(s)
             /\ SlugTaken(s) => LastSuffix(s) >= SAFE
<1>. DEFINE taken == findSlugsForUserByPrefix(base)
            S == {1} \cup {LastSuffix(t) : t \in taken}
            highest == CHOOSE n \in S : \A m \in S : m <= n
            s == [word |-> base.word, suffixes |-> Append(base.suffixes, Successor(highest))]
<1>1. \A i \in Ids : projects[i].slug \in Slugs
  <2>1. \A i \in Ids : projects[i] \in Rows
    BY DEF ProjectTypes, Ids
  <2>. QED BY <2>1 DEF Rows
<1>2. \A t \in taken : Suffixed(t) /\ LastSuffix(t) \in Nat
  <2>1. \A t \in taken : t \in Slugs /\ Len(t.suffixes) = Len(base.suffixes) + 1
    BY <1>1 DEF findSlugsForUserByPrefix, Extends
  <2>2. base.suffixes \in Seq(Nat)
    BY DEF Slugs
  <2>3. \A t \in taken : Len(t.suffixes) >= 1 /\ t.suffixes \in Seq(Nat)
    BY <2>1, <2>2 DEF Slugs
  <2>. QED BY <2>1, <2>3 DEF Suffixed, LastSuffix
<1>3. PICK m \in Nat : \A i \in Ids : Suffixed(projects[i].slug) => LastSuffix(projects[i].slug) <= m
  BY DEF Bounded
<1>4. \A t \in taken : LastSuffix(t) <= m
  BY <1>2, <1>3 DEF findSlugsForUserByPrefix
<1>5. S \in SUBSET Nat /\ S # {} /\ \A n \in S : n <= m + 1
  <2>. HIDE DEF taken
  <2>. QED BY <1>2, <1>4
<1>6. highest \in S /\ \A n \in S : n <= highest
  <2>. HIDE DEF S
  <2>1. \E n \in S : \A k \in S : k <= n
    <3>1. m + 1 \in Nat
      OBVIOUS
    <3>. QED BY <3>1, <1>5, Greatest
  <2>. QED BY <2>1
<1>7. highest \in Nat /\ Successor(highest) \in Nat
  <2>. HIDE DEF highest, S
  <2>1. highest \in Nat
    BY <1>5, <1>6
  <2>. QED BY <2>1 DEF Successor
<1>8. /\ s.suffixes \in Seq(Nat) /\ Len(s.suffixes) = Len(base.suffixes) + 1
      /\ LastSuffix(s) = Successor(highest) /\ s \in Slugs
      /\ base.suffixes \in Seq(Nat)
      /\ \A k \in DOMAIN base.suffixes : s.suffixes[k] = base.suffixes[k]
  <2>. HIDE DEF highest
  <2>. QED BY <1>7 DEF Slugs, LastSuffix
<1>9. Suffixed(s)
  <2>. HIDE DEF s
  <2>. QED BY <1>8 DEF Suffixed, Slugs
<1>10. SlugTaken(s) => LastSuffix(s) >= SAFE
  <2>. SUFFICES ASSUME NEW i \in Ids, projects[i].slug = s PROVE LastSuffix(s) >= SAFE
    BY DEF SlugTaken
  <2>1. Extends(s, base)
    BY <1>8 DEF Extends
  <2>2. s \in taken
    BY <2>1 DEF findSlugsForUserByPrefix
  <2>3. Successor(highest) <= highest
    <3>1. LastSuffix(s) \in S
      BY <2>2
    <3>. QED BY <3>1, <1>6, <1>8
  <2>. HIDE DEF highest, s
  <2>. QED BY <2>3, <1>7, <1>8 DEF Successor
<1>. QED BY <1>9, <1>10 DEF nextSuffixedSlug

(***************************************************************************)
(* The steps.                                                              *)
(***************************************************************************)

LEMMA ProjectInitInv == ProjectInit => ProjectInv
BY DEF ProjectInit, ProjectInv, ProjectTypes, Announced, Bounded, StillFree, Ids, Creating

(* Steps that leave the rows alone, and every request but one.             *)
LEMMA RowsFrame ==
  ASSUME ProjectInv, NEW q \in Requests, NEW next, doing' = [doing EXCEPT ![q] = next],
         UNCHANGED <<projects, announced, insertedBy>>,
         next \in Creating \cup {"idle", "delete", "page", "listed"},
         subject' = [r \in Requests |-> subject'[r]],
         \A r \in Requests \ {q} : subject'[r] = subject[r],
         next \in Creating => subject'[q] \in Slugs,
         next \in {"insert-again", "conflict"} => Suffixed(subject'[q]),
         next = "delete" => \E i \in Ids : subject'[q] = <<i>>,
         next = "insert-again" => (SlugTaken(subject'[q]) => LastSuffix(subject'[q]) >= SAFE),
         next = "conflict" => /\ doing[q] = "insert-again" /\ SlugTaken(subject[q])
                              /\ subject'[q] = subject[q]
  PROVE  ProjectInv'
<1>1. ProjectTypes'
  BY DEF ProjectInv, ProjectTypes, Ids
<1>2. Announced' /\ Bounded'
  BY DEF ProjectInv, Announced, Bounded, Ids
<1>3. StillFree'
  <2>. SUFFICES ASSUME NEW r \in Requests,
                       doing'[r] = "conflict" \/ (doing'[r] = "insert-again" /\ SlugTaken(subject[r])')
                PROVE  subject'[r] \in insertedBy[r] \/ LastSuffix(subject'[r]) >= SAFE
    BY DEF StillFree, SlugTaken, Ids
  <2>1. SlugTaken(subject[r])' => SlugTaken(subject'[r])
    BY DEF SlugTaken, Ids
  <2>2. CASE r = q
    <3>1. doing'[q] = next
      BY DEF ProjectInv, ProjectTypes
    <3>. QED BY <2>1, <2>2, <3>1 DEF ProjectInv, StillFree
  <2>3. CASE r # q
    <3>1. doing'[r] = doing[r] /\ subject'[r] = subject[r]
      BY <2>3 DEF ProjectInv, ProjectTypes
    <3>. QED BY <2>1, <3>1 DEF ProjectInv, StillFree
  <2>. QED BY <2>2, <2>3
<1>. QED BY <1>1, <1>2, <1>3 DEF ProjectInv

LEMMA BeginCreateInv ==
  ASSUME ProjectInv, NEW q \in Requests, BeginCreate(q)
  PROVE  ProjectInv'
<1>1. PICK name \in ProjectNames : subject' = [subject EXCEPT ![q] = slugify(name)]
  BY DEF BeginCreate
<1>2. subject' = [r \in Requests |-> subject'[r]] /\ subject'[q] \in Slugs
      /\ \A r \in Requests \ {q} : subject'[r] = subject[r]
  BY <1>1 DEF ProjectInv, ProjectTypes
<1>. QED BY <1>2, RowsFrame DEF BeginCreate, Turns, Creating

LEMMA FindSlugsInv ==
  ASSUME ProjectInv, NEW q \in Requests, FindSlugs(q)
  PROVE  ProjectInv'
<1>1. subject[q] \in Slugs
  BY DEF ProjectInv, ProjectTypes, FindSlugs, Creating
<1>2. PICK base \in Slugs : base = subject[q]
  BY <1>1
<1>. DEFINE s == nextSuffixedSlug(base, findSlugsForUserByPrefix(base))
<1>3. subject' = [subject EXCEPT ![q] = s]
  BY <1>2 DEF FindSlugs
<1>4. Suffixed(s) /\ (SlugTaken(s) => LastSuffix(s) >= SAFE)
  BY NextSlugIsFree DEF ProjectInv
<1>. HIDE DEF s
<1>5. /\ subject' = [r \in Requests |-> subject'[r]] /\ subject'[q] = s
      /\ \A r \in Requests \ {q} : subject'[r] = subject[r]
  BY <1>3 DEF ProjectInv, ProjectTypes
<1>6. s \in Slugs
  BY <1>4 DEF Suffixed
<1>. QED BY <1>4, <1>5, <1>6, RowsFrame DEF FindSlugs, Turns, Creating

LEMMA BeginDeleteInv ==
  ASSUME ProjectInv, NEW q \in Requests, BeginDelete(q)
  PROVE  ProjectInv'
<1>1. PICK i \in Ids : subject' = [subject EXCEPT ![q] = <<i>>]
  BY DEF BeginDelete
<1>2. subject' = [r \in Requests |-> subject'[r]] /\ subject'[q] = <<i>>
      /\ \A r \in Requests \ {q} : subject'[r] = subject[r]
  BY <1>1 DEF ProjectInv, ProjectTypes
<1>. QED BY <1>2, RowsFrame DEF BeginDelete, Turns, Creating

LEMMA BeginListInv ==
  ASSUME ProjectInv, NEW q \in Requests, BeginList(q)
  PROVE  ProjectInv'
<1>1. subject' = [r \in Requests |-> subject'[r]]
  BY DEF ProjectInv, ProjectTypes, BeginList
<1>. QED BY <1>1, RowsFrame DEF BeginList, Turns, Creating

LEMMA ListPageInv ==
  ASSUME ProjectInv, NEW q \in Requests, ListPage(q)
  PROVE  ProjectInv'
<1>1. /\ UNCHANGED <<projects, announced, insertedBy>> /\ doing[q] = "page"
      /\ \E next : subject' = [subject EXCEPT ![q] = next]
      /\ doing' = doing \/ doing' = [doing EXCEPT ![q] = "listed"]
  BY DEF ListPage, Turns
<1>2. doing' = [doing EXCEPT ![q] = "page"] \/ doing' = [doing EXCEPT ![q] = "listed"]
  BY <1>1 DEF ProjectInv, ProjectTypes
<1>3. /\ subject' = [r \in Requests |-> subject'[r]]
      /\ \A r \in Requests \ {q} : subject'[r] = subject[r]
  BY <1>1 DEF ProjectInv, ProjectTypes
<1>. QED BY <1>1, <1>2, <1>3, RowsFrame DEF Creating

(* A row is added, and everyone who is to insert again learns its slug.    *)
LEMMA InsertRowInv ==
  ASSUME ProjectInv, NEW q \in Requests, doing[q] \in Creating, InsertRow(q, subject[q])
  PROVE  ProjectInv'
<1>. DEFINE n == Len(projects) + 1
<1>1. PICK s \in Slugs : s = subject[q]
  BY DEF ProjectInv, ProjectTypes
<1>2. /\ projects' = Append(projects, [slug |-> s, deleted |-> FALSE])
      /\ announced' = Append(announced, 0)
      /\ insertedBy' = [r \in Requests |->
           IF r # q /\ doing[r] = "insert-again" THEN insertedBy[r] \cup {s}
           ELSE IF r = q THEN {} ELSE insertedBy[r]]
      /\ doing' = [doing EXCEPT ![q] = "idle"] /\ subject' = [subject EXCEPT ![q] = <<>>]
  BY <1>1 DEF InsertRow, Done, Turns
<1>3. /\ projects' \in Seq(Rows) /\ announced' \in Seq(Nat) /\ Len(announced') = Len(projects')
      /\ Ids' = Ids \cup {n} /\ n \notin Ids /\ n \in Nat
      /\ projects'[n] = [slug |-> s, deleted |-> FALSE] /\ announced'[n] = 0
      /\ \A i \in Ids : projects'[i] = projects[i] /\ announced'[i] = announced[i]
  <2>1. [slug |-> s, deleted |-> FALSE] \in Rows /\ 0 \in Nat
    BY DEF Rows
  <2>2. projects \in Seq(Rows) /\ announced \in Seq(Nat) /\ Len(announced) = Len(projects)
    BY DEF ProjectInv, ProjectTypes
  <2>. QED BY <1>2, <2>1, <2>2 DEF Ids
<1>. HIDE DEF n
<1>4. \A r \in Requests : /\ doing'[r] = (IF r = q THEN "idle" ELSE doing[r])
                          /\ r # q => subject'[r] = subject[r]
  BY <1>2 DEF ProjectInv, ProjectTypes
<1>5. ProjectTypes'
  <2>1. /\ doing' \in [Requests -> Creating \cup {"idle", "delete", "page", "listed"}]
        /\ subject' = [r \in Requests |-> subject'[r]]
        /\ insertedBy' = [r \in Requests |-> insertedBy'[r]]
    BY <1>2 DEF ProjectInv, ProjectTypes
  <2>2. \A r \in Requests : doing'[r] \in Creating => r # q /\ subject'[r] \in Slugs
    BY <1>4 DEF ProjectInv, ProjectTypes, Creating
  <2>3. \A r \in Requests : doing'[r] \in {"insert-again", "conflict"} => Suffixed(subject'[r])
    BY <1>4 DEF ProjectInv, ProjectTypes
  <2>4. \A r \in Requests : doing'[r] = "delete" => \E i \in Ids' : subject'[r] = <<i>>
    <3>. SUFFICES ASSUME NEW r \in Requests, doing'[r] = "delete" PROVE \E i \in Ids' : subject'[r] = <<i>>
      OBVIOUS
    <3>1. doing[r] = "delete" /\ subject'[r] = subject[r]
      BY <1>4
    <3>2. PICK i \in Ids : subject[r] = <<i>>
      BY <3>1 DEF ProjectInv, ProjectTypes
    <3>. QED BY <1>3, <3>1, <3>2
  <2>. QED BY <1>3, <2>1, <2>2, <2>3, <2>4 DEF ProjectTypes, Suffixed
<1>6. Announced'
  BY <1>3 DEF ProjectInv, Announced
<1>7. Bounded'
  <2>1. PICK m \in Nat : \A i \in Ids : Suffixed(projects[i].slug) => LastSuffix(projects[i].slug) <= m
    BY DEF ProjectInv, Bounded
  <2>2. Suffixed(s) => LastSuffix(s) \in Nat
    BY DEF Suffixed, Slugs, LastSuffix
  <2>3. \A i \in Ids : Suffixed(projects[i].slug) => LastSuffix(projects[i].slug) \in Nat
    BY DEF Suffixed, Slugs, LastSuffix
  <2>4. PICK k \in Nat : m <= k /\ (Suffixed(s) => LastSuffix(s) <= k)
    <3>1. CASE Suffixed(s) /\ LastSuffix(s) > m
      BY <2>2, <3>1
    <3>2. CASE ~(Suffixed(s) /\ LastSuffix(s) > m)
      BY <2>2, <3>2
    <3>. QED BY <3>1, <3>2
  <2>5. \A i \in Ids : Suffixed(projects[i].slug) => LastSuffix(projects[i].slug) <= k
    BY <2>1, <2>3, <2>4
  <2>6. \A i \in Ids' : Suffixed(projects'[i].slug) => LastSuffix(projects'[i].slug) <= k
    BY <1>3, <2>4, <2>5
  <2>. QED BY <2>6 DEF Bounded, Suffixed, LastSuffix
<1>8. StillFree'
  <2>. SUFFICES ASSUME NEW r \in Requests,
                       doing'[r] = "conflict" \/ (doing'[r] = "insert-again" /\ SlugTaken(subject[r])')
                PROVE  subject'[r] \in insertedBy'[r] \/ LastSuffix(subject'[r]) >= SAFE
    BY DEF StillFree, LastSuffix
  <2>1. r # q /\ doing'[r] = doing[r] /\ subject'[r] = subject[r] /\ insertedBy[r] \subseteq insertedBy'[r]
    BY <1>2, <1>4
  <2>2. doing[r] = "insert-again" /\ SlugTaken(subject[r])' => SlugTaken(subject[r]) \/ subject[r] = s
    <3>. SUFFICES ASSUME NEW i \in Ids', projects'[i].slug = subject[r]
                  PROVE  (\E j \in Ids : projects[j].slug = subject[r]) \/ subject[r] = s
      BY <2>1 DEF SlugTaken
    <3>1. CASE i \in Ids
      <4>1. projects[i].slug = subject[r]
        BY <1>3, <3>1
      <4>. QED BY <3>1, <4>1
    <3>2. CASE i \notin Ids
      BY <1>3, <3>2
    <3>. QED BY <3>1, <3>2
  <2>3. doing[r] = "insert-again" => s \in insertedBy'[r]
    BY <1>2, <2>1
  <2>. QED BY <2>1, <2>2, <2>3 DEF ProjectInv, StillFree
<1>. QED BY <1>5, <1>6, <1>7, <1>8 DEF ProjectInv

LEMMA InsertFirstInv ==
  ASSUME ProjectInv, NEW q \in Requests, InsertFirst(q)
  PROVE  ProjectInv'
<1>1. CASE InsertRow(q, subject[q])
  BY <1>1, InsertRowInv DEF InsertFirst, Creating
<1>2. CASE Turns(q, "find") /\ UNCHANGED <<projects, announced, insertedBy, subject>>
  <2>1. /\ subject' = [r \in Requests |-> subject'[r]] /\ subject[q] \in Slugs
        /\ \A r \in Requests \ {q} : subject'[r] = subject[r]
    BY <1>2 DEF ProjectInv, ProjectTypes, InsertFirst, Creating
  <2>. QED BY <1>2, <2>1, RowsFrame DEF Turns, Creating
<1>. QED BY <1>1, <1>2 DEF InsertFirst

LEMMA InsertAgainInv ==
  ASSUME ProjectInv, NEW q \in Requests, InsertAgain(q)
  PROVE  ProjectInv'
<1>1. CASE InsertRow(q, subject[q])
  BY <1>1, InsertRowInv DEF InsertAgain, Creating
<1>2. CASE SlugTaken(subject[q]) /\ Turns(q, "conflict") /\ UNCHANGED <<projects, announced, insertedBy, subject>>
  <2>1. /\ subject' = [r \in Requests |-> subject'[r]] /\ Suffixed(subject[q]) /\ subject[q] \in Slugs
        /\ \A r \in Requests \ {q} : subject'[r] = subject[r]
    BY <1>2 DEF ProjectInv, ProjectTypes, InsertAgain, Creating
  <2>2. doing[q] = "insert-again"
    BY DEF InsertAgain
  <2>. QED BY <1>2, <2>1, <2>2, RowsFrame DEF Turns, Creating
<1>. QED BY <1>1, <1>2 DEF InsertAgain

(* A deletion changes no slug, and is announced only when it changes a row. *)
LEMMA SoftDeleteInv ==
  ASSUME ProjectInv, NEW q \in Requests, SoftDelete(q)
  PROVE  ProjectInv'
<1>1. PICK i \in Ids : subject[q] = <<i>>
  BY DEF ProjectInv, ProjectTypes, SoftDelete
<1>2. i = subject[q][1]
  BY <1>1
<1>3. /\ subject' = [r \in Requests |-> subject'[r]]
      /\ subject' = [subject EXCEPT ![q] = <<>>] /\ doing' = [doing EXCEPT ![q] = "idle"]
      /\ insertedBy' = insertedBy
      /\ \A r \in Requests \ {q} : subject'[r] = subject[r]
  BY DEF ProjectInv, ProjectTypes, SoftDelete, Done, Turns
<1>4. CASE projects[i].deleted
  <2>1. UNCHANGED <<projects, announced>>
    BY <1>2, <1>4 DEF SoftDelete
  <2>. QED BY <1>3, <2>1, RowsFrame DEF Creating
<1>5. CASE ~projects[i].deleted
  <2>1. /\ projects' = [projects EXCEPT ![i].deleted = TRUE]
        /\ announced' = [announced EXCEPT ![i] = @ + 1]
    BY <1>2, <1>5 DEF SoftDelete
  <2>2. /\ projects \in Seq(Rows) /\ announced \in Seq(Nat) /\ Len(announced) = Len(projects)
        /\ Ids = 1 .. Len(projects) /\ projects[i] \in Rows
    BY DEF ProjectInv, ProjectTypes, Ids
  <2>3. /\ projects' \in Seq(Rows) /\ announced' \in Seq(Nat)
        /\ Len(announced') = Len(projects') /\ Ids' = Ids
    <3>1. [projects[i] EXCEPT !.deleted = TRUE] \in Rows /\ announced[i] + 1 \in Nat /\ i \in 1 .. Len(announced)
      <4>1. [projects[i] EXCEPT !.deleted = TRUE] \in Rows
        BY <2>2 DEF Rows
      <4>2. i \in 1 .. Len(announced)
        BY <2>2
      <4>3. announced[i] \in Nat
        BY <2>2, <4>2
      <4>. QED BY <4>1, <4>2, <4>3
    <3>2. /\ projects' = [projects EXCEPT ![i] = [projects[i] EXCEPT !.deleted = TRUE]]
          /\ announced' = [announced EXCEPT ![i] = announced[i] + 1]
      BY <2>1
    <3>3. projects' \in Seq(Rows) /\ Len(projects') = Len(projects)
      BY <2>2, <3>1, <3>2, ExceptSeq
    <3>4. announced' \in Seq(Nat) /\ Len(announced') = Len(announced)
      BY <2>2, <3>1, <3>2, ExceptSeq
    <3>. QED BY <2>2, <3>3, <3>4 DEF Ids
  <2>4. /\ \A j \in Ids : projects'[j].slug = projects[j].slug
        /\ \A j \in Ids \ {i} : projects'[j] = projects[j] /\ announced'[j] = announced[j]
        /\ projects'[i].deleted = TRUE /\ announced'[i] = announced[i] + 1
    BY <2>1, <2>2 DEF Rows
  <2>5. \A r \in Requests : /\ doing'[r] = (IF r = q THEN "idle" ELSE doing[r])
                            /\ r # q => subject'[r] = subject[r]
    BY <1>3 DEF ProjectInv, ProjectTypes
  <2>6. ProjectTypes'
    <3>1. /\ doing' \in [Requests -> Creating \cup {"idle", "delete", "page", "listed"}]
          /\ insertedBy' = [r \in Requests |-> insertedBy'[r]]
      BY <1>3 DEF ProjectInv, ProjectTypes
    <3>2. \A r \in Requests : doing'[r] \in Creating => r # q /\ subject'[r] \in Slugs
      BY <2>5 DEF ProjectInv, ProjectTypes, Creating
    <3>3. \A r \in Requests : doing'[r] \in {"insert-again", "conflict"} => Suffixed(subject'[r])
      BY <2>5 DEF ProjectInv, ProjectTypes
    <3>4. \A r \in Requests : doing'[r] = "delete" => \E j \in Ids : subject'[r] = <<j>>
      BY <2>5 DEF ProjectInv, ProjectTypes
    <3>. QED BY <1>3, <2>3, <3>1, <3>2, <3>3, <3>4 DEF ProjectTypes, Suffixed
  <2>7. Announced'
    BY <1>5, <2>3, <2>4 DEF ProjectInv, Announced
  <2>8. Bounded'
    BY <2>3, <2>4 DEF ProjectInv, Bounded, Suffixed, LastSuffix
  <2>9. StillFree'
    <3>1. \A r \in Requests : SlugTaken(subject[r])' <=> SlugTaken(subject'[r])
      BY <2>3, <2>4 DEF SlugTaken
    <3>. SUFFICES ASSUME NEW r \in Requests,
                         doing'[r] = "conflict" \/ (doing'[r] = "insert-again" /\ SlugTaken(subject'[r]))
                  PROVE  subject'[r] \in insertedBy[r] \/ LastSuffix(subject'[r]) >= SAFE
      BY <1>3, <3>1 DEF StillFree, LastSuffix
    <3>2. doing'[r] = doing[r] /\ subject'[r] = subject[r]
      BY <2>5
    <3>. QED BY <3>2 DEF ProjectInv, StillFree
  <2>. QED BY <2>6, <2>7, <2>8, <2>9 DEF ProjectInv
<1>. QED BY <1>4, <1>5

LEMMA ProjectStep == ProjectInv /\ [ProjectNext]_projectVars => ProjectInv'
<1>. SUFFICES ASSUME ProjectInv, [ProjectNext]_projectVars PROVE ProjectInv'
  OBVIOUS
<1>1. CASE UNCHANGED projectVars
  BY <1>1 DEF projectVars, ProjectInv, ProjectTypes, Announced, Bounded, StillFree, SlugTaken, Ids,
              LastSuffix, Suffixed
<1>. QED BY <1>1, BeginCreateInv, InsertFirstInv, FindSlugsInv, InsertAgainInv, BeginDeleteInv,
            SoftDeleteInv, BeginListInv, ListPageInv DEF ProjectNext

LEMMA ProjectAlways == ProjectSpec => []ProjectInv
BY ProjectInitInv, ProjectStep, PTL DEF ProjectSpec

(* A create is refused only if it lost a race for its second slug, or if   *)
(* there are no more numbers.                                              *)
THEOREM ConflictsAreRaces == ProjectSpec => []ConflictNeedsARace
<1>1. ProjectInv => ConflictNeedsARace
  BY DEF ProjectInv, StillFree, ConflictNeedsARace
<1>. QED BY <1>1, ProjectAlways, PTL

(* No deletion is announced twice, and none that did not happen.           *)
THEOREM DeletionsAreAnnouncedOnce == ProjectSpec => []AnnouncedOnce
<1>1. ProjectInv => AnnouncedOnce
  <2>. SUFFICES ASSUME ProjectInv, NEW i \in Ids
                PROVE  announced[i] <= 1 /\ (announced[i] = 1 => projects[i].deleted)
    BY DEF AnnouncedOnce
  <2>. QED BY DEF ProjectInv, Announced
<1>. QED BY <1>1, ProjectAlways, PTL
(***************************************************************************)
(* The listings.                                                           *)
(***************************************************************************)

HIDE ProjectConstants

Falls(s) == \A j, k \in DOMAIN s : j < k => s[j] > s[k]
Lists(s, i) == \E k \in DOMAIN s : s[k] = i

(* The rank of a number, one more than those above it, is one to one onto  *)
(* 1 .. |S|: there are as many ranks as numbers.                           *)
LEMMA DescendingLists ==
  ASSUME NEW n \in Nat, NEW S \in SUBSET (1 .. n)
  PROVE  /\ Descending(S) \in Seq(S) /\ Falls(Descending(S))
         /\ \A i \in S : Lists(Descending(S), i)
<1>. DEFINE N == Cardinality(S)
            Above(i) == {j \in S : j > i}
            rank == [i \in S |-> Cardinality(Above(i)) + 1]
            D == Descending(S)
<1>1. IsFiniteSet(S) /\ N \in Nat
  <2>1. IsFiniteSet(1 .. n)
    BY FS_Interval
  <2>. QED BY <2>1, FS_Subset, FS_CardinalityType
<1>2. \A i \in S : /\ IsFiniteSet(Above(i)) /\ Cardinality(Above(i)) \in Nat
                   /\ Cardinality(Above(i)) < N
  <2>. SUFFICES ASSUME NEW i \in S
                PROVE  IsFiniteSet(Above(i)) /\ Cardinality(Above(i)) \in Nat /\ Cardinality(Above(i)) < N
    OBVIOUS
  <2>1. Above(i) \in SUBSET S /\ Above(i) # S
    BY i \in 1 .. n
  <2>2. IsFiniteSet(Above(i)) /\ Cardinality(Above(i)) <= N /\ Cardinality(Above(i)) # N
    BY <1>1, <2>1, FS_Subset
  <2>3. Cardinality(Above(i)) \in Nat
    BY <2>2, FS_CardinalityType
  <2>. QED BY <1>1, <2>2, <2>3
<1>3. \A i, j \in S : i < j => Cardinality(Above(j)) < Cardinality(Above(i))
  <2>. SUFFICES ASSUME NEW i \in S, NEW j \in S, i < j
                PROVE  Cardinality(Above(j)) < Cardinality(Above(i))
    OBVIOUS
  <2>1. Above(j) \in SUBSET Above(i) /\ j \in Above(i) /\ j \notin Above(j)
    <3>1. i \in Int /\ j \in Int /\ \A k \in S : k \in Int
      OBVIOUS
    <3>2. \A k \in Above(j) : k \in Above(i)
      BY <3>1
    <3>3. j \in Above(i) /\ j \notin Above(j)
      BY <3>1
    <3>. QED BY <3>2, <3>3
  <2>2. Cardinality(Above(j)) <= Cardinality(Above(i)) /\ Cardinality(Above(j)) # Cardinality(Above(i))
    BY <1>2, <2>1, FS_Subset
  <2>. QED BY <1>2, <2>2
<1>4. rank \in [S -> 1 .. N] /\ \A i, j \in S : i < j => rank[j] < rank[i]
  <2>. HIDE DEF N, Above
  <2>. QED BY <1>1, <1>2, <1>3
<1>5. \A i, j \in S : rank[i] = rank[j] => i = j
  <2>. HIDE DEF rank
  <2>. QED BY <1>1, <1>4
<1>6. rank \in Surjection(S, 1 .. N)
  <2>1. rank \in Injection(S, 1 .. N)
    <3>. HIDE DEF rank, N
    <3>. QED BY <1>4, <1>5 DEF Injection, IsInjective
  <2>2. IsFiniteSet(1 .. N) /\ Cardinality(1 .. N) = N
    BY <1>1, FS_Interval
  <2>. QED BY <2>1, <2>2, FS_Injection
<1>7. \A k \in 1 .. N : \E i \in S : rank[i] = k
  <2>. HIDE DEF rank, N
  <2>. QED BY <1>6 DEF Surjection
<1>8. D = [k \in 1 .. N |-> CHOOSE i \in S : Cardinality(Above(i)) = k - 1]
  BY DEF Descending
<1>9. \A k \in 1 .. N : D[k] \in S /\ rank[D[k]] = k
  <2>. SUFFICES ASSUME NEW k \in 1 .. N PROVE D[k] \in S /\ rank[D[k]] = k
    OBVIOUS
  <2>1. D[k] = CHOOSE i \in S : Cardinality(Above(i)) = k - 1
    BY <1>8
  <2>2. \A i \in S : rank[i] = k <=> Cardinality(Above(i)) = k - 1
    BY <1>1, <1>2
  <2>3. \E i \in S : Cardinality(Above(i)) = k - 1
    BY <1>7, <2>2
  <2>. HIDE DEF D, rank, Above
  <2>. QED BY <2>1, <2>2, <2>3
<1>10. D \in Seq(S) /\ DOMAIN D = 1 .. N
  <2>1. D \in [1 .. N -> S]
    <3>1. D = [k \in 1 .. N |-> D[k]]
      BY <1>8
    <3>. HIDE DEF D
    <3>. QED BY <1>9, <3>1
  <2>. HIDE DEF D, N
  <2>. QED BY <1>1, <2>1
<1>11. Falls(D)
  <2>. SUFFICES ASSUME NEW j \in 1 .. N, NEW k \in 1 .. N, j < k PROVE D[j] > D[k]
    <3>. HIDE DEF D, N
    <3>. QED BY <1>10 DEF Falls
  <2>1. D[j] \in 1 .. n /\ D[k] \in 1 .. n /\ D[j] \in S /\ D[k] \in S
    BY <1>9
  <2>2. rank[D[j]] = j /\ rank[D[k]] = k
    BY <1>9
  <2>. HIDE DEF D, rank, N
  <2>. QED BY <1>1, <1>4, <2>1, <2>2
<1>12. \A i \in S : Lists(D, i)
  <2>. SUFFICES ASSUME NEW i \in S PROVE \E k \in 1 .. N : D[k] = i
    <3>. HIDE DEF D, N
    <3>. QED BY <1>10 DEF Lists
  <2>1. rank[i] \in 1 .. N
    BY <1>4
  <2>. HIDE DEF D, rank, N
  <2>. QED BY <1>5, <1>9, <2>1
<1>. QED BY <1>10, <1>11, <1>12

(* No live row is between i and the cursor c.                              *)
IsNext(c, i) == \A k \in LiveIds : k < c => k <= i

(* A page's query returns the first rows of a sequence that falls, begins  *)
(* after the cursor, and reaches every live row below it but the greatest, *)
(* which is skipped if the cursor is deleted.                              *)
LEMMA RowsOfAPage ==
  ASSUME ProjectTypes, NEW cursor, cursor = <<>> \/ \E c \in Ids : cursor = <<c>>
  PROVE  \E all \in Seq(LiveIds) :
           /\ Falls(all) /\ listByUser(cursor) = FirstOf(all, PAGE + 1)
           /\ cursor = <<>> => \A i \in LiveIds : Lists(all, i)
           /\ \A c \in Ids : cursor = <<c>> =>
                /\ \A k \in DOMAIN all : all[k] < c
                /\ \A i \in LiveIds : i < c =>
                     Lists(all, i) \/ (c \notin LiveIds /\ IsNext(c, i))
<1>1. /\ Ids = 1 .. Len(projects) /\ Len(projects) \in Nat
      /\ LiveIds \in SUBSET (1 .. Len(projects))
  BY DEF ProjectTypes, Ids, LiveIds
<1>2. CASE cursor = <<>>
  <2>1. /\ Descending(LiveIds) \in Seq(LiveIds) /\ Falls(Descending(LiveIds))
        /\ \A i \in LiveIds : Lists(Descending(LiveIds), i)
    BY <1>1, DescendingLists
  <2>2. listByUser(cursor) = FirstOf(Descending(LiveIds), PAGE + 1)
    BY <1>2 DEF listByUser
  <2>3. \A c : cursor # <<c>>
    BY <1>2
  <2>. QED BY <2>1, <2>2, <2>3
<1>3. ASSUME NEW c \in Ids, cursor = <<c>>
      PROVE  \E all \in Seq(LiveIds) :
               /\ Falls(all) /\ listByUser(cursor) = FirstOf(all, PAGE + 1)
               /\ \A k \in DOMAIN all : all[k] < c
               /\ \A i \in LiveIds : i < c =>
                    Lists(all, i) \/ (c \notin LiveIds /\ IsNext(c, i))
  <2>. DEFINE S == {i \in LiveIds : i <= c}
              rows == Descending(S)
              all == SubSeq(rows, 2, Len(rows))
  <2>1. rows \in Seq(S) /\ Falls(rows) /\ \A i \in S : Lists(rows, i)
    <3>1. S \in SUBSET (1 .. Len(projects))
      BY <1>1
    <3>. HIDE DEF S
    <3>. QED BY <1>1, <3>1, DescendingLists
  <2>2. listByUser(cursor) = FirstOf(all, PAGE + 1)
    <3>1. cursor # <<>> /\ cursor[1] = c
      BY <1>3
    <3>. QED BY <3>1 DEF listByUser
  <2>3. /\ all \in Seq(S)
        /\ Len(all) = IF 2 <= Len(rows) THEN Len(rows) - 1 ELSE 0
        /\ \A k \in 1 .. Len(all) : all[k] = rows[k + 1] /\ k + 1 \in 1 .. Len(rows)
    <3>. HIDE DEF rows, S
    <3>. QED BY <2>1
  <2>4. \A k \in DOMAIN rows : rows[k] \in S /\ rows[k] \in Nat /\ rows[k] <= c
    <3>1. \A k \in DOMAIN rows : rows[k] \in S
      <4>. HIDE DEF rows, S
      <4>. QED BY <2>1
    <3>2. \A i \in S : i \in Nat /\ i <= c
      BY <1>1
    <3>. HIDE DEF S
    <3>. QED BY <3>1, <3>2
  <2>5. Falls(all)
    <3>. HIDE DEF rows, S, all
    <3>. QED BY <2>1, <2>3 DEF Falls
  <2>6. \A k \in DOMAIN all : all[k] < c
    <3>. HIDE DEF rows, S, all
    <3>. SUFFICES ASSUME NEW k \in 1 .. Len(all) PROVE all[k] < c
      BY <2>3
    <3>1. all[k] = rows[k + 1] /\ k + 1 \in DOMAIN rows /\ 1 \in DOMAIN rows /\ 1 < k + 1
      BY <2>1, <2>3
    <3>2. rows[1] > rows[k + 1]
      BY <2>1, <3>1 DEF Falls
    <3>. QED BY <1>1, <2>4, <3>1, <3>2
  <2>7. \A i \in LiveIds : i < c => Lists(all, i) \/ (c \notin LiveIds /\ IsNext(c, i))
    <3>. SUFFICES ASSUME NEW i \in LiveIds, i < c
                  PROVE  Lists(all, i) \/ (c \notin LiveIds /\ IsNext(c, i))
      OBVIOUS
    <3>1. i \in S /\ (c \in LiveIds => c \in S) /\ \A j \in LiveIds : j < c => j \in S
      BY <1>1
    <3>. HIDE DEF S
    <3>2. PICK k \in DOMAIN rows : rows[k] = i
      BY <2>1, <3>1 DEF Lists
    <3>3. CASE k = 1
      <4>1. \A j \in S : j <= i
        <5>. SUFFICES ASSUME NEW j \in S PROVE j <= i
          OBVIOUS
        <5>1. PICK m \in DOMAIN rows : rows[m] = j
          BY <2>1 DEF Lists
        <5>. HIDE DEF rows
        <5>2. m = 1 \/ rows[1] > rows[m]
          <6>1. DOMAIN rows = 1 .. Len(rows)
            BY <2>1
          <6>. QED BY <2>1, <3>2, <3>3, <6>1 DEF Falls
        <5>. QED BY <2>4, <3>2, <3>3, <5>1, <5>2
      <4>2. IsNext(c, i)
        BY <3>1, <4>1 DEF IsNext
      <4>3. c \notin LiveIds
        BY <1>1, <3>1, <4>1
      <4>. QED BY <4>2, <4>3
    <3>4. CASE k # 1
      <4>. HIDE DEF rows, all
      <4>1. k - 1 \in 1 .. Len(all) /\ all[k - 1] = rows[k]
        <5>1. k \in 1 .. Len(rows) /\ k >= 2
          BY <2>1, <3>4
        <5>. QED BY <2>3, <5>1
      <4>2. k - 1 \in DOMAIN all
        BY <2>3, <4>1
      <4>. QED BY <3>2, <4>1, <4>2 DEF Lists
    <3>. QED BY <3>3, <3>4
  <2>8. all \in Seq(LiveIds)
    <3>1. S \subseteq LiveIds
      OBVIOUS
    <3>. HIDE DEF S, all
    <3>. QED BY <2>3, <3>1
  <2>. HIDE DEF all
  <2>. QED BY <2>2, <2>5, <2>6, <2>7, <2>8
<1>. QED BY <1>2, <1>3

(* The row that a deleted cursor made a page of client q skip.             *)
Skipped(q, i) == \E c \in cut[q] : i < c /\ \A k \in due[q] : k < c => k <= i

Settled(q, i) == Lists(pages[q], i) \/ Skipped(q, i)

(* What a client has got falls; while it lists, what it is due at and      *)
(* above its cursor it has got, or a deleted cursor made it skip that.     *)
Begun(q) ==
  \/ subject[q] = <<>> /\ pages[q] = <<>>
  \/ \E c \in Ids :
       /\ subject[q] = <<c>>
       /\ \A k \in DOMAIN pages[q] : pages[q][k] >= c
       /\ \A i \in due[q] : i >= c => Settled(q, i)

Listing(q) ==
  /\ due[q] \subseteq LiveIds
  /\ pages[q] \in Seq(Ids) /\ Falls(pages[q])
  /\ doing[q] = "idle" => subject[q] = <<>>
  /\ doing[q] \notin {"page", "listed"} => pages[q] = <<>>
  /\ doing[q] = "page" => Begun(q)
  /\ doing[q] = "listed" => \A i \in due[q] : Settled(q, i)

ListingInv ==
  /\ pages = [q \in Requests |-> pages[q]] /\ due = [q \in Requests |-> due[q]]
  /\ cut = [q \in Requests |-> cut[q]]
  /\ \A q \in Requests : Listing(q)

(* Who does not list keeps its Listing while rows come and go.             *)
LEMMA ListingKept ==
  ASSUME ProjectInv, ProjectInv', NEW q \in Requests, Listing(q),
         Ids \subseteq Ids', UNCHANGED <<doing[q], subject[q], pages[q], cut[q]>>,
         due'[q] \subseteq due[q], due'[q] \subseteq LiveIds'
  PROVE  Listing(q)'
<1>1. pages'[q] \in Seq(Ids') /\ Falls(pages'[q]) /\ due'[q] \subseteq LiveIds'
  BY DEF Listing
<1>2. \A i \in due'[q] : i \in due[q] /\ (Settled(q, i) => Settled(q, i)')
  BY DEF Settled, Skipped, Lists
<1>3. doing[q] = "page" => Begun(q)'
  <2>. SUFFICES ASSUME doing[q] = "page" PROVE Begun(q)'
    OBVIOUS
  <2>1. CASE subject[q] = <<>> /\ pages[q] = <<>>
    BY <2>1 DEF Begun
  <2>2. ASSUME NEW c \in Ids, subject[q] = <<c>>,
               \A k \in DOMAIN pages[q] : pages[q][k] >= c,
               \A i \in due[q] : i >= c => Settled(q, i)
        PROVE  Begun(q)'
    <3>1. \A i \in due'[q] : i >= c => Settled(q, i)'
      BY <1>2, <2>2
    <3>. QED BY <2>2, <3>1 DEF Begun
  <2>. QED BY <2>1, <2>2 DEF Listing, Begun
<1>4. doing[q] = "listed" => \A i \in due'[q] : Settled(q, i)'
  BY <1>2 DEF Listing
<1>5. /\ doing'[q] = "idle" => subject'[q] = <<>>
      /\ doing'[q] \notin {"page", "listed"} => pages'[q] = <<>>
  BY DEF Listing
<1>. QED BY <1>1, <1>3, <1>4, <1>5 DEF Listing

(* A step of one request, as the others see it.                            *)
LEMMA OneLists ==
  ASSUME ProjectInv, ProjectInv', ListingInv, NEW q \in Requests, Listing(q)',
         Ids \subseteq Ids',
         pages' = [r \in Requests |-> pages'[r]], due' = [r \in Requests |-> due'[r]],
         cut' = [r \in Requests |-> cut'[r]],
         \A r \in Requests \ {q} :
           /\ UNCHANGED <<doing[r], subject[r], pages[r], cut[r]>>
           /\ due'[r] \subseteq due[r] /\ due'[r] \subseteq LiveIds'
  PROVE  ListingInv'
<1>1. \A r \in Requests \ {q} : Listing(r)'
  <2>. TAKE r \in Requests \ {q}
  <2>1. Listing(r)
    BY DEF ListingInv
  <2>. QED BY <2>1, ListingKept
<1>. QED BY <1>1 DEF ListingInv

(* Steps that leave the rows and all listings alone.                       *)
LEMMA ListingsApart ==
  ASSUME ProjectInv, ProjectInv', ListingInv, NEW q \in Requests, NEW next,
         UNCHANGED <<projects, pages, due, cut>>, doing' = [doing EXCEPT ![q] = next],
         \A r \in Requests \ {q} : subject'[r] = subject[r],
         doing[q] \notin {"page", "listed"}, next \notin {"page", "listed"},
         next = "idle" => subject'[q] = <<>>
  PROVE  ListingInv'
<1>1. Ids' = Ids /\ LiveIds' = LiveIds
  BY DEF Ids, LiveIds
<1>2. /\ doing'[q] = next
      /\ \A r \in Requests \ {q} : doing'[r] = doing[r] /\ subject'[r] = subject[r]
  BY DEF ProjectInv, ProjectTypes
<1>3. Listing(q)'
  BY <1>1, <1>2 DEF ListingInv, Listing
<1>4. \A r \in Requests : due[r] \subseteq LiveIds
  BY DEF ListingInv, Listing
<1>5. /\ pages' = [r \in Requests |-> pages'[r]] /\ due' = [r \in Requests |-> due'[r]]
      /\ cut' = [r \in Requests |-> cut'[r]]
  BY DEF ListingInv
<1>. QED BY <1>1, <1>2, <1>3, <1>4, <1>5, OneLists

LEMMA InsertRowLists ==
  ASSUME ProjectInv, ProjectInv', ListingInv, NEW q \in Requests, NEW slug,
         InsertRow(q, slug), UNCHANGED <<pages, due, cut>>, doing[q] \notin {"page", "listed"}
  PROVE  ListingInv'
<1>1. /\ Ids = 1 .. Len(projects) /\ Len(projects) \in Nat /\ projects \in Seq(Rows)
      /\ Ids' = 1 .. Len(projects') /\ projects' = Append(projects, [slug |-> slug, deleted |-> FALSE])
  BY DEF ProjectInv, ProjectTypes, Ids, InsertRow
<1>2. Ids \subseteq Ids' /\ \A i \in Ids : projects'[i] = projects[i]
  BY <1>1
<1>3. LiveIds \subseteq LiveIds'
  BY <1>2 DEF LiveIds
<1>4. /\ doing'[q] = "idle" /\ subject'[q] = <<>>
      /\ \A r \in Requests \ {q} : doing'[r] = doing[r] /\ subject'[r] = subject[r]
  BY DEF ProjectInv, ProjectTypes, InsertRow, Done, Turns
<1>5. \A r \in Requests : due[r] \subseteq LiveIds
  BY DEF ListingInv, Listing
<1>6. Listing(q)'
  <2>1. pages[q] = <<>> /\ Falls(pages[q])
    BY DEF ListingInv, Listing
  <2>. QED BY <1>3, <1>4, <1>5, <2>1 DEF Listing
<1>7. /\ pages' = [r \in Requests |-> pages'[r]] /\ due' = [r \in Requests |-> due'[r]]
      /\ cut' = [r \in Requests |-> cut'[r]]
  BY DEF ListingInv
<1>. QED BY <1>2, <1>3, <1>4, <1>5, <1>6, <1>7, OneLists

(* A project that is deleted is no longer due.                             *)
LEMMA SoftDeleteLists ==
  ASSUME ProjectInv, ProjectInv', ListingInv, NEW q \in Requests, SoftDelete(q)
  PROVE  ListingInv'
<1>1. PICK i \in Ids : subject[q] = <<i>>
  BY DEF ProjectInv, ProjectTypes, SoftDelete
<1>2. i = subject[q][1]
  BY <1>1
<1>3. /\ doing[q] = "delete" /\ pages' = pages /\ cut' = cut
      /\ subject' = [subject EXCEPT ![q] = <<>>] /\ doing' = [doing EXCEPT ![q] = "idle"]
  BY DEF SoftDelete, Done, Turns
<1>4. /\ doing'[q] = "idle" /\ subject'[q] = <<>>
      /\ \A r \in Requests \ {q} : doing'[r] = doing[r] /\ subject'[r] = subject[r]
  BY <1>3 DEF ProjectInv, ProjectTypes
<1>5. CASE projects[i].deleted
  <2>1. UNCHANGED <<projects, due>>
    BY <1>2, <1>5 DEF SoftDelete
  <2>. QED BY <1>3, <1>4, <2>1, ListingsApart
<1>6. CASE ~projects[i].deleted
  <2>1. projects' = [projects EXCEPT ![i].deleted = TRUE] /\ due' = DueWithout(i)
    BY <1>2, <1>6 DEF SoftDelete
  <2>2. projects \in Seq(Rows) /\ Ids = 1 .. Len(projects) /\ Ids' = 1 .. Len(projects')
        /\ Len(projects) \in Nat
    BY DEF ProjectInv, ProjectTypes, Ids
  <2>3. Ids' = Ids /\ \A j \in Ids \ {i} : projects'[j] = projects[j]
    BY <2>1, <2>2
  <2>4. LiveIds \ {i} \subseteq LiveIds'
    BY <2>3 DEF LiveIds
  <2>5. \A r \in Requests : due[r] \subseteq LiveIds
    BY DEF ListingInv, Listing
  <2>6. \A r \in Requests : due'[r] \subseteq due[r] /\ i \notin due'[r]
    BY <2>1 DEF DueWithout
  <2>7. \A r \in Requests : due'[r] \subseteq LiveIds'
    BY <2>4, <2>5, <2>6
  <2>8. Listing(q)'
    <3>1. pages[q] = <<>> /\ pages[q] \in Seq(Ids) /\ Falls(pages[q])
      BY <1>3 DEF ListingInv, Listing
    <3>. QED BY <1>3, <1>4, <2>3, <2>7, <3>1 DEF Listing
  <2>9. /\ pages' = [r \in Requests |-> pages'[r]] /\ due' = [r \in Requests |-> due'[r]]
        /\ cut' = [r \in Requests |-> cut'[r]]
    BY <1>3, <2>1 DEF ListingInv, DueWithout
  <2>. QED BY <1>3, <1>4, <2>3, <2>6, <2>7, <2>8, <2>9, OneLists
<1>. QED BY <1>5, <1>6

LEMMA BeginListLists ==
  ASSUME ProjectInv, ProjectInv', ListingInv, NEW q \in Requests, BeginList(q)
  PROVE  ListingInv'
<1>1. Ids' = Ids /\ LiveIds' = LiveIds
  BY DEF BeginList, Ids, LiveIds
<1>2. /\ doing'[q] = "page" /\ subject' = subject /\ pages' = pages /\ cut' = cut
      /\ due' = [due EXCEPT ![q] = LiveIds]
      /\ \A r \in Requests \ {q} : doing'[r] = doing[r]
  BY DEF ProjectInv, ProjectTypes, BeginList, Turns
<1>3. due'[q] = LiveIds /\ \A r \in Requests \ {q} : due'[r] = due[r]
  BY <1>2 DEF ListingInv
<1>4. Listing(q)'
  <2>1. pages[q] = <<>> /\ pages[q] \in Seq(Ids) /\ Falls(pages[q]) /\ subject[q] = <<>>
    BY DEF ListingInv, Listing, BeginList
  <2>2. Begun(q)'
    BY <1>2, <2>1 DEF Begun
  <2>. QED BY <1>1, <1>2, <1>3, <2>1, <2>2 DEF Listing
<1>5. \A r \in Requests : due[r] \subseteq LiveIds
  BY DEF ListingInv, Listing
<1>6. /\ pages' = [r \in Requests |-> pages'[r]] /\ due' = [r \in Requests |-> due'[r]]
      /\ cut' = [r \in Requests |-> cut'[r]]
  BY <1>2 DEF ListingInv
<1>. QED BY <1>1, <1>2, <1>3, <1>4, <1>5, <1>6, OneLists

(* Below the cursor the next page begins, and nothing due is between but   *)
(* the row that a deleted cursor makes it skip.                            *)
LEMMA ListPageLists ==
  ASSUME ProjectInv, ProjectInv', ListingInv, NEW q \in Requests, ListPage(q)
  PROVE  ListingInv'
<1>. DEFINE rows == listByUser(subject[q])
            got == FirstOf(rows, PAGE)
<1>1. /\ Ids' = Ids /\ LiveIds' = LiveIds /\ due' = due /\ doing[q] = "page"
      /\ pages' = [pages EXCEPT ![q] = @ \o got] /\ Ids = 1 .. Len(projects)
      /\ LiveIds \subseteq Ids
  BY DEF ListPage, Ids, LiveIds, ProjectInv, ProjectTypes
<1>2. /\ due[q] \subseteq LiveIds /\ pages[q] \in Seq(Ids) /\ Falls(pages[q]) /\ Begun(q)
  BY <1>1 DEF ListingInv, Listing
<1>3. PICK all \in Seq(LiveIds) :
           /\ Falls(all) /\ rows = FirstOf(all, PAGE + 1)
           /\ subject[q] = <<>> => \A i \in LiveIds : Lists(all, i)
           /\ \A c \in Ids : subject[q] = <<c>> =>
                /\ \A k \in DOMAIN all : all[k] < c
                /\ \A i \in LiveIds : i < c =>
                     Lists(all, i) \/ (c \notin LiveIds /\ IsNext(c, i))
  <2>1. subject[q] = <<>> \/ \E c \in Ids : subject[q] = <<c>>
    BY <1>2 DEF Begun
  <2>. QED BY <2>1, RowsOfAPage DEF ProjectInv
<1>4. /\ got \in Seq(LiveIds) /\ Len(got) = (IF Len(all) < PAGE THEN Len(all) ELSE PAGE)
      /\ \A k \in 1 .. Len(got) : got[k] = all[k]
      /\ Len(rows) > PAGE <=> Len(all) > PAGE
      /\ Len(all) > PAGE => rows[PAGE] = all[PAGE]
  <2>1. PAGE \in Nat /\ PAGE >= 1
    BY ProjectConstants
  <2>2. /\ rows \in Seq(LiveIds) /\ Len(rows) = (IF Len(all) < PAGE + 1 THEN Len(all) ELSE PAGE + 1)
        /\ \A k \in 1 .. Len(rows) : rows[k] = all[k]
    <3>. HIDE DEF rows
    <3>. QED BY <1>3, <2>1 DEF FirstOf
  <2>3. /\ got \in Seq(LiveIds) /\ Len(got) = (IF Len(rows) < PAGE THEN Len(rows) ELSE PAGE)
        /\ \A k \in 1 .. Len(got) : got[k] = rows[k]
    <3>. HIDE DEF rows
    <3>. QED BY <2>1, <2>2 DEF FirstOf
  <2>. HIDE DEF got, rows
  <2>. QED BY <2>1, <2>2, <2>3
<1>. HIDE DEF rows, got
<1>. DEFINE next == pages[q] \o got
<1>5. /\ pages'[q] = next /\ next \in Seq(Ids) /\ Len(next) = Len(pages[q]) + Len(got)
      /\ \A k \in 1 .. Len(pages[q]) : next[k] = pages[q][k]
      /\ \A k \in 1 .. Len(got) : next[Len(pages[q]) + k] = all[k]
      /\ \A k \in 1 .. Len(next) : k > Len(pages[q]) =>
           k - Len(pages[q]) \in 1 .. Len(got) /\ next[k] = all[k - Len(pages[q])]
  <2>1. pages'[q] = next
    BY <1>1 DEF ListingInv
  <2>2. got \in Seq(Ids)
    <3>1. \A k \in 1 .. Len(got) : got[k] \in LiveIds
      BY <1>4
    <3>2. \A k \in 1 .. Len(got) : got[k] \in Ids
      BY <1>1, <3>1
    <3>. QED BY <1>4, <3>2
  <2>3. /\ next \in Seq(Ids) /\ Len(next) = Len(pages[q]) + Len(got)
        /\ \A k \in 1 .. Len(next) : next[k] = IF k <= Len(pages[q]) THEN pages[q][k] ELSE got[k - Len(pages[q])]
    BY <1>2, <2>2
  <2>4. Len(pages[q]) \in Nat /\ Len(got) \in Nat
    BY <1>2, <2>2
  <2>. HIDE DEF next
  <2>5. \A k \in 1 .. Len(pages[q]) : next[k] = pages[q][k]
    BY <2>3, <2>4
  <2>6. \A k \in 1 .. Len(got) : next[Len(pages[q]) + k] = all[k]
    <3>. SUFFICES ASSUME NEW k \in 1 .. Len(got) PROVE next[Len(pages[q]) + k] = got[k]
      BY <1>4
    <3>. DEFINE l == Len(pages[q]) + k
    <3>1. l \in 1 .. Len(next) /\ ~(l <= Len(pages[q])) /\ l - Len(pages[q]) = k
      BY <2>3, <2>4
    <3>. HIDE DEF l
    <3>2. next[l] = got[k]
      BY <2>3, <3>1
    <3>. QED BY <3>2 DEF l
  <2>7. \A k \in 1 .. Len(next) : k > Len(pages[q]) =>
          k - Len(pages[q]) \in 1 .. Len(got) /\ next[k] = all[k - Len(pages[q])]
    <3>. SUFFICES ASSUME NEW k \in 1 .. Len(next), k > Len(pages[q])
                  PROVE  k - Len(pages[q]) \in 1 .. Len(got) /\ next[k] = all[k - Len(pages[q])]
      OBVIOUS
    <3>1. k - Len(pages[q]) \in 1 .. Len(got) /\ next[k] = got[k - Len(pages[q])]
      BY <2>3, <2>4
    <3>. QED BY <1>4, <3>1
  <2>. QED BY <2>1, <2>3, <2>5, <2>6, <2>7
<1>. HIDE DEF next
<1>6. \A k \in DOMAIN all : all[k] \in LiveIds /\ all[k] \in Nat
  <2>1. \A k \in DOMAIN all : all[k] \in LiveIds
    BY <1>3
  <2>2. \A i \in LiveIds : i \in Nat
    BY <1>1
  <2>. QED BY <2>1, <2>2
<1>7. \A j \in 1 .. Len(pages[q]), k \in DOMAIN all : pages[q][j] > all[k]
  <2>1. CASE pages[q] = <<>>
    BY <2>1
  <2>2. ASSUME NEW c \in Ids, subject[q] = <<c>>, \A k \in DOMAIN pages[q] : pages[q][k] >= c
        PROVE  \A j \in 1 .. Len(pages[q]), k \in DOMAIN all : pages[q][j] > all[k]
    <3>1. \A k \in DOMAIN all : all[k] < c
      BY <1>3, <2>2
    <3>2. \A j \in 1 .. Len(pages[q]) : pages[q][j] >= c /\ pages[q][j] \in Nat
      BY <1>1, <1>2, <2>2
    <3>. QED BY <1>1, <1>6, <3>1, <3>2
  <2>. QED BY <1>2, <2>1, <2>2 DEF Begun
<1>8. Falls(next)
  <2>4. DOMAIN next = 1 .. Len(next)
    BY <1>5
  <2>. SUFFICES ASSUME NEW j \in 1 .. Len(next), NEW k \in 1 .. Len(next), j < k
                PROVE  next[j] > next[k]
    BY <2>4 DEF Falls
  <2>1. CASE k <= Len(pages[q])
    <3>1. j \in 1 .. Len(pages[q]) /\ k \in 1 .. Len(pages[q])
      BY <1>2, <2>1
    <3>. QED BY <1>2, <1>5, <3>1 DEF Falls
  <2>2. CASE j <= Len(pages[q]) /\ k > Len(pages[q])
    <3>1. k - Len(pages[q]) \in DOMAIN all
      BY <1>3, <1>4, <1>5, <2>2
    <3>2. j \in 1 .. Len(pages[q])
      BY <1>2, <2>2
    <3>3. next[j] = pages[q][j] /\ next[k] = all[k - Len(pages[q])]
      BY <1>5, <2>2, <3>2
    <3>. QED BY <1>7, <3>1, <3>2, <3>3
  <2>3. CASE j > Len(pages[q])
    <3>1. /\ j - Len(pages[q]) \in DOMAIN all /\ k - Len(pages[q]) \in DOMAIN all
          /\ j - Len(pages[q]) < k - Len(pages[q]) /\ k > Len(pages[q])
      <4>1. k > Len(pages[q]) /\ j - Len(pages[q]) < k - Len(pages[q])
        BY <1>2, <1>5, <2>3
      <4>2. j - Len(pages[q]) \in 1 .. Len(got) /\ k - Len(pages[q]) \in 1 .. Len(got)
        BY <1>5, <2>3, <4>1
      <4>3. \A i \in 1 .. Len(got) : i \in DOMAIN all
        BY <1>3, <1>4, ProjectConstants
      <4>. QED BY <4>1, <4>2, <4>3
    <3>2. all[j - Len(pages[q])] > all[k - Len(pages[q])]
      BY <1>3, <3>1 DEF Falls
    <3>. QED BY <1>5, <2>3, <3>1, <3>2
  <2>. QED BY <1>2, <2>1, <2>2, <2>3
<1>9. \A i \in due[q] : Lists(pages[q], i) \/ Lists(all, i) \/ Skipped(q, i)'
  <2>. SUFFICES ASSUME NEW i \in due[q] PROVE Lists(pages[q], i) \/ Lists(all, i) \/ Skipped(q, i)'
    OBVIOUS
  <2>1. cut'[q] = cut[q] \cup {c \in Ids \ LiveIds : subject[q] = <<c>>}
    BY DEF ListPage, ListingInv
  <2>2. Skipped(q, i) => Skipped(q, i)'
    BY <1>1, <2>1 DEF Skipped
  <2>3. CASE subject[q] = <<>>
    BY <1>2, <1>3, <2>3
  <2>4. ASSUME NEW c \in Ids, subject[q] = <<c>>, i >= c => Settled(q, i)
        PROVE  Lists(pages[q], i) \/ Lists(all, i) \/ Skipped(q, i)'
    <3>1. i \in LiveIds /\ i \in Nat /\ c \in Nat
      <4>1. i \in LiveIds
        BY <1>2
      <4>2. \A k \in Ids : k \in Nat
        BY <1>1
      <4>. QED BY <1>1, <4>1, <4>2
    <3>2. CASE i >= c
      BY <2>2, <2>4, <3>2 DEF Settled
    <3>3. CASE i < c
      <4>1. Lists(all, i) \/ (c \notin LiveIds /\ IsNext(c, i))
        BY <1>3, <2>4, <3>1, <3>3
      <4>2. ASSUME c \notin LiveIds, IsNext(c, i) PROVE Skipped(q, i)'
        <5>1. c \in cut'[q]
          BY <2>1, <2>4, <4>2
        <5>2. \A k \in due'[q] : k < c => k <= i
          BY <1>1, <1>2, <4>2 DEF IsNext
        <5>. QED BY <3>3, <5>1, <5>2 DEF Skipped
      <4>. QED BY <4>1, <4>2
    <3>. QED BY <3>1, <3>2, <3>3
  <2>. QED BY <1>2, <2>3, <2>4 DEF Begun
<1>10. \A i : Lists(pages[q], i) => Lists(next, i)
  <2>. SUFFICES ASSUME NEW k \in 1 .. Len(pages[q]) PROVE Lists(next, pages[q][k])
    BY <1>2 DEF Lists
  <2>1. next[k] = pages[q][k] /\ DOMAIN next = 1 .. Len(next)
    BY <1>5
  <2>2. k \in 1 .. Len(next)
    <3>1. Len(pages[q]) \in Nat /\ Len(got) \in Nat /\ Len(next) = Len(pages[q]) + Len(got)
      BY <1>2, <1>4, <1>5
    <3>. QED BY <3>1
  <2>. QED BY <2>1, <2>2 DEF Lists
<1>11. /\ \A r \in Requests \ {q} : doing'[r] = doing[r] /\ subject'[r] = subject[r] /\ pages'[r] = pages[r]
       /\ pages' = [r \in Requests |-> pages'[r]] /\ due' = [r \in Requests |-> due'[r]]
       /\ cut' = [r \in Requests |-> cut'[r]] /\ \A r \in Requests \ {q} : cut'[r] = cut[r]
       /\ subject = [r \in Requests |-> subject[r]]
       /\ \A r \in Requests : due[r] \subseteq LiveIds
  BY <1>1 DEF ListPage, Turns, ListingInv, Listing, ProjectInv, ProjectTypes
<1>12. CASE Len(all) > PAGE
  <2>1. subject'[q] = <<all[PAGE]>> /\ doing'[q] = "page"
    BY <1>4, <1>11, <1>12, <1>1 DEF ListPage, rows, nextCursor
  <2>2. PAGE \in DOMAIN all /\ all[PAGE] \in LiveIds /\ Len(got) = PAGE /\ PAGE \in 1 .. Len(got)
    <3>1. PAGE \in Nat /\ PAGE >= 1
      BY ProjectConstants
    <3>2. PAGE \in DOMAIN all /\ Len(got) = PAGE
      BY <1>3, <1>4, <1>12, <3>1
    <3>. QED BY <1>6, <3>1, <3>2
  <2>3. \A k \in DOMAIN next : next[k] >= all[PAGE]
    <3>. SUFFICES ASSUME NEW k \in 1 .. Len(next) PROVE next[k] >= all[PAGE]
      BY <1>5
    <3>1. CASE k <= Len(pages[q])
      <4>1. next[k] = pages[q][k] /\ pages[q][k] > all[PAGE]
        BY <1>2, <1>5, <1>7, <2>2, <3>1
      <4>2. pages[q][k] \in Nat
        BY <1>1, <1>2, <3>1
      <4>. QED BY <1>6, <2>2, <4>1, <4>2
    <3>2. CASE k > Len(pages[q])
      <4>1. /\ k - Len(pages[q]) \in 1 .. PAGE /\ next[k] = all[k - Len(pages[q])]
            /\ k - Len(pages[q]) \in DOMAIN all
        BY <1>3, <1>5, <1>12, <2>2, <3>2
      <4>2. k - Len(pages[q]) = PAGE \/ all[k - Len(pages[q])] > all[PAGE]
        BY <1>3, <2>2, <4>1 DEF Falls
      <4>. QED BY <1>6, <2>2, <4>1, <4>2
    <3>. QED BY <1>2, <3>1, <3>2
  <2>4. \A i \in due[q] : i >= all[PAGE] => Lists(next, i) \/ Skipped(q, i)'
    <3>. SUFFICES ASSUME NEW i \in due[q], i >= all[PAGE], Lists(all, i) PROVE Lists(next, i)
      BY <1>9, <1>10
    <3>1. PICK k \in DOMAIN all : all[k] = i
      BY DEF Lists
    <3>2. k <= PAGE
      <4>1. k \in 1 .. Len(all)
        BY <1>3
      <4>2. k > PAGE => all[PAGE] > all[k]
        BY <1>3, <2>2, <4>1 DEF Falls
      <4>. QED BY <1>6, <2>2, <3>1, <4>1, <4>2
    <3>3. k \in 1 .. Len(got) /\ Len(pages[q]) + k \in DOMAIN next
      <4>1. k \in 1 .. Len(got)
        <5>1. k \in 1 .. Len(all)
          BY <1>3
        <5>. QED BY <2>2, <3>2, <5>1
      <4>. QED BY <1>2, <1>5, <4>1
    <3>. QED BY <1>5, <3>1, <3>3 DEF Lists
  <2>5. Begun(q)'
    <3>1. all[PAGE] \in Ids
      BY <1>1, <2>2
    <3>2. \A i \in due'[q] : i >= all[PAGE] => Settled(q, i)'
      BY <1>1, <1>5, <2>4 DEF Settled
    <3>. QED BY <1>1, <1>5, <2>1, <2>2, <2>3, <3>1, <3>2 DEF Begun
  <2>6. Listing(q)'
    BY <1>1, <1>2, <1>5, <1>8, <2>1, <2>5 DEF Listing
  <2>. QED BY <1>1, <1>11, <2>6, OneLists
<1>13. CASE ~(Len(all) > PAGE)
  <2>1. doing'[q] = "listed"
    BY <1>4, <1>13 DEF ListPage, rows, Turns, ProjectInv, ProjectTypes
  <2>2. \A i \in due[q] : Lists(next, i) \/ Skipped(q, i)'
    <3>. SUFFICES ASSUME NEW i \in due[q], Lists(all, i) PROVE Lists(next, i)
      BY <1>9, <1>10
    <3>1. PICK k \in DOMAIN all : all[k] = i
      BY DEF Lists
    <3>2. k \in 1 .. Len(got) /\ Len(pages[q]) + k \in DOMAIN next
      BY <1>2, <1>3, <1>4, <1>5, <1>13
    <3>. QED BY <1>5, <3>1, <3>2 DEF Lists
  <2>3. Listing(q)'
    <3>1. \A i \in due'[q] : Settled(q, i)'
      BY <1>1, <1>5, <2>2 DEF Settled
    <3>. QED BY <1>1, <1>2, <1>5, <1>8, <2>1, <3>1 DEF Listing
  <2>. QED BY <1>1, <1>11, <2>3, OneLists
<1>. QED BY <1>12, <1>13

LEMMA ListingInitInv == ProjectInit => ListingInv
<1>. SUFFICES ASSUME ProjectInit, NEW q \in Requests PROVE ListingInv
  BY DEF ProjectInit, ListingInv
<1>. QED BY DEF ProjectInit, ListingInv, Listing, Falls

LEMMA ListingStep == ProjectInv /\ ListingInv /\ [ProjectNext]_projectVars => ListingInv'
<1>. SUFFICES ASSUME ProjectInv, ListingInv, [ProjectNext]_projectVars PROVE ListingInv'
  OBVIOUS
<1>1. ProjectInv'
  BY ProjectStep
<1>2. CASE UNCHANGED projectVars
  BY <1>2 DEF projectVars, ListingInv, Listing, Begun, Settled, Skipped, Lists, Falls, Ids, LiveIds
<1>3. ASSUME NEW q \in Requests, BeginCreate(q) PROVE ListingInv'
  <2>. DEFINE next == "insert"
  <2>1. /\ doing[q] = "idle" /\ doing' = [doing EXCEPT ![q] = next]
        /\ UNCHANGED <<projects, pages, due, cut>>
        /\ \A r \in Requests \ {q} : subject'[r] = subject[r]
    BY <1>3 DEF BeginCreate, Turns, ProjectInv, ProjectTypes
  <2>2. next \notin {"idle", "page", "listed"}
    OBVIOUS
  <2>3. doing[q] \notin {"page", "listed"}
    BY <2>1
  <2>. HIDE DEF next
  <2>. QED BY <1>1, <2>1, <2>2, <2>3, ListingsApart
<1>4. ASSUME NEW q \in Requests, InsertFirst(q) PROVE ListingInv'
  <2>1. CASE InsertRow(q, subject[q])
    BY <1>1, <1>4, <2>1, InsertRowLists DEF InsertFirst
  <2>2. CASE Turns(q, "find") /\ UNCHANGED <<projects, subject>>
    BY <1>1, <1>4, <2>2, ListingsApart DEF InsertFirst, Turns
  <2>. QED BY <1>4, <2>1, <2>2 DEF InsertFirst
<1>5. ASSUME NEW q \in Requests, FindSlugs(q) PROVE ListingInv'
  <2>1. /\ doing[q] = "find" /\ doing' = [doing EXCEPT ![q] = "insert-again"]
        /\ UNCHANGED <<projects, pages, due, cut>>
        /\ \A r \in Requests \ {q} : subject'[r] = subject[r]
    BY <1>5 DEF FindSlugs, Turns, ProjectInv, ProjectTypes
  <2>. QED BY <1>1, <2>1, ListingsApart
<1>6. ASSUME NEW q \in Requests, InsertAgain(q) PROVE ListingInv'
  <2>1. CASE InsertRow(q, subject[q])
    BY <1>1, <1>6, <2>1, InsertRowLists DEF InsertAgain
  <2>2. CASE Turns(q, "conflict") /\ UNCHANGED <<projects, subject>>
    BY <1>1, <1>6, <2>2, ListingsApart DEF InsertAgain, Turns
  <2>. QED BY <1>6, <2>1, <2>2 DEF InsertAgain
<1>7. ASSUME NEW q \in Requests, BeginDelete(q) PROVE ListingInv'
  <2>. DEFINE next == "delete"
  <2>1. /\ doing[q] = "idle" /\ doing' = [doing EXCEPT ![q] = next]
        /\ UNCHANGED <<projects, pages, due, cut>>
        /\ \A r \in Requests \ {q} : subject'[r] = subject[r]
    BY <1>7 DEF BeginDelete, Turns, ProjectInv, ProjectTypes
  <2>2. next \notin {"idle", "page", "listed"}
    OBVIOUS
  <2>3. doing[q] \notin {"page", "listed"}
    BY <2>1
  <2>. HIDE DEF next
  <2>. QED BY <1>1, <2>1, <2>2, <2>3, ListingsApart
<1>. QED BY <1>1, <1>2, <1>3, <1>4, <1>5, <1>6, <1>7, SoftDeleteLists, BeginListLists, ListPageLists
         DEF ProjectNext

(* A listing that ends has no project twice, and every project that was    *)
(* there all the time but, for each cursor that was deleted before it was  *)
(* sent, the first one behind it: whatever the size of its pages and       *)
(* however many clients create and delete meanwhile.                       *)
THEOREM ListingsLoseOnlyByCursors == ProjectSpec => []OnlyDeletedCursorsLose
<1>1. ListingInv => OnlyDeletedCursorsLose
  <2>. SUFFICES ASSUME ListingInv, NEW q \in Requests, doing[q] = "listed"
                PROVE  /\ \A i \in Missed(q) : Skipped(q, i)
                       /\ \A j, k \in DOMAIN pages[q] : pages[q][j] = pages[q][k] => j = k
    BY DEF OnlyDeletedCursorsLose, Skipped
  <2>1. Listing(q)
    BY DEF ListingInv
  <2>2. \A j \in DOMAIN pages[q] : pages[q][j] \in Nat /\ j \in Nat
    BY <2>1 DEF Listing, Ids
  <2>3. \A j, k \in DOMAIN pages[q] : pages[q][j] = pages[q][k] => j = k
    BY <2>1, <2>2 DEF Listing, Falls
  <2>4. \A i \in Missed(q) : i \in due[q] /\ ~Lists(pages[q], i)
    BY DEF Missed, Lists
  <2>. QED BY <2>1, <2>3, <2>4 DEF Listing, Settled
<1>2. ProjectSpec => []ListingInv
  BY ProjectAlways, ListingInitInv, ListingStep, PTL DEF ProjectSpec
<1>. QED BY <1>1, <1>2, PTL
=============================================================================
