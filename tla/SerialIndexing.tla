--------------------------- MODULE SerialIndexing ---------------------------
(***************************************************************************)
(* What the indexing lock promises, with no runs, steps or retries: the    *)
(* stored contents of a repository are written by one indexing attempt at  *)
(* a time, only while the repository is locked, and the commit it is       *)
(* published at is the commit its contents were completed for.             *)
(* IndexLifecycle implements this specification.                           *)
(***************************************************************************)

CONSTANTS
  Repos,    \* connected repositories
  Shas,     \* commits
  None,     \* nothing stored or published yet
  Mixed     \* contents of a rebuild that has not completed

VARIABLES
  busy,       \* busy[p]: an attempt has the lock of p
  published,  \* published[p]: Repository.indexedCommitSha
  contents    \* contents[p]: what the file and graph rows of p hold

vars == <<busy, published, contents>>

Init ==
  /\ busy = [p \in Repos |-> FALSE]
  /\ published = [p \in Repos |-> None]
  /\ contents = [p \in Repos |-> None]

Take(p) ==
  /\ ~busy[p]
  /\ busy' = [busy EXCEPT ![p] = TRUE]
  /\ UNCHANGED <<published, contents>>

Write(p) ==
  /\ busy[p]
  /\ \E c \in Shas \cup {Mixed} : contents' = [contents EXCEPT ![p] = c]
  /\ UNCHANGED <<busy, published>>

Publish(p) ==
  /\ busy[p]
  /\ contents[p] \in Shas
  /\ busy' = [busy EXCEPT ![p] = FALSE]
  /\ published' = [published EXCEPT ![p] = contents[p]]
  /\ UNCHANGED contents

Abandon(p) ==
  /\ busy[p]
  /\ busy' = [busy EXCEPT ![p] = FALSE]
  /\ UNCHANGED <<published, contents>>

Next == \E p \in Repos : Take(p) \/ Write(p) \/ Publish(p) \/ Abandon(p)

Spec == Init /\ [][Next]_vars
=============================================================================
