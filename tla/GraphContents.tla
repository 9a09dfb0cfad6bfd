---------------------------- MODULE GraphContents ----------------------------
(***************************************************************************)
(* What rebuilding the graph of a repository promises, with no rows: the   *)
(* stored graph changes only while a rebuild is in progress, and a rebuild *)
(* that ran alone from beginning to end returns only when the stored graph *)
(* is complete for its commit, whatever earlier rebuilds left behind.      *)
(* IndexLifecycle takes this for granted (PersistBegins, PersistEnds);     *)
(* GraphRebuild implements it.                                             *)
(***************************************************************************)
CONSTANTS
  Rebuilds,   \* executions of indexRepository for one repository
  Commits,
  NoCommit    \* the goal of a rebuild that is not in progress

VARIABLES
  complete,   \* the commits whose graph the stored rows are
  goalOf,     \* goalOf[a]: the commit rebuild a is for, while in progress
  exclusive,  \* exclusive[a]: no other rebuild was in progress since a began
  returned    \* the rebuilds that returned to their caller

vars == <<complete, goalOf, exclusive, returned>>

Init ==
  /\ complete \in SUBSET Commits
  /\ goalOf = [a \in Rebuilds |-> NoCommit]
  /\ exclusive = [a \in Rebuilds |-> FALSE]
  /\ returned = {}

Begin(a) ==
  /\ goalOf[a] = NoCommit /\ a \notin returned
  /\ \E c \in Commits : goalOf' = [goalOf EXCEPT ![a] = c]
  /\ exclusive' = [b \in Rebuilds |-> b = a /\ \A d \in Rebuilds : goalOf[d] = NoCommit]
  /\ UNCHANGED <<complete, returned>>

Write(a) ==
  /\ goalOf[a] # NoCommit
  /\ complete' \in SUBSET Commits
  /\ UNCHANGED <<goalOf, exclusive, returned>>

Finish(a) ==
  /\ goalOf[a] # NoCommit
  /\ exclusive[a] => goalOf[a] \in complete
  /\ goalOf' = [goalOf EXCEPT ![a] = NoCommit]
  /\ returned' = returned \cup {a}
  /\ UNCHANGED <<complete, exclusive>>

Abandon(a) ==
  /\ goalOf[a] # NoCommit
  /\ goalOf' = [goalOf EXCEPT ![a] = NoCommit]
  /\ UNCHANGED <<complete, exclusive, returned>>

Next == \E a \in Rebuilds : Begin(a) \/ Write(a) \/ Finish(a) \/ Abandon(a)

Spec == Init /\ [][Next]_vars
=============================================================================
