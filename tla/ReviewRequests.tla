--------------------------- MODULE ReviewRequests ---------------------------
(***************************************************************************)
(* What webhook ingestion promises of reviews.  A review is asked for,     *)
(* which is recorded durably; a review asked for may be started, once.     *)
(***************************************************************************)
EXTENDS Naturals

CONSTANT Reviews     \* (repository row, commit) pairs to review

VARIABLES
  requested,         \* reviews recorded as asked for
  started            \* started[e]: times a review run was started for e

Init ==
  /\ requested = {}
  /\ started = [e \in Reviews |-> 0]

Request(es) ==
  /\ requested' = requested \cup es
  /\ UNCHANGED started

Start(es) ==
  /\ es \subseteq requested
  /\ \A e \in es : started[e] = 0
  /\ started' = [e \in Reviews |-> IF e \in es THEN 1 ELSE started[e]]
  /\ UNCHANGED requested

Next == \E es \in SUBSET Reviews : Request(es) \/ Start(es)

Spec == Init /\ [][Next]_<<requested, started>>
=============================================================================
