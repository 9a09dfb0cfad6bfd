-------------------------- MODULE MCIndexLifecycle --------------------------
(***************************************************************************)
(* Constants for checking IndexLifecycle with TLC.                         *)
(***************************************************************************)
EXTENDS IndexLifecycle, TLC

CONSTANTS p1, j1, r1, r2, r3, r4, s1, s2

MCOneProject == [p \in Repos |-> j1]

(* Every step under the lock may fail, but for the one that releases it.   *)
MCFaultyUnderLock == LockedSteps \ {"mark-repository-indexed"}

(* Runs are interchangeable and so are commits. *)
MCSymmetry == Permutations(Runs) \cup Permutations(Shas)
=============================================================================
