------------------------- MODULE MCWebhookIngestion -------------------------
(***************************************************************************)
(* Constants for checking WebhookIngestion with TLC: one GitHub repository *)
(* and installation, connected by two projects.                            *)
(***************************************************************************)
EXTENDS WebhookIngestion, TLC

CONSTANTS t1, t2, g1, i1, j1, j2, s1, s2, q1, q2

MCGithubRepoOf == [t \in Rows |-> g1]
MCInstallationOf == [t \in Rows |-> i1]
MCProjectOf == [t \in Rows |-> IF t = t1 THEN j1 ELSE j2]

(* A pull request and everything that may happen to the connection.        *)
MCSyncActions ==
  {"opened", "closed", "reopened"} \cup INSTALLATION_SYNC_ACTIONS
    \cup REPOSITORY_SYNC_ACTIONS \cup INSTALLATION_REPOSITORIES_SYNC_ACTIONS
=============================================================================
