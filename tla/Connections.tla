---------------------------- MODULE Connections -----------------------------
(***************************************************************************)
(* Which GitHub repositories are connected to which projects.  A Row is a  *)
(* Repository row: one project's connection to one GitHub repository, so   *)
(* two rows may stand for the same GitHub repository.  Users connect and   *)
(* disconnect rows; installation-sync moves them between ACTIVE and        *)
(* ACCESS_LOST, for a whole installation or a whole GitHub repository.     *)
(***************************************************************************)
CONSTANTS
  Rows,             \* Repository rows
  GithubRepos,      \* repositories on GitHub
  Installations,    \* installations of the GitHub App
  Projects,
  GithubRepoOf,     \* Repository.githubRepoId
  InstallationOf,   \* Repository.installationId
  ProjectOf         \* Repository.projectId

ASSUME ConnectionsAssumption ==
  /\ GithubRepoOf \in [Rows -> GithubRepos]
  /\ InstallationOf \in [Rows -> Installations]
  /\ ProjectOf \in [Rows -> Projects]

VARIABLES
  connection,       \* Repository.connectionStatus; "ABSENT": no row yet
  deleted,          \* projects with deletedAt set
  suspended         \* installations with suspendedAt set

connectionVars == <<connection, deleted, suspended>>

ConnectionStatuses == {"ABSENT", "ACTIVE", "ACCESS_LOST", "DISCONNECTED"}

ConnectionsTypeOK ==
  /\ connection \in [Rows -> ConnectionStatuses]
  /\ deleted \subseteq Projects
  /\ suspended \subseteq Installations

ConnectionsInit ==
  /\ connection \in [Rows -> {"ABSENT", "ACTIVE"}]
  /\ deleted = {}
  /\ suspended = {}

RowsOfInstallation(i) == {t \in Rows : InstallationOf[t] = i}

RowsOfGithubRepo(g) == {t \in Rows : GithubRepoOf[t] = g}

(* The tenants of a pull request delivery: rows neither disconnected nor   *)
(* in a deleted project.  ACCESS_LOST rows are tenants too.                *)
FindConnected(g) ==
  {t \in RowsOfGithubRepo(g) :
     connection[t] \notin {"ABSENT", "DISCONNECTED"} /\ ProjectOf[t] \notin deleted}
-----------------------------------------------------------------------------
(* assertNotAlreadyConnected and the unique constraint behind it look for  *)
(* any row of the project and the GitHub repository, in whatever status.   *)
NotAlreadyConnected(t) == connection[t] = "ABSENT"

ConnectRepository(t) ==
  /\ NotAlreadyConnected(t)
  /\ ProjectOf[t] \notin deleted
  /\ connection' = [connection EXCEPT ![t] = "ACTIVE"]
  /\ UNCHANGED <<deleted, suspended>>

DisconnectRepository(t) ==
  /\ connection[t] \in {"ACTIVE", "ACCESS_LOST"}
  /\ ProjectOf[t] \notin deleted
  /\ connection' = [connection EXCEPT ![t] = "DISCONNECTED"]
  /\ UNCHANGED <<deleted, suspended>>

SoftDeleteProject(j) ==
  /\ j \notin deleted
  /\ deleted' = deleted \cup {j}
  /\ UNCHANGED <<connection, suspended>>
-----------------------------------------------------------------------------
(* Transitions of installation-sync: one updateMany each.                  *)

MovesRows(ts, from, to) ==
  connection' = [t \in Rows |-> IF t \in ts /\ connection[t] = from
                                THEN to ELSE connection[t]]

MarkAccessLost(ts) == MovesRows(ts, "ACTIVE", "ACCESS_LOST")

(* A mistake: every row comes back, the user's disconnected ones included. *)
BugRestoresAll(ts) ==
  connection' = [t \in Rows |-> IF t \in ts /\ connection[t] # "ABSENT"
                                THEN "ACTIVE" ELSE connection[t]]

RestoreActive(ts) == MovesRows(ts, "ACCESS_LOST", "ACTIVE")
=============================================================================
