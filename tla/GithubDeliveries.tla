-------------------------- MODULE GithubDeliveries --------------------------
(***************************************************************************)
(* GitHub as the webhook endpoint sees it: one pull request in each        *)
(* repository, the states that bar the App from a repository, and the      *)
(* deliveries that report each change.  Delivery d is the d-th change;     *)
(* GitHub may send it late, never, or more than once.  What happens while  *)
(* the App is suspended or uninstalled is not reported, and left out.      *)
(***************************************************************************)
EXTENDS Connections, Naturals

CONSTANTS
  Shas, None,          \* commits; no value
  MAX_DELIVERIES,      \* changes on GitHub
  GithubMay            \* the actions GitHub reports

VARIABLES
  emitted,             \* deliveries created so far
  event,               \* event[d]: what delivery d reports
  pr,                  \* pr[g]: the pull request of repository g
  barred               \* <<why, g or i>>: what bars the App on GitHub

githubVars == <<emitted, event, pr, barred>>

Deliveries == 1..MAX_DELIVERIES

PullRequests == [sha : Shas, state : {"open", "closed"}, draft : BOOLEAN]

ASSUME GithubAssumption ==
  /\ MAX_DELIVERIES \in Nat
  /\ None \notin PullRequests

(* event-allowlist: what the endpoint handles, by event type.              *)
REVIEW_TRIGGERING_ACTIONS == {"opened", "reopened", "synchronize", "ready_for_review"}
PULL_REQUEST_STATE_SYNC_ACTIONS == {"closed", "converted_to_draft"}
PULL_REQUEST_METADATA_ONLY_ACTIONS == {"edited"}
INSTALLATION_SYNC_ACTIONS == {"created", "deleted", "suspend", "unsuspend"}
INSTALLATION_REPOSITORIES_SYNC_ACTIONS == {"added", "removed"}
REPOSITORY_SYNC_ACTIONS == {"renamed", "deleted", "archived", "unarchived"}

PullRequestActions ==
  REVIEW_TRIGGERING_ACTIONS \cup PULL_REQUEST_STATE_SYNC_ACTIONS
    \cup PULL_REQUEST_METADATA_ONLY_ACTIONS

PullRequestEvents ==
  [type : {"pull_request"}, action : PullRequestActions, on : GithubRepos,
   pull : PullRequests]

(* A payload that fails its schema: only its type is known.                *)
UnreadableEvents ==
  [type : {"pull_request", "installation", "push"}, action : {"malformed"}]

SyncEvents ==
  [type : {"installation"}, action : INSTALLATION_SYNC_ACTIONS, on : Installations]
    \cup [type : {"installation_repositories"},
          action : INSTALLATION_REPOSITORIES_SYNC_ACTIONS, on : GithubRepos]
    \cup [type : {"repository"}, action : REPOSITORY_SYNC_ACTIONS, on : GithubRepos]

Events == PullRequestEvents \cup UnreadableEvents \cup SyncEvents

GithubTypeOK ==
  /\ emitted \in 0..MAX_DELIVERIES
  /\ event \in [Deliveries -> Events \cup {None}]
  /\ pr \in [GithubRepos -> PullRequests \cup {None}]
  /\ barred \subseteq ({"archived", "deleted", "removed"} \X GithubRepos)
                      \cup ({"suspended", "uninstalled"} \X Installations)

GithubInit ==
  /\ emitted = 0
  /\ event = [d \in Deliveries |-> None]
  /\ pr \in [GithubRepos -> {p \in PullRequests : p.state = "closed"} \cup {None}]
  /\ barred = {}

Report(e) ==
  /\ emitted < MAX_DELIVERIES
  /\ e.action \in GithubMay
  /\ emitted' = emitted + 1
  /\ event' = [event EXCEPT ![emitted + 1] = e]

(* The installations through which rows reach repository g.                *)
InstallationsOn(g) == {InstallationOf[t] : t \in RowsOfGithubRepo(g)}

Installed(g) ==
  \E i \in InstallationsOn(g) :
    <<"suspended", i>> \notin barred /\ <<"uninstalled", i>> \notin barred

Reachable(g) == Installed(g) /\ <<"removed", g>> \notin barred

(* What an action makes of the pull request old.                           *)
PullRequestBecomes(old, action, p) ==
  \/ old = None /\ action = "opened" /\ p.state = "open"
  \/ old # None /\ action = "edited" /\ p = old
  \/ /\ old # None /\ old.state = "closed"
     /\ action = "reopened" /\ p = [old EXCEPT !.state = "open"]
  \/ /\ old # None /\ old.state = "open"
     /\ \/ action = "closed" /\ p = [old EXCEPT !.state = "closed"]
        \/ action = "synchronize" /\ p.sha # old.sha /\ p = [old EXCEPT !.sha = p.sha]
        \/ action = "converted_to_draft" /\ ~old.draft /\ p = [old EXCEPT !.draft = TRUE]
        \/ action = "ready_for_review" /\ old.draft /\ p = [old EXCEPT !.draft = FALSE]

PullRequestChanges(g) ==
  \E action \in PullRequestActions, p \in PullRequests :
    /\ Reachable(g)
    /\ \A why \in {"deleted", "archived"} : <<why, g>> \notin barred
    /\ PullRequestBecomes(pr[g], action, p)
    /\ pr' = [pr EXCEPT ![g] = p]
    /\ Report([type |-> "pull_request", action |-> action, on |-> g, pull |-> p])
    /\ UNCHANGED barred

RepositoryChanges(g) ==
  /\ Installed(g)
  /\ <<"deleted", g>> \notin barred
  /\ \/ /\ Reachable(g) /\ <<"archived", g>> \notin barred
        /\ barred' = barred \cup {<<"archived", g>>}
        /\ Report([type |-> "repository", action |-> "archived", on |-> g])
     \/ /\ Reachable(g) /\ <<"archived", g>> \in barred
        /\ barred' = barred \ {<<"archived", g>>}
        /\ Report([type |-> "repository", action |-> "unarchived", on |-> g])
     \/ /\ Reachable(g)
        /\ barred' = barred \cup {<<"deleted", g>>}
        /\ Report([type |-> "repository", action |-> "deleted", on |-> g])
     \/ /\ Reachable(g)
        /\ UNCHANGED barred
        /\ Report([type |-> "repository", action |-> "renamed", on |-> g])
     \/ /\ <<"removed", g>> \notin barred
        /\ barred' = barred \cup {<<"removed", g>>}
        /\ Report([type |-> "installation_repositories", action |-> "removed", on |-> g])
     \/ /\ <<"removed", g>> \in barred
        /\ barred' = barred \ {<<"removed", g>>}
        /\ Report([type |-> "installation_repositories", action |-> "added", on |-> g])
  /\ UNCHANGED pr

InstallationChanges(i) ==
  /\ \/ /\ <<"suspended", i>> \notin barred
        /\ barred' = barred \cup {<<"suspended", i>>}
        /\ Report([type |-> "installation", action |-> "suspend", on |-> i])
     \/ /\ <<"suspended", i>> \in barred
        /\ barred' = barred \ {<<"suspended", i>>}
        /\ Report([type |-> "installation", action |-> "unsuspend", on |-> i])
     \/ /\ <<"uninstalled", i>> \notin barred
        /\ barred' = barred \cup {<<"uninstalled", i>>}
        /\ Report([type |-> "installation", action |-> "deleted", on |-> i])
     \/ /\ emitted = 0
        /\ UNCHANGED barred
        /\ Report([type |-> "installation", action |-> "created", on |-> i])
  /\ <<"uninstalled", i>> \notin barred
  /\ UNCHANGED pr

(* Something happens whose payload the endpoint does not read.             *)
UnreadableChange ==
  /\ \E e \in UnreadableEvents : Report(e)
  /\ UNCHANGED <<pr, barred>>

GithubNext ==
  \/ \E g \in GithubRepos : PullRequestChanges(g) \/ RepositoryChanges(g)
  \/ \E i \in Installations : InstallationChanges(i)
  \/ UnreadableChange
=============================================================================
