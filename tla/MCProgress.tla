----------------------------- MODULE MCProgress -----------------------------
(***************************************************************************)
(* Constants for checking what must go on under fairness: indexing, and    *)
(* the settling of webhook deliveries.  They share no variable here, and a *)
(* behaviour is one of one of them: the other stays as it is initially,    *)
(* where nothing of it that has to go on is enabled.                       *)
(***************************************************************************)
EXTENDS MCIndexLifecycle

CONSTANTS t1, g1, i1, q1

VARIABLES
  active,            \* "indexing" or "webhooks"
  connection, deletedProjects, suspended, emitted, event, pr, barred,
  rows, created, aged, request, pullRequest, late, seen, started, sweep

webhookVars ==
  <<connection, deletedProjects, suspended, emitted, event, pr, barred,
    rows, created, aged, request, pullRequest, late, seen, started, sweep>>

(* One pull request, two deliveries about it (a push among them), batches  *)
(* of one row.                                                             *)
Ingestion == INSTANCE WebhookIngestion WITH
  deleted <- deletedProjects,
  Rows <- {t1}, GithubRepos <- {g1}, Installations <- {i1}, Projects <- {j1},
  GithubRepoOf <- [t \in {t1} |-> g1], InstallationOf <- [t \in {t1} |-> i1],
  ProjectOf <- [t \in {t1} |-> j1], Shas <- {s1, s2}, MAX_DELIVERIES <- 2,
  GithubMay <- {"opened", "synchronize", "closed", "malformed"},
  Requests <- {q1}, UsersMay <- {j1}, ReviewsDrafts <- {}, SWEEP_BATCH_LIMIT <- 1,
  SLOW_REQUESTS <- FALSE

ProgressInit ==
  /\ active \in {"indexing", "webhooks"}
  /\ Init /\ Ingestion!Init
  /\ active = "indexing" => pr = [g \in {g1} |-> None]

ProgressNext ==
  /\ UNCHANGED active
  /\ \/ active = "indexing" /\ Next /\ UNCHANGED webhookVars
     \/ active = "webhooks" /\ Ingestion!Next /\ UNCHANGED vars

(* The fairness of both, of the active one.  With batches of one row less  *)
(* suffices for the sweeper than WebhookIngestion's Fairness: that some    *)
(* mark succeeds now and then, and a sweep that may end does.              *)
ProgressFairness ==
  /\ \A r \in Runs : WF_vars(active = "indexing" /\ RunStep(r))
  /\ \A p \in Repos : WF_vars(active = "indexing" /\ SweepStale(p))
  /\ \A q \in {q1} : WF_webhookVars(active = "webhooks" /\ Ingestion!RequestStep(q))
  /\ WF_webhookVars(active = "webhooks" /\ Ingestion!Age)
  /\ WF_webhookVars(active = "webhooks" /\ Ingestion!SweepFinds)
  /\ SF_webhookVars(active = "webhooks" /\ Ingestion!SweepSends)
  /\ SF_webhookVars(active = "webhooks" /\ \E d \in Ingestion!Deliveries : Ingestion!SweepMarks(d))
  /\ WF_webhookVars(active = "webhooks" /\ Ingestion!SweepEnds)

ProgressSpec == ProgressInit /\ [][ProgressNext]_<<active, vars, webhookVars>> /\ ProgressFairness

(* No recorded delivery stays PENDING: the sweeper drains its backlog,     *)
(* batch by batch, rows it cannot send included (webhook-sweeper.ts).      *)
EveryRowSettles == Ingestion!EveryRowSettles
=============================================================================
