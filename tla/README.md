# Verification of the AI-powered pull-request reviewer

TLA+ models of the reviewer's server side, the TLC runs that check them and the
TLAPS proofs about them. Paths below are relative to the repository's root.

## The system

A TypeScript monorepo. `apps/api` (Express) serves projects, repositories and the
GitHub webhook; `apps/worker` hosts Inngest functions; `packages/db` is Prisma over
PostgreSQL; `packages/github` is the GitHub App client; `apps/web` is the Next.js
front end. The API and the worker share no memory: they meet in the database, and
the API reaches the worker through Inngest events that are sent without being awaited.

| Component | State it keeps | Operations | What is hard |
|---|---|---|---|
| Index life cycle (`repository-index.ts`, `repository.repository.ts`, `index-job.repository.ts`, `stale-index-sweeper.ts`, `repository.service.ts`) | `Repository.indexStatus`, `indexedCommitSha`, `IndexJob` rows, Inngest's memoised step results | connect, trigger, sweep, the steps of the run, `onFailure`, cancellation | retries, lost replies, cancellation and timeout between any two steps, runs racing for one lock |
| Webhook ingestion (`webhooks.controller.ts`, `webhook.service.ts`, `webhook-sweeper.ts`) | `WebhookEvent` rows, `PullRequest` rows | ingest, dispatch, sweep | redelivery, crash between two writes, late sends |
| Installation sync (`installation-sync.ts`, `repository.repository.ts`) | `GithubInstallation`, `Repository.connectionStatus` | installation and repository events, disconnect | events in any order |
| Graph persistence (`indexer.service.ts`, `graph-builder.ts`, the row repositories) | file, symbol and dependency rows | upsert, sweep, two graph passes | crash between transactions, overlapping rebuilds, cascades |
| Import and call resolution (`import-resolver.ts`, `call-resolver.ts`) | none: functions of the tree | resolve an import, a call, a heritage clause | the order of candidates; what an unrelated file may change |
| Installation tokens (`app-auth.ts`, `token-cache.ts`, `octokit-factory.ts`) | a Redis entry, a fallback per process | get, mint, store, send, retry | expiry while a request waits, clocks that differ, Redis failing |
| ETag cache (`etag-cache.ts`) | one entry per installation and URL | look up, ask, store or serve | requests that store between another's look-up and answer |
| Tarball download (`tarball-fetcher.ts`, `repository-index.ts`) | the run's sleeps | token, request, redirect, sleep | limits that last, their headers |
| Archive extraction and walk (`archive-extractor.ts`, `walk-tree.ts`) | temporary directories | extract, check, read twice, remove | a stream ahead of its reader, attempts that overlap, every error path |
| Parser pool (`parser-pool.ts`) | memoised promises | load runtime, grammars, parsers | concurrent first uses, a load that fails |
| Rate limiter (`rate-limit.ts`) | a counter per window | increment, expire, read the TTL | window ends, a process dying between two commands |
| Projects and tenant access (`project.service.ts`, `tenant-access.ts`) | `Project` rows | create, list, soft delete | slug races, deletion while listing |
| Web client (the index-status poller) | query data, timers | poll, retry | a stale answer, a failed fetch, a hidden tab |

What makes each correct: one indexer per repository and only complete rows
published; no delivery lost or processed twice; connection status that follows the
last event; stored graphs that are those of a commit, with every import of a file; resolution that only related files
change; tokens that GitHub accepts whenever they are sent; answers that were true while
the request ran; limits that are never exceeded; trees read only when whole and removed
afterwards; slugs that conflict only in a race; a status shown that follows the server's.

At this commit seventeen files hold unresolved merge conflicts, among them `apps/worker/src/app.ts`,
`apps/api/src/lib/rate-limit.ts`, `apps/web/src/lib/api.ts` and
`packages/shared/src/index.ts`. Where they matter the `main` side is modelled.

## Modules

| Module | Models |
|---|---|
| `IndexLifecycle` | the index life cycle: one action per API operation, per step of the handler and of `onFailure`, per event of the environment |
| `SerialIndexing` | what the lock promises: take, write, publish, abandon, by one attempt at a time |
| `Connections` | repository rows, their connection status, and what users and installation events do to it |
| `GithubDeliveries` | GitHub, external: pull requests, suspensions, archivals and the deliveries that report them |
| `WebhookIngestion` | extends both: one action per await of a webhook request and per step of the sweeper |
| `ReviewRequests` | what ingestion promises: a review is asked for durably, and started at most once |
| `GraphRebuild` | `indexRepository`: every transaction over file, symbol and edge rows |
| `GraphContents` | what a rebuild promises, without rows |
| `InstallationTokens` | the token of one installation: caches, minting, and the plugins that send again |
| `ConditionalReads` | GET requests of one URL through the ETag cache |
| `TarballFetch` | the download of one run, with its redirect, rate limits and sleeps |
| `ArchiveExtraction` | overlapping attempts to extract, read and remove one archive |
| `ParserPool` | runtime, grammars and parsers of one process |
| `RateLimit` | `checkRateLimit` for the key of one caller |
| `Projects` | the projects of one user |
| `IndexingServer` | what the API and the runs make of one repository, as a reader of its status sees it |
| `StatusPoller` | one repository card of the browser, which polls an `IndexingServer` |
| `ImportResolution` | what an import specifier refers to (operators) |
| `Resolution` | a tree that commits change, and the edges of its calls and heritage clauses |
| `MCIndexLifecycle`, `MCWebhookIngestion`, `MCProgress`, `MCComponents` | constants for TLC; `MCProgress` also puts indexing and ingestion under fairness, `MCComponents` sums the ten small components |
| `IndexLifecycleProofs`, `WebhookIngestionProofs`, `GithubClientProofs`, `WorkerProofs`, `RateLimitProofs`, `ProjectsProofs`, `ResolutionProofs`, `GraphRebuildProofs` | the theorems |

Indexing and ingestion meet in the `Repository` row and nowhere else: ingestion reads and
moves `connectionStatus`, indexing `indexStatus` and `indexedCommitSha`, and neither
reads the other's columns, so they are checked apart. `IndexLifecycle` takes for granted what
`GraphContents` promises (its `PersistBegins` and `PersistEnds`), and `GraphRebuild` is shown to
implement it. In the same way `StatusPoller` takes for granted what `IndexingServer` says of a row and its
latest job, and `IndexLifecycle` is shown to implement that. The other components meet through values
only: a token, a body, a tree.

### How IndexLifecycle corresponds to the code

`run[r]` is what Inngest knows of a run: `pc` is the step to execute next, `tries`
the attempts of that step that failed, `job`, `indexed` and `sha` the memoised results of
`create-index-job`, `resolve-target` and `resolve-head-sha`. A run is `queued`, then
`active`; `failing` while `onFailure` executes, which is a separate invocation that
knows only the run id, so the memoised results are gone; a `zombie` if it was
cancelled while a step executes on the worker, in which case that step may still
commit and nothing follows.

A step is one action that commits the step's writes and either delivers its reply
(`Reply`, the run goes on) or loses it (the step is retried although it committed).
`StepThrows` is a step that rejects before it wrote. After `MAX_RETRIES` retries the
run fails. `Faulty` restricts which steps may do both, `Throwing` which may throw though no reply of
theirs is lost, and `MayHappen` which events the environment adds: cancellation by project deletion, timeout, GitHub outages, an
unmoved head (the no-op path), dropped events.

`persisting` is the time during which `indexRepository` has written some rows and
not all. `contents[p]` is the commit the file and graph rows are complete for, and
`Mixed` meanwhile. Two runs that persist at the same time leave either; Inngest's
concurrency limit of two per repository bounds them.

Inngest and GitHub are external: their behaviour is what the code's options
(`retries`, `cancelOn`, `timeouts`, `concurrency`) and its comments rely on.

Abstracted: the `attempts` counter and the progress percentages of a job, error
codes and messages, the 15 minutes a repository must be PENDING before it is swept
(the sweeper may find it at once, which the code calls harmless), the hourly limit of
manual triggers (the runs are finitely many), the sweep of several repositories in one
tick. `findIndexTarget` returning nothing is left out: no code deletes a
repository row. A worker that loses its connection and goes on executing is modelled
only as a zombie.

### How WebhookIngestion corresponds to the code

`request[q]` is one HTTP request past signature, allow-list and rate limit; a delivery
refused by those leaves no trace and is one that was never received. `pc` is the next
await. The requests of one delivery meet at `InsertPending`, the unique delivery id. A
pull request delivery then resolves its tenants once (`Resolve`), upserts their rows one
by one, saves the reviews it asks for in the row's payload, sends them, and marks the
row; push, unreadable and sync deliveries take the shorter paths of `FirstStep`. A request
may die at any await (`RequestDies`), which is also a query that rejects: nothing after it
happens and the row stays as it is.

`late` holds sends given up on after 300 ms or by a dying process. They may still reach Inngest
(`AcceptLate`), which drops events whose id it has seen; of two events under one id in
one send it starts either. The deduplication is modelled as unbounded in time.

A sweep memoises what it found (`sends`, `skips`), sends, and marks. Any step may fail or
lose its reply and is executed once more; after that the sweep is over. Its two-minute
limit is such a failure: the marks of a sweep that goes on after its cancellation are the same marks.

`rows[d].at` is the insertion order and `aged` how many of the oldest rows passed the
one-minute threshold: the only time that matters. `SLOW_REQUESTS` says whether a request may
still be running when its row passes it. It cannot be excluded by the code alone; the
webhook's own timeouts (300 ms for the send) leave two orders of magnitude.

A delivery is a record of what it reports, and `GithubDeliveries` only reports what can
happen on GitHub: no commit is pushed to an archived repository, nothing but the unsuspension
is reported by a suspended installation. Deliveries arrive in any order, or never, or
repeatedly.

Abstracted: one pull request per repository, one repository per
`installation_repositories` delivery (the code loops over them), the text and metadata a
delivery carries, renames (they touch no modelled column), the order in which tenants are
listed. `created` deliveries only refresh an installation's metadata.

### How the smaller components correspond to the code

`GraphRebuild`: one action per transaction or batch of `indexRepository`, on rows with ids of
their own: a file row is replaced in place, a symbol's id is that of its file row and name, edges
have no foreign keys, and deleting a file row cascades to its symbols. A rebuild dies before any
of them; the next starts from what is there. `Tree` and `Source` say what walking, parsing and
resolving a commit yields. Left out: confidences, lines, signatures. Its `alone` records that no
other rebuild was in progress since this one began: with two at once nothing is promised, which is
why `IndexLifecycle` has `Mixed`.

`InstallationTokens`: a token *is* the time at which GitHub stops accepting it, which the code
never knows; what GitHub states is that time by another clock (`SKEWS`), or unreadable. The auth
hook runs once per request, so what the throttling and retry plugins send again carries the same
token. Every await is over within `LATENCY`, by the deadlines that keep time from passing. Redis
may reject a command, executed or not, and lose its data.

`ConditionalReads`: three awaits (look up, ask, store or serve) of requests that meet at one entry,
while the resource changes. The cache key holds the installation and the URL, so two entries never
meet. GitHub is external and answers 304 exactly when the ETag is that of the present body.

`TarballFetch`: the steps of one run until the archive's stream begins. A rate limit is a memoised
result after which the run sleeps; other failures end the run or are thrown. GitHub may limit the
app at any time, with the headers of a primary or a secondary limit, or while minting.

`ArchiveExtraction`: the pipeline (inflate, count bytes, parse the tar) runs at most `READ_AHEAD`
entries ahead of the loop that checks and writes them; then the callback reads the tree twice, and
the finally block removes the directory. An entry is what the loop's checks make of it (`kind`)
and what the filters find in a file (`marks`); the path and classification rules are pure functions
of it. Attempts of one job may overlap, each with its own directory.

`ParserPool`: a promise is `none`, `pending`, `fulfilled` or `rejected`, and what it does between
two awaits is one step.

`RateLimit`: `INCR`, `EXPIRE` and `TTL` of the key of a window, each an await that may be rejected or
after which the process may die. `lost` are the windows whose counter Redis forgot while requests
of them were to be counted.

`Projects`: a slug is a word with numeric suffixes, because a name may derive one that looks like
another's ("API 3" and the third "API"). Create inserts, and
after a unique violation reads the slugs with its prefix and inserts once more; delete announces if its conditional update
changed a row; a listing follows its cursors. `due` and `cut` are history variables: what a listing
owes its client (the projects there were when it began, but those deleted since), and the cursors it
sent whose project was deleted by then. Numbers that JavaScript cannot count on begin at `SAFE`.

`StatusPoller`: the query of one card (poll, refocus, retries, the last answer kept on an error), its
retry button. It extends `IndexingServer`, the part of `IndexLifecycle` that `getIndexStatus` reads, for
one repository: its row, the status of its latest job, and what the run of that job made of the row
(`result`), which the job is told only later. Requests of other users and of the sweeper reach it at
any time, and the card may be opened in any state of it.

`ImportResolution` and `Resolution`: a path is a sequence of segments `<<stem, extension>>`, and a
`*` stands at the end of a key or target. `resolveImport` is the ladder of the code: relative,
aliases and base directory of the nearest tsconfig, Node's modules, packages of the workspace with
exports and entry points, `#` names, external packages. `resolveUse` covers calls and heritage clauses (`HERITAGE_KINDS`):
the same file, a named import, the only candidate of the package, a bounded guess. An edge carries its
rule and the number of candidates, from which the code computes the confidence. `tree` is what a
commit holds; a step adds, changes or removes one file. Manifests are constants.

## Runs

| Run | Expect | Question |
|---|---|---|
| `lock` | pass | Is a repository indexed by one run at a time, are only complete rows published, and does the life cycle implement `SerialIndexing`, when every step under the lock may fail or lose its reply, marking a repository may fail, GitHub goes down, and runs are cancelled or time out? |
| `live` | pass | With the real bounds (3 retries, 5 rate-limit waits), are dropped requests healed, does every index end, has every lock an owner, do terminal jobs stay terminal, does `getIndexStatus` agree with the repository, and does each repository implement `IndexingServer`? And is every recorded delivery settled, with sweeps of one row that may fail? |
| `noop` | violation | Is a run refused only while another one is in flight? No: the no-op path leaves the repository INDEXING. |
| `unlock` | violation | Is there one indexer when the last event of a run fails? No: `onFailure` releases a lock its run no longer has. |
| `outage` | violation | Is a GitHub outage retried? No: the failure is a memoised result. |
| `silent` | violation | Does "already indexed" mean complete rows? No: not after a failed rebuild, when the branch moves back. |
| `ingest` | pass | With two tenants, two concurrent requests, redelivery, requests that die, late sends and sweeps: is a row's status honest, does a settled row stay settled, does every started review have its PullRequest row, is each started at most once and only when asked for, and does a disconnect survive every delivery? |
| `archived` | violation | Is an archived repository not ACTIVE once its deliveries were applied in order? No: unsuspending the installation restores it. |
| `components` | pass | For each of the ten smaller components: do rebuilds implement `GraphContents` and end; are tokens live whenever sent; are reads fresh; does a poller catch up; do limits hold and waits suffice; do creates conflict only in races and listings lose nothing but behind deleted cursors; are grammars loaded once and parses ended; are trees whole, checked and removed; are downloads delayed as asked; do imports and uses follow their files? |
| `reset` | violation | Is a rate-limited download asked for again only after the limit resets? No: an absent `retry-after` reads as 0. |
| `imports` | violation | Does every import of a file get a row? No: the unique key of edges takes all imports that lead to no file for one. |
| `listing` | violation | Is the last page of a listing never empty while a project is missing? No: behind a cursor that was deleted one project is skipped. |

Bounds. `lock` has one repository, because no action relates two, three runs, the
fewest with which a released lock is retaken while the first run is still failing, and
two commits, so that an old and a new one can be mixed; one retry is enough for a
step to be repeated after it committed. The steps of `onFailure` that settle the job do not fail in
it: nothing that `lock` asks depends on them, and the theorems cover them. It has symmetric runs and commits. `live` has
two runs, one to be dropped or refused, without symmetry. It is a sum, like `components` below: a
behaviour is one of indexing or one of webhook ingestion, which share no variable in it; for the latter it
has one tenant, two commits, two deliveries that open, push to or close the pull request or are unreadable, and
batches of one row, so that a row which cannot be sent stands before one that can. `unlock` needs four runs: one
that publishes and fails late, two that overlap, one in reserve. Runs are used
once, so the model stops when all have ended: deadlock is not checked.

`ingest` has the fewest tenants, requests and deliveries with which an event id may clash,
one delivery is handled twice at once, and two deliveries overlap or swap: two of each. One
batch slot makes the sweeper leave rows behind. `GithubMay` is every installation and
repository action with three pull request actions, to which `live` adds `synchronize`; the theorems are
for every `GithubMay`. `archived` needs three deliveries.
Deadlock is not checked, because the bounded deliveries run out.

`components` runs a sum: `active` is chosen initially, that component moves and the others keep
their initial state (one each, `OneHome`). It has the states of each component and not of their
product, which would show nothing more, since they share no variable. Per component:

- graph: two rebuilds, so that one starts from what another left, or overlaps it; two commits of
  which one loses a file and breaks another; statements of one row, hence a crash between any two.
- tokens: two requests of one process, so that one uses what the other cached; `HORIZON` 6 with
  `LIFETIME` 7 is the shortest history in which a token cached too long is sent dead. The clock of
  GitHub is ahead or behind; `TenMinutesAreEnough` holds with equality.
- reads: two requests, each repeated, two bodies: a slow one stores an older entry.
- rates: limit 1, window 2, two requests, two windows: at a boundary both are busy.
- projects: two clients, two names that collide through a suffix, three rows, pages of one
  row, and numbers up to 4, so that suffixes run out.
- pool: three parses of two languages: one shares a load, one does not.
- fetch: two sleeps, one retry of a step, limits of one or two seconds.
- extraction: two attempts, nine archives of at most three entries: every bucket of the
  filters, and each cap exceeded alone.
- resolution: five files in two packages with an alias, an exports pattern and a `#` name; ten
  specifiers that use every rule; at most two guesses, of the code's three.
- poller: one repository, one retry of a fetch.

`reset` uses the instance of `fetch`, `imports` that of `graph`, in which a file imports a package and a missing
file, and `listing` that of `projects`. Deadlock is not checked in any of them, because requests are used once.

Fairness. Inngest executes and retries every run it accepted (weak fairness of
`RunStep(r)`), and the sweeper's cron keeps firing (weak fairness of `SweepStale(p)`).
Users, GitHub, cancellations and timeouts are not fair. `PendingIsHealed` relies
on the sweeper only: `connectRepository` may lose its request. `IndexingEnds` is
checked without cancellations, timeouts and no-ops, each of which leaves the
repository INDEXING in the code: see the hazards in `PROJECT.json`.
`EveryRowSettles` assumes that requests go on or die, that time passes, that the cron fires (weak
fairness) and that Inngest and the database answer a sweep again and again (strong
fairness of `SweepSends` and `SweepMarks`): each step may fail any number of times, not for ever.

In `components` it is enough that *some* rebuild, load, parse or attempt goes on (weak fairness of
their disjunction), because each has finitely many steps. Inngest executes a step that threw
again, promises settle, and a stalled stream is ended by undici's default timeouts of 300 s for
headers and body, with which the extraction goes on to its finally block. `StaleProgressGoes` assumes
that timers fire, that the indexing goes on (weak fairness of `Poll` and `Serve`), and that the
API answers a poller again and again (strong fairness of `ServerAnswers` and `Deliver`): a
fetch may fail any number of times. Retries by users and the visibility of the tab are not fair.

## Proofs

For every set of repositories, runs and commits, and all retry bounds:

- `TypeCorrect`: the type invariant. `RunShape` is its strengthening: an executing
  run that has a job refers to an existing row, and knows its commit from the step at
  which it resolved it.
- `OneIndexerAlways`, `PublishedAlwaysComplete`, `LifecycleImplementsSerial`, under
  `LockStepsReliable`: the steps that move the lock (acquire, mark-indexed, mark-failed) lose no
  reply, and acquire and the steps after the release of the lock do not throw either. Every other
  step may, and marking a repository may throw. The assumption is necessary: the run
  `unlock` shows two runs indexing at once without it.

The invariant `IInv` adds to the types and shapes: an *owner* (a run between acquiring
and releasing, or whose `onFailure` has not marked the repository yet) has its
repository INDEXING and is its only owner (`LockInv`); whoever persists is alone, and what
it completed stays until published (`ContentsInv`). `OneIndexer` alone is not
inductive: `onFailure` would release a lock that is not its run's. The proof shows for
each action that it makes no *claim* its run had not made before (`NoMoreClaims`), and
treats the five actions that do one by one; the same lemmas say which action of
`SerialIndexing` each is.

- `LocksAlwaysHaveOwners` and `RefusalsMeanInFlight`, under `LockGoesOn`: moreover marking a repository
  as failed does not throw, and runs are not cancelled, do not time out and find the head moved.
  `OwnerInv` says that every INDEXING repository has an owner; each step of a run hands the lock on
  or gives it back (`HandsOn`). Steps that create, find or fail a job may be repeated. A run that is
  cancelled or times out, a no-op, and an onFailure that fails leave the lock to nobody.
- `TerminalJobsAlwaysStay`, under `SettlesOnce`: the two steps that mark a job as succeeded lose no
  reply, and the last step, which sends an event, neither fails nor loses its reply. Nothing is
  assumed of the lock, and runs are cancelled and time out. `SettledInv`: whoever
  still may settle a job is the run that created it, which either has ended, or is past settling it,
  or settles it again as it was (`LeavesAlone`). Without the assumption a run that succeeded
  is retried until it fails, and onFailure turns its SUCCEEDED job into a FAILED one.
- `NoOpsAreComplete`, under `RebuildsComplete`: `LockStepsReliable`, and no step from the fetch to
  mark-repository-indexed fails, loses its reply or throws; runs may still be cancelled or time out. It is
  what the run `silent` refutes without the assumption, so what the finding needs is a rebuild that began
  and failed. `NoOpInv`: the rows of a repository that is not INDEXING are those of indexedCommitSha, as they
  are while its owner is not rebuilding, and a run that compares the head with indexedCommitSha holds its value
  of now. A run that is stopped in the middle leaves the repository INDEXING, which no run gets past.
- `RunsAlwaysWindDown`, under no assumption at all: the *fuel* of a run, a natural number whose digits are
  the step it is at, the rate-limit waits, the steps and the tries it has left, is lowered by every step of
  that run and raised by nothing. However runs overlap, throw, lose replies, are cancelled or time
  out, each of them takes at most `Fuel(Unused)` steps: the safety half of `IndexingEnds`.
- `JobsAlwaysStayWithTheirRuns`, under no assumption either: an IndexJob row stays, and only the
  run that created it writes it, at the steps of its own that record something, for its own repository. `TracedInv`: the
  job a run carries in its memory (`Carries`) is one it created, and `findByInngestRunId` finds no other; it
  survives replies that are lost, steps executed twice and two owners of one lock. A `findJobForFailure` that
  took the latest job of the repository would break it.
- `ApiStatusAlwaysAgrees` and the refinement `LifecycleImplementsServer`, under `RunsGoOn`: `LockGoesOn`, and
  the steps that create a job and those of `onFailure` execute once. These are the bounds of the run
  `live`; the runs `unlock` and `noop` show what goes wrong outside them.

The invariant of the last two, `JobInv`, relates each job row to its run. A run has no job before
create-index-job and one afterwards, RUNNING until the run settles it, and the latest of its
repository while the run holds the lock (`JobShape`). The latest job of an INDEXED (FAILED)
repository has succeeded (failed) or is about to, and an INDEXING one has an owner
(`JobsAgree`). Every move changes or adds rows of one run only (`OnlyMoves`), so the other runs keep
theirs; what is left is that run's record and its repository. For the refinement a step is one of six
moves (`RunMoves`); `ServeInv` adds that a run that ended has settled its jobs, so that what is served
of a repository changes only by a move of the run of its latest job, or of its row's owner.

For every set of tenants, projects, commits and requests, and any number of deliveries:

- `TypeCorrect`, `ReviewsHavePullRequests`, `DisconnectsStay`, and
  `IngestionImplementsReviewRequests`, with no assumption on timing: exactly-once starts
  rest on the event ids and on saving the payload before the first send, not on the threshold.
- `DispatchedReviewsAlwaysStarted` and `RowsAlwaysKeepTheirReviews`, which no run checks, without that
  assumption either: a row shown as DISPATCHED asks for reviews that were each started exactly once, and
  no redelivery, sweep or late request replaces them. With the mutant below: of the statuses a slow
  request spoils only IGNORED and FAILED.
- `ReviewsAreAlwaysRouted` and `PullRequestsAreReported`, without it too: what Inngest is asked to start
  was asked for by a recorded delivery of that repository, at the head it named; and a PullRequest row is
  what one recorded delivery of its repository said. That delivery may be an older one, which is the hazard of
  `pull-request.repository.ts:42`, but the row never mixes two or takes another repository's.
- `QueueAlwaysAdvances`, `BacklogsAreSeen`, `RequestsAlwaysWindDown` and `SweepsAlwaysWindDown`, without it
  too: what `EveryRowSettles` needs besides fairness. Requests and sweeps go on for a bounded number of
  steps; a sweep's batch is empty only if no row is old enough; each sweep takes every such row or one that is
  ahead of it, and when it ends none of those waits any more, those it could not send included; and no row
  ever gets in before a waiting one.
- `StatusesAreHonest` and `SettledRowsStaySettled`, if no request outlives the sweeper's
  threshold (`SLOW_REQUESTS = FALSE`). They need it: in the mutant that drops it from `Age`
  the sweeper fails a row whose request then marks it DISPATCHED.

The invariant: past the dedup gate a request *owns* its delivery's row, alone
(`OwnerInv`); the row's payload is empty until it is saved and what is sent afterwards
(`PayloadInv`); Inngest has started exactly the ids it has seen and nothing no row asks for
(`InngestInv`); a sweep that marks has been accepted (`SweepInv`); every review asked for
has its PullRequest row (`PullRequestInv`). `RoutingInv`: what a request holds and what is saved in a row was
routed from that row's own delivery. `QueueInv`: rows are numbered in the order of insertion and the rows a
sweep has marked do not wait; the oldest of a set of rows exists by well-foundedness. `created` is the number of inserted rows, which
bounds it. `TimedInv` adds that owned rows are PENDING and younger than the threshold,
while the sweep's are older, so that the two never settle one row.

For every number of requests and processes, and all clock differences, lifetimes and retry
bounds with `TenMinutesAreEnough` (`HOLD + 2 * LATENCY <= LIFETIME - CACHE_TTL`; in the code, what
a request may spend waiting must fit in the ten minutes between 50 and 60):

- `TokensAreLive`. `TokenInv`: a cached token outlives its entry by `HOLD` (`Outlives`), and a
  request's token outlives its deadline by what its remaining retries may still add (`Reserve`).
  The assumption is the design's: nothing in the code checks it.
- `ReadsStayFresh`: an entry's ETag is that of its data, and a request in flight still has
  the entry whose ETag it sent (`ReadInv`).
- `TarballsWaitAsAsked`: a run that was told how long to wait sleeps at least until then
  (`FetchInv`). For primary limits it is false, which the run `reset` shows.
- `CallsAlwaysWindDown` and `DownloadsAlwaysWindDown`, which no run checks and which need no
  assumption: retries of retries come to an end. A request reaches a later stage or has fewer retries left, of the
  mint, the throttle or the retry plugin. A download nests its awaits in the executions of its step, and
  these in the sleeps over rate limits: `DownloadFuel` is a number with these digits, and every
  step lowers it (`ExecutionsDrop`, `AwaitsDrop`).

For every set of requests, limit and window: `WindowsKeepTheirLimit`, `RefusalsAreOfTheWindow` and
`WaitingSuffices`. `RateInv`: a count is never more than the requests counted in its window
(`Counts`); in a window that lost nothing no two requests got one count, and the counter stays above
them until the window is closed (`Distinct`); no key expires before its window ends (`Times`).
`BoundariesLetTwiceThrough` follows: any `WINDOW` seconds lie in two windows, so at most `2 * LIMIT`
requests that arrive in them are allowed, the imprecision that the comment on `checkRateLimit` accepts.

For every archive but the empty one, and every cap: `TreesAreWhole` and `ReadArchivesAreChecked`
(`ExtractionInv`: what is on disk is what the loop has dealt with, and the loop only takes what
passed the byte counter); `PoolLoadsOnce`. What the liveness of both rests on is proved too.
Nothing waits for ever: while an archive is extracted the stream may go on, or the loop may, or one has
failed (`ExtractionsAreNeverStuck`); a parse that awaits has a promise in its chain that is settled, or is
being settled (`CallsAreNeverStuck`, from `AwaitedInv`: nobody awaits a promise that was not made). And
nothing goes on for ever: every step of an attempt reaches a later phase or leaves fewer entries, files to walk
or files to parse, and no overlapping attempt sets it back (`AttemptsAlwaysWindDown`); promises settle
once (`PromisesAlwaysSettleOnce`).

For every set of clients and names, and every page size: `ConflictsAreRaces`,
`DeletionsAreAnnouncedOnce` and `ListingsLoseOnlyByCursors`.
`ProjectInv` contains `StillFree`: the slug a second attempt found free stays so but for what others
inserted since. That it was free needs the greatest suffix, whose existence comes from
well-foundedness in its set form (`Greatest`). `ListingInv`: the pages a client has got fall, and hold
what it is due from its cursor on, unless a deleted cursor made it skip that (`Begun`, `Skipped`).
`DescendingLists` gives the order of a page's rows by the pigeonhole principle: ranks are one to one.

For all manifests, files and specifiers: `ImportsAreStable`, `UsesAreStable` and `PackagesAgree`.
Two trees are compared rule by rule: if the first hit of a list of candidates differs, the old hit
is gone or the new one has come (`FirstHitMoves`); so does every rule of the ladder inherit it
(`AliasMoves`, `EntryPointMoves`, `ImportMoves`). `UsesAreStable` then follows because
what a use reads of the tree is the same before and after (`SameUse`). `TreeInv` only says that
files hold what they may hold.

For all commits, batch sizes and any number of overlapping and dying rebuilds: `GraphTypes`,
`FreshEdges` and the refinement `RebuildsGraphContents`. `AloneInv`: a rebuild that is in progress and was
never overlapped is the only one in progress, and the rows are what its next step needs (`Stage`: `Filed`
paths have their row, then the tree is `Swept`, ids `ReadBack`, symbols `Inserted`, edges `Linked`
by identity with those pending, rows `Described`). Whatever an earlier rebuild left is gone by the
step that relies on it, so `Stage` says nothing of it. `GraphIds` only says that `NoRow` is no row.
`RebuildsAlwaysWindDown` is the safety half of `RebuildsEnd`: each transaction takes its rebuild to a
later phase, or in the same phase has fewer rows left to write, and no other rebuild sets it back.
It needs that the parse batches of a rebuild in progress are never empty (`BatchInv`).

Every safety property of the passing runs is proved, some under the assumptions above. Only
model-checked: the liveness properties (`PendingIsHealed`, `IndexingEnds`, `EveryRowSettles`,
`RebuildsEnd`, `StaleProgressGoes`, `ParsesEnd`, `DirectoriesGo`): they need fairness
and ENABLED. Of `IndexingEnds`, `EveryRowSettles`, `RebuildsEnd`, `ParsesEnd` and `DirectoriesGo` the part that is
not about fairness, that no run, request, sweep, rebuild, call or attempt goes on for ever, is proved above. Refuted: the properties of the
violation runs, each a finding in `PROJECT.json`; `NoOpOnlyWhenComplete` among them is proved under the
assumption that the finding is about.

## Not modelled

- The App's JWT, pagination and the parsing of GitHub's responses.
- The discovery of manifests and the merging of `extends` chains; the language adapters that turn
  a syntax tree into symbols, imports and uses (`Source` and `MayHold` stand for their results).
- The page-load sync that creates `GithubInstallation` rows; how connect finds an installation.
- Updates of columns without consequences, the tenancy guard's reads, which leave no state,
  authentication, and the read-only endpoints but `getIndexStatus`.
- The web application but its poller: forms and renderings of the API's answers.
- Prisma's generated client (about 26,700 lines) and the vendored user-interface components (about
  7,900), more than half of the repository's code: they hold no logic of this program. The models
  cover a correspondingly small share of its lines.

What the code is known to do and no property excludes is listed as a hazard with a note, or in a
comment where it is modelled: the lost reply of acquire-lock; a status API that reports
`SUCCEEDED`, which the poller does not take for final, so that it polls on; a repository that was disconnected can
never be connected to its project again, though `repository.service.ts:735` speaks of a disconnect the
user may reverse; the lost reply of create-index-job, after which a job stays RUNNING for ever or the run
fails; a rejected grammar promise stays memoised for the life of the process;
bare calls are resolved to methods of other classes, against the comment at
`call-resolver.ts:60-62`; names with dots, and an index file at the root, are resolved wrongly
(`import-resolver.ts:93-105`).

## Plan

1. `ConnectionSync`: the page-load sync against the installation deliveries.
2. Manifests: discovery, and `extends` chains with cycles.
3. Several repositories per delivery, which the code loops over.
