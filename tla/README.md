# Release Control: verification project

TLA+ models, TLC runs and TLAPS proofs for the release workflow service in
`src/` (FastAPI, SQLAlchemy on PostgreSQL, Celery worker). Paths below are
relative to `src/`; `PROJECT.json` maps each definition to its lines.

## 1. Inventory

| Component | State | Operations | Correct when |
| --- | --- | --- | --- |
| Release workflow: `app/services/releases.py`, `app/api/v1/releases.py`, `app/models/release.py` | `releases`, `release_approvals` | submit, approve, reject, schedule, deploy, complete, fail, rollback, cancel | statuses move along the state machine only, whatever races; the approval gate cannot be bypassed; nothing deploys early |
| Scheduler task: `app/worker.py:37-74` | none of its own | every 15 s: lock a batch of due releases, start their deployments | every due release is activated, none twice |
| Domain events: `app/services/events.py` | `audit_events`, `outbox_events` | `record_domain_event` | one audit row and one outbox row per change, in the transaction of the change |
| Outbox publisher: `app/worker.py:77-161` | `outbox_events`, `webhook_deliveries` | every 10 s: lock a batch of pending events, POST each to the endpoints, record deliveries and outcome | published means received; bounded retries; every event settles; exact delivery history |
| Webhook endpoints: `app/api/v1/webhooks.py`, `app/services/webhooks.py` | `webhook_endpoints` | create, list, delete (cascades to deliveries), `event_matches`, signing | deletion and publishing do not corrupt one another |
| Release creation: `create_release` | `releases` | look up the key, check project and environment, look up the version, insert | one key, one release; one version, one release; true answers |
| Projects, environments: `app/services/projects.py` | `projects`, `environments` | create, list | unique slugs and names, under races |
| Users: `app/api/v1/auth.py`, `app/api/deps.py` | `users` | register, create, login | unique emails in any spelling; nobody has a role that no admin gave |
| Start: `app/cli.py`, `alembic/`, `scripts/entrypoint.sh`, `docker-compose.yml` | the schema, the admin's account | migrate, bootstrap, serve, die, start again | nothing serves before schema and admin are there; a launch succeeds |
| Session: `app/db/session.py`, `app/db/base.py` | connections of the pool, identity map, transaction | begin, flush, commit, rollback, reload (`expire_on_commit=False`) | an answer shows the request's own commit; the pool is never stuck |
| Dashboard: `app/static/app.js` | one page's selection and lists | refreshes, transitions | the lists belong to the selected project; the buttons offered are allowed |
| Wiring: `app/main.py`, `app/core`, schemas | settings | health checks, validation | not modelled |

**Interaction.** API processes and Celery workers share nothing but the
database. A request is one transaction, opened when `get_current_user` reads the
user; the service function reads the release `FOR UPDATE`; `_commit_and_reload`
commits. The scheduler is another writer of the same rows. The API hands events
to the publisher through `outbox_events`; the publisher and the deletion of
endpoints meet in a foreign key. Redis carries only the ticks of Celery Beat.

**Hard behaviours.** Requests and workers racing for one row, with two lines of
defence (`FOR UPDATE`, `lock_version`) of which SQLite, the database of the
tests, has only the second; batches with `SKIP LOCKED` and `LIMIT`; POSTs that
cannot be undone inside transactions that can; crashes between POST and commit;
check-then-insert under unique constraints; `now()` being the time a
transaction began; answers made of objects of an earlier transaction; containers
that install the same database at once; a page whose handlers overlap. The list
with lines is under `hazards` in `PROJECT.json`.

## 2. Modules

```
ReleaseLifecycle          what is promised about a release's status
   ^ implemented by
ReleaseWorkflow           requests, scheduler, transactions, rows, events
   ^ ReleaseWorkflow_proofs  <-  ReleaseWorkflowSafety_proofs
   ^ MCReleaseWorkflow       (WorkflowLocked, WorkflowVersioned, Scheduler,
                              HistoryOrder .cfg)
OutboxDelivery            what is promised to the receivers of webhooks
   ^ implemented by
OutboxPublisher           publisher runs, receivers, endpoints, crashes
   ^ OutboxPublisher_proofs  <-  OutboxPublisherSafety_proofs
   ^ MCOutboxPublisher       (PublisherBatch, PublisherOverlap,
                              RetriesExceeded .cfg)
ReleaseCreation           racing POST /releases
   ^ ReleaseCreation_proofs
   ^ MCReleaseCreation       (Creation, RepeatedKey .cfg)
UniqueNames               what is promised to those who ask for a name
   ^ implemented by
Directory                 racing POSTs of users, projects and environments
Startup                   containers that migrate, bootstrap and serve
   ^ composed, on one table of users, in
Service                   the requests in the containers
   ^ Service_proofs
   ^ MCService               (Service .cfg)
RequestSession            pool, row lock, objects and reload of a session
                             (Session .cfg)
   ^ RequestSession_proofs
Dashboard                 one page and the service, on ReleaseLifecycle
   ^ Dashboard_proofs
   ^ MCDashboard             (Dashboard .cfg)
```

Some definitions carry a comment `fault:`. They are what a plausible bug would
make of the definition after them; no specification uses them. Each property
was checked to fail when its fault takes the place of the definition
(`mutants` in `PROJECT.json`).

### ReleaseWorkflow

| Model | Code |
| --- | --- |
| `row[r]` | a row of `releases`: status, scheduled_at, deployed_at, approved_by, lock_version |
| `approvals[r]` | `release_approvals` as (reviewer, decision) pairs |
| `audit[r]`, `outbox[r]` | `audit_events` and `outbox_events` of the release in commit order, with `created_at` |
| `txn[p]` | the transaction and the session of a request or a worker run: its user, the time it began, and per release what was read (`seen`) and what the flush will write (`new`, `action`) |
| `now` | the clock |
| `Begin` | `get_current_user`: starts the transaction |
| `SubmitRelease` ... `CancelRelease` | the service function of that name: load, guards in the code's order of effect, assignments and `_record_release_transition`, kept in the session |
| `SelectDue` | the query and the loop of `_activate_due_releases` |
| `Commit` | flush and commit: all rows of the session at once |
| `StaleDataError` | the flush whose `WHERE lock_version = ...` matches no row |
| `Abort` | a refusal by a guard, a lost client, a crash: rollback |

A service function's step takes the lock; the commit is a later step, so that
every other process can act in between. `RowLocks` chooses the database: TRUE is
PostgreSQL, FALSE one that ignores `FOR UPDATE`. Comments, payload texts and the
rows of other entities are abstracted. Roles, creators and
`requires_approval` are constants: no operation of the service changes them.
The code has two orders of the role check and the load (`review_release` checks
the role first); a refused request writes nothing in either, so the model has
one guard.

### OutboxPublisher

| Model | Code |
| --- | --- |
| `event[v]` | status and attempts of an outbox row; `absent` before its transaction commits |
| `endpoint[e]`, `deliveries` | `webhook_endpoints`, `webhook_deliveries` |
| `run[p]` | one run of `_publish_outbox_events`: locked batch, events left, endpoints left, and the session (outcomes, deliveries added, deliveries flushed) |
| `posts`, `acked`, `audience` | what the world saw: POSTs per receiver, 2xx answers, endpoints there when the event was stored; not kept by the program |
| `SelectEvents` | the `FOR UPDATE SKIP LOCKED` query, oldest first, with its limit |
| `SelectEndpoints` | the query of `_publish_event`, which autoflushes first |
| `Post` | one endpoint of the loop, with its `except httpx.HTTPError` |
| `FinishEvent`, `CommitRun` | `app/worker.py:155-160`, `:98` |
| `IntegrityError` | the flush of a delivery whose endpoint is gone |
| `Crash` | the worker dies, or a POST raises what is no `httpx.HTTPError` and ends the task; at most `MaxCrashes` times |
| `Emit`, `CreateWebhook`, `DeleteWebhook` | the API's transactions |

`attempt` of a delivery row is not a column: it tells rows of different attempts
apart. A failed POST stands for any status other than 2xx and for no answer,
whatever the receiver made of the request. `Matches` stands for project,
`is_active` (no operation clears it) and `event_matches`.

### ReleaseCreation

One action per statement of `create_release`, for each of the racing requests;
`table` is the committed part of `releases` in one project. The insert is two
steps, one for each unique index, in the order in which the migration makes them
(`NextIndex`): it waits while another request has an uncommitted entry equal to
its own there (`Blocks`), fails with `IntegrityError` (answered 500, as
`app/main.py` handles `DomainError` only) on a row that is committed (`Clash`),
and otherwise has an entry of its own (`holds`), which others wait for while it
waits in the second index. The end of the session, whichever it is, clears
`holds`. There is no deadlock detector in the model; `NoDeadlock` says that none
is needed. `original` is a history variable. An answer that is lost on its way is
an answer in the model; the client's retry is another request with the same key.
The project is one that exists, so that the 404 for another (`CheckProject`) is
left out. `rows` tells a row that was there when the request arrived from one that
came in a race.

### OutboxDelivery

`OutboxDelivery` sees only what is committed and what receivers acknowledge:
`Receive` needs a pending event and `Settle` a delivered one.
`OutboxPublisher!Promise` maps `fate` to the committed status, `listening` to
the endpoints, `owed` to the audience and `received` to the acknowledged pairs;
every step of a run other than a POST and a commit is a stutter.

### Directory

| Model | Code |
| --- | --- |
| `row[n]` | the committed row of the unique name `n` in `users`, `projects` or `environments`: which request made it, for whom, with which role |
| `history` | the names in `audit_events` and `outbox_events` |
| `request[q]` | one request: the statement it is about to run, its user, name, role and answer |
| `Register`, `CreateUser`, `PostProject`, `PostEnvironment` | arrival at the handler of that name |
| `Guard` | `require_roles`; `get_project` and `require_project_manager` |
| `LookUp`, `Insert`, `Commit`, `Refresh` | the statements the four handlers share |

The name of an environment is the pair of slug and name, its unique constraint.
`Key` is `email.lower()`. `Claims` maps a request to a claim that is open, won or
lost, and a row to its holder. The winner of `UniqueNames` is decided at the
commit, which is why `MustWait` matters: without it two requests have won.

### RequestSession

One request: connection, row `FOR UPDATE`, approvals, commit, connection again,
reload. A transition is a version, and what the session keeps of a column is
the version it is of: `status` for what the reload leaves alone, `updated_at`
for what the `UPDATE` has expired (`onupdate=func.now()`). `Connections` counts
those that are inside a transaction.

### Startup and Service

Those of `installers` run `alembic upgrade head` and `bootstrap-admin`, those of
`servers` the API. In the image each container is both; in docker-compose they
are disjoint and `MayStart` is `service_completed_successfully` (the worker and
beat start as the API does and take no requests). The migration is one
transaction (`alembic/env.py:34`); the second to create a table waits for the
first and fails (`table_exists`), or finds the version when it begins later.
`set -eu` ends a container whose command fails.

`Service` puts both on one database. `Startup`'s account of the bootstrap is
`Directory`'s row `row[Root]`, so that `Service!Run` is a step of a container that
may write a row of `users`, and `Register` and `CreateUser` may ask for the same
address. Requests arrive only while a container serves; `Crash` ends those that
the container was serving, all of them when it was the last. The database is new,
or has the admin and a project. `Directory` and `Startup` have no specification
of their own; that of `Service` runs every action of both.

### Dashboard

| Model | Code |
| --- | --- |
| `page` | the variable `state`, and what is rendered: the project of the environments, of the cards and of the audit list, and the user the cards were rendered for |
| `fetch[f]` | a request in flight and the handler that awaits it |
| `status`, `stored` | the service: `ReleaseLifecycle` and the releases there are |
| `Login` ... `ReleaseForm` | clicks: the part of a handler before its first `await` |
| `Serve`, `Expire`, `Break` | the answer of the service, a 401, no answer |
| `OnToken` ... `OnForm`, `OnError` | the part of a handler after an `await`, up to the next |
| `Elsewhere` | other users and the scheduler |

`Promise.all` of two queries of one project is one request. `Verdicts` has the
guards of the service functions in their order; which statuses an action expects
is `Expected` of `ReleaseLifecycle`. `setting` never changes: who
uses the page, with how many requests in flight, and whether they wait for every
answer (`patient`) over a network that loses none, with a token that does not
expire (`reliable`). The page starts without a token or, as after an earlier visit,
with one and the request for its user on its way (`Remembered`).

## 3. Runs

| Run | Checks | Instance |
| --- | --- | --- |
| `WorkflowLocked` | `TypeOK`, `ApprovalGate`, `GateInv`, `LockInv`, `LockedRowIsCurrent`, `NeverEarly` | PostgreSQL; reviewer who is the creator and admin; 1 gated release; 2 requests, 1 worker; times 0..2; resubmissions below version 4 |
| `WorkflowVersioned` | `WorkflowInv`, `HistoryComplete`, `ImplementsLifecycle` | SQLite; the same with times 0..1 |
| `Scheduler` | `ScheduledIsActivated` | 2 ungated releases, 1 admin, 1 request, 2 workers, batch limit 1, times 0..2, fairness |
| `PublisherBatch` | `TypeOK`, `PublishedWasReceived`, `DeliveryHistoryExact`, `GivenUpInTheEnd`, `RetriesBounded` | 1 run at a time, 2 events, 2 endpoints, batch of 2, 2 attempts, 1 crash |
| `PublisherOverlap` | `OneRunAtATime`, `EventsSettle`, `ImplementsDelivery` | 2 runs, 2 events, 1 endpoint, batch of 1, 2 attempts, 1 crash, fairness |
| `Creation` | `TypeOK`, `KeyNamesOneRelease`, `LateRetryIsReplayed`, `AnswersAreTrue`, `FailsOnlyInRaces`, `NoDeadlock`, `RequestsEnd` | 3 requests; a key, an empty key, no key; 2 known targets, 1 unknown; a manager who asks for any, another user for one; fairness |
| `Service` | `TypeOK`, `AnswersAreTrue`, `HistoryExact`, `AuthorityIsGranted`, `ServingIsReady`, `ImplementsClaims`, `LaunchSucceeds` | 2 containers, of the image or of compose, 1 death; 2 requests of any kind, one address in 2 spellings and the admin's, 1 project, 1 environment; a new database or one in use; fairness |
| `Session` | `TypeOK`, `AnswerIsOwnCommit`, `ReadsMissNothing`, `PoolIsNeverStuck` | 3 requests of any kind, 2 connections, fairness |
| `Dashboard` | `RefusedOnlyWhenStale`, `NothingWithheld`, `PageIsOfSelected`, `SignedOutIsHidden` | 3 settings, all properties in each (the last two are conditioned on the setting). `Buttons`: a user of each role, 1 project, 1 gated release made by the form, 1 request in flight, everything can fail. `PatientUser`: 2 users, 2 projects, 1 release, 1 request in flight, nothing fails. `SignOut`: 2 users, 2 requests in flight, nothing fails. Fairness |
| `HistoryOrder`, `RetriesExceeded`, `RepeatedKey` | one statement of the README each, violated | see section 5 |

**Why the bounds are enough.** Two requests and a worker give every pair of
racing writers and a third that has read in between, which is what a stale
session needs. `ResubmitBound` 4 lets a release be submitted, rejected and
submitted again before it is approved, so that an approval could be stale; times
0..2 have a moment before, at and after the scheduled one. A batch limit of one
is the case in which the limit leaves something out; two events in one batch are
what one rollback can take back. Two attempts have a failure that is retried and
one that is final. Three requests to create are an original, a copy that races
with it and one that comes later; and three are enough for one to wait for
another that waits for a third, while two would do for a circle (each holds the
entry that the other needs), which they form as soon as the two indexes are not
entered in one order. Two requests of `Service` race for an
environment of the project that is there, or for one address, or are a user who
registers and then asks for what she may not have; two containers install at
once, or one dies while the other goes on. Three sessions on two connections
have one that holds the row, one that waits for it and one without a connection.
One request in flight is enough for the buttons: what makes a card stale are
`Elsewhere` and another login, which happen meanwhile; overlapping handlers are
the subject of `SignOut`, with two. `MaxTime`, `ResubmitBound`, `MaxCrashes`,
`Asked` (the roles or the releases that requests ask for), `Fetches` and
`Settings` are the bounds of the models; the proofs hold for every value of
them.

`CHECK_DEADLOCK FALSE` stands where the system may stop: all releases in a final
state, all events settled, all requests answered, nobody clicks. No symmetry is
used where liveness is checked.

**Fairness.** `Scheduler`: time passes; a request that has loaded a row ends
(its client cannot hold the transaction open: nothing is awaited from it);
Celery Beat sends the task for ever, so a run that finds an unlocked due release
again and again takes one (strong fairness: a request may lock and unlock the
row between two runs), and not every run dies before its commit. No client has
to send anything, so that a release scheduled by nobody is not claimed to move.
`PublisherOverlap`: runs start again and come to their end (POSTs have a
timeout); only `MaxCrashes` die; receivers need not ever answer 2xx. An endpoint
whose POST raises something other than an `httpx.HTTPError` every time is a crash
in every run, and outside of what `EventsSettle` says.
`Creation`, `Session`: a request that can run its next statement does (weak
fairness; it is not aborted for its benefit). `Service`: the commands of a
container go on, and compose, which sees the exit of `migrate`, starts what waits
for it even when `migrate` is run again (strong fairness); nobody has to start a
container again, no request has to come, and `LaunchSucceeds` speaks of launches
in which none dies. `Dashboard`: the service answers and the browser runs the
handlers; nobody has to click. `SignedOutIsHidden` needs `reliable`: when the
network fails at the moment in which a page is open without a token, no 401 comes
to close it.

## 4. Proofs

TLAPS checks the eight `_proofs` modules for every value of the constants: every
set of users, releases, requests, workers, endpoints and containers, every role,
creator and approval requirement, every batch limit and attempt limit, both
values of `RowLocks`, every deployment, every size of the pool, every setting of
the dashboard. They assume what the `ASSUME`s of the modules say of the
constants, no more. Those are facts of the types (an email is not a slug, a role
is one of three), bounds that are natural numbers, that `Lower` is idempotent
and leaves the bootstrap email as it is (`app/cli.py` lowers it before its use), and
that in every deployment some container installs (the image's entrypoint, or
`migrate` of docker-compose). Every safety property of section 3, invariant,
action property or refinement, is a theorem.

| Module | Theorem | States |
| --- | --- | --- |
| `ReleaseWorkflow_proofs` | `WorkflowInvariant` | `Spec => []WorkflowInv` |
| | `TypeCorrect` | `Spec => []TypeOK` |
| `ReleaseWorkflowSafety_proofs` | `DeploysOnTime` | `Spec => NeverEarly` |
| | `LockInvariant` | `Spec => []LockInv` |
| | `LocksKeepRowsCurrent` | `Spec => []LockedRowIsCurrent` |
| | `Refinement` | `Spec => ImplementsLifecycle` |
| | `HistoryIsComplete` | `Spec => []HistoryComplete` |
| | `GateInvariant` | `Spec => []GateInv` |
| | `GateIsKept` | `Spec => []ApprovalGate` |
| `ReleaseCreation_proofs` | `CreationInvariant` | `Spec => []CreationInv` |
| | `CreationTypes` | `Spec => []TypeOK` |
| | `OneReleasePerKey` | `Spec => []KeyNamesOneRelease` |
| | `LateRetriesAreReplayed` | `Spec => []LateRetryIsReplayed` |
| | `AnswersAgree` | `Spec => []AnswersAreTrue` |
| | `InsertsDoNotDeadlock` | `Spec => []NoDeadlock` |
| | `FailuresAreRaces` | `Spec => []FailsOnlyInRaces` |
| `RequestSession_proofs` | `SessionInvariant` | `Spec => []SessionInv` |
| | `SessionTypes` | `Spec => []TypeOK` |
| | `AnswersAreOwn` | `Spec => []AnswerIsOwnCommit` |
| | `ReadsAreComplete` | `Spec => []ReadsMissNothing` |
| `OutboxPublisher_proofs` | `PublisherInvariant` | `Spec => []PublisherInv` |
| | `TypeCorrect` | `Spec => []TypeOK` |
| | `PublishedReceived` | `Spec => []PublishedWasReceived` |
| `OutboxPublisherSafety_proofs` | `HistoryIsExact` | `Spec => []DeliveryHistoryExact` |
| | `GivenUpAfterAll` | `Spec => []GivenUpInTheEnd` |
| | `RunsDoNotOverlap` | `Spec => OneRunAtATime` |
| | `DeliveryRefinement` | `Spec => ImplementsDelivery` |
| | `RetriesAreBounded` | `Spec => []RetriesBounded` |
| `Service_proofs` | `ServiceInvariant` | `Spec => []ServiceInv` |
| | `TypeCorrect` | `Spec => []TypeOK` |
| | `AnswersTrue` | `Spec => []AnswersAreTrue` |
| | `HistoryIsExact` | `Spec => []HistoryExact` |
| | `AuthorityGranted` | `Spec => []AuthorityIsGranted` |
| | `ReadyToServe` | `Spec => []ServingIsReady` |
| | `ClaimsRefinement` | `Spec => ImplementsClaims` |
| `Dashboard_proofs` | `PageInvariant` | `Spec => []PageInv` |
| | `RefusalsAreOfStaleCards` | `Spec => []RefusedOnlyWhenStale` |
| | `AllIsOffered` | `Spec => []NothingWithheld` |
| | `PageAgrees` | `Spec => []PageIsOfSelected` |

**The argument for the workflow.** Everything a session will write was decided
when it read, and other sessions may commit before it does. So the invariant must
speak of open sessions. `WorkflowInv` says of each release a session holds: `seen`
is no newer than the committed row and equal to it when the versions are equal
(`SeenIsNotNewer`), and the change is one a service function makes of `seen`
(`ChangeIsLegal`: allowed status, actor, version, time). A commit requires equal
versions, hence `seen` *is* the committed row, hence the change is legal for the
row it overwrites; it raises the version, so that what others hold has become
older. That gives the refinement, the history and the gate without any lock: the
optimistic version suffices. `OnlyBatchesAreLarge` makes a commit of several
releases an `Activate`. The gate needs `GateInv`: the approval of a release that
may pass the gate is in its history already, and one that may still be reviewed
has never passed it. With row locks `LockInv` adds that no two sessions hold one
release; then `seen` stays current and `StaleDataError` is impossible.

TLC checks each of these invariants as well (`WorkflowLocked`,
`WorkflowVersioned`), and `ImplementsLifecycle` as a property.

**The argument for creation.** `CreationInv` has the two unique constraints for
what is committed (`RowsDiffer`) and for the entries of inserts that are not
(`EntriesDiffer`: an insert waits for those it is equal to), that entries are made
in one order and gone when a request ends (`EntersInOrder`), and that none is
equal to that of a row (`EntryIsFree`), so that what is in both indexes conflicts
with none when it is committed. A commit adds a row whose id is
greater than any there was, so that what a request has looked for and not found
(`KeyWasFree`, `VersionWasFree`) stays true of the rows that were there when it
arrived. Hence an insert fails only on a later row or on the empty key, which is
not looked up; and a key that had a release when a request arrived keeps that
request at its first lookup (`Replays`). `NoDeadlock` is the order of the indexes:
a request that is waited for by one that is waited for has an entry in the first
index and waits in the second, for a request that is in both and waits for none
(`WaitsAreShort`).

**The argument for the session.** What a session has loaded is current while it
holds the row (`LoadedIsCurrent`, `OnlyOneHolds`), so that the version it commits
is new and no other session's (`VersionsDiffer`). The reload after it reads only
`updated_at`, which may be of a later version and never of an earlier one
(`CommittedIsOwn`). A GET reads the row before the approvals, and approvals are
only ever added (`ReadIsPast`); it needs no lock.

**The argument for the publisher.** What a run will commit was decided when it
selected its batch and when it POSTed, and meanwhile endpoints are created and
deleted, events stored and other runs committed. `PublisherInv` says of a run
that no other has a row of its batch (`RunsExclude`), that these rows are still
pending (`HoldsPending`), that its session has, for each endpoint that is there
and was POSTed to in this attempt, one delivery, and none else (`SessionIsOwn`,
`SessionOnce`, `SessionComplete`), and that an outcome `published` goes with
deliveries that all succeeded (`OutcomeIsTrue`). An endpoint with a flushed
delivery cannot be deleted (`FlushedIsThere`); one with a delivery that is only
added can, and then the run does not commit. `DatabaseInv` is the same of what is
committed, attempt by attempt, so that a commit of the session preserves it:
that is `DeliveryHistoryExact` and `PublishedWasReceived`. The refinement maps
`Post` with a 2xx to `Receive`, `CommitRun` to `Settle` of the batch, and a
crash or a rollback to nothing.

`RetriesBounded` is not inductive, as it does not say which POSTs the database
forgets. `RetryInv` accounts for them: those of a run that dies by the crash,
those of a run that is rolled back by the deleted endpoint that is the cause. Once
a run has read or added an endpoint that is gone (`Doomed`) it will not commit, so
that endpoint has its POSTs to account for and, as long as the run goes on, none
of another run: each deletion costs a receiver one POST at most.

`GivenUpInTheEnd` needs to know of a run why it will not publish an event:
`FailInv` says that its session has a failed delivery for each such event
(`FailureIsSeen`) and that every counted attempt of an event that is not published
has left one (`AttemptsFailed`), unless an endpoint the event is for was deleted
with its deliveries. A run that is rolled back loses both its attempts and its
deliveries, so that neither is counted without the other.

**The argument for directory and service.** A row that is committed is never
changed (`RowsStay`), so what `Guard` has found stays so until the commit
(`Allowed`): the owner is the owner, an admin an admin. The unique constraint
makes an insert wait for those before it, so that a request at `commit` is the
only one with its name (`OneClaims`) and no row has it (`NameIsFree`). A commit
is then `Win` of `UniqueNames`, a 409 or a 500 is `Lose`, the bootstrap's row is
`Install`. For this the admin's row must not race with a request's: no request
arrives before the row is there (`RootIsAdmin`), as no container serves before it
has installed, or another has (`HasInstalled`), on a schema that is there
(`HasMigrated`). Neither `Directory` nor `Startup` alone gives that; it is
proved of `Service`.

**The argument for the dashboard.** `ButtonsAreExpected` compares the buttons of
`actionMap` with the statuses that the service functions expect, action by action.
A request carries what its button was rendered from (`ClickIsJudged`): the button
was right for the status and the user of the card, so that a refusal means that
one of them is not the present one. That holds of any page, whatever is in
flight. That all parts of the page are of the selected project does not:
handlers overlap. It is proved of a user who waits (`PatientInv`): there is one
handler, and `UnderWay` says how much of the page it has rendered after each of
its awaits.

**Model-checked only.** The liveness properties `ScheduledIsActivated`,
`EventsSettle`, `RequestsEnd`, `PoolIsNeverStuck`, `LaunchSucceeds` and
`SignedOutIsHidden`: fairness and what is enabled are outside the prover. The
three runs of section 5, whose result is a counterexample, are TLC's too.

## 5. Where the documents and the code differ

* `HistoryOrder`: audit rows of one release sorted by `created_at`, as
  `GET /projects/{id}/audit` does, can be in the wrong order, because `now()` is
  the start of a transaction that then waited for the row.
* `RetriesExceeded`: deleting an endpoint during a run rolls the batch back with
  its attempt counters; receivers get an event more often than the budget of
  five. `RetriesBounded` is what does hold.
* `RepeatedKey`: a copy of a creation request that runs while the original does
  is answered 409 or 500. `KeyNamesOneRelease` and `LateRetryIsReplayed` are what
  does hold: no second release, and a retry after the commit is replayed.

Further differences were met while modelling. They are in the models and have no
run of their own:

* A rejected release can be cancelled (`ReleaseLifecycle!Cancel`); the diagram in
  the README has no such edge.
* Users register and are created without an audit row (`Directory!Recorded`),
  though the README says "for every change".
* Of two containers that bootstrap at once one fails on the unique email
  (`Startup!InsertAdmin`), though a test calls the bootstrap idempotent.
  `LaunchSucceeds` is what does hold: the other gets through.
* After two overlapping refreshes the page can show the lists of a project that
  is no longer selected (`Dashboard!OnLists`), and say "No releases in this
  project" of one that has some. `PageIsOfSelected` is what does hold, for a user
  who waits.
* The handler of a form throws after its first `await`, where
  `event.currentTarget` is null (`app/static/app.js:210`, `Dashboard!OnForm`): the
  row is there, the user sees an error, and the list is not refreshed.

## 6. Not modelled, and why

Validation, serialisation, password hashing, tokens and HMAC are functions
without state, or of libraries. Settings, the middleware and the health checks
keep no state that anything depends on. The queries (lists of projects, webhooks)
only read; those of releases, environments and the audit are modelled as far as
the dashboard shows them. The downgrade of the schema is a command no part of the
system gives. The forms for projects and environments of the dashboard share the
course of the release form. The order in which receivers get the events of one
release, and the delivery header (`app/worker.py:142`), are hazards without a
property, as no document says what they should be. `event_matches` is a pure
function of two texts; its result is the constant `Matches`.

## 7. Plan

Done: all modules of section 2, and the proofs of all their safety properties.

Next, in this order:

1. The composition of workflow and publisher: the order in which the events of
   one release reach a receiver, with an event that fails and is sent again after
   newer ones; TLC first, then what of it holds for any number of events.
2. The forms of projects and environments in `Dashboard`.
