# AutoOps in TLA+

AutoOps lets a user describe an AWS environment in a six-step wizard, validates
the Terraform code generated from it, deploys it from an ephemeral ECS task
(CraftOps), mirrors the deployed resources as a Terraform package for GCP
(MirrorOps), fails over to that package, and watches the deployed resources for
drift (CoreOps).  This directory holds TLA+ modules of that program, the TLC runs
that check them and proofs checked by TLAPS.  Paths below are relative to the
repository; `api/` and `services/` are under `backend/app/`.

Contents: [inventory](#inventory) - [modules](#modules) - [runs](#runs) -
[where code and documents differ](#where-the-code-and-its-documents-differ) -
[fairness](#fairness) - [proofs](#proofs) - [limits](#what-is-not-modelled) -
[plan](#plan).

## Inventory

All components share one PostgreSQL database.  A request handler declared with
`def` (nearly all of them) runs on FastAPI's thread pool with a SQLAlchemy session
of its own (`core/database.py`): READ COMMITTED, no autoflush, no `SELECT ... FOR
UPDATE`, no version columns.  An assignment to an ORM object becomes `UPDATE ...
WHERE <primary key>` at the commit, of the changed columns only and whatever the
row holds by then; a row that is gone makes the commit raise.  So a handler is
atomic only between a read and the next commit, upload or task start, and this is
where the modules split it.

| component | state it keeps | operations | talks to |
|---|---|---|---|
| **CraftOps wizard and gate** (`api/craft.py` 92-504, `services/craftops/`) | `deployments`: `status`, `config_snapshot`, `validation_result`, `terraform_code`; `main.tf` in S3 | `save_config`, `validate`, `deploy` | S3, ECS `run_task` |
| **Deployment life cycle** (`api/craft.py` 379-810, `api/projects.py` 154-292) | `deployments.status`, `projects.status`, existence of the rows | `deploy`, `deployment_action` (resume, fix_retry, full_destroy), `deployment_complete_callback`, `delete_project` | ECS, EventBridge |
| **Terraform runner** (`terraform-runner/entrypoint.sh`) | Terraform state and its DynamoDB lock, one per project | apply or destroy, then one callback | AWS, the backend's callback |
| **MirrorOps** (`services/mirrorops/`, `api/mirror.py` 1-279) | `aws_resources`, `gcp_mappings`, `sync_history`, `dr_packages`, S3 `projects/{pid}/latest` | queue worker, manual sync, detect, map, package | SQS, AWS, Bedrock, GCP |
| **Failover** (`api/mirror.py` 280-908, `failover-runner/`) | `failover_history` | simulate, fail over, destroy, status, callback | ECS, GCP |
| **Drift and baselines** (`services/governance/drift_worker.py`, `api/drift.py`, `api/craft.py` `_run_detect_all`) | `resource_baselines`, `drift_events` | worker, approve, reject, baseline refresh | SQS, WebSocket |
| **Onboarding** (`api/onboarding.py`) | `onboarding_scans`, resources, baselines | scan, confirm | AWS |
| **Accounts, GCP connection** (`api/accounts.py`, `api/gcp_connect.py`) | `aws_accounts`, GCP columns of `projects`, bucket policies, secrets | connect, verify, remove | STS, S3, Secrets Manager |
| **WebSocket** (`api/websocket.py`) | nothing stored | polls rows and CloudWatch logs | frontend |
| **Frontend** (`frontend/app`, `hooks`, `components`) | React state of the mounted page, `localStorage`, timers, sockets | every page's handlers and effects | all APIs |
| **Audit, metrics, diagrams, auth** (`api/audit.py`, `metrics.py`, `resources.py`, `auth.py`) | Cognito users, audit rows, otherwise read-only views | list, filter, log in | frontend |

The frontend is a Next.js application: one page is mounted at a time, and its state
is lost when the user leaves it.  A handler that awaits a request goes on after
that, with the values its closure captured; intervals and timeouts do so unless the
page clears them; two answers may arrive in either order.  No page cancels a
request or looks whether its answer is still wanted.

The behaviours that are hard here:

* *overlapping requests*: no row locks and no conditional updates, so every
  check-then-write is two transactions (the 409 of `deploy`, the status test of
  `deployment_action`, the snapshot of `save_config`);
* *long handlers*: `validate` runs terraform, tfsec, checkov and infracost for
  minutes on what it read at the beginning;
* *asynchronous tasks*: the backend commits a status, then starts an ECS task, and
  learns of its end only by one callback that is sent once;
* *crashes*: a restart between the commit and the task leaves a row nobody owns;
* *deletion while work is under way*: rows disappear under handlers and callbacks;
* *queues*: MirrorOps and the drift worker poll SQS with a visibility timeout;
* *polling pages*: intervals that do not wait for the last answer, lists fetched
  again for each filter, event lists that are looked at once per render;
* *pages left behind*: requests, loops and timers that outlive the page or the
  object they were started for.

What makes each component correct:

* wizard and gate: no step without its predecessors; the stored code and the stored
  validation id are of one validation; nothing is deployed that was not validated;
* life cycle: deleted projects stay empty; a completed row was applied; a row in
  flight always has somebody who will report, or a named fault explains why not;
  one task per row; records do not go before the resources do;
* runner: a callback on every path, Terraform only under the state lock;
* MirrorOps: one latest package per project, made of resources detected together;
* failover: one at a time, of a package that exists, never destroyed while running;
* drift: an event is judged against the current baseline and decided once;
* onboarding: what a scan found is registered once;
* accounts: a project that is called connected has a secret with the key of the account
  its columns name, and one that is not has none of them set;
* pages: what they show was true, of the thing they show it of, and what has ended
  is shown in the end; an edit is saved as what it was an edit of.

`PROJECT.json` lists the hazards line by line with the property that covers each.

## Modules

| module | models | extends |
|---|---|---|
| `CraftGate` | `save_config`, `validate`, `deploy` of one project on a pool of threads | Naturals |
| `CraftGateProofs` | theorems about it | `CraftGate`, TLAPS |
| `Wizard` | the wizard and the validation page, driving `CraftGate`'s handlers | `CraftGate` |
| `WizardProofs` | theorems about it, and those of the gate carried over to it | `Wizard`, `CraftGateProofs` |
| `DeploymentRecord` | abstract: which writes the `deployments` and `projects` tables may see | Naturals |
| `DeployLifecycle` | deploy, actions, deletion, Terraform tasks, callbacks, restarts; implements `DeploymentRecord` | Naturals, FiniteSets |
| `DeployLifecycleProofs` | theorems about it, the refinement among them | `DeployLifecycle`, FiniteSetTheorems, TLAPS |
| `DeployConsole` | deploy page, its event socket, partial-failure page, dashboard, over the tables of `DeploymentRecord` | `DeploymentRecord`, Sequences |
| `DeployConsoleProofs` | theorems about it | `DeployConsole`, TLAPS |
| `MirrorRecord` | abstract: which writes the tables and the queue of MirrorOps may see | |
| `MirrorPipeline` | the SQS worker, pipeline runs, the two phases of a package; implements `MirrorRecord` | Naturals, FiniteSets |
| `MirrorPipelineProofs` | theorems about syncs, messages, `ready`, packages, `main.tf` and the rows, the refinement among them | `MirrorPipeline`, FiniteSetTheorems, TLAPS |
| `MirrorConsole` | MirrorOps dashboard, mappings, package and GCP pages with their endpoints | Naturals, FiniteSets |
| `MirrorConsoleProofs` | theorems about it | `MirrorConsole`, FiniteSetTheorems, TLAPS |
| `GcpAccount` | connecting and disconnecting the GCP account step by step | Naturals |
| `FailoverConsole` | failover page, its socket, endpoints, background jobs and runner tasks | Integers, Sequences |
| `FailoverConsoleProofs` | theorems about it | `FailoverConsole`, TLAPS |
| `Onboarding` | sign-up, log-in, AWS account, scan and confirm | Naturals, FiniteSets |
| `Governance` | drift worker, decisions, audit, metrics and their pages, after the journey of `Onboarding` | `Onboarding`, SequencesExt |
| `GovernanceProofs` | theorems about confirms and about what the pages show | `Governance`, SequenceTheorems, FiniteSetTheorems, TLAPS |
| `MC...` | the instances of each for TLC | |

How they meet.  `CraftGate` looks closely at a row until it is `deploying` (what its
columns hold, which snapshot was scanned, which id was sent) and treats the rest of
its life as one callback; `DeployLifecycle` treats the draft as one step
(`create_initial_deployment`) and looks closely at what follows.  `deploy` is in
both: with the data in the first, with the tasks in the second.
`DeployLifecycle` meets `MirrorPipeline` at EventBridge: what the one collects in
`published`, the other takes as the step `put_events`.

The pages are put in front of what serves them in one of three ways.  `Wizard`
extends the detailed `CraftGate`: its requests are the handlers' own actions.
`DeployConsole` extends the abstract `DeploymentRecord`, because the page must be
right whatever the life cycle may do to a row, and `DeployLifecycle` is shown to do
no more than `DeploymentRecord` allows.  `FailoverConsole`, `MirrorConsole` and
`Onboarding` hold the endpoints they call themselves.  `MirrorConsole` takes a connection
as one step, its commit; `GcpAccount` takes it, and the disconnection no page asks for, apart.  `Governance` follows
`Onboarding`: a project comes to the hub by a confirmed scan.

### CraftGate

| variable | code |
|---|---|
| `status[d]` | `deployments.status`; rows are numbered by `started_at`, which is how all handlers order them |
| `config_snapshot[d]` | per wizard step what was entered, or `Unset`; `completed_steps` is written in the same dictionary and is the set of steps that hold something |
| `validation_id[d]` | `validation_result["validation_id"]`; `NoId` when it is missing and when it is `""`, which the gate cannot tell apart |
| `terraform_code[d]`, `main_tf[d]` | the stored code and the S3 object; the rendering is deterministic, so a text is represented by the snapshot it was rendered from |
| `tasks[d]` | apply tasks that have yet to call back |
| `scans` | history: the passing validations with their id, row and HCL |
| `raced` | history: the rows of which two saves, or two validations, have been under way at once |
| `thread[t]` | the handler on a thread: where it is and what it has read, the stored code among it |

`save_config` is `SaveRead` (query and prerequisite check), or `SaveReadNoDraft`,
`create_initial_deployment` and `SaveRefresh` for the first step, then `SaveWrite`
(commit of the whole snapshot).  `validate` is `ValidateRead` and one of
`ValidatePass`, `ValidateManualEdit`, `ValidateReject`.  `ValidatePass` is one UPDATE,
and SQLAlchemy leaves out of it a column whose new value is the one that was loaded:
HCL that was stored when the validation began is not stored again, whatever another
validation has put there since.  The new id always is, and so is the snapshot of a saved
step (`flag_modified`).  `deploy` is `DeployRead`
(draft and gate), `DeployCheck` (the query behind the 409), `DeployUpload` or
`DeployUploadFails`, `DeployCommit`, `DeploySpawn` or `DeploySpawnFails`.  A
request that is refused before it has changed anything is no step at all.  A
handler that dies with the backend is a thread that takes no further step, which
the model allows at every point.  The action endpoint (which only touches rows past
the draft) and project deletion are left to the other module.

### DeployLifecycle

| variable | code |
|---|---|
| `project` | `projects.status`, `deleted` when the row is gone |
| `status[d]` | `deployments.status` |
| `main_tf` | rows whose `main.tf` is in S3 (project deletion does not clean that bucket) |
| `req[r]` | one HTTP call: operation, row and place in the handler |
| `task[r]` | the ECS task it started, what it reports, and how far its callback is |
| `tf_lock`, `aws` | the project's Terraform lock and what its state holds |
| `applied`, `published`, `stranded` | history: rows applied, rows announced, rows hit by a fault that nothing repairs |

`resume` and `fix_retry` differ only in the snapshot they render and are one
operation `retry`.  `full_destroy` of a row and `delete_project` with the box
ticked start destroy tasks; the latter is fire-and-forget and removes the records
at once.  A task goes `starting` (download, role, `terraform init`), `terraform`
(holding the lock, which is not waited for), `reporting`.  The callback is two
transactions when it reports `completed` (then EventBridge) or `destroyed` (then
`_delete_project_records`).  `TaskIsLost` is a stopped task or a lost callback, and
leaves the lock behind if it was held.  `Restart` kills every handler and callback
under way.  A draft committed between the `DELETE` of the deployments and that of
the project makes the foreign key fail and the deletion roll back
(`DeleteRacesInsert`).  An UPDATE of a deleted row raises, and after a commit the
session's objects are expired, so a handler that reads them again to build the
arguments of `run_task` starts nothing once the rows are gone.

### MirrorPipeline

| variable | code |
|---|---|
| `dr_status[p]` | `projects.dr_status` |
| `sync[s]` | the `sync_history` row of run `s`: project, status, and what triggered it |
| `run[s]` | the run itself: its place in `pipeline.run`, the worker it keeps busy (`Manual` for a background task), what it detected |
| `aws_rows`, `gcp_rows` | `aws_resources` and `gcp_mappings`, by run and resource |
| `package[s]` | the `dr_packages` row run `s` made: its rank by `created_at` (0: none), `is_latest`, and whether phase 2 is done |
| `main_tf[p]` | whose `main.tf` is at `projects/{p}/latest/infrastructure/` |
| `queue[m]`, `announces[d]` | the SQS messages, and the project a deployment message names |
| `worker[w]` | the queue worker of one backend process |
| `skipped`, `overlapped`, `stranded` | history: deployments skipped for want of a GCP connection, projects two runs of which were under way at once, runs whose process or transaction was lost |

A run is `StartRun` (the row), `MarkSyncing`, `ClearRows`, `detect_all`, `map_all`,
then either `KeepPackage` (as many resources as the last completed sync) or
`RetirePackage`, `CreateSnapshot`, `UploadCode`, `RecordPackage`, and `Complete`:
one action per commit or per upload another actor can see.  `RunFails` is the
`except` clause and is possible wherever AWS, GCP, Terraform or a deleted row can
raise; `RunIsLost` is a process that ends, or a statement the database refused,
after which the commit in the `except` clause raises as well.  A message is hidden
for 300 seconds and a run may take longer, so a message that is not deleted may be
received again by any free worker at any time; a worker itself handles one message
at a time.  The detection reads AWS, which changes as it likes, and skips a type
that cannot be listed, so it may find any part of `Resources`.  Whether a project
is connected to GCP is left open at every receipt.  A snapshot event may arrive as
soon as the snapshot was asked for; for a project without a database it is a
message that is simply never received.  `CreateSnapshot` includes the image copy,
and the retirement includes the comparison before it and leaves the HCL generation
to the next step: none of these writes anything another actor reads.

### DeploymentRecord

Only the writes: a row appears as a draft (`Draft`), is put in flight whatever it
held (`Start`), gets a result, `completed` only if it was applied (`Report`), is
announced (`Announce`), and goes with the project and all other rows (`Purge`);
`Apply` is Terraform's success.  No request, task or callback is left.  Every step of
`DeployLifecycle` is one of these or none, with the four variables mapped to those of
the same name (`ImplementsRecord`); `DeployConsole` is written over the same actions,
for "everybody else" and for what its own requests write.

### MirrorRecord

The same for MirrorOps: a sync is inserted (`Insert`), says that its project is
syncing, records at most one package while it runs (`Syncing`, `Package`), and ends
once (`Succeed`, `Fail`); a recorded package is exported and makes its project ready
(`Export`, `Ready`); a deployment is skipped, or forgotten when it has been skipped or
a sync it triggered has completed (`Skip`, `Forget`), and never comes back to the
queue.  `MirrorPipeline` implements it (`ImplementsMirrorRecord`) with `recorded` the runs
that have a package, `exported` those whose package went through phase 2, and
`forgotten` the deployments whose message is deleted.

### Wizard

| variable | code |
|---|---|
| those of `CraftGate` | the backend, with one thread |
| `page` | the mounted page and its `useState` values: the wizard (`phase`, `step`, `stepConfigs`, `completedSteps`, `isSubmitting`, `cidrError`, the analysis), the validation page (`isValidating`, `result`, `error`) or the deploy page (the id in its address) |
| `request` | the request under way, whether the backend has taken it, and whether its page still waits |
| `project` | whether the project exists |

`handleSaveStep` sends what the page shows of its step (`Shown`, which has the
defaults of the fields); `ServeSave` is `SaveRead` of `CraftGate` and `SaveAnswered` its
`SaveWrite` together with the `then` of the page, which goes to the step after the
saved one wherever the user is by then (`AfterSave`).  `RequestFails` is an answer
that is lost: the handler goes on and nobody waits for it.  The fields of a step can be
typed into while it, or with "previous" another one, is saved.  `handleValidate` is
`ValidateRead` and one of its three ends.  The fields are abstract: a step holds one
of `Configs`, and the CIDR step may hold a text that is none.

### DeployConsole

| variable | code |
|---|---|
| `project`, `status`, `applied`, `published` | the tables, from `DeploymentRecord` |
| `page`, `deploy`, `failure`, `dash` | which page is mounted, and the state of each |
| `socket` | `useWebSocket` and `websocket_events`: the connection, where the stream is, events on the wire, the last event, whether React has rendered it |
| `call[c]` | a request, its answer, and whether its page is still there |
| `toast`, `timers` | `localStorage.deploy_toast`, and the `setTimeout` pushes nobody clears |
| `failures` | history: rows that were reported failed |

The stream polls the row; `StreamFindsFailure` and `StreamFailed` are two queries
(the second counts resources) and the row may go in between.  `EventsEffect` sees
the last event only.  `NameArrives` makes the effect run again on the event it has
seen.  `BackToProject`, `DashboardRow` and the like are the links of the pages, and
`TimerFires` pushes whatever page is mounted by then.  The handlers' sides
(`AcceptDeploy`, `AcceptAction`, `AcceptDelete`) have the guards of the code in one
step; what happens inside them is in `DeployLifecycle`.

### FailoverConsole

| variable | code |
|---|---|
| `page` | the states of `failover/page.tsx`; of the log lines only whether there is one and whether one contains the word for "done"; the hook's events and `processedEventsRef` |
| `call[c]` | a request, or the loop of `handleDestroyGcp` with its number of polls |
| `socket` | connection, stream, events on the wire |
| `fh[f]` | `failover_history`: mode and status |
| `task[t]` | a job in `background_tasks`, its runner task and callback |
| `resources` | whether DR resources stand in GCP (one Terraform state per project) |
| `reported` | history: the outcomes some row has had |

`ModeCard`, `Terminal`, `Result`, `DangerZone`, `Footer` are the conditions of the JSX,
and the user's actions are enabled by what is shown.  `PollAgain`, `SeesDestroyed`,
`SeesDestroyFailed` and `PollsRunOut` are the loop, which goes on when the page has
turned to another failover.  `EventsEffect` takes every event since the last one
processed, whichever failover it is of.  `RunTerraform` may fail with everything or
nothing changed; `TaskDies` is `set -e` before a callback.

### MirrorConsole

| variable | code |
|---|---|
| `page` | the mounted page, a record of its own for each of the four |
| `polls` | answers of `get_dr_status` on their way (a set: equal ones are one) |
| `call[c]` | sync, patch and connect requests |
| `dr_status`, `status`, `run`, `mapped`, `code` | the tables a pipeline run and the endpoints write; a code is named by the mapping it was made for |
| `connected` | whether the GCP columns of `projects` are set |

`PollTick` does not wait; `StatusArrives` takes an answer in any order.
`SelectMapping`, `handleOpenEdit`, `handleSaveEdit`, `CancelEdit` and `CloseModal` are the
one editor of the mappings page; `SaveAnswered` closes whatever is open.  The key
file is read by a closure (`parseKeyFile`, `KeyFileRead`) that remembers whether the
project id was empty.  `disconnect_gcp` may come at any time, though no page asks for it.

### GcpAccount

| variable | code |
|---|---|
| `row` | the four GCP columns of `projects`; an ARN is the number of the secret, 0 for NULL |
| `secret`, `arns` | the secret that has the project's name in Secrets Manager, and how many there have been |
| `req[q]` | a connect or disconnect request: its place, the account it was sent, the columns it has loaded, the ARN it was given, and whether another has changed row or secret since |
| `suspect` | history: a request met another, or was cut short after its first write, and none has gone through undisturbed since |

An account is what one connection is given, a GCP project and a key.  `connect_gcp` is
`ConnectReads`; `PutSecretValue`, or `SecretNotFound` and `CreateSecret`; and the commit,
which has the action's name.  `disconnect_gcp` is `DisconnectReads`, `DeleteSecret` (which
deletes what the loaded ARN names and goes on when it cannot), and the commit.  The
validation of the key and the Artifact Registry change nothing here, and only end a
request early (`CutShort`, possible after every step).  A commit leaves out what the
request has loaded with the same value (`Omitted`).

### Onboarding and Governance

| variable | code |
|---|---|
| `signedUp`, `token` | Cognito's user; `localStorage.access_token`, which may expire at any request (`Unauthorized`) |
| `account`, `scans`, `registered`, `newest` | the connected account; `onboarding_scans.status`; history: how often a scan was made into projects; what the newest onboarding project is |
| `confirms`, `late` | confirm requests; history: a poll was answered after its interval was cleared |
| `event`, `audit` | `drift_events.status`, audit actions per event |
| `queue`, `todo`, `changes` | drift messages, the baselines left to compare, reported changes |
| `decisions` | approve and reject requests |
| `page` | the mounted page; on the governance pages the list shown, the reads under way with what they have seen, and `slipped` |

`pollStatus`, `PollServed`, `PollAnswered` are a poll sent, looked at and answered;
`clearInterval` makes those still out `old`.  `confirm_onboard` is two steps:
`ConfirmRead` tests the scan, `confirm_onboard` registers and deletes it.
`_poll_drift_sqs` takes a message, `process_drift_event` compares one baseline and
commits, `ComparisonFails` loses the rest, `MessageComesAgain` is a backend that
stops before the delete.  `approve_drift` and `reject_drift` do not look at the
status of the event.  Lists are read again after each decision, by timers and by
filters; `fetchAll` and `listAnswered` replace what is shown by the answer, in any
order.  `slipped` marks the pages that one of the causes named at `ShownIsCurrent` may
have misled.

## Runs

Every run sets `CHECK_DEADLOCK FALSE` but `governance`: requests, rows and
validation ids are bounded, so a model that has used them up stops.

| run | instance | shows |
|---|---|---|
| `gate` | 2 threads, 1 row, 2 steps, 2 inputs, 3 ids | under every overlap of two requests: `TypeOK`, `StepsArePrefix`, `DeployedRowWasValidated`; `IdNamesTheCode` (id and code of one validation unless two of the row have met); `DeployedHclIsComplete`, `SavesAccumulate` unless two saves of the row have |
| `wizard` | 1 tab, 1 thread, 3 steps, 2 inputs and a bad one | `WizardTypeOK`, `SummaryShowsSaved` |
| `deploy` | 3 requests at once, 2 rows | `TypeOK`, `DeletedProjectHasNoRows`, `ApplyFindsItsHcl`, `CompletionIsReal`, `OnlyFaultsStrand`, and the refinement `ImplementsRecord` |
| `deploy_serial` | 3 requests one at a time, 1 row, fairness | `OneTaskPerRow`, `RunningRowsSaySo` (tasks and callbacks still overlap with the requests), `InFlightEnds` |
| `purge` | 3 requests one at a time, 2 rows | violation, see below |
| `deploy_console` | 1 row, 2 requests of the tab, 1 log event on the wire, fairness | `TypeOK`, `ShownOutcomeIsReal`, `OutcomeIsNotSkipped`, `OutcomeReachesPage` |
| `mirror` | 2 projects, 2 runs, both at once if they like, 1 worker and manual syncs, 1 deployment | `TypeOK`, `OnlyLossLeavesRunning`, `DeletedMeansSynced` whatever overlaps; `LatestPackageOwnsMainTf`, `RowsAreOfLastRun` for projects whose runs did not; the refinement `ImplementsMirrorRecord`, hence `ReadyWasExported` |
| `mirror_package` | 1 project, 3 runs one after the other | violation, see below |
| `mirror_console` | 2 mappings, 1 request, 2 poll answers, fairness | `TypeOK`, `EditsStayHome`, `StatusCatchesUp` |
| `gcp_account` | 2 requests, 2 accounts, 3 secrets | `KeyOfTheAccount`: whatever was left behind, the next request that goes through undisturbed puts right |
| `failover` | 2 failovers, 1 request or loop, 1 runner task, 2 animation steps, fairness | `TypeOK`, `ShownIsReported`, `SimulationIsSafe`, `DestroyLoopEnds`, `TerminalEnds` |
| `governance` | 2 scans, 2 confirms, 2 polls, 2 events, 2 decisions, 2 reads, 1 change | `GovernanceTypeOK`, `ConfirmedOnce`, `ShownIsCurrent` |

The bounds.  Every race in the handlers is between two requests (no state is shared
by three), so two threads, or three requests in the life cycle where a third is
needed to make the row ready, reach them all.  Two rows are the fewest on which
"another row" means something.  `gate` has one, so that there is room for a step to be
edited to another value: two steps are enough for a hole and for a lost update, two
inputs for two HCLs of one row, and three ids are one for the code that is stored and two
for validations that begin with it.  What two drafts of a project may do to each other is
left to the theorems, which have any number of them (`AcceptedIdsAreOfTheirRow`).
`wizard` takes three steps so that one can be edited with one on either side.

In `mirror` two runs are what it takes for one to disturb the other or to follow it, two
projects for an event to be given to the wrong one, and one resource for two detections
to differ in number; `mirror_package` needs the third run that believes the first.

In `gcp_account` two requests are what it takes to meet, two accounts for a key to be
another's, and three secrets for one to be deleted and made again twice.

The pages.  In `deploy_console` one row suffices because a tab watches one row and
forgets it when it leaves; one event on the wire before the outcome is what it takes
to be skipped by it, and two requests are the most whose answers a page takes
(the dashboard's list and its deletion).  In `failover` two rows are what a stale
loop and replayed events need, and one task, because runs exclude each other by the
Terraform lock and more only repeat the callback; one request or loop
at a time, since a loop that is left behind is one of them and what is new after it can
only be compared with its last word; the theorems allow any number.  The loop's 60
polls are 1, as its counter is compared with nothing else.  In `mirror_console` two
mappings are what an editor can confuse and two poll answers what can overtake.
`governance` has two of everything that races with its like, and one change, which
the worker may still see twice (`MessageComesAgain`); an open project page and a scan
under way are not combined (`Rest`), as they share no state but the token.

The theorems hold for every value of the constants, so for what is proved the
bounds do not matter.

`PROJECT.json` gives for every property a mutant: a small bug in one definition,
for example a callback that reinserts its row or an exit code that is not looked
at, with which TLC finds the property violated.

## Where the code and its documents differ

Two runs end in a violation of what a comment or the README says:

1. `purge`: craft.py:617 deletes the records when a destroy is done; a deployment
   made between that destroy and its callback loses its records with resources up.
   Requests are served one at a time in this run: no race of handlers is needed.
2. `mirror_package`: README.md:88 has a package ready at all times.  A run that sees
   a change retires the old package and commits before it makes the new one
   (pipeline.py:113-117).  If it then fails, the next run compares its number of
   resources with the last completed sync (pipeline.py:103-109), takes an equal
   number for no change, and completes: there is no latest package, and further
   syncs do not make one until the number changes.

Others follow from the actions at sight and have no run of their own.

*Gate and life cycle.*  README.md:99 has CRITICAL findings block a deployment, yet
`deploy` renders the snapshot again (craft.py:453), and a `save_config` after the
validation does not invalidate it: after save, validate, save, deploy, what is deployed
has never been scanned.  craft.py:415 asks for the validation loop to be run first,
but a pass followed by a failed re-validation leaves code without an id, and a
request with an empty id (the deploy page's default) is accepted.  Two validations
of a draft that overlap may leave the id of one beside the code of the other, as the one
that finds its code stored writes its id alone (craft.py:350-353); two saves that overlap
lose a step, and a deploy that reads the snapshot after that renders it as it is
(`raced` collects the rows, which `IdNamesTheCode`, `SavesAccumulate` and
`DeployedHclIsComplete` exempt).  craft.py:438 says a
deployment is already in progress; two deploys that both look before either
commits, or a deploy and a retry, still overlap.  A retry that read `partial_failed`
before a `full_destroy` committed runs beside it although craft.py:675 blocks all
actions (this is why `OneTaskPerRow` is claimed for one request at a time only); a row
left `deploying` by a fault makes every later deploy answer 409 (`stranded` collects
these rows); `delete_project` with the box ticked destroys with the newest row, which
has no `main.tf` when it is a draft; a failed `put_events` is printed and the completed
deployment is never announced.

*MirrorOps.*  README.md:132 says the visibility timeout prevents duplicate runs
completely, yet a manual sync looks for no run under way (mirror.py:141) and a run
longer than 300 s is started again by the next backend process; overlapping runs may
leave two latest packages, or one whose `main.tf` is another's, which is why two
properties exempt the projects in `overlapped`.  A sync without changes whose latest
package is not ready leaves `dr_status` at `syncing` (pipeline.py:151).  Phase 2 takes
the newest pending package of any project (sqs_worker.py:107-109), so the export of
one project may be booked to another, and it makes a project `ready` whose package a
later, failed run has retired; `ReadyWasExported` claims no more than the code gives.
The page takes any 400 of a manual sync for a missing GCP account
(mirror/page.tsx:173) and allows a second sync until a poll says `syncing`.
Confirmations of mappings are not stored, and a saved code is not shown until the
page is opened again.

*GCP account.*  A connection and a disconnection that overlap may leave some columns set
and others NULL, as each leaves out what it has loaded with the same value: the page then
shows a connection and a sync is refused, or the other way round.  A commit that fails
after `put_secret_value` leaves the old columns with the new key, one after
`delete_secret` leaves a connected project without a key (`suspect` covers these).
gcp_connect.py:116 has a disconnection delete the secret as well; a deletion that fails is
ignored and the ARN cleared, and a connection that ended before its commit has left a
secret whose ARN the row does not have: either stays, and no column names it.
pipeline.py:36 has a run authenticate with its project's key and without a fallback;
`setup_gcp_auth` sets a variable of the process (gcp_auth.py:48), which another project's
run may set again before dr_packager.py:215 reads it, and a project that was disconnected
after its sync was accepted is given the shared key.

*Wizard.*  What is typed into a step's field while another step is saved is shown by
the summary and never saved; inputs show their default when a step is visited again;
a wizard opened with `?project_id=` starts from an empty form, so that saving step
2-1 saves an empty prefix; a lost answer to the creation makes a second project; the
validation page's "edit settings" does not carry the project's id; a result stays,
with its link to the deployment, after a later validation failed (the gate refuses
it); after a manual-edit error only a reload leads to another validation.

*Deployment pages.*  The deploy page pushes `/partial-failure` without the
deployment's id (deploy/page.tsx:354), so the page has nothing to load and its
actions no row; `projects.status` is never `deploying` or `failed`, so two of the
dashboard's filters match nothing; `app/projects/page.tsx` has no id and always shows
its error.

*Failover page.*  The result of an actual failover and its danger zone are shown
after a simulation alone, when the mode is switched and the page was loaded anew
(failover/page.tsx:454 counts any completed row); a failover that is started again
resets `processedEventsRef`, so the outcomes of the previous one are replayed; a
destroy loop that was started for an earlier failover writes `destroyed` into the
state of a later one; the destroy button does nothing after a reload.  `ShownIsReported`
therefore speaks of some failover of the project, not of the one on display.

*Onboarding and governance.*  The pages open `/ws/events/{project}` for drift without
a deployment id, get an error and are closed, so nothing is refreshed that way.
`actionId` holds one event, so an approval and a rejection of the same event can both
be sent, and the last wins.  A poll that is answered after `clearInterval` shows the
confirm button again while a confirm is out, and the scan can be registered twice:
`ConfirmedOnce` exempts that (`late`).  An error of a poll leaves the page at
"scanning".  A wrong password is a 401, which the interceptor answers by loading the
login page, so that its message is lost.  Answers for filters and periods overtake
each other, and a rescan's timer fetches the period of the moment it was pressed.

## Fairness

Users, restarts, lost tasks, lost callbacks, broken connections and faults are never
forced in any module.

* `DeployLifecycle`: weak fairness of each handler that has begun (threads are
  scheduled, boto3 calls return or raise), of each task (the script has no loop and
  ends by itself; Terraform gives up or succeeds) and of each callback.
  `InFlightEnds` therefore says that the only way to stay in flight for good is one
  of the faults collected in `stranded`.
* `DeployConsole`: a connection that is made is used (`SocketOpens`,
  `SocketReceives`), the stream's loop goes on (`websocket_events`), React renders
  (`EventsEffect`).  Other writers may move the row on first, and the connection may
  break; `OutcomeReachesPage` names both.
* `FailoverConsole`: the same for its socket, and every request is answered or
  fails.  Runner tasks owe nothing: `DestroyLoopEnds` holds
  although a task may die or never end, because the polls run out.
* `MirrorConsole`: answers that are on their way arrive (weak), and of the polls that
  the interval sends infinitely many are answered (`SF_vars(PollTick)`: a slot for an
  answer may be taken again and again by an answer that arrives, so weak fairness
  would not do).  A backend that fails for ever is thus excluded, one that fails
  again and again is not.
* `CraftGate`, `Wizard`, `MirrorPipeline`, `GcpAccount`, `Onboarding` and `Governance` assume none and
  claim no liveness: a lost process strands a sync or a scan for good in this code.

## Proofs

The proof modules prove, for all values of the constants, the type invariant and
every other safety property of the passing runs, except that of `gcp_account`, and the
refinements of `deploy` and `mirror`.  They assume only the named assumptions (`GateAssumption`,
`WizardAssumption`, `LifecycleAssumption`, `MirrorAssumption`, `FailoverAssumption`,
`ConsoleAssumption`, `OnboardingAssumption`, `GovernanceAssumption`): bounds are
naturals, the model values that stand for "none" or for no worker are none of the
others, and subsets are subsets.

Three theorems have a hypothesis of their own, as the properties do not hold without
it.  `OneAtATime` (`SummaryShowsTheDraft`) says that there is one thread: the summary of
a page is of what its own tab saved, and a request the page has given up on could still
write after the next.  `MaxActive <= 1` says the same of `DeployLifecycle` for
`OneTaskForARow` and `RowsWithTasksSaySo`: with two requests at once a retry runs beside a
destroy.  What overlapping requests of the gate break is not a hypothesis of a theorem
but an exemption in the property, of the rows they met on (`raced`).

* `SnapshotsHaveNoHoles`: `StepsArePrefix` is not inductive, as `SaveWrite` writes
  what was read long before.  `PrefixInv` adds that the snapshot a handler carries
  to `save_write` is without holes and has the predecessors of its step; whatever
  the row holds by then is irrelevant, because all of it is replaced.
* `StoredIdNamesStoredCode`: `IdNamesTheCode` is not inductive, as `ValidatePass` writes
  the code only where it differs from what was loaded.  `IdInv` adds that a row's code,
  once there, does not vanish, and that what a validation has loaded is still the row's
  code unless another ran beside it (`LoadedOK`); and that two validations of a row which
  are under way together have marked it (`MeetingsAreMarked`).
* `DeployedRowsWereValidated`: `GateInv` follows a deployed row back through the
  places of `deploy`: a row with code has a complete passing scan, code is never
  taken away, a handler past the gate works on a row with code, and one past the
  upload on a row with `main.tf`.
* `AcceptedIdsAreOfTheirRow` combines the gate's comparison with the previous two.
* `StepsAreNotLost`, `UploadsAreComplete`, for any number of threads: `SaveInv` says that
  a request works on a row that exists or that it alone will insert (`RowsExist`), that
  saves of one row under way together have marked it (`SavesAreMarked`), that what a save
  has read is still what the row holds, and what has passed validation's or deploy's look
  is complete, if it is alone (`SaveAlone`), and that a row with stored code has all steps
  (`CodeIsComplete`).  The first
  is an action property: `SaveWrite` replaces the snapshot by what was read and one step.
* `WizardImplementsGate`: a step of `Wizard` is one of `CraftGate`'s or leaves its
  variables alone, so the theorems above hold under the wizard too.
* `WizardTypeCorrect`: `WaitingOK` adds that a request somebody waits for is the one
  its page shows as under way, so no answer reaches a page of another shape.
* `SummaryShowsTheDraft`: `SummaryInv` says that each step shown as done is in the
  latest draft with the value shown, unless it was typed into meanwhile
  (`BehindIsSaved`); that the one thread works for the request of the tab
  (`ServesTab`) on a row that is still a draft; and that a page that waits for a save
  has not gone past its step (`SaveIsNotBehind`).
* `TabsLoseNoStep`: under the wizard those two hold, and no two saves ever meet, however
  many threads there are.  `TabInv` says that only the thread that serves the tab's
  request saves, also when the page no longer waits for it.
* `DeletedProjectsStayEmpty` needs only the types: no action makes a row present
  once the project is deleted, since UPDATEs do not insert.
* `AppliesFindTheirHcl`: `HclInv` follows each way to a task: deploy uploads before
  it commits, and a row becomes `partial_failed`, which retry requires, only by the
  report of a task that had its `main.tf`.
* `CompletionsAreReal`: `CompletionInv` adds that a task which reports `completed`,
  or whose callback is publishing, has applied its row.
* `OnlyFaultsStrandRows`: a row in flight has a handler that owes it a task, a task
  that is alive, or a fault.  It is inductive with the types and the fact that a
  request has a task only when its handler is past the start of it (`RequestOK`).

* `OneTaskForARow`, `RowsWithTasksSaySo`: assuming `MaxActive <= 1`, for any number of
  requests and rows.  `SerialInv` says that a request is engaged in its row from the
  moment it has read it until its task has ended; that at most one is (`Exclusive`);
  that the row says so once the request has committed (`SaySo`), which is why the next
  one is refused; and that a row somebody is engaged in is there as long as the
  project is (`EngagedPresent`), so no new draft takes its place.  Delete requests with
  a task are outside, as in the properties.

* `OnlyLossLeavesRows`: `Books` relates the row, the run and the package of one
  number, and what a worker in phase 2 holds; a row says running only as long as
  its run is on its way or after a loss.  All the following rest on it.
* `NoDeploymentIsLost`: `HeldMessages` adds that a worker in `run` has exactly one
  run, triggered by its message (so a second run for a redelivered message belongs
  to another worker), and that a worker about to delete has seen its sync complete.
* `ReadyIsEarned`: `ready` is written by phase 2 or copied from a ready package; the
  books of the worker say that its package was exported before `MarkReady`.
* `LatestPackageIsInS3`: in a project without overlap at most one run is under way,
  while it is making a package there is no latest one, and from the upload to the
  record `main.tf` is its own (`OwnerInv`).  A failure in between leaves no latest
  package, never one with another's `main.tf`.
* `RowsFollowTheLastRun`: in such a project the run under way is the newest, and the
  two tables follow its place: empty, detected, mapped (`RowsInv`).  The rows of
  other projects stay because a row belongs to a run that has begun.

* `LifecycleImplementsRecord`: one lemma per kind of write (`SilentStep`, `DraftStep`,
  `StartStep`, `ResultStep`, `PurgeStep`) maps the actions to those of
  `DeploymentRecord`; that a row called `completed` or announced was applied is
  `CompletionInv`.
* `PipelineImplementsRecord`: one lemma per kind of step (`SilentStep`, `InsertStep`,
  `PackageStep`, `RunSteps`, `WorkerSteps`).  That a sync in the middle of its run has
  no outcome yet, and no package before `RecordPackage`, is `Books`; that a worker
  deletes only what is dealt with is `HeldMessages`.  `SentOnce` adds that a deployment
  which has not been announced has no message, so what has left the queue never
  returns.
* `SimulationsAreSafe`: `SimulationInv` adds that an absent row is not an actual one,
  so a row that is made for a simulation has no task yet, and never gets one, since a
  destroy tests the mode, which no step changes once the row is there.
* `ShownWordsAreReported`: every word on its way to the page is in `reported`, which
  only grows: in the events on the wire, in the hook's list (replayed or not), in the
  answers of the loops and in the rows themselves.  `CallsNameRows` says that a poll is
  of a row.
* `DeployConsole`: one invariant (`Inv`) carries all three theorems.  `Tables` says what
  the words of the rows rest on; `Waiting`, `Telling` and `Asking` that a request is
  answered only while the page that made it is mounted, that its answer was true when
  it was given and cannot become false, and that a deploy page asks once;
  `Remembering` that toast, timers and dashboard keep only what happened.
* `ShownOutcomesAreReal`: `Streaming` adds that the events on the wire and the last
  one received are true of the deployment the page names, which does not change while
  there is a socket.
* `OutcomesAreNotSkipped`: `Ending` adds that an ended stream sent an outcome last,
  behind all its log lines, so that the event the effect looks at once the wire is
  empty is the outcome.
* `MirrorConsole`: `Shapes` adds to the types that an answer is taken only by the
  page that asked (`Mounted`) and that a mapping is chosen while the editor is open
  (`Chosen`); both theorems rest on it.
* `SavedEditsStayHome`: `EditInv` follows a text from the list into the editor, into a
  request and into the row; the editor is closed whenever another mapping is
  selected, and a save that answers late only closes it.
* `ScansAreConfirmedOnce`: `ConfirmInv` is `Good` as long as `late` is false: polls
  are old only when their interval is gone (`PollsFollow`), the button is offered only
  for a scan nobody has confirmed (`OfferIsOpen`), at most one confirm of a scan is out
  or done (`OneConfirm`), and a confirm is waited for only by a page that shows
  "confirming" (`LiveOnPage`).  The steps of the governance pages and of the worker leave all of it
  alone.
* `GovernanceTypeCorrect`: the counters are the part that is not obvious.  `BooksInv`:
  a scan has been registered at most as often as confirms that had tested it are done,
  so that with those which have tested it and are not done there are no more than
  confirms.  `DriftInv`: the messages in the queue and the one in hand are no more than
  the changes reported.  `LiveInv`: only the mounted page waits for a request.
* `SettledPagesAreCurrent`: `Current` follows the read that was sent last: it has not
  been looked at yet or brings what is in the table now, and when no read is out the
  page shows that; `FitsChoice` says the same of the filter or period it was sent
  for.  Each of the causes named at `ShownIsCurrent` breaks it and sets `slipped`; no
  other step does.

Only model-checked: the liveness properties (`InFlightEnds`, `OutcomeReachesPage`,
`DestroyLoopEnds`, `TerminalEnds`, `StatusCatchesUp`), as fairness and `ENABLED` are
outside the prover; `KeyOfTheAccount`; and the two violations.

## What is not modelled

* The data of the wizard: names, subnets, presets and the text of the HCL.  A step's
  input is one of a few values, and the HCL is the snapshot.
* `fix_params` of `fix_retry`, which edits the snapshot of a row past the draft.
* Ownership checks (401, 403, 404 of another user's project): one user, one project.
* Audit rows, `error_message`, `ecs_task_id`, counters, timestamps other than order.
* What the callback starts after `completed` (`_run_detect_all`): with drift.
* Validation tools: `ValidationLoop.run` passes, needs a manual edit, or rejects.
* Language model clients, HTML, charts, metrics, migrations, infrastructure files.
* In MirrorOps: the mappings' contents, `snapshot_ref.json`, the image and the
  report (only `main.tf` is followed), edits of mapped code, counters and checklist
  texts, the deletion of a project while a run is under way.
* In the frontend: layout, styles, texts, the drawing of charts and diagrams, and
  values that are only displayed.  Two tabs of one user, except where other writers
  of the tables stand for them.
* Failover: which `main.tf` under `latest/` a failover runs, and the plan of a
  simulation.
* Drift: the diff of a baseline; baselines are a number (0 to 2).  The socket of the
  governance pages, which never delivers anything (see above).
* Accounts: verification and disconnection of the AWS account, the bucket policy (of
  all users at once), the race of two connections of one AWS account; of the GCP account
  how a key is validated and the registry made, and which key a pipeline run works with.  The refresh token, which is never used.
* The hub's Slack modal, which stores one string.

## Plan

Done: the gate and its wizard, the life cycle with its abstract record and its
pages, the pipeline with its pages, the failover, onboarding and governance.  Left,
in this order:

1. `FailoverConsole` with the `main.tf` a failover runs while a pipeline replaces
   `latest/`: the composition of failover and `MirrorPipeline`.
2. `DagEngine`: prerequisites and computed values as pure functions, against a
   reference definition over bounded inputs.
3. `Accounts`: two users and the bucket policy that is read, changed and written back.
4. `EventFlow`: the composition of deployment, EventBridge, MirrorOps and failover,
   with the promise of the README (every completed deployment has a package).  The two
   records are what it would be stated over.
