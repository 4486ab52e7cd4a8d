# CV-Asset-Archive: specifications, model checking and proofs

CV-Asset-Archive keeps images, videos, annotations and models in MinIO, describes them in
MongoDB, and does the slow work (checks, previews, imports, exports, physical deletion) in Celery
workers that take messages from Redis. The interesting behaviour is in what these parts do to the
same documents at the same time: there are no transactions, every operation is a sequence of
single-document calls, and API process, worker or broker may stop between any two of them. This
directory models those sequences in TLA+, checks them with TLC on small instances and proves the
main invariants with TLAPS for all instances.

Paths below are relative to `src/`.

## 1. Inventory

| Component | Code | State | Operations | Modules |
|---|---|---|---|---|
| Export jobs | `backend/app/routers/jobs.py`, `worker/tasks.py` (`build_export`), loops in `backend/app/main.py` | `jobs` document (state, `cancel_requested`, `updated_at`), archive in MinIO, messages in Redis | create, dispatch, execute with retries, cancel, resubmit, stale monitor, TTL expiry | `JobLifecycle`, `ExportJob` |
| Upload completion and processing | `backend/app/routers/assets.py` (`complete_upload`), `jobs.py` (outbox), `worker/tasks.py` (`process_asset`) | upload session, `assets` document, `jobs` document with `dispatched_at`, object in MinIO | complete, cancel the session, dispatch the outbox, process, resubmit, stale monitor | `UploadProcess` |
| Dataset writes | `backend/app/routers/datasets.py` | write lease, restore mark, backup, memberships, versions and their rows, current version | lease and renewal, add and remove members, publish, restore, resume a restore | `DatasetWrites` |
| Version comparison | `backend/app/dataset_versioning.py` | two cursors, counters, detail list | streaming merge | `VersionCompare` |
| Assets library, trash, shared objects | `assets.py`, `worker/tasks.py` (`process_asset` de-duplication, `empty_trash`) | `assets` documents, upload sessions and processing tasks that refer to the same objects | initialise and complete an upload, de-duplicate, clean up, delete, restore, empty the trash | `AssetObjects` |
| Relations and derived members | `backend/app/routers/relations.py`, members in `datasets.py`, deletion in `assets.py` | `relations` with revisions, `dataset_memberships`, rows and counts of versions | create, revoke with compensation, match by name, add, remove, copy, link models, delete assets and datasets, synchronise | `Relations` |
| Bundle import | `worker/tasks.py` (`import_cvat_annotation_bundle`, `_rollback_bundle`) | assets, objects, previews and relations of one archive | import, roll back, run again | `BundleImport` |
| Upload of large files | `assets.py`, `storage.py`, `frontend/src/uploadTransfer.ts`, `uploadPause.ts`, `App.vue` | upload session, chunks, composed object; lanes, pause flag and `localStorage` of the browser | open, send, pause, reload, resume, complete, cancel, expire, sweep | `UploadTransfer` |
| Parameters, tags, formats | `parameters.py`, `model_parameters.py`, `tags.py`, `admin.py` | metric categories, definitions, values of models; tags; formats | create, rename, delete, use | `Catalogue` |
| Users, roles, sessions | `admin.py`, `auth.py` | users with a copy of their role's permissions, role templates and overrides, `refresh_sessions`, login failures in Redis | log in, refresh, log out, manage | `Accounts` |
| Annotation parsing, overlay, collections, saved views, projects, overview, search, impact preview, audit | respective routers, `annotation_overlay.py`, `asset_impact.py`, `audit.py` | single documents or reads | parsing, CRUD, aggregation | not modelled |
| Start-up | `main.py`, `bootstrap.py`, `migrations.py`, `database.py` | indexes, migrated documents | loops, idempotent steps | the loops in `ExportJob`, `UploadProcess`, `UploadTransfer`; migrations not modelled |
| Frontend | `frontend/src` | upload queue, lists, token | pause, resume, refresh, list | the transfer of a large file; the rest not modelled |
| Deployment, scripts, tests | `deploy`, `scripts`, `backend/tests` | none at run time | | not modelled |

How the parts interact. An API request writes documents and sends a Celery message. Celery
acknowledges a message when a worker takes it, so a worker that dies loses it. The worker changes
the same documents, and a decorator writes a heartbeat every 15 seconds while a task runs. Every
minute the API looks for running jobs nobody has updated for `JOB_STALE_MINUTES` and fails them,
and sends processing jobs that have no `dispatched_at`. MongoDB removes old jobs by a TTL index.
Dataset writes hold a lease in the dataset document that a background task renews. Relations and
members are kept in step by the requests that change one of them: each first writes its own
document and then synchronises the datasets it may have touched. The browser puts the chunks of a
large file into MinIO itself, at URLs the API has signed, and asks the API to compose them.

What is hard: two deliveries of one job (Celery's retry, the outbox, the user's resubmission);
cancellation at any point; a worker or the API dying between two calls; loops that read and then
update; compensation that itself fails; a lease that runs out below a running write; derived data
written after the data it derives from; a request the client has given up and repeats while the
first one goes on.

What makes the components correct:

* an export that can be downloaded has its archive; a cancelled one is not completed and leaves no
  archive; no job stays running or queued for ever;
* a completed upload is processed, by one worker at a time, and a succeeded job has its asset;
* a ready asset of the library has its file; equal files are stored once; an object nobody refers to
  is removed in the end;
* writes of one dataset exclude each other; a restore is all or nothing and finished before the
  next write; a listed version has all its members;
* a comparison counts every difference once and says when it does not show them all;
* a dataset has the annotations related to its images; a pair has one active relation; what is
  deleted is linked to nothing; a version's counts are those of its members;
* an import that succeeded lacks nothing and has nothing twice, one that failed leaves nothing;
* a file that was sent becomes one asset, its chunks are kept as long as they can be used and no
  longer;
* users have the permissions of their role, and a user whose data or permissions changed no older
  session;
* metrics, categories, tags and formats that are used are defined.

## 2. Plan

1. `JobLifecycle`, `ExportJob`: the job protocol, with an abstract life cycle it implements. Done.
2. `UploadProcess`: outbox, claim and monitor around one upload. Done.
3. `DatasetWrites`: lease, restore, publication. Done.
4. `VersionCompare`: the merge as a pure algorithm. Done.
5. `AssetObjects`: several assets sharing stored objects under de-duplication, overwriting, trash,
   restoring and emptying. Done, with theorems on all its invariants.
6. `Relations`: relations with their revisions, the members derived from them, and deletions, which
   change members and versions without the lease. Done, with theorems on all its invariants.
7. `BundleImport`: the import of an archive, its rollback and its repetition. Done, with theorems on
   all its invariants.
8. `Accounts`: sessions, the limit on logins, users and roles. Done, with theorems on its invariants.
9. `Catalogue`: metrics, tags and formats with what refers to them. Done, with theorems on its
   invariants.
10. `UploadTransfer`: a large file from the browser's lanes to the composed object, with the sweep.
    Done, with theorems on the sweep, on types and on `UploadsAreSingle`.

Every invariant a passing run checks is now also a theorem (part 6). All modules avoid RECURSIVE operators.
What could come next are components that are not modelled yet: collections, saved views and projects,
which refer to assets as datasets do, and the impact preview, which reads what `AssetObjects` and
`Relations` write.

## 3. Conventions

One action per call of the code to MongoDB, MinIO or the broker, so that any two requests,
deliveries or loops interleave between any two calls. `pc`-like functions (`step`, `call`, `pc`)
name the call that comes next. What the environment may do is a set of event kinds: each behaviour
chooses one set from the constant `Environments` at the start (`events`, which never changes), and
actions that model faults or optional user actions test for their kind. A property that needs an
assumption about the environment has it as an explicit antecedent over `events`; the comments say
why it is needed, and part 5 what happens without it. Definitions introduced by `Slip:` in a comment
are plausible slips of the code; nothing in a specification uses them, they serve to confirm that the
properties notice them.

`CHECK_DEADLOCK FALSE` everywhere: all messages may be consumed and all requests answered, and then
nothing has to happen.

## 4. The modules

### `ExportJob` and `JobLifecycle`

`CreateExport`, `RetryJob`, `SendTask`, `SendTaskFails`, `ReportSendFailure` are the steps of
`create_export` and `retry_job`; `CancelJob` is `cancel_job`; `FindStale`, `MarkStale` the two calls
of `reconcile_stale_jobs`; `Receive` to `DiscardArchive` are `build_export` between its calls;
`ReportFailure` is `fail_job` followed by Celery's decision to retry. An `OSError` is possible at
every call, and once more when the temporary directory is left, after the archive was stored
(`RaiseOSError` under `cleanup_error`): the task is then repeated with its archive in storage.
`overdue` stands for
`updated_at` older than the limit: `GrowStale` sets it when no live delivery exists (a live one has
a heartbeat), every update of the document clears it. Packing assets is one repeated step with the
cancellation check the code does per file.

`JobLifecycle` is what the task centre shows: state, cancellation mark and archive. It permits a
completion only with the archive in place and removal of the archive only after a cancellation or
expiry. `ExportJob` implements it under a refinement mapping that forgets everything else
(`Lifecycle == INSTANCE JobLifecycle WITH ...`).

Not in the model: what is packed, progress values, the size of the archive, listing and filtering.

### `UploadProcess`

`BeginComplete` to `ReportDispatchError` are the calls of `complete_upload`; `BeginAbort` and
`DeleteSession` `cancel_upload_session`; `FindPending` to `MarkPendingDispatched` the outbox loop;
`RetryJob`, `ResetAsset`, `ResendTask`, `ReportResendFailure` `retry_job`; `FindStale`, `MarkJob`,
`MarkAsset` the monitor; `Receive` to `FailAsset` `process_asset`, with the claim in `Claim`. `kind`
distinguishes a plain file from an annotation bundle, whose asset and object disappear when it has
been imported. Checks, digests, previews and the import itself are the step `Work`, which needs the
object and may fail. The asset is not shared with others: de-duplication is left to `AssetObjects`.

### `AssetObjects`

An upload gives its name to its session, to the asset it creates, to the object it stores and to its
processing task, so two identifiers are equal exactly when the code derives one from the other.
`Initialize` is `initialize_upload` (a new file, or the object of an active asset with the declared
hash), `Put` the transfer, `ReadTarget` and `StoreAsset` the two halves of `complete_upload`: it
reads the asset to overwrite and its object first and replaces the document later. `Take` to
`Update` are `process_asset` between its calls: it reads the asset's key, digests the object, looks
for an active asset of the same content, removes its own object and writes key, hash and state back.
`CheckReplaced` and `RemoveReplaced` are `cleanup_replaced_object`, `Finish` the write of the job's
success; `Raise`, `FailAsset` and `Retry`
the except branch and what may follow it. `Archive` is `batch_delete`, `Restore` `restore_trash`;
`ListTrash`, `CountReferences`, `RemoveListed`, `DeleteAsset`, `SkipAsset` are the worker's
`empty_trash`, whose list is read once.

`pool` tells a worker that runs several tasks at once from one started with `--pool=solo`
(`WorkerFree`); a worker that died in a task takes the next one before the monitor reports the
failure. The job around a task is in `UploadProcess`, the links a deletion removes in `Relations`.
Not in the model: previews, bundles, the list of
keys one emptying has already removed (an object key is never given to a new file, so removing it
twice has no effect), expiry and cancellation of sessions, a session completed twice, two emptyings
at the same time.

### `DatasetWrites`

`Acquire`, `LeaseExpires`, `RenewFails`, `Leave` are `serialize_dataset_write`; `ReadPending` and
the shared `ClearMembers`/`FillMembers` are `_resume_pending_restore`; `StartRestore` to
`DropRestoreBackup` are `restore_version`, `Undo*` its except branch; `AddMember` to `UndoEdit`
members; `StartPublish` to `UndoPoint` `publish_version`. `Error` raises before a call took effect,
`LateError` after, `UndoError` in compensation, `Crash` ends the process. A request's own name is
its token, its restore id and its version's id. `content` is a ghost: the members the completed
operations add up to.

### `VersionCompare`

The loop of `compare_version_memberships`, one asset id per step: `Added`, `Removed`, `Matched`,
`Respond`. The specification is `CompareSpec`, as its proofs share a module with those of
`DatasetWrites`. Cursors are the sets of ids they have still to deliver; the next id is the least. The
sorting is MongoDB's, relied on by the code through the index.

### `Relations`

The state is the rows of `relations` (a pair with its revision and status), the members of datasets,
the rows of the published versions and what their counts were computed from (`summary`), and the
requests with what each remembers. `StartCreate`, `Check`, `Insert` are `create_relation` (and its
batch, `create_relations`); `Taken` is the unique index on pair and revision. `StartRevoke`,
`Revoke`, `UndoRelation` are `revoke_relation` with its compensation. `StartMatch` and `NextPair` are
the matching by name: the preview computes from stems and claims which pairs are ready, and creates
them one after the other. `AddMember`, `Adjust`, `RemoveMembers`, `UndoMembers` are the members of a
dataset, `StartCopy` to `RemoveCopy` `copy_dataset`, `StartLink` and `StartUnlink` the models of a
version. `StartDelete` to `StoreSummary` are `batch_delete` with the confirmation for linked assets,
`RestoreTrash` the way back, `StartDrop` to `CloseDataset` `delete_dataset`.
Every one of them ends in `Synchronise` where the code does: `ListImageDatasets`,
`Compare`, `Include`, `Exclude` are the calls of `sync_annotation_datasets`, a difference computed
from one reading and applied in two writes. `SyncRaises` and `UndoRaises` are failures of the
synchronisation and of the compensation, `Crash` the end of the process.

A dataset has at most one published version, and its lease is held to the end: expiry, restores and
publications are in `DatasetWrites`. Not in the model: replacing a relation (a revocation followed
by a creation), the lineage graph, pages and the impact preview.

### `BundleImport`

One archive and the runs of its processing task. `Init` chooses what the archive contains: which
names the images have and what each annotation entry refers to; `Plan` is what the code imports of
it, in the YOLO form (pairs of equal stem) or as documents, and `Comes` the order. For every item `FindAsset` or
`FindRelation` looks whether an earlier run has it (YOLO only), `StoreObject`, `StorePreview`,
`InsertAsset`, `InsertRelation` are the calls that create it. `Raise` is the except branch;
`ListImported`, `RemoveFiles`, `DeleteRelations`, `DeleteAssets` are `_rollback_bundle`.
`RemoveArchive`, `DeleteArchive`, `Succeed` are the end of `process_asset`, `RaiseLate` and `FailJob`
its except branch; `GiveUp` is the monitor that gives up a run without a heartbeat, which may go on
all the same. `Revoke` and `Relate` are users who change relations of imported assets. An asset's
name is its item and the run that created it.

### `Accounts`

`StartLogin`, `CountFailures`, `Verify`, `Increment`, `SetExpiry`, `ClearFailures`, `IssueTokens`
are `login`; `TakeSession` and `ReadUser` the first half of `refresh`, whose second is
`IssueTokens`; `Logout` takes the session away. `InsertUser`, `UpdateUser`, `DeleteUser` and
`RevokeSessions` are the administration of users; `CreateTemplate`, `SaveRole`, `SpreadRole`,
`FindBoundUsers`, `DropRole` that of roles, custom ones and presets with an override, whose
permissions are copied to the users that have the role. `issued` (which token was issued for which)
and `changes` are ghosts; `changes` counts what `docs/system-design.md:88` says revokes sessions: the
administrator's changes of a user, and the changes of a role that give its users other permissions.
`update_role_template` and `update_role_definition` revoke nothing, and `SpreadRole` neither. A set of permissions is one value. Not in the model: which endpoint needs which
permission, user names, passwords and their rules, access tokens, the audit.

### `Catalogue`

Three groups of definitions with what refers to them by name. `CountMetrics`, `DropCategory`,
`RenameCategory`, `MoveMetrics`, `EnsureCategory`, `DefineMetric`, `RemoveMetric`, `ClearValues`,
`LookUpMetrics`, `SaveValues` are the calls on metrics, their categories and the values of models;
`SearchTag`, `DropTag`, `ReadTags`, `WriteTags` those on tags; `CompareFormats`, `CheckFormat`,
`ChangeFormat`, `SearchFiles`, `WithdrawFormat`, `UploadFile` those on formats. Each read whose
answer can be stale when it is used is a step of its own. The specification is `CatalogueSpec`, as
its proofs share a module with those of `AssetObjects`. Not in the model: built-in definitions (they cannot be renamed or
deleted), metric names within a category, `update_tag`, archived assets, and the tags an upload sets.

### `UploadTransfer`

Browser and API together, for one file of 64 MB or more, the size from which `initialize_upload`
asks for chunks. `Start` is the user's choice of the file with the look-up of its name; `AskStatus`,
`OpenSession`, `Refuse`, `AskChunks`, `MissSession`, `AskCompletion` are the requests of
`transferUploads`; `lane` holds its `uploadChunk` loops, which share `pending` and outlive the
transfer that failed. `StoreChunk`, `FailChunk`, `Pause`, `Resume` are `UploadPauseController`: a
pause aborts the requests, some of which have stored their chunk; `EndTransfer` is the end with its
`finally`. `Reload` leaves only `localStorage` (`kept`). `CheckSession` to `ClearChunks` are
`complete_upload` as far as chunks are concerned, `LoseAnswer` its answer lost on the way;
`StartCancel` to `RemoveSession` cancel a session, `Expire` is the TTL index, `ReadActive` and
`RemoveUnused` the hourly sweep. `Age` says that a chunk was last modified more than 24 hours ago;
a session lives for 24 hours and its chunks are stored later than it was opened, so this implies that
the session has run out or was removed.

A session is named by the transfer that opened it. Not in the model: files below 64 MB and their
batch requests, several files at once, progress; a file of the same name and size but other
content, for which `chooseFile` resumes the old session.

## 5. Model checking

| Run | Instance | What it shows |
|---|---|---|
| `export` | 2 deliveries, 1 request, 3 retries each (the code's number); environments: everything; submitted once and no failure after the archive is stored; faults without losses | Type invariant; a downloadable job has its archive; a job submitted once leaves no archive after a cancellation; refinement of `JobLifecycle`; running and queued jobs come to an end (`JobsEnd`) |
| `upload` | 2 deliveries, 1 request, 1 retry; five environments, one completion | Type invariant; one owner at a time; succeeded stays processed; a completed upload is processed; processing ends |
| `dataset` | 3 writers, 2 assets, all environments | Type invariant; exclusion of requests whose renewals work; no write over an unfinished restore; restores and failed publications are all or nothing |
| `assets` | 3 uploads, 2 contents; solo worker with overwriting, hashing or restoring, pool with hashing or trash | Type invariant; files of the library are kept; orphans are removed; equal files share an object |
| `asset_shared` | 3 uploads of files with declared hashes, repeated before processing | Counterexample to `ReadyHasObject` |
| `version_compare` | 4 ids, 2 snapshots, 2 details | The answer equals that of a comparison of sets, for all pairs of versions |
| `relations` | 2 requests, 2 images, 2 annotations, 1 model, 2 datasets, 2 revisions; five environments with one request after the other, four with overlapping ones, one with failing compensation | Type invariant; datasets have the annotations of their images; one active relation per pair, and previews that keep their promise; deletions leave no link; versions are counted anew |
| `bundle_import` | 2 runs, up to 2 images and 2 annotation entries, every assignment of names; seven environments | Type invariant; imports are complete, single, and vanish when they fail |
| `accounts` | 3 requests, 2 users, 1 preset and 1 custom role, 2 sets of permissions, limit of 2 failures; six environments | Type invariant; a token is good once; users changed by an administrator have no older session; permissions follow roles |
| `accounts_lockout` | 3 requests, 1 user; Redis fails | Counterexample to `LockoutEnds` |
| `catalogue` | 5 requests on 2 categories, 2 metrics and 1 model; on 2 tags with 2 values; or on 3 types with 2 extensions; with crashes | Type invariant; whatever is named is defined, an extension leads to one type |
| `upload_transfer` | 2 transfers of 3 chunks by 2 lanes, 1 pause; five environments | Type invariant; one file becomes one asset; the sweep spares open sessions; no chunk stays; every transfer ends |

Further configurations, beside the runs, show environments in which a property that one would expect
does not hold. Each ends with a counterexample (`tlc -config <configuration> <module>`); the next
section says what it means.

| Configuration | Module | Instance | Violated |
|---|---|---|---|
| `ExportJobCleanup.cfg` | `MCExportJob` | as `export`; cancellation and a failing temporary directory | `CancelledLeavesNoArchive` |
| `ExportJobResubmit.cfg` | `MCExportJob` | as `export`; cancellation, errors, resubmission; under fairness | `QueuedEnds` |
| `UploadProcessClaim.cfg` | `MCUploadProcess` | as `upload`; errors before the claim | `ProcessedByOne` |
| `UploadProcessResend.cfg` | `MCUploadProcess` | as `upload`; errors, resubmission, the API dies; under fairness | `QueuedEnds` |
| `DatasetWritesRenewal.cfg` | `MCDatasetWrites` | as `dataset`; a renewal raises | `OneWriter` |
| `DatasetWritesInterrupted.cfg` | `MCDatasetWrites` | as `dataset`; the process ends | `PublishedVersionsComplete` |
| `RelationsTogether.cfg` | `MCRelations` | as `relations`; relations and members change together | `DatasetsFollow` |
| `RelationsDeleted.cfg` | `MCRelations` | as `relations`; images are deleted, one request after the other | `DatasetsFollow` |
| `RelationsRevoked.cfg` | `MCRelations` | as `relations`; failing revocations meet creations | `OneActiveEach` |
| `RelationsCounted.cfg` | `MCRelations` | as `relations`; two deletions together | `SummariesAreCurrent` |
| `AccountsRoles.cfg` | `MCAccounts` | as `accounts`, 1 user; roles change, one request after the other | `ChangedUsersHaveNoSession` |
| `AccountsOverlap.cfg` | `MCAccounts` | as `accounts`, 1 user; users change while they log in or refresh | `ChangedUsersHaveNoSession` |
| `CatalogueTags.cfg` | `MCCatalogue` | as `catalogue`, 2 requests that overlap on tags | `UsedTagsStay` |
| `CatalogueCategories.cfg` | `MCCatalogue` | 2 requests that overlap on metrics; 1 name, so that nothing is renamed | `UsedCategoriesStay` |
| `CatalogueValues.cfg` | `MCCatalogue` | 2 requests that overlap on metrics | `DeletedMetricsHaveNoValues` |
| `UploadTransferCancelled.cfg` | `MCUploadTransfer` | as `upload_transfer`; a reload, then a cancellation | `NamesAreSingle` |

Why the bounds are enough. The hazards of the job modules are between two executions of one job, so
two deliveries, each of which Celery may send again, meet in every order; a third only repeats one
of the pairs. One request at a time is enough there because resubmission, outbox, monitor and
cancellation are processes of their own. Three dataset writers give a publication, a restore
interrupted anywhere and the write that resumes it; two assets let a member list be half written.
Three uploads of two contents are an asset, a duplicate of it and a third
that overwrites, reuses or meets either of them. Four ids with three possible rows contain every
step of the merge at both ends and more
differences than details. Two requests on relations meet in every order at every call; two images of
one dataset and two annotations let one relation end while another keeps its annotation, and two
revisions are a relation created, revoked and created again. Two runs of an import are the one that
fails and the one that finds what it left; two images and two entries contain pairs, shared names
and unmatched ones. Three requests on accounts are a login, a change and a refresh, or three failed
logins beyond the limit; the five requests of `catalogue` come one after the other and build up, use
and remove a definition. Two transfers are one that fails and the one that takes over; three chunks
on two lanes leave one in `pending`.

Fairness. Deliveries, requests in progress and background loops take their next step (weak
fairness), because workers, the event loop and the loops started in `main.py` run on. Time passes
(`GrowStale`). A loop that sends each minute is eventually accepted by the broker (strong fairness
of `DispatchPending`). `UploadTransfer` assumes that requests are answered one way or the other,
that a user who paused resumes, that sessions run out and chunks grow old, and that the sweep goes on
every hour; `Accounts` that requests go on and that Redis removes what has a time to live. Users,
faults, expiry and crashes are not fair: nothing depends on their
happening.

`FilesAreKept` names the conditions under which a ready asset has its file (`Careful`): on a pool
nothing else gives up objects (no early repetition, no overwriting, no trash); where clients declare
hashes, a file is not uploaded again before its first upload has been processed, and no asset is
overwritten; restoring meets only deletion and repetition. `assets` contains a maximal environment for each of these cases;
outside them the invariant really fails, see below.

The other modules name their conditions in the same way. `CancelledOnceLeavesNoArchive` needs a job
submitted once, a worker that lives and a temporary directory that can be removed; `OwnersExclude`
that no failure is reported by anyone but the owner and the monitor; `ProcessingEnds` that the upload
is completed once. `AnnotationsFollow` needs that
synchronising requests do not overlap and no image is deleted; `RelationsAreSingle` that neither a
failing revocation nor a deletion of assets or datasets meets another request; `DeletionsUnlink` that nothing is linked while it is deleted;
`VersionsAreCounted` that one deletion corrects counts at a time. `ImportsAreSingle` holds for
documents only as long as failed runs are rolled back. `SessionsAreCurrent` (its second half) needs
that no role changes; it, `GrantsFollowRoles` and `ReferencesAreDefined` need requests that come one after the other.
`UploadsAreSingle` needs that a completion the browser no longer sees and the loss of its session do
not come together. Each condition was dropped in turn, and TLC, or the attempt to prove the
property, found the case described below; where a document of the repository promises the property
without the condition, a configuration shows the case.

Symmetry is used in the runs of datasets, assets, relations, imports, `accounts` and the catalogue,
whose properties are invariants and name no element of the permuted sets; not in runs
with liveness properties.

### What the counterexamples say

Jobs and uploads:

* **A cancelled export may keep its archive** (`ExportJobCleanup`; `docs/operations.md:52`). Leaving
  the temporary directory raises after the archive was stored; the task is repeated, the user
  cancels, and the repeated task returns at one of the checks before the upload (`tasks.py:896`,
  `902`, `928`, `948`), of which none removes the archive. A worker that dies at that place, or a
  resubmission beside an earlier delivery, has the same effect.
* **A resubmitted job may stay queued for ever**, against the same line (`ExportJobResubmit`) and
  `docs/releases/v1.6.0.md:27` (`UploadProcessResend`). `retry_job` keeps `cancel_requested` of a job whose
  cancellation was followed by a failure report, so each worker returns at its first check; it keeps
  `dispatched_at`, so the outbox does not see a job whose message was never sent.
* **Two workers may process one asset** (`UploadProcessClaim`; the same release note). A duplicate message
  that fails before its claim reports the job of the other delivery as failed, is repeated, and
  claims it.
* **A file may become two assets although its name is refused** (`UploadTransferCancelled`;
  `docs/api-conventions.md:48`). The name is compared when a session is opened; a completion goes on
  behind a reload while its session is cancelled, and the file is sent in a second session.

Library, datasets and relations:

* **A ready asset may lose its file to de-duplication** (`asset_shared`). The third upload of one
  file reuses the object of the first; its processing finds the second as the duplicate and removes
  the object, which the first still has. `process_asset` asks nobody, while
  `backend/tests/test_worker_parsers.py:266` demands of `cleanup_replaced_object` that an object
  others refer to stays.
* **Two requests may write a dataset together** (`DatasetWritesRenewal`; `docs/datasets.md:18`). A renewal
  that raises ends the renewing task, the write goes on without the lease.
* **A version may lack its members** (`DatasetWritesInterrupted`; `docs/datasets.md:3`). The process ends
  between the version document and its members; unlike a restore, a publication leaves no mark that
  the next request would follow.
* **A dataset may have an annotation without its image** (`docs/api-conventions.md:79`). Two requests
  compare before either writes (`RelationsTogether`), or the image was deleted, which synchronises
  nothing (`RelationsDeleted`).
* **A pair may have two active relations** (`RelationsRevoked`; `docs/api-conventions.md:78`,
  `docs/relation-revoke.md:19`). A revocation that fails makes its row active again although the
  next revision is there.
* **A version's digest may be that of members it no longer has** (`RelationsCounted`;
  `docs/datasets.md:3`). Of two deletions, the one that read first stores last.

Accounts and definitions:

* **A user may be locked out for ever** (`accounts_lockout`). The counter of failed logins gets its
  time to live by a second call of Redis. If that one fails, the counter stays, and once it has
  reached the limit `login` refuses before it looks at the password.
  `docs/api-conventions.md:46` speaks of five failures in five minutes.
* **A change of a role revokes no session** (`AccountsRoles`). `docs/system-design.md:88` says that a
  change of a user's permissions does. Access is checked against the new permissions all the same, as
  the same line says.
* **A changed user may get a session** (`AccountsOverlap`; `docs/api-conventions.md:100`). A login or
  refresh that read the user before the change stores its session after the others were deleted; a
  process that ends between the two writes leaves all of them.
* **A definition that is used may be deleted** (`docs/system-design.md:47`,
  `docs/model-parameters.md:20` and `:21`): a tag put on an asset between search and deletion
  (`CatalogueTags`), a category in which a metric is created between count and deletion
  (`CatalogueCategories`), a metric whose value is saved behind the clearing (`CatalogueValues`).

### What the conditions of the properties leave out

What else one might expect and the code does not do, or not always. No document of the repository
speaks of these cases, or not clearly enough; each was found by dropping a condition or by
checking the stronger property.

Jobs and uploads:

* `fail_job` can replace `cancelled`, and a second delivery can turn a succeeded export back to
  running (`JobLifecycle` allows both). While two deliveries process one asset, the error of one may
  be written over the result of the other.
* An upload that is completed twice may stay in processing for ever. The completion replaces the
  asset (`assets.py:537`) and inserts the job only if there is none (`$setOnInsert`); if the job of
  the first completion has succeeded by then, the second message finds nothing to claim
  (`tasks.py:768`) and the asset stays `processing`. It takes two completions that overlap, or one
  that is repeated after the API died before it closed the session.
* A session that ran out or could not be looked up behind a completion has the same effect as the
  cancelled one of `UploadTransferCancelled`. After a lost answer, a user who agrees to a renaming gets
  the file twice anyway.
* The object composed for a session that is then abandoned stays in storage: the sweep looks at
  chunks only. A failed look-up of a session makes the browser open another one and send everything
  again.

Library, datasets and relations:

* An asset restored while the trash is being emptied is removed all the same, or keeps a removed
  object; on a pool two assets of the same content can each take the other's object and remove their
  own; an overwrite completed while the asset is processed is lost, and its object stays behind; when
  a hash was declared as well, a third upload may have taken over that object and lost it again
  before the task writes the old key back, so that the asset is ready without a file (four uploads,
  found when the proof of `FilesStay` failed); a
  failed asset keeps its hash, so a later upload of the same file may reuse an object that is not
  there (its own processing then fails).
* A relation created while annotations are matched can give an image two annotations. A deletion of
  the dataset or the asset that removes the rows of a pair while a creation has read their last
  revision leaves two active rows in the end: the next creation starts again at the first revision,
  and the unique index refuses neither (found when the proof of `RelationsStaySingle` failed).
* An asset deleted while it is linked, added or copied keeps the link.

Imports:

* A rollback that stops half-way has removed files and leaves assets; the next YOLO run takes these
  for imported and succeeds without their files.
* Documents carry no import key that is looked up: after a late failure or a crash, everything is
  imported again. A run that was given up and goes on imports beside the next one, and its rollback
  takes the
  other's assets away.
* A relation a user made to an imported asset outlives the rollback of that asset; the files of an
  asset whose insertion failed stay.

Accounts and definitions:

* A user created or bound while its role is deleted or changed keeps a role that is not there, or
  other permissions; a user saved after a preset role was overridden gets the preset.
* A category renamed while a metric is created in it leaves the metric with the old name. Two
  formats created at the same time for one type are both stored, as no unique index forbids it.

## 6. Proofs

TLAPS checks the theorems for all values of the constants, under the assumptions the modules name.
These say no more than that limits and bounds are natural numbers (positive where the code needs
one), that unset values differ from set ones, that kinds of assets, and assets and datasets, have
different identifiers, that a version has finitely many members and that environments consist of
known kinds of events. The antecedents of the properties (see part 5) stay in the theorems; each is
met by an environment of the run that checks the property.

| Module | Theorems | Argument |
|---|---|---|
| `ExportJobProofs` | `TypeCorrect`, `DownloadsWork`, `CancellationHolds`, `ImplementsTheLifecycle`, `CancellationCleansUp` | `DownloadableHasArchive` is not inductive: the completion needs to know that the archive is still there when it writes the state. `ArchiveInv` adds that a delivery which verifies or completes has stored it unless there is a mark or the job expired, that a delivery removes an archive only under a mark or after expiry, and that a cancelled job has the mark. The refinement maps every step to one of `JobLifecycle` or to stuttering under the same invariant. `CancellationCleansUp` needs more: a job submitted once has one message, and its archive exists only while that delivery still has to look at the mark, or when the job can no longer be cancelled (`OnceInv`). A failure between storing the archive and that look would break it, which is why the property excludes one. |
| `UploadProcessProofs` | `TypeCorrect`, `OwnersNeverOverlap`, `ResultsStay` | `OneOwner` holds because an owner implies a running job and a claim needs a queued or failed one; so whoever leaves `running` must be the owner or know there is none. `OwnerFacts` says this of the monitor, whose query precedes its update, and of the failed resubmission, which the assumption on the environment excludes. For `ResultsStay`, `ProcessedInv`: the asset is stored before there is a job and not again, a delivery about to report success has processed it, and only an imported archive can still fail, which does not bring its asset back. |
| `DatasetProofs` | `DatasetWrites`: `TypeCorrect`, `RenewedExclude`, `WritersNeverOverlap`, `WritesWaitForRestores`, `RestoresAreWhole`, `PublicationsAreWhole`, `CurrentVersionIsListed` | `LeaseInv`: a renewed request holds the lease. With all renewals working that excludes other writers, so the restore's and publication's step lemmas consider one request (`RestoreFrame` for the others). `RestoreFacts` relates members, what is still to be written, version and backup at each step; `PublishFacts` the version document to its rows and the pointer. `CurrentVersionIsListed` is one half of `PublicationsAreWhole`. |
| | `VersionCompare`: `CompareTypeCorrect`, `CountsAreRight`, `DetailsAreRight`, `TruncationIsHonest`, `AnswersAreRight` | `MergeInv`: counters and details are those of the ids already seen, which are the least ones of both versions. |
| `AssetProofs` | `AssetObjects`: `TypeCorrect`, `NothingIsForgotten`, `FilesStay`, `ContentsAreStoredOnce` | That a task works with a real object key needs that every asset, every session begun and every decision of a task has one (`KeysAreSet`). `HeldInv`: without overwriting every object in storage is that of an open session or of an asset which an emptying will not remove without it; a task removes its own object before it gives it up. The files need one invariant for each of the three cases of `Careful`, because they are safe for different reasons. `UndeclaredInv`: without declared hashes a hash is the mark of a task that succeeded, and assets of equal hash already share their object. `RestoringInv`: a task takes over only the object of an asset whose own task is over, and an emptying has on its list every asset of the trash, none of which comes back meanwhile. `InTurnInv`: of one content one upload is under way at a time, so that an asset found as a duplicate is settled. `ContentsAreStoredOnce` follows from the same three. |
| | `Catalogue`: `CatalogueTypeCorrect`, `ReferencesHold` | `ReferencesAreDefined` speaks of the times when no request is under way, so the invariant has to say what holds while one is. With one request at a time (`OneIsBusyInv`), each group has its own: `MetricInv` allows a metric whose category was just renamed until the second write has moved it, and a value whose metric was just removed until it is cleared; it knows that a category is renamed or dropped under the name that was read. `TagInv` and `FormatInv` do the same for a tag between search and removal, and for a format between the look at its files and its change. A crash between two writes is what the antecedent of the first two parts excludes. |
| `BundleImportProofs` | `TypeCorrect`, `ImportsEndComplete`, `ImportsStaySingle`, `FailedImportsGo` | The ground is the plan of an archive: what is left of it has a first item, a relation comes after both of its entries, and an image occurs in one relation at most (`RelationsComeLast`, `PlanHasOneSource`, for the pairs of YOLO and the matches of documents). So a run that inserts a relation knows both assets (`Progress`). Without lost heartbeats one run works at a time, on assets that are there (`AloneInv`). `SinglesInv`: the YOLO import is about to create only what is not there. `UndoneInv`: where nothing but a rollback ends a failed run, all assets are those of the run under way, and its files those of its assets and of one more, so that a rollback leaves these only. `DanglesInv`: when assets are deleted, no relation is left. `CompleteInv`: once the archive is removed nothing is missing and nobody imports or rolls back any more; before, a run has stored and related all it is done with. It needs that an interrupted import is never rolled back half-way, for which `FreshInv` shows that without users and failing calls no run meets a relation it is about to insert. |
| `UploadTransferProofs` | `SweepSpares`, `TypeCorrect`, `UploadsStaySingle` | `SweepInv`: an old chunk belongs to a session that was removed or ran out. A session never comes back, which needs that each is opened once, by its own transfer; a chunk is stored under a session's name only (`Equipped`). The list of active sessions, read earlier, is then not what protects an open session: the age of its chunks is. That lanes are given chunks there are needs a fact about the order of finite sets of numbers. `SingleInv`: all completions under way are of the session that has the asset, or, before there is one, of the session the browser has kept; that is so where no session is given up; where no completion goes on behind the browser, completions simply take turns. These are the two cases of the antecedent. |
| `RelationsProofs` | `TypeCorrect`, `VersionsStayCounted`, `RelationsStaySingle`, `DeletionsLeaveNoLinks`, `AnnotationsStayDerived` | `BaseInv`, the ground of the others: what a request remembers fits its step and its kind, and requests that do not overlap are busy one at a time. `CountInv`: a version that is not counted is on the list of a deletion, which reads its members after they were removed. `RowsInv`: the revisions of a pair differ, the active one is the latest, and whoever is about to insert has a revision that follows the latest or is taken; what the matching has still to create is about images without annotation. `UnlinkInv`: a link of a deleted asset or dataset is one its deletion is about to remove, stage by stage, and nobody else is about to add one. `FollowInv`: a dataset that does not follow its images belongs to a request that has it on its list, and the differences that request has computed are still the right ones. |
| `AccountsProofs` | `TypeCorrect`, `SessionsHold`, `GrantsHold` | Failures are bounded because each request counts one (`FailuresAreCounted`). `TokensInv`: a token in use is gone from the sessions, and nobody else uses it; this needs no order of requests, as taking the session is one call. `CurrentInv`, for requests in turn of which none changes a role: a session older than a change is one the change is about to revoke. `GrantInv`: a user's permissions are those of the role, or a request is about to spread those of the role; who is about to write a user has the permissions of a role that is there. |

Only model-checked: all liveness properties (`JobsEnd`, `CompletedIsProcessed`, `ProcessingEnds`,
`ChunksAreRemoved`, `TransfersEnd`), since the prover handles neither fairness nor ENABLED. All
invariants and action properties of the passing runs are proved. Each inductive invariant was checked by TLC on the
instance of its run before it was proved.

Facts about data (that a finite set of entries has a last one, that a plan has a first item) rest on
well-founded orders of the library, as smallest counterexamples, since its induction rules take an
operator the provers cannot instantiate. For the same reason the plan of an import is a set of items
and their order (`Plan`, `Comes`), and not a sequence that is sorted and flattened.

Two conditions were too weak when the proofs began, and no run was large enough to show it: hashes
were allowed together with overwriting in `Careful`, and deletions that overlap with creations in
`PairsAreSingle`. In both cases the step that could not be proved led to the counterexample in part
5, and the condition was corrected.

## 7. What is not modelled

Besides the components listed as not modelled above, and the parts named with each module: parsing
of annotation formats, media metadata and
previews (data, not control); authentication of requests and permissions (each operation is assumed
permitted); MongoDB's and MinIO's own consistency (a call takes effect atomically, once, and may
raise before or after); time except through "stale" and "expired"; several API processes (the
deployment runs one, whose requests interleave); the backfill of export sizes and maintenance runs.
