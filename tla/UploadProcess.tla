--------------------------- MODULE UploadProcess ---------------------------
(***************************************************************************)
(* From a finished upload to a processed asset: POST                       *)
(* /upload-sessions/complete stores the asset, inserts the processing job  *)
(* (the outbox entry), closes the session and sends the task; a background *)
(* loop sends the jobs that were never sent; deliveries of the task run    *)
(* worker.tasks.process_asset; the user resubmits a failed job; a monitor  *)
(* fails jobs nobody works on.                                             *)
(*                                                                         *)
(* One upload session of a new file that no other asset shares.  Every     *)
(* database, storage or broker call is a step.                             *)
(***************************************************************************)
EXTENDS Naturals

CONSTANTS
  Deliveries,  \* the Celery messages that can be sent for the job (a bound)
  Calls,       \* API requests to complete the upload that run at once
  MaxTries,    \* max_retries of the task: 3 in the code
  Environments \* which events can occur together, see EventKinds

EventKinds == {
  "recomplete",    \* a client completes its upload a second time, or again after a failure
  "retry",         \* the user resubmits the failed job
  "abort",         \* the user cancels the upload session
  "claim_error",   \* the temp directory or the claim itself raises
  "os_error",      \* a later step of the task raises OSError, which Celery retries
  "error",         \* a later step raises anything else
  "crash",         \* the worker process dies after the claim; the message is gone
  "lost_message",  \* Redis loses a message, or the worker dies before the claim
  "send_error",    \* send_task raises
  "api_crash" }    \* the API process dies inside a request or a background loop

ASSUME MaxTriesAssumption == MaxTries \in Nat
ASSUME EnvironmentsAssumption == Environments \subseteq SUBSET EventKinds

VARIABLES
  events,      \* what the environment may do in this behaviour
  kind,        \* an image_annotation archive ("bundle") or anything else ("file")
  session,     \* upload_sessions.state
  object,      \* is the uploaded object in storage?
  asset,       \* assets.status, "imported" for a bundle that was taken apart
  job,         \* jobs.state
  dispatched,  \* jobs.dispatched_at is set
  overdue,     \* the job is running and its updated_at is older than JOB_STALE_MINUTES
  abort,       \* where cancel_upload_session is
  call,        \* where each completion request is
  resubmit,    \* where retry_job is
  dispatcher,  \* where dispatch_pending_process_jobs is
  monitor,     \* where reconcile_stale_jobs is
  step,        \* where each delivery is in process_asset
  tries        \* how often Celery has retried each delivery

api == <<call, resubmit, dispatcher, monitor>>
worker == <<step, tries>>
vars == <<events, kind, abort, session, object, asset, job, dispatched, overdue, api, worker>>

CallSteps == {"idle", "storing", "inserting", "closing", "sending", "marking", "reporting"}

(* After the claim, up to the report of the result.                        *)
OwnerSteps == {"reading", "working", "storing", "removing", "deleting", "finishing",
               "failing", "failing_os"}

LiveSteps == OwnerSteps \union {"claiming", "failing_asset", "failing_asset_os"}

Steps == LiveSteps \union {"unsent", "queued", "ended"}

RetryCounts == 0 .. MaxTries

Owner(d) == step[d] \in OwnerSteps
Live(d) == step[d] \in LiveSteps

TypeOK ==
  /\ events \in Environments
  /\ kind \in {"file", "bundle"}
  /\ session \in {"pending", "completed", "aborted"}
  /\ object \in BOOLEAN
  /\ asset \in {"absent", "processing", "ready", "failed", "imported"}
  /\ job \in {"absent", "queued", "running", "succeeded", "failed"}
  /\ dispatched \in BOOLEAN
  /\ overdue \in BOOLEAN
  /\ abort \in {"idle", "deleting"}
  /\ call \in [Calls -> CallSteps]
  /\ resubmit \in {"idle", "resetting", "sending", "failing_job", "failing_asset"}
  /\ dispatcher \in {"idle", "sending", "marking"}
  /\ monitor \in {"idle", "marking_job", "marking_asset"}
  /\ step \in [Deliveries -> Steps]
  /\ tries \in [Deliveries -> RetryCounts]

(* The client has uploaded the object of its session.                      *)
Init ==
  /\ events \in Environments
  /\ kind \in {"file", "bundle"}
  /\ session = "pending"
  /\ object = TRUE
  /\ asset = "absent"
  /\ job = "absent"
  /\ dispatched = FALSE
  /\ overdue = FALSE
  /\ abort = "idle"
  /\ call = [c \in Calls |-> "idle"]
  /\ resubmit = "idle"
  /\ dispatcher = "idle"
  /\ monitor = "idle"
  /\ step = [d \in Deliveries |-> "unsent"]
  /\ tries = [d \in Deliveries |-> 0]

-----------------------------------------------------------------------------
(* Helpers.                                                                *)

AssetStored == asset \notin {"absent", "imported"}

(* Updates of a document that is not there have no effect.                 *)
SetAsset(s) == asset' = IF AssetStored THEN s ELSE asset

SetJob(s) ==
  /\ job' = IF job = "absent" THEN job ELSE s
  /\ overdue' = FALSE

Goto(d, s) == step' = [step EXCEPT ![d] = s]

Answer(c, s) == call' = [call EXCEPT ![c] = s]

(* celery_client.send_task; a call that raises may have sent the message.  *)
Send == \E d \in Deliveries : step[d] = "unsent" /\ Goto(d, "queued")

SendRaises == "send_error" \in events /\ (UNCHANGED step \/ Send)

-----------------------------------------------------------------------------
(* complete_upload.                                                        *)

(* A completed session only returns the asset; the object has to be there. *)
BeginComplete(c) ==
  /\ call[c] = "idle"
  /\ session = "pending"
  /\ object
  /\ \/ "recomplete" \in events
     \/ asset = "absent" /\ \A b \in Calls : call[b] = "idle"
  /\ Answer(c, "storing")
  /\ UNCHANGED <<events, kind, abort, session, object, asset, job, dispatched, overdue, resubmit,
                 dispatcher, monitor, worker>>

(* replace_one with upsert, whatever the asset's document says by now.     *)
StoreAsset(c) ==
  /\ call[c] = "storing"
  /\ asset' = "processing"
  /\ Answer(c, "inserting")
  /\ UNCHANGED <<events, kind, abort, session, object, job, dispatched, overdue, resubmit,
                 dispatcher, monitor, worker>>

(* $setOnInsert under the job id the session has carried from the start.   *)
InsertJob(c) ==
  /\ call[c] = "inserting"
  /\ job' = IF job = "absent" THEN "queued" ELSE job
  /\ Answer(c, "closing")
  /\ UNCHANGED <<events, kind, abort, session, object, asset, dispatched, overdue, resubmit,
                 dispatcher, monitor, worker>>

CloseSession(c) ==
  /\ call[c] = "closing"
  /\ session' = IF session = "aborted" THEN session ELSE "completed"
  /\ Answer(c, "sending")
  /\ UNCHANGED <<events, kind, abort, object, asset, job, dispatched, overdue, resubmit,
                 dispatcher, monitor, worker>>

SendTask(c) ==
  /\ call[c] = "sending"
  /\ \/ Send /\ Answer(c, "marking")
     \/ SendRaises /\ Answer(c, "reporting")
  /\ UNCHANGED <<events, kind, abort, session, object, asset, job, dispatched, overdue, resubmit,
                 dispatcher, monitor, tries>>

(* A failure to record the dispatch is only logged.                        *)
MarkDispatched(c) ==
  /\ call[c] = "marking"
  /\ \/ dispatched' = TRUE /\ overdue' = FALSE
     \/ "error" \in events /\ UNCHANGED <<dispatched, overdue>>
  /\ Answer(c, "idle")
  /\ UNCHANGED <<events, kind, abort, session, object, asset, job, resubmit, dispatcher, monitor, worker>>

ReportDispatchError(c) ==
  /\ call[c] = "reporting"
  /\ overdue' = FALSE
  /\ Answer(c, "idle")
  /\ UNCHANGED <<events, kind, abort, session, object, asset, job, dispatched, resubmit, dispatcher,
                 monitor, worker>>

(* cancel_upload_session: the state is read, then the session is deleted   *)
(* whatever its state by then.                                             *)
BeginAbort ==
  /\ "abort" \in events
  /\ abort = "idle"
  /\ session = "pending"
  /\ abort' = "deleting"
  /\ UNCHANGED <<events, kind, session, object, asset, job, dispatched, overdue, api, worker>>

DeleteSession ==
  /\ abort = "deleting"
  /\ session' = "aborted"
  /\ abort' = "idle"
  /\ UNCHANGED <<events, kind, object, asset, job, dispatched, overdue, api, worker>>

-----------------------------------------------------------------------------
(* dispatch_pending_process_jobs, started every minute.                    *)

(* Slip: trusting that a running request will send the task.               *)
PendingUnlessCalled == job = "queued" /\ ~dispatched /\ session # "completed"

Pending == job = "queued" /\ ~dispatched

FindPending ==
  /\ dispatcher = "idle"
  /\ Pending
  /\ dispatcher' = "sending"
  /\ UNCHANGED <<events, kind, abort, session, object, asset, job, dispatched, overdue, call, resubmit,
                 monitor, worker>>

DispatchPending ==
  /\ dispatcher = "sending"
  /\ Send
  /\ dispatcher' = "marking"
  /\ UNCHANGED <<events, kind, abort, session, object, asset, job, dispatched, overdue, call, resubmit,
                 monitor, tries>>

(* The job keeps its place in the outbox.                                  *)
DispatchPendingFails ==
  /\ \/ dispatcher = "sending" /\ SendRaises
     \/ dispatcher = "marking" /\ "error" \in events /\ UNCHANGED step
  /\ dispatcher' = "idle"
  /\ UNCHANGED <<events, kind, abort, session, object, asset, job, dispatched, overdue, call, resubmit,
                 monitor, tries>>

MarkPendingDispatched ==
  /\ dispatcher = "marking"
  /\ IF job = "queued"
       THEN dispatched' = TRUE /\ overdue' = FALSE
       ELSE UNCHANGED <<dispatched, overdue>>
  /\ dispatcher' = "idle"
  /\ UNCHANGED <<events, kind, abort, session, object, asset, job, call, resubmit, monitor, worker>>

-----------------------------------------------------------------------------
(* retry_job.  dispatched_at stays as it is.                               *)

RetryJob ==
  /\ "retry" \in events
  /\ resubmit = "idle"
  /\ job = "failed"
  /\ SetJob("queued")
  /\ resubmit' = "resetting"
  /\ UNCHANGED <<events, kind, abort, session, object, asset, dispatched, call, dispatcher, monitor, worker>>

ResetAsset ==
  /\ resubmit = "resetting"
  /\ SetAsset("processing")
  /\ resubmit' = "sending"
  /\ UNCHANGED <<events, kind, abort, session, object, job, dispatched, overdue, call, dispatcher,
                 monitor, worker>>

ResendTask ==
  /\ resubmit = "sending"
  /\ \/ Send /\ resubmit' = "idle"
     \/ SendRaises /\ resubmit' = "failing_job"
  /\ UNCHANGED <<events, kind, abort, session, object, asset, job, dispatched, overdue, call, dispatcher,
                 monitor, tries>>

ReportResendFailure ==
  /\ \/ /\ resubmit = "failing_job"
        /\ SetJob("failed")
        /\ resubmit' = "failing_asset"
        /\ UNCHANGED asset
     \/ /\ resubmit = "failing_asset"
        /\ SetAsset("failed")
        /\ resubmit' = "idle"
        /\ UNCHANGED <<job, overdue>>
  /\ UNCHANGED <<events, kind, abort, session, object, dispatched, call, dispatcher, monitor, worker>>

-----------------------------------------------------------------------------
(* reconcile_stale_jobs: a query, an update of the jobs found, then an     *)
(* update of their assets.                                                 *)

FindStale ==
  /\ monitor = "idle"
  /\ job = "running"
  /\ overdue
  /\ monitor' = "marking_job"
  /\ UNCHANGED <<events, kind, abort, session, object, asset, job, dispatched, overdue, call, resubmit,
                 dispatcher, worker>>

MarkJob ==
  /\ monitor = "marking_job"
  /\ IF job = "running" THEN SetJob("failed") ELSE UNCHANGED <<job, overdue>>
  /\ monitor' = "marking_asset"
  /\ UNCHANGED <<events, kind, abort, session, object, asset, dispatched, call, resubmit, dispatcher, worker>>

(* Slip: failing the asset of every stale job found, processed or not.     *)
FailStaleAsset == SetAsset("failed")

(* Slip: an update of the jobs only.                                       *)
LeaveAsset == UNCHANGED asset

FailUnprocessedAsset == asset' = IF asset = "processing" THEN "failed" ELSE asset

MarkAsset ==
  /\ monitor = "marking_asset"
  /\ FailUnprocessedAsset
  /\ monitor' = "idle"
  /\ UNCHANGED <<events, kind, abort, session, object, job, dispatched, overdue, call, resubmit,
                 dispatcher, worker>>

(* JOB_STALE_MINUTES pass without an update; a live delivery writes a      *)
(* heartbeat every 15 seconds.                                             *)
GrowStale ==
  /\ job = "running"
  /\ ~overdue
  /\ \A d \in Deliveries : ~Live(d)
  /\ overdue' = TRUE
  /\ UNCHANGED <<events, kind, abort, session, object, asset, job, dispatched, api, worker>>

Pulse(d) ==
  /\ Live(d)
  /\ job = "running"
  /\ overdue
  /\ overdue' = FALSE
  /\ UNCHANGED <<events, kind, abort, session, object, asset, job, dispatched, api, worker>>

(* The API process dies: every request and every loop in progress is gone. *)
ApiCrash ==
  /\ "api_crash" \in events
  /\ abort' = "idle"
  /\ call' = [c \in Calls |-> "idle"]
  /\ resubmit' = "idle"
  /\ dispatcher' = "idle"
  /\ monitor' = "idle"
  /\ UNCHANGED <<events, kind, session, object, asset, job, dispatched, overdue, worker>>

-----------------------------------------------------------------------------
(* worker.tasks.process_asset.                                             *)

Receive(d) ==
  /\ step[d] = "queued"
  /\ Goto(d, "claiming")
  /\ UNCHANGED <<events, kind, abort, session, object, asset, job, dispatched, overdue, api, tries>>

(* Slip: a claim that does not look at the state.                          *)
ClaimableAlways == job # "absent"

Claimable == job \in {"queued", "failed"}

Claim(d) ==
  /\ step[d] = "claiming"
  /\ IF Claimable
       THEN SetJob("running") /\ Goto(d, "reading")
       ELSE UNCHANGED <<job, overdue>> /\ Goto(d, "ended")
  /\ UNCHANGED <<events, kind, abort, session, object, asset, dispatched, api, tries>>

ReadAsset(d) ==
  /\ step[d] = "reading"
  /\ Goto(d, IF AssetStored THEN "working" ELSE "failing")
  /\ UNCHANGED <<events, kind, abort, session, object, asset, job, dispatched, overdue, api, tries>>

(* stat, download, digest, metadata, preview or bundle import: all of them *)
(* need the object.                                                        *)
Work(d) ==
  /\ step[d] = "working"
  /\ \/ ~object /\ Goto(d, "failing")
     \/ object /\ kind = "file" /\ Goto(d, "storing")
     \/ object /\ kind = "bundle" /\ Goto(d, "removing")
  /\ UNCHANGED <<events, kind, abort, session, object, asset, job, dispatched, overdue, api, tries>>

StoreReady(d) ==
  /\ step[d] = "storing"
  /\ SetAsset("ready")
  /\ Goto(d, "finishing")
  /\ UNCHANGED <<events, kind, abort, session, object, job, dispatched, overdue, api, tries>>

(* The archive of a bundle goes once its images are imported.              *)
RemoveBundle(d) ==
  /\ step[d] = "removing"
  /\ object' = FALSE
  /\ Goto(d, "deleting")
  /\ UNCHANGED <<events, kind, abort, session, asset, job, dispatched, overdue, api, tries>>

DeleteBundle(d) ==
  /\ step[d] = "deleting"
  /\ SetAsset("imported")
  /\ Goto(d, "finishing")
  /\ UNCHANGED <<events, kind, abort, session, object, job, dispatched, overdue, api, tries>>

Finish(d) ==
  /\ step[d] = "finishing"
  /\ SetJob("succeeded")
  /\ Goto(d, "ended")
  /\ UNCHANGED <<events, kind, abort, session, object, asset, dispatched, api, tries>>

FailJob(d) ==
  /\ step[d] \in {"failing", "failing_os"}
  /\ SetJob("failed")
  /\ Goto(d, IF step[d] = "failing" THEN "failing_asset" ELSE "failing_asset_os")
  /\ UNCHANGED <<events, kind, abort, session, object, asset, dispatched, api, tries>>

(* Slip: no bound on the retries.                                          *)
RetriesForEver(d) == step[d] = "failing_asset_os"

Retries(d) == step[d] = "failing_asset_os" /\ tries[d] < MaxTries

(* fail_asset, then Celery's autoretry.                                    *)
FailAsset(d) ==
  /\ step[d] \in {"failing_asset", "failing_asset_os"}
  /\ SetAsset("failed")
  /\ IF Retries(d)
       THEN Goto(d, "queued") /\ tries' = [tries EXCEPT ![d] = @ + 1]
       ELSE Goto(d, "ended") /\ UNCHANGED tries
  /\ UNCHANGED <<events, kind, abort, session, object, job, dispatched, overdue, api>>

-----------------------------------------------------------------------------
(* What can go wrong in a delivery.                                        *)

Raise(d) ==
  /\ \/ "claim_error" \in events /\ step[d] = "claiming" /\ Goto(d, "failing_os")
     \/ "claim_error" \in events /\ step[d] = "claiming" /\ Goto(d, "failing")
     \/ "os_error" \in events /\ step[d] = "working" /\ Goto(d, "failing_os")
     \/ "error" \in events /\ step[d] \in OwnerSteps \ {"failing", "failing_os"} /\ Goto(d, "failing")
  /\ UNCHANGED <<events, kind, abort, session, object, asset, job, dispatched, overdue, api, tries>>

(* The worker dies after the claim, or its report of a failure raises.     *)
Crash(d) ==
  /\ "crash" \in events
  /\ Live(d)
  /\ step[d] # "claiming"
  /\ Goto(d, "ended")
  /\ UNCHANGED <<events, kind, abort, session, object, asset, job, dispatched, overdue, api, tries>>

LoseMessage(d) ==
  /\ "lost_message" \in events
  /\ step[d] \in {"queued", "claiming"}
  /\ Goto(d, "ended")
  /\ UNCHANGED <<events, kind, abort, session, object, asset, job, dispatched, overdue, api, tries>>

-----------------------------------------------------------------------------
Complete(c) ==
  \/ StoreAsset(c) \/ InsertJob(c) \/ CloseSession(c) \/ SendTask(c)
  \/ MarkDispatched(c) \/ ReportDispatchError(c)

Dispatch == FindPending \/ DispatchPending \/ DispatchPendingFails \/ MarkPendingDispatched

Resubmit == ResetAsset \/ ResendTask \/ ReportResendFailure

Reconcile == FindStale \/ MarkJob \/ MarkAsset

Run(d) ==
  \/ Receive(d) \/ Claim(d) \/ ReadAsset(d) \/ Work(d) \/ StoreReady(d) \/ RemoveBundle(d)
  \/ DeleteBundle(d) \/ Finish(d) \/ FailJob(d) \/ FailAsset(d)

Fault(d) == Raise(d) \/ Crash(d) \/ LoseMessage(d)

Next ==
  \/ \E c \in Calls : BeginComplete(c) \/ Complete(c)
  \/ BeginAbort \/ DeleteSession \/ Dispatch \/ RetryJob \/ Resubmit \/ Reconcile \/ GrowStale \/ ApiCrash
  \/ \E d \in Deliveries : Run(d) \/ Pulse(d) \/ Fault(d)

Spec == Init /\ [][Next]_vars

(* Requests and background loops go on, workers take messages and run the  *)
(* task to its end, time passes, and a broker that refuses messages does   *)
(* not do so for ever.  Users and faults are not fair.                     *)
Fairness ==
  /\ \A c \in Calls : WF_vars(Complete(c))
  /\ WF_vars(Dispatch) /\ SF_vars(DispatchPending)
  /\ WF_vars(Resubmit)
  /\ WF_vars(Reconcile) /\ WF_vars(GrowStale)
  /\ \A d \in Deliveries : WF_vars(Run(d))

FairSpec == Spec /\ Fairness

-----------------------------------------------------------------------------
(* Properties.                                                             *)

(* Duplicate messages (the outbox and the request may both send the task)  *)
(* never process the asset at the same time.                               *)
OneOwner == \A d, e \in Deliveries : Owner(d) /\ Owner(e) => d = e

(* A message sent twice does not have the asset processed twice: while a   *)
(* delivery processes it, no other does, whatever either of them raises.   *)
Processing(d) == step[d] \in OwnerSteps \ {"failing", "failing_os"}
ProcessedByOne == \A d, e \in Deliveries : Processing(d) /\ Processing(e) => d = e

(* Nothing raises before the claim, and no resubmission fails to be sent:  *)
(* either reports as failed a job that another delivery may be running.    *)
NoForeignFailure == events \intersect {"claim_error", "send_error"} = {}

(* The claim of process_asset excludes duplicates as long as only the      *)
(* owner of a job and the monitor report its failure, wherever the API or  *)
(* a worker dies and whatever is sent twice.                               *)
OwnersExclude == NoForeignFailure => OneOwner

NoOwner == \A d \in Deliveries : ~Owner(d)

(* Whoever may fail the job without being its owner (the monitor, a failed *)
(* resubmission) finds it without an owner.                                *)
OwnerFacts ==
  /\ \A d \in Deliveries : Owner(d) => job = "running"
  /\ OneOwner
  /\ overdue => NoOwner
  /\ monitor = "marking_job" => job = "running" /\ NoOwner
  /\ resubmit # "failing_job"

(* The facts that carry OwnersExclude.                                     *)
OwnerInv == NoForeignFailure => OwnerFacts

(* A job that succeeded left an asset that is ready, or a bundle that was  *)
(* imported, and nothing takes that back.                                  *)
SucceededMeansProcessed ==
  job = "succeeded" => asset = IF kind = "bundle" THEN "imported" ELSE "ready"

(* So it is for an upload completed and submitted once whose processing    *)
(* raises nothing, whatever dies or gets lost: in particular the monitor   *)
(* does not fail an asset whose processing it found stale too early.       *)
SucceededStaysProcessed ==
  events \subseteq {"abort", "crash", "lost_message", "send_error", "api_crash"}
    => SucceededMeansProcessed

(* Once the session is completed the file is processed: the API may die    *)
(* anywhere and the broker may refuse messages, the outbox makes up for it. *)
ApiTrouble == events \subseteq {"abort", "api_crash", "send_error", "error"}
CompletedIsProcessed ==
  (ApiTrouble /\ session = "completed") ~> asset \in {"ready", "imported", "failed"}

(* A queued job does not stay queued for ever: when its message is not     *)
(* sent, the outbox sends it, also for a job that was submitted again.     *)
QueuedEnds == job = "queued" ~> job # "queued"

(* An asset whose upload is completed once does not stay in processing     *)
(* when workers die on it and the broker refuses messages.  (A second      *)
(* completion that stores the asset again after its job has succeeded has  *)
(* no job to process it.)                                                  *)
WorkerTrouble == events \subseteq {"crash", "send_error"}
ProcessingEnds == (WorkerTrouble /\ asset = "processing") ~> asset # "processing"
=============================================================================
