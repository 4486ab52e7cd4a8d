----------------------------- MODULE ExportJob -----------------------------
(***************************************************************************)
(* One export job (POST /exports) from its insertion to its end: the API   *)
(* requests that create, retry and cancel it, the Celery deliveries that   *)
(* execute worker.tasks.build_export, the monitor that fails jobs nobody   *)
(* works on, and the archive in object storage.  Jobs do not share state,  *)
(* so one job is enough.                                                   *)
(*                                                                         *)
(* Every database or storage call of the code is a step of its own, so two *)
(* deliveries of the same job, a user request and the monitor interleave   *)
(* between any two calls.                                                  *)
(***************************************************************************)
EXTENDS Naturals

CONSTANTS
  Deliveries,  \* the Celery messages that can be sent for the job (a bound)
  Calls,       \* API requests that can be in progress at once
  MaxTries,    \* max_retries of the task: 3 in the code
  Environments \* which events can occur together, see EventKinds

EventKinds == {
  "cancel",        \* the user cancels the job
  "retry",         \* the user resubmits a failed job
  "expire",        \* MongoDB's TTL index removes the job document
  "os_error",      \* a step of the task raises OSError, which Celery retries
  "cleanup_error", \* so does removing the temporary directory after the upload
  "error",         \* a step raises anything else (MongoDB, MinIO, ValueError)
  "crash",         \* the worker process dies; the message was already acked
  "lost_message",  \* Redis loses a queued message
  "send_error",    \* send_task raises
  "api_crash" }    \* the API process dies inside a request

ASSUME MaxTriesAssumption == MaxTries \in Nat
ASSUME EnvironmentsAssumption == Environments \subseteq SUBSET EventKinds

VARIABLES
  events,            \* what the environment may do in this behaviour
  state,             \* jobs.state
  cancel_requested,  \* jobs.cancel_requested
  overdue,           \* state is running and updated_at is older than JOB_STALE_MINUTES
  archive,           \* the object exports/<job id>/<name>.zip exists
  step,              \* where each delivery is in build_export
  tries,             \* how often Celery has retried each delivery
  call,              \* where each API request is
  monitor            \* where reconcile_stale_jobs is

vars == <<events, state, cancel_requested, overdue, archive, step, tries, call, monitor>>

job == <<state, cancel_requested, overdue>>

JobState == {"absent", "queued", "running", "succeeded", "failed", "cancelled", "expired"}

LiveSteps == {"checking", "claiming", "rechecking", "packing", "uploading",
              "verifying", "completing", "discarding", "failing", "failing_os"}

Steps == LiveSteps \union {"unsent", "queued", "ended"}

RetryCounts == 0 .. MaxTries

Live(d) == step[d] \in LiveSteps

TypeOK ==
  /\ events \in Environments
  /\ state \in JobState
  /\ cancel_requested \in BOOLEAN
  /\ overdue \in BOOLEAN
  /\ archive \in BOOLEAN
  /\ step \in [Deliveries -> Steps]
  /\ tries \in [Deliveries -> RetryCounts]
  /\ call \in [Calls -> {"idle", "sending", "reporting"}]
  /\ monitor \in {"idle", "marking"}

Init ==
  /\ events \in Environments
  /\ state = "absent"
  /\ cancel_requested = FALSE
  /\ overdue = FALSE
  /\ archive = FALSE
  /\ step = [d \in Deliveries |-> "unsent"]
  /\ tries = [d \in Deliveries |-> 0]
  /\ call = [c \in Calls |-> "idle"]
  /\ monitor = "idle"

-----------------------------------------------------------------------------
(* Helpers.  Every update of the document also refreshes updated_at.       *)

Exists == state \notin {"absent", "expired"}

(* job_cancelled: a missing document does not count as cancelled.          *)
JobCancelled == Exists /\ (state = "cancelled" \/ cancel_requested)

(* The filter {"id": id, "state": {"$ne": "cancelled"}}, which admits       *)
(* finished jobs too.                                                      *)
NotCancelled == Exists /\ state # "cancelled"

(* update_one({"id": id}, {"$set": {"state": s}}): no effect on a document *)
(* the TTL index has removed.                                              *)
SetState(s) ==
  /\ state' = IF Exists THEN s ELSE state
  /\ overdue' = FALSE
  /\ UNCHANGED cancel_requested

Goto(d, s) == step' = [step EXCEPT ![d] = s]

Answer(c, s) == call' = [call EXCEPT ![c] = s]

-----------------------------------------------------------------------------
(* API requests.                                                           *)

CreateExport(c) ==
  /\ state = "absent"
  /\ call[c] = "idle"
  /\ state' = "queued"
  /\ Answer(c, "sending")
  /\ UNCHANGED <<events, cancel_requested, overdue, archive, step, tries, monitor>>

(* The attempt counter and the other fields the claim resets are not read  *)
(* anywhere; cancel_requested is not among them.                           *)
RetryJob(c) ==
  /\ "retry" \in events
  /\ state = "failed"
  /\ call[c] = "idle"
  /\ SetState("queued")
  /\ Answer(c, "sending")
  /\ UNCHANGED <<events, archive, step, tries, monitor>>

SendTask(c) ==
  /\ call[c] = "sending"
  /\ \E d \in Deliveries : step[d] = "unsent" /\ Goto(d, "queued")
  /\ Answer(c, "idle")
  /\ UNCHANGED <<events, job, archive, tries, monitor>>

(* send_task raised; the broker may have taken the message all the same.   *)
SendTaskFails(c) ==
  /\ "send_error" \in events
  /\ call[c] = "sending"
  /\ \/ UNCHANGED step
     \/ \E d \in Deliveries : step[d] = "unsent" /\ Goto(d, "queued")
  /\ Answer(c, "reporting")
  /\ UNCHANGED <<events, job, archive, tries, monitor>>

ReportSendFailure(c) ==
  /\ call[c] = "reporting"
  /\ SetState("failed")
  /\ Answer(c, "idle")
  /\ UNCHANGED <<events, archive, step, tries, monitor>>

ApiCrash(c) ==
  /\ "api_crash" \in events
  /\ call[c] # "idle"
  /\ Answer(c, "idle")
  /\ UNCHANGED <<events, job, archive, step, tries, monitor>>

(* Slip: offering cancellation for failed jobs as well.                    *)
CancellableUnlessDone == Exists /\ state \notin {"succeeded", "cancelled"}

Cancellable == state \in {"queued", "running"}

CancelJob ==
  /\ "cancel" \in events
  /\ Cancellable
  /\ state' = "cancelled"
  /\ cancel_requested' = TRUE
  /\ overdue' = FALSE
  /\ UNCHANGED <<events, archive, step, tries, call, monitor>>

(* The TTL index on jobs.expires_at, 72 hours after creation by default.   *)
ExpireJob ==
  /\ "expire" \in events
  /\ Exists
  /\ state' = "expired"
  /\ overdue' = FALSE
  /\ UNCHANGED <<events, cancel_requested, archive, step, tries, call, monitor>>

-----------------------------------------------------------------------------
(* reconcile_stale_jobs: one query for stale jobs, then one update of the  *)
(* jobs found, which looks at the state again but not at updated_at.       *)

(* Slip: leaving jobs with a cancellation mark to the user.                *)
StaleUnmarked == state = "running" /\ overdue /\ ~cancel_requested

Stale == state = "running" /\ overdue

FindStale ==
  /\ monitor = "idle"
  /\ Stale
  /\ monitor' = "marking"
  /\ UNCHANGED <<events, job, archive, step, tries, call>>

MarkStale ==
  /\ monitor = "marking"
  /\ IF state = "running" THEN SetState("failed") ELSE UNCHANGED job
  /\ monitor' = "idle"
  /\ UNCHANGED <<events, archive, step, tries, call>>

(* JOB_STALE_MINUTES pass without an update.  A live delivery writes a     *)
(* heartbeat every 15 seconds, so this takes a job no delivery works on.   *)
GrowStale ==
  /\ state = "running"
  /\ ~overdue
  /\ \A d \in Deliveries : ~Live(d)
  /\ overdue' = TRUE
  /\ UNCHANGED <<events, state, cancel_requested, archive, step, tries, call, monitor>>

(* with_job_heartbeat: any live delivery refreshes a running job.          *)
Pulse(d) ==
  /\ Live(d)
  /\ state = "running"
  /\ overdue
  /\ overdue' = FALSE
  /\ UNCHANGED <<events, state, cancel_requested, archive, step, tries, call, monitor>>

-----------------------------------------------------------------------------
(* worker.tasks.build_export, one call of the code per step.               *)

(* Celery acknowledges the message when a worker takes it.                 *)
Receive(d) ==
  /\ step[d] = "queued"
  /\ Goto(d, "checking")
  /\ UNCHANGED <<events, job, archive, tries, call, monitor>>

CheckJob(d) ==
  /\ step[d] = "checking"
  /\ Goto(d, CASE ~Exists -> "failing"
               [] JobCancelled -> "ended"
               [] OTHER -> "claiming")
  /\ UNCHANGED <<events, job, archive, tries, call, monitor>>

Claim(d) ==
  /\ step[d] = "claiming"
  /\ IF NotCancelled
       THEN SetState("running") /\ Goto(d, "rechecking")
       ELSE UNCHANGED job /\ Goto(d, "ended")
  /\ UNCHANGED <<events, archive, tries, call, monitor>>

Recheck(d) ==
  /\ step[d] = "rechecking"
  /\ Goto(d, IF JobCancelled THEN "ended" ELSE "packing")
  /\ UNCHANGED <<events, job, archive, tries, call, monitor>>

(* One asset is packed, or none is left; progress and updated_at are       *)
(* written unless the job is cancelled.                                    *)
PackAsset(d) ==
  /\ step[d] = "packing"
  /\ IF JobCancelled
       THEN Goto(d, "ended") /\ UNCHANGED overdue
       ELSE /\ \/ Goto(d, "packing")
               \/ Goto(d, "uploading")
            /\ overdue' = FALSE
  /\ UNCHANGED <<events, state, cancel_requested, archive, tries, call, monitor>>

UploadArchive(d) ==
  /\ step[d] = "uploading"
  /\ archive' = TRUE
  /\ Goto(d, "verifying")
  /\ UNCHANGED <<events, job, tries, call, monitor>>

(* Slip: taking every state but running for a reason to discard.           *)
VerifyRunning(d) ==
  /\ step[d] = "verifying"
  /\ Goto(d, IF state # "running" THEN "discarding" ELSE "completing")
  /\ UNCHANGED <<events, job, archive, tries, call, monitor>>

VerifyNotCancelled(d) ==
  /\ step[d] = "verifying"
  /\ Goto(d, IF JobCancelled THEN "discarding" ELSE "completing")
  /\ UNCHANGED <<events, job, archive, tries, call, monitor>>

(* Slip: forgetting the archive when the completion comes too late.        *)
CompleteOrLeave(d) ==
  /\ step[d] = "completing"
  /\ IF NotCancelled THEN SetState("succeeded") ELSE UNCHANGED job
  /\ Goto(d, "ended")
  /\ UNCHANGED <<events, archive, tries, call, monitor>>

Complete(d) ==
  /\ step[d] = "completing"
  /\ IF NotCancelled
       THEN SetState("succeeded") /\ Goto(d, "ended")
       ELSE UNCHANGED job /\ Goto(d, "discarding")
  /\ UNCHANGED <<events, archive, tries, call, monitor>>

DiscardArchive(d) ==
  /\ step[d] = "discarding"
  /\ archive' = FALSE
  /\ Goto(d, "ended")
  /\ UNCHANGED <<events, job, tries, call, monitor>>

(* Slip: no bound on the retries.                                          *)
RetriesForEver(d) == step[d] = "failing_os"

(* autoretry_for=(OSError,), max_retries.                                  *)
Retries(d) == step[d] = "failing_os" /\ tries[d] < MaxTries

(* fail_job, then Celery's autoretry for OSError sends the task again.     *)
ReportFailure(d) ==
  /\ step[d] \in {"failing", "failing_os"}
  /\ SetState("failed")
  /\ IF Retries(d)
       THEN Goto(d, "queued") /\ tries' = [tries EXCEPT ![d] = @ + 1]
       ELSE Goto(d, "ended") /\ UNCHANGED tries
  /\ UNCHANGED <<events, archive, call, monitor>>

-----------------------------------------------------------------------------
(* What can go wrong in a delivery.                                        *)

(* A temporary directory that cannot be written, a full disk; or one that  *)
(* cannot be removed, which the with statement does when the archive is in *)
(* storage already.                                                        *)
RaiseOSError(d) ==
  /\ \/ "os_error" \in events /\ step[d] \in {"checking", "packing", "uploading"}
     \/ "cleanup_error" \in events /\ step[d] = "verifying"
  /\ Goto(d, "failing_os")
  /\ UNCHANGED <<events, job, archive, tries, call, monitor>>

(* Any other exception.  An upload or a removal that raises may have taken *)
(* effect.                                                                 *)
RaiseError(d) ==
  /\ "error" \in events
  /\ step[d] \in LiveSteps \ {"failing", "failing_os"}
  /\ \/ UNCHANGED archive
     \/ step[d] = "uploading" /\ archive' = TRUE
     \/ step[d] = "discarding" /\ archive' = FALSE
  /\ Goto(d, "failing")
  /\ UNCHANGED <<events, job, tries, call, monitor>>

(* The worker process dies, or fail_job itself raises: the message is      *)
(* gone and the document stays as it is.                                   *)
Crash(d) ==
  /\ "crash" \in events
  /\ Live(d)
  /\ Goto(d, "ended")
  /\ UNCHANGED <<events, job, archive, tries, call, monitor>>

LoseMessage(d) ==
  /\ "lost_message" \in events
  /\ step[d] = "queued"
  /\ Goto(d, "ended")
  /\ UNCHANGED <<events, job, archive, tries, call, monitor>>

-----------------------------------------------------------------------------
Run(d) ==
  \/ CheckJob(d) \/ Claim(d) \/ Recheck(d) \/ PackAsset(d) \/ UploadArchive(d)
  \/ VerifyNotCancelled(d) \/ Complete(d) \/ DiscardArchive(d) \/ ReportFailure(d)

Fault(d) == RaiseOSError(d) \/ RaiseError(d) \/ Crash(d) \/ LoseMessage(d)

Reconcile == FindStale \/ MarkStale

Request(c) == CreateExport(c) \/ RetryJob(c)

Dispatch(c) == SendTask(c) \/ SendTaskFails(c) \/ ReportSendFailure(c)

Next ==
  \/ \E c \in Calls : Request(c) \/ Dispatch(c) \/ ApiCrash(c)
  \/ CancelJob \/ ExpireJob
  \/ Reconcile \/ GrowStale
  \/ \E d \in Deliveries : Receive(d) \/ Run(d) \/ Pulse(d) \/ Fault(d)

Spec == Init /\ [][Next]_vars

(* What the deployment keeps running: workers take messages and run the    *)
(* task to its end, requests in progress finish, time passes, and the API  *)
(* runs the monitor every minute.  Users, faults and expiry are not fair.  *)
Fairness ==
  /\ \A d \in Deliveries : WF_vars(Receive(d)) /\ WF_vars(Run(d))
  /\ \A c \in Calls : WF_vars(Dispatch(c))
  /\ WF_vars(Reconcile)
  /\ WF_vars(GrowStale)

FairSpec == Spec /\ Fairness

-----------------------------------------------------------------------------
(* Properties.                                                             *)

(* A job the task centre shows as succeeded has its archive in storage, so *)
(* export_download_url hands out a working link, whatever deliveries,      *)
(* retries, crashes and monitor passes overlap; only a user who cancelled  *)
(* an earlier attempt can see a succeeded job whose archive was removed.   *)
DownloadableHasArchive ==
  state = "succeeded" /\ ~cancel_requested => archive

(* A cancelled job is never picked up, completed or resubmitted directly,  *)
(* even by a delivery that checked it just before the cancellation: only a *)
(* failure report or expiry replaces the state.                            *)
CancelledOnlyFails ==
  [][state = "cancelled" /\ state' # "cancelled" => state' \in {"failed", "expired"}]_vars

(* When the user cancels and every delivery has ended, the archive that a  *)
(* delivery had uploaded in the race is gone from storage.                 *)
CancelledLeavesNoArchive ==
  state = "cancelled" /\ (\A d \in Deliveries : ~Live(d)) => ~archive

(* So it is for a job that was submitted once, on a worker that lives and  *)
(* can remove its temporary directory, wherever between two calls of the   *)
(* worker the cancellation falls and however often Celery has repeated the *)
(* task before the archive was stored.  (A task repeated after that only   *)
(* returns on the cancellation and leaves the archive of its earlier try.) *)
CancelledOnceLeavesNoArchive ==
  events \intersect {"retry", "crash", "cleanup_error"} = {} => CancelledLeavesNoArchive

(* A running job does not stay running for ever, even when the worker that *)
(* claimed it died: the monitor ends it.                                   *)
RunningEnds == state = "running" ~> state # "running"

(* A queued job (new or resubmitted) comes to an end when nobody cancels   *)
(* and no message, process or document is lost, whatever the worker and    *)
(* the broker raise.                                                       *)
Keeps == events \intersect {"cancel", "expire", "crash", "lost_message", "api_crash"} = {}
QueuedSettlesIfKept ==
  (Keeps /\ state = "queued") ~> state \in {"succeeded", "failed"}

(* Nobody waits for an export for ever: the two together.                  *)
JobsEnd == RunningEnds /\ QueuedSettlesIfKept

(* A job that is queued does not stay queued for ever, also when it is     *)
(* submitted again after it failed.                                        *)
QueuedEnds == state = "queued" ~> state # "queued"

(* The job as its users see it.                                            *)
Lifecycle ==
  INSTANCE JobLifecycle
    WITH state <- state, cancel_requested <- cancel_requested, archive <- archive

ImplementsLifecycle == Lifecycle!Spec

(* The facts that carry DownloadableHasArchive: a cancelled job is marked, *)
(* a delivery about to complete has stored the archive, and a delivery     *)
(* takes the archive away only from a marked or expired job.               *)
ArchiveInv ==
  /\ state = "cancelled" => cancel_requested
  /\ state = "absent" => \A d \in Deliveries : step[d] = "unsent"
  /\ state = "absent" => \A c \in Calls : call[c] = "idle"
  /\ \A d \in Deliveries :
       /\ step[d] \in {"verifying", "completing"} =>
            archive \/ cancel_requested \/ state = "expired"
       /\ step[d] = "discarding" => cancel_requested \/ state = "expired"
  /\ DownloadableHasArchive
=============================================================================
