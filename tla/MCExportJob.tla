---------------------------- MODULE MCExportJob ----------------------------
(* Environments for the model-checking runs of ExportJob.                  *)
EXTENDS ExportJob

(* A job submitted once: no resubmission and no killed process, so all     *)
(* executions are Celery's retries of one message, none of them after the  *)
(* archive was stored.                                                     *)
SubmittedOnce == EventKinds \ {"retry", "crash", "cleanup_error"}

(* Failures of every kind that leave the message and the API alive, and a  *)
(* user who resubmits but never cancels.                                   *)
KeptAndRetried == {"retry", "os_error", "cleanup_error", "error", "send_error"}

(* A job submitted once; its worker cannot remove a temporary directory.   *)
CleanupFails == {{"cancel", "cleanup_error"}}

(* A user cancels, the task fails all the same, and the user resubmits it. *)
CancelledFails == {{"cancel", "error", "retry"}}

EveryEnvironment == {EventKinds, SubmittedOnce, KeptAndRetried}
=============================================================================
