-------------------------- MODULE MCUploadProcess --------------------------
(* Environments for the model-checking runs of UploadProcess.              *)
EXTENDS UploadProcess

(* Everything but the failures reported by a delivery or a request that    *)
(* does not hold the job.                                                  *)
OwnersOnly == EventKinds \ {"claim_error", "send_error", "abort"}

(* The worker, the API or the broker fails, but no failure report runs.    *)
Outages == {"abort", "crash", "lost_message", "send_error", "api_crash"}

(* Workers die and the broker refuses messages.                            *)
WorkerOutages == {"crash", "send_error"}

(* The API dies, the broker refuses messages, and the session is cancelled *)
(* under way.                                                              *)
ApiOutages == {"abort", "api_crash", "send_error", "error"}

(* A failed job is resubmitted; the message may be refused.                *)
ResentJobs == {"claim_error", "retry", "send_error"}

(* A duplicate message raises before its claim.                            *)
ClaimFails == {{"claim_error"}}

(* The API dies while a failed job is submitted again.                     *)
ResendDies == {{"error", "retry", "api_crash"}}

EveryEnvironment == {OwnersOnly, Outages, WorkerOutages, ApiOutages, ResentJobs}
=============================================================================
