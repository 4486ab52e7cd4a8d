-------------------------- MODULE MCUploadTransfer --------------------------
(* Environments for the model-checking run of UploadTransfer.              *)
EXTENDS UploadTransfer

(* What the user does, and what fails, with one transfer after the other.  *)
Reloaded == {"pause", "reload"}
Failing == {"put_fails", "error"}
Cancelled == {"cancel"}

(* Transfers that overlap with a completion the browser no longer sees.    *)
Unanswered == {"answer_lost", "rename"}
Forgotten == {"lookup_fails", "error", "runs_out"}

(* A session is cancelled behind a completion the reload forgot.           *)
CancelledBehind == {{"reload", "cancel"}}

EveryEnvironment == {Reloaded, Failing, Cancelled, Unanswered, Forgotten}
=============================================================================
