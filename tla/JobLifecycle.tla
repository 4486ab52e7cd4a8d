---------------------------- MODULE JobLifecycle ----------------------------
(***************************************************************************)
(* What an export job promises to the people who look at it: the state in  *)
(* the task centre, the cancellation mark and the archive that can be      *)
(* downloaded.  Who writes these (API requests, Celery deliveries, the     *)
(* stale-job monitor) and in how many steps is hidden; ExportJob shows it  *)
(* and is proved to implement this module.                                 *)
(***************************************************************************)

VARIABLES
  state,             \* jobs.state, "absent" before insertion, "expired" after the TTL
  cancel_requested,  \* jobs.cancel_requested
  archive            \* is exports/<job id>/<name>.zip in object storage?

jobVars == <<state, cancel_requested, archive>>

Known == state \notin {"absent", "expired"}

Init ==
  /\ state = "absent"
  /\ cancel_requested = FALSE
  /\ archive = FALSE

Submit ==
  /\ state = "absent"
  /\ state' = "queued"
  /\ UNCHANGED <<cancel_requested, archive>>

Resubmit ==
  /\ state = "failed"
  /\ state' = "queued"
  /\ UNCHANGED <<cancel_requested, archive>>

Work ==
  /\ Known
  /\ state # "cancelled"
  /\ state' = "running"
  /\ UNCHANGED <<cancel_requested, archive>>

(* A job becomes downloadable only when the archive is there, unless the   *)
(* user has already asked for a cancellation.                              *)
Finish ==
  /\ Known
  /\ state # "cancelled"
  /\ archive \/ cancel_requested
  /\ state' = "succeeded"
  /\ UNCHANGED <<cancel_requested, archive>>

Fail ==
  /\ Known
  /\ state' = "failed"
  /\ UNCHANGED <<cancel_requested, archive>>

Cancel ==
  /\ state \in {"queued", "running"}
  /\ state' = "cancelled"
  /\ cancel_requested' = TRUE
  /\ UNCHANGED archive

Expire ==
  /\ Known
  /\ state' = "expired"
  /\ UNCHANGED <<cancel_requested, archive>>

Store ==
  /\ state # "absent"
  /\ archive' = TRUE
  /\ UNCHANGED <<state, cancel_requested>>

(* The archive is only ever taken away from a cancelled or expired job.    *)
Discard ==
  /\ cancel_requested \/ state = "expired"
  /\ archive' = FALSE
  /\ UNCHANGED <<state, cancel_requested>>

Next ==
  \/ Submit \/ Resubmit \/ Work \/ Finish \/ Fail
  \/ Cancel \/ Expire \/ Store \/ Discard

Spec == Init /\ [][Next]_jobVars
=============================================================================
