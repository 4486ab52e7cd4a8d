-------------------------- MODULE ExportJobProofs --------------------------
(***************************************************************************)
(* Proofs about ExportJob for any number of deliveries and requests, any   *)
(* retry limit and any environments.                                       *)
(***************************************************************************)
EXTENDS ExportJob, TLAPS

(* A retry below the limit stays within the counted range.                 *)
LEMMA RetryCountsFacts ==
  /\ 0 \in RetryCounts
  /\ \A n \in RetryCounts : n < MaxTries => n + 1 \in RetryCounts
BY MaxTriesAssumption DEF RetryCounts

(* The variables always have their types; in particular no delivery is     *)
(* retried more often than max_retries.                                    *)
THEOREM TypeCorrect == Spec => []TypeOK
<1>1. Init => TypeOK
  BY RetryCountsFacts DEF Init, TypeOK, JobState, Steps
<1>2. TypeOK /\ [Next]_vars => TypeOK'
  <2> SUFFICES ASSUME TypeOK, [Next]_vars
               PROVE  TypeOK'
    OBVIOUS
  <2> USE DEF TypeOK, JobState, Steps, LiveSteps
  <2> USE DEF SetState, Goto, Answer, Exists, job
  <2>1. ASSUME NEW c \in Calls, Request(c) \/ Dispatch(c) \/ ApiCrash(c)
        PROVE  TypeOK'
    <3>1. CASE CreateExport(c)
      BY <3>1 DEF CreateExport
    <3>2. CASE RetryJob(c)
      BY <3>2 DEF RetryJob
    <3>3. CASE SendTask(c)
      BY <3>3 DEF SendTask
    <3>4. CASE SendTaskFails(c)
      BY <3>4 DEF SendTaskFails
    <3>5. CASE ReportSendFailure(c)
      BY <3>5 DEF ReportSendFailure
    <3>6. CASE ApiCrash(c)
      BY <3>6 DEF ApiCrash
    <3>7. QED
      BY <2>1, <3>1, <3>2, <3>3, <3>4, <3>5, <3>6 DEF Request, Dispatch
  <2>2. CASE CancelJob
    BY <2>2 DEF CancelJob
  <2>3. CASE ExpireJob
    BY <2>3 DEF ExpireJob
  <2>4. CASE FindStale
    BY <2>4 DEF FindStale
  <2>5. CASE MarkStale
    BY <2>5 DEF MarkStale
  <2>6. CASE GrowStale
    BY <2>6 DEF GrowStale
  <2>7. ASSUME NEW d \in Deliveries, Receive(d) \/ Run(d) \/ Pulse(d) \/ Fault(d)
        PROVE  TypeOK'
    <3>1. CASE Receive(d)
      BY <3>1 DEF Receive
    <3>2. CASE CheckJob(d)
      BY <3>2 DEF CheckJob
    <3>3. CASE Claim(d)
      BY <3>3 DEF Claim
    <3>4. CASE Recheck(d)
      BY <3>4 DEF Recheck
    <3>5. CASE PackAsset(d)
      BY <3>5 DEF PackAsset
    <3>6. CASE UploadArchive(d)
      BY <3>6 DEF UploadArchive
    <3>7. CASE VerifyNotCancelled(d)
      BY <3>7 DEF VerifyNotCancelled
    <3>8. CASE Complete(d)
      BY <3>8 DEF Complete
    <3>9. CASE DiscardArchive(d)
      BY <3>9 DEF DiscardArchive
    <3>10. CASE ReportFailure(d)
      <4>1. Retries(d) => tries[d] + 1 \in RetryCounts
        BY RetryCountsFacts DEF Retries
      <4>2. QED
        BY <3>10, <4>1 DEF ReportFailure
    <3>11. CASE Pulse(d)
      BY <3>11 DEF Pulse
    <3>12. CASE Fault(d)
      BY <3>12 DEF Fault, RaiseOSError, RaiseError, Crash, LoseMessage
    <3>13. QED
      BY <2>7, <3>1, <3>2, <3>3, <3>4, <3>5, <3>6, <3>7, <3>8, <3>9, <3>10,
         <3>11, <3>12 DEF Run
  <2>8. CASE UNCHANGED vars
    BY <2>8 DEF vars
  <2>9. QED
    BY <2>1, <2>2, <2>3, <2>4, <2>5, <2>6, <2>7, <2>8 DEF Next, Reconcile
<1>3. QED
  BY <1>1, <1>2, PTL DEF Spec
-----------------------------------------------------------------------------
(* ArchiveInv is inductive relative to the type invariant.  The steps that *)
(* matter are Complete (which needs the archive in place), DiscardArchive  *)
(* (which may only run under a mark or after expiry) and the writers that  *)
(* can set a job to succeeded or cancelled.                                *)
LEMMA ArchiveInvStep == TypeOK /\ ArchiveInv /\ [Next]_vars => ArchiveInv'
<1> SUFFICES ASSUME TypeOK, ArchiveInv, [Next]_vars
             PROVE  ArchiveInv'
  OBVIOUS
<1> USE DEF ArchiveInv, DownloadableHasArchive, TypeOK
<1> USE DEF SetState, Goto, Answer, Exists, job
<1>1. ASSUME NEW c \in Calls, Request(c) \/ Dispatch(c) \/ ApiCrash(c)
      PROVE  ArchiveInv'
  <2>1. CASE CreateExport(c)
    BY <2>1 DEF CreateExport
  <2>2. CASE RetryJob(c)
    BY <2>2 DEF RetryJob
  <2>3. CASE SendTask(c)
    BY <2>3 DEF SendTask
  <2>4. CASE SendTaskFails(c)
    BY <2>4 DEF SendTaskFails
  <2>5. CASE ReportSendFailure(c)
    BY <2>5 DEF ReportSendFailure
  <2>6. CASE ApiCrash(c)
    BY <2>6 DEF ApiCrash
  <2>7. QED
    BY <1>1, <2>1, <2>2, <2>3, <2>4, <2>5, <2>6 DEF Request, Dispatch
<1>2. CASE CancelJob
  BY <1>2 DEF CancelJob, Cancellable
<1>3. CASE ExpireJob
  BY <1>3 DEF ExpireJob
<1>4. CASE Reconcile
  BY <1>4 DEF Reconcile, FindStale, MarkStale
<1>5. CASE GrowStale
  BY <1>5 DEF GrowStale
<1>6. ASSUME NEW d \in Deliveries, Receive(d) \/ Run(d) \/ Pulse(d) \/ Fault(d)
      PROVE  ArchiveInv'
  <2>1. CASE Receive(d)
    BY <2>1 DEF Receive
  <2>2. CASE CheckJob(d)
    BY <2>2 DEF CheckJob
  <2>3. CASE Claim(d)
    BY <2>3 DEF Claim, NotCancelled
  <2>4. CASE Recheck(d)
    BY <2>4 DEF Recheck
  <2>5. CASE PackAsset(d)
    BY <2>5 DEF PackAsset
  <2>6. CASE UploadArchive(d)
    BY <2>6 DEF UploadArchive
  <2>7. CASE VerifyNotCancelled(d)
    BY <2>7 DEF VerifyNotCancelled, JobCancelled
  <2>8. CASE Complete(d)
    BY <2>8 DEF Complete, NotCancelled
  <2>9. CASE DiscardArchive(d)
    BY <2>9 DEF DiscardArchive
  <2>10. CASE ReportFailure(d)
    BY <2>10 DEF ReportFailure
  <2>11. CASE Pulse(d)
    BY <2>11 DEF Pulse
  <2>12. CASE RaiseOSError(d)
    BY <2>12 DEF RaiseOSError
  <2>13. CASE RaiseError(d)
    BY <2>13 DEF RaiseError, LiveSteps
  <2>14. CASE Crash(d)
    BY <2>14 DEF Crash, Live, LiveSteps
  <2>15. CASE LoseMessage(d)
    BY <2>15 DEF LoseMessage
  <2>16. QED
    BY <1>6, <2>1, <2>2, <2>3, <2>4, <2>5, <2>6, <2>7, <2>8, <2>9, <2>10,
       <2>11, <2>12, <2>13, <2>14, <2>15 DEF Run, Fault
<1>7. CASE UNCHANGED vars
  BY <1>7 DEF vars
<1>8. QED
  BY <1>1, <1>2, <1>3, <1>4, <1>5, <1>6, <1>7 DEF Next

(* Every job that succeeded, or is about to, has an archive: the inductive *)
(* invariant behind the download.                                          *)
LEMMA ArchiveInvariant == Spec => []ArchiveInv
<1>1. Init => ArchiveInv
  BY DEF Init, ArchiveInv, DownloadableHasArchive
<1>2. QED
  BY <1>1, ArchiveInvStep, TypeCorrect, PTL DEF Spec

(* A succeeded job that nobody cancelled has its archive in storage.       *)
THEOREM DownloadsWork == Spec => []DownloadableHasArchive
<1>1. ArchiveInv => DownloadableHasArchive
  BY DEF ArchiveInv
<1>2. QED
  BY <1>1, ArchiveInvariant, PTL

-----------------------------------------------------------------------------
(* From cancelled a job goes only to failed or expired: claims and         *)
(* completions re-test the state in the update itself.                     *)
THEOREM CancellationHolds == Spec => CancelledOnlyFails
<1>1. ASSUME [Next]_vars, state = "cancelled", state' # "cancelled"
      PROVE  state' \in {"failed", "expired"}
  <2>0. Next
    BY <1>1 DEF vars
  <2> USE <1>1 DEF SetState, job
  <2>api. ASSUME NEW c \in Calls, Request(c) \/ Dispatch(c) \/ ApiCrash(c)
          PROVE  state' \in {"failed", "expired"}
    BY <2>api DEF Request, Dispatch, ApiCrash, CreateExport, RetryJob, SendTask,
                  SendTaskFails, ReportSendFailure
  <2>monitor. CASE CancelJob \/ ExpireJob \/ Reconcile \/ GrowStale
    BY <2>monitor DEF CancelJob, ExpireJob, Reconcile, FindStale, MarkStale,
                      GrowStale
  <2>broker. ASSUME NEW d \in Deliveries, Receive(d) \/ Pulse(d) \/ Fault(d)
             PROVE  state' \in {"failed", "expired"}
    BY <2>broker DEF Receive, Pulse, Fault, RaiseOSError, RaiseError, Crash,
                     LoseMessage
  <2>worker. ASSUME NEW d \in Deliveries, Run(d)
             PROVE  state' \in {"failed", "expired"}
    BY <2>worker DEF Run, CheckJob, Claim, Recheck, PackAsset, UploadArchive,
                     VerifyNotCancelled, Complete, DiscardArchive, ReportFailure,
                     NotCancelled
  <2> QED
    BY <2>0, <2>api, <2>monitor, <2>broker, <2>worker DEF Next
<1>2. [Next]_vars => [state = "cancelled" /\ state' # "cancelled"
                        => state' \in {"failed", "expired"}]_vars
  BY <1>1
<1>3. QED
  BY <1>2, PTL DEF Spec, CancelledOnlyFails
-----------------------------------------------------------------------------
(* Every step of the protocol is a step of the lifecycle its users see, or *)
(* is invisible to them.  ArchiveInv gives Finish its archive and Discard  *)
(* its mark.                                                               *)
LEMMA LifecycleStep ==
  TypeOK /\ ArchiveInv /\ [Next]_vars => [Lifecycle!Next]_(Lifecycle!jobVars)
<1> SUFFICES ASSUME TypeOK, ArchiveInv, [Next]_vars
             PROVE  Lifecycle!Next \/ UNCHANGED <<state, cancel_requested, archive>>
  BY DEF Lifecycle!jobVars
<1> USE DEF SetState, Exists, job
<1> DEFINE Visible == Lifecycle!Next \/ UNCHANGED <<state, cancel_requested, archive>>
<1>1. ASSUME NEW c \in Calls, Request(c) \/ Dispatch(c) \/ ApiCrash(c)
      PROVE  Visible
  <2>1. CASE CreateExport(c)
    BY <2>1 DEF CreateExport, Lifecycle!Next, Lifecycle!Submit
  <2>2. CASE RetryJob(c)
    BY <2>2 DEF RetryJob, Lifecycle!Next, Lifecycle!Resubmit
  <2>3. CASE SendTask(c) \/ SendTaskFails(c) \/ ApiCrash(c)
    BY <2>3 DEF SendTask, SendTaskFails, ApiCrash
  <2>4. CASE ReportSendFailure(c)
    BY <2>4 DEF ReportSendFailure, Lifecycle!Next, Lifecycle!Fail, Lifecycle!Known
  <2>5. QED
    BY <1>1, <2>1, <2>2, <2>3, <2>4 DEF Request, Dispatch
<1>2. CASE CancelJob
  BY <1>2 DEF CancelJob, Cancellable, Lifecycle!Next, Lifecycle!Cancel
<1>3. CASE ExpireJob
  BY <1>3 DEF ExpireJob, Lifecycle!Next, Lifecycle!Expire, Lifecycle!Known
<1>4. CASE FindStale \/ GrowStale
  BY <1>4 DEF FindStale, GrowStale
<1>5. CASE MarkStale
  BY <1>5 DEF MarkStale, Lifecycle!Next, Lifecycle!Fail, Lifecycle!Known
<1>6. ASSUME NEW d \in Deliveries, Run(d)
      PROVE  Visible
  <2>1. CASE CheckJob(d) \/ Recheck(d) \/ PackAsset(d) \/ VerifyNotCancelled(d)
    BY <2>1 DEF CheckJob, Recheck, PackAsset, VerifyNotCancelled
  <2>2. CASE Claim(d)
    BY <2>2 DEF Claim, NotCancelled, Lifecycle!Next, Lifecycle!Work, Lifecycle!Known
  <2>3. CASE UploadArchive(d)
    <3>1. state # "absent"
      BY <2>3 DEF UploadArchive, ArchiveInv
    <3>2. QED
      BY <2>3, <3>1 DEF UploadArchive, Lifecycle!Next, Lifecycle!Store
  <2>4. CASE Complete(d)
    <3>1. archive \/ cancel_requested \/ state = "expired"
      BY <2>4 DEF Complete, ArchiveInv
    <3>2. QED
      BY <2>4, <3>1 DEF Complete, NotCancelled, Lifecycle!Next, Lifecycle!Finish,
                        Lifecycle!Known
  <2>5. CASE DiscardArchive(d)
    <3>1. cancel_requested \/ state = "expired"
      BY <2>5 DEF DiscardArchive, ArchiveInv
    <3>2. QED
      BY <2>5, <3>1 DEF DiscardArchive, Lifecycle!Next, Lifecycle!Discard
  <2>6. CASE ReportFailure(d)
    BY <2>6 DEF ReportFailure, Lifecycle!Next, Lifecycle!Fail, Lifecycle!Known
  <2>7. QED
    BY <1>6, <2>1, <2>2, <2>3, <2>4, <2>5, <2>6 DEF Run
<1>7. ASSUME NEW d \in Deliveries, RaiseError(d)
      PROVE  Visible
  <2>1. CASE UNCHANGED archive
    BY <1>7, <2>1 DEF RaiseError
  <2>2. CASE step[d] = "uploading" /\ archive' = TRUE
    <3>1. state # "absent"
      BY <2>2 DEF ArchiveInv
    <3>2. QED
      BY <1>7, <2>2, <3>1 DEF RaiseError, Lifecycle!Next, Lifecycle!Store
  <2>3. CASE step[d] = "discarding" /\ archive' = FALSE
    <3>1. cancel_requested \/ state = "expired"
      BY <2>3 DEF ArchiveInv
    <3>2. QED
      BY <1>7, <2>3, <3>1 DEF RaiseError, Lifecycle!Next, Lifecycle!Discard
  <2>4. QED
    BY <1>7, <2>1, <2>2, <2>3 DEF RaiseError
<1>8. ASSUME NEW d \in Deliveries,
             Receive(d) \/ Pulse(d) \/ RaiseOSError(d) \/ Crash(d) \/ LoseMessage(d)
      PROVE  Visible
  BY <1>8 DEF Receive, Pulse, RaiseOSError, Crash, LoseMessage
<1>9. CASE UNCHANGED vars
  BY <1>9 DEF vars
<1>10. QED
  BY <1>1, <1>2, <1>3, <1>4, <1>5, <1>6, <1>7, <1>8, <1>9 DEF Next, Reconcile, Fault

(* The deliveries, requests and monitor together implement the lifecycle.  *)
THEOREM ImplementsTheLifecycle == Spec => ImplementsLifecycle
<1>1. Init => Lifecycle!Init
  BY DEF Init, Lifecycle!Init
<1>2. QED
  BY <1>1, LifecycleStep, TypeCorrect, ArchiveInvariant, PTL
  DEF Spec, ImplementsLifecycle, Lifecycle!Spec
-----------------------------------------------------------------------------
(* A job submitted once has one message, and as no try fails between the   *)
(* upload and the end of the with statement, its archive is there only in  *)
(* the hands of that delivery, or of a job that can no longer be           *)
(* cancelled.                                                              *)
Once == events \intersect {"retry", "crash", "cleanup_error"} = {}

Used(d) == step[d] # "unsent"

(* What a delivery does between the upload and the end of its try.         *)
Holding == {"verifying", "completing", "discarding", "failing"}

OneMessage ==
  /\ \A c, b \in Calls : call[c] # "idle" /\ call[b] # "idle" => c = b
  /\ \A c \in Calls : call[c] = "sending" => \A d \in Deliveries : ~Used(d)
  /\ \A d, e \in Deliveries : Used(d) /\ Used(e) => d = e

ArchiveIsHeld ==
  archive =>
    /\ \E d \in Deliveries : Used(d)
    /\ \A d \in Deliveries : step[d] \in Holding \union {"unsent", "ended"}
    /\ \/ \E d \in Deliveries : step[d] \in Holding
       \/ state \in {"succeeded", "failed", "expired"}

OnceInv == Once => OneMessage /\ ArchiveIsHeld

LEMMA EventsFixed == ASSUME [Next]_vars PROVE events' = events
BY DEF Next, vars, Request, Dispatch, CreateExport, RetryJob, SendTask, SendTaskFails,
       ReportSendFailure, ApiCrash, CancelJob, ExpireJob, Reconcile, FindStale, MarkStale,
       GrowStale, Receive, Run, CheckJob, Claim, Recheck, PackAsset, UploadArchive,
       VerifyNotCancelled, Complete, DiscardArchive, ReportFailure, Pulse, Fault,
       RaiseOSError, RaiseError, Crash, LoseMessage

(* Requests, the monitor and the user send one message at most and take no *)
(* job with an archive out of a final state.                               *)
LEMMA RequestsKeepOnce ==
  ASSUME TypeOK, ArchiveInv, OneMessage, ArchiveIsHeld, Once,
         \/ \E c \in Calls : Request(c) \/ Dispatch(c) \/ ApiCrash(c)
         \/ CancelJob \/ ExpireJob \/ Reconcile \/ GrowStale
  PROVE  OneMessage' /\ ArchiveIsHeld'
<1> USE DEF TypeOK, OneMessage, ArchiveIsHeld, Used, Holding, SetState, Goto, Answer, Exists, job
<1>1. ASSUME NEW c \in Calls, CreateExport(c)
      PROVE  OneMessage' /\ ArchiveIsHeld'
  BY <1>1 DEF CreateExport, ArchiveInv
<1>2. ASSUME NEW c \in Calls, RetryJob(c)
      PROVE  FALSE
  BY <1>2 DEF RetryJob, Once
<1>3. ASSUME NEW c \in Calls, SendTask(c)
      PROVE  OneMessage' /\ ArchiveIsHeld'
  BY <1>3 DEF SendTask
<1>4. ASSUME NEW c \in Calls, SendTaskFails(c)
      PROVE  OneMessage' /\ ArchiveIsHeld'
  BY <1>4 DEF SendTaskFails
<1>5. ASSUME NEW c \in Calls, ReportSendFailure(c) \/ ApiCrash(c)
      PROVE  OneMessage' /\ ArchiveIsHeld'
  BY <1>5 DEF ReportSendFailure, ApiCrash
<1>6. CASE CancelJob \/ ExpireJob
  BY <1>6 DEF CancelJob, Cancellable, ExpireJob
<1>7. CASE Reconcile \/ GrowStale
  BY <1>7 DEF Reconcile, FindStale, MarkStale, GrowStale
<1> QED
  BY <1>1, <1>2, <1>3, <1>4, <1>5, <1>6, <1>7 DEF Request, Dispatch

(* The delivery stores the archive after its last repetition, and leaves   *)
(* it only to a job that has succeeded, failed or expired.                 *)
LEMMA DeliveryKeepsOnce ==
  ASSUME TypeOK, ArchiveInv, OneMessage, ArchiveIsHeld, Once, NEW d \in Deliveries,
         Receive(d) \/ Run(d) \/ Pulse(d) \/ Fault(d)
  PROVE  OneMessage' /\ ArchiveIsHeld'
<1> USE DEF TypeOK, OneMessage, ArchiveIsHeld, Used, Holding, SetState, Goto, Exists, job
<1>1. CASE Receive(d) \/ CheckJob(d) \/ Recheck(d) \/ PackAsset(d)
  BY <1>1 DEF Receive, CheckJob, Recheck, PackAsset
<1>2. CASE Claim(d)
  BY <1>2 DEF Claim
<1>3. CASE UploadArchive(d) \/ VerifyNotCancelled(d) \/ DiscardArchive(d)
  BY <1>3 DEF UploadArchive, VerifyNotCancelled, DiscardArchive
<1>4. CASE Complete(d)
  BY <1>4 DEF Complete, NotCancelled
<1>5. CASE ReportFailure(d)
  BY <1>5 DEF ReportFailure, Retries, ArchiveInv, JobState
<1>6. CASE Pulse(d)
  BY <1>6 DEF Pulse
<1>7. CASE Fault(d)
  <2>1. ~Crash(d)
    BY DEF Crash, Once
  <2>2. CASE RaiseOSError(d) \/ LoseMessage(d)
    BY <2>2 DEF RaiseOSError, LoseMessage, Once
  <2>3. CASE RaiseError(d)
    BY <2>3 DEF RaiseError, LiveSteps
  <2> QED
    BY <1>7, <2>1, <2>2, <2>3 DEF Fault
<1> QED
  BY <1>1, <1>2, <1>3, <1>4, <1>5, <1>6, <1>7 DEF Run

LEMMA OnceInvariant == Spec => []OnceInv
<1>1. Init => OnceInv
  BY DEF Init, OnceInv, OneMessage, ArchiveIsHeld, Used
<1>2. TypeOK /\ ArchiveInv /\ OnceInv /\ [Next]_vars => OnceInv'
  <2> SUFFICES ASSUME TypeOK, ArchiveInv, OnceInv, [Next]_vars, Once'
               PROVE  OneMessage' /\ ArchiveIsHeld'
    BY DEF OnceInv
  <2>1. Once /\ OneMessage /\ ArchiveIsHeld
    BY EventsFixed DEF OnceInv, Once
  <2>2. CASE UNCHANGED vars
    BY <2>1, <2>2 DEF vars, OneMessage, ArchiveIsHeld, Used
  <2> QED
    BY <2>1, <2>2, RequestsKeepOnce, DeliveryKeepsOnce DEF Next
<1> QED
  BY <1>1, <1>2, TypeCorrect, ArchiveInvariant, PTL DEF Spec

(* A job that was submitted once and then cancelled leaves no archive in   *)
(* storage, on a worker that lives and can remove its temporary directory, *)
(* wherever between two calls of the worker the cancellation falls and     *)
(* however often Celery has repeated the task before the archive was       *)
(* stored.                                                                 *)
THEOREM CancellationCleansUp == Spec => []CancelledOnceLeavesNoArchive
<1>1. OnceInv => CancelledOnceLeavesNoArchive
  BY DEF OnceInv, Once, ArchiveIsHeld, Holding, CancelledOnceLeavesNoArchive,
         CancelledLeavesNoArchive, Live, LiveSteps
<1> QED
  BY <1>1, OnceInvariant, PTL
=============================================================================
