------------------------ MODULE UploadProcessProofs ------------------------
(* Theorems about UploadProcess for any number of messages, requests and   *)
(* retries.                                                                *)
EXTENDS UploadProcess, TLAPS

-----------------------------------------------------------------------------
(* Every variable keeps its type.  A retry is counted only below MaxTries, *)
(* as in Celery, so that the counts stay in their range.                   *)
THEOREM TypeCorrect == Spec => []TypeOK
<1> USE MaxTriesAssumption DEF TypeOK, RetryCounts, CallSteps, Steps, LiveSteps, OwnerSteps
<1>1. Init => TypeOK
  <2> SUFFICES ASSUME Init PROVE TypeOK
    OBVIOUS
  <2>1. tries \in [Deliveries -> 0 .. MaxTries]
    <3>1. 0 \in 0 .. MaxTries
      OBVIOUS
    <3> QED BY <3>1 DEF Init
  <2>2. object \in BOOLEAN /\ dispatched \in BOOLEAN /\ overdue \in BOOLEAN
    BY DEF Init
  <2> QED BY <2>1, <2>2 DEF Init
<1>2. TypeOK /\ [Next]_vars => TypeOK'
  <2> SUFFICES ASSUME TypeOK, [Next]_vars PROVE TypeOK'
    OBVIOUS
  <2>1. CASE \E c \in Calls : BeginComplete(c) \/ Complete(c)
    BY ZenonT(40), <2>1 DEF BeginComplete, Complete, StoreAsset, InsertJob, CloseSession, SendTask,
                MarkDispatched, ReportDispatchError, Answer, Send, SendRaises, Goto, worker
  <2>2. CASE BeginAbort \/ DeleteSession \/ ApiCrash \/ GrowStale
    BY <2>2 DEF BeginAbort, DeleteSession, ApiCrash, GrowStale, api, worker
  <2>3. CASE Dispatch
    BY <2>3 DEF Dispatch, FindPending, DispatchPending, DispatchPendingFails,
                MarkPendingDispatched, Send, SendRaises, Goto, worker
  <2>4. CASE RetryJob \/ Resubmit
    <3>1. CASE RetryJob
      BY ZenonT(40), <3>1 DEF RetryJob, SetJob, worker
    <3>2. CASE ResetAsset
      BY <3>2 DEF ResetAsset, SetAsset, worker
    <3>3. CASE ResendTask
      BY <3>3 DEF ResendTask, Send, SendRaises, Goto
    <3>4. CASE ReportResendFailure
      BY ZenonT(40), <3>4 DEF ReportResendFailure, SetJob, SetAsset, worker
    <3> QED BY <2>4, <3>1, <3>2, <3>3, <3>4 DEF Resubmit
  <2>5. CASE Reconcile
    <3>1. CASE FindStale
      BY <3>1 DEF FindStale, worker
    <3>2. CASE MarkJob
      <4>1. job' \in {job, "failed"}
        BY <3>2 DEF MarkJob, SetJob
      <4>2. overdue' = overdue \/ overdue' = FALSE
        BY <3>2 DEF MarkJob, SetJob
      <4>3. overdue' \in BOOLEAN
        BY <4>2
      <4>4. UNCHANGED <<events, kind, abort, session, object, asset, dispatched, call, resubmit,
                        dispatcher, step, tries>> /\ monitor' = "marking_asset"
        BY <3>2 DEF MarkJob, worker
      <4> QED BY <4>1, <4>3, <4>4
    <3>3. CASE MarkAsset
      BY <3>3 DEF MarkAsset, FailUnprocessedAsset, worker
    <3> QED BY <2>5, <3>1, <3>2, <3>3 DEF Reconcile
  <2>6. CASE \E d \in Deliveries : Run(d) \/ Pulse(d) \/ Fault(d)
    <3> PICK d \in Deliveries : Run(d) \/ Pulse(d) \/ Fault(d)
      BY <2>6
    <3>1. CASE Receive(d) \/ ReadAsset(d) \/ Work(d)
      BY <3>1 DEF Receive, ReadAsset, Work, Goto, api
    <3>2. CASE StoreReady(d) \/ RemoveBundle(d) \/ DeleteBundle(d)
      <4>1. CASE StoreReady(d)
        BY <4>1 DEF StoreReady, Goto, SetAsset, api
      <4>2. CASE RemoveBundle(d)
        <5>1. object' \in BOOLEAN
          BY <4>2 DEF RemoveBundle
        <5>2. step' \in [Deliveries -> Steps]
          BY <4>2 DEF RemoveBundle, Goto
        <5>3. UNCHANGED <<events, kind, abort, session, asset, job, dispatched, overdue, call, resubmit,
                          dispatcher, monitor, tries>>
          BY <4>2 DEF RemoveBundle, api
        <5> QED BY <5>1, <5>2, <5>3
      <4>3. CASE DeleteBundle(d)
        BY <4>3 DEF DeleteBundle, Goto, SetAsset, api
      <4> QED BY <3>2, <4>1, <4>2, <4>3
    <3>3. CASE Claim(d) \/ Finish(d) \/ FailJob(d)
      <4>1. CASE Claim(d)
        <5>1. job' \in {job, "running"} /\ overdue' \in {overdue, FALSE}
          BY <4>1 DEF Claim, SetJob
        <5>2. overdue' \in BOOLEAN
          BY <5>1
        <5>3. \E s \in Steps : Goto(d, s)
          BY <4>1 DEF Claim
        <5>4. step' \in [Deliveries -> Steps]
          BY <5>3 DEF Goto
        <5>5. UNCHANGED <<events, kind, abort, session, object, asset, dispatched, call, resubmit,
                          dispatcher, monitor, tries>>
          BY <4>1 DEF Claim, api
        <5> QED BY <5>1, <5>2, <5>4, <5>5
      <4>2. CASE Finish(d)
        <5>1. job' \in {job, "succeeded"} /\ overdue' \in {overdue, FALSE}
          BY <4>2 DEF Finish, SetJob
        <5>2. overdue' \in BOOLEAN
          BY <5>1
        <5>3. \E s \in Steps : Goto(d, s)
          BY <4>2 DEF Finish
        <5>4. step' \in [Deliveries -> Steps]
          BY <5>3 DEF Goto
        <5>5. UNCHANGED <<events, kind, abort, session, object, asset, dispatched, call, resubmit,
                          dispatcher, monitor, tries>>
          BY <4>2 DEF Finish, api
        <5> QED BY <5>1, <5>2, <5>4, <5>5
      <4>3. CASE FailJob(d)
        <5>1. job' \in {job, "failed"} /\ overdue' \in {overdue, FALSE}
          BY <4>3 DEF FailJob, SetJob
        <5>2. overdue' \in BOOLEAN
          BY <5>1
        <5>3. \E s \in Steps : Goto(d, s)
          BY <4>3 DEF FailJob
        <5>4. step' \in [Deliveries -> Steps]
          BY <5>3 DEF Goto
        <5>5. UNCHANGED <<events, kind, abort, session, object, asset, dispatched, call, resubmit,
                          dispatcher, monitor, tries>>
          BY <4>3 DEF FailJob, api
        <5> QED BY <5>1, <5>2, <5>4, <5>5
      <4> QED BY <3>3, <4>1, <4>2, <4>3
    <3>4. CASE FailAsset(d)
      <4>1. Retries(d) => tries[d] + 1 \in 0 .. MaxTries
        BY DEF Retries
      <4> QED BY <3>4, <4>1 DEF FailAsset, Goto, SetAsset, api
    <3>5. CASE Pulse(d)
      <4>1. overdue' \in BOOLEAN
        BY <3>5 DEF Pulse
      <4>2. UNCHANGED <<events, kind, abort, session, object, asset, job, dispatched, call,
                        resubmit, dispatcher, monitor, step, tries>>
        BY <3>5 DEF Pulse, api, worker
      <4> QED BY <4>1, <4>2
    <3>6. CASE Fault(d)
      <4>1. \E s \in Steps : Goto(d, s)
        BY <3>6 DEF Fault, Raise, Crash, LoseMessage
      <4>2. UNCHANGED <<events, kind, abort, session, object, asset, job, dispatched, overdue, call,
                        resubmit, dispatcher, monitor, tries>>
        BY <3>6 DEF Fault, Raise, Crash, LoseMessage, api
      <4>3. step' \in [Deliveries -> Steps]
        BY <4>1 DEF Goto
      <4> QED BY <4>2, <4>3
    <3> QED BY <3>1, <3>2, <3>3, <3>4, <3>5, <3>6 DEF Run
  <2>7. CASE UNCHANGED vars
    BY <2>7 DEF vars, api, worker
  <2> QED BY <2>1, <2>2, <2>3, <2>4, <2>5, <2>6, <2>7 DEF Next
<1> QED BY <1>1, <1>2, PTL DEF Spec

-----------------------------------------------------------------------------
(* Mutual exclusion of the deliveries, by the invariant OwnerFacts.          *)

(* The environment of a behaviour does not change.                         *)
LEMMA EventsFixed == ASSUME [Next]_vars PROVE events' = events
BY DEF Next, vars, Complete, BeginComplete, StoreAsset, InsertJob, CloseSession, SendTask,
       MarkDispatched, ReportDispatchError, BeginAbort, DeleteSession, Dispatch, FindPending,
       DispatchPending, DispatchPendingFails, MarkPendingDispatched, RetryJob, Resubmit,
       ResetAsset, ResendTask, ReportResendFailure, Reconcile, FindStale, MarkJob, MarkAsset,
       GrowStale, ApiCrash, Run, Receive, Claim, ReadAsset, Work, StoreReady, RemoveBundle,
       DeleteBundle, Finish, FailJob, FailAsset, Pulse, Fault, Raise, Crash, LoseMessage

(* A step that touches no delivery, job state or stale mark keeps the      *)
(* owners.                                                                 *)
LEMMA OwnerFrame ==
  ASSUME OwnerFacts, step' = step, job' = job, overdue' = overdue, monitor' = monitor,
         resubmit' # "failing_job"
  PROVE  OwnerFacts'
BY DEF OwnerFacts, OneOwner, NoOwner, Owner

(* Sending a message makes no owner.                                       *)
LEMMA SendKeepsOwners ==
  ASSUME TypeOK, Send
  PROVE  \A d \in Deliveries : Owner(d)' <=> Owner(d)
BY DEF TypeOK, Send, Goto, Owner, OwnerSteps

(* A step of one delivery that claims nothing keeps the owners, and when   *)
(* it changes the job's state it gives the job up.                         *)
LEMMA OwnerLeaves ==
  ASSUME TypeOK, OwnerFacts, NEW d \in Deliveries, NEW s \in Steps, Goto(d, s),
         s \in OwnerSteps => Owner(d) /\ job' = job,
         Owner(d) \/ job' = job,
         overdue' \in {overdue, FALSE}, monitor' = monitor, resubmit' = resubmit
  PROVE  OwnerFacts'
<1>1. \A e \in Deliveries : Owner(e)' => Owner(e) /\ job' = job
  BY DEF TypeOK, Goto, Owner, OwnerFacts, OneOwner
<1>2. NoOwner => NoOwner' /\ job' = job
  BY <1>1 DEF NoOwner
<1>3. \A e \in Deliveries : Owner(e)' => job' = "running"
  BY <1>1 DEF OwnerFacts
<1>4. OneOwner'
  BY <1>1 DEF OwnerFacts, OneOwner
<1>5. overdue' => NoOwner'
  BY <1>2 DEF OwnerFacts
<1>6. monitor' = "marking_job" => job' = "running" /\ NoOwner'
  BY <1>2 DEF OwnerFacts
<1> QED BY <1>3, <1>4, <1>5, <1>6 DEF OwnerFacts

(* Requests and loops of the API.                                          *)
LEMMA ApiKeepsOwners ==
  ASSUME TypeOK, OwnerFacts, NoForeignFailure,
         \/ \E c \in Calls : BeginComplete(c) \/ Complete(c)
         \/ BeginAbort \/ DeleteSession \/ Dispatch \/ RetryJob \/ Resubmit \/ Reconcile
         \/ GrowStale \/ ApiCrash
  PROVE  OwnerFacts'
<1>0. ~SendRaises
  BY DEF NoForeignFailure, SendRaises
<1>1. ASSUME NEW c \in Calls, BeginComplete(c) \/ Complete(c)
      PROVE  OwnerFacts'
  <2>1. CASE BeginComplete(c) \/ StoreAsset(c) \/ CloseSession(c)
    BY <2>1, OwnerFrame DEF BeginComplete, StoreAsset, CloseSession, worker, OwnerFacts
  <2>2. CASE InsertJob(c)
    BY <2>2 DEF InsertJob, OwnerFacts, OneOwner, NoOwner, Owner, worker
  <2>3. CASE SendTask(c)
    BY <1>0, <2>3, SendKeepsOwners DEF SendTask, OwnerFacts, OneOwner, NoOwner
  <2>4. CASE MarkDispatched(c) \/ ReportDispatchError(c)
    BY <2>4 DEF MarkDispatched, ReportDispatchError, OwnerFacts, OneOwner, NoOwner, Owner, worker
  <2> QED BY <1>1, <2>1, <2>2, <2>3, <2>4 DEF Complete
<1>2. CASE BeginAbort \/ DeleteSession
  BY <1>2, OwnerFrame DEF BeginAbort, DeleteSession, api, worker, OwnerFacts
<1>3. CASE Dispatch
  <2>1. CASE FindPending
    BY <2>1, OwnerFrame DEF FindPending, worker, OwnerFacts
  <2>2. CASE DispatchPending
    BY <2>2, SendKeepsOwners DEF DispatchPending, OwnerFacts, OneOwner, NoOwner
  <2>3. CASE DispatchPendingFails
    BY <1>0, <2>3, OwnerFrame DEF DispatchPendingFails, OwnerFacts
  <2>4. CASE MarkPendingDispatched
    BY <2>4 DEF MarkPendingDispatched, OwnerFacts, OneOwner, NoOwner, Owner, worker
  <2> QED BY <1>3, <2>1, <2>2, <2>3, <2>4 DEF Dispatch
<1>4. CASE RetryJob
  <2>1. NoOwner
    BY <1>4 DEF RetryJob, OwnerFacts, NoOwner
  <2> QED BY <1>4, <2>1 DEF RetryJob, SetJob, OwnerFacts, OneOwner, NoOwner, Owner, worker
<1>5. CASE Resubmit
  <2>1. CASE ResetAsset
    BY <2>1, OwnerFrame DEF ResetAsset, worker
  <2>2. CASE ResendTask
    BY <1>0, <2>2, SendKeepsOwners DEF ResendTask, OwnerFacts, OneOwner, NoOwner
  <2>3. CASE ReportResendFailure
    BY <2>3, OwnerFrame DEF ReportResendFailure, OwnerFacts, worker
  <2> QED BY <1>5, <2>1, <2>2, <2>3 DEF Resubmit
<1>6. CASE Reconcile
  <2>1. CASE FindStale
    BY <2>1 DEF FindStale, OwnerFacts, OneOwner, NoOwner, Owner, worker
  <2>2. CASE MarkJob
    BY <2>2 DEF MarkJob, SetJob, OwnerFacts, OneOwner, NoOwner, Owner, worker
  <2>3. CASE MarkAsset
    BY <2>3 DEF MarkAsset, OwnerFacts, OneOwner, NoOwner, Owner, worker
  <2> QED BY <1>6, <2>1, <2>2, <2>3 DEF Reconcile
<1>7. CASE GrowStale
  BY <1>7 DEF GrowStale, Live, LiveSteps, OwnerFacts, OneOwner, NoOwner, Owner, api, worker
<1>8. CASE ApiCrash
  BY <1>8 DEF ApiCrash, OwnerFacts, OneOwner, NoOwner, Owner, worker
<1> QED BY <1>1, <1>2, <1>3, <1>4, <1>5, <1>6, <1>7, <1>8

(* Steps and faults of a delivery.                                         *)
LEMMA WorkerKeepsOwners ==
  ASSUME TypeOK, OwnerFacts, NoForeignFailure, NEW d \in Deliveries,
         Run(d) \/ Pulse(d) \/ Fault(d)
  PROVE  OwnerFacts'
<1>1. CASE Receive(d) \/ ReadAsset(d) \/ Work(d)
  BY <1>1, OwnerLeaves
  DEF Receive, ReadAsset, Work, Owner, OwnerSteps, LiveSteps, Steps, api, TypeOK
<1>2. CASE StoreReady(d) \/ RemoveBundle(d) \/ DeleteBundle(d)
  BY <1>2, OwnerLeaves
  DEF StoreReady, RemoveBundle, DeleteBundle, Owner, OwnerSteps, LiveSteps, Steps, api
<1>3. CASE Claim(d)
  <2>1. CASE Claimable
    <3>1. NoOwner /\ monitor # "marking_job"
      BY <2>1 DEF Claimable, OwnerFacts, NoOwner
    <3>2. step' = [step EXCEPT ![d] = "reading"] /\ job' = "running" /\ overdue' = FALSE
      BY <1>3, <2>1 DEF Claim, Goto, SetJob, Claimable
    <3>3. \A e \in Deliveries : Owner(e)' => e = d
      BY <3>1, <3>2 DEF NoOwner, Owner, TypeOK
    <3>4. monitor' = monitor /\ resubmit' = resubmit
      BY <1>3 DEF Claim, api
    <3> QED BY <3>1, <3>2, <3>3, <3>4 DEF OwnerFacts, OneOwner
  <2>2. CASE ~Claimable
    BY <1>3, <2>2, OwnerLeaves DEF Claim, Owner, OwnerSteps, LiveSteps, Steps, api
  <2> QED BY <2>1, <2>2
<1>4. CASE Finish(d) \/ FailJob(d)
  BY <1>4, OwnerLeaves
  DEF Finish, FailJob, SetJob, Owner, OwnerSteps, LiveSteps, Steps, api
<1>5. CASE FailAsset(d)
  BY <1>5, OwnerLeaves DEF FailAsset, Owner, OwnerSteps, LiveSteps, Steps, api
<1>6. CASE Pulse(d)
  BY <1>6 DEF Pulse, OwnerFacts, OneOwner, NoOwner, Owner, api, worker
<1>7. CASE Fault(d)
  BY <1>7, OwnerLeaves
  DEF Fault, Raise, Crash, LoseMessage, NoForeignFailure, Owner, OwnerSteps, LiveSteps, Steps, api
<1> QED BY <1>1, <1>2, <1>3, <1>4, <1>5, <1>6, <1>7 DEF Run

(* The facts hold of every behaviour without foreign failure reports.      *)
LEMMA OwnersKept == Spec => []OwnerInv
<1>1. Init => OwnerInv
  BY DEF Init, OwnerInv, OwnerFacts, OneOwner, NoOwner, Owner, OwnerSteps
<1>2. TypeOK /\ OwnerInv /\ [Next]_vars => OwnerInv'
  <2> SUFFICES ASSUME TypeOK, OwnerInv, [Next]_vars, NoForeignFailure'
               PROVE  OwnerFacts'
    BY DEF OwnerInv
  <2>1. NoForeignFailure /\ OwnerFacts
    <3>1. events' = events
      BY EventsFixed
    <3> QED BY <3>1 DEF OwnerInv, NoForeignFailure
  <2>2. CASE UNCHANGED vars
    BY <2>1, <2>2, OwnerFrame DEF vars, api, worker, OwnerFacts
  <2> QED BY <2>1, <2>2, ApiKeepsOwners, WorkerKeepsOwners DEF Next
<1> QED BY <1>1, <1>2, TypeCorrect, PTL DEF Spec

(* Only one delivery at a time processes the asset, whatever is sent twice *)
(* by the outbox, by a repeated request or by Celery's retries, wherever   *)
(* the API or a worker dies, and while the monitor fails stale jobs: the   *)
(* claim in process_asset is enough as long as no failure is reported by   *)
(* somebody who does not hold the job.                                     *)
THEOREM OwnersNeverOverlap == Spec => []OwnersExclude
<1>1. OwnerInv => OwnersExclude
  BY DEF OwnerInv, OwnerFacts, OwnersExclude
<1> QED BY <1>1, OwnersKept, PTL
-----------------------------------------------------------------------------
(* What became of a file is not taken back, although the monitor and late  *)
(* deliveries write the asset without holding the job.                     *)
Outages == {"abort", "crash", "lost_message", "send_error", "api_crash"}

Processed == asset = IF kind = "bundle" THEN "imported" ELSE "ready"

Failing(d) == step[d] \in {"failing", "failing_os", "failing_asset", "failing_asset_os"}

(* The asset is stored by the one request before there is a job.           *)
StoredFirst ==
  /\ \A c, b \in Calls : call[c] # "idle" /\ call[b] # "idle" => c = b
  /\ \A c \in Calls : call[c] = "storing" => asset = "absent"
  /\ \A c \in Calls : call[c] = "inserting" => asset # "absent"
  /\ job # "absent" => asset # "absent"
  /\ \A d \in Deliveries : Owner(d) => job # "absent"
  /\ resubmit = "idle"

(* Only the import of a bundle can fail, for want of its archive.          *)
KindDecides ==
  /\ kind = "file" =>
       /\ object
       /\ asset # "imported"
       /\ \A d \in Deliveries : step[d] \notin {"removing", "deleting"} /\ ~Failing(d)
  /\ kind = "bundle" => \A d \in Deliveries : step[d] # "storing"

ProcessedFacts ==
  /\ StoredFirst
  /\ KindDecides
  /\ \A d \in Deliveries : step[d] = "finishing" => Processed
  /\ job = "succeeded" => Processed

ProcessedInv == events \subseteq Outages => ProcessedFacts

(* Requests and loops of the API.                                          *)
LEMMA ApiKeepsProcessed ==
  ASSUME TypeOK, ProcessedFacts, events \subseteq Outages,
         \/ \E c \in Calls : BeginComplete(c) \/ Complete(c)
         \/ BeginAbort \/ DeleteSession \/ Dispatch \/ RetryJob \/ Resubmit \/ Reconcile
         \/ GrowStale \/ ApiCrash
  PROVE  ProcessedFacts'
<1> USE DEF ProcessedFacts, StoredFirst, KindDecides, Processed, Failing, Owner, OwnerSteps
<1>1. ASSUME NEW c \in Calls, BeginComplete(c) \/ StoreAsset(c) \/ InsertJob(c) \/ CloseSession(c)
      PROVE  ProcessedFacts'
  <2>1. CASE BeginComplete(c)
    BY <2>1 DEF BeginComplete, Answer, worker, Outages, TypeOK
  <2>2. CASE StoreAsset(c)
    BY <2>2 DEF StoreAsset, Answer, worker, TypeOK
  <2>3. CASE InsertJob(c) \/ CloseSession(c)
    BY <2>3 DEF InsertJob, CloseSession, Answer, worker, TypeOK
  <2> QED
    BY <1>1, <2>1, <2>2, <2>3
<1>2. ASSUME NEW c \in Calls, SendTask(c) \/ MarkDispatched(c) \/ ReportDispatchError(c)
      PROVE  ProcessedFacts'
  BY <1>2 DEF SendTask, MarkDispatched, ReportDispatchError, Answer, Send, SendRaises, Goto, worker,
              TypeOK
<1>3. CASE BeginAbort \/ DeleteSession \/ GrowStale \/ ApiCrash
  BY <1>3 DEF BeginAbort, DeleteSession, GrowStale, ApiCrash, api, worker
<1>4. CASE Dispatch
  BY <1>4 DEF Dispatch, FindPending, DispatchPending, DispatchPendingFails, MarkPendingDispatched,
              Send, SendRaises, Goto, worker, TypeOK
<1>5. ~RetryJob /\ ~Resubmit
  BY DEF RetryJob, Resubmit, ResetAsset, ResendTask, ReportResendFailure, Outages
<1>6. CASE Reconcile
  BY <1>6 DEF Reconcile, FindStale, MarkJob, MarkAsset, FailUnprocessedAsset, SetJob, worker
<1> QED
  BY <1>1, <1>2, <1>3, <1>4, <1>5, <1>6 DEF Complete

(* Deliveries, also several of the same job.                               *)
LEMMA WorkerKeepsProcessed ==
  ASSUME TypeOK, ProcessedFacts, events \subseteq Outages, NEW d \in Deliveries,
         Run(d) \/ Pulse(d) \/ Fault(d)
  PROVE  ProcessedFacts'
<1> USE DEF ProcessedFacts, StoredFirst, KindDecides, Processed, Failing, Owner, OwnerSteps, Goto,
        TypeOK
<1>1. CASE Receive(d) \/ ReadAsset(d) \/ Work(d)
  BY <1>1 DEF Receive, ReadAsset, Work, AssetStored, api
<1>2. CASE Claim(d)
  BY <1>2 DEF Claim, Claimable, SetJob, api
<1>3. CASE StoreReady(d) \/ RemoveBundle(d) \/ DeleteBundle(d)
  BY <1>3 DEF StoreReady, RemoveBundle, DeleteBundle, SetAsset, AssetStored, api
<1>4. CASE Finish(d) \/ FailJob(d)
  BY <1>4 DEF Finish, FailJob, SetJob, api
<1>5. CASE FailAsset(d)
  BY <1>5 DEF FailAsset, SetAsset, AssetStored, api
<1>6. CASE Pulse(d)
  BY <1>6 DEF Pulse, api, worker
<1>7. CASE Fault(d)
  BY <1>7 DEF Fault, Raise, Crash, LoseMessage, Outages, api
<1> QED
  BY <1>1, <1>2, <1>3, <1>4, <1>5, <1>6, <1>7 DEF Run

LEMMA ProcessedInvariant == Spec => []ProcessedInv
<1>1. Init => ProcessedInv
  BY DEF Init, ProcessedInv, ProcessedFacts, StoredFirst, KindDecides, Processed, Failing, Owner,
         OwnerSteps
<1>2. TypeOK /\ ProcessedInv /\ [Next]_vars => ProcessedInv'
  <2> SUFFICES ASSUME TypeOK, ProcessedInv, [Next]_vars, (events \subseteq Outages)'
               PROVE  ProcessedFacts'
    BY DEF ProcessedInv
  <2>1. events \subseteq Outages /\ ProcessedFacts
    BY EventsFixed DEF ProcessedInv, Outages
  <2>2. CASE UNCHANGED vars
    BY <2>1, <2>2 DEF vars, api, worker, ProcessedFacts, StoredFirst, KindDecides, Processed,
       Failing, Owner
  <2> QED
    BY <2>1, <2>2, ApiKeepsProcessed, WorkerKeepsProcessed DEF Next
<1> QED
  BY <1>1, <1>2, TypeCorrect, PTL DEF Spec

(* A job that succeeded left its asset ready, or its bundle imported, and  *)
(* neither the monitor nor a message sent twice takes that back, whatever  *)
(* dies or gets lost.                                                      *)
THEOREM ResultsStay == Spec => []SucceededStaysProcessed
<1>1. ProcessedInv => SucceededStaysProcessed
  BY DEF ProcessedInv, ProcessedFacts, Processed, Outages, SucceededStaysProcessed,
         SucceededMeansProcessed
<1> QED
  BY <1>1, ProcessedInvariant, PTL
=============================================================================
