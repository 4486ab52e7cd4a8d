--------------------------- MODULE DatasetProofs ---------------------------
(***************************************************************************)
(* Proofs about datasets.  DatasetWrites, for any number of write requests *)
(* and assets: typing, the exclusion the lease gives, and what a restore   *)
(* leaves behind.  VersionCompare: the merge is right for any two versions *)
(* over any finite set of assets and any detail limit.                     *)
(***************************************************************************)
EXTENDS DatasetWrites, VersionCompare, FiniteSetTheorems, TLAPS

-----------------------------------------------------------------------------
(* DatasetWrites                                                           *)

(* The values of the model keep their types at every step of every         *)
(* request, and a restore always knows the version it restores.            *)
THEOREM TypeCorrect == Spec => []TypeOK
<1> USE NoWriterAssumption DEF Id
<1>1. Init => TypeOK
  <2> SUFFICES ASSUME Init
               PROVE  TypeOK
    OBVIOUS
  <2>1. /\ events \in Environments
        /\ token \in Id /\ lease_live \in BOOLEAN /\ members \in SUBSET Assets
        /\ restore_target \in Id /\ restore_backup \in Id /\ current \in Id
        /\ content \in SUBSET Assets
    BY DEF Init
  <2>2. /\ backups \in [Writers -> SUBSET Assets]
        /\ digest \in [Writers -> SUBSET Assets]
        /\ rows \in [Writers -> SUBSET Assets]
        /\ batch \in [Writers -> SUBSET Assets]
    BY DEF Init
  <2>3. /\ version_number \in [Writers -> Nat]
        /\ next_number \in [Writers -> Nat]
    BY DEF Init
  <2>4. /\ goal \in [Writers -> Id]
        /\ previous \in [Writers -> Id]
        /\ renewing \in [Writers -> BOOLEAN]
        /\ resuming \in [Writers -> BOOLEAN]
    BY DEF Init
  <2>5. /\ pc \in [Writers -> CriticalSteps \union {"idle", "done"}]
        /\ GoalKnown
    BY DEF Init, GoalKnown
  <2> QED
    BY <2>1, <2>2, <2>3, <2>4, <2>5 DEF TypeOK
<1>2. TypeOK /\ [Next]_vars => TypeOK'
  <2> SUFFICES ASSUME TypeOK, [Next]_vars
               PROVE  TypeOK'
    OBVIOUS
  <2> USE DEF TypeOK, GoalKnown, CriticalSteps, RestoreSteps, EditSteps, PublishSteps,
              At, Goto, lease, restore, versions, locals
  <2>1. CASE LeaseExpires
    BY <2>1 DEF LeaseExpires
  <2>2. ASSUME NEW w \in Writers, Acquire(w)
        PROVE  TypeOK'
    BY <2>2 DEF Acquire
  <2>3. ASSUME NEW w \in Writers, Resume(w)
        PROVE  TypeOK'
    <3>1. CASE ReadPending(w)
      <4>1. CASE Pending
        <5>1. resuming' \in [Writers -> BOOLEAN]
          BY <3>1, <4>1 DEF ReadPending
        <5>2. pc' \in [Writers -> CriticalSteps \union {"idle", "done"}]
          BY <3>1, <4>1 DEF ReadPending
        <5>3. goal' \in [Writers -> Id] /\ GoalKnown'
          BY <3>1, <4>1 DEF ReadPending, Resumed, Listed
        <5> QED
          BY <3>1, <5>1, <5>2, <5>3 DEF ReadPending
      <4>2. CASE ~Pending
        BY <3>1, <4>2 DEF ReadPending
      <4> QED
        BY <4>1, <4>2
    <3>2. CASE ClearMembers(w)
      BY <3>2 DEF ClearMembers
    <3>3. CASE FillMembers(w)
      BY <3>3 DEF FillMembers, AfterFill
    <3> QED
      BY <2>3, <3>1, <3>2, <3>3 DEF Resume
  <2>4. ASSUME NEW w \in Writers, Restore(w)
        PROVE  TypeOK'
    <3>1. CASE StartRestore(w)
      BY <3>1 DEF StartRestore, Listed
    <3>2. CASE MarkRestore(w)
      BY <3>2 DEF MarkRestore
    <3>3. CASE WriteAudit(w)
      BY <3>3 DEF WriteAudit
    <3>4. CASE UnsetTarget(w)
      BY <3>4 DEF UnsetTarget
    <3>5. CASE DropRestoreBackup(w)
      BY <3>5 DEF DropRestoreBackup, DropBackup
    <3>6. CASE UndoClear(w)
      BY <3>6 DEF UndoClear
    <3>7. CASE UndoFill(w)
      BY <3>7 DEF UndoFill
    <3>8. CASE UndoDrop(w)
      BY <3>8 DEF UndoDrop, DropBackup
    <3>9. CASE UndoUnset(w)
      BY <3>9 DEF UndoUnset
    <3> QED
      BY <2>4, <3>1, <3>2, <3>3, <3>4, <3>5, <3>6, <3>7, <3>8, <3>9 DEF Restore
  <2>5. ASSUME NEW w \in Writers, Edit(w)
        PROVE  TypeOK'
    <3>1. CASE AddMember(w)
      BY <3>1 DEF AddMember
    <3>2. CASE RemoveMember(w)
      BY <3>2 DEF RemoveMember
    <3>3. CASE FinishEdit(w)
      BY <3>3 DEF FinishEdit
    <3>4. CASE UndoEdit(w)
      BY <3>4 DEF UndoEdit
    <3> QED
      BY <2>5, <3>1, <3>2, <3>3, <3>4 DEF Edit
  <2>6. ASSUME NEW w \in Writers, Publish(w)
        PROVE  TypeOK'
    <3>1. CASE StartPublish(w)
      BY <3>1 DEF StartPublish
    <3>2. CASE NumberVersion(w)
      BY <3>2 DEF NumberVersion, IsLatest, Listed
    <3>3. CASE InsertVersion(w)
      BY <3>3 DEF InsertVersion, Listed
    <3>4. CASE InsertRows(w)
      BY <3>4 DEF InsertRows
    <3>5. CASE PointCurrent(w)
      BY <3>5 DEF PointCurrent
    <3>6. CASE UndoRows(w)
      BY <3>6 DEF UndoRows, AfterUndoRows
    <3>7. CASE UndoVersion(w)
      BY <3>7 DEF UndoVersion, AfterUndoVersion
    <3>8. CASE UndoPoint(w)
      BY <3>8 DEF UndoPoint
    <3> QED
      BY <2>6, <3>1, <3>2, <3>3, <3>4, <3>5, <3>6, <3>7, <3>8 DEF Publish
  <2>7. ASSUME NEW w \in Writers, Leave(w)
        PROVE  TypeOK'
    BY <2>7 DEF Leave
  <2>8. ASSUME NEW w \in Writers, RenewFails(w) \/ Error(w) \/ LateError(w) \/ UndoError(w) \/ Crash(w)
        PROVE  TypeOK'
    <3>1. CASE RenewFails(w)
      BY <3>1 DEF RenewFails
    <3>2. CASE Error(w)
      BY <3>2 DEF Error, Handler, RestoreHandler
    <3>3. CASE UndoError(w)
      BY <3>3 DEF UndoError
    <3>4. CASE Crash(w)
      BY <3>4 DEF Crash
    <3>5. CASE LateError(w)
      BY <3>5 DEF LateError, Handler, RestoreHandler
    <3> QED
      BY <2>8, <3>1, <3>2, <3>3, <3>4, <3>5
  <2>9. CASE UNCHANGED vars
    BY <2>9 DEF vars
  <2> QED
    BY <2>1, <2>2, <2>3, <2>4, <2>5, <2>6, <2>7, <2>8, <2>9 DEF Next, Step
<1> QED
  BY <1>1, <1>2, PTL DEF Spec
-----------------------------------------------------------------------------
(* Between acquisition and release only the request itself moves its pc,   *)
(* and none of these steps touches the lease.                              *)
LEMMA StepsAreCritical ==
  ASSUME TypeOK, NEW w \in Writers,
         \/ Resume(w) \/ Restore(w) \/ Edit(w) \/ Publish(w)
         \/ Error(w) \/ LateError(w) \/ UndoError(w) \/ Crash(w)
  PROVE  /\ Critical(w)
         /\ UNCHANGED <<lease, renewing>>
         /\ \E s : Goto(w, s)
<1> USE DEF Critical, CriticalSteps, RestoreSteps, EditSteps, PublishSteps, At, locals
<1>0. Goto(w, pc[w]) <=> pc' = pc
  BY DEF Goto, TypeOK
<1>1. CASE Resume(w)
  BY <1>0, <1>1 DEF Resume, ReadPending, ClearMembers, FillMembers
<1>2. CASE Restore(w)
  BY <1>0, <1>2 DEF Restore, StartRestore, MarkRestore, WriteAudit, UnsetTarget,
     DropRestoreBackup, UndoClear, UndoFill, UndoDrop, UndoUnset
<1>3. CASE Edit(w)
  BY <1>3 DEF Edit, AddMember, RemoveMember, FinishEdit, UndoEdit
<1>4. CASE Publish(w)
  BY <1>4 DEF Publish, StartPublish, NumberVersion, InsertVersion, InsertRows,
     PointCurrent, UndoRows, UndoVersion, UndoPoint
<1>5. CASE Error(w) \/ LateError(w) \/ UndoError(w) \/ Crash(w)
  BY <1>5 DEF Error, LateError, UndoError, Crash
<1> QED
  BY <1>1, <1>2, <1>3, <1>4, <1>5

(* The lease is only given away by the request that holds it, and only     *)
(* taken when it is free or has run out, which the renewal prevents.       *)
LEMMA LeaseStep == TypeOK /\ LeaseInv /\ [Next]_vars => LeaseInv'
<1> SUFFICES ASSUME TypeOK, LeaseInv, [Next]_vars
             PROVE  LeaseInv'
  OBVIOUS
<1> USE NoWriterAssumption
<1> USE DEF LeaseInv, TypeOK, Renewed, Critical, Goto, At, lease, locals
<1>1. CASE LeaseExpires
  BY <1>1 DEF LeaseExpires
<1>2. ASSUME NEW w \in Writers, Acquire(w)
      PROVE  LeaseInv'
  BY <1>2 DEF Acquire
<1>3. ASSUME NEW w \in Writers, Leave(w)
      PROVE  LeaseInv'
  BY <1>3 DEF Leave, CriticalSteps, RestoreSteps, EditSteps, PublishSteps
<1>4. ASSUME NEW w \in Writers, RenewFails(w)
      PROVE  LeaseInv'
  BY <1>4 DEF RenewFails
<1>5. ASSUME NEW w \in Writers, Resume(w) \/ Restore(w) \/ Edit(w) \/ Publish(w)
      PROVE  LeaseInv'
  <2>1. Critical(w) /\ UNCHANGED <<lease, renewing>> /\ \E s : Goto(w, s)
    BY <1>5, StepsAreCritical
  <2> QED
    BY <2>1
<1>6. ASSUME NEW w \in Writers, Error(w) \/ LateError(w) \/ UndoError(w) \/ Crash(w)
      PROVE  LeaseInv'
  <2>1. Critical(w) /\ UNCHANGED <<lease, renewing>> /\ \E s : Goto(w, s)
    BY <1>6, StepsAreCritical
  <2> QED
    BY <2>1
<1>7. CASE UNCHANGED vars
  BY <1>7 DEF vars
<1> QED
  BY <1>1, <1>2, <1>3, <1>4, <1>5, <1>6, <1>7 DEF Next, Step

(* Whoever is inside with a renewal that works holds the lease.            *)
LEMMA LeaseInvariant == Spec => []LeaseInv
<1>1. Init => LeaseInv
  BY DEF Init, LeaseInv, Renewed, Critical, CriticalSteps, RestoreSteps, EditSteps, PublishSteps
<1> QED
  BY <1>1, LeaseStep, TypeCorrect, PTL DEF Spec

(* Two requests whose renewal works are never inside at the same time,     *)
(* whatever has failed or died before them.                                *)
THEOREM RenewedExclude == Spec => []RenewedWritersExclude
<1>1. LeaseInv => RenewedWritersExclude
  BY DEF LeaseInv, RenewedWritersExclude, Renewed
<1> QED
  BY <1>1, LeaseInvariant, PTL

(* The environment of a behaviour does not change.                         *)
LEMMA EventsFixed == ASSUME [Next]_vars PROVE events' = events
BY DEF Next, vars, LeaseExpires, Acquire, Leave, RenewFails, Step, Resume, ReadPending,
       ClearMembers, FillMembers, Restore, StartRestore, MarkRestore, WriteAudit, UnsetTarget,
       DropRestoreBackup, UndoClear, UndoFill, UndoDrop, UndoUnset, Edit, AddMember,
       RemoveMember, FinishEdit, UndoEdit, Publish, StartPublish, NumberVersion, InsertVersion,
       InsertRows, PointCurrent, UndoRows, UndoVersion, UndoPoint, Error, LateError, UndoError,
       Crash

(* Where renewals do not fail, every request inside is renewed.            *)
AllRenewed == RenewalsWork => \A w \in Writers : Critical(w) => renewing[w]

(* A renewal that never fails lasts as long as its request is inside.      *)
LEMMA AllRenewedInvariant == Spec => []AllRenewed
<1>1. Init => AllRenewed
  BY DEF Init, AllRenewed, Critical, CriticalSteps, RestoreSteps, EditSteps, PublishSteps
<1>2. TypeOK /\ AllRenewed /\ [Next]_vars => AllRenewed'
  <2> SUFFICES ASSUME TypeOK, AllRenewed, [Next]_vars, RenewalsWork'
               PROVE  AllRenewed'
    BY DEF AllRenewed
  <2>0. RenewalsWork
    BY EventsFixed DEF RenewalsWork
  <2> USE <2>0 DEF AllRenewed, TypeOK, Critical, Goto, At, locals
  <2>1. CASE LeaseExpires
    BY <2>1 DEF LeaseExpires
  <2>2. ASSUME NEW w \in Writers, Acquire(w)
        PROVE  AllRenewed'
    BY <2>2 DEF Acquire
  <2>3. ASSUME NEW w \in Writers, Leave(w)
        PROVE  AllRenewed'
    BY <2>3 DEF Leave, CriticalSteps, RestoreSteps, EditSteps, PublishSteps
  <2>4. ASSUME NEW w \in Writers,
               \/ Resume(w) \/ Restore(w) \/ Edit(w) \/ Publish(w)
               \/ Error(w) \/ LateError(w) \/ UndoError(w) \/ Crash(w)
        PROVE  AllRenewed'
    <3>1. Critical(w) /\ UNCHANGED renewing /\ \E s : Goto(w, s)
      BY <2>4, StepsAreCritical
    <3> QED
      BY <3>1
  <2>5. CASE UNCHANGED vars
    BY <2>5 DEF vars
  <2> QED
    BY <2>1, <2>2, <2>3, <2>4, <2>5 DEF Next, Step, RenewFails, RenewalsWork
<1> QED
  BY <1>1, <1>2, TypeCorrect, PTL DEF Spec

(* Where renewals do not fail, at most one request is between acquisition  *)
(* and release, however many died in between.                              *)
THEOREM WritersNeverOverlap == Spec => []WritersExclude
<1>1. LeaseInv /\ AllRenewed => WritersExclude
  BY DEF LeaseInv, AllRenewed, WritersExclude, OneWriter, Renewed
<1> QED
  BY <1>1, LeaseInvariant, AllRenewedInvariant, PTL
-----------------------------------------------------------------------------
(* The dataset after a restore, however it ended.                          *)

(* What the step of the one request inside has to establish.               *)
RestoreFactsOf(w) ==
  /\ pc[w] \in EditSteps \union PublishSteps \union {"body"} => restore_target = NoWriter
  /\ MembersAreContent
  /\ RestoreProgress(w)

(* The others are outside and stay there.                                  *)
LEMMA RestoreFrame ==
  ASSUME TypeOK, OneWriter, RestoreFacts, NEW w \in Writers, Critical(w),
         NEW s, Goto(w, s), NEW b, resuming' = [resuming EXCEPT ![w] = b],
         RestoreFactsOf(w)'
  PROVE  RestoreFacts'
<1>1. \A v \in Writers \ {w} :
        pc[v] \notin CriticalSteps /\ pc'[v] = pc[v] /\ resuming'[v] = resuming[v]
  BY DEF OneWriter, Critical, Goto, TypeOK
<1>2. \A v \in Writers \ {w} : RestoreProgress(v)'
  BY <1>1 DEF RestoreFacts, RestoreProgress, At, CriticalSteps, RestoreSteps, EditSteps, PublishSteps
<1>3. \A v \in Writers \ {w} :
        pc'[v] \notin EditSteps \union PublishSteps \union {"body"}
  BY <1>1 DEF CriticalSteps
<1> QED
  BY <1>2, <1>3 DEF RestoreFacts, RestoreFactsOf, RestoredFirst

(* A step of the restore, its undo or its resumption keeps the part of the *)
(* invariant about its own request.                                        *)
LEMMA RestoreStepOf ==
  ASSUME TypeOK, RestoreFacts, NEW w \in Writers, Resume(w) \/ Restore(w)
  PROVE  RestoreFactsOf(w)'
<1> USE NoWriterAssumption
<1> USE DEF TypeOK, GoalKnown, RestoreFacts, RestoreFactsOf, RestoreProgress, MembersAreContent,
     RestoredFirst, EditSteps, PublishSteps, At, Goto, Id,
     lease, restore, versions, locals
<1>1. CASE ReadPending(w)
  BY <1>1 DEF ReadPending, Pending, Resumed, Listed
<1>2. CASE ClearMembers(w)
  BY <1>2 DEF ClearMembers
<1>3. CASE FillMembers(w)
  <2>1. pc[w] = "fill" /\ UNCHANGED <<resuming, goal, rows, restore_target, backups, content>>
    BY <1>3 DEF FillMembers
  <2>2. CASE UNCHANGED pc
    <3>1. PICK a \in batch[w] : /\ members' = members \union {a}
                                /\ batch' = [batch EXCEPT ![w] = @ \ {a}]
      BY <1>3, <2>1, <2>2 DEF FillMembers, AfterFill
    <3>2. members' \union batch'[w] = rows[goal[w]]
      BY <2>1, <3>1
    <3> QED
      BY <2>1, <2>2, <3>2
  <2>3. CASE pc' # pc
    <3>1. batch[w] = {} /\ UNCHANGED <<members, batch>> /\ Goto(w, AfterFill(w))
      BY <1>3, <2>3 DEF FillMembers
    <3>2. members = rows[goal[w]]
      <4>1. members \union batch[w] = rows[goal[w]]
        BY <2>1
      <4>2. members \union batch[w] = members
        BY <3>1
      <4> QED
        BY <4>1, <4>2, Zenon
    <3>3. members' = rows'[goal'[w]] /\ restore_target' # NoWriter
      BY <2>1, <3>1, <3>2
    <3>4. CASE resuming[w]
      <4>1. pc'[w] = "drop" /\ resuming'[w]
        BY <2>1, <3>1, <3>4 DEF AfterFill
      <4> QED
        BY <3>3, <4>1
    <3>5. CASE ~resuming[w]
      <4>1. pc'[w] = "audit" /\ ~resuming'[w]
        BY <2>1, <3>1, <3>5 DEF AfterFill
      <4> QED
        BY <3>3, <4>1
    <3> QED
      BY <3>4, <3>5
  <2> QED
    BY <2>2, <2>3
<1>4. CASE StartRestore(w)
  BY <1>4 DEF StartRestore, Listed
<1>5. CASE MarkRestore(w)
  BY <1>5 DEF MarkRestore
<1>6. CASE WriteAudit(w)
  BY <1>6 DEF WriteAudit
<1>7. CASE UnsetTarget(w)
  BY <1>7 DEF UnsetTarget
<1>8. CASE DropRestoreBackup(w)
  BY <1>8 DEF DropRestoreBackup, DropBackup
<1>9. CASE UndoClear(w)
  BY <1>9 DEF UndoClear
<1>10. CASE UndoFill(w)
  <2>1. ASSUME NEW a \in batch[w], UNCHANGED pc,
               members' = members \union {a},
               batch' = [batch EXCEPT ![w] = @ \ {a}]
        PROVE  RestoreFactsOf(w)'
    <3>1. batch'[w] = batch[w] \ {a}
      BY <2>1
    <3>2. members' \union batch'[w] = content
      BY <1>10, <2>1, <3>1 DEF UndoFill
    <3>3. pc'[w] = "undo_fill" /\ restore_target' # NoWriter /\ content' = content
      BY <1>10, <2>1 DEF UndoFill
    <3> QED
      BY <1>10, <3>2, <3>3 DEF UndoFill
  <2>2. CASE batch[w] = {} /\ Goto(w, "undo_drop") /\ UNCHANGED <<members, batch>>
    <3>0. members \union batch[w] = content /\ content' = content
      BY <1>10 DEF UndoFill
    <3>1. members' = content
      BY <2>2, <3>0
    <3>2. pc'[w] = "undo_drop"
      BY <2>2
    <3> QED
      BY <3>0, <3>1, <3>2
  <2> QED
    BY <1>10, <2>1, <2>2 DEF UndoFill
<1>11. CASE UndoDrop(w)
  BY <1>11 DEF UndoDrop, DropBackup
<1>12. CASE UndoUnset(w)
  BY <1>12 DEF UndoUnset
<1> QED
  BY <1>1, <1>2, <1>3, <1>4, <1>5, <1>6, <1>7, <1>8, <1>9, <1>10, <1>11, <1>12 DEF Resume, Restore

(* So does a step of add_members or remove_members.                        *)
LEMMA EditStepOf ==
  ASSUME TypeOK, RestoreFacts, NEW w \in Writers, Edit(w)
  PROVE  RestoreFactsOf(w)'
<1> USE DEF TypeOK, RestoreFacts, RestoreFactsOf, RestoreProgress, MembersAreContent,
     RestoredFirst, EditSteps, PublishSteps, At, Goto,
     lease, restore, versions, locals
<1>1. CASE AddMember(w)
  BY <1>1 DEF AddMember
<1>2. CASE RemoveMember(w)
  BY <1>2 DEF RemoveMember
<1>3. CASE FinishEdit(w)
  BY <1>3 DEF FinishEdit
<1>4. CASE UndoEdit(w)
  BY <1>4 DEF UndoEdit
<1> QED
  BY <1>1, <1>2, <1>3, <1>4 DEF Edit

(* So does a step of a publication, which touches no membership.           *)
LEMMA PublishStepOf ==
  ASSUME TypeOK, RestoreFacts, NEW w \in Writers, Publish(w)
  PROVE  RestoreFactsOf(w)'
<1>1. UNCHANGED <<members, restore, content>> /\ resuming' = resuming
  BY DEF Publish, StartPublish, NumberVersion, InsertVersion, InsertRows,
     PointCurrent, UndoRows, UndoVersion, UndoPoint, locals
<1>2. pc[w] \in PublishSteps \union {"body"} /\ pc'[w] \in PublishSteps \union {"leaving"}
  BY DEF Publish, StartPublish, NumberVersion, InsertVersion, InsertRows, PointCurrent,
     UndoRows, UndoVersion, UndoPoint, AfterUndoRows, AfterUndoVersion, PublishSteps,
     At, Goto, TypeOK
<1> QED
  BY <1>1, <1>2 DEF RestoreFacts, RestoreFactsOf, RestoreProgress, MembersAreContent,
     RestoredFirst, EditSteps, PublishSteps, At, restore

(* So does an exception, in the operation or its undo, or the end of the   *)
(* process.                                                                *)
LEMMA FaultStepOf ==
  ASSUME TypeOK, RestoreFacts, NEW w \in Writers,
         Error(w) \/ LateError(w) \/ UndoError(w) \/ Crash(w)
  PROVE  RestoreFactsOf(w)'
<1> USE NoWriterAssumption
<1> USE DEF TypeOK, GoalKnown, RestoreFacts, RestoreFactsOf, RestoreProgress, MembersAreContent,
     RestoredFirst, EditSteps, PublishSteps, At, Goto,
     lease, restore, versions, locals
<1>1. CASE Error(w)
  BY <1>1 DEF Error, Handler, RestoreHandler
<1>2. CASE LateError(w)
  BY <1>2 DEF LateError, Handler
<1>3. CASE UndoError(w)
  BY <1>3 DEF UndoError
<1>4. CASE Crash(w)
  BY <1>4 DEF Crash
<1> QED
  BY <1>1, <1>2, <1>3, <1>4

(* Every step keeps the invariant of the restore: its own part by the      *)
(* lemmas above, that of the others by RestoreFrame.                       *)
LEMMA RestoreStep == TypeOK /\ OneWriter /\ RestoreFacts /\ [Next]_vars => RestoreFacts'
<1> SUFFICES ASSUME TypeOK, OneWriter, RestoreFacts, [Next]_vars
             PROVE  RestoreFacts'
  OBVIOUS
<1>1. CASE LeaseExpires
  BY <1>1 DEF LeaseExpires, RestoreFacts, RestoredFirst, MembersAreContent,
     RestoreProgress, At, restore, versions, locals
<1>2. ASSUME NEW w \in Writers, Acquire(w)
      PROVE  RestoreFacts'
  BY <1>2 DEF Acquire, RestoreFacts, RestoredFirst, MembersAreContent,
     RestoreProgress, EditSteps, PublishSteps, At, Goto, TypeOK, restore, versions
<1>3. ASSUME NEW w \in Writers, Leave(w)
      PROVE  RestoreFacts'
  BY <1>3 DEF Leave, RestoreFacts, RestoredFirst, MembersAreContent,
     RestoreProgress, EditSteps, PublishSteps, At, Goto, TypeOK, restore, versions
<1>4. ASSUME NEW w \in Writers, RenewFails(w)
      PROVE  RestoreFacts'
  BY <1>4 DEF RenewFails, RestoreFacts, RestoredFirst, MembersAreContent,
     RestoreProgress, At, restore, versions
<1>5. ASSUME NEW w \in Writers,
             \/ Resume(w) \/ Restore(w) \/ Edit(w) \/ Publish(w)
             \/ Error(w) \/ LateError(w) \/ UndoError(w) \/ Crash(w)
      PROVE  RestoreFacts'
  <2>1. RestoreFactsOf(w)'
    BY <1>5, RestoreStepOf, EditStepOf, PublishStepOf, FaultStepOf
  <2>2. Critical(w) /\ \E s : Goto(w, s)
    BY <1>5, StepsAreCritical
  <2>3. \E b : resuming' = [resuming EXCEPT ![w] = b]
    <3>1. CASE resuming' = resuming
      BY <3>1 DEF TypeOK
    <3>2. CASE ReadPending(w) \/ UnsetTarget(w)
      BY <3>2, <3>1 DEF ReadPending, UnsetTarget
    <3>3. resuming' = resuming \/ ReadPending(w) \/ UnsetTarget(w)
      BY <1>5 DEF Resume, ClearMembers, FillMembers, Restore, StartRestore, MarkRestore,
         WriteAudit, DropRestoreBackup, UndoClear, UndoFill, UndoDrop, UndoUnset,
         Edit, AddMember, RemoveMember, FinishEdit, UndoEdit, Publish, StartPublish,
         NumberVersion, InsertVersion, InsertRows, PointCurrent, UndoRows, UndoVersion,
         UndoPoint, Error, LateError, UndoError, Crash, locals
    <3> QED
      BY <3>1, <3>2, <3>3
  <2> QED
    BY <2>1, <2>2, <2>3, RestoreFrame
<1>6. CASE UNCHANGED vars
  BY <1>6 DEF vars, RestoreFacts, RestoredFirst, MembersAreContent,
     RestoreProgress, At, restore, versions, locals
<1> QED
  BY <1>1, <1>2, <1>3, <1>4, <1>5, <1>6 DEF Next, Step

(* The journal of a restore (backup, target, members) is consistent in     *)
(* every reachable state.                                                  *)
LEMMA RestoreInvariant == Spec => []RestoreInv
<1>1. Init => RestoreInv
  BY DEF Init, RestoreInv, RestoreFacts, RestoredFirst, MembersAreContent, RestoreProgress,
     At, EditSteps, PublishSteps
<1>2. TypeOK /\ WritersExclude /\ RestoreInv /\ [Next]_vars => RestoreInv'
  <2> SUFFICES ASSUME TypeOK, WritersExclude, RestoreInv, [Next]_vars, RenewalsWork'
               PROVE  RestoreFacts'
    BY DEF RestoreInv
  <2>1. RenewalsWork
    BY EventsFixed DEF RenewalsWork
  <2> QED
    BY <2>1, RestoreStep DEF RestoreInv, WritersExclude
<1> QED
  BY <1>1, <1>2, TypeCorrect, WritersNeverOverlap, PTL DEF Spec

(* An edit or a publication never starts from a half-restored dataset.     *)
THEOREM WritesWaitForRestores == Spec => []NoWriteOverPendingRestore
<1>1. RestoreInv => NoWriteOverPendingRestore
  BY DEF RestoreInv, RestoreFacts, NoWriteOverPendingRestore
<1> QED
  BY <1>1, RestoreInvariant, PTL

(* Whatever fails during a restore, its undo or a resumption, once no      *)
(* restore is pending the members are those of the completed operations.   *)
THEOREM RestoresAreWhole == Spec => []RestoreAllOrNothing
<1>1. RestoreInv => RestoreAllOrNothing
  BY DEF RestoreInv, RestoreFacts, RestoreAllOrNothing
<1> QED
  BY <1>1, RestoreInvariant, PTL
-----------------------------------------------------------------------------
(* Publication, in an environment where calls raise but the compensation   *)
(* that follows works and nothing dies.                                    *)

(* A step outside the publication leaves what is published alone.          *)
LEMMA PublishOthersStep ==
  ASSUME TypeOK, PublishFacts, UNCHANGED versions, UNCHANGED <<batch, previous, next_number>>,
         \A v \in Writers :
           \/ pc'[v] = pc[v]
           \/ /\ pc[v] \notin PublishSteps /\ pc'[v] \notin PublishSteps
              /\ pc[v] \in {"leaving", "done"} => pc'[v] \in {"leaving", "done"}
  PROVE  PublishFacts'
<1> USE DEF PublishFacts, PublishProgress, PublishSteps, At, Listed, versions, TypeOK, Id
<1>1. \A w \in Writers : PublishProgress(w)'
  OBVIOUS
<1>2. (current \in Listed \/ current = NoWriter \/ pc[current] = "undo_point")'
  OBVIOUS
<1> QED
  BY <1>1, <1>2

(* A step of a publication keeps its journal: the version, its rows and    *)
(* the pointer to it.                                                      *)
LEMMA PublishOwnStep ==
  ASSUME TypeOK, OneWriter, PublishFacts, NEW w \in Writers, Publish(w)
  PROVE  PublishFacts'
<1> USE NoWriterAssumption
<1>1. \A v \in Writers \ {w} : pc[v] \notin CriticalSteps /\ pc'[v] = pc[v]
  BY StepsAreCritical DEF OneWriter, Critical, Goto, TypeOK
<1> USE <1>1
<1> USE DEF TypeOK, PublishFacts, PublishProgress, CriticalSteps, PublishSteps, At, Goto, Listed, Id,
     versions, locals
<1>2. CASE StartPublish(w)
  BY <1>2 DEF StartPublish
<1>3. CASE NumberVersion(w)
  <2>1. \A v \in Listed : version_number[v] + 1 # 0
    OBVIOUS
  <2> QED
    BY <1>3, <2>1 DEF NumberVersion, IsLatest
<1>4. CASE InsertVersion(w)
  BY <1>4 DEF InsertVersion
<1>5. CASE InsertRows(w)
  BY <1>5 DEF InsertRows
<1>6. CASE PointCurrent(w)
  BY <1>6 DEF PointCurrent
<1>7. CASE UndoRows(w)
  <2>1. UNCHANGED <<version_number, digest, current, batch, previous, next_number>>
    BY <1>7 DEF UndoRows
  <2>2. pc[w] = "undo_rows" /\ pc'[w] = "undo_version" /\ \A v \in Writers \ {w} : rows'[v] = rows[v]
    BY <1>7 DEF UndoRows, AfterUndoRows
  <2>3. PublishProgress(w)'
    BY <2>1, <2>2
  <2>4. \A v \in Writers \ {w} : PublishProgress(v)'
    BY <2>1, <2>2
  <2>5. (current \in Listed \/ current = NoWriter \/ pc[current] = "undo_point")'
    BY <2>1, <2>2
  <2> QED
    BY <2>3, <2>4, <2>5
<1>8. CASE UndoVersion(w)
  BY <1>8 DEF UndoVersion, AfterUndoVersion
<1>9. CASE UndoPoint(w)
  BY <1>9 DEF UndoPoint
<1> QED
  BY <1>2, <1>3, <1>4, <1>5, <1>6, <1>7, <1>8, <1>9 DEF Publish

(* An exception in a publication starts the undo that fits what was        *)
(* written so far.                                                         *)
LEMMA PublishErrorStep ==
  ASSUME TypeOK, OneWriter, PublishFacts, NEW w \in Writers, Error(w) \/ LateError(w)
  PROVE  PublishFacts'
<1> USE NoWriterAssumption
<1>1. \A v \in Writers \ {w} : pc[v] \notin CriticalSteps /\ pc'[v] = pc[v]
  BY StepsAreCritical DEF OneWriter, Critical, Goto, TypeOK
<1> USE <1>1
<1> USE DEF TypeOK, PublishFacts, PublishProgress, CriticalSteps, PublishSteps, At, Goto, Listed, Id,
     versions, locals
<1>2. CASE Error(w)
  BY <1>2 DEF Error, Handler, RestoreHandler
<1>3. CASE LateError(w)
  <2>1. CASE At(w, "mark")
    BY <1>3, <2>1 DEF LateError, Handler
  <2>2. CASE At(w, "insert_version")
    BY <1>3, <2>2 DEF LateError, Handler
  <2>3. CASE At(w, "point")
    BY <1>3, <2>3 DEF LateError, Handler
  <2> QED
    BY <1>3, <2>1, <2>2, <2>3 DEF LateError
<1> QED
  BY <1>2, <1>3

(* Every step keeps the invariant of the publication.                      *)
LEMMA PublishStep ==
  OnlyErrors /\ TypeOK /\ OneWriter /\ PublishFacts /\ [Next]_vars => PublishFacts'
<1> SUFFICES ASSUME OnlyErrors, TypeOK, OneWriter, PublishFacts, [Next]_vars
             PROVE  PublishFacts'
  OBVIOUS
<1> USE DEF PublishSteps, At, Goto, TypeOK, lease, restore, versions, locals
<1>1. CASE LeaseExpires
  BY <1>1, PublishOthersStep DEF LeaseExpires
<1>2. ASSUME NEW w \in Writers, Acquire(w) \/ Leave(w)
      PROVE  PublishFacts'
  BY <1>2, PublishOthersStep DEF Acquire, Leave
<1>3. ASSUME NEW w \in Writers, ReadPending(w) \/ MarkRestore(w) \/ WriteAudit(w) \/ UnsetTarget(w)
             \/ DropRestoreBackup(w) \/ UndoDrop(w) \/ UndoUnset(w) \/ FinishEdit(w) \/ UndoEdit(w)
      PROVE  PublishFacts'
  BY <1>3, PublishOthersStep DEF ReadPending, MarkRestore, WriteAudit, UnsetTarget,
     DropRestoreBackup, UndoDrop, UndoUnset, FinishEdit, UndoEdit
<1>4. ASSUME NEW w \in Writers, StartRestore(w) \/ ClearMembers(w) \/ FillMembers(w)
             \/ UndoClear(w) \/ UndoFill(w) \/ AddMember(w) \/ RemoveMember(w)
      PROVE  PublishFacts'
  <2>1. pc[w] \notin PublishSteps /\ pc'[w] \notin PublishSteps
    BY <1>4 DEF StartRestore, ClearMembers, FillMembers, AfterFill, UndoClear, UndoFill,
       AddMember, RemoveMember
  <2>2. pc[w] \notin {"leaving", "done"}
    BY <1>4 DEF StartRestore, ClearMembers, FillMembers, UndoClear, UndoFill, AddMember, RemoveMember
  <2>3. UNCHANGED <<versions, previous, next_number>>
    BY <1>4 DEF StartRestore, ClearMembers, FillMembers, UndoClear, UndoFill, AddMember, RemoveMember
  <2>4. \A v \in Writers \ {w} : pc'[v] = pc[v] /\ batch'[v] = batch[v]
    BY <1>4 DEF StartRestore, ClearMembers, FillMembers, UndoClear, UndoFill, AddMember, RemoveMember
  <2> QED
    BY <2>1, <2>2, <2>3, <2>4 DEF PublishFacts, PublishProgress, Listed, Id
<1>5. ASSUME NEW w \in Writers, Publish(w) \/ Error(w) \/ LateError(w)
      PROVE  PublishFacts'
  BY <1>5, PublishOwnStep, PublishErrorStep
<1>6. CASE UNCHANGED vars
  BY <1>6, PublishOthersStep DEF vars
<1>7. ASSUME NEW w \in Writers
      PROVE  ~RenewFails(w) /\ ~UndoError(w) /\ ~Crash(w)
  BY DEF OnlyErrors, RenewFails, UndoError, Crash
<1> QED
  BY <1>1, <1>2, <1>3, <1>4, <1>5, <1>6, <1>7 DEF Next, Step, Resume, Restore, Edit

(* The journal of a publication is consistent in every reachable state.    *)
LEMMA PublishInvariant == Spec => []PublishInv
<1>1. Init => PublishInv
  BY DEF Init, PublishInv, PublishFacts, PublishProgress, PublishSteps, Listed, At
<1>2. TypeOK /\ WritersExclude /\ PublishInv /\ [Next]_vars => PublishInv'
  <2> SUFFICES ASSUME TypeOK, WritersExclude, PublishInv, [Next]_vars, OnlyErrors'
               PROVE  PublishFacts'
    BY DEF PublishInv
  <2>1. OnlyErrors
    BY EventsFixed DEF OnlyErrors
  <2>2. RenewalsWork
    BY <2>1 DEF OnlyErrors, RenewalsWork
  <2> QED
    BY <2>1, <2>2, PublishStep DEF PublishInv, WritersExclude
<1> QED
  BY <1>1, <1>2, TypeCorrect, WritersNeverOverlap, PTL DEF Spec

(* The current version a dataset points at is never one that a failed      *)
(* publication took back.                                                  *)
THEOREM CurrentVersionIsListed == Spec => [](OnlyErrors => CurrentIsListed)
<1>1. TypeOK /\ PublishInv => (OnlyErrors => CurrentIsListed)
  BY DEF TypeOK, Id, PublishInv, PublishFacts, CurrentIsListed, Publishing, PublishSteps
<1> QED
  BY <1>1, PublishInvariant, TypeCorrect, PTL

(* A publication that fails at any call takes its version back entirely:   *)
(* every listed version has the members it announces, and the current one  *)
(* is listed.                                                              *)
THEOREM PublicationsAreWhole == Spec => []FailedPublicationsVanish
<1>1. PublishInv => (OnlyErrors => PublishedVersionsComplete)
  BY DEF PublishInv, PublishFacts, PublishProgress, PublishedVersionsComplete,
     Publishing, PublishSteps, Listed
<1>2. (OnlyErrors => PublishedVersionsComplete) /\ (OnlyErrors => CurrentIsListed)
        => FailedPublicationsVanish
  BY DEF FailedPublicationsVanish
<1> QED
  BY <1>1, <1>2, PublishInvariant, CurrentVersionIsListed, PTL
-----------------------------------------------------------------------------
(* VersionCompare                                                          *)

(* The values of the model keep their types; in particular the response    *)
(* never has more details than the limit.                                  *)
THEOREM CompareTypeCorrect == CompareSpec => []CompareTypeOK
<1> USE DetailLimitAssumption
<1>0. {"added", "removed", "unchanged", "changed"} \subseteq CountNames
  BY DEF CountNames
<1>1. CompareInit => CompareTypeOK
  <2> SUFFICES ASSUME CompareInit
               PROVE  CompareTypeOK
    OBVIOUS
  <2>1. counts \in [CountNames -> Nat] /\ returned \in 0 .. DetailLimit
    BY DEF CompareInit
  <2>2. rest_before \in SUBSET Ids /\ rest_after \in SUBSET Ids
    BY DEF CompareInit, Members
  <2> QED
    BY <2>1, <2>2 DEF CompareInit, CompareTypeOK
<1>2. CompareTypeOK /\ [CompareNext]_comparison => CompareTypeOK'
  <2> SUFFICES ASSUME CompareTypeOK, [CompareNext]_comparison
               PROVE  CompareTypeOK'
    OBVIOUS
  <2>1. ASSUME NEW name \in CountNames, Count(name)
        PROVE  counts' \in [CountNames -> Nat]
    <3>1. counts[name] + 1 \in Nat
      BY DEF CompareTypeOK
    <3> QED
      BY <2>1, <3>1 DEF Count, CompareTypeOK
  <2>2. returned \in 0 .. DetailLimit /\ (Room => returned + 1 \in 0 .. DetailLimit)
    BY DEF CompareTypeOK, Room
  <2>3. CASE Added
    <3>1. counts' \in [CountNames -> Nat]
      BY <1>0, <2>1, <2>3 DEF Added
    <3> QED
      BY <2>2, <2>3, <3>1 DEF Added, Keep, CompareTypeOK, compared, response
  <2>4. CASE Removed
    <3>1. counts' \in [CountNames -> Nat]
      BY <1>0, <2>1, <2>4 DEF Removed
    <3> QED
      BY <2>2, <2>4, <3>1 DEF Removed, Keep, CompareTypeOK, compared, response
  <2>5. CASE Matched
    <3>1. counts' \in [CountNames -> Nat]
      BY <1>0, <2>1, <2>5 DEF Matched
    <3> QED
      BY <2>2, <2>5, <3>1 DEF Matched, Keep, CompareTypeOK, compared, response
  <2>6. CASE Respond
    <3>1. Truncated \in BOOLEAN
      BY DEF Truncated
    <3> QED
      BY <2>6, <3>1 DEF Respond, CompareTypeOK, compared
  <2>7. CASE UNCHANGED comparison
    BY <2>7 DEF comparison, CompareTypeOK
  <2> QED
    BY <2>3, <2>4, <2>5, <2>6, <2>7 DEF CompareNext
<1> QED
  BY <1>1, <1>2, PTL DEF CompareSpec

-----------------------------------------------------------------------------

(* Sets of assets are finite, so that they can be counted.                 *)
LEMMA ClassesAreFinite ==
  ASSUME NEW S \in SUBSET Ids
  PROVE  IsFiniteSet(S) /\ Cardinality(S) \in Nat
BY IdsAssumption, FS_Subset, FS_CardinalityType

(* One more asset is seen.                                                 *)
LEMMA SeeOne ==
  ASSUME NEW S \in SUBSET Ids, NEW a \in Ids, a \notin S
  PROVE  Cardinality(S \union {a}) = Cardinality(S) + 1
BY ClassesAreFinite, FS_AddElement

(* The three classes of differences are disjoint, so their sizes add up.   *)
LEMMA DifferencesAddUp ==
  ASSUME CompareTypeOK
  PROVE  Cardinality(DifferentIds)
           = Cardinality(AddedIds) + Cardinality(RemovedIds) + Cardinality(ChangedIds)
<1> DEFINE A == AddedIds
<1> DEFINE R == RemovedIds
<1> DEFINE C == ChangedIds
<1>1. A \in SUBSET Ids /\ R \in SUBSET Ids /\ C \in SUBSET Ids
  BY DEF AddedIds, RemovedIds, ChangedIds, CommonIds, Members
<1>2. A \intersect R = {} /\ (A \union R) \intersect C = {}
  BY DEF AddedIds, RemovedIds, ChangedIds, CommonIds
<1>3. DifferentIds = (A \union R) \union C
  BY DEF DifferentIds
<1>4. IsFiniteSet(A) /\ IsFiniteSet(R) /\ IsFiniteSet(C) /\ IsFiniteSet(A \union R)
  BY <1>1, ClassesAreFinite
<1>5. Cardinality(A) \in Nat /\ Cardinality(R) \in Nat /\ Cardinality(C) \in Nat
  BY <1>1, ClassesAreFinite
<1> HIDE DEF A, R, C
<1>6. Cardinality(A \union R) = Cardinality(A) + Cardinality(R)
  <2>1. Cardinality(A \union R) = Cardinality(A) + Cardinality(R) - Cardinality(A \intersect R)
    BY <1>4, FS_Union
  <2>2. Cardinality(A \intersect R) = 0
    BY <1>2, FS_EmptySet
  <2> QED
    BY <1>5, <2>1, <2>2
<1>7. Cardinality((A \union R) \union C) = Cardinality(A \union R) + Cardinality(C)
  <2>1. Cardinality((A \union R) \union C)
          = Cardinality(A \union R) + Cardinality(C) - Cardinality((A \union R) \intersect C)
    BY <1>4, FS_Union
  <2>2. Cardinality((A \union R) \intersect C) = 0
    BY <1>2, FS_EmptySet
  <2> QED
    BY <1>5, <1>6, <2>1, <2>2
<1> QED
  BY <1>3, <1>6, <1>7 DEF A, R, C
-----------------------------------------------------------------------------
(* One step consumes the smallest id that a cursor has still to deliver.   *)
Rest == rest_before \union rest_after

Consumes(a) ==
  /\ a \in Rest
  /\ \A b \in Rest : a <= b
  /\ Rest' = Rest \ {a}
  /\ UNCHANGED compared

(* What has been seen grows by that id and stays an initial segment.       *)
LEMMA Consume ==
  ASSUME CompareTypeOK, MergeInv, NEW a \in Ids, Consumes(a)
  PROVE  /\ \A S \in SUBSET Ids :
              S \ Rest' = IF a \in S THEN (S \ Rest) \union {a} ELSE S \ Rest
         /\ \A S \in SUBSET Ids : a \in S =>
              Cardinality(S \ Rest') = Cardinality(S \ Rest) + 1
         /\ \A x \in Ids, b \in Rest' :
              x \in Members(before) \union Members(after) /\ x \notin Rest' => x < b
         /\ \A x \in Shown : x < a
<1>1. \A S \in SUBSET Ids :
        S \ Rest' = IF a \in S THEN (S \ Rest) \union {a} ELSE S \ Rest
  BY DEF Consumes
<1>2. ASSUME NEW S \in SUBSET Ids, a \in S
      PROVE  Cardinality(S \ Rest') = Cardinality(S \ Rest) + 1
  <2>1. S \ Rest' = (S \ Rest) \union {a}
    BY <1>1, <1>2
  <2>2. a \notin S \ Rest /\ S \ Rest \in SUBSET Ids
    BY DEF Consumes
  <2> QED
    BY <2>1, <2>2, SeeOne
<1>3. \A x \in Ids, b \in Rest' :
        x \in Members(before) \union Members(after) /\ x \notin Rest' => x < b
  <2> SUFFICES ASSUME NEW x \in Ids, NEW b \in Rest',
                      x \in Members(before) \union Members(after), x \notin Rest'
               PROVE  x < b
    OBVIOUS
  <2>1. b \in Rest /\ b # a /\ b \in Nat /\ a \in Nat
    BY IdsAssumption DEF Consumes, CompareTypeOK, Rest
  <2>2. CASE x = a
    BY <2>1, <2>2 DEF Consumes
  <2>3. CASE x # a
    BY <2>1, <2>3 DEF Consumes, MergeInv, Rest
  <2> QED
    BY <2>2, <2>3
<1>4. ASSUME NEW x \in Shown
      PROVE  x < a
  <2>1. x \in Members(before) \union Members(after) /\ x \notin Rest /\ x \in Ids
    BY DEF MergeInv, Shown, Seen, Rest, AddedIds, RemovedIds, ChangedIds, CommonIds, Members
  <2> QED
    BY <2>1 DEF MergeInv, Consumes, Rest
<1> QED
  BY <1>1, <1>2, <1>3, <1>4

(* Keeping a difference, or having no room for it, leaves the details the  *)
(* first differences.                                                      *)
LEMMA KeepOne ==
  ASSUME CompareTypeOK, MergeInv, NEW a \in DifferentIds, Consumes(a),
         \/ Room /\ Shown' = Shown \union {a} /\ returned' = returned + 1
         \/ ~Room /\ Shown' = Shown /\ returned' = returned
  PROVE  /\ returned' = Cardinality(Shown')
         /\ returned' < DetailLimit => Shown' = DifferentIds \ Rest'
         /\ \A x \in Shown', b \in DifferentIds \ Rest' : b < x => b \in Shown'
<1>1. a \in Ids /\ DifferentIds \in SUBSET Ids /\ Shown \in SUBSET Ids
  BY DEF DifferentIds, AddedIds, RemovedIds, ChangedIds, CommonIds, Members, Shown, CompareTypeOK
<1>2. DifferentIds \ Rest' = (DifferentIds \ Rest) \union {a}
  BY <1>1, Consume
<1>3. \A x \in Shown : x < a
  BY <1>1, Consume
<1>4. Shown \subseteq Ids /\ Ids \subseteq Nat /\ DetailLimit \in Nat /\ returned \in Nat
  BY <1>1, IdsAssumption, DetailLimitAssumption DEF CompareTypeOK
<1>5. /\ returned = Cardinality(Shown)
      /\ Room => Shown = DifferentIds \ Rest
      /\ \A x \in Shown, b \in DifferentIds \ Rest : b < x => b \in Shown
  BY DEF MergeInv, Room, Seen, Rest
<1>6. CASE Room /\ Shown' = Shown \union {a} /\ returned' = returned + 1
  <2>1. a \notin Shown
    BY <1>1, <1>3, <1>4
  <2>2. Cardinality(Shown') = Cardinality(Shown) + 1
    BY <1>1, <1>6, <2>1, SeeOne
  <2>3. Shown' = DifferentIds \ Rest'
    BY <1>2, <1>5, <1>6
  <2> QED
    BY <1>5, <1>6, <2>2, <2>3
<1>7. CASE ~Room /\ Shown' = Shown /\ returned' = returned
  <2>1. ~(returned' < DetailLimit)
    BY <1>7 DEF Room
  <2>2. ASSUME NEW x \in Shown, NEW b \in DifferentIds \ Rest', b < x
        PROVE  b \in Shown
    <3>1. b # a
      BY <1>1, <1>3, <1>4, <2>2
    <3> QED
      BY <1>2, <1>5, <2>2, <3>1
  <2> QED
    BY <1>5, <1>7, <2>1, <2>2
<1> QED
  BY <1>6, <1>7

(* The classes of the two versions: no step changes them, and they         *)
(* partition the assets.                                                   *)
LEMMA ClassesAreSets ==
  AddedIds \in SUBSET Ids /\ RemovedIds \in SUBSET Ids /\ ChangedIds \in SUBSET Ids
    /\ UnchangedIds \in SUBSET Ids /\ DifferentIds \in SUBSET Ids
BY DEF AddedIds, RemovedIds, ChangedIds, UnchangedIds, DifferentIds, CommonIds, Members

(* The two versions never change, and neither do the classes.              *)
LEMMA ClassesAreConstant ==
  ASSUME UNCHANGED compared
  PROVE  /\ UNCHANGED <<AddedIds, RemovedIds, ChangedIds, UnchangedIds, DifferentIds, CommonIds>>
         /\ Members(before)' = Members(before)
         /\ Members(after)' = Members(after)
BY DEF compared, AddedIds, RemovedIds, ChangedIds, UnchangedIds, DifferentIds, CommonIds, Members

(* What a consuming step has to show.                                      *)
CountsOK ==
  /\ counts["added"] = Cardinality(AddedIds \ Rest)
  /\ counts["removed"] = Cardinality(RemovedIds \ Rest)
  /\ counts["changed"] = Cardinality(ChangedIds \ Rest)
  /\ counts["unchanged"] = Cardinality(UnchangedIds \ Rest)

DetailsOK ==
  /\ added \subseteq AddedIds \ Rest
  /\ removed \subseteq RemovedIds \ Rest
  /\ changed \subseteq ChangedIds \ Rest
  /\ returned = Cardinality(Shown)
  /\ returned < DetailLimit => Shown = DifferentIds \ Rest
  /\ \A x \in Shown, b \in DifferentIds \ Rest : b < x => b \in Shown

(* A step that consumes asset a keeps the invariant if it updates the      *)
(* counters and the lists for a.                                           *)
LEMMA ConsumingStep ==
  ASSUME CompareTypeOK, MergeInv, NEW a \in Ids, Consumes(a), ~answered',
         rest_before' = rest_before \ {a}, rest_after' = rest_after \ {a},
         CountsOK', DetailsOK'
  PROVE  MergeInv'
<1>1. /\ UNCHANGED <<AddedIds, RemovedIds, ChangedIds, UnchangedIds, DifferentIds, CommonIds>>
      /\ Members(before)' = Members(before)
      /\ Members(after)' = Members(after)
  BY ClassesAreConstant DEF Consumes
<1>2. /\ rest_before' \subseteq Members(before)
      /\ rest_after' \subseteq Members(after)
      /\ \A c \in CommonIds : c \in rest_before' <=> c \in rest_after'
  BY DEF MergeInv
<1>3. \A x \in Ids, b \in Rest' :
        x \in Members(before) \union Members(after) /\ x \notin Rest' => x < b
  BY Consume
<1> QED
  BY <1>1, <1>2, <1>3 DEF MergeInv, CountsOK, DetailsOK, Seen, Rest

(* Every step of the merge keeps the invariant.                            *)
LEMMA MergeStep == CompareTypeOK /\ MergeInv /\ [CompareNext]_comparison => MergeInv'
<1> SUFFICES ASSUME CompareTypeOK, MergeInv, [CompareNext]_comparison
             PROVE  MergeInv'
  OBVIOUS
<1> USE ClassesAreSets
<1>0. /\ "added" \in CountNames /\ "removed" \in CountNames
      /\ "changed" \in CountNames /\ "unchanged" \in CountNames
  BY DEF CountNames
<1>1. ASSUME NEW name \in CountNames, Count(name)
      PROVE  /\ counts'[name] = counts[name] + 1
             /\ \A c \in CountNames \ {name} : counts'[c] = counts[c]
  BY <1>1 DEF Count, CompareTypeOK
<1>2. CountsOK /\ DetailsOK
  BY DEF MergeInv, CountsOK, DetailsOK, Seen, Rest
<1>3. Ids \subseteq Nat /\ rest_before \in SUBSET Ids /\ rest_after \in SUBSET Ids
  BY IdsAssumption DEF CompareTypeOK
<1>4. CASE Added
  <2>1. PICK a \in rest_after :
          /\ IsNext(a, rest_after)
          /\ Ahead(a, rest_before)
          /\ Count("added")
          /\ Keep(added, a)
          /\ rest_after' = rest_after \ {a}
    BY <1>4 DEF Added
  <2>2. UNCHANGED <<compared, rest_before, removed, changed, response>>
    BY <1>4 DEF Added
  <2>3. a \in Ids /\ a \notin rest_before /\ ~answered'
    BY <1>3, <2>1, <2>2 DEF Ahead, MergeInv, response
  <2>4. a \in AddedIds /\ a \in DifferentIds
        /\ a \notin RemovedIds /\ a \notin ChangedIds /\ a \notin UnchangedIds
    BY <2>1, <2>3 DEF MergeInv, AddedIds, RemovedIds, ChangedIds, UnchangedIds, DifferentIds, CommonIds
  <2>5. Consumes(a) /\ rest_before' = rest_before \ {a}
    BY <1>3, <2>1, <2>2, <2>3 DEF Consumes, Rest, IsNext, Ahead
  <2>6. UNCHANGED <<AddedIds, RemovedIds, ChangedIds, UnchangedIds, DifferentIds>>
    BY <2>2, ClassesAreConstant
  <2>7. /\ Cardinality(AddedIds \ Rest') = Cardinality(AddedIds \ Rest) + 1
        /\ AddedIds \ Rest' = (AddedIds \ Rest) \union {a}
        /\ RemovedIds \ Rest' = RemovedIds \ Rest
        /\ ChangedIds \ Rest' = ChangedIds \ Rest
        /\ UnchangedIds \ Rest' = UnchangedIds \ Rest
    BY <2>3, <2>4, <2>5, Consume
  <2>8. CountsOK'
    BY <1>0, <1>1, <1>2, <2>1, <2>6, <2>7 DEF CountsOK
  <2>9. \/ Room /\ Shown' = Shown \union {a} /\ returned' = returned + 1
        \/ ~Room /\ Shown' = Shown /\ returned' = returned
    BY <2>1, <2>2 DEF Keep, Shown
  <2>10. added' \subseteq added \union {a}
    BY <2>1 DEF Keep
  <2>11. DetailsOK'
    BY <1>2, <2>2, <2>4, <2>5, <2>6, <2>7, <2>9, <2>10, KeepOne DEF DetailsOK
  <2> QED
    BY <2>1, <2>3, <2>5, <2>8, <2>11, ConsumingStep
<1>5. CASE Removed
  <2>1. PICK a \in rest_before :
          /\ IsNext(a, rest_before)
          /\ Ahead(a, rest_after)
          /\ Count("removed")
          /\ Keep(removed, a)
          /\ rest_before' = rest_before \ {a}
    BY <1>5 DEF Removed
  <2>2. UNCHANGED <<compared, rest_after, added, changed, response>>
    BY <1>5 DEF Removed
  <2>3. a \in Ids /\ a \notin rest_after /\ ~answered'
    BY <1>3, <2>1, <2>2 DEF Ahead, MergeInv, response
  <2>4. a \in RemovedIds /\ a \in DifferentIds
        /\ a \notin AddedIds /\ a \notin ChangedIds /\ a \notin UnchangedIds
    BY <2>1, <2>3 DEF MergeInv, AddedIds, RemovedIds, ChangedIds, UnchangedIds, DifferentIds, CommonIds
  <2>5. Consumes(a) /\ rest_after' = rest_after \ {a}
    BY <1>3, <2>1, <2>2, <2>3 DEF Consumes, Rest, IsNext, Ahead
  <2>6. UNCHANGED <<AddedIds, RemovedIds, ChangedIds, UnchangedIds, DifferentIds>>
    BY <2>2, ClassesAreConstant
  <2>7. /\ Cardinality(RemovedIds \ Rest') = Cardinality(RemovedIds \ Rest) + 1
        /\ RemovedIds \ Rest' = (RemovedIds \ Rest) \union {a}
        /\ AddedIds \ Rest' = AddedIds \ Rest
        /\ ChangedIds \ Rest' = ChangedIds \ Rest
        /\ UnchangedIds \ Rest' = UnchangedIds \ Rest
    BY <2>3, <2>4, <2>5, Consume
  <2>8. CountsOK'
    BY <1>0, <1>1, <1>2, <2>1, <2>6, <2>7 DEF CountsOK
  <2>9. \/ Room /\ Shown' = Shown \union {a} /\ returned' = returned + 1
        \/ ~Room /\ Shown' = Shown /\ returned' = returned
    BY <2>1, <2>2 DEF Keep, Shown
  <2>10. removed' \subseteq removed \union {a}
    BY <2>1 DEF Keep
  <2>11. DetailsOK'
    BY <1>2, <2>2, <2>4, <2>5, <2>6, <2>7, <2>9, <2>10, KeepOne DEF DetailsOK
  <2> QED
    BY <2>1, <2>3, <2>5, <2>8, <2>11, ConsumingStep
<1>6. CASE Matched
  <2>1. PICK a \in rest_before \intersect rest_after :
          /\ IsNext(a, rest_before)
          /\ IsNext(a, rest_after)
          /\ IF before[a] = after[a]
               THEN Count("unchanged") /\ UNCHANGED <<changed, returned>>
               ELSE Count("changed") /\ Keep(changed, a)
          /\ rest_before' = rest_before \ {a}
          /\ rest_after' = rest_after \ {a}
    BY <1>6 DEF Matched
  <2>2. UNCHANGED <<compared, added, removed, response>>
    BY <1>6 DEF Matched
  <2>3. a \in Ids /\ ~answered'
    BY <1>3, <2>1, <2>2 DEF MergeInv, response
  <2>4. a \in CommonIds /\ a \notin AddedIds /\ a \notin RemovedIds
    BY <2>1, <2>3 DEF MergeInv, CommonIds, AddedIds, RemovedIds
  <2>5. Consumes(a)
    BY <1>3, <2>1, <2>2, <2>3 DEF Consumes, Rest, IsNext
  <2>6. UNCHANGED <<AddedIds, RemovedIds, ChangedIds, UnchangedIds, DifferentIds>>
    BY <2>2, ClassesAreConstant
  <2>7. AddedIds \ Rest' = AddedIds \ Rest /\ RemovedIds \ Rest' = RemovedIds \ Rest
    BY <2>3, <2>4, <2>5, Consume
  <2>8. CASE before[a] = after[a]
    <3>1. a \in UnchangedIds /\ a \notin ChangedIds /\ a \notin DifferentIds
      BY <2>4, <2>8 DEF UnchangedIds, ChangedIds, DifferentIds
    <3>2. /\ Cardinality(UnchangedIds \ Rest') = Cardinality(UnchangedIds \ Rest) + 1
          /\ ChangedIds \ Rest' = ChangedIds \ Rest
          /\ DifferentIds \ Rest' = DifferentIds \ Rest
      BY <2>3, <2>5, <3>1, Consume
    <3>3. Count("unchanged") /\ UNCHANGED <<changed, returned>>
      BY <2>1, <2>8
    <3>4. CountsOK'
      BY <1>0, <1>1, <1>2, <2>6, <2>7, <3>2, <3>3 DEF CountsOK
    <3>5. DetailsOK'
      BY <1>2, <2>2, <2>6, <2>7, <3>2, <3>3 DEF DetailsOK, Shown
    <3> QED
      BY <2>1, <2>3, <2>5, <3>4, <3>5, ConsumingStep
  <2>9. CASE before[a] # after[a]
    <3>1. a \in ChangedIds /\ a \in DifferentIds /\ a \notin UnchangedIds
      BY <2>4, <2>9 DEF UnchangedIds, ChangedIds, DifferentIds
    <3>2. /\ Cardinality(ChangedIds \ Rest') = Cardinality(ChangedIds \ Rest) + 1
          /\ ChangedIds \ Rest' = (ChangedIds \ Rest) \union {a}
          /\ UnchangedIds \ Rest' = UnchangedIds \ Rest
      BY <2>3, <2>5, <3>1, Consume
    <3>3. Count("changed") /\ Keep(changed, a)
      BY <2>1, <2>9
    <3>4. CountsOK'
      BY <1>0, <1>1, <1>2, <2>6, <2>7, <3>2, <3>3 DEF CountsOK
    <3>5. \/ Room /\ Shown' = Shown \union {a} /\ returned' = returned + 1
          \/ ~Room /\ Shown' = Shown /\ returned' = returned
      BY <2>2, <3>3 DEF Keep, Shown
    <3>6. changed' \subseteq changed \union {a}
      BY <3>3 DEF Keep
    <3>7. DetailsOK'
      BY <1>2, <2>2, <2>5, <2>6, <2>7, <3>1, <3>2, <3>5, <3>6, KeepOne DEF DetailsOK
    <3> QED
      BY <2>1, <2>3, <2>5, <3>4, <3>7, ConsumingStep
  <2> QED
    BY <2>8, <2>9
<1>7. CASE Respond
  <2>1. rest_before = {} /\ rest_after = {} /\ truncated' = Truncated
    BY <1>7 DEF Respond
  <2>2. UNCHANGED <<compared, rest_before, rest_after, added, removed, changed, counts, returned>>
    BY <1>7 DEF Respond
  <2>3. /\ UNCHANGED <<AddedIds, RemovedIds, ChangedIds, UnchangedIds, DifferentIds, CommonIds>>
        /\ Members(before)' = Members(before)
        /\ Members(after)' = Members(after)
    BY <2>2, ClassesAreConstant
  <2>4. TotalChanged = Cardinality(DifferentIds)
    BY <1>2, <2>1, DifferencesAddUp DEF TotalChanged, CountsOK, Rest
  <2>5. Truncated <=> Cardinality(Shown) < Cardinality(DifferentIds)
    <3>1. Cardinality(Shown) \in Nat /\ Cardinality(DifferentIds) \in Nat
      BY ClassesAreFinite DEF Shown, CompareTypeOK
    <3> QED
      BY <1>2, <2>4, <3>1 DEF Truncated, DetailsOK
  <2>6. Shown' = Shown
    BY <2>2 DEF Shown
  <2> QED
    BY <2>1, <2>2, <2>3, <2>5, <2>6 DEF MergeInv, Seen, Truncated
<1>8. CASE UNCHANGED comparison
  <2>1. /\ UNCHANGED <<AddedIds, RemovedIds, ChangedIds, UnchangedIds, DifferentIds, CommonIds>>
        /\ Members(before)' = Members(before)
        /\ Members(after)' = Members(after)
    BY <1>8, ClassesAreConstant DEF comparison, compared
  <2> QED
    BY <1>8, <2>1 DEF comparison, MergeInv, Seen, Shown
<1> QED
  BY <1>4, <1>5, <1>6, <1>7, <1>8 DEF CompareNext

(* The counters, the lists and the unread rest of both cursors fit         *)
(* together in every reachable state.                                      *)
LEMMA MergeInvariant == CompareSpec => []MergeInv
<1>1. CompareInit => MergeInv
  <2> SUFFICES ASSUME CompareInit
               PROVE  MergeInv
    OBVIOUS
  <2>1. Rest = Members(before) \union Members(after)
    BY DEF CompareInit, Rest
  <2>2. \A S \in {AddedIds, RemovedIds, ChangedIds, UnchangedIds, DifferentIds} : S \ Rest = {}
    BY <2>1 DEF AddedIds, RemovedIds, ChangedIds, UnchangedIds, DifferentIds, CommonIds
  <2>3. counts["added"] = 0 /\ counts["removed"] = 0 /\ counts["changed"] = 0
        /\ counts["unchanged"] = 0
    BY DEF CompareInit, CountNames
  <2>4. Cardinality({}) = 0
    BY FS_EmptySet
  <2> QED
    BY <2>1, <2>2, <2>3, <2>4, DetailLimitAssumption
       DEF CompareInit, MergeInv, Seen, Rest, Shown, CommonIds
<1> QED
  BY <1>1, MergeStep, CompareTypeCorrect, PTL DEF CompareSpec

(* The counters of the response are exact for any two versions.            *)
THEOREM CountsAreRight == CompareSpec => []CountsAreExact
<1>1. MergeInv => CountsAreExact
  <2> SUFFICES ASSUME MergeInv, answered
               PROVE  /\ counts["added"] = Cardinality(AddedIds)
                      /\ counts["removed"] = Cardinality(RemovedIds)
                      /\ counts["changed"] = Cardinality(ChangedIds)
                      /\ counts["unchanged"] = Cardinality(UnchangedIds)
    BY DEF CountsAreExact
  <2>1. \A S \in SUBSET Ids : Seen(S) = S
    BY DEF MergeInv, Seen
  <2> QED
    BY <2>1, ClassesAreSets DEF MergeInv
<1> QED
  BY <1>1, MergeInvariant, PTL

(* The details are the first differences in id order, each in its list.    *)
THEOREM DetailsAreRight == CompareSpec => []DetailsAreFirst
<1>1. MergeInv => DetailsAreFirst
  BY DEF MergeInv, DetailsAreFirst, Seen
<1> QED
  BY <1>1, MergeInvariant, PTL

(* The truncation flag is set exactly when a difference is not shown.      *)
THEOREM TruncationIsHonest == CompareSpec => []TruncatedIsHonest
<1>1. CompareTypeOK /\ MergeInv => TruncatedIsHonest
  <2> SUFFICES ASSUME CompareTypeOK, MergeInv, answered
               PROVE  truncated <=> Shown # DifferentIds
    BY DEF TruncatedIsHonest
  <2>1. truncated = (Cardinality(Shown) < Cardinality(DifferentIds))
    BY DEF MergeInv
  <2>2. Shown \subseteq DifferentIds
    BY DEF MergeInv, Seen, Shown, DifferentIds
  <2>3. IsFiniteSet(DifferentIds)
    BY ClassesAreSets, ClassesAreFinite
  <2>4. /\ Cardinality(Shown) \in Nat /\ Cardinality(DifferentIds) \in Nat
        /\ Cardinality(Shown) <= Cardinality(DifferentIds)
        /\ Cardinality(Shown) = Cardinality(DifferentIds) => Shown = DifferentIds
    BY <2>2, <2>3, FS_Subset, FS_CardinalityType
  <2>5. Cardinality(Shown) < Cardinality(DifferentIds) <=> Shown # DifferentIds
    BY <2>4
  <2> QED
    BY <2>1, <2>5
<1> QED
  BY <1>1, MergeInvariant, CompareTypeCorrect, PTL

(* The answer is the one a comparison of whole lists would give, for any   *)
(* two versions and any limit.                                             *)
THEOREM AnswersAreRight == CompareSpec => []AnswerIsRight
<1>1. CountsAreExact /\ DetailsAreFirst /\ TruncatedIsHonest => AnswerIsRight
  BY DEF AnswerIsRight
<1> QED
  BY <1>1, CountsAreRight, DetailsAreRight, TruncationIsHonest, PTL
=============================================================================
