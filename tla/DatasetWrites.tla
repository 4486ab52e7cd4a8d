--------------------------- MODULE DatasetWrites ---------------------------
(***************************************************************************)
(* The write operations of one dataset: the lease that serialises them     *)
(* (serialize_dataset_write), member edits, publication of versions, and   *)
(* restoring a version with its backup, its undo and its resumption by the *)
(* next write.  Every database call is a step; between two steps another   *)
(* request may run, the call may raise, or the API process may die.        *)
(*                                                                         *)
(* Annotation members are derived from relations and rebuilt by            *)
(* sync_annotation_memberships at the end of each operation; here that     *)
(* call is only a place where the operation can fail, and members are the  *)
(* members a user chooses.                                                 *)
(***************************************************************************)
EXTENDS Naturals

CONSTANTS
  Writers,      \* write requests; each runs at most once, its token, its restore
                \* id and the id of the version it publishes are its own name
  Assets,       \* assets that can be members
  NoWriter,     \* an unset id
  Environments  \* what may go wrong together, see EventKinds

EventKinds == {
  "error",       \* a database call of the operation raises
  "undo_error",  \* a database call of the compensation code raises
  "crash",       \* the API process dies
  "renew_fails"} \* the lease renewal raises, which ends the renewal task

ASSUME NoWriterAssumption == NoWriter \notin Writers
ASSUME EnvironmentsAssumption == Environments \subseteq SUBSET EventKinds

VARIABLES
  events,          \* what may go wrong in this behaviour
  token,           \* datasets.write_token
  lease_live,      \* write_token_expires_at is in the future
  members,         \* dataset_memberships
  restore_target,  \* datasets.restore_target_version_id
  restore_backup,  \* datasets.restore_backup_id
  backups,         \* dataset_restore_backups by restore_id
  version_number,  \* dataset_versions: the number of each version, 0 for no document
  digest,          \* the content each version document announces
  rows,            \* dataset_version_memberships of each version
  current,         \* datasets.current_version_id
  pc,              \* where each request is
  renewing,        \* is the renewal task of each request alive?
  goal,            \* the version a request restores
  batch,           \* the assets a request still has to write, or has written
  resuming,        \* is the request finishing the restore of an earlier one?
  previous,        \* current_version_id as a publication read it
  next_number,     \* the number a publication is about to use
  content          \* ghost: the members the completed operations add up to

lease == <<token, lease_live>>
restore == <<restore_target, restore_backup, backups>>
versions == <<version_number, digest, rows, current>>
locals == <<renewing, goal, batch, resuming, previous, next_number>>
vars == <<events, lease, members, restore, versions, pc, locals, content>>

Id == Writers \union {NoWriter}

RestoreSteps == {"mark", "clear", "fill", "audit", "unset", "drop",
                 "undo_clear", "undo_fill", "undo_drop", "undo_unset"}
EditSteps == {"sync_added", "sync_removed", "undo_added", "undo_removed"}
PublishSteps == {"number", "insert_version", "insert_rows", "point",
                 "undo_rows", "undo_version", "undo_point"}
CriticalSteps == {"pending", "body", "leaving"}
                   \union RestoreSteps \union EditSteps \union PublishSteps

Critical(w) == pc[w] \in CriticalSteps

Listed == {v \in Writers : version_number[v] # 0}

(* A request in a restore knows which version it restores.                 *)
GoalKnown ==
  \A w \in Writers :
    pc[w] \in {"mark", "clear", "fill", "audit", "unset", "drop"} => goal[w] \in Writers

TypeOK ==
  /\ events \in Environments
  /\ token \in Id
  /\ lease_live \in BOOLEAN
  /\ members \in SUBSET Assets
  /\ restore_target \in Id
  /\ restore_backup \in Id
  /\ backups \in [Writers -> SUBSET Assets]
  /\ version_number \in [Writers -> Nat]
  /\ digest \in [Writers -> SUBSET Assets]
  /\ rows \in [Writers -> SUBSET Assets]
  /\ current \in Id
  /\ pc \in [Writers -> CriticalSteps \union {"idle", "done"}]
  /\ renewing \in [Writers -> BOOLEAN]
  /\ goal \in [Writers -> Id]
  /\ batch \in [Writers -> SUBSET Assets]
  /\ resuming \in [Writers -> BOOLEAN]
  /\ previous \in [Writers -> Id]
  /\ next_number \in [Writers -> Nat]
  /\ content \in SUBSET Assets
  /\ GoalKnown

(* A dataset as create_dataset leaves it, with any members added since.    *)
Init ==
  /\ events \in Environments
  /\ token = NoWriter
  /\ lease_live = FALSE
  /\ members \in SUBSET Assets
  /\ content = members
  /\ restore_target = NoWriter
  /\ restore_backup = NoWriter
  /\ backups = [w \in Writers |-> {}]
  /\ version_number = [w \in Writers |-> 0]
  /\ digest = [w \in Writers |-> {}]
  /\ rows = [w \in Writers |-> {}]
  /\ current = NoWriter
  /\ pc = [w \in Writers |-> "idle"]
  /\ renewing = [w \in Writers |-> FALSE]
  /\ goal = [w \in Writers |-> NoWriter]
  /\ batch = [w \in Writers |-> {}]
  /\ resuming = [w \in Writers |-> FALSE]
  /\ previous = [w \in Writers |-> NoWriter]
  /\ next_number = [w \in Writers |-> 0]

At(w, s) == pc[w] = s
Goto(w, s) == pc' = [pc EXCEPT ![w] = s]

-----------------------------------------------------------------------------
(* The lease.                                                              *)

Acquire(w) ==
  /\ At(w, "idle")
  /\ token = NoWriter \/ ~lease_live
  /\ token' = w
  /\ lease_live' = TRUE
  /\ renewing' = [renewing EXCEPT ![w] = TRUE]
  /\ Goto(w, "pending")
  /\ UNCHANGED <<events, members, restore, versions, goal, batch, resuming, previous, next_number, content>>

(* Slip: renewing only once the operation itself has begun.                *)
RenewedInBody(w) == Critical(w) /\ renewing[w] /\ ~At(w, "pending") /\ ~resuming[w]

(* The renewal runs every 30 seconds from the acquisition to the end of    *)
(* the request, and dies with the process.                                 *)
Renewed(w) == Critical(w) /\ renewing[w]

(* Five minutes without a renewal.                                         *)
LeaseExpires ==
  /\ lease_live
  /\ \A w \in Writers : token = w => ~Renewed(w)
  /\ lease_live' = FALSE
  /\ UNCHANGED <<events, token, members, restore, versions, pc, locals, content>>

RenewFails(w) ==
  /\ "renew_fails" \in events
  /\ Critical(w)
  /\ renewing[w]
  /\ renewing' = [renewing EXCEPT ![w] = FALSE]
  /\ UNCHANGED <<events, lease, members, restore, versions, pc, goal, batch, resuming,
                 previous, next_number, content>>

(* The finally block: awaiting a renewal task that raised raises again and *)
(* skips the release; the release itself checks the token.                 *)
Leave(w) ==
  /\ At(w, "leaving")
  /\ IF renewing[w] /\ token = w
       THEN token' = NoWriter /\ lease_live' = FALSE
       ELSE UNCHANGED lease
  /\ renewing' = [renewing EXCEPT ![w] = FALSE]
  /\ Goto(w, "done")
  /\ UNCHANGED <<events, members, restore, versions, goal, batch, resuming, previous, next_number, content>>

-----------------------------------------------------------------------------
(* _resume_pending_restore and the operation that follows.                 *)

(* Slip: resuming only while the backup is still there.                    *)
PendingWithBackup ==
  /\ restore_target # NoWriter
  /\ restore_backup # NoWriter
  /\ backups[restore_backup] # {}

Pending == restore_target # NoWriter

(* Slip: resuming the version the request asks for, if any.                *)
ResumedOfRequest(w) == goal[w]

(* _resume_pending_restore takes the version the dataset is marked with.   *)
Resumed(w) == restore_target

ReadPending(w) ==
  /\ At(w, "pending")
  /\ IF Pending
       THEN \* a target without its version document ends in DATASET_RESTORE_INVALID
            /\ goal' = [goal EXCEPT ![w] = Resumed(w)]
            /\ resuming' = [resuming EXCEPT ![w] = TRUE]
            /\ Goto(w, IF restore_target \in Listed THEN "clear" ELSE "leaving")
       ELSE Goto(w, "body") /\ UNCHANGED <<goal, resuming>>
  /\ UNCHANGED <<events, lease, members, restore, versions, renewing, batch, previous, next_number, content>>

(* restore_version: the version is read and its members validated, then    *)
(* the current members are copied to the backup.                           *)
StartRestore(w) ==
  /\ At(w, "body")
  /\ \E v \in Listed : goal' = [goal EXCEPT ![w] = v]
  /\ backups' = [backups EXCEPT ![w] = members]
  /\ Goto(w, "mark")
  /\ UNCHANGED <<events, lease, members, restore_target, restore_backup, versions, renewing,
                 batch, resuming, previous, next_number, content>>

MarkRestore(w) ==
  /\ At(w, "mark")
  /\ restore_target' = goal[w]
  /\ restore_backup' = w
  /\ Goto(w, "clear")
  /\ UNCHANGED <<events, lease, members, backups, versions, locals, content>>

(* _restore_memberships_from_version, shared by restore and resumption.    *)
ClearMembers(w) ==
  /\ At(w, "clear")
  /\ members' = {}
  /\ batch' = [batch EXCEPT ![w] = rows[goal[w]]]
  /\ Goto(w, "fill")
  /\ UNCHANGED <<events, lease, restore, versions, renewing, goal, resuming, previous, next_number, content>>

AfterFill(w) == IF resuming[w] THEN "drop" ELSE "audit"

(* One batch per step; the unique index on (dataset, asset) rejects a      *)
(* member that is already there.                                           *)
FillMembers(w) ==
  /\ At(w, "fill")
  /\ \/ \E a \in batch[w] :
          /\ a \notin members
          /\ members' = members \union {a}
          /\ batch' = [batch EXCEPT ![w] = @ \ {a}]
          /\ UNCHANGED pc
     \/ batch[w] = {} /\ Goto(w, AfterFill(w)) /\ UNCHANGED <<members, batch>>
  /\ UNCHANGED <<events, lease, restore, versions, renewing, goal, resuming, previous, next_number, content>>

WriteAudit(w) ==
  /\ At(w, "audit")
  /\ Goto(w, "unset")
  /\ UNCHANGED <<events, lease, members, restore, versions, locals, content>>

(* A failure to delete the backup is suppressed.                           *)
DropBackup(w, id) ==
  backups' \in {backups, [v \in Writers |-> IF v = id THEN {} ELSE backups[v]]}

(* The restore is over: the version's members are the dataset's members.   *)
UnsetTarget(w) ==
  /\ At(w, "unset")
  /\ restore_target' = NoWriter
  /\ restore_backup' = NoWriter
  /\ content' = rows[goal[w]]
  /\ Goto(w, IF resuming[w] THEN "body" ELSE "drop")
  /\ resuming' = [resuming EXCEPT ![w] = FALSE]
  /\ UNCHANGED <<events, lease, members, backups, versions, renewing, goal, batch, previous, next_number>>

(* The restore drops its backup last, a resumption before it clears the    *)
(* target.                                                                 *)
DropRestoreBackup(w) ==
  /\ At(w, "drop")
  /\ DropBackup(w, IF resuming[w] THEN restore_backup ELSE w)
  /\ Goto(w, IF resuming[w] THEN "unset" ELSE "leaving")
  /\ UNCHANGED <<events, lease, members, restore_target, restore_backup, versions, locals, content>>

-----------------------------------------------------------------------------
(* The except branch of restore_version.                                   *)

UndoClear(w) ==
  /\ At(w, "undo_clear")
  /\ members' = {}
  /\ batch' = [batch EXCEPT ![w] = backups[w]]
  /\ Goto(w, "undo_fill")
  /\ UNCHANGED <<events, lease, restore, versions, renewing, goal, resuming, previous, next_number, content>>

UndoFill(w) ==
  /\ At(w, "undo_fill")
  /\ \/ \E a \in batch[w] :
          /\ a \notin members
          /\ members' = members \union {a}
          /\ batch' = [batch EXCEPT ![w] = @ \ {a}]
          /\ UNCHANGED pc
     \/ batch[w] = {} /\ Goto(w, "undo_drop") /\ UNCHANGED <<members, batch>>
  /\ UNCHANGED <<events, lease, restore, versions, renewing, goal, resuming, previous, next_number, content>>

UndoDrop(w) ==
  /\ At(w, "undo_drop")
  /\ DropBackup(w, w)
  /\ Goto(w, "undo_unset")
  /\ UNCHANGED <<events, lease, members, restore_target, restore_backup, versions, locals, content>>

UndoUnset(w) ==
  /\ At(w, "undo_unset")
  /\ restore_target' = NoWriter
  /\ restore_backup' = NoWriter
  /\ Goto(w, "leaving")
  /\ UNCHANGED <<events, lease, members, backups, versions, locals, content>>
-----------------------------------------------------------------------------
(* add_members and remove_members, for one asset.                          *)

AddMember(w) ==
  /\ At(w, "body")
  /\ \E a \in Assets \ members :
       /\ members' = members \union {a}
       /\ content' = content \union {a}
       /\ batch' = [batch EXCEPT ![w] = {a}]
  /\ Goto(w, "sync_added")
  /\ UNCHANGED <<events, lease, restore, versions, renewing, goal, resuming, previous, next_number>>

RemoveMember(w) ==
  /\ At(w, "body")
  /\ \E a \in members :
       /\ members' = members \ {a}
       /\ content' = content \ {a}
       /\ batch' = [batch EXCEPT ![w] = {a}]
  /\ Goto(w, "sync_removed")
  /\ UNCHANGED <<events, lease, restore, versions, renewing, goal, resuming, previous, next_number>>

FinishEdit(w) ==
  /\ pc[w] \in {"sync_added", "sync_removed"}
  /\ Goto(w, "leaving")
  /\ UNCHANGED <<events, lease, members, restore, versions, locals, content>>

(* The except branches take back what the request changed.                 *)
UndoEdit(w) ==
  /\ \/ /\ At(w, "undo_added")
        /\ members' = members \ batch[w]
        /\ content' = content \ batch[w]
     \/ /\ At(w, "undo_removed")
        /\ members' = members \union batch[w]
        /\ content' = content \union batch[w]
  /\ Goto(w, "leaving")
  /\ UNCHANGED <<events, lease, restore, versions, locals>>

-----------------------------------------------------------------------------
(* publish_version.                                                        *)

StartPublish(w) ==
  /\ At(w, "body")
  /\ members # {}
  /\ previous' = [previous EXCEPT ![w] = current]
  /\ batch' = [batch EXCEPT ![w] = members]
  /\ Goto(w, "number")
  /\ UNCHANGED <<events, lease, members, restore, versions, renewing, goal, resuming,
                 next_number, content>>

IsLatest(v) == v \in Listed /\ \A u \in Listed : version_number[u] <= version_number[v]

(* DATASET_CONTENT_UNCHANGED, or the next number.                          *)
NumberVersion(w) ==
  /\ At(w, "number")
  /\ \/ /\ Listed = {}
        /\ next_number' = [next_number EXCEPT ![w] = 1]
        /\ Goto(w, "insert_version")
     \/ \E v \in Writers :
          /\ IsLatest(v)
          /\ digest[v] # batch[w]
          /\ next_number' = [next_number EXCEPT ![w] = version_number[v] + 1]
          /\ Goto(w, "insert_version")
     \/ \E v \in Writers :
          /\ IsLatest(v)
          /\ digest[v] = batch[w]
          /\ Goto(w, "leaving")
          /\ UNCHANGED next_number
  /\ UNCHANGED <<events, lease, members, restore, versions, renewing, goal, batch, resuming,
                 previous, content>>

(* The unique index on (dataset, version_number) rejects a number in use.  *)
InsertVersion(w) ==
  /\ At(w, "insert_version")
  /\ IF \E v \in Listed : version_number[v] = next_number[w]
       THEN Goto(w, "undo_rows") /\ UNCHANGED versions
       ELSE /\ version_number' = [version_number EXCEPT ![w] = next_number[w]]
            /\ digest' = [digest EXCEPT ![w] = batch[w]]
            /\ Goto(w, "insert_rows")
            /\ UNCHANGED <<rows, current>>
  /\ UNCHANGED <<events, lease, members, restore, locals, content>>

InsertRows(w) ==
  /\ At(w, "insert_rows")
  /\ rows' = [rows EXCEPT ![w] = batch[w]]
  /\ Goto(w, "point")
  /\ UNCHANGED <<events, lease, members, restore, version_number, digest, current, locals, content>>

PointCurrent(w) ==
  /\ At(w, "point")
  /\ current' = w
  /\ Goto(w, "leaving")
  /\ UNCHANGED <<events, lease, members, restore, version_number, digest, rows, locals, content>>

(* Slip: leaving the document when the members could not be stored.        *)
AfterUndoRowsOnly == "leaving"

AfterUndoRows == "undo_version"

UndoRows(w) ==
  /\ At(w, "undo_rows")
  /\ rows' = [rows EXCEPT ![w] = {}]
  /\ Goto(w, AfterUndoRows)
  /\ UNCHANGED <<events, lease, members, restore, version_number, digest, current, locals, content>>

AfterUndoVersion == "undo_point"

UndoVersion(w) ==
  /\ At(w, "undo_version")
  /\ version_number' = [version_number EXCEPT ![w] = 0]
  /\ Goto(w, AfterUndoVersion)
  /\ UNCHANGED <<events, lease, members, restore, digest, rows, current, locals, content>>

UndoPoint(w) ==
  /\ At(w, "undo_point")
  /\ current' = IF current = w THEN previous[w] ELSE current
  /\ Goto(w, "leaving")
  /\ UNCHANGED <<events, lease, members, restore, version_number, digest, rows, locals, content>>

-----------------------------------------------------------------------------
(* What can go wrong.                                                      *)

(* Slip: clearing the restore mark without putting the backup back.        *)
RestoreHandlerUnsetsOnly == "undo_unset"

RestoreHandler == "undo_clear"

(* Where an exception takes a request: to its except branch, or straight   *)
(* to the finally block.                                                   *)
Handler(w) ==
  CASE pc[w] \in {"clear", "fill"} /\ ~resuming[w] -> RestoreHandler
    [] At(w, "sync_added") -> "undo_added"
    [] At(w, "sync_removed") -> "undo_removed"
    [] pc[w] \in {"insert_version", "insert_rows", "point"} -> "undo_rows"
    [] OTHER -> "leaving"

Error(w) ==
  /\ "error" \in events
  /\ pc[w] \in {"pending", "body", "mark", "clear", "fill", "audit", "unset",
                "sync_added", "sync_removed", "number", "insert_version",
                "insert_rows", "point"}
  /\ Goto(w, Handler(w))
  /\ UNCHANGED <<events, lease, members, restore, versions, locals, content>>

(* The call raises although the database has applied it; only the calls    *)
(* where this differs from an exception at the next step.                  *)
LateError(w) ==
  /\ "error" \in events
  /\ \/ /\ At(w, "mark")
        /\ restore_target' = goal[w]
        /\ restore_backup' = w
        /\ UNCHANGED <<backups, versions>>
     \/ /\ At(w, "insert_version")
        /\ \A v \in Listed : version_number[v] # next_number[w]
        /\ version_number' = [version_number EXCEPT ![w] = next_number[w]]
        /\ digest' = [digest EXCEPT ![w] = batch[w]]
        /\ UNCHANGED <<restore, rows, current>>
     \/ /\ At(w, "point")
        /\ current' = w
        /\ UNCHANGED <<restore, version_number, digest, rows>>
  /\ Goto(w, Handler(w))
  /\ UNCHANGED <<events, lease, members, locals, content>>

UndoError(w) ==
  /\ "undo_error" \in events
  /\ pc[w] \in {"undo_clear", "undo_fill", "undo_unset", "undo_added",
                "undo_removed", "undo_rows", "undo_version", "undo_point"}
  /\ Goto(w, "leaving")
  /\ UNCHANGED <<events, lease, members, restore, versions, locals, content>>

(* The process dies, or the release raises: the lease is left to expire.   *)
Crash(w) ==
  /\ "crash" \in events
  /\ Critical(w)
  /\ Goto(w, "done")
  /\ UNCHANGED <<events, lease, members, restore, versions, locals, content>>

-----------------------------------------------------------------------------
Resume(w) == ReadPending(w) \/ ClearMembers(w) \/ FillMembers(w)

Restore(w) ==
  \/ StartRestore(w) \/ MarkRestore(w) \/ WriteAudit(w) \/ UnsetTarget(w)
  \/ DropRestoreBackup(w) \/ UndoClear(w) \/ UndoFill(w) \/ UndoDrop(w) \/ UndoUnset(w)

Edit(w) == AddMember(w) \/ RemoveMember(w) \/ FinishEdit(w) \/ UndoEdit(w)

Publish(w) ==
  \/ StartPublish(w) \/ NumberVersion(w) \/ InsertVersion(w) \/ InsertRows(w)
  \/ PointCurrent(w) \/ UndoRows(w) \/ UndoVersion(w) \/ UndoPoint(w)

Step(w) == Resume(w) \/ Restore(w) \/ Edit(w) \/ Publish(w) \/ Leave(w)

Next ==
  \/ LeaseExpires
  \/ \E w \in Writers : \/ Acquire(w) \/ Step(w) \/ RenewFails(w)
                        \/ Error(w) \/ LateError(w) \/ UndoError(w) \/ Crash(w)

Spec == Init /\ [][Next]_vars

-----------------------------------------------------------------------------
(* Properties.                                                             *)

(* Requests whose lease renewal works never overlap on the dataset, even   *)
(* when earlier requests died with the lease in their hands.               *)
RenewedWritersExclude ==
  \A v, w \in Writers :
    Critical(v) /\ renewing[v] /\ Critical(w) /\ renewing[w] => v = w

RenewalsWork == "renew_fails" \notin events

(* At most one request is between acquisition and release.                 *)
OneWriter == \A v, w \in Writers : Critical(v) /\ Critical(w) => v = w

(* So it is while every renewal works, however many requests died inside.  *)
WritersExclude == RenewalsWork => OneWriter

RestoredFirst ==
  \A w \in Writers :
    pc[w] \in EditSteps \union PublishSteps \union {"body"} => restore_target = NoWriter

(* An edit or a publication never runs while an earlier restore is         *)
(* unfinished: _resume_pending_restore has completed it first, whatever    *)
(* step the earlier request was interrupted at.                            *)
NoWriteOverPendingRestore == RenewalsWork => RestoredFirst

MembersAreContent == restore_target = NoWriter => members = content

(* A restore takes effect as a whole or not at all: once no restore is     *)
(* pending, the members are what the completed operations add up to, never *)
(* a half-filled list, whatever failed or died on the way.                 *)
RestoreAllOrNothing == RenewalsWork => MembersAreContent

Publishing == \E w \in Writers : pc[w] \in PublishSteps

OnlyErrors == events \subseteq {"error"}

(* A version in the version list has exactly the members its document      *)
(* announces, once nobody is publishing.                                   *)
PublishedVersionsComplete ==
  ~Publishing => \A v \in Listed : rows[v] = digest[v]

(* The dataset's current version exists, once nobody is publishing: it is  *)
(* never one that a failed publication took back.                          *)
CurrentIsListed == ~Publishing => current \in Listed \union {NoWriter}

(* A publication whose calls raise, before or after they took effect, and  *)
(* whose except branch gets through, leaves neither a version without its  *)
(* members nor a current version that does not exist.                      *)
FailedPublicationsVanish == OnlyErrors => PublishedVersionsComplete /\ CurrentIsListed

-----------------------------------------------------------------------------
(* What makes the properties inductive.                                    *)

(* A request whose renewal works holds the lease.                          *)
LeaseInv == \A w \in Writers : Renewed(w) => token = w /\ lease_live

(* While a request restores or takes a restore back, the members still to  *)
(* be written complete the version or the backup, and the backup holds the *)
(* members from before the restore.                                        *)
RestoreProgress(w) ==
  /\ pc[w] \in {"clear", "fill", "undo_clear", "undo_fill"} => restore_target # NoWriter
  /\ At(w, "fill") => members \union batch[w] = rows[goal[w]]
  /\ pc[w] \in {"audit", "unset"} \/ (At(w, "drop") /\ resuming[w]) => members = rows[goal[w]]
  /\ At(w, "mark") => restore_target = NoWriter
  /\ pc[w] \in {"mark", "undo_clear"} \/ (pc[w] \in {"clear", "fill"} /\ ~resuming[w])
       => backups[w] = content
  /\ At(w, "undo_fill") => members \union batch[w] = content
  /\ pc[w] \in {"undo_drop", "undo_unset"} => members = content
  /\ resuming[w] => pc[w] \notin {"idle", "pending", "body", "mark", "audit"}

RestoreFacts == RestoredFirst /\ MembersAreContent /\ \A w \in Writers : RestoreProgress(w)

(* The facts that carry NoWriteOverPendingRestore and RestoreAllOrNothing. *)
RestoreInv == RenewalsWork => RestoreFacts

(* A listed version lacks its members only while its publication stores    *)
(* them or takes the version back.                                         *)
PublishProgress(w) ==
  /\ At(w, "insert_version") => next_number[w] # 0
  /\ pc[w] \in {"insert_rows", "point"} => w \in Listed
  /\ At(w, "insert_rows") => digest[w] = batch[w]
  /\ w \in Listed => rows[w] = digest[w] \/ pc[w] \in {"insert_rows", "undo_rows", "undo_version"}
  /\ w \in Listed => pc[w] \in {"insert_rows", "point", "undo_rows", "undo_version", "leaving", "done"}
  /\ pc[w] \in PublishSteps => previous[w] \in (Listed \ {w}) \union {NoWriter}

PublishFacts ==
  /\ \A w \in Writers : PublishProgress(w)
  /\ current \in Listed \/ current = NoWriter \/ pc[current] = "undo_point"

(* The facts that carry FailedPublicationsVanish.                          *)
PublishInv == OnlyErrors => PublishFacts
=============================================================================
