---------------------------- MODULE AssetObjects ----------------------------
(***************************************************************************)
(* Which stored file belongs to which asset.  Uploads create assets or     *)
(* overwrite them; the worker finds that two assets have the same content  *)
(* and lets them share one object; assets go to the trash, come back, or   *)
(* are removed with their objects when the trash is emptied.               *)
(*                                                                         *)
(* An upload gives its name to its session, to the asset it creates, to    *)
(* the object it stores and to its processing job.  The life of the job    *)
(* itself, and of the completion request, is in UploadProcess: here a job  *)
(* is queued when the asset is stored and has one worker at a time.        *)
(***************************************************************************)
CONSTANTS
  Uploads,     \* upload sessions (a bound)
  Contents,    \* file contents, told apart by their SHA-256
  NoKey,       \* no object
  NoHash,      \* sha256 is not known
  Environments \* which events can occur together, see EventKinds

EventKinds == {
  "hash",      \* clients declare the SHA-256 of their file (those of 64 MiB or less)
  "twins",     \* a file is uploaded again before its first upload has been processed
  "overwrite", \* an upload replaces an asset of the same name
  "trash",     \* users delete assets and empty the trash
  "restore",   \* users take assets out of the trash
  "busy",      \* users delete or restore assets while the trash is being emptied
  "pool",      \* the worker runs tasks at the same time; --pool=solo does not
  "error" }    \* a step of a task raises

ASSUME NoKeyAssumption == NoKey \notin Uploads
ASSUME NoHashAssumption == NoHash \notin Contents
ASSUME EnvironmentsAssumption == Environments \subseteq SUBSET EventKinds

VARIABLES
  events,    \* what the environment may do in this behaviour
  content,   \* what each client uploads
  objects,   \* the objects in storage
  session,   \* upload_sessions.state
  declared,  \* sessions with a sha256
  target,    \* overwrite_asset_id, or else asset_id
  file,      \* upload_sessions.object_key
  previous,  \* previous_object_key, in the session and in the job
  storing,   \* completion requests between reading and writing the asset
  status,    \* assets.status
  archived,  \* assets whose archived_at is set
  key,       \* assets.object_key
  sha,       \* assets.sha256
  task,      \* where each processing task is in process_asset
  own,       \* the object key the task read
  chosen,    \* the object key the task decided on
  sweep,     \* where empty_trash is
  listed,    \* the assets, with their object keys, empty_trash has still to remove
  item       \* the one it is removing

sessions == <<session, declared, target, file, previous, storing>>
assets == <<status, archived, key, sha>>
tasks == <<task, own, chosen>>
trash == <<sweep, listed, item>>
vars == <<events, content, objects, sessions, assets, tasks, trash>>

Keys == Uploads \union {NoKey}
Hashes == Contents \union {NoHash}

NoItem == <<NoKey, NoKey>>

Running == {"reading", "working", "searching", "removing", "updating", "checking", "cleaning",
            "finishing"}

TypeOK ==
  /\ events \in Environments
  /\ content \in [Uploads -> Contents]
  /\ objects \subseteq Uploads
  /\ session \in [Uploads -> {"none", "pending", "reused", "completed"}]
  /\ declared \subseteq Uploads
  /\ target \in [Uploads -> Uploads]
  /\ file \in [Uploads -> Keys]
  /\ previous \in [Uploads -> Keys]
  /\ storing \subseteq Uploads
  /\ status \in [Uploads -> {"absent", "processing", "ready", "failed"}]
  /\ archived \subseteq Uploads
  /\ key \in [Uploads -> Keys]
  /\ sha \in [Uploads -> Hashes]
  /\ task \in [Uploads -> Running \union {"unsent", "queued", "failing", "failed", "ended"}]
  /\ own \in [Uploads -> Keys]
  /\ chosen \in [Uploads -> Keys]
  /\ \A u \in Uploads : task[u] \in {"working", "searching", "removing"} => own[u] # NoKey
  /\ sweep \in {"idle", "checking", "removing", "deleting"}
  /\ listed \subseteq Uploads \X Keys
  /\ item \in Keys \X Keys

Init ==
  /\ events \in Environments
  /\ content \in [Uploads -> Contents]
  /\ objects = {}
  /\ session = [u \in Uploads |-> "none"]
  /\ declared = {}
  /\ target = [u \in Uploads |-> u]
  /\ file = [u \in Uploads |-> NoKey]
  /\ previous = [u \in Uploads |-> NoKey]
  /\ storing = {}
  /\ status = [a \in Uploads |-> "absent"]
  /\ archived = {}
  /\ key = [a \in Uploads |-> NoKey]
  /\ sha = [a \in Uploads |-> NoHash]
  /\ task = [u \in Uploads |-> "unsent"]
  /\ own = [u \in Uploads |-> NoKey]
  /\ chosen = [u \in Uploads |-> NoKey]
  /\ sweep = "idle"
  /\ listed = {}
  /\ item = NoItem

-----------------------------------------------------------------------------
(* Helpers.                                                                *)

Stored(a) == status[a] # "absent"

(* archived_at is None: the asset is in the library.                       *)
Active(a) == Stored(a) /\ a \notin archived

(* Active assets of the same size and hash, whatever their status.         *)
SameContent(c) == {a \in Uploads : Active(a) /\ sha[a] = c}

SetStatus(a, s) == status' = IF Stored(a) THEN [status EXCEPT ![a] = s] ELSE status

Goto(u, s) == task' = [task EXCEPT ![u] = s]

(* The task is over, and what it remembered is gone.                       *)
Leave(u, s) ==
  /\ Goto(u, s)
  /\ own' = [own EXCEPT ![u] = NoKey]
  /\ chosen' = [chosen EXCEPT ![u] = NoKey]

(* An upload whose file has not been processed successfully yet.           *)
UnderWay(u) ==
  \/ session[u] \in {"pending", "reused"}
  \/ task[u] \notin {"unsent", "ended"}

WorkerFree ==
  \/ "pool" \in events
  \/ sweep = "idle" /\ \A u \in Uploads : task[u] \notin Running

-----------------------------------------------------------------------------
(* Upload sessions.                                                        *)

OpenTransfer(u) ==
  /\ session' = [session EXCEPT ![u] = "pending"]
  /\ file' = [file EXCEPT ![u] = u]

OpenReuse(u) ==
  /\ session' = [session EXCEPT ![u] = "reused"]
  /\ \E d \in SameContent(content[u]) : file' = [file EXCEPT ![u] = key[d]]

Declare(u) == declared' = declared \union {u}

(* initialize_upload: a session to create asset u or to overwrite x.  The  *)
(* file is not transferred when an active asset has the declared hash.     *)
Initialize(u) ==
  /\ session[u] = "none"
  /\ "twins" \in events \/ \A v \in Uploads : content[v] = content[u] => ~UnderWay(v)
  /\ \E x \in {u} \union {a \in Uploads : Active(a) /\ "overwrite" \in events} :
       target' = [target EXCEPT ![u] = x]
  /\ \/ OpenTransfer(u) /\ UNCHANGED declared
     \/ "hash" \in events /\ SameContent(content[u]) = {} /\ OpenTransfer(u) /\ Declare(u)
     \/ "hash" \in events /\ OpenReuse(u) /\ Declare(u)
  /\ UNCHANGED <<events, content, objects, previous, storing, assets, tasks, trash>>

(* The client transfers its file.                                          *)
Put(u) ==
  /\ session[u] = "pending"
  /\ objects' = objects \union {u}
  /\ UNCHANGED <<events, content, sessions, assets, tasks, trash>>

(* complete_upload up to the read of the asset to overwrite: the object    *)
(* has to be there unless it is reused.                                    *)
ReadTarget(u) ==
  /\ u \notin storing
  /\ session[u] = "reused" \/ (session[u] = "pending" /\ u \in objects)
  /\ target[u] # u => Active(target[u])
  /\ previous' = IF target[u] # u /\ previous[u] = NoKey
                   THEN [previous EXCEPT ![u] = key[target[u]]]
                   ELSE previous
  /\ storing' = storing \union {u}
  /\ UNCHANGED <<events, content, objects, session, declared, target, file, assets, tasks, trash>>

(* replace_one writes a whole new document: the asset is out of the trash, *)
(* its hash is the declared one or none.  Without upsert it has no effect  *)
(* on an asset to overwrite that is gone.                                  *)
StoreAsset(u) ==
  /\ u \in storing
  /\ LET a == target[u] IN
       IF a = u \/ Stored(a)
         THEN /\ status' = [status EXCEPT ![a] = "processing"]
              /\ archived' = archived \ {a}
              /\ key' = [key EXCEPT ![a] = file[u]]
              /\ sha' = [sha EXCEPT ![a] = IF u \in declared THEN content[u] ELSE NoHash]
         ELSE UNCHANGED assets
  /\ session' = [session EXCEPT ![u] = "completed"]
  /\ storing' = storing \ {u}
  /\ Goto(u, "queued")
  /\ UNCHANGED <<events, content, objects, declared, target, file, previous, own, chosen, trash>>

-----------------------------------------------------------------------------
(* worker.tasks.process_asset, on asset target[u].                         *)

Take(u) ==
  /\ task[u] = "queued"
  /\ WorkerFree
  /\ Goto(u, "reading")
  /\ UNCHANGED <<events, content, objects, sessions, assets, own, chosen, trash>>

(* Slip: the asset is taken to be there.                                   *)
ReadAnyAsset(u) ==
  /\ task[u] = "reading"
  /\ own' = [own EXCEPT ![u] = key[target[u]]]
  /\ Goto(u, "working")
  /\ UNCHANGED <<events, content, objects, sessions, assets, chosen, trash>>

ReadAsset(u) ==
  /\ task[u] = "reading"
  /\ IF Stored(target[u])
       THEN own' = [own EXCEPT ![u] = key[target[u]]] /\ Goto(u, "working")
       ELSE Goto(u, "failing") /\ UNCHANGED own
  /\ UNCHANGED <<events, content, objects, sessions, assets, chosen, trash>>

(* stat, download and digest.                                              *)
Work(u) ==
  /\ task[u] = "working"
  /\ IF own[u] \in objects
       THEN Goto(u, "searching") /\ UNCHANGED <<own, chosen>>
       ELSE Leave(u, "failing")
  /\ UNCHANGED <<events, content, objects, sessions, assets, trash>>

Duplicates(u) == SameContent(content[own[u]]) \ {target[u]}

(* Slip: every asset keeps its own object.                                 *)
SearchNothing(u) ==
  /\ task[u] = "searching"
  /\ chosen' = [chosen EXCEPT ![u] = own[u]]
  /\ Goto(u, "updating")
  /\ UNCHANGED <<events, content, objects, sessions, assets, own, trash>>

Search(u) ==
  /\ task[u] = "searching"
  /\ \E k \in (IF Duplicates(u) = {} THEN {own[u]} ELSE {key[d] : d \in Duplicates(u)}) :
       /\ chosen' = [chosen EXCEPT ![u] = k]
       /\ Goto(u, IF k = own[u] THEN "updating" ELSE "removing")
  /\ UNCHANGED <<events, content, objects, sessions, assets, own, trash>>

(* Slip: the duplicate object is not removed.                              *)
KeepOwn(u) ==
  /\ task[u] = "removing"
  /\ Goto(u, "updating")
  /\ UNCHANGED <<events, content, objects, sessions, assets, own, chosen, trash>>

(* Whoever else has this object.                                           *)
RemoveOwn(u) ==
  /\ task[u] = "removing"
  /\ objects' = objects \ {own[u]}
  /\ Goto(u, "updating")
  /\ UNCHANGED <<events, content, sessions, assets, own, chosen, trash>>

(* The digest is that of the object read; a deleted asset stays deleted.   *)
Update(u) ==
  /\ task[u] = "updating"
  /\ IF Stored(target[u])
       THEN /\ SetStatus(target[u], "ready")
            /\ key' = [key EXCEPT ![target[u]] = chosen[u]]
            /\ sha' = [sha EXCEPT ![target[u]] = content[own[u]]]
       ELSE UNCHANGED <<status, key, sha>>
  /\ Goto(u, "checking")
  /\ UNCHANGED <<events, content, objects, sessions, archived, own, chosen, trash>>

(* cleanup_replaced_object: no other asset, in the trash or not, has it.   *)
Replaced(u) ==
  /\ previous[u] \notin {NoKey, chosen[u]}
  /\ \A a \in Uploads \ {target[u]} : Stored(a) => key[a] # previous[u]

CheckReplaced(u) ==
  /\ task[u] = "checking"
  /\ IF Replaced(u)
       THEN Goto(u, "cleaning") /\ UNCHANGED <<own, chosen>>
       ELSE Leave(u, "finishing")
  /\ UNCHANGED <<events, content, objects, sessions, assets, trash>>

RemoveReplaced(u) ==
  /\ task[u] = "cleaning"
  /\ objects' = objects \ {previous[u]}
  /\ Leave(u, "finishing")
  /\ UNCHANGED <<events, content, sessions, assets, trash>>

(* The job has succeeded.                                                  *)
Finish(u) ==
  /\ task[u] = "finishing"
  /\ Goto(u, "ended")
  /\ UNCHANGED <<events, content, objects, sessions, assets, own, chosen, trash>>

(* A failing clean-up is only logged; what fails around it is an error.    *)
Raise(u) ==
  /\ "error" \in events
  /\ \/ task[u] \in Running /\ Leave(u, "failing")
     \/ task[u] \in {"checking", "cleaning"} /\ Leave(u, "finishing")
  /\ UNCHANGED <<events, content, objects, sessions, assets, trash>>

(* By the except branch, or later by the monitor when the worker has died: *)
(* the worker may be at its next task by then.                             *)
FailAsset(u) ==
  /\ task[u] = "failing"
  /\ SetStatus(target[u], "failed")
  /\ Goto(u, "failed")
  /\ UNCHANGED <<events, content, objects, sessions, archived, key, sha, own, chosen, trash>>

(* Celery tries again, or the user does, which resets the asset's status.  *)
Retry(u) ==
  /\ task[u] = "failed"
  /\ Goto(u, "queued")
  /\ (UNCHANGED status) \/ SetStatus(target[u], "processing")
  /\ UNCHANGED <<events, content, objects, sessions, archived, key, sha, own, chosen, trash>>

-----------------------------------------------------------------------------
(* The trash.  A request for several assets treats each on its own.        *)

(* batch_delete.                                                           *)
Archive(a) ==
  /\ "trash" \in events
  /\ sweep = "idle" \/ "busy" \in events
  /\ Active(a)
  /\ archived' = archived \union {a}
  /\ UNCHANGED <<events, content, objects, sessions, status, key, sha, tasks, trash>>

(* restore_trash.                                                          *)
Restore(a) ==
  /\ "restore" \in events
  /\ sweep = "idle" \/ "busy" \in events
  /\ a \in archived
  /\ archived' = archived \ {a}
  /\ UNCHANGED <<events, content, objects, sessions, status, key, sha, tasks, trash>>

(* worker.tasks.empty_trash reads all assets in the trash first.           *)
ListTrash ==
  /\ sweep = "idle"
  /\ WorkerFree
  /\ archived # {}
  /\ listed' = {<<a, key[a]>> : a \in archived}
  /\ sweep' = "checking"
  /\ UNCHANGED <<events, content, objects, sessions, assets, tasks, item>>

(* Slip: no asset is asked.                                                *)
NeverUsed(k) == FALSE

Used(k) == \E a \in Uploads : Active(a) /\ key[a] = k

(* A key removed earlier in the same run is not looked up again: it cannot *)
(* come back, so a second removal has no effect.                           *)
CountReferences ==
  /\ sweep = "checking"
  /\ \E e \in listed : item' = e /\ sweep' = IF Used(e[2]) THEN "deleting" ELSE "removing"
  /\ UNCHANGED <<events, content, objects, sessions, assets, tasks, listed>>

RemoveListed ==
  /\ sweep = "removing"
  /\ objects' = objects \ {item[2]}
  /\ sweep' = "deleting"
  /\ UNCHANGED <<events, content, sessions, assets, tasks, listed, item>>

NextItem ==
  /\ listed' = listed \ {item}
  /\ item' = NoItem
  /\ sweep' = IF listed' = {} THEN "idle" ELSE "checking"

DeleteAsset ==
  /\ sweep = "deleting"
  /\ status' = [status EXCEPT ![item[1]] = "absent"]
  /\ archived' = archived \ {item[1]}
  /\ key' = [key EXCEPT ![item[1]] = NoKey]
  /\ sha' = [sha EXCEPT ![item[1]] = NoHash]
  /\ NextItem
  /\ UNCHANGED <<events, content, objects, sessions, tasks>>

(* The asset is reported as failed and stays where it is.                  *)
SkipAsset ==
  /\ "error" \in events
  /\ sweep \in {"removing", "deleting"}
  /\ NextItem
  /\ UNCHANGED <<events, content, objects, sessions, assets, tasks>>

-----------------------------------------------------------------------------
Upload(u) == Initialize(u) \/ Put(u) \/ ReadTarget(u) \/ StoreAsset(u)

Process(u) ==
  \/ Take(u) \/ ReadAsset(u) \/ Work(u) \/ Search(u) \/ RemoveOwn(u) \/ Update(u)
  \/ CheckReplaced(u) \/ RemoveReplaced(u) \/ Finish(u)
  \/ Raise(u) \/ FailAsset(u) \/ Retry(u)

EmptyTrash == ListTrash \/ CountReferences \/ RemoveListed \/ DeleteAsset \/ SkipAsset

Next ==
  \/ \E u \in Uploads : Upload(u) \/ Process(u)
  \/ \E a \in Uploads : Archive(a) \/ Restore(a)
  \/ EmptyTrash

Spec == Init /\ [][Next]_vars

-----------------------------------------------------------------------------
(* Properties.                                                             *)

(* A file that is shown as ready is in storage.                            *)
ReadyHasObject == \A a \in Uploads : Active(a) /\ status[a] = "ready" => key[a] \in objects

(* When files are safe: tasks run one at a time, or at least no object is  *)
(* given up by an upload or the trash meanwhile; where hashes are          *)
(* declared, a file is not uploaded again too early and none is            *)
(* overwritten; restoring meets none of the other events.                  *)
Careful ==
  /\ "pool" \in events => events \intersect {"twins", "trash", "overwrite"} = {}
  /\ "hash" \in events => events \intersect {"twins", "overwrite"} = {}
  /\ "restore" \in events => events \subseteq {"restore", "trash", "twins"}

(* Removing duplicates, replaced objects and the trash never takes the     *)
(* file of an asset in the library.                                        *)
FilesAreKept == Careful => ReadyHasObject

(* Nothing is stored that no asset refers to, once all uploads and tasks   *)
(* have ended.                                                             *)
NoOrphans ==
  ((\A u \in Uploads : ~UnderWay(u)) /\ sweep = "idle") =>
     \A k \in objects : \E a \in Uploads : Stored(a) /\ key[a] = k

OrphansAreRemoved ==
  (/\ "overwrite" \notin events
   /\ "restore" \in events => events \intersect {"pool", "busy"} = {}) => NoOrphans

(* Assets of the same content share one object.                            *)
StoredOnce ==
  \A a, b \in Uploads :
    (/\ Active(a) /\ status[a] = "ready" /\ Active(b) /\ status[b] = "ready"
     /\ sha[a] = sha[b]) => key[a] = key[b]

DuplicatesAreShared == (Careful /\ "trash" \notin events) => StoredOnce
=============================================================================
