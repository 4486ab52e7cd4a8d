---------------------------- MODULE BundleImport ----------------------------
(***************************************************************************)
(* The import of an image_annotation archive by worker.tasks.process_asset *)
(* (import_cvat_annotation_bundle): every image and annotation of the      *)
(* archive becomes an asset with a stored object, images get a preview,    *)
(* matching ones are related, and at last the archive itself is removed.   *)
(* A failed import is taken back by _rollback_bundle, and a later run of   *)
(* the task starts again.  Every database or storage call is a step.       *)
(*                                                                         *)
(* One archive.  Its upload, the messages that start the runs and the      *)
(* resubmission of the job are the subject of UploadProcess.               *)
(***************************************************************************)
EXTENDS Naturals, FiniteSetsExt

CONSTANTS
  Images,       \* the image entries, in the order of the archive
  Labels,       \* the entries with annotations: YOLO texts, XML or JSON documents
  Stems,        \* the names of entries without directory, extension and case, as the code sorts them
  Runs,         \* a bound: runs of the task
  Revisions,    \* a bound: the highest revision of a relation
  UserRows,     \* a bound: relations users make
  Environments  \* which events can occur together, see EventKinds

EventKinds == {
  "error",       \* a call of the import raises
  "undo_error",  \* a call of the rollback raises
  "late_error",  \* a call after the import raises
  "crash",       \* the worker process ends
  "stall",       \* a run loses its heartbeat, is given up and goes on
  "revoke",      \* users revoke relations of imported assets
  "relate" }     \* users relate imported assets

ASSUME EntriesAssumption ==
  /\ Images \subseteq Nat \ {0} /\ IsFiniteSet(Images)
  /\ Labels \subseteq Nat \ {0} /\ IsFiniteSet(Labels)
  /\ Stems \subseteq Nat
ASSUME RowsAssumption == Revisions \in Nat \ {0} /\ UserRows \in Nat
ASSUME EnvironmentsAssumption == Environments \subseteq SUBSET EventKinds

VARIABLES
  events,     \* what the environment may do in this behaviour
  format,     \* what inspect_supported_bundle makes of the archive
  stem,       \* the stem of each image entry
  refs,       \* the stems an annotation entry is about: its own, or those a document names
  archive,    \* "stored", "removed" (the object only), or "deleted" (its asset too)
  job,        \* jobs.state
  assets,     \* imported assets
  objects,    \* imported assets whose object is stored
  previews,   \* imported assets whose preview is stored
  relations,  \* relations between imported assets
  run         \* the runs of process_asset

contents == <<format, stem, refs>>
imported == <<assets, objects, previews, relations>>
vars == <<events, contents, archive, job, imported, run>>

(* What is imported: an image (no label), an annotation (no image), or the *)
(* relation between both.                                                  *)
Items == [image : Images \union {0}, label : Labels \union {0}]
ImageItem(i) == [image |-> i, label |-> 0]
LabelItem(l) == [image |-> 0, label |-> l]
IsRelation(x) == x.image # 0 /\ x.label # 0

(* Assets are told apart by the run that creates them.                     *)
Assets == [item : {x \in Items : ~IsRelation(x)}, run : Runs]

Row == [source : Assets, target : Assets, revision : 1..Revisions,
        status : {"active", "revoked"}, provenance : {"cvat_import", "user"}]

ImportSteps == {"importing", "storing", "previewing", "inserting", "relating"}
RollbackSteps == {"listing", "removing", "deleting"}
LateSteps == {"finishing", "reporting"}
LiveSteps == ImportSteps \union RollbackSteps \union LateSteps \union {"inspecting", "failing"}
Steps == LiveSteps \union {"waiting", "ended"}

Run == [at : Steps,
        todo : SUBSET Items,     \* what is still to import
        known : SUBSET Assets,   \* the assets it has found or created
        listed : SUBSET Assets,  \* the assets it takes back
        files : SUBSET Assets]   \* those whose files are still to remove

TypeOK ==
  /\ events \in Environments
  /\ format \in {"YOLO", "documents", "unsupported"}
  /\ stem \in [Images -> Stems]
  /\ refs \in [Labels -> SUBSET Stems]
  /\ archive \in {"stored", "removed", "deleted"}
  /\ job \in {"queued", "running", "succeeded", "failed"}
  /\ assets \subseteq Assets
  /\ objects \subseteq Assets
  /\ previews \subseteq Assets
  /\ relations \subseteq Row
  /\ run \in [Runs -> Run]

Live(r) == run[r].at \in LiveSteps
Quiet == \A r \in Runs : ~Live(r)

-----------------------------------------------------------------------------
(* What the archive contains.                                              *)

Named(s) == {i \in Images : stem[i] = s}
About(s) == {l \in Labels : s \in refs[l]}

(* cvat_yolo_pairs: of entries with one stem, the last one counts.         *)
YoloStems == {s \in Stems : Named(s) # {} /\ About(s) # {}}
Pair(s) == [image |-> Max(Named(s)), label |-> Max(About(s))]

(* A document keeps the images only it names, by a stem only they have.    *)
Matches(l) == {i \in Images : Named(stem[i]) = {i} /\ About(stem[i]) = {l}}

(* What a run imports.                                                     *)
YoloPlan ==
  UNION {{ImageItem(Pair(s).image), LabelItem(Pair(s).label), Pair(s)} : s \in YoloStems}

DocumentPlan ==
  {ImageItem(i) : i \in Images}
    \union UNION {{LabelItem(l)} \union {[image |-> i, label |-> l] : i \in Matches(l)} : l \in Labels}

Plan == IF format = "YOLO" THEN YoloPlan ELSE DocumentPlan

(* Its order.  The YOLO import takes one stem after the other: the image,  *)
(* the annotation, the relation.  A document import takes the images       *)
(* first, then each document with its relations (these in the order of the *)
(* document, here of the archive).                                         *)
StemOf(x) == IF x.image # 0 THEN stem[x.image] ELSE CHOOSE s \in refs[x.label] : TRUE
NotAfter(x, y) == x.label < y.label \/ (x.label = y.label /\ x.image <= y.image)
Comes(x, y) ==
  IF format = "YOLO" /\ StemOf(x) # StemOf(y) THEN StemOf(x) < StemOf(y) ELSE NotAfter(x, y)

(* A YOLO text has its own stem; an archive without pairs, with several    *)
(* formats or with none is not imported.                                   *)
Init ==
  /\ events \in Environments
  /\ format \in {"YOLO", "documents", "unsupported"}
  /\ stem \in [Images -> Stems]
  /\ refs \in [Labels -> SUBSET Stems]
  /\ format = "YOLO" => YoloStems # {} /\ \A l \in Labels : \E s \in Stems : refs[l] = {s}
  /\ archive = "stored"
  /\ job = "queued"
  /\ assets = {}
  /\ objects = {}
  /\ previews = {}
  /\ relations = {}
  /\ run = [r \in Runs |-> [at |-> "waiting", todo |-> {}, known |-> {}, listed |-> {}, files |-> {}]]

At(r, s) == run' = [run EXCEPT ![r].at = s]

-----------------------------------------------------------------------------
(* The start of a run.                                                     *)

(* Slip: any run begins.                                                   *)
ClaimAny(r) ==
  /\ run[r].at = "waiting"
  /\ job' = "running"
  /\ At(r, "inspecting")
  /\ UNCHANGED <<events, contents, archive, imported>>

Claim(r) ==
  /\ run[r].at = "waiting"
  /\ job \in {"queued", "failed"}
  /\ job' = "running"
  /\ At(r, "inspecting")
  /\ UNCHANGED <<events, contents, archive, imported>>

(* The asset and its object are read, and the archive is inspected; what   *)
(* raises here is not rolled back.                                         *)
Inspect(r) ==
  /\ run[r].at = "inspecting"
  /\ IF archive = "stored" /\ format # "unsupported"
       THEN run' = [run EXCEPT ![r].at = "importing", ![r].todo = Plan]
       ELSE At(r, "failing")
  /\ UNCHANGED <<events, contents, archive, job, imported>>

-----------------------------------------------------------------------------
(* The import.                                                             *)

Item(r) == CHOOSE x \in run[r].todo : \A y \in run[r].todo : Comes(x, y)
New(r) == [item |-> Item(r), run |-> r]

(* The asset of an entry that this run works with.                         *)
Asset(r, x) == CHOOSE a \in run[r].known : a.item = x
Source(r) == Asset(r, LabelItem(Item(r).label))
Target(r) == Asset(r, ImageItem(Item(r).image))

Proceed(r, found) ==
  run' = [run EXCEPT ![r].at = "importing", ![r].todo = @ \ {Item(r)}, ![r].known = @ \union found]

Rows(a, b) == {x \in relations : x.source = a /\ x.target = b}

(* Slip: imported assets are not looked up.                                *)
FindNothing(r) == {}

(* import_cvat_yolo_bundle looks for the asset of the entry, a document    *)
(* import never does.                                                      *)
Find(r) == IF format = "YOLO" THEN {a \in assets : a.item = Item(r)} ELSE {}

(* Slip: the entry is remembered, not its asset.                           *)
FindEntry(r) ==
  /\ run[r].at = "importing"
  /\ run[r].todo # {}
  /\ ~IsRelation(Item(r))
  /\ IF Find(r) = {} THEN At(r, "storing") ELSE Proceed(r, {Item(r)})
  /\ UNCHANGED <<events, contents, archive, job, imported>>

FindAsset(r) ==
  /\ run[r].at = "importing"
  /\ run[r].todo # {}
  /\ ~IsRelation(Item(r))
  /\ IF Find(r) = {} THEN At(r, "storing") ELSE \E a \in Find(r) : Proceed(r, {a})
  /\ UNCHANGED <<events, contents, archive, job, imported>>

StoreObject(r) ==
  /\ run[r].at = "storing"
  /\ objects' = objects \union {New(r)}
  /\ At(r, IF Item(r).label = 0 THEN "previewing" ELSE "inserting")
  /\ UNCHANGED <<events, contents, archive, job, assets, previews, relations>>

(* image_metadata                                                          *)
StorePreview(r) ==
  /\ run[r].at = "previewing"
  /\ previews' = previews \union {New(r)}
  /\ At(r, "inserting")
  /\ UNCHANGED <<events, contents, archive, job, assets, objects, relations>>

InsertAsset(r) ==
  /\ run[r].at = "inserting"
  /\ assets' = assets \union {New(r)}
  /\ Proceed(r, {New(r)})
  /\ UNCHANGED <<events, contents, archive, job, objects, previews, relations>>

(* The YOLO import skips a relation that is active.                        *)
FindRelation(r) ==
  /\ run[r].at = "importing"
  /\ run[r].todo # {}
  /\ IsRelation(Item(r))
  /\ IF format = "YOLO" /\ \E x \in Rows(Source(r), Target(r)) : x.status = "active"
       THEN Proceed(r, {})
       ELSE At(r, "relating")
  /\ UNCHANGED <<events, contents, archive, job, imported>>

(* Always the first revision: a row that is there, active or revoked, is a *)
(* duplicate key, which fails the import.                                  *)
InsertRelation(r) ==
  /\ run[r].at = "relating"
  /\ IF \E x \in Rows(Source(r), Target(r)) : x.revision = 1
       THEN At(r, "listing") /\ UNCHANGED relations
       ELSE /\ relations' = relations \union
                 {[source |-> Source(r), target |-> Target(r), revision |-> 1,
                   status |-> "active", provenance |-> "cvat_import"]}
            /\ Proceed(r, {})
  /\ UNCHANGED <<events, contents, archive, job, assets, objects, previews>>

(* Slip: the error is raised without a rollback.                           *)
RaiseOnly(r) ==
  /\ "error" \in events
  /\ run[r].at \in ImportSteps
  /\ At(r, "failing")
  /\ UNCHANGED <<events, contents, archive, job, imported>>

Raise(r) ==
  /\ "error" \in events
  /\ run[r].at \in ImportSteps
  /\ At(r, "listing")
  /\ UNCHANGED <<events, contents, archive, job, imported>>

-----------------------------------------------------------------------------
(* _rollback_bundle                                                        *)

(* The imported assets, of whichever run.                                  *)
ListImported(r) ==
  /\ run[r].at = "listing"
  /\ run' = [run EXCEPT ![r].at = "removing", ![r].listed = assets, ![r].files = assets]
  /\ UNCHANGED <<events, contents, archive, job, imported>>

(* The object and the preview of one asset after the other.  That a        *)
(* removal fails is ignored; here the storage then fails for the rest of   *)
(* the assets, too.                                                        *)
RemoveFiles(r) ==
  /\ run[r].at = "removing"
  /\ \E a \in run[r].files :
       /\ \A b \in run[r].files : NotAfter(a.item, b.item)
       /\ \/ /\ run' = [run EXCEPT ![r].files = @ \ {a}]
             /\ objects' = objects \ {a}
             /\ previews' = previews \ {a}
          \/ /\ "undo_error" \in events
             /\ run' = [run EXCEPT ![r].files = {}]
             /\ UNCHANGED <<objects, previews>>
  /\ UNCHANGED <<events, contents, archive, job, assets, relations>>

DeleteRelations(r) ==
  /\ run[r].at = "removing"
  /\ run[r].files = {}
  /\ relations' = {x \in relations : x.provenance # "cvat_import"}
  /\ At(r, "deleting")
  /\ UNCHANGED <<events, contents, archive, job, assets, objects, previews>>

DeleteAssets(r) ==
  /\ run[r].at = "deleting"
  /\ assets' = assets \ run[r].listed
  /\ At(r, "failing")
  /\ UNCHANGED <<events, contents, archive, job, objects, previews, relations>>

(* A database call of the rollback raises and ends it.                     *)
UndoRaises(r) ==
  /\ "undo_error" \in events
  /\ run[r].at \in RollbackSteps /\ run[r].files = {}
  /\ At(r, "failing")
  /\ UNCHANGED <<events, contents, archive, job, imported>>

-----------------------------------------------------------------------------
(* The end of a run.                                                       *)

RemoveArchive(r) ==
  /\ run[r].at = "importing"
  /\ run[r].todo = {}
  /\ archive' = IF archive = "deleted" THEN archive ELSE "removed"
  /\ At(r, "finishing")
  /\ UNCHANGED <<events, contents, job, imported>>

DeleteArchive(r) ==
  /\ run[r].at = "finishing"
  /\ archive' = "deleted"
  /\ At(r, "reporting")
  /\ UNCHANGED <<events, contents, job, imported>>

Succeed(r) ==
  /\ run[r].at = "reporting"
  /\ job' = "succeeded"
  /\ At(r, "ended")
  /\ UNCHANGED <<events, contents, archive, imported>>

(* What raises after the import is not rolled back.                        *)
RaiseLate(r) ==
  /\ "late_error" \in events
  /\ run[r].at \in LateSteps \/ (run[r].at = "importing" /\ run[r].todo = {})
  /\ At(r, "failing")
  /\ UNCHANGED <<events, contents, archive, job, imported>>

FailJob(r) ==
  /\ run[r].at = "failing"
  /\ job' = "failed"
  /\ At(r, "ended")
  /\ UNCHANGED <<events, contents, archive, imported>>

Crash(r) ==
  /\ "crash" \in events
  /\ Live(r)
  /\ At(r, "ended")
  /\ UNCHANGED <<events, contents, archive, job, imported>>

(* reconcile_stale_jobs gives up a job without heartbeat.                  *)
GiveUp ==
  /\ job = "running"
  /\ Quiet \/ "stall" \in events
  /\ job' = "failed"
  /\ UNCHANGED <<events, contents, archive, imported, run>>

-----------------------------------------------------------------------------
(* Users, who see imported assets at once.                                 *)

Revoke ==
  /\ "revoke" \in events
  /\ \E x \in relations :
       /\ x.status = "active"
       /\ relations' = (relations \ {x}) \union {[x EXCEPT !.status = "revoked"]}
  /\ UNCHANGED <<events, contents, archive, job, assets, objects, previews, run>>

Relate ==
  /\ "relate" \in events
  /\ Cardinality({x \in relations : x.provenance = "user"}) < UserRows
  /\ \E a, b \in assets :
       LET rows == Rows(a, b)
           next == Max({0} \union {x.revision : x \in rows}) + 1
       IN  /\ a.item.label # 0 /\ b.item.image # 0
           /\ \A x \in rows : x.status = "revoked"
           /\ next <= Revisions
           /\ relations' = relations \union
                {[source |-> a, target |-> b, revision |-> next, status |-> "active", provenance |-> "user"]}
  /\ UNCHANGED <<events, contents, archive, job, assets, objects, previews, run>>

-----------------------------------------------------------------------------
RunNext(r) ==
  \/ Claim(r) \/ Inspect(r)
  \/ FindAsset(r) \/ StoreObject(r) \/ StorePreview(r) \/ InsertAsset(r)
  \/ FindRelation(r) \/ InsertRelation(r) \/ Raise(r)
  \/ ListImported(r) \/ RemoveFiles(r) \/ DeleteRelations(r) \/ DeleteAssets(r) \/ UndoRaises(r)
  \/ RemoveArchive(r) \/ DeleteArchive(r) \/ Succeed(r) \/ RaiseLate(r) \/ FailJob(r)
  \/ Crash(r)

Next == (\E r \in Runs : RunNext(r)) \/ GiveUp \/ Revoke \/ Relate

Spec == Init /\ [][Next]_vars

-----------------------------------------------------------------------------
(* A rollback runs to its end, and nothing but it leaves a failed run.     *)
Undone == events \intersect {"undo_error", "late_error", "crash", "stall"} = {}

(* A rollback that begins also ends.                                       *)
RollbacksEnd ==
  /\ "undo_error" \notin events
  /\ "crash" \in events => events \intersect {"error", "revoke", "relate"} = {}

(* When the job has succeeded, and before the archive is deleted, every    *)
(* entry that counts is an asset with its files and every match is a       *)
(* relation, whatever earlier runs have left behind.  Not so after a       *)
(* rollback that stopped half-way: it removes the files first, and the     *)
(* YOLO import then goes on with the assets it finds.                      *)
NothingIsMissing ==
  /\ \A i \in Plan :
       IF IsRelation(i)
         THEN \E x \in relations :
                /\ {x.source, x.target} \subseteq assets
                /\ x.source.item.label = i.label
                /\ x.target.item.image = i.image
         ELSE \E a \in assets : a.item = i
  /\ \A a \in assets : a \in objects /\ (a.item.image # 0 => a \in previews)

ImportsAreComplete ==
  (job = "succeeded" \/ archive = "deleted") /\ "stall" \notin events /\ RollbacksEnd => NothingIsMissing

(* No entry is imported twice and no image has the annotations of two      *)
(* entries.  A document import after one that failed late, or whose        *)
(* rollback did not run, imports everything again; the YOLO import does    *)
(* not, as long as two runs never overlap.                                 *)
EntriesAreSingle == \A a, b \in assets : a.item = b.item => a = b
ImagesHaveOneSource ==
  \A x, y \in relations :
    x.target.item = y.target.item /\ x.provenance = "cvat_import" /\ y.provenance = "cvat_import"
      => x.source.item = y.source.item

ImportsAreSingle ==
  /\ IF format = "YOLO" THEN "stall" \notin events => EntriesAreSingle ELSE Undone => EntriesAreSingle
  /\ ImagesHaveOneSource

(* A failed import leaves no asset and no relation, and of each run at     *)
(* most the files of one entry: those of an asset whose insertion failed.  *)
(* Relations never outlive their assets, unless a user made them.          *)
NothingStays ==
  /\ assets = {}
  /\ \A x \in relations : x.provenance = "user"
  /\ \A a, b \in objects \union previews : a.run = b.run => a = b

NothingDangles == \A x \in relations : {x.source, x.target} \subseteq assets

FailedImportsVanish ==
  /\ job = "failed" /\ Quiet /\ Undone => NothingStays
  /\ events \intersect {"stall", "relate"} = {} => NothingDangles
=============================================================================
