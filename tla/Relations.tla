------------------------------ MODULE Relations ------------------------------
(***************************************************************************)
(* Relations between assets, the members of datasets that follow from      *)
(* them, and the deletion of assets and datasets with all their links.     *)
(*                                                                         *)
(* The annotations in a dataset are derived: a dataset has those with an   *)
(* active relation to one of its images.  Relations and members are rows   *)
(* of different collections, so every request writes one and then          *)
(* synchronises the other in further calls; each call is an action here.   *)
(* The reads a request makes before its first write are one action, at the *)
(* last of them, and so are the reads of one comparison of members.        *)
(*                                                                         *)
(* A dataset has at most one published version, which bears its name, and  *)
(* a write lease that does not run out under a living request: versions,   *)
(* leases and restores are the subject of DatasetWrites.                   *)
(***************************************************************************)
EXTENDS Naturals, FiniteSets

CONSTANTS
  Images, Annotations, Models, \* assets by type
  Datasets,
  Requests,     \* a bound: each request is one call of the API
  Revisions,    \* a bound: the highest revision of a relation
  Links,        \* a bound: relations, and images in datasets, there are at the start
  BatchSize,    \* a bound: assets a request is given
  Stems,        \* file names without extension and case
  Nobody,       \* no request: the lease is free, or the row is older than all
  NoDataset,
  NoPair,
  Environments  \* which events can occur together, see EventKinds

EventKinds == {
  "relate",    \* relations are created and revoked
  "match",     \* annotations are matched to images by name
  "members",   \* images are added to datasets and removed
  "copy",      \* datasets are copied
  "link",      \* models are linked to versions and unlinked
  "delete",    \* assets are deleted and restored
  "deletions", \* also several at the same time
  "drop",      \* datasets are deleted
  "together",  \* requests overlap
  "error",     \* a call of a synchronisation raises
  "twice",     \* so does a call of the compensation
  "crash" }    \* the API process ends, or a call raises where nothing is compensated

Assets == Images \union Annotations \union Models
Members == Images \union Annotations
Pairs == (Annotations \X Images) \union (Models \X Datasets)
Kinds == {"none", "create", "revoke", "match", "link", "unlink", "add", "remove", "copy", "delete", "drop"}

ASSUME TypesAssumption ==
  /\ Images \intersect Annotations = {}
  /\ Images \intersect Models = {}
  /\ Annotations \intersect Models = {}
  /\ Assets \intersect Datasets = {}
ASSUME NobodyAssumption == Nobody \notin Requests
ASSUME NoDatasetAssumption == NoDataset \notin Datasets
ASSUME NoPairAssumption == NoPair \notin Pairs
ASSUME BoundsAssumption == Revisions \in Nat \ {0} /\ Links \in Nat /\ BatchSize \in Nat
ASSUME EnvironmentsAssumption == Environments \subseteq SUBSET EventKinds

VARIABLES
  events,     \* what the environment may do in this behaviour
  stem,       \* the stem of each image's name
  claims,     \* the stems of the images an annotation names
  archived,   \* assets whose archived_at is set
  relations,  \* the rows of relations
  datasets,   \* "none", "active", or "deleted"
  members,    \* dataset_memberships
  published,  \* datasets with a published version
  rows,       \* dataset_version_memberships
  summary,    \* what a version's member_count, size and digest were computed from
  writer,     \* who holds the write lease of a dataset
  req         \* the requests

library == <<stem, claims>>
versions == <<published, rows, summary>>
vars == <<events, library, archived, relations, datasets, members, versions, writer, req>>

(* A row of relations.  The id is the request that created it.             *)
Row == [pair : Pairs, revision : 1..Revisions, id : Requests \union {Nobody},
        status : {"active", "revoked"}]

Steps == {"idle", "checking", "inserting", "matching", "revoking", "adding", "removing", "creating",
          "collecting", "filling", "confirming", "archiving", "unlisting", "unversioning", "unrelating",
          "recounting", "storing", "listing", "comparing", "including", "excluding", "undoing",
          "abandoning", "dropping", "emptying", "unpublishing", "clearing", "closing", "done"}

(* What a request remembers.                                               *)
Request == [
  at : Steps,
  kind : Kinds,
  pair : Pairs \union {NoPair},             \* the relation it is about
  id : Requests \union {Nobody},            \* the row it revokes
  revision : 0..Revisions,                  \* the revision it has decided on
  ready : SUBSET (Annotations \X Images),   \* matched pairs still to create
  dataset : Datasets \union {NoDataset},    \* the dataset it writes
  copy : Datasets \union {NoDataset},       \* the dataset it creates
  batch : SUBSET Assets,                    \* the assets it was given
  confirmed : BOOLEAN,                      \* confirm_linked
  changed : SUBSET Assets,                  \* the members it added, removed or copied
  todo : SUBSET Datasets,                   \* the datasets, or versions, still to visit
  visit : Datasets \union {NoDataset},      \* the one it is at
  found : SUBSET Assets,                    \* the members it read there
  in : SUBSET Annotations,                  \* annotations to add there
  out : SUBSET Annotations,                 \* annotations to remove there
  undone : BOOLEAN ]                        \* it has taken its own write back

NewRequest == [
  at |-> "idle", kind |-> "none", pair |-> NoPair, id |-> Nobody, revision |-> 0, ready |-> {},
  dataset |-> NoDataset, copy |-> NoDataset, batch |-> {}, confirmed |-> FALSE, changed |-> {},
  todo |-> {}, visit |-> NoDataset, found |-> {}, in |-> {}, out |-> {}, undone |-> FALSE]

TypeOK ==
  /\ events \in Environments
  /\ stem \in [Images -> Stems]
  /\ claims \in [Annotations -> SUBSET Stems]
  /\ archived \subseteq Assets
  /\ relations \subseteq Row
  /\ datasets \in [Datasets -> {"none", "active", "deleted"}]
  /\ members \subseteq Datasets \X Members
  /\ published \subseteq Datasets
  /\ rows \subseteq Datasets \X Members
  /\ summary \in [Datasets -> SUBSET Members]
  /\ writer \in [Datasets -> Requests \union {Nobody}]
  /\ req \in [Requests -> Request]

-----------------------------------------------------------------------------
(* Helpers.                                                                *)

AtMost(n, S) == {T \in SUBSET S : Cardinality(T) <= n}

MembersOf(d) == {a \in Members : <<d, a>> \in members}
RowsOf(d) == {a \in Members : <<d, a>> \in rows}
Related(a, i) == \E x \in relations : x.pair = <<a, i>> /\ x.status = "active"

(* The annotations the images of a dataset bring with them.                *)
Desired(d) ==
  {a \in Annotations \ archived : \E i \in (Images \ archived) \intersect MembersOf(d) : Related(a, i)}

Follows(d) == MembersOf(d) \intersect Annotations = Desired(d)

Busy(r) == req[r].at \notin {"idle", "done"}
Quiet == \A r \in Requests : ~Busy(r)

(* The initial library: nothing is deleted, and members and versions are   *)
(* as earlier requests leave them.                                         *)
Init ==
  /\ events \in Environments
  /\ IF "match" \in events
       THEN stem \in [Images -> Stems] /\ claims \in [Annotations -> SUBSET Stems \ {{}}]
       ELSE \E s \in Stems : stem = [i \in Images |-> s] /\ claims = [a \in Annotations |-> {s}]
  /\ archived = {}
  /\ datasets \in [Datasets -> {"none", "active"}]
  /\ published \in SUBSET {d \in Datasets : datasets[d] = "active"}
  /\ \E pairs \in AtMost(Links, {p \in Pairs : p[2] \in Images \union published}) :
       /\ relations = [pair : pairs, revision : {1}, id : {Nobody}, status : {"active"}]
       /\ "match" \in events => \A p, q \in pairs : p[2] = q[2] => p = q
       /\ \E S \in AtMost(Links, {d \in Datasets : datasets[d] = "active"} \X Images) :
            members = S \union {m \in Datasets \X Annotations :
                                  \E i \in Images : <<m[1], i>> \in S /\ <<m[2], i>> \in pairs}
  /\ rows = {m \in members : m[1] \in published}
  /\ summary = [d \in Datasets |-> RowsOf(d)]
  /\ writer = [d \in Datasets |-> Nobody]
  /\ req = [r \in Requests |-> NewRequest]

(* The request goes on, or is over and gives its lease back.               *)
Set(r, q) == req' = [req EXCEPT ![r] = q]
At(r, s) == Set(r, [req[r] EXCEPT !.at = s])
End(r) ==
  /\ Set(r, [NewRequest EXCEPT !.at = "done"])
  /\ writer' = [d \in Datasets |-> IF writer[d] = r THEN Nobody ELSE writer[d]]
Continue(r, q) == Set(r, q) /\ UNCHANGED writer

Start(r) ==
  /\ req[r].at = "idle"
  /\ "together" \in events \/ Quiet
  /\ UNCHANGED <<events, library, archived, relations, datasets, members, versions>>

(* serialize_dataset_write; a request that finds the dataset taken ends.   *)
Lease(r, d) ==
  /\ writer[d] = Nobody
  /\ datasets[d] = "active"
  /\ writer' = [writer EXCEPT ![d] = r]

-----------------------------------------------------------------------------
(* Synchronisation of the annotations of datasets.                         *)

(* sync_annotation_datasets(i): the datasets with this image.              *)
ListImageDatasets(r) ==
  /\ req[r].at = "listing"
  /\ LET i == req[r].pair[2] IN
       Continue(r, [req[r] EXCEPT !.at = "comparing", !.todo = {d \in Datasets : <<d, i>> \in members}])
  /\ UNCHANGED <<events, library, archived, relations, datasets, members, versions>>

(* Which annotations to add and to remove.                                 *)
Compare(r, d) ==
  LET current == MembersOf(d) \intersect Annotations
  IN  Continue(r, [req[r] EXCEPT !.at = "including", !.todo = @ \ {d}, !.visit = d,
                                 !.in = Desired(d) \ current, !.out = current \ Desired(d)])

(* sync_annotation_memberships, for the request's own dataset or, when it  *)
(* was called for an image, for one that is not deleted.                   *)
CompareMembers(r) ==
  /\ req[r].at = "comparing"
  /\ \E d \in req[r].todo :
       IF req[r].pair # NoPair /\ datasets[d] # "active"
         THEN Continue(r, [req[r] EXCEPT !.todo = @ \ {d}])
         ELSE Compare(r, d)
  /\ UNCHANGED <<events, library, archived, relations, datasets, members, versions>>

Include(r) ==
  /\ req[r].at = "including"
  /\ members' = members \union ({req[r].visit} \X req[r].in)
  /\ Continue(r, [req[r] EXCEPT !.at = "excluding", !.in = {}])
  /\ UNCHANGED <<events, library, archived, relations, datasets, versions>>

Exclude(r) ==
  /\ req[r].at = "excluding"
  /\ members' = members \ ({req[r].visit} \X req[r].out)
  /\ Continue(r, [req[r] EXCEPT !.at = "comparing", !.visit = NoDataset, !.out = {}])
  /\ UNCHANGED <<events, library, archived, relations, datasets, versions>>

(* All datasets are done.  A matching request creates its next pair.       *)
Synchronised(r) ==
  /\ req[r].at = "comparing"
  /\ req[r].todo = {}
  /\ IF req[r].ready # {} /\ ~req[r].undone
       THEN Continue(r, [req[r] EXCEPT !.at = "matching", !.pair = NoPair])
       ELSE End(r)
  /\ UNCHANGED <<events, library, archived, relations, datasets, members, versions>>

(* The steps inside try, those of copy_dataset included.                   *)
Synchronising == {"collecting", "filling", "listing", "comparing", "including", "excluding"}

(* A call of the synchronisation raises: the except branch takes the       *)
(* request's own write back.                                               *)
SyncRaises(r) ==
  /\ "error" \in events
  /\ req[r].at \in Synchronising
  /\ ~req[r].undone
  /\ Continue(r, [req[r] EXCEPT !.at = "undoing", !.undone = TRUE, !.todo = {}, !.visit = NoDataset,
                                !.in = {}, !.out = {}])
  /\ UNCHANGED <<events, library, archived, relations, datasets, members, versions>>

-----------------------------------------------------------------------------
(* Relations.                                                              *)

Active(a) == a \in Assets \ archived

(* validate_relation, with relation_type_error: an annotation and an image *)
(* of the library, or a model and a version of a dataset that is there.    *)
Valid(p) ==
  /\ Active(p[1])
  /\ IF p[2] \in Images
       THEN p[1] \in Annotations /\ Active(p[2])
       ELSE p[1] \in Models /\ p[2] \in published /\ datasets[p[2]] = "active"

RowsFor(p) == {x \in relations : x.pair = p}

(* The row with the highest revision, as a set.                            *)
Latest(p) == {x \in RowsFor(p) : \A y \in RowsFor(p) : y.revision <= x.revision}

(* Creation is refused when the latest row is active.                      *)
Creatable(p) == Valid(p) /\ \A x \in Latest(p) : x.status # "active"

(* preview_relation_item looks for any active row.                         *)
PreviewReady(p) == Valid(p) /\ \A x \in RowsFor(p) : x.status # "active"

StartCreate(r) ==
  /\ "relate" \in events
  /\ Start(r)
  /\ \E p \in Pairs : Continue(r, [NewRequest EXCEPT !.at = "checking", !.kind = "create", !.pair = p])

(* What the checks lead to, in create_relation and in add_dataset_model.   *)
Refused(r) ==
  IF req[r].ready # {}
    THEN Continue(r, [req[r] EXCEPT !.at = "matching", !.pair = NoPair])
    ELSE End(r)

Check(r) ==
  /\ req[r].at = "checking"
  /\ LET p == req[r].pair
         next == IF Latest(p) = {} THEN 1 ELSE (CHOOSE x \in Latest(p) : TRUE).revision + 1
     IN  IF Creatable(p)
           THEN /\ next <= Revisions
                /\ Continue(r, [req[r] EXCEPT !.at = "inserting", !.revision = next])
           ELSE Refused(r)
  /\ UNCHANGED <<events, library, archived, relations, datasets, members, versions>>

(* Slip: there is no unique index.                                         *)
NeverTaken(p, n) == FALSE

(* The unique index of source, target, type and revision.                  *)
Taken(p, n) == \E x \in relations : x.pair = p /\ x.revision = n

(* A duplicate key is no AppError: it ends a whole batch.                  *)
Insert(r) ==
  /\ req[r].at = "inserting"
  /\ LET p == req[r].pair IN
       IF Taken(p, req[r].revision)
         THEN End(r) /\ UNCHANGED relations
         ELSE /\ relations' = relations \union
                   {[pair |-> p, revision |-> req[r].revision, id |-> r, status |-> "active"]}
              /\ IF p[1] \in Annotations THEN Continue(r, [req[r] EXCEPT !.at = "listing"]) ELSE End(r)
  /\ UNCHANGED <<events, library, archived, datasets, members, versions>>

StartRevoke(r) ==
  /\ "relate" \in events
  /\ Start(r)
  /\ \E x \in relations :
       /\ x.status = "active"
       /\ Continue(r, [NewRequest EXCEPT !.at = "revoking", !.kind = "revoke", !.pair = x.pair, !.id = x.id])

SetRow(p, id, old, new) ==
  relations' = {IF x.pair = p /\ x.id = id /\ x.status = old THEN [x EXCEPT !.status = new] ELSE x
                  : x \in relations}

Revoke(r) ==
  /\ req[r].at = "revoking"
  /\ SetRow(req[r].pair, req[r].id, "active", "revoked")
  /\ IF req[r].pair[1] \in Annotations THEN At(r, "listing") /\ UNCHANGED writer ELSE End(r)
  /\ UNCHANGED <<events, library, archived, datasets, members, versions>>

(* Slip: nothing is synchronised any more.                                 *)
UndoRelationOnly(r) ==
  /\ IF req[r].kind = "revoke"
       THEN SetRow(req[r].pair, req[r].id, "revoked", "active")
       ELSE relations' = {x \in relations : x.pair # req[r].pair \/ x.id # r}
  /\ At(r, "done")
  /\ UNCHANGED members

UndoRelation(r) ==
  /\ IF req[r].kind = "revoke"
       THEN SetRow(req[r].pair, req[r].id, "revoked", "active")
       ELSE relations' = {x \in relations : x.pair # req[r].pair \/ x.id # r}
  /\ At(r, "listing")
  /\ UNCHANGED members

-----------------------------------------------------------------------------
(* Matching by name: preview_annotation_matches, then the client has       *)
(* create_relations create the pairs that are ready.  S are the assets the *)
(* user selected; without a selection all are meant.                       *)

Among(S, T) == IF S = {} THEN T \ archived ELSE (S \intersect T) \ archived

ImagesOf(s, S) == {i \in Among(S, Images) : stem[i] = s}
ClaimsOf(s, S) == {a \in Among(S, Annotations) : s \in claims[a]}
HasAnnotation(i) == \E a \in Annotations : Related(a, i)

(* One image and one annotation with this stem, and the image has none.    *)
Ready(S) ==
  {p \in Annotations \X Images :
     /\ \E s \in Stems : ImagesOf(s, S) = {p[2]} /\ ClaimsOf(s, S) = {p[1]}
     /\ ~HasAnnotation(p[2])}

StartMatch(r) ==
  /\ "match" \in events
  /\ Start(r)
  /\ \E S \in AtMost(BatchSize, Images \union Annotations) :
       Continue(r, [NewRequest EXCEPT !.at = "matching", !.kind = "match", !.ready = Ready(S)])

NextPair(r) ==
  /\ req[r].at = "matching"
  /\ IF req[r].ready = {}
       THEN End(r)
       ELSE \E p \in req[r].ready :
              Continue(r, [req[r] EXCEPT !.at = "checking", !.pair = p, !.ready = @ \ {p}])
  /\ UNCHANGED <<events, library, archived, relations, datasets, members, versions>>

-----------------------------------------------------------------------------
(* Links of models to versions, under the dataset's lease.                 *)

StartLink(r) ==
  /\ "link" \in events
  /\ Start(r)
  /\ \E p \in Models \X Datasets :
       /\ Lease(r, p[2])
       /\ Set(r, [NewRequest EXCEPT !.at = "checking", !.kind = "link", !.pair = p])

(* remove_dataset_model; the version has to be there.                      *)
StartUnlink(r) ==
  /\ "link" \in events
  /\ Start(r)
  /\ \E x \in relations :
       /\ x.pair[1] \in Models /\ x.pair[2] \in published /\ x.status = "active"
       /\ Lease(r, x.pair[2])
       /\ Set(r, [NewRequest EXCEPT !.at = "revoking", !.kind = "unlink", !.pair = x.pair, !.id = x.id])

-----------------------------------------------------------------------------
(* Members of datasets, under the dataset's lease.                         *)

(* Slip: assets of any type are taken.                                     *)
StartAddAny(r) ==
  /\ "members" \in events
  /\ Start(r)
  /\ \E d \in Datasets, S \in AtMost(BatchSize, Assets \ archived) :
       /\ S # {}
       /\ Lease(r, d)
       /\ Set(r, [NewRequest EXCEPT !.at = "adding", !.kind = "add", !.dataset = d, !.batch = S])

StartAdd(r) ==
  /\ "members" \in events
  /\ Start(r)
  /\ \E d \in Datasets, S \in AtMost(BatchSize, Images \ archived) :
       /\ S # {}
       /\ Lease(r, d)
       /\ Set(r, [NewRequest EXCEPT !.at = "adding", !.kind = "add", !.dataset = d, !.batch = S])

(* One upsert for each asset; those that are members already stay.         *)
AddMember(r) ==
  /\ req[r].at = "adding"
  /\ req[r].batch # {}
  /\ \E a \in req[r].batch :
       /\ members' = members \union {<<req[r].dataset, a>>}
       /\ Continue(r, [req[r] EXCEPT !.batch = @ \ {a}, !.changed = @ \union ({a} \ MembersOf(req[r].dataset))])
  /\ UNCHANGED <<events, library, archived, relations, datasets, versions>>

(* The annotations of the dataset are brought up to date.                  *)
Adjust(r, d) == Continue(r, [req[r] EXCEPT !.at = "comparing", !.todo = {d}])

Added(r) ==
  /\ req[r].at = "adding"
  /\ req[r].batch = {}
  /\ Adjust(r, req[r].dataset)
  /\ UNCHANGED <<events, library, archived, relations, datasets, members, versions>>

StartRemove(r) ==
  /\ "members" \in events
  /\ Start(r)
  /\ \E d \in Datasets, S \in AtMost(BatchSize, Images) :
       /\ S # {}
       /\ Lease(r, d)
       /\ Set(r, [NewRequest EXCEPT !.at = "removing", !.kind = "remove", !.dataset = d,
                                    !.batch = S, !.changed = S \intersect MembersOf(d)])

RemoveMembers(r) ==
  /\ req[r].at = "removing"
  /\ members' = members \ ({req[r].dataset} \X req[r].batch)
  /\ Adjust(r, req[r].dataset)
  /\ UNCHANGED <<events, library, archived, relations, datasets, versions>>

UndoMembers(r) ==
  /\ LET own == {req[r].dataset} \X (req[r].changed \intersect Members) IN
       members' = IF req[r].kind = "add" THEN members \ own ELSE members \union own
  /\ Set(r, [req[r] EXCEPT !.at = "comparing", !.todo = {req[r].dataset}, !.changed = {}])
  /\ UNCHANGED relations

(* The write is taken back and the annotations are synchronised again.     *)
Undo(r) ==
  /\ req[r].at = "undoing"
  /\ req[r].kind # "copy"
  /\ IF req[r].pair # NoPair THEN UndoRelation(r) ELSE UndoMembers(r)
  /\ UNCHANGED <<events, library, archived, datasets, versions, writer>>

(* copy_dataset holds the lease of the original only.                      *)
StartCopy(r) ==
  /\ "copy" \in events
  /\ Start(r)
  /\ \E d \in Datasets :
       /\ Lease(r, d)
       /\ Set(r, [NewRequest EXCEPT !.at = "creating", !.kind = "copy", !.dataset = d])

CreateCopy(r) ==
  /\ req[r].at = "creating"
  /\ \E c \in Datasets :
       /\ datasets[c] = "none"
       /\ datasets' = [datasets EXCEPT ![c] = "active"]
       /\ Continue(r, [req[r] EXCEPT !.at = "collecting", !.copy = c])
  /\ UNCHANGED <<events, library, archived, relations, members, versions>>

CollectMembers(r) ==
  /\ req[r].at = "collecting"
  /\ Continue(r, [req[r] EXCEPT !.at = "filling", !.changed = MembersOf(req[r].dataset) \ archived])
  /\ UNCHANGED <<events, library, archived, relations, datasets, members, versions>>

FillCopy(r) ==
  /\ req[r].at = "filling"
  /\ members' = members \union ({req[r].copy} \X (req[r].changed \intersect Members))
  /\ Adjust(r, req[r].copy)
  /\ UNCHANGED <<events, library, archived, relations, datasets, versions>>

AbandonCopy(r) ==
  /\ req[r].at = "undoing"
  /\ req[r].kind = "copy"
  /\ members' = {m \in members : m[1] # req[r].copy}
  /\ At(r, "abandoning")
  /\ UNCHANGED <<events, library, archived, relations, datasets, versions, writer>>

RemoveCopy(r) ==
  /\ req[r].at = "abandoning"
  /\ datasets' = [datasets EXCEPT ![req[r].copy] = "none"]
  /\ End(r)
  /\ UNCHANGED <<events, library, archived, relations, members, versions>>

-----------------------------------------------------------------------------
(* Deletion of assets, which takes no lease, and of datasets, which does.  *)

(* What the user has to confirm.                                           *)
Linked(S) ==
  \/ \E m \in members \union rows : m[2] \in S
  \/ \E x \in relations : x.status = "active" /\ {x.pair[1], x.pair[2]} \intersect S # {}

StartDelete(r) ==
  /\ "delete" \in events
  /\ "deletions" \in events \/ \A q \in Requests : req[q].kind # "delete"
  /\ Start(r)
  /\ \E S \in AtMost(BatchSize, Assets), sure \in BOOLEAN :
       /\ S # {}
       /\ Continue(r, [NewRequest EXCEPT !.at = IF sure THEN "archiving" ELSE "confirming", !.kind = "delete",
                                         !.batch = S, !.confirmed = sure])

Confirm(r) ==
  /\ req[r].at = "confirming"
  /\ IF Linked(req[r].batch) THEN End(r) ELSE At(r, "archiving") /\ UNCHANGED writer
  /\ UNCHANGED <<events, library, archived, relations, datasets, members, versions>>

(* Only what was not deleted before is treated further.                    *)
ArchiveAssets(r) ==
  /\ req[r].at = "archiving"
  /\ LET S == req[r].batch \ archived IN
       /\ archived' = archived \union S
       /\ IF S = {} THEN End(r) ELSE Continue(r, [req[r] EXCEPT !.at = "unlisting", !.batch = S])
  /\ UNCHANGED <<events, library, relations, datasets, members, versions>>

(* The versions concerned are read before anything is removed.             *)
RemoveFromDatasets(r) ==
  /\ req[r].at = "unlisting"
  /\ members' = {m \in members : m[2] \notin req[r].batch}
  /\ Continue(r, [req[r] EXCEPT !.at = "unversioning",
                                !.todo = {d \in Datasets : RowsOf(d) \intersect req[r].batch # {}}])
  /\ UNCHANGED <<events, library, archived, relations, datasets, versions>>

RemoveFromVersions(r) ==
  /\ req[r].at = "unversioning"
  /\ rows' = {m \in rows : m[2] \notin req[r].batch}
  /\ At(r, "unrelating")
  /\ UNCHANGED <<events, library, archived, relations, datasets, members, published, summary, writer>>

(* Slip: the relations stay.                                               *)
KeepRelations(r) ==
  /\ req[r].at = "unrelating"
  /\ At(r, "recounting")
  /\ UNCHANGED <<events, library, archived, relations, datasets, members, versions, writer>>

(* Revoked ones too.                                                       *)
RemoveRelations(r) ==
  /\ req[r].at = "unrelating"
  /\ relations' = {x \in relations : {x.pair[1], x.pair[2]} \intersect req[r].batch = {}}
  /\ At(r, "recounting")
  /\ UNCHANGED <<events, library, archived, datasets, members, versions, writer>>

(* Slip: the first version is corrected, the others are forgotten.         *)
RecountFirst(r) ==
  /\ req[r].at = "recounting"
  /\ IF req[r].todo = {}
       THEN End(r)
       ELSE \E d \in req[r].todo :
              Continue(r, [req[r] EXCEPT !.at = "storing", !.visit = d, !.todo = {}, !.found = RowsOf(d)])
  /\ UNCHANGED <<events, library, archived, relations, datasets, members, versions>>

Recount(r) ==
  /\ req[r].at = "recounting"
  /\ IF req[r].todo = {}
       THEN End(r)
       ELSE \E d \in req[r].todo :
              Continue(r, [req[r] EXCEPT !.at = "storing", !.visit = d, !.todo = @ \ {d}, !.found = RowsOf(d)])
  /\ UNCHANGED <<events, library, archived, relations, datasets, members, versions>>

StoreSummary(r) ==
  /\ req[r].at = "storing"
  /\ summary' = IF req[r].visit \in published
                  THEN [summary EXCEPT ![req[r].visit] = req[r].found \intersect Members]
                  ELSE summary
  /\ Continue(r, [req[r] EXCEPT !.at = "recounting", !.visit = NoDataset, !.found = {}])
  /\ UNCHANGED <<events, library, archived, relations, datasets, members, published, rows>>

(* restore_trash: nothing but the assets comes back.                       *)
RestoreTrash(r) ==
  /\ "delete" \in events
  /\ req[r].at = "idle"
  /\ "together" \in events \/ Quiet
  /\ \E S \in AtMost(BatchSize, archived) : S # {} /\ archived' = archived \ S
  /\ End(r)
  /\ UNCHANGED <<events, library, relations, datasets, members, versions>>

StartDrop(r) ==
  /\ "drop" \in events
  /\ Start(r)
  /\ \E d \in Datasets :
       /\ Lease(r, d)
       /\ Set(r, [NewRequest EXCEPT !.at = "dropping", !.kind = "drop", !.dataset = d])

DropRelations(r) ==
  /\ req[r].at = "dropping"
  /\ relations' = {x \in relations : x.pair[2] # req[r].dataset}
  /\ At(r, "emptying")
  /\ UNCHANGED <<events, library, archived, datasets, members, versions, writer>>

DropRows(r) ==
  /\ req[r].at = "emptying"
  /\ rows' = {m \in rows : m[1] # req[r].dataset}
  /\ At(r, "unpublishing")
  /\ UNCHANGED <<events, library, archived, relations, datasets, members, published, summary, writer>>

DropVersions(r) ==
  /\ req[r].at = "unpublishing"
  /\ published' = published \ {req[r].dataset}
  /\ At(r, "clearing")
  /\ UNCHANGED <<events, library, archived, relations, datasets, members, rows, summary, writer>>

DropMembers(r) ==
  /\ req[r].at = "clearing"
  /\ members' = {m \in members : m[1] # req[r].dataset}
  /\ At(r, "closing")
  /\ UNCHANGED <<events, library, archived, relations, datasets, versions, writer>>

(* The dataset itself stays, marked as deleted.                            *)
CloseDataset(r) ==
  /\ req[r].at = "closing"
  /\ datasets' = [datasets EXCEPT ![req[r].dataset] = "deleted"]
  /\ End(r)
  /\ UNCHANGED <<events, library, archived, relations, members, versions>>

-----------------------------------------------------------------------------
(* The compensation is given up.                                           *)
UndoRaises(r) ==
  /\ "twice" \in events
  /\ req[r].undone
  /\ End(r)
  /\ UNCHANGED <<events, library, archived, relations, datasets, members, versions>>

(* The lease of a request that died runs out.                              *)
Crash(r) ==
  /\ "crash" \in events
  /\ Busy(r)
  /\ End(r)
  /\ UNCHANGED <<events, library, archived, relations, datasets, members, versions>>

Synchronise(r) ==
  ListImageDatasets(r) \/ CompareMembers(r) \/ Include(r) \/ Exclude(r) \/ Synchronised(r)

Relate(r) ==
  \/ StartCreate(r) \/ Check(r) \/ Insert(r)
  \/ StartRevoke(r) \/ Revoke(r)
  \/ StartMatch(r) \/ NextPair(r)
  \/ StartLink(r) \/ StartUnlink(r)

ChangeMembers(r) ==
  \/ StartAdd(r) \/ AddMember(r) \/ Added(r)
  \/ StartRemove(r) \/ RemoveMembers(r)
  \/ StartCopy(r) \/ CreateCopy(r) \/ CollectMembers(r) \/ FillCopy(r)

Delete(r) ==
  \/ StartDelete(r) \/ Confirm(r) \/ ArchiveAssets(r)
  \/ RemoveFromDatasets(r) \/ RemoveFromVersions(r) \/ RemoveRelations(r)
  \/ Recount(r) \/ StoreSummary(r)
  \/ RestoreTrash(r)
  \/ StartDrop(r) \/ DropRelations(r) \/ DropRows(r) \/ DropVersions(r) \/ DropMembers(r)
  \/ CloseDataset(r)

Fail(r) ==
  SyncRaises(r) \/ Undo(r) \/ AbandonCopy(r) \/ RemoveCopy(r) \/ UndoRaises(r) \/ Crash(r)

Next == \E r \in Requests : Synchronise(r) \/ Relate(r) \/ ChangeMembers(r) \/ Delete(r) \/ Fail(r)

Spec == Init /\ [][Next]_vars

-----------------------------------------------------------------------------
(* Properties.                                                             *)

Alone(kinds) == "together" \in events => events \intersect kinds = {}

(* "图片的有效标注由当前数据集自动维护": a dataset has the annotations its    *)
(* images bring with them, whatever was created, revoked, added, removed   *)
(* or copied, and wherever a synchronisation failed and was taken back.    *)
(* Requests that synchronise the same dataset must not overlap; deleting   *)
(* an image leaves its annotations in the dataset.                         *)
AnnotationsFollow ==
  (/\ Quiet
   /\ events \intersect {"delete", "twice", "crash"} = {}
   /\ Alone({"relate", "match", "copy"})) => \A d \in Datasets : datasets[d] = "active" => Follows(d)

(* The same without a condition, for every request that is over.           *)
DatasetsFollow == Quiet => \A d \in Datasets : datasets[d] = "active" => Follows(d)

(* "重复有效关系保持幂等，不创建第二条相同有效记录": no pair has two active     *)
(* relations, whatever requests overlap or fail.                           *)
OneActiveEach ==
  \A p \in Pairs : Cardinality({x \in RowsFor(p) : x.status = "active"}) <= 1

(* A pair has one active relation at most, and the preview promises what   *)
(* creation then does.  A failed revocation that makes its old row active  *)
(* again, or the deletion of an asset or a dataset, with which the         *)
(* revisions are forgotten, breaks it for requests that overlap.           *)
PairsAreSingle ==
  Alone({"error", "delete", "drop"}) =>
     \A p \in Pairs :
       /\ Cardinality({x \in RowsFor(p) : x.status = "active"}) <= 1
       /\ PreviewReady(p) <=> Creatable(p)

(* Matching by name gives no image a second annotation.                    *)
MatchedOnce ==
  ("match" \in events /\ Alone({"match"}) /\ "relate" \notin events) =>
     \A i \in Images, a, b \in Annotations : Related(a, i) /\ Related(b, i) => a = b

RelationsAreSingle == PairsAreSingle /\ MatchedOnce

(* A deleted asset has no link left, nor has a deleted dataset.            *)
DeletedIsUnlinked ==
  Quiet => /\ ~Linked(archived)
           /\ \A d \in Datasets : datasets[d] # "active" =>
                /\ MembersOf(d) = {} /\ RowsOf(d) = {} /\ d \notin published
                /\ \A x \in relations : x.pair[2] # d

(* Links are removed with the user's consent only.                         *)
UnconfirmedIsUnlinked ==
  \A r \in Requests :
    req[r].kind = "delete" /\ ~req[r].confirmed /\ req[r].at \in {"archiving", "unlisting"} =>
      ~Linked(req[r].batch)

DeletionsUnlink ==
  ("crash" \notin events /\ Alone({"relate", "match", "members", "copy", "link"})) =>
     DeletedIsUnlinked /\ UnconfirmedIsUnlinked

(* Number, size and digest of a version are those of its members, unless   *)
(* two deletions correct them at the same time.                            *)
VersionsAreCounted ==
  (Quiet /\ "crash" \notin events /\ Alone({"deletions"})) =>
     \A d \in published : summary[d] = RowsOf(d)

(* The same for deletions that overlap: the digest of a version is         *)
(* computed anew when an asset of it is deleted.                           *)
SummariesAreCurrent == Quiet => \A d \in published : summary[d] = RowsOf(d)
=============================================================================
