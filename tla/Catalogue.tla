----------------------------- MODULE Catalogue -----------------------------
(***************************************************************************)
(* What assets refer to by name: metrics and their categories, tags, and   *)
(* file formats.  None of these references is kept by the database: each   *)
(* request looks for users of a definition, or for the definition it uses, *)
(* and writes in a later call.  Every write, and every read whose answer   *)
(* can be stale when it is used, is a step.                                *)
(*                                                                         *)
(* Definitions that came with the system cannot be renamed or deleted and  *)
(* are left out, as are deleted assets.                                    *)
(***************************************************************************)
EXTENDS Naturals, FiniteSets

CONSTANTS
  Categories, Names,    \* metric_categories by id, and their names
  Metrics,              \* metric_definitions by id; each is created once
  Models, Assets,
  Tags, Values,         \* tag_definitions by key, and the values they can have on an asset
  Types, Extensions,    \* format_definitions
  Exempt,               \* types that share extensions: archive and image_annotation
  Requests,             \* a bound: each request is one call of the API
  Nothing,
  CatalogueEnvironments \* which events can occur together, see CatalogueEvents

CatalogueEvents == {
  "metrics",   \* categories and metrics are written, and the values of models
  "tags",      \* tags are defined and put on assets
  "formats",   \* formats are defined and files uploaded
  "together",  \* requests overlap
  "crash" }    \* the API process ends

ASSUME NothingAssumption ==
  Nothing \notin Categories \union Names \union Metrics \union Models \union Assets \union Tags
                   \union Types \union Requests
ASSUME ExemptAssumption == Exempt \subseteq Types
ASSUME CatalogueEnvironmentsAssumption == CatalogueEnvironments \subseteq SUBSET CatalogueEvents

VARIABLES
  occurring,   \* what the environment may do in this behaviour
  category,    \* the name of each category that is there
  metric,      \* the category, by name, of each metric that is there
  deleted,     \* metrics that are no longer there
  values,      \* metric_values: the metrics a model has a value for
  defined,     \* tags that are defined
  tags,        \* the tags of an asset with their values
  formats,     \* the rows of format_definitions
  files,       \* the types and extensions assets have
  req          \* the requests

metrics == <<category, metric, deleted, values>>
labels == <<defined, tags>>
types == <<formats, files>>
catalogue == <<occurring, metrics, labels, types, req>>

Format == [type : Types, extensions : SUBSET Extensions, id : Requests \union {Nothing}]

Steps == {"idle", "counting", "dropping", "renaming", "moving", "ensuring", "defining", "removing",
          "clearing", "looking", "saving", "searching", "untagging", "reading", "tagging",
          "comparing", "adding", "checking", "changing", "using", "withdrawing", "uploading", "done"}

Request == [
  at : Steps,
  category : Categories \union {Nothing},
  old : Names \union {Nothing},              \* the name of the category as it was read
  name : Names \union {Nothing},             \* the name that was asked for
  metric : Metrics \union {Nothing},
  model : Models \union {Nothing},
  values : SUBSET Metrics,                   \* the metrics to have a value
  asset : Assets \union {Nothing},
  tag : Tags \union {Nothing},
  put : SUBSET (Tags \X Values),             \* set_tags
  drop : SUBSET (Tags \X Values),            \* remove_tag_values
  tags : SUBSET (Tags \X Values),            \* the tags to write
  type : Types \union {Nothing},
  extensions : SUBSET Extensions ]

NewRequest == [
  at |-> "idle", category |-> Nothing, old |-> Nothing, name |-> Nothing, metric |-> Nothing,
  model |-> Nothing, values |-> {}, asset |-> Nothing, tag |-> Nothing, put |-> {}, drop |-> {},
  tags |-> {}, type |-> Nothing, extensions |-> {}]

CatalogueTypeOK ==
  /\ occurring \in CatalogueEnvironments
  /\ category \in [Categories -> Names \union {Nothing}]
  /\ metric \in [Metrics -> Names \union {Nothing}]
  /\ deleted \subseteq Metrics
  /\ values \in [Models -> SUBSET Metrics]
  /\ defined \subseteq Tags
  /\ tags \in [Assets -> SUBSET (Tags \X Values)]
  /\ formats \subseteq Format
  /\ files \subseteq Types \X Extensions
  /\ req \in [Requests -> Request]

(* What the requests of an earlier time have left, all of them orderly.    *)
CatalogueInit ==
  /\ occurring \in CatalogueEnvironments
  /\ IF "metrics" \in occurring
       THEN /\ category \in [Categories -> Names \union {Nothing}]
            /\ \A c, d \in Categories : category[c] = category[d] => c = d \/ category[c] = Nothing
            /\ metric \in [Metrics -> {category[c] : c \in Categories} \union {Nothing}]
            /\ values \in [Models -> SUBSET {m \in Metrics : metric[m] # Nothing}]
       ELSE /\ category = [c \in Categories |-> Nothing]
            /\ metric = [m \in Metrics |-> Nothing]
            /\ values = [m \in Models |-> {}]
  /\ deleted = {}
  /\ IF "tags" \in occurring
       THEN defined \in SUBSET Tags /\ tags \in [Assets -> SUBSET (defined \X Values)]
       ELSE defined = {} /\ tags = [a \in Assets |-> {}]
  /\ formats = {}
  /\ files = {}
  /\ req = [r \in Requests |-> NewRequest]

-----------------------------------------------------------------------------
Busy(r) == req[r].at \notin {"idle", "done"}
AllIdle == \A r \in Requests : ~Busy(r)

Set(r, q) == req' = [req EXCEPT ![r] = q]
At(r, s) == Set(r, [req[r] EXCEPT !.at = s])
End(r) == Set(r, [NewRequest EXCEPT !.at = "done"])

Idle(r, event) ==
  /\ event \in occurring
  /\ req[r].at = "idle"
  /\ "together" \in occurring \/ AllIdle

Start(r, event) == Idle(r, event) /\ UNCHANGED <<occurring, metrics, labels, types>>

(* A check that lets the request go on to its next step, or ends it.       *)
Checked(r, ok, s) ==
  /\ IF ok THEN At(r, s) ELSE End(r)
  /\ UNCHANGED <<occurring, metrics, labels, types>>

Crash(r) ==
  /\ "crash" \in occurring
  /\ Busy(r)
  /\ End(r)
  /\ UNCHANGED <<occurring, metrics, labels, types>>

-----------------------------------------------------------------------------
(* Categories.  Names are unique, by an index.                             *)

NameTaken(n) == \E c \in Categories : category[c] = n

CreateCategory(r) ==
  /\ Idle(r, "metrics")
  /\ \E c \in Categories, n \in Names :
       /\ category[c] = Nothing
       /\ category' = [category EXCEPT ![c] = IF NameTaken(n) THEN Nothing ELSE n]
  /\ End(r)
  /\ UNCHANGED <<occurring, metric, deleted, values, labels, types>>

StartDeleteCategory(r) ==
  /\ Start(r, "metrics")
  /\ \E c \in Categories :
       /\ category[c] # Nothing
       /\ Set(r, [NewRequest EXCEPT !.at = "counting", !.category = c, !.old = category[c]])

CountMetrics(r) ==
  /\ req[r].at = "counting"
  /\ Checked(r, \A m \in Metrics : metric[m] # req[r].old, "dropping")

DropCategory(r) ==
  /\ req[r].at = "dropping"
  /\ category' = [category EXCEPT ![req[r].category] = Nothing]
  /\ End(r)
  /\ UNCHANGED <<occurring, metric, deleted, values, labels, types>>

StartRename(r) ==
  /\ Start(r, "metrics")
  /\ \E c \in Categories, n \in Names :
       /\ category[c] \notin {Nothing, n}
       /\ Set(r, [NewRequest EXCEPT !.at = "renaming", !.category = c, !.old = category[c], !.name = n])

RenameCategory(r) ==
  /\ req[r].at = "renaming"
  /\ LET c == req[r].category
         n == req[r].name
     IN  IF category[c] = Nothing \/ \E d \in Categories \ {c} : category[d] = n
           THEN End(r) /\ UNCHANGED category
           ELSE At(r, "moving") /\ category' = [category EXCEPT ![c] = n]
  /\ UNCHANGED <<occurring, metric, deleted, values, labels, types>>

(* Slip: metrics get the id of the category.                               *)
MoveToId(r) ==
  /\ req[r].at = "moving"
  /\ metric' = [m \in Metrics |-> IF metric[m] = req[r].old THEN req[r].category ELSE metric[m]]
  /\ End(r)
  /\ UNCHANGED <<occurring, category, deleted, values, labels, types>>

MoveMetrics(r) ==
  /\ req[r].at = "moving"
  /\ metric' = [m \in Metrics |-> IF metric[m] = req[r].old THEN req[r].name ELSE metric[m]]
  /\ End(r)
  /\ UNCHANGED <<occurring, category, deleted, values, labels, types>>

-----------------------------------------------------------------------------
(* Metrics.                                                                *)

Fresh(m) == metric[m] = Nothing /\ m \notin deleted /\ \A r \in Requests : req[r].metric # m

(* create_metric and update_metric                                         *)
StartMetric(r) ==
  /\ Start(r, "metrics")
  /\ \E m \in Metrics, n \in Names :
       /\ Fresh(m) \/ metric[m] # Nothing
       /\ Set(r, [NewRequest EXCEPT !.at = "ensuring", !.metric = m, !.name = n])

(* ensure_category_exists                                                  *)
EnsureCategory(r) == req[r].at = "ensuring" /\ Checked(r, NameTaken(req[r].name), "defining")

DefineMetric(r) ==
  /\ req[r].at = "defining"
  /\ LET m == req[r].metric IN
       metric' = [metric EXCEPT ![m] = IF m \in deleted THEN Nothing ELSE req[r].name]
  /\ End(r)
  /\ UNCHANGED <<occurring, category, deleted, values, labels, types>>

StartDeleteMetric(r) ==
  /\ Start(r, "metrics")
  /\ \E m \in Metrics :
       metric[m] # Nothing /\ Set(r, [NewRequest EXCEPT !.at = "removing", !.metric = m])

RemoveMetric(r) ==
  /\ req[r].at = "removing"
  /\ metric' = [metric EXCEPT ![req[r].metric] = Nothing]
  /\ deleted' = deleted \union {req[r].metric}
  /\ At(r, "clearing")
  /\ UNCHANGED <<occurring, category, values, labels, types>>

(* Slip: the values stay.                                                  *)
ClearNothing(r) == req[r].at = "clearing" /\ Checked(r, FALSE, "done")

ClearValues(r) ==
  /\ req[r].at = "clearing"
  /\ values' = [x \in Models |-> values[x] \ {req[r].metric}]
  /\ End(r)
  /\ UNCHANGED <<occurring, category, metric, deleted, labels, types>>

(* update_model_parameters, with any metrics, also those deleted since the *)
(* form was opened.                                                        *)
StartSave(r) ==
  /\ Start(r, "metrics")
  /\ \E x \in Models, S \in SUBSET {m \in Metrics : metric[m] # Nothing \/ m \in deleted} :
       Set(r, [NewRequest EXCEPT !.at = "looking", !.model = x, !.values = S])

LookUpMetrics(r) ==
  /\ req[r].at = "looking"
  /\ Checked(r, \A m \in req[r].values : metric[m] # Nothing, "saving")

SaveValues(r) ==
  /\ req[r].at = "saving"
  /\ values' = [values EXCEPT ![req[r].model] = req[r].values]
  /\ End(r)
  /\ UNCHANGED <<occurring, category, metric, deleted, labels, types>>

-----------------------------------------------------------------------------
(* Tags.                                                                   *)

(* The key is unique, by an index, too.                                    *)
CreateTag(r) ==
  /\ Idle(r, "tags")
  /\ \E t \in Tags : defined' = defined \union {t}
  /\ End(r)
  /\ UNCHANGED <<occurring, metrics, tags, types>>

StartDeleteTag(r) ==
  /\ Start(r, "tags")
  /\ \E t \in defined : Set(r, [NewRequest EXCEPT !.at = "searching", !.tag = t])

SearchTag(r) ==
  /\ req[r].at = "searching"
  /\ Checked(r, \A a \in Assets : \A v \in Values : <<req[r].tag, v>> \notin tags[a], "untagging")

DropTag(r) ==
  /\ req[r].at = "untagging"
  /\ defined' = defined \ {req[r].tag}
  /\ End(r)
  /\ UNCHANGED <<occurring, metrics, tags, types>>

(* batch_tags, of one asset, with the tags its form offers.  Nothing looks *)
(* whether they are still defined.  Removing a key removes all its values. *)
StartTagging(r) ==
  /\ Start(r, "tags")
  /\ \E a \in Assets, put \in SUBSET (defined \X Values), drop \in SUBSET (Tags \X Values) :
       Set(r, [NewRequest EXCEPT !.at = "reading", !.asset = a, !.put = put, !.drop = drop])

(* updated_asset_tags                                                      *)
ReadTags(r) ==
  /\ req[r].at = "reading"
  /\ Set(r, [req[r] EXCEPT !.at = "tagging", !.tags = (tags[req[r].asset] \union req[r].put) \ req[r].drop])
  /\ UNCHANGED <<occurring, metrics, labels, types>>

WriteTags(r) ==
  /\ req[r].at = "tagging"
  /\ tags' = [tags EXCEPT ![req[r].asset] = req[r].tags]
  /\ End(r)
  /\ UNCHANGED <<occurring, metrics, defined, types>>

-----------------------------------------------------------------------------
(* Formats.  No index keeps the rows of a type apart.                      *)

RowsOf(t) == {f \in formats : f.type = t}

StartCreateFormat(r) ==
  /\ Start(r, "formats")
  /\ \E t \in Types, S \in SUBSET Extensions :
       Set(r, [NewRequest EXCEPT !.at = "comparing", !.type = t, !.extensions = S])

(* The rows of other types that have an extension already.                 *)
Conflict(t, S) == {f \in formats : f.type # t /\ f.extensions \intersect S # {}}

CompareFormats(r) ==
  /\ req[r].at = "comparing"
  /\ LET t == req[r].type IN
       Checked(r, /\ RowsOf(t) = {}
                  /\ t \in Exempt \/ \A f \in Conflict(t, req[r].extensions) : f.type \in Exempt, "adding")

AddFormat(r) ==
  /\ req[r].at = "adding"
  /\ formats' = formats \union {[type |-> req[r].type, extensions |-> req[r].extensions, id |-> r]}
  /\ End(r)
  /\ UNCHANGED <<occurring, metrics, labels, files>>

StartUpdateFormat(r) ==
  /\ Start(r, "formats")
  /\ \E t \in Types, S \in SUBSET Extensions :
       Set(r, [NewRequest EXCEPT !.at = "checking", !.type = t, !.extensions = S])

(* Here the types that share extensions count, too.  What is removed must  *)
(* not be in use (ensure_extensions_removable).                            *)
CheckFormat(r) ==
  /\ req[r].at = "checking"
  /\ LET t == req[r].type
         S == req[r].extensions
     IN  \/ RowsOf(t) = {} /\ Checked(r, FALSE, "changing")
         \/ \E f \in RowsOf(t) :
              Checked(r, /\ t \in Exempt \/ Conflict(t, S) = {}
                         /\ \A e \in f.extensions \ S : <<t, e>> \notin files, "changing")

ChangeFormat(r) ==
  /\ req[r].at = "changing"
  /\ LET rows == RowsOf(req[r].type) IN
       \/ rows = {} /\ UNCHANGED formats
       \/ \E f \in rows :
            formats' = (formats \ {f}) \union {[f EXCEPT !.extensions = req[r].extensions]}
  /\ End(r)
  /\ UNCHANGED <<occurring, metrics, labels, files>>

StartDeleteFormat(r) ==
  /\ Start(r, "formats")
  /\ \E t \in Types : Set(r, [NewRequest EXCEPT !.at = "using", !.type = t])

SearchFiles(r) ==
  /\ req[r].at = "using"
  /\ Checked(r, \A e \in Extensions : <<req[r].type, e>> \notin files, "withdrawing")

WithdrawFormat(r) ==
  /\ req[r].at = "withdrawing"
  /\ LET rows == RowsOf(req[r].type) IN
       \/ rows = {} /\ UNCHANGED formats
       \/ \E f \in rows : formats' = formats \ {f}
  /\ End(r)
  /\ UNCHANGED <<occurring, metrics, labels, files>>

(* The form of an upload offers the formats; the upload does not look.     *)
StartUpload(r) ==
  /\ Start(r, "formats")
  /\ \E f \in formats, e \in Extensions :
       /\ e \in f.extensions
       /\ Set(r, [NewRequest EXCEPT !.at = "uploading", !.type = f.type, !.extensions = {e}])

UploadFile(r) ==
  /\ req[r].at = "uploading"
  /\ files' = files \union ({req[r].type} \X req[r].extensions)
  /\ End(r)
  /\ UNCHANGED <<occurring, metrics, labels, formats>>

-----------------------------------------------------------------------------
MetricStep(r) ==
  \/ CreateCategory(r) \/ StartDeleteCategory(r) \/ CountMetrics(r) \/ DropCategory(r)
  \/ StartRename(r) \/ RenameCategory(r) \/ MoveMetrics(r)
  \/ StartMetric(r) \/ EnsureCategory(r) \/ DefineMetric(r)
  \/ StartDeleteMetric(r) \/ RemoveMetric(r) \/ ClearValues(r)
  \/ StartSave(r) \/ LookUpMetrics(r) \/ SaveValues(r)

TagStep(r) ==
  \/ CreateTag(r) \/ StartDeleteTag(r) \/ SearchTag(r) \/ DropTag(r)
  \/ StartTagging(r) \/ ReadTags(r) \/ WriteTags(r)

FormatStep(r) ==
  \/ StartCreateFormat(r) \/ CompareFormats(r) \/ AddFormat(r)
  \/ StartUpdateFormat(r) \/ CheckFormat(r) \/ ChangeFormat(r)
  \/ StartDeleteFormat(r) \/ SearchFiles(r) \/ WithdrawFormat(r)
  \/ StartUpload(r) \/ UploadFile(r)

CatalogueNext == \E r \in Requests : MetricStep(r) \/ TagStep(r) \/ FormatStep(r) \/ Crash(r)

CatalogueSpec == CatalogueInit /\ [][CatalogueNext]_catalogue

-----------------------------------------------------------------------------
(* Requests come one after the other.                                      *)
Orderly == AllIdle /\ "together" \notin occurring

MetricsHaveCategories == \A m \in Metrics : metric[m] # Nothing => NameTaken(metric[m])
ValuesHaveMetrics == \A x \in Models : \A m \in values[x] : metric[m] # Nothing
TagsAreDefined == \A a \in Assets : \A p \in tags[a] : p[1] \in defined
FilesHaveFormats == \A p \in files : \E f \in RowsOf(p[1]) : p[2] \in f.extensions
FormatsAreSingle ==
  \A f, g \in formats :
    /\ f.type = g.type => f = g
    /\ f # g /\ f.extensions \intersect g.extensions # {} => {f.type, g.type} \intersect Exempt # {}

(* Whatever is named is defined, and an extension leads to one type.  A    *)
(* rename and the deletion of a metric are two writes: if the process ends *)
(* between them, metrics lose their category, or values their metric.      *)
ReferencesAreDefined ==
  Orderly =>
    /\ "crash" \notin occurring => MetricsHaveCategories /\ ValuesHaveMetrics
    /\ TagsAreDefined
    /\ FilesHaveFormats
    /\ FormatsAreSingle

(* A tag that assets use is not deleted, also when requests overlap.       *)
UsedTagsStay == AllIdle => TagsAreDefined

(* A category that has metrics is not deleted, also when requests overlap. *)
UsedCategoriesStay == AllIdle => MetricsHaveCategories

(* With a metric its values go from the models, also from those saved      *)
(* while it is deleted.                                                    *)
DeletedMetricsHaveNoValues == AllIdle => ValuesHaveMetrics
=============================================================================
