--------------------------- MODULE RelationsProofs ---------------------------
(***************************************************************************)
(* Theorems about Relations, for any library and any number of requests.   *)
(*                                                                         *)
(* Five invariants carry the properties.  BaseInv: what a request          *)
(* remembers fits its step and its kind, and requests that do not overlap  *)
(* are busy one at a time.  CountInv: a version that is not counted is on  *)
(* the list of a deletion.  RowsInv: revisions of a pair differ and the    *)
(* active one is the latest.  UnlinkInv: a deleted asset has a link only   *)
(* while its deletion is about to remove it.  FollowInv: a dataset that    *)
(* does not follow its images belongs to a request that will visit it.     *)
(***************************************************************************)
EXTENDS Relations, FiniteSetTheorems, WellFoundedInduction, TLAPS

-----------------------------------------------------------------------------
(* Types: the steps of a request, and what it remembers at each.           *)

Synced == {"listing", "comparing", "including", "excluding", "undoing"}

(* The steps of each kind of request.                                      *)
StepsOf == [
  none |-> {"idle", "done"},
  create |-> {"checking", "inserting"} \union Synced,
  revoke |-> {"revoking"} \union Synced,
  match |-> {"matching", "checking", "inserting"} \union Synced,
  link |-> {"checking", "inserting"},
  unlink |-> {"revoking"},
  add |-> {"adding"} \union (Synced \ {"listing"}),
  remove |-> {"removing"} \union (Synced \ {"listing"}),
  copy |-> {"creating", "collecting", "filling", "abandoning"} \union (Synced \ {"listing"}),
  delete |-> {"confirming", "archiving", "unlisting", "unversioning", "unrelating", "recounting", "storing"},
  drop |-> {"dropping", "emptying", "unpublishing", "clearing", "closing"} ]

Relating == {"create", "revoke", "match", "link", "unlink"}

(* What a request remembers fits the step it is at.                        *)
Placed(q) ==
  /\ q.at \in StepsOf[q.kind]
  /\ q.kind \in Relating => q.pair \in Pairs \/ (q.at = "matching" /\ q.pair = NoPair)
  /\ q.kind \notin Relating => q.pair = NoPair
  /\ q.kind = "match" /\ q.at # "matching" => q.pair \in Annotations \X Images
  /\ q.kind \in {"link", "unlink"} => q.pair \in Models \X Datasets
  /\ q.at \in Synced /\ q.pair # NoPair => q.pair \in Annotations \X Images
  /\ q.at = "inserting" => q.revision \in 1 .. Revisions
  /\ q.kind \in {"add", "remove", "copy", "drop"} => q.dataset \in Datasets
  /\ q.kind = "copy" /\ q.at # "creating" => q.copy \in Datasets
  /\ q.at \in {"including", "excluding", "storing"} => q.visit \in Datasets
  /\ q.kind \in {"add", "remove"} => q.batch \subseteq Images /\ q.changed \subseteq Images
  /\ q.kind # "match" => q.ready = {}
  /\ q.undone => q.at \in Synced \union {"abandoning"}

(* ... and only requests of the kinds there can be are made.               *)
EventOf == [none |-> {}, create |-> {"relate"}, revoke |-> {"relate"}, match |-> {"match"}, link |-> {"link"},
            unlink |-> {"link"}, add |-> {"members"}, remove |-> {"members"}, copy |-> {"copy"},
            delete |-> {"delete"}, drop |-> {"drop"}]

Expected(q) ==
  /\ EventOf[q.kind] \subseteq events
  /\ q.undone \/ q.at \in {"undoing", "abandoning"} => "error" \in events
  /\ q.at \in {"undoing", "abandoning"} => q.undone

TypeInv == TypeOK /\ \A r \in Requests : Placed(req[r]) /\ Expected(req[r])

(* An annotation with an image, or a model with a dataset, is a pair.      *)
LEMMA PairShapes ==
  /\ \A p \in Pairs : /\ p[2] \in Images => p \in Annotations \X Images
                      /\ p[2] \in Datasets => p \in Models \X Datasets
                      /\ p[1] \in Annotations => p \in Annotations \X Images
                      /\ p[1] \in Models => p \in Models \X Datasets
                      /\ p # NoPair
  /\ Images \subseteq Members /\ Annotations \subseteq Members /\ Members \subseteq Assets
  /\ (Annotations \X Images) \subseteq Pairs /\ (Models \X Datasets) \subseteq Pairs
BY TypesAssumption, NoPairAssumption DEF Pairs, Assets, Members

(* A request that has not begun is a record of the type.                   *)
LEMMA NewIsRequest == NewRequest \in Request
BY BoundsAssumption DEF NewRequest, Request, Steps, Kinds

(* A request that is over, or has not begun, remembers nothing.            *)
LEMMA OverIsPlaced ==
  LET q == [NewRequest EXCEPT !.at = "done"] IN q \in Request /\ Placed(q) /\ Expected(q)
<1> DEFINE q == [NewRequest EXCEPT !.at = "done"]
<1>1. q \in Request
  <2>1. "done" \in Steps
    BY DEF Steps
  <2> QED
    BY NewIsRequest, <2>1 DEF Request
<1>2. q.at = "done" /\ q.kind = "none" /\ q.pair = NoPair /\ q.ready = {} /\ q.undone = FALSE
  BY DEF NewRequest
<1>3. StepsOf[q.kind] = {"idle", "done"} /\ EventOf[q.kind] = {}
  BY <1>2 DEF StepsOf, EventOf
<1> HIDE DEF q
<1>4. Placed(q) /\ Expected(q)
  BY <1>2, <1>3 DEF Placed, Expected, Relating, Synced
<1> QED
  BY <1>1, <1>4 DEF q

(* The library may start with any members, relations and versions.         *)
LEMMA InitTypeInv == Init => TypeInv
<1> SUFFICES ASSUME Init PROVE TypeInv
  OBVIOUS
<1>1. NewRequest \in Request /\ Placed(NewRequest) /\ Expected(NewRequest)
  <2>1. /\ NewRequest.at = "idle" /\ NewRequest.kind = "none" /\ NewRequest.pair = NoPair
        /\ NewRequest.ready = {} /\ NewRequest.undone = FALSE
    BY DEF NewRequest
  <2>2. StepsOf[NewRequest.kind] = {"idle", "done"} /\ EventOf[NewRequest.kind] = {}
    BY <2>1 DEF StepsOf, EventOf
  <2> QED
    BY <2>1, <2>2, NewIsRequest DEF Placed, Expected, Relating, Synced
<1>2. req \in [Requests -> Request] /\ \A r \in Requests : Placed(req[r]) /\ Expected(req[r])
  BY <1>1 DEF Init
<1>3. stem \in [Images -> Stems] /\ claims \in [Annotations -> SUBSET Stems]
  <2>1. CASE "match" \in events
    BY <2>1 DEF Init
  <2>2. CASE "match" \notin events
    BY <2>2 DEF Init
  <2> QED
    BY <2>1, <2>2
<1>4. PICK pairs \in AtMost(Links, {p \in Pairs : p[2] \in Images \union published}) :
        /\ relations = [pair : pairs, revision : {1}, id : {Nobody}, status : {"active"}]
        /\ \E S \in AtMost(Links, {d \in Datasets : datasets[d] = "active"} \X Images) :
             members = S \union {m \in Datasets \X Annotations :
                                   \E i \in Images : <<m[1], i>> \in S /\ <<m[2], i>> \in pairs}
  BY DEF Init
<1>5. relations \subseteq Row /\ members \subseteq Datasets \X Members
  <2>1. 1 \in 1 .. Revisions
    BY BoundsAssumption
  <2>2. pairs \subseteq Pairs
    BY DEF AtMost
  <2>3. relations \subseteq Row
    BY <1>4, <2>1, <2>2 DEF Row
  <2>4. PICK S \in AtMost(Links, {d \in Datasets : datasets[d] = "active"} \X Images) :
             members = S \union {m \in Datasets \X Annotations :
                                   \E i \in Images : <<m[1], i>> \in S /\ <<m[2], i>> \in pairs}
    BY <1>4
  <2>5. S \subseteq Datasets \X Images
    BY DEF AtMost
  <2> QED
    BY <2>3, <2>4, <2>5, PairShapes
<1>6. /\ datasets \in [Datasets -> {"none", "active", "deleted"}]
      /\ published \subseteq Datasets /\ rows \subseteq members /\ archived = {}
      /\ writer \in [Datasets -> Requests \union {Nobody}]
      /\ summary \in [Datasets -> SUBSET Members]
  BY DEF Init, RowsOf
<1>7. rows \subseteq Datasets \X Members
  BY <1>5, <1>6
<1>8. TypeOK
  BY <1>2, <1>3, <1>5, <1>6, <1>7 DEF Init, TypeOK
<1> QED
  BY <1>2, <1>8 DEF TypeInv

(* A step changes one request, which fits its step again.                  *)
LEMMA StepIsPlaced ==
  ASSUME TypeInv, NEW r \in Requests, NEW q \in Request, Placed(q), Expected(q), Set(r, q), events' = events
  PROVE  req' \in [Requests -> Request] /\ (\A s \in Requests : Placed(req[s]) /\ Expected(req[s]))'
<1>1. req' = [req EXCEPT ![r] = q] /\ req \in [Requests -> Request]
  BY DEF Set, TypeInv, TypeOK
<1>2. \A s \in Requests : req'[s] = IF s = r THEN q ELSE req[s]
  BY <1>1
<1>3. \A s \in Requests : Placed(req'[s]) /\ Expected(req'[s])
  BY <1>2 DEF TypeInv
<1>4. \A s \in Requests : (Expected(req[s]))'
  BY <1>3 DEF Expected
<1> QED
  BY <1>1, <1>3, <1>4

(* A step keeps the types when the request it changes fits its new step.   *)
LEMMA TypeStep ==
  ASSUME TypeInv, NEW r \in Requests, NEW q \in Request, Placed(q), Expected(q), Set(r, q),
         UNCHANGED <<events, library>>,
         archived' \subseteq Assets,
         relations' \subseteq Row,
         datasets' \in [Datasets -> {"none", "active", "deleted"}],
         members' \subseteq Datasets \X Members,
         published' \subseteq published,
         rows' \subseteq rows,
         summary' \in [Datasets -> SUBSET Members],
         writer' \in [Datasets -> Requests \union {Nobody}]
  PROVE  TypeInv'
<1>1. req' \in [Requests -> Request] /\ (\A s \in Requests : Placed(req[s]) /\ Expected(req[s]))'
  BY StepIsPlaced
<1>2. TypeOK'
  BY <1>1 DEF TypeInv, TypeOK, library
<1> QED
  BY <1>1, <1>2 DEF TypeInv

(* Steps that only read, or take or give back a lease.                     *)
LEMMA ReadTypes ==
  ASSUME TypeInv, NEW r \in Requests, NEW q \in Request, Placed(q), Expected(q), Set(r, q),
         UNCHANGED <<events, library, archived, relations, datasets, members, versions>>,
         writer' \in [Datasets -> Requests \union {Nobody}]
  PROVE  TypeInv'
BY TypeStep DEF TypeInv, TypeOK, versions

(* A request that ends fits its step again, and gives its lease back.      *)
LEMMA EndTypes ==
  ASSUME TypeInv, NEW r \in Requests, End(r)
  PROVE  \E q \in Request : /\ Placed(q) /\ Expected(q) /\ Set(r, q)
                            /\ writer' \in [Datasets -> Requests \union {Nobody}]
BY OverIsPlaced DEF End, TypeInv, TypeOK

(* The request goes on at another step with what it remembers.             *)
LEMMA MovedIsPlaced ==
  ASSUME NEW x \in Request, Placed(x), Expected(x), NEW q \in Request,
         q.kind = x.kind, q.pair = x.pair, q.dataset = x.dataset, q.copy = x.copy,
         q.batch \subseteq x.batch, q.changed \subseteq x.changed \union Images,
         q.ready = x.ready, q.undone = x.undone,
         q.at \in StepsOf[x.kind],
         x.at \notin {"matching", "creating"},
         q.at \notin {"undoing", "abandoning"},
         q.at = "inserting" => q.revision \in 1 .. Revisions,
         q.at \in {"including", "excluding", "storing"} => q.visit \in Datasets,
         x.undone => q.at \in Synced,
         q.at \in Synced /\ x.pair # NoPair => x.pair \in Annotations \X Images
  PROVE  Placed(q) /\ Expected(q)
<1>1. Placed(q)
  BY DEF Placed
<1>2. Expected(q)
  BY DEF Expected
<1> QED
  BY <1>1, <1>2

(* The types are kept by every step, one group of them after the other.    *)
LEMMA SynchroniseTypes ==
  ASSUME TypeInv, NEW r \in Requests, Synchronise(r)
  PROVE  TypeInv'
<1> DEFINE x == req[r]
<1>1. x \in Request /\ Placed(x) /\ Expected(x) /\ TypeOK
  BY DEF TypeInv, TypeOK
<1>2. \A q : Continue(r, q) => Set(r, q) /\ writer' \in [Datasets -> Requests \union {Nobody}]
  BY <1>1 DEF Continue, TypeOK
<1>3. CASE ListImageDatasets(r)
  <2> DEFINE q == [x EXCEPT !.at = "comparing", !.todo = {d \in Datasets : <<d, x.pair[2]>> \in members}]
  <2>1. q \in Request
    <3>1. "comparing" \in Steps
      BY DEF Steps
    <3> QED
      BY <1>1, <3>1 DEF Request
  <2>2. /\ q.at = "comparing" /\ q.kind = x.kind /\ q.pair = x.pair /\ q.dataset = x.dataset /\ q.copy = x.copy
        /\ q.batch = x.batch /\ q.changed = x.changed /\ q.ready = x.ready /\ q.undone = x.undone
    BY <1>1 DEF Request
  <2>3. x.at = "listing" /\ Continue(r, q)
    BY <1>3 DEF ListImageDatasets
  <2>4. "comparing" \in StepsOf[x.kind]
    BY <1>1, <2>3 DEF Placed, StepsOf, Request, Kinds, Synced
  <2> HIDE DEF q, x
  <2>5. Placed(q) /\ Expected(q)
    BY <1>1, <2>2, <2>3, <2>4 DEF Placed, Expected, Synced
  <2> QED
    BY <1>2, <1>3, <2>1, <2>3, <2>5, ReadTypes DEF ListImageDatasets
<1>4. CASE CompareMembers(r)
  <2>1. PICK d \in x.todo :
               \/ Continue(r, [x EXCEPT !.todo = @ \ {d}])
               \/ Compare(r, d)
    BY <1>4 DEF CompareMembers
  <2>2. x.at = "comparing" /\ d \in Datasets
    BY <1>1, <1>4 DEF CompareMembers, Request
  <2>3. CASE Continue(r, [x EXCEPT !.todo = @ \ {d}])
    <3> DEFINE q == [x EXCEPT !.todo = @ \ {d}]
    <3>1. q \in Request
      BY <1>1 DEF Request
    <3>2. /\ q.at = x.at /\ q.kind = x.kind /\ q.pair = x.pair /\ q.dataset = x.dataset /\ q.copy = x.copy
          /\ q.batch = x.batch /\ q.changed = x.changed /\ q.ready = x.ready /\ q.undone = x.undone
      BY <1>1 DEF Request
    <3> HIDE DEF q, x
    <3>3. Placed(q) /\ Expected(q)
      BY <1>1, <2>2, <3>2 DEF Placed, Expected
    <3> QED
      BY <1>2, <1>4, <2>3, <3>1, <3>3, ReadTypes DEF CompareMembers, q, x
  <2>4. CASE Compare(r, d)
    <3> DEFINE q == [x EXCEPT !.at = "including", !.todo = @ \ {d}, !.visit = d,
                              !.in = Desired(d) \ (MembersOf(d) \intersect Annotations),
                              !.out = (MembersOf(d) \intersect Annotations) \ Desired(d)]
    <3>0. Desired(d) \subseteq Annotations
      BY DEF Desired
    <3>1. q \in Request
      <4>1. "including" \in Steps
        BY DEF Steps
      <4> QED
        BY <1>1, <2>2, <3>0, <4>1 DEF Request
    <3>2. /\ q.at = "including" /\ q.kind = x.kind /\ q.pair = x.pair /\ q.dataset = x.dataset /\ q.copy = x.copy
          /\ q.batch = x.batch /\ q.changed = x.changed /\ q.ready = x.ready /\ q.undone = x.undone
          /\ q.visit = d
      BY <1>1 DEF Request
    <3>3. Continue(r, q)
      BY <2>4 DEF Compare
    <3>4. "including" \in StepsOf[x.kind]
      BY <1>1, <2>2 DEF Placed, StepsOf, Request, Kinds, Synced
    <3> HIDE DEF q, x
    <3>5. Placed(q) /\ Expected(q)
      BY <1>1, <2>2, <3>2, <3>4 DEF Placed, Expected, Synced
    <3> QED
      BY <1>2, <1>4, <3>1, <3>3, <3>5, ReadTypes DEF CompareMembers
  <2> QED
    BY <2>1, <2>3, <2>4
<1>5. CASE Include(r)
  <2> DEFINE q == [x EXCEPT !.at = "excluding", !.in = {}]
  <2>1. q \in Request
    <3>1. "excluding" \in Steps
      BY DEF Steps
    <3> QED
      BY <1>1, <3>1 DEF Request
  <2>2. /\ q.at = "excluding" /\ q.kind = x.kind /\ q.pair = x.pair /\ q.dataset = x.dataset /\ q.copy = x.copy
        /\ q.batch = x.batch /\ q.changed = x.changed /\ q.ready = x.ready /\ q.undone = x.undone
        /\ q.visit = x.visit /\ x.in \subseteq Annotations
    BY <1>1 DEF Request
  <2>3. x.at = "including" /\ Continue(r, q) /\ members' = members \union ({x.visit} \X x.in)
    BY <1>5 DEF Include
  <2>4. "excluding" \in StepsOf[x.kind]
    BY <1>1, <2>3 DEF Placed, StepsOf, Request, Kinds, Synced
  <2> HIDE DEF q, x
  <2>5. Placed(q) /\ Expected(q) /\ x.visit \in Datasets
    BY <1>1, <2>2, <2>3, <2>4 DEF Placed, Expected, Synced
  <2>6. members' \subseteq Datasets \X Members
    BY <1>1, <2>2, <2>3, <2>5, PairShapes DEF TypeOK
  <2> QED
    BY <1>1, <1>2, <1>5, <2>1, <2>3, <2>5, <2>6, TypeStep DEF Include, versions, TypeOK
<1>6. CASE Exclude(r)
  <2> DEFINE q == [x EXCEPT !.at = "comparing", !.visit = NoDataset, !.out = {}]
  <2>1. q \in Request
    <3>1. "comparing" \in Steps
      BY DEF Steps
    <3> QED
      BY <1>1, <3>1 DEF Request
  <2>2. /\ q.at = "comparing" /\ q.kind = x.kind /\ q.pair = x.pair /\ q.dataset = x.dataset /\ q.copy = x.copy
        /\ q.batch = x.batch /\ q.changed = x.changed /\ q.ready = x.ready /\ q.undone = x.undone
    BY <1>1 DEF Request
  <2>3. x.at = "excluding" /\ Continue(r, q) /\ members' \subseteq members
    BY <1>6 DEF Exclude
  <2>4. "comparing" \in StepsOf[x.kind]
    BY <1>1, <2>3 DEF Placed, StepsOf, Request, Kinds, Synced
  <2> HIDE DEF q, x
  <2>5. Placed(q) /\ Expected(q)
    BY <1>1, <2>2, <2>3, <2>4 DEF Placed, Expected, Synced
  <2>6. members' \subseteq Datasets \X Members
    BY <1>1, <2>3 DEF TypeOK
  <2> QED
    BY <1>1, <1>2, <1>6, <2>1, <2>3, <2>5, <2>6, TypeStep DEF Exclude, versions, TypeOK
<1>7. CASE Synchronised(r)
  <2>1. CASE End(r)
    BY <1>7, <2>1, EndTypes, ReadTypes DEF Synchronised
  <2>2. CASE ~End(r)
    <3> DEFINE q == [x EXCEPT !.at = "matching", !.pair = NoPair]
    <3>1. q \in Request
      <4>1. "matching" \in Steps
        BY DEF Steps
      <4> QED
        BY <1>1, <4>1 DEF Request
    <3>2. /\ q.at = "matching" /\ q.kind = x.kind /\ q.pair = NoPair /\ q.dataset = x.dataset /\ q.copy = x.copy
          /\ q.batch = x.batch /\ q.changed = x.changed /\ q.ready = x.ready /\ q.undone = x.undone
      BY <1>1 DEF Request
    <3>3. x.at = "comparing" /\ Continue(r, q) /\ x.ready # {} /\ ~x.undone
      BY <1>7, <2>2 DEF Synchronised
    <3>4. x.kind = "match" /\ "matching" \in StepsOf[x.kind]
      <4>1. x.kind = "match"
        BY <1>1, <3>3 DEF Placed
      <4> QED
        BY <4>1 DEF StepsOf
    <3> HIDE DEF q, x
    <3>5. Placed(q) /\ Expected(q)
      BY <1>1, <3>2, <3>3, <3>4 DEF Placed, Expected, Synced, Relating
    <3> QED
      BY <1>2, <1>7, <3>1, <3>3, <3>5, ReadTypes DEF Synchronised
  <2> QED
    BY <2>1, <2>2
<1> QED
  BY <1>3, <1>4, <1>5, <1>6, <1>7 DEF Synchronise

(* What the requests of every kind start with.                             *)
LEMMA StartedIsPlaced ==
  ASSUME NEW q \in Request, q.undone = FALSE, q.at \notin {"undoing", "abandoning", "inserting", "including", "excluding", "storing"},
         q.at \notin Synced,
         q.at \in StepsOf[q.kind], EventOf[q.kind] \subseteq events,
         q.kind # "match" => q.ready = {},
         \/ q.kind \in Relating /\ q.pair \in Pairs /\ (q.kind \in {"link", "unlink"} => q.pair \in Models \X Datasets)
              /\ q.kind # "match"
         \/ q.kind = "match" /\ q.at = "matching" /\ q.pair = NoPair
         \/ q.kind \notin Relating /\ q.pair = NoPair,
         q.kind \in {"add", "remove", "copy", "drop"} => q.dataset \in Datasets,
         q.kind \in {"add", "remove"} => q.batch \subseteq Images /\ q.changed \subseteq Images,
         q.kind = "copy" => q.at = "creating"
  PROVE  Placed(q) /\ Expected(q)
<1>1. Placed(q)
  BY DEF Placed, Synced, Relating
<1>2. Expected(q)
  BY DEF Expected
<1> QED
  BY <1>1, <1>2

(* ... by the steps on relations,                                          *)
LEMMA RelateTypes ==
  ASSUME TypeInv, NEW r \in Requests, Relate(r)
  PROVE  TypeInv'
<1> DEFINE x == req[r]
<1>1. x \in Request /\ Placed(x) /\ Expected(x) /\ TypeOK
  BY DEF TypeInv, TypeOK
<1>2. \A q : Continue(r, q) => Set(r, q) /\ writer' \in [Datasets -> Requests \union {Nobody}]
  BY <1>1 DEF Continue, TypeOK
<1>3. \A d : Lease(r, d) => writer' \in [Datasets -> Requests \union {Nobody}]
  BY <1>1 DEF Lease, TypeOK
<1>4. ASSUME NEW q \in Request, Placed(q), Expected(q), Set(r, q),
             UNCHANGED <<events, library, archived, relations, datasets, members, versions>>,
             writer' \in [Datasets -> Requests \union {Nobody}]
      PROVE  TypeInv'
  BY <1>4, ReadTypes
<1>5. CASE StartCreate(r)
  <2>1. PICK p \in Pairs : Continue(r, [NewRequest EXCEPT !.at = "checking", !.kind = "create", !.pair = p])
    BY <1>5 DEF StartCreate
  <2> DEFINE q == [NewRequest EXCEPT !.at = "checking", !.kind = "create", !.pair = p]
  <2>2. q \in Request
    <3>1. "checking" \in Steps /\ "create" \in Kinds
      BY DEF Steps, Kinds
    <3> QED
      BY NewIsRequest, <3>1 DEF Request
  <2>3. q.at = "checking" /\ q.kind = "create" /\ q.pair = p /\ q.undone = FALSE /\ q.ready = {}
    BY DEF NewRequest
  <2>4. "checking" \in StepsOf[q.kind] /\ EventOf[q.kind] = {"relate"} /\ "relate" \in events
    BY <1>5, <2>3 DEF StepsOf, EventOf, StartCreate
  <2> HIDE DEF q
  <2>5. Placed(q) /\ Expected(q)
    BY <2>2, <2>3, <2>4, StartedIsPlaced DEF Relating, Synced
  <2> QED
    BY <1>2, <1>4, <1>5, <2>1, <2>2, <2>5 DEF StartCreate, Start, q
<1>6. CASE Check(r)
  <2>1. CASE Refused(r)
    <3>1. CASE End(r)
      BY <1>4, <1>6, <3>1, EndTypes DEF Check
    <3>2. CASE ~End(r)
      <4> DEFINE q == [x EXCEPT !.at = "matching", !.pair = NoPair]
      <4>1. q \in Request
        <5>1. "matching" \in Steps
          BY DEF Steps
        <5> QED
          BY <1>1, <5>1 DEF Request
      <4>2. /\ q.at = "matching" /\ q.kind = x.kind /\ q.pair = NoPair /\ q.dataset = x.dataset /\ q.copy = x.copy
            /\ q.batch = x.batch /\ q.changed = x.changed /\ q.ready = x.ready /\ q.undone = x.undone
        BY <1>1 DEF Request
      <4>3. x.at = "checking" /\ Continue(r, q) /\ x.ready # {}
        BY <1>6, <2>1, <3>2 DEF Check, Refused
      <4>4. x.kind = "match" /\ "matching" \in StepsOf[x.kind] /\ ~x.undone
        <5>1. x.kind = "match"
          BY <1>1, <4>3 DEF Placed
        <5> QED
          BY <1>1, <4>3, <5>1 DEF Placed, StepsOf, Synced, Request
      <4> HIDE DEF q, x
      <4>5. Placed(q) /\ Expected(q)
        BY <1>1, <4>2, <4>3, <4>4 DEF Placed, Expected, Synced, Relating
      <4> QED
        BY <1>2, <1>4, <1>6, <4>1, <4>3, <4>5 DEF Check
    <3> QED
      BY <3>1, <3>2
  <2>2. CASE ~Refused(r)
    <3> DEFINE next == IF Latest(x.pair) = {} THEN 1 ELSE (CHOOSE y \in Latest(x.pair) : TRUE).revision + 1
               q == [x EXCEPT !.at = "inserting", !.revision = next]
    <3>1. next <= Revisions /\ Continue(r, q) /\ x.at = "checking"
      BY <1>6, <2>2 DEF Check
    <3>2. next \in 1 .. Revisions
      <4>1. CASE Latest(x.pair) = {}
        BY <4>1, BoundsAssumption
      <4>2. CASE Latest(x.pair) # {}
        <5>1. PICK y \in Latest(x.pair) : y = CHOOSE z \in Latest(x.pair) : TRUE
          BY <4>2
        <5>2. y.revision \in 1 .. Revisions
          BY <1>1 DEF Latest, RowsFor, TypeOK, Row
        <5>3. next = y.revision + 1
          BY <4>2, <5>1
        <5> QED
          BY <3>1, <5>2, <5>3, BoundsAssumption
      <4> QED
        BY <4>1, <4>2
    <3> HIDE DEF next
    <3>3. q \in Request
      <4>1. next \in 0 .. Revisions
        BY <3>2
      <4> QED
        <5>1. "inserting" \in Steps
          BY DEF Steps
        <5> QED
          BY <1>1, <4>1, <5>1 DEF Request
    <3>4. /\ q.at = "inserting" /\ q.kind = x.kind /\ q.pair = x.pair /\ q.dataset = x.dataset /\ q.copy = x.copy
          /\ q.batch = x.batch /\ q.changed = x.changed /\ q.ready = x.ready /\ q.undone = x.undone
          /\ q.revision = next
      BY <1>1 DEF Request
    <3>5. "inserting" \in StepsOf[x.kind] /\ ~x.undone
      BY <1>1, <3>1 DEF Placed, StepsOf, Request, Kinds, Synced
    <3> HIDE DEF q, x
    <3>6. Placed(q) /\ Expected(q)
      BY <1>1, <3>1, <3>2, <3>3, <3>4, <3>5, MovedIsPlaced DEF Synced
    <3> QED
      BY <1>2, <1>4, <1>6, <3>1, <3>3, <3>6 DEF Check
  <2> QED
    BY <2>1, <2>2
<1>7. CASE Insert(r)
  <2> DEFINE new == [pair |-> x.pair, revision |-> x.revision, id |-> r, status |-> "active"]
             q == [x EXCEPT !.at = "listing"]
  <2>0. x.at = "inserting" /\ x.pair \in Pairs /\ x.revision \in 1 .. Revisions
    BY <1>1, <1>7 DEF Insert, Placed, StepsOf, Request, Kinds, Synced, Relating
  <2>1. relations' \subseteq Row
    <3>1. new \in Row
      BY <2>0 DEF Row
    <3>2. relations' = relations \/ relations' = relations \union {new}
      BY <1>7 DEF Insert
    <3> QED
      BY <1>1, <3>1, <3>2 DEF TypeOK
  <2>2. \E y \in Request : /\ Placed(y) /\ Expected(y) /\ Set(r, y)
                           /\ writer' \in [Datasets -> Requests \union {Nobody}]
    <3>1. CASE End(r)
      BY <3>1, EndTypes
    <3>2. CASE ~End(r)
      <4>1. q \in Request
        <5>1. "listing" \in Steps
          BY DEF Steps
        <5> QED
          BY <1>1, <5>1 DEF Request
      <4>2. /\ q.at = "listing" /\ q.kind = x.kind /\ q.pair = x.pair /\ q.dataset = x.dataset /\ q.copy = x.copy
            /\ q.batch = x.batch /\ q.changed = x.changed /\ q.ready = x.ready /\ q.undone = x.undone
        BY <1>1 DEF Request
      <4>3. Continue(r, q) /\ x.pair[1] \in Annotations
        BY <1>7, <3>2 DEF Insert
      <4>4. x.pair \in Annotations \X Images /\ ~(x.pair \in Models \X Datasets)
        BY <2>0, <4>3, PairShapes, TypesAssumption
      <4>5. "listing" \in StepsOf[x.kind] /\ ~x.undone
        BY <1>1, <2>0, <4>4 DEF Placed, StepsOf, Request, Kinds, Synced
      <4> HIDE DEF q, x
      <4>6. Placed(q) /\ Expected(q)
        BY <1>1, <2>0, <4>1, <4>2, <4>4, <4>5, MovedIsPlaced DEF Synced
      <4> QED
        BY <1>2, <4>1, <4>3, <4>6
    <3> QED
      BY <3>1, <3>2
  <2> QED
    BY <1>1, <1>7, <2>1, <2>2, TypeStep DEF Insert, TypeOK, versions
<1>8. CASE StartRevoke(r)
  <2>1. PICK y \in relations :
               Continue(r, [NewRequest EXCEPT !.at = "revoking", !.kind = "revoke", !.pair = y.pair, !.id = y.id])
    BY <1>8 DEF StartRevoke
  <2> DEFINE q == [NewRequest EXCEPT !.at = "revoking", !.kind = "revoke", !.pair = y.pair, !.id = y.id]
  <2>2. y.pair \in Pairs /\ y.id \in Requests \union {Nobody}
    BY <1>1 DEF TypeOK, Row
  <2>3. q \in Request
    <3>1. "revoking" \in Steps /\ "revoke" \in Kinds
      BY DEF Steps, Kinds
    <3> QED
      BY <2>2, NewIsRequest, <3>1 DEF Request
  <2>4. q.at = "revoking" /\ q.kind = "revoke" /\ q.pair = y.pair /\ q.undone = FALSE /\ q.ready = {}
    BY DEF NewRequest
  <2>5. "revoking" \in StepsOf[q.kind] /\ EventOf[q.kind] = {"relate"} /\ "relate" \in events
    BY <1>8, <2>4 DEF StepsOf, EventOf, StartRevoke
  <2> HIDE DEF q
  <2>6. Placed(q) /\ Expected(q)
    BY <2>2, <2>3, <2>4, <2>5, StartedIsPlaced DEF Relating, Synced
  <2> QED
    BY <1>2, <1>4, <1>8, <2>1, <2>3, <2>6 DEF StartRevoke, Start, q
<1>9. CASE Revoke(r)
  <2> DEFINE q == [x EXCEPT !.at = "listing"]
  <2>0. x.at = "revoking" /\ x.pair \in Pairs
    BY <1>1, <1>9 DEF Revoke, Placed, StepsOf, Request, Kinds, Synced, Relating
  <2>1. relations' \subseteq Row
    BY <1>1, <1>9 DEF Revoke, SetRow, TypeOK, Row
  <2>2. \E y \in Request : /\ Placed(y) /\ Expected(y) /\ Set(r, y)
                           /\ writer' \in [Datasets -> Requests \union {Nobody}]
    <3>1. CASE End(r)
      BY <3>1, EndTypes
    <3>2. CASE ~End(r)
      <4>1. q \in Request
        <5>1. "listing" \in Steps
          BY DEF Steps
        <5> QED
          BY <1>1, <5>1 DEF Request
      <4>2. /\ q.at = "listing" /\ q.kind = x.kind /\ q.pair = x.pair /\ q.dataset = x.dataset /\ q.copy = x.copy
            /\ q.batch = x.batch /\ q.changed = x.changed /\ q.ready = x.ready /\ q.undone = x.undone
        BY <1>1 DEF Request
      <4>3. Set(r, q) /\ UNCHANGED writer /\ x.pair[1] \in Annotations
        BY <1>9, <3>2 DEF Revoke, At
      <4>4. x.pair \in Annotations \X Images /\ ~(x.pair \in Models \X Datasets)
        BY <2>0, <4>3, PairShapes, TypesAssumption
      <4>5. "listing" \in StepsOf[x.kind] /\ ~x.undone
        BY <1>1, <2>0, <4>4 DEF Placed, StepsOf, Request, Kinds, Synced
      <4> HIDE DEF q, x
      <4>6. Placed(q) /\ Expected(q)
        BY <1>1, <2>0, <4>1, <4>2, <4>4, <4>5, MovedIsPlaced DEF Synced
      <4> QED
        BY <1>1, <4>1, <4>3, <4>6 DEF TypeOK
    <3> QED
      BY <3>1, <3>2
  <2> QED
    BY <1>1, <1>9, <2>1, <2>2, TypeStep DEF Revoke, TypeOK, versions
<1>10. CASE StartMatch(r)
  <2>1. PICK ready \in SUBSET (Annotations \X Images) :
               Continue(r, [NewRequest EXCEPT !.at = "matching", !.kind = "match", !.ready = ready])
    <3>1. \A S : Ready(S) \in SUBSET (Annotations \X Images)
      BY DEF Ready
    <3> QED
      BY <1>10, <3>1 DEF StartMatch
  <2> DEFINE q == [NewRequest EXCEPT !.at = "matching", !.kind = "match", !.ready = ready]
  <2>3. q \in Request
    <3> DEFINE y == [NewRequest EXCEPT !.at = "matching", !.kind = "match"]
    <3>1. y \in Request
      <4>1. "matching" \in Steps /\ "match" \in Kinds
        BY DEF Steps, Kinds
      <4> QED
        BY NewIsRequest, <4>1 DEF Request
    <3>2. [y EXCEPT !.ready = ready] \in Request
      <4> HIDE DEF y
      <4> QED
        BY <3>1 DEF Request
    <3> QED
      BY <3>2
  <2>4. q.at = "matching" /\ q.kind = "match" /\ q.pair = NoPair /\ q.undone = FALSE
    BY DEF NewRequest
  <2>5. "matching" \in StepsOf[q.kind] /\ EventOf[q.kind] = {"match"} /\ "match" \in events
    BY <1>10, <2>4 DEF StepsOf, EventOf, StartMatch
  <2> HIDE DEF q
  <2>6. Placed(q) /\ Expected(q)
    BY <2>3, <2>4, <2>5, StartedIsPlaced DEF Relating, Synced
  <2> QED
    BY <1>2, <1>4, <1>10, <2>1, <2>3, <2>6 DEF StartMatch, Start, q
<1>11. CASE NextPair(r)
  <2>1. CASE End(r)
    BY <1>4, <1>11, <2>1, EndTypes DEF NextPair
  <2>2. CASE ~End(r)
    <3>1. PICK p \in x.ready : Continue(r, [x EXCEPT !.at = "checking", !.pair = p, !.ready = @ \ {p}])
      BY <1>11, <2>2 DEF NextPair
    <3> DEFINE q == [x EXCEPT !.at = "checking", !.pair = p, !.ready = @ \ {p}]
    <3>2. p \in Annotations \X Images /\ p \in Pairs
      <4>1. x.ready \subseteq Annotations \X Images
        BY <1>1 DEF Request
      <4> QED
        BY <4>1, PairShapes
    <3>3. q \in Request
      <4>1. "checking" \in Steps
        BY DEF Steps
      <4> QED
        BY <1>1, <3>2, <4>1 DEF Request
    <3>4. /\ q.at = "checking" /\ q.kind = x.kind /\ q.pair = p /\ q.dataset = x.dataset /\ q.copy = x.copy
          /\ q.batch = x.batch /\ q.changed = x.changed /\ q.undone = x.undone
      BY <1>1 DEF Request
    <3>5. x.kind = "match" /\ ~x.undone
      BY <1>1, <1>11 DEF NextPair, Placed, StepsOf, Request, Kinds, Synced
    <3>6. "checking" \in StepsOf["match"]
      BY DEF StepsOf
    <3> HIDE DEF q, x
    <3>7. Placed(q) /\ Expected(q)
      BY <1>1, <3>2, <3>4, <3>5, <3>6 DEF Placed, Expected, Synced, Relating
    <3> QED
      BY <1>2, <1>4, <1>11, <3>1, <3>3, <3>7 DEF NextPair, q
  <2> QED
    BY <2>1, <2>2
<1>12. CASE StartLink(r)
  <2>1. PICK p \in Models \X Datasets :
               Lease(r, p[2]) /\ Set(r, [NewRequest EXCEPT !.at = "checking", !.kind = "link", !.pair = p])
    BY <1>12 DEF StartLink
  <2> DEFINE q == [NewRequest EXCEPT !.at = "checking", !.kind = "link", !.pair = p]
  <2>2. p \in Pairs
    BY PairShapes
  <2>3. q \in Request
    <3>1. "checking" \in Steps /\ "link" \in Kinds
      BY DEF Steps, Kinds
    <3> QED
      BY <2>2, NewIsRequest, <3>1 DEF Request
  <2>4. q.at = "checking" /\ q.kind = "link" /\ q.pair = p /\ q.undone = FALSE /\ q.ready = {}
    BY DEF NewRequest
  <2>5. "checking" \in StepsOf[q.kind] /\ EventOf[q.kind] = {"link"} /\ "link" \in events
    BY <1>12, <2>4 DEF StepsOf, EventOf, StartLink
  <2> HIDE DEF q
  <2>6. Placed(q) /\ Expected(q)
    BY <2>2, <2>3, <2>4, <2>5, StartedIsPlaced DEF Relating, Synced
  <2> QED
    BY <1>3, <1>4, <1>12, <2>1, <2>3, <2>6 DEF StartLink, Start, q
<1>13. CASE StartUnlink(r)
  <2>1. PICK y \in relations :
          /\ y.pair[1] \in Models
          /\ Lease(r, y.pair[2])
          /\ Set(r, [NewRequest EXCEPT !.at = "revoking", !.kind = "unlink", !.pair = y.pair, !.id = y.id])
    BY <1>13 DEF StartUnlink
  <2> DEFINE q == [NewRequest EXCEPT !.at = "revoking", !.kind = "unlink", !.pair = y.pair, !.id = y.id]
  <2>2. y.pair \in Pairs /\ y.id \in Requests \union {Nobody} /\ y.pair \in Models \X Datasets
    <3>1. y.pair \in Pairs /\ y.id \in Requests \union {Nobody}
      BY <1>1 DEF TypeOK, Row
    <3> QED
      BY <2>1, <3>1, PairShapes
  <2>3. q \in Request
    <3>1. "revoking" \in Steps /\ "unlink" \in Kinds
      BY DEF Steps, Kinds
    <3> QED
      BY <2>2, NewIsRequest, <3>1 DEF Request
  <2>4. q.at = "revoking" /\ q.kind = "unlink" /\ q.pair = y.pair /\ q.undone = FALSE /\ q.ready = {}
    BY DEF NewRequest
  <2>5. "revoking" \in StepsOf[q.kind] /\ EventOf[q.kind] = {"link"} /\ "link" \in events
    BY <1>13, <2>4 DEF StepsOf, EventOf, StartUnlink
  <2> HIDE DEF q
  <2>6. Placed(q) /\ Expected(q)
    BY <2>2, <2>3, <2>4, <2>5, StartedIsPlaced DEF Relating, Synced
  <2> QED
    BY <1>3, <1>4, <1>13, <2>1, <2>3, <2>6 DEF StartUnlink, Start, q
<1> QED
  BY <1>5, <1>6, <1>7, <1>8, <1>9, <1>10, <1>11, <1>12, <1>13 DEF Relate

(* ... on members,                                                         *)
LEMMA ChangeMembersTypes ==
  ASSUME TypeInv, NEW r \in Requests, ChangeMembers(r)
  PROVE  TypeInv'
<1> DEFINE x == req[r]
<1>1. x \in Request /\ Placed(x) /\ Expected(x) /\ TypeOK
  BY DEF TypeInv, TypeOK
<1>2. \A q : Continue(r, q) => Set(r, q) /\ writer' \in [Datasets -> Requests \union {Nobody}]
  BY <1>1 DEF Continue, TypeOK
<1>3. \A d : Lease(r, d) => writer' \in [Datasets -> Requests \union {Nobody}]
  BY <1>1 DEF Lease, TypeOK
<1>4. ASSUME NEW q \in Request, Placed(q), Expected(q), Set(r, q),
             UNCHANGED <<events, library, archived, relations, datasets, members, versions>>,
             writer' \in [Datasets -> Requests \union {Nobody}]
      PROVE  TypeInv'
  BY <1>4, ReadTypes
<1>5. CASE StartAdd(r)
  <2>1. PICK d \in Datasets, S \in SUBSET Images :
          /\ Lease(r, d)
          /\ Set(r, [NewRequest EXCEPT !.at = "adding", !.kind = "add", !.dataset = d, !.batch = S])
    BY <1>5 DEF StartAdd, AtMost
  <2> DEFINE q == [NewRequest EXCEPT !.at = "adding", !.kind = "add", !.dataset = d, !.batch = S]
  <2>2. q \in Request
    <3>1. S \in SUBSET Assets
      BY PairShapes
    <3> QED
      <4>1. "adding" \in Steps /\ "add" \in Kinds
        BY DEF Steps, Kinds
      <4> QED
        BY <3>1, NewIsRequest, <4>1 DEF Request
  <2>3. /\ q.at = "adding" /\ q.kind = "add" /\ q.dataset = d /\ q.batch = S /\ q.pair = NoPair
        /\ q.undone = FALSE /\ q.ready = {} /\ q.changed = {}
    BY DEF NewRequest
  <2>4. "adding" \in StepsOf[q.kind] /\ EventOf[q.kind] = {"members"} /\ "members" \in events
    BY <1>5, <2>3 DEF StepsOf, EventOf, StartAdd
  <2> HIDE DEF q
  <2>5. Placed(q) /\ Expected(q)
    BY <2>2, <2>3, <2>4, StartedIsPlaced DEF Relating, Synced
  <2> QED
    BY <1>3, <1>4, <1>5, <2>1, <2>2, <2>5 DEF StartAdd, Start, q
<1>6. CASE AddMember(r)
  <2>1. PICK a \in x.batch :
          /\ members' = members \union {<<x.dataset, a>>}
          /\ Continue(r, [x EXCEPT !.batch = @ \ {a}, !.changed = @ \union ({a} \ MembersOf(x.dataset))])
    BY <1>6 DEF AddMember
  <2> DEFINE q == [x EXCEPT !.batch = @ \ {a}, !.changed = @ \union ({a} \ MembersOf(x.dataset))]
  <2>2. x.at = "adding" /\ x.kind = "add"
    BY <1>1, <1>6 DEF AddMember, Placed, StepsOf, Request, Kinds, Synced
  <2>3. x.dataset \in Datasets /\ x.batch \subseteq Images /\ a \in Images /\ a \in Assets
    BY <1>1, <2>2, PairShapes DEF Placed
  <2>4. q \in Request
    BY <1>1, <2>3 DEF Request
  <2>5. /\ q.at = x.at /\ q.kind = x.kind /\ q.pair = x.pair /\ q.dataset = x.dataset /\ q.copy = x.copy
        /\ q.batch \subseteq x.batch /\ q.changed \subseteq x.changed \union Images /\ q.ready = x.ready
        /\ q.undone = x.undone
    BY <1>1, <2>3 DEF Request
  <2>6. ~x.undone /\ x.at \in StepsOf[x.kind] /\ x.at \notin Synced
    BY <1>1, <2>2 DEF Placed, Synced
  <2> HIDE DEF q, x
  <2>7. Placed(q) /\ Expected(q)
    BY <1>1, <2>2, <2>4, <2>5, <2>6, MovedIsPlaced
  <2>8. members' \subseteq Datasets \X Members
    BY <1>1, <2>1, <2>3, PairShapes DEF TypeOK
  <2> QED
    BY <1>1, <1>2, <1>6, <2>1, <2>4, <2>7, <2>8, TypeStep DEF AddMember, TypeOK, versions, q
<1>7. ASSUME x.at \in StepsOf[x.kind], x.kind \in {"add", "remove", "copy"}, x.at # "creating", ~x.undone,
             NEW d \in Datasets
      PROVE  LET q == [x EXCEPT !.at = "comparing", !.todo = {d}] IN q \in Request /\ Placed(q) /\ Expected(q)
  <2> DEFINE q == [x EXCEPT !.at = "comparing", !.todo = {d}]
  <2>1. q \in Request
    <3>1. "comparing" \in Steps
      BY DEF Steps
    <3> QED
      BY <1>1, <3>1 DEF Request
  <2>2. /\ q.at = "comparing" /\ q.kind = x.kind /\ q.pair = x.pair /\ q.dataset = x.dataset /\ q.copy = x.copy
        /\ q.batch = x.batch /\ q.changed = x.changed /\ q.ready = x.ready /\ q.undone = x.undone
    BY <1>1 DEF Request
  <2>3. "comparing" \in StepsOf[x.kind] /\ x.at # "matching" /\ x.pair = NoPair
    BY <1>1, <1>7 DEF Placed, StepsOf, Synced, Relating
  <2> HIDE DEF q, x
  <2>4. Placed(q) /\ Expected(q)
    BY <1>1, <1>7, <2>1, <2>2, <2>3, MovedIsPlaced DEF Synced
  <2> QED
    BY <2>1, <2>4 DEF q
<1>8. CASE Added(r)
  <2>1. x.at = "adding" /\ x.kind = "add" /\ ~x.undone /\ x.dataset \in Datasets
    BY <1>1, <1>8 DEF Added, Placed, StepsOf, Request, Kinds, Synced
  <2>2. x.at \in StepsOf[x.kind]
    BY <1>1 DEF Placed
  <2>3. Continue(r, [x EXCEPT !.at = "comparing", !.todo = {x.dataset}])
    BY <1>8 DEF Added, Adjust
  <2> HIDE DEF x
  <2> QED
    BY <1>2, <1>4, <1>7, <1>8, <2>1, <2>2, <2>3 DEF Added
<1>9. CASE StartRemove(r)
  <2>1. PICK d \in Datasets, S \in SUBSET Images :
          /\ Lease(r, d)
          /\ Set(r, [NewRequest EXCEPT !.at = "removing", !.kind = "remove", !.dataset = d,
                                       !.batch = S, !.changed = S \intersect MembersOf(d)])
    BY <1>9 DEF StartRemove, AtMost
  <2> DEFINE T == S \intersect MembersOf(d)
             q == [NewRequest EXCEPT !.at = "removing", !.kind = "remove", !.dataset = d, !.batch = S, !.changed = T]
  <2>2. q \in Request
    <3>1. S \in SUBSET Assets /\ T \in SUBSET Assets
      BY PairShapes
    <3> HIDE DEF T
    <3> DEFINE y == [NewRequest EXCEPT !.at = "removing", !.kind = "remove", !.dataset = d]
    <3>2. y \in Request
      <4>1. "removing" \in Steps /\ "remove" \in Kinds
        BY DEF Steps, Kinds
      <4> QED
        BY NewIsRequest, <4>1 DEF Request
    <3>3. [y EXCEPT !.batch = S, !.changed = T] \in Request
      <4> HIDE DEF y
      <4> QED
        BY <3>1, <3>2 DEF Request
    <3> QED
      BY <3>3
  <2>3. /\ q.at = "removing" /\ q.kind = "remove" /\ q.dataset = d /\ q.batch = S /\ q.pair = NoPair
        /\ q.undone = FALSE /\ q.ready = {} /\ q.changed \subseteq S
    BY DEF NewRequest
  <2>4. "removing" \in StepsOf[q.kind] /\ EventOf[q.kind] = {"members"} /\ "members" \in events
    BY <1>9, <2>3 DEF StepsOf, EventOf, StartRemove
  <2> HIDE DEF q
  <2>5. Placed(q) /\ Expected(q)
    BY <2>2, <2>3, <2>4, StartedIsPlaced DEF Relating, Synced
  <2> QED
    BY <1>3, <1>4, <1>9, <2>1, <2>2, <2>5 DEF StartRemove, Start, q
<1>10. CASE RemoveMembers(r)
  <2>1. x.at = "removing" /\ x.kind = "remove" /\ ~x.undone /\ x.dataset \in Datasets
    BY <1>1, <1>10 DEF RemoveMembers, Placed, StepsOf, Request, Kinds, Synced
  <2>2. x.at \in StepsOf[x.kind]
    BY <1>1 DEF Placed
  <2>3. Continue(r, [x EXCEPT !.at = "comparing", !.todo = {x.dataset}]) /\ members' \subseteq members
    BY <1>10 DEF RemoveMembers, Adjust
  <2>4. members' \subseteq Datasets \X Members
    BY <1>1, <2>3 DEF TypeOK
  <2> HIDE DEF x
  <2> QED
    BY <1>1, <1>2, <1>7, <1>10, <2>1, <2>2, <2>3, <2>4, TypeStep DEF RemoveMembers, TypeOK, versions
<1>11. CASE StartCopy(r)
  <2>1. PICK d \in Datasets :
          /\ Lease(r, d)
          /\ Set(r, [NewRequest EXCEPT !.at = "creating", !.kind = "copy", !.dataset = d])
    BY <1>11 DEF StartCopy
  <2> DEFINE q == [NewRequest EXCEPT !.at = "creating", !.kind = "copy", !.dataset = d]
  <2>2. q \in Request
    <3>1. "creating" \in Steps /\ "copy" \in Kinds
      BY DEF Steps, Kinds
    <3> QED
      BY NewIsRequest, <3>1 DEF Request
  <2>3. /\ q.at = "creating" /\ q.kind = "copy" /\ q.dataset = d /\ q.pair = NoPair
        /\ q.undone = FALSE /\ q.ready = {}
    BY DEF NewRequest
  <2>4. "creating" \in StepsOf[q.kind] /\ EventOf[q.kind] = {"copy"} /\ "copy" \in events
    BY <1>11, <2>3 DEF StepsOf, EventOf, StartCopy
  <2> HIDE DEF q
  <2>5. Placed(q) /\ Expected(q)
    BY <2>2, <2>3, <2>4, StartedIsPlaced DEF Relating, Synced
  <2> QED
    BY <1>3, <1>4, <1>11, <2>1, <2>2, <2>5 DEF StartCopy, Start, q
<1>12. CASE CreateCopy(r)
  <2>1. PICK c \in Datasets :
          /\ datasets' = [datasets EXCEPT ![c] = "active"]
          /\ Continue(r, [x EXCEPT !.at = "collecting", !.copy = c])
    BY <1>12 DEF CreateCopy
  <2> DEFINE q == [x EXCEPT !.at = "collecting", !.copy = c]
  <2>2. x.at = "creating" /\ x.kind = "copy" /\ ~x.undone
    BY <1>1, <1>12 DEF CreateCopy, Placed, StepsOf, Request, Kinds, Synced
  <2>3. q \in Request
    <3>1. "collecting" \in Steps
      BY DEF Steps
    <3> QED
      BY <1>1, <3>1 DEF Request
  <2>4. /\ q.at = "collecting" /\ q.kind = x.kind /\ q.pair = x.pair /\ q.dataset = x.dataset /\ q.copy = c
        /\ q.batch = x.batch /\ q.changed = x.changed /\ q.ready = x.ready /\ q.undone = x.undone
    BY <1>1 DEF Request
  <2>5. "collecting" \in StepsOf["copy"]
    BY DEF StepsOf
  <2> HIDE DEF q, x
  <2>6. Placed(q) /\ Expected(q)
    BY <1>1, <2>2, <2>4, <2>5 DEF Placed, Expected, Synced, Relating
  <2>7. datasets' \in [Datasets -> {"none", "active", "deleted"}]
    BY <1>1, <2>1 DEF TypeOK
  <2> QED
    BY <1>1, <1>2, <1>12, <2>1, <2>3, <2>6, <2>7, TypeStep DEF CreateCopy, TypeOK, versions, q
<1>13. CASE CollectMembers(r)
  <2> DEFINE T == MembersOf(x.dataset) \ archived
             q == [x EXCEPT !.at = "filling", !.changed = T]
  <2>1. x.at = "collecting" /\ x.kind = "copy" /\ ~x.undone
    BY <1>1, <1>13 DEF CollectMembers, Placed, StepsOf, Request, Kinds, Synced
  <2>2. Continue(r, q)
    BY <1>13 DEF CollectMembers
  <2>3. T \subseteq Assets
    BY PairShapes DEF MembersOf
  <2> HIDE DEF T
  <2>4. q \in Request
    <3>1. "filling" \in Steps
      BY DEF Steps
    <3> QED
      BY <1>1, <2>3, <3>1 DEF Request
  <2>5. /\ q.at = "filling" /\ q.kind = x.kind /\ q.pair = x.pair /\ q.dataset = x.dataset /\ q.copy = x.copy
        /\ q.batch = x.batch /\ q.ready = x.ready /\ q.undone = x.undone
    BY <1>1 DEF Request
  <2>6. "filling" \in StepsOf["copy"]
    BY DEF StepsOf
  <2> HIDE DEF q, x
  <2>7. Placed(q) /\ Expected(q)
    BY <1>1, <2>1, <2>5, <2>6 DEF Placed, Expected, Synced, Relating
  <2> QED
    BY <1>2, <1>4, <1>13, <2>2, <2>4, <2>7 DEF CollectMembers
<1>14. CASE FillCopy(r)
  <2>1. x.at = "filling" /\ x.kind = "copy" /\ ~x.undone
    BY <1>1, <1>14 DEF FillCopy, Placed, StepsOf, Request, Kinds, Synced
  <2>2. x.at \in StepsOf[x.kind] /\ x.copy \in Datasets
    BY <1>1, <2>1 DEF Placed
  <2>3. /\ Continue(r, [x EXCEPT !.at = "comparing", !.todo = {x.copy}])
        /\ members' = members \union ({x.copy} \X (x.changed \intersect Members))
    BY <1>14 DEF FillCopy, Adjust
  <2>4. members' \subseteq Datasets \X Members
    BY <1>1, <2>2, <2>3 DEF TypeOK
  <2> HIDE DEF x
  <2> QED
    BY <1>1, <1>2, <1>7, <1>14, <2>1, <2>2, <2>3, <2>4, TypeStep DEF FillCopy, TypeOK, versions
<1> QED
  BY <1>5, <1>6, <1>8, <1>9, <1>10, <1>11, <1>12, <1>13, <1>14 DEF ChangeMembers

(* ... on what is deleted,                                                 *)
LEMMA DeleteTypes ==
  ASSUME TypeInv, NEW r \in Requests, Delete(r)
  PROVE  TypeInv'
<1> DEFINE x == req[r]
<1>1. x \in Request /\ Placed(x) /\ Expected(x) /\ TypeOK
  BY DEF TypeInv, TypeOK
<1>2. \A q : Continue(r, q) => Set(r, q) /\ writer' \in [Datasets -> Requests \union {Nobody}]
  BY <1>1 DEF Continue, TypeOK
<1>3. \A d : Lease(r, d) => writer' \in [Datasets -> Requests \union {Nobody}]
  BY <1>1 DEF Lease, TypeOK
<1>4. ASSUME NEW q \in Request, Placed(q), Expected(q), Set(r, q),
             UNCHANGED <<events, library, archived, relations, datasets, members, versions>>,
             writer' \in [Datasets -> Requests \union {Nobody}]
      PROVE  TypeInv'
  BY <1>4, ReadTypes
(* A step of a deletion that changes at, batch, todo or found.             *)
<1>5. ASSUME x.kind \in {"delete", "drop"}, NEW q \in Request, q.at \in StepsOf[x.kind],
             q.kind = x.kind, q.pair = x.pair, q.dataset = x.dataset, q.copy = x.copy,
             q.batch \subseteq x.batch, q.changed = x.changed, q.ready = x.ready, q.undone = x.undone,
             q.at = "storing" => q.visit \in Datasets
      PROVE  Placed(q) /\ Expected(q)
  <2>1. /\ \A s \in StepsOf["delete"] \union StepsOf["drop"] :
             s \notin Synced \union {"matching", "creating", "undoing", "abandoning", "inserting", "including", "excluding"}
        /\ x.at \in StepsOf[x.kind] /\ (x.undone => x.at \in Synced \union {"abandoning"})
    BY <1>1 DEF StepsOf, Synced, Placed
  <2>2. "abandoning" \notin StepsOf["delete"] \union StepsOf["drop"] /\ ~x.undone
    BY <1>5, <2>1
  <2> HIDE DEF x
  <2> QED
    BY <1>1, <1>5, <2>1, <2>2, MovedIsPlaced
<1>6. ASSUME x.kind \in {"delete", "drop"}, NEW s \in StepsOf[x.kind], s # "storing"
      PROVE  LET q == [x EXCEPT !.at = s] IN q \in Request /\ Placed(q) /\ Expected(q)
  <2> DEFINE q == [x EXCEPT !.at = s]
  <2>1. s \in Steps
    BY <1>6 DEF StepsOf, Steps
  <2>2. q \in Request
    BY <1>1, <2>1 DEF Request
  <2>3. /\ q.at = s /\ q.kind = x.kind /\ q.pair = x.pair /\ q.dataset = x.dataset /\ q.copy = x.copy
        /\ q.batch = x.batch /\ q.changed = x.changed /\ q.ready = x.ready /\ q.undone = x.undone
    BY <1>1 DEF Request
  <2> HIDE DEF q, x
  <2>4. Placed(q) /\ Expected(q)
    BY <1>5, <1>6, <2>2, <2>3
  <2> QED
    BY <2>2, <2>4 DEF q
<1>7. /\ x.at \in {"confirming", "archiving", "unlisting", "unversioning", "unrelating", "recounting", "storing"}
           => x.kind = "delete"
      /\ x.at \in {"dropping", "emptying", "unpublishing", "clearing", "closing"} => x.kind = "drop"
  BY <1>1 DEF Placed, StepsOf, Request, Kinds, Synced
<1>8. /\ StepsOf["delete"] = {"confirming", "archiving", "unlisting", "unversioning", "unrelating", "recounting", "storing"}
      /\ StepsOf["drop"] = {"dropping", "emptying", "unpublishing", "clearing", "closing"}
  BY DEF StepsOf
<1>9. CASE StartDelete(r)
  <2>1. PICK S \in SUBSET Assets, sure \in BOOLEAN :
          Continue(r, [NewRequest EXCEPT !.at = IF sure THEN "archiving" ELSE "confirming", !.kind = "delete",
                                         !.batch = S, !.confirmed = sure])
    BY <1>9 DEF StartDelete, AtMost
  <2> DEFINE q == [NewRequest EXCEPT !.at = IF sure THEN "archiving" ELSE "confirming", !.kind = "delete",
                                     !.batch = S, !.confirmed = sure]
  <2>2. q \in Request
    <3> DEFINE y == [NewRequest EXCEPT !.at = IF sure THEN "archiving" ELSE "confirming", !.kind = "delete"]
    <3>1. y \in Request
      <4>1. \A s \in Steps : [NewRequest EXCEPT !.at = s, !.kind = "delete"] \in Request
        BY NewIsRequest DEF Request, Kinds
      <4>2. (IF sure THEN "archiving" ELSE "confirming") \in Steps
        BY DEF Steps
      <4> QED
        BY <4>1, <4>2
    <3>2. [y EXCEPT !.batch = S, !.confirmed = sure] \in Request
      <4> HIDE DEF y
      <4> QED
        BY <3>1 DEF Request
    <3> QED
      BY <3>2
  <2>3. /\ q.at \in {"archiving", "confirming"} /\ q.kind = "delete" /\ q.pair = NoPair
        /\ q.undone = FALSE /\ q.ready = {}
    BY DEF NewRequest
  <2>4. EventOf[q.kind] = {"delete"} /\ "delete" \in events
    BY <1>9, <2>3 DEF EventOf, StartDelete
  <2> HIDE DEF q
  <2>5. Placed(q) /\ Expected(q)
    BY <1>8, <2>2, <2>3, <2>4, StartedIsPlaced DEF Relating, Synced
  <2> QED
    BY <1>2, <1>4, <1>9, <2>1, <2>2, <2>5 DEF StartDelete, Start, q
<1>10. CASE Confirm(r)
  <2>1. CASE End(r)
    BY <1>4, <1>10, <2>1, EndTypes DEF Confirm
  <2>2. CASE ~End(r)
    <3>1. x.at = "confirming" /\ Set(r, [x EXCEPT !.at = "archiving"]) /\ UNCHANGED writer
      BY <1>10, <2>2 DEF Confirm, At
    <3> HIDE DEF x
    <3> QED
      BY <1>1, <1>4, <1>6, <1>7, <1>8, <1>10, <3>1 DEF Confirm, TypeOK
  <2> QED
    BY <2>1, <2>2
<1>11. CASE ArchiveAssets(r)
  <2> DEFINE S == x.batch \ archived
  <2>1. archived' \subseteq Assets
    BY <1>1, <1>11 DEF ArchiveAssets, TypeOK, Request
  <2>2. CASE End(r)
    BY <1>1, <1>11, <2>1, <2>2, EndTypes, TypeStep DEF ArchiveAssets, TypeOK, versions
  <2>3. CASE ~End(r)
    <3> DEFINE q == [x EXCEPT !.at = "unlisting", !.batch = S]
    <3>1. x.at = "archiving" /\ Continue(r, q)
      BY <1>11, <2>3 DEF ArchiveAssets
    <3>2. S \subseteq x.batch /\ S \subseteq Assets
      BY <1>1 DEF Request
    <3> HIDE DEF S
    <3>3. q \in Request
      <4>1. "unlisting" \in Steps
        BY DEF Steps
      <4> QED
        BY <1>1, <3>2, <4>1 DEF Request
    <3>4. /\ q.at = "unlisting" /\ q.kind = x.kind /\ q.pair = x.pair /\ q.dataset = x.dataset /\ q.copy = x.copy
          /\ q.batch = S /\ q.changed = x.changed /\ q.ready = x.ready /\ q.undone = x.undone
      BY <1>1 DEF Request
    <3> HIDE DEF q, x
    <3>5. Placed(q) /\ Expected(q)
      BY <1>5, <1>7, <1>8, <3>1, <3>2, <3>3, <3>4
    <3> QED
      BY <1>1, <1>2, <1>11, <2>1, <3>1, <3>3, <3>5, TypeStep DEF ArchiveAssets, TypeOK, versions
  <2> QED
    BY <2>2, <2>3
<1>12. CASE RemoveFromDatasets(r)
  <2> DEFINE T == {d \in Datasets : RowsOf(d) \intersect x.batch # {}}
             q == [x EXCEPT !.at = "unversioning", !.todo = T]
  <2>1. x.at = "unlisting" /\ Continue(r, q) /\ members' \subseteq members
    BY <1>12 DEF RemoveFromDatasets
  <2>2. T \subseteq Datasets
    OBVIOUS
  <2> HIDE DEF T
  <2>3. q \in Request
    <3>1. "unversioning" \in Steps
      BY DEF Steps
    <3> QED
      BY <1>1, <2>2, <3>1 DEF Request
  <2>4. /\ q.at = "unversioning" /\ q.kind = x.kind /\ q.pair = x.pair /\ q.dataset = x.dataset /\ q.copy = x.copy
        /\ q.batch = x.batch /\ q.changed = x.changed /\ q.ready = x.ready /\ q.undone = x.undone
    BY <1>1 DEF Request
  <2> HIDE DEF q, x
  <2>5. Placed(q) /\ Expected(q)
    BY <1>5, <1>7, <1>8, <2>1, <2>3, <2>4
  <2>6. members' \subseteq Datasets \X Members
    BY <1>1, <2>1 DEF TypeOK
  <2> QED
    BY <1>1, <1>2, <1>12, <2>1, <2>3, <2>5, <2>6, TypeStep DEF RemoveFromDatasets, TypeOK, versions
<1>13. CASE RemoveFromVersions(r)
  <2>1. x.at = "unversioning" /\ Set(r, [x EXCEPT !.at = "unrelating"]) /\ rows' \subseteq rows
    BY <1>13 DEF RemoveFromVersions, At
  <2> HIDE DEF x
  <2> QED
    BY <1>1, <1>6, <1>7, <1>8, <1>13, <2>1, TypeStep DEF RemoveFromVersions, TypeOK, versions
<1>14. CASE RemoveRelations(r)
  <2>1. x.at = "unrelating" /\ Set(r, [x EXCEPT !.at = "recounting"]) /\ relations' \subseteq relations
    BY <1>14 DEF RemoveRelations, At
  <2>2. relations' \subseteq Row
    BY <1>1, <2>1 DEF TypeOK
  <2> HIDE DEF x
  <2> QED
    BY <1>1, <1>6, <1>7, <1>8, <1>14, <2>1, <2>2, TypeStep DEF RemoveRelations, TypeOK, versions
<1>15. CASE Recount(r)
  <2>1. CASE End(r)
    BY <1>4, <1>15, <2>1, EndTypes DEF Recount
  <2>2. CASE ~End(r)
    <3>1. PICK d \in x.todo :
            Continue(r, [x EXCEPT !.at = "storing", !.visit = d, !.todo = @ \ {d}, !.found = RowsOf(d)])
      BY <1>15, <2>2 DEF Recount
    <3> DEFINE F == RowsOf(d)
               q == [x EXCEPT !.at = "storing", !.visit = d, !.todo = @ \ {d}, !.found = F]
    <3>2. x.at = "recounting" /\ d \in Datasets /\ F \subseteq Assets
      BY <1>1, <1>15, PairShapes DEF Recount, Request, RowsOf
    <3>3. Continue(r, q)
      BY <3>1
    <3> HIDE DEF F
    <3>4. q \in Request
      <4>1. "storing" \in Steps
        BY DEF Steps
      <4> QED
        BY <1>1, <3>2, <4>1 DEF Request
    <3>5. /\ q.at = "storing" /\ q.kind = x.kind /\ q.pair = x.pair /\ q.dataset = x.dataset /\ q.copy = x.copy
          /\ q.batch = x.batch /\ q.changed = x.changed /\ q.ready = x.ready /\ q.undone = x.undone
          /\ q.visit = d
      BY <1>1 DEF Request
    <3> HIDE DEF q, x
    <3>6. Placed(q) /\ Expected(q)
      BY <1>5, <1>7, <1>8, <3>2, <3>4, <3>5
    <3> QED
      BY <1>2, <1>4, <1>15, <3>3, <3>4, <3>6 DEF Recount
  <2> QED
    BY <2>1, <2>2
<1>16. CASE StoreSummary(r)
  <2> DEFINE q == [x EXCEPT !.at = "recounting", !.visit = NoDataset, !.found = {}]
  <2>1. x.at = "storing" /\ Continue(r, q)
    BY <1>16 DEF StoreSummary
  <2>2. summary' \in [Datasets -> SUBSET Members]
    BY <1>1, <1>16 DEF StoreSummary, TypeOK
  <2>3. q \in Request
    <3>1. "recounting" \in Steps
      BY DEF Steps
    <3> QED
      BY <1>1, <3>1 DEF Request
  <2>4. /\ q.at = "recounting" /\ q.kind = x.kind /\ q.pair = x.pair /\ q.dataset = x.dataset /\ q.copy = x.copy
        /\ q.batch = x.batch /\ q.changed = x.changed /\ q.ready = x.ready /\ q.undone = x.undone
    BY <1>1 DEF Request
  <2> HIDE DEF q, x
  <2>5. Placed(q) /\ Expected(q)
    BY <1>5, <1>7, <1>8, <2>1, <2>3, <2>4
  <2> QED
    BY <1>1, <1>2, <1>16, <2>1, <2>2, <2>3, <2>5, TypeStep DEF StoreSummary, TypeOK
<1>17. CASE RestoreTrash(r)
  <2>1. archived' \subseteq Assets
    BY <1>1, <1>17 DEF RestoreTrash, TypeOK
  <2> QED
    BY <1>1, <1>17, <2>1, EndTypes, TypeStep DEF RestoreTrash, TypeOK, versions
<1>18. CASE StartDrop(r)
  <2>1. PICK d \in Datasets :
          /\ Lease(r, d)
          /\ Set(r, [NewRequest EXCEPT !.at = "dropping", !.kind = "drop", !.dataset = d])
    BY <1>18 DEF StartDrop
  <2> DEFINE q == [NewRequest EXCEPT !.at = "dropping", !.kind = "drop", !.dataset = d]
  <2>2. q \in Request
    <3>1. "dropping" \in Steps /\ "drop" \in Kinds
      BY DEF Steps, Kinds
    <3> QED
      BY NewIsRequest, <3>1 DEF Request
  <2>3. /\ q.at = "dropping" /\ q.kind = "drop" /\ q.dataset = d /\ q.pair = NoPair
        /\ q.undone = FALSE /\ q.ready = {}
    BY DEF NewRequest
  <2>4. EventOf[q.kind] = {"drop"} /\ "drop" \in events
    BY <1>18, <2>3 DEF EventOf, StartDrop
  <2> HIDE DEF q
  <2>5. Placed(q) /\ Expected(q)
    BY <1>8, <2>2, <2>3, <2>4, StartedIsPlaced DEF Relating, Synced
  <2> QED
    BY <1>3, <1>4, <1>18, <2>1, <2>2, <2>5 DEF StartDrop, Start, q
<1>19. CASE DropRelations(r)
  <2>1. x.at = "dropping" /\ Set(r, [x EXCEPT !.at = "emptying"]) /\ relations' \subseteq relations
    BY <1>19 DEF DropRelations, At
  <2>2. relations' \subseteq Row
    BY <1>1, <2>1 DEF TypeOK
  <2> HIDE DEF x
  <2> QED
    BY <1>1, <1>6, <1>7, <1>8, <1>19, <2>1, <2>2, TypeStep DEF DropRelations, TypeOK, versions
<1>20. CASE DropRows(r)
  <2>1. x.at = "emptying" /\ Set(r, [x EXCEPT !.at = "unpublishing"]) /\ rows' \subseteq rows
    BY <1>20 DEF DropRows, At
  <2> HIDE DEF x
  <2> QED
    BY <1>1, <1>6, <1>7, <1>8, <1>20, <2>1, TypeStep DEF DropRows, TypeOK, versions
<1>21. CASE DropVersions(r)
  <2>1. x.at = "unpublishing" /\ Set(r, [x EXCEPT !.at = "clearing"]) /\ published' \subseteq published
    BY <1>21 DEF DropVersions, At
  <2> HIDE DEF x
  <2> QED
    BY <1>1, <1>6, <1>7, <1>8, <1>21, <2>1, TypeStep DEF DropVersions, TypeOK, versions
<1>22. CASE DropMembers(r)
  <2>1. x.at = "clearing" /\ Set(r, [x EXCEPT !.at = "closing"]) /\ members' \subseteq members
    BY <1>22 DEF DropMembers, At
  <2>2. members' \subseteq Datasets \X Members
    BY <1>1, <2>1 DEF TypeOK
  <2> HIDE DEF x
  <2> QED
    BY <1>1, <1>6, <1>7, <1>8, <1>22, <2>1, <2>2, TypeStep DEF DropMembers, TypeOK, versions
<1>23. CASE CloseDataset(r)
  <2>1. datasets' \in [Datasets -> {"none", "active", "deleted"}]
    BY <1>1, <1>23 DEF CloseDataset, TypeOK
  <2> QED
    BY <1>1, <1>23, <2>1, EndTypes, TypeStep DEF CloseDataset, TypeOK, versions
<1> QED
  BY <1>9, <1>10, <1>11, <1>12, <1>13, <1>14, <1>15, <1>16, <1>17, <1>18, <1>19, <1>20, <1>21, <1>22, <1>23
     DEF Delete

(* ... and by failures of any of them.                                     *)
LEMMA FailTypes ==
  ASSUME TypeInv, NEW r \in Requests, Fail(r)
  PROVE  TypeInv'
<1> DEFINE x == req[r]
<1>1. x \in Request /\ Placed(x) /\ Expected(x) /\ TypeOK
  BY DEF TypeInv, TypeOK
<1>2. \A q : Continue(r, q) => Set(r, q) /\ writer' \in [Datasets -> Requests \union {Nobody}]
  BY <1>1 DEF Continue, TypeOK
<1>3. CASE SyncRaises(r)
  <2> DEFINE q == [x EXCEPT !.at = "undoing", !.undone = TRUE, !.todo = {}, !.visit = NoDataset,
                            !.in = {}, !.out = {}]
  <2>1. x.at \in Synchronising /\ Continue(r, q) /\ "error" \in events
    BY <1>3 DEF SyncRaises
  <2>2. q \in Request
    <3>1. "undoing" \in Steps
      BY DEF Steps
    <3> QED
      BY <1>1, <3>1 DEF Request
  <2>3. /\ q.at = "undoing" /\ q.kind = x.kind /\ q.pair = x.pair /\ q.dataset = x.dataset /\ q.copy = x.copy
        /\ q.batch = x.batch /\ q.changed = x.changed /\ q.ready = x.ready /\ q.undone = TRUE
    BY <1>1 DEF Request
  <2>4. "undoing" \in StepsOf[x.kind] /\ (x.at \in Synced \/ x.kind = "copy") /\ x.at # "matching" /\ x.at # "creating"
    BY <1>1, <2>1 DEF Placed, StepsOf, Request, Kinds, Synced, Synchronising
  <2>5. x.pair # NoPair => x.pair \in Annotations \X Images
    BY <1>1, <2>4 DEF Placed, Relating
  <2> HIDE DEF q, x
  <2>6. Placed(q) /\ Expected(q)
    BY <1>1, <2>1, <2>3, <2>4, <2>5 DEF Placed, Expected, Synced
  <2> QED
    BY <1>2, <1>3, <2>1, <2>2, <2>6, ReadTypes DEF SyncRaises
<1>4. CASE Undo(r)
  <2>1. x.at = "undoing" /\ x.kind # "copy" /\ writer' = writer
    BY <1>4 DEF Undo
  <2>2. x.undone
    BY <1>1, <2>1 DEF Expected
  <2>3. CASE x.pair # NoPair
    <3> DEFINE q == [x EXCEPT !.at = "listing"]
    <3>1. UndoRelation(r)
      BY <1>4, <2>3 DEF Undo
    <3>2. x.pair \in Annotations \X Images
      BY <1>1, <2>1, <2>3 DEF Placed, Synced
    <3>3. "listing" \in StepsOf[x.kind]
      BY <1>1, <2>1, <2>3 DEF Placed, StepsOf, Request, Kinds, Synced, Relating
    <3>4. q \in Request
      <4>1. "listing" \in Steps
        BY DEF Steps
      <4> QED
        BY <1>1, <4>1 DEF Request
    <3>5. /\ q.at = "listing" /\ q.kind = x.kind /\ q.pair = x.pair /\ q.dataset = x.dataset /\ q.copy = x.copy
          /\ q.batch = x.batch /\ q.changed = x.changed /\ q.ready = x.ready /\ q.undone = x.undone
      BY <1>1 DEF Request
    <3>6. Set(r, q) /\ UNCHANGED members
      BY <3>1 DEF UndoRelation, At
    <3>7. relations' \subseteq Row
      BY <1>1, <3>1 DEF UndoRelation, SetRow, TypeOK, Row
    <3> HIDE DEF q, x
    <3>8. Placed(q) /\ Expected(q)
      BY <1>1, <2>1, <3>2, <3>3, <3>4, <3>5, MovedIsPlaced DEF Synced
    <3> QED
      BY <1>1, <1>4, <2>1, <3>4, <3>6, <3>7, <3>8, TypeStep DEF Undo, TypeOK, versions
  <2>4. CASE x.pair = NoPair
    <3> DEFINE q == [x EXCEPT !.at = "comparing", !.todo = {x.dataset}, !.changed = {}]
               own == {x.dataset} \X (x.changed \intersect Members)
    <3>1. UndoMembers(r)
      BY <1>4, <2>4 DEF Undo
    <3>2. x.kind \in {"add", "remove"} /\ x.dataset \in Datasets
      <4>1. x.kind \notin Relating /\ x.kind \notin {"none", "delete", "drop"}
        <5>1. x.kind \in Relating => x.at = "matching" \/ x.pair \in Pairs
          BY <1>1 DEF Placed
        <5>2. x.pair \notin Pairs
          BY <2>4, NoPairAssumption
        <5>3. x.at \in StepsOf[x.kind]
          BY <1>1 DEF Placed
        <5> QED
          BY <2>1, <5>1, <5>2, <5>3 DEF StepsOf
      <4>2. x.kind \in {"add", "remove"}
        BY <1>1, <2>1, <4>1 DEF Request, Kinds, Relating
      <4> QED
        BY <1>1, <4>2 DEF Placed
    <3>3. "comparing" \in StepsOf[x.kind]
      BY <3>2 DEF StepsOf, Synced
    <3>4. q \in Request
      <4>1. "comparing" \in Steps
        BY DEF Steps
      <4> QED
        BY <1>1, <3>2, <4>1 DEF Request
    <3>5. /\ q.at = "comparing" /\ q.kind = x.kind /\ q.pair = x.pair /\ q.dataset = x.dataset /\ q.copy = x.copy
          /\ q.batch = x.batch /\ q.changed = {} /\ q.ready = x.ready /\ q.undone = x.undone
      BY <1>1 DEF Request
    <3>6. Set(r, q) /\ UNCHANGED relations
      BY <3>1 DEF UndoMembers
    <3>7. members' \subseteq Datasets \X Members
      <4>1. members' \subseteq members \union own /\ own \subseteq Datasets \X Members
        BY <3>1, <3>2 DEF UndoMembers
      <4> QED
        BY <1>1, <4>1 DEF TypeOK
    <3> HIDE DEF q, x
    <3>8. Placed(q) /\ Expected(q)
      BY <1>1, <2>1, <2>4, <3>3, <3>4, <3>5, MovedIsPlaced DEF Synced
    <3> QED
      BY <1>1, <1>4, <2>1, <3>4, <3>6, <3>7, <3>8, TypeStep DEF Undo, TypeOK, versions
  <2> QED
    BY <2>3, <2>4
<1>5. CASE AbandonCopy(r)
  <2> DEFINE q == [x EXCEPT !.at = "abandoning"]
  <2>1. x.at = "undoing" /\ x.kind = "copy" /\ Set(r, q) /\ members' \subseteq members
    BY <1>5 DEF AbandonCopy, At
  <2>2. q \in Request
    <3>1. "abandoning" \in Steps
      BY DEF Steps
    <3> QED
      BY <1>1, <3>1 DEF Request
  <2>3. /\ q.at = "abandoning" /\ q.kind = x.kind /\ q.pair = x.pair /\ q.dataset = x.dataset /\ q.copy = x.copy
        /\ q.batch = x.batch /\ q.changed = x.changed /\ q.ready = x.ready /\ q.undone = x.undone
    BY <1>1 DEF Request
  <2>4. "abandoning" \in StepsOf["copy"]
    BY DEF StepsOf
  <2>5. members' \subseteq Datasets \X Members
    BY <1>1, <2>1 DEF TypeOK
  <2> HIDE DEF q, x
  <2>6. Placed(q) /\ Expected(q)
    BY <1>1, <2>1, <2>3, <2>4 DEF Placed, Expected, Synced, Relating
  <2> QED
    BY <1>1, <1>5, <2>1, <2>2, <2>5, <2>6, TypeStep DEF AbandonCopy, TypeOK, versions
<1>6. CASE RemoveCopy(r)
  <2>1. datasets' \in [Datasets -> {"none", "active", "deleted"}]
    BY <1>1, <1>6 DEF RemoveCopy, TypeOK
  <2> QED
    BY <1>1, <1>6, <2>1, EndTypes, TypeStep DEF RemoveCopy, TypeOK, versions
<1>7. CASE UndoRaises(r) \/ Crash(r)
  BY <1>7, EndTypes, ReadTypes DEF UndoRaises, Crash
<1> QED
  BY <1>3, <1>4, <1>5, <1>6, <1>7 DEF Fail

(* Types and memory of the requests hold in every state.                   *)
LEMMA TypeInvariant == Spec => []TypeInv
<1>1. TypeInv /\ [Next]_vars => TypeInv'
  <2> SUFFICES ASSUME TypeInv, [Next]_vars PROVE TypeInv'
    OBVIOUS
  <2>1. CASE Next
    BY <2>1, SynchroniseTypes, RelateTypes, ChangeMembersTypes, DeleteTypes, FailTypes DEF Next
  <2>2. CASE UNCHANGED vars
    BY <2>2 DEF vars, library, versions, TypeInv, TypeOK, Expected
  <2> QED
    BY <2>1, <2>2
<1> QED
  BY <1>1, InitTypeInv, PTL DEF Spec

(* Every variable stays within its type: a request writes only datasets    *)
(* and pairs it has decided on, and members are images and annotations.    *)
THEOREM TypeCorrect == Spec => []TypeOK
BY TypeInvariant, PTL DEF TypeInv

Step(r) == Synchronise(r) \/ Relate(r) \/ ChangeMembers(r) \/ Delete(r) \/ Fail(r)

(* A step is one request's: it starts when it may, and the others keep     *)
(* what they remember.                                                     *)
LEMMA StepFrame ==
  ASSUME TypeInv, NEW r \in Requests, Step(r)
  PROVE  /\ UNCHANGED <<events, stem, claims>>
         /\ req' \in [Requests -> Request]
         /\ \A q \in Requests : q # r => req'[q] = req[q]
         /\ Busy(r) \/ "together" \in events \/ Quiet
<1>0. TypeOK /\ Placed(req[r]) /\ req \in [Requests -> Request]
  BY DEF TypeInv, TypeOK
<1>1. req' \in [Requests -> Request]
  <2>1. TypeInv'
    BY SynchroniseTypes, RelateTypes, ChangeMembersTypes, DeleteTypes, FailTypes DEF Step
  <2> QED
    BY <2>1 DEF TypeInv, TypeOK
<1>2. ASSUME NEW q, Set(r, q) \/ Continue(r, q)
      PROVE  \A s \in Requests : s # r => req'[s] = req[s]
  BY <1>0, <1>2 DEF Set, Continue
<1>3. ASSUME NEW s, At(r, s)
      PROVE  \A q \in Requests : q # r => req'[q] = req[q]
  BY <1>0, <1>3 DEF Set, At
<1>4. ASSUME End(r)
      PROVE  \A q \in Requests : q # r => req'[q] = req[q]
  BY <1>2, <1>4 DEF End
<1>5. CASE Synchronise(r)
  <2>1. Busy(r)
    BY <1>5 DEF Synchronise, ListImageDatasets, CompareMembers, Include, Exclude, Synchronised, Busy
  <2>2. UNCHANGED <<events, stem, claims>>
    BY <1>5 DEF Synchronise, ListImageDatasets, CompareMembers, Include, Exclude, Synchronised, library
  <2>3. End(r) \/ \E q : Continue(r, q)
    <3>1. CASE ListImageDatasets(r) \/ Include(r) \/ Exclude(r) \/ Synchronised(r)
      BY <3>1 DEF ListImageDatasets, Include, Exclude, Synchronised
    <3>2. CASE CompareMembers(r)
      BY <3>2 DEF CompareMembers, Compare
    <3> QED
      BY <1>5, <3>1, <3>2 DEF Synchronise
  <2> QED
    BY <1>1, <1>2, <1>4, <2>1, <2>2, <2>3
<1>6. CASE Relate(r)
  <2>1. UNCHANGED <<events, stem, claims>>
    BY <1>6 DEF Relate, StartCreate, Check, Insert, StartRevoke, Revoke, StartMatch, NextPair, StartLink,
               StartUnlink, Start, library
  <2>2. Busy(r) \/ "together" \in events \/ Quiet
    BY <1>6 DEF Relate, StartCreate, Check, Insert, StartRevoke, Revoke, StartMatch, NextPair, StartLink,
               StartUnlink, Start, Busy
  <2>3. End(r) \/ (\E s : At(r, s)) \/ (\E q : Set(r, q)) \/ \E q : Continue(r, q)
    <3>1. CASE StartCreate(r) \/ StartRevoke(r) \/ StartMatch(r) \/ StartLink(r) \/ StartUnlink(r)
      BY <3>1 DEF StartCreate, StartRevoke, StartMatch, StartLink, StartUnlink
    <3>2. CASE Check(r)
      BY <3>2 DEF Check, Refused
    <3>3. CASE Insert(r)
      BY <3>3 DEF Insert
    <3>4. CASE Revoke(r) \/ NextPair(r)
      BY <3>4 DEF Revoke, NextPair
    <3> QED
      BY <1>6, <3>1, <3>2, <3>3, <3>4 DEF Relate
  <2> QED
    BY <1>1, <1>2, <1>3, <1>4, <2>1, <2>2, <2>3
<1>7. CASE ChangeMembers(r)
  <2>1. UNCHANGED <<events, stem, claims>>
    BY <1>7 DEF ChangeMembers, StartAdd, AddMember, Added, StartRemove, RemoveMembers, StartCopy, CreateCopy,
               CollectMembers, FillCopy, Start, library
  <2>2. Busy(r) \/ "together" \in events \/ Quiet
    BY <1>7 DEF ChangeMembers, StartAdd, AddMember, Added, StartRemove, RemoveMembers, StartCopy, CreateCopy,
               CollectMembers, FillCopy, Start, Busy
  <2>3. (\E q : Set(r, q)) \/ \E q : Continue(r, q)
    <3>1. CASE StartAdd(r) \/ StartRemove(r) \/ StartCopy(r)
      BY <3>1 DEF StartAdd, StartRemove, StartCopy
    <3>2. CASE AddMember(r) \/ CreateCopy(r) \/ CollectMembers(r)
      BY <3>2 DEF AddMember, CreateCopy, CollectMembers
    <3>3. CASE Added(r) \/ RemoveMembers(r) \/ FillCopy(r)
      BY <3>3 DEF Added, RemoveMembers, FillCopy, Adjust
    <3> QED
      BY <1>7, <3>1, <3>2, <3>3 DEF ChangeMembers
  <2> QED
    BY <1>1, <1>2, <2>1, <2>2, <2>3
<1>8. CASE Delete(r)
  <2>1. UNCHANGED <<events, stem, claims>>
    BY <1>8 DEF Delete, StartDelete, Confirm, ArchiveAssets, RemoveFromDatasets, RemoveFromVersions,
               RemoveRelations, Recount, StoreSummary, RestoreTrash, StartDrop, DropRelations, DropRows,
               DropVersions, DropMembers, CloseDataset, Start, library
  <2>2. Busy(r) \/ "together" \in events \/ Quiet
    BY <1>8 DEF Delete, StartDelete, Confirm, ArchiveAssets, RemoveFromDatasets, RemoveFromVersions,
               RemoveRelations, Recount, StoreSummary, RestoreTrash, StartDrop, DropRelations, DropRows,
               DropVersions, DropMembers, CloseDataset, Start, Busy
  <2>3. End(r) \/ (\E s : At(r, s)) \/ (\E q : Set(r, q)) \/ \E q : Continue(r, q)
    <3>1. CASE StartDelete(r)
      BY <3>1 DEF StartDelete
    <3>2. CASE Confirm(r) \/ ArchiveAssets(r)
      BY <3>2 DEF Confirm, ArchiveAssets
    <3>3. CASE RemoveFromDatasets(r) \/ RemoveFromVersions(r) \/ RemoveRelations(r)
      BY <3>3 DEF RemoveFromDatasets, RemoveFromVersions, RemoveRelations
    <3>4. CASE Recount(r) \/ StoreSummary(r) \/ RestoreTrash(r) \/ StartDrop(r)
      BY <3>4 DEF Recount, StoreSummary, RestoreTrash, StartDrop
    <3>5. CASE DropRelations(r) \/ DropRows(r) \/ DropVersions(r) \/ DropMembers(r) \/ CloseDataset(r)
      BY <3>5 DEF DropRelations, DropRows, DropVersions, DropMembers, CloseDataset
    <3> QED
      BY <1>8, <3>1, <3>2, <3>3, <3>4, <3>5 DEF Delete
  <2> QED
    BY <1>1, <1>2, <1>3, <1>4, <2>1, <2>2, <2>3
<1>9. CASE Fail(r)
  <2>1. UNCHANGED <<events, stem, claims>>
    BY <1>9 DEF Fail, SyncRaises, Undo, AbandonCopy, RemoveCopy, UndoRaises, Crash, library
  <2>2. Busy(r)
    BY <1>0, <1>9 DEF Fail, SyncRaises, Undo, AbandonCopy, RemoveCopy, UndoRaises, Crash, Busy, Placed, Synced,
               Synchronising
  <2>3. End(r) \/ (\E s : At(r, s)) \/ (\E q : Set(r, q)) \/ \E q : Continue(r, q)
    BY <1>9 DEF Fail, SyncRaises, Undo, UndoRelation, UndoMembers, AbandonCopy, RemoveCopy, UndoRaises, Crash
  <2> QED
    BY <1>1, <1>2, <1>3, <1>4, <2>1, <2>2, <2>3
<1> QED
  BY <1>5, <1>6, <1>7, <1>8, <1>9 DEF Step

(* Requests that do not overlap are busy one at a time.                    *)
Sequential == "together" \notin events
OneAtATime == Sequential => \A r, q \in Requests : Busy(r) /\ Busy(q) => r = q

(* The others wait while a request that overlaps with none is busy.        *)
LEMMA OneStep ==
  ASSUME TypeInv, OneAtATime, NEW r \in Requests, Step(r)
  PROVE  /\ OneAtATime'
         /\ Sequential => \A q \in Requests : q # r => ~Busy(q) /\ ~Busy(q)'
<1>1. /\ events' = events
      /\ \A q \in Requests : q # r => req'[q] = req[q]
      /\ Busy(r) \/ "together" \in events \/ Quiet
  BY StepFrame
<1> QED
  BY <1>1 DEF OneAtATime, Sequential, Busy, Quiet

BaseInv == TypeInv /\ OneAtATime

(* BaseInv holds in every state: the ground for all that follows.          *)
LEMMA BaseInvariant == Spec => []BaseInv
<1>1. Init => OneAtATime
  BY DEF Init, OneAtATime, Busy, NewRequest
<1>2. TypeInv /\ OneAtATime /\ [Next]_vars => OneAtATime'
  <2> SUFFICES ASSUME TypeInv, OneAtATime, [Next]_vars PROVE OneAtATime'
    OBVIOUS
  <2>1. CASE Next
    BY <2>1, OneStep DEF Next, Step
  <2>2. CASE UNCHANGED vars
    BY <2>2 DEF vars, OneAtATime, Sequential, Busy
  <2> QED
    BY <2>1, <2>2
<1> QED
  BY <1>1, <1>2, TypeInvariant, PTL DEF Spec, BaseInv

-----------------------------------------------------------------------------
(* Counts: number, size and digest of a version.                           *)

Correcting == {"unversioning", "unrelating", "recounting", "storing", "unpublishing"}

(* Versions are counted, or a deletion will still visit them: the versions *)
(* a deletion has left to correct, and the one a dataset's deletion is     *)
(* about to remove, are the only ones whose summary is behind.             *)
OneDeletion == \A r, q \in Requests : req[r].kind = "delete" /\ req[q].kind = "delete" => r = q
Pending(d) ==
  \E r \in Requests :
    \/ req[r].at \in {"unrelating", "recounting", "storing"} /\ d \in req[r].todo
    \/ req[r].at = "storing" /\ d = req[r].visit
    \/ req[r].at = "unpublishing" /\ d = req[r].dataset
Counted == \A d \in published : summary[d] = RowsOf(d) \/ Pending(d)
ToVisit ==
  \A r \in Requests, d \in Datasets :
    req[r].at = "unversioning" /\ RowsOf(d) \intersect req[r].batch # {} => d \in req[r].todo
FoundIsCurrent ==
  \A r \in Requests :
    req[r].at = "storing" /\ req[r].visit \in published =>
      \/ req[r].found \intersect Members = RowsOf(req[r].visit)
      \/ \E q \in Requests : req[q].at = "unpublishing" /\ req[r].visit = req[q].dataset
Correctable == "crash" \notin events /\ Alone({"deletions"})
CountInv == Correctable => OneDeletion /\ Counted /\ ToVisit /\ FoundIsCurrent

(* Every other step leaves versions and their corrections alone.           *)
LEMMA CountFrame ==
  ASSUME BaseInv, CountInv, NEW r \in Requests, Step(r), 
         UNCHANGED <<published, rows, summary>>,
         req[r].at \notin Correcting, req'[r].at \notin Correcting,
         \/ req'[r].kind # "delete" \/ req[r].kind = "delete"
         \/ ~Correctable \/ \A q \in Requests : req[q].kind # "delete"
  PROVE  CountInv'
<1>1. /\ events' = events
      /\ \A q \in Requests : q # r => req'[q] = req[q]
  BY StepFrame DEF BaseInv
<1> SUFFICES ASSUME Correctable' PROVE (OneDeletion /\ Counted /\ ToVisit /\ FoundIsCurrent)'
  BY DEF CountInv
<1>2. Correctable
  BY <1>1 DEF Correctable, Alone
<1>3. OneDeletion /\ Counted /\ ToVisit /\ FoundIsCurrent
  BY <1>2 DEF CountInv
<1>4. \A d \in Datasets : RowsOf(d)' = RowsOf(d)
  BY DEF RowsOf
<1>5. published \subseteq Datasets /\ published' = published
  BY DEF BaseInv, TypeInv, TypeOK
<1>6. \A q \in Requests : req'[q].at \in Correcting => req'[q] = req[q]
  BY <1>1
<1>7. \A q \in Requests : req[q].at \in Correcting => req'[q] = req[q]
  BY <1>1
<1>8. OneDeletion'
  BY <1>1, <1>2, <1>3 DEF OneDeletion
<1>9. Counted'
  <2> SUFFICES ASSUME NEW d \in published PROVE (summary[d] = RowsOf(d))' \/ Pending(d)'
    BY <1>5 DEF Counted
  <2>1. Pending(d) => Pending(d)'
    BY <1>7 DEF Pending, Correcting
  <2> QED
    BY <1>3, <1>4, <1>5, <2>1 DEF Counted
<1>10. ToVisit'
  BY <1>3, <1>4, <1>6 DEF ToVisit, Correcting
<1>11. FoundIsCurrent'
  <2> SUFFICES ASSUME NEW q \in Requests, req'[q].at = "storing", req'[q].visit \in published
               PROVE  \/ req'[q].found \intersect Members = RowsOf(req'[q].visit)
                      \/ \E s \in Requests : req'[s].at = "unpublishing" /\ req'[q].visit = req'[s].dataset
    BY <1>4, <1>5 DEF FoundIsCurrent
  <2>1. req'[q] = req[q]
    BY <1>6 DEF Correcting
  <2> QED
    BY <1>3, <1>7, <2>1 DEF FoundIsCurrent, Correcting
<1> QED
  BY <1>8, <1>9, <1>10, <1>11

(* A synchronisation writes no version.                                    *)
LEMMA SynchroniseCounts ==
  ASSUME BaseInv, CountInv, NEW r \in Requests, Synchronise(r) \/ Relate(r) \/ ChangeMembers(r)
  PROVE  CountInv'
<1>0. req[r] \in Request /\ Placed(req[r]) /\ req \in [Requests -> Request]
  BY DEF BaseInv, TypeInv, TypeOK
<1>1. UNCHANGED <<published, rows, summary>>
  <2>1. CASE Synchronise(r)
    BY <2>1 DEF Synchronise, ListImageDatasets, CompareMembers, Include, Exclude, Synchronised, versions
  <2>2. CASE Relate(r)
    BY <2>2 DEF Relate, StartCreate, Check, Insert, StartRevoke, Revoke, StartMatch, NextPair, StartLink,
               StartUnlink, Start, versions
  <2>3. CASE ChangeMembers(r)
    BY <2>3 DEF ChangeMembers, StartAdd, AddMember, Added, StartRemove, RemoveMembers, StartCopy, CreateCopy,
               CollectMembers, FillCopy, Start, versions
  <2> QED
    BY <2>1, <2>2, <2>3
<1>2. req[r].at \notin Correcting
  <2>1. CASE Synchronise(r)
    BY <2>1 DEF Synchronise, ListImageDatasets, CompareMembers, Include, Exclude, Synchronised, Correcting
  <2>2. CASE Relate(r)
    BY <2>2 DEF Relate, StartCreate, Check, Insert, StartRevoke, Revoke, StartMatch, NextPair, StartLink,
               StartUnlink, Start, Correcting
  <2>3. CASE ChangeMembers(r)
    BY <2>3 DEF ChangeMembers, StartAdd, AddMember, Added, StartRemove, RemoveMembers, StartCopy, CreateCopy,
               CollectMembers, FillCopy, Start, Correcting
  <2> QED
    BY <2>1, <2>2, <2>3
<1>3. ASSUME NEW s, At(r, s), s \notin Correcting
      PROVE  req'[r].at \notin Correcting /\ req'[r].kind = req[r].kind
  BY <1>0, <1>3 DEF Set, At, Request
<1>4. End(r) => req'[r].at \notin Correcting /\ req'[r].kind = "none"
  BY <1>0 DEF End, Set, NewRequest, Correcting
<1>5. ASSUME NEW q, Set(r, q) \/ Continue(r, q), q.at \notin Correcting, q.kind = req[r].kind \/ q.kind # "delete"
      PROVE  req'[r].at \notin Correcting /\ (req'[r].kind # "delete" \/ req[r].kind = "delete")
  BY <1>0, <1>5 DEF Set, Continue
<1>6. req'[r].at \notin Correcting /\ (req'[r].kind # "delete" \/ req[r].kind = "delete")
  <2>1. CASE ListImageDatasets(r) \/ Include(r) \/ Exclude(r) \/ Synchronised(r)
    BY <1>0, <1>4, <1>5, <2>1 DEF ListImageDatasets, Include, Exclude, Synchronised, Request, Correcting
  <2>2. CASE CompareMembers(r)
    BY <1>0, <1>5, <2>2 DEF CompareMembers, Compare, Request, Correcting
  <2>3. CASE StartCreate(r) \/ StartRevoke(r) \/ StartMatch(r) \/ StartLink(r) \/ StartUnlink(r)
    BY <1>5, <2>3 DEF StartCreate, StartRevoke, StartMatch, StartLink, StartUnlink, NewRequest, Correcting
  <2>4. CASE Check(r) \/ NextPair(r)
    BY <1>0, <1>4, <1>5, <2>4 DEF Check, Refused, NextPair, Request, Correcting
  <2>5. CASE Insert(r) \/ Revoke(r)
    BY <1>0, <1>3, <1>4, <1>5, <2>5 DEF Insert, Revoke, Request, Correcting
  <2>6. CASE StartAdd(r) \/ StartRemove(r) \/ StartCopy(r)
    BY <1>5, <2>6 DEF StartAdd, StartRemove, StartCopy, NewRequest, Correcting
  <2>7. CASE AddMember(r) \/ CreateCopy(r) \/ CollectMembers(r)
    BY <1>0, <1>5, <2>7 DEF AddMember, CreateCopy, CollectMembers, Request, Correcting
  <2>8. CASE Added(r) \/ RemoveMembers(r) \/ FillCopy(r)
    BY <1>0, <1>5, <2>8 DEF Added, RemoveMembers, FillCopy, Adjust, Request, Correcting
  <2> QED
    BY <2>1, <2>2, <2>3, <2>4, <2>5, <2>6, <2>7, <2>8 DEF Synchronise, Relate, ChangeMembers
<1> QED
  BY <1>1, <1>2, <1>6, CountFrame DEF Step

(* Neither does a compensation.                                            *)
LEMMA FailCounts ==
  ASSUME BaseInv, CountInv, NEW r \in Requests, Fail(r)
  PROVE  CountInv'
<1>0. req[r] \in Request /\ Placed(req[r]) /\ req \in [Requests -> Request]
  BY DEF BaseInv, TypeInv, TypeOK
<1>1. CASE Crash(r)
  BY <1>1 DEF Crash, CountInv, Correctable
<1>2. CASE ~Crash(r)
  <2>1. UNCHANGED <<published, rows, summary>>
    BY <1>2 DEF Fail, SyncRaises, Undo, AbandonCopy, RemoveCopy, UndoRaises, versions
  <2>2. req[r].at \in Synced \union Synchronising \union {"abandoning"}
    BY <1>0, <1>2 DEF Fail, SyncRaises, Undo, AbandonCopy, RemoveCopy, UndoRaises, Placed, Synced
  <2>3. req[r].at \notin Correcting
    BY <2>2 DEF Synced, Synchronising, Correcting
  <2>4. ASSUME NEW q, req' = [req EXCEPT ![r] = q], q.at \notin Correcting, q.kind = req[r].kind
        PROVE  req'[r].at \notin Correcting /\ (req'[r].kind # "delete" \/ req[r].kind = "delete")
    BY <1>0, <2>4
  <2>5. req'[r].at \notin Correcting /\ (req'[r].kind # "delete" \/ req[r].kind = "delete")
    <3>1. CASE SyncRaises(r) \/ AbandonCopy(r)
      BY <1>0, <2>4, <3>1 DEF SyncRaises, AbandonCopy, At, Set, Continue, Request, Correcting
    <3>2. CASE Undo(r)
      BY ZenonT(40), <1>0, <2>4, <3>2 DEF Undo, UndoRelation, UndoMembers, At, Set, Request, Correcting
    <3>3. CASE End(r)
      BY <1>0, <3>3 DEF End, Set, NewRequest, Correcting
    <3> QED
      BY <1>2, <3>1, <3>2, <3>3 DEF Fail, RemoveCopy, UndoRaises
  <2> QED
    BY <2>1, <2>3, <2>5, CountFrame DEF Step
<1> QED
  BY <1>1, <1>2

(* A version that loses members is on the list of the deletion first.      *)
LEMMA DeleteCounts ==
  ASSUME BaseInv, CountInv, NEW r \in Requests, Delete(r)
  PROVE  CountInv'
<1> DEFINE x == req[r]
<1>0. x \in Request /\ Placed(x) /\ req \in [Requests -> Request] /\ published \subseteq Datasets /\ TypeOK
  BY DEF BaseInv, TypeInv, TypeOK
<1>1. /\ events' = events
      /\ req' \in [Requests -> Request]
      /\ \A q \in Requests : q # r => req'[q] = req[q]
  BY StepFrame DEF BaseInv, Step
<1>2. CASE \/ Confirm(r) \/ ArchiveAssets(r) \/ RestoreTrash(r) \/ StartDrop(r)
           \/ DropRelations(r) \/ DropMembers(r) \/ CloseDataset(r)
  <2>1. UNCHANGED <<published, rows, summary>> /\ x.at \notin Correcting
    BY <1>2 DEF Confirm, ArchiveAssets, RestoreTrash, StartDrop, DropRelations, DropMembers, CloseDataset, Start,
               versions, Correcting
  <2>2. ASSUME NEW q, req' = [req EXCEPT ![r] = q], q.at \notin Correcting, q.kind = x.kind \/ q.kind # "delete"
        PROVE  req'[r].at \notin Correcting /\ (req'[r].kind # "delete" \/ x.kind = "delete")
    BY <1>0, <2>2
  <2>3. req'[r].at \notin Correcting /\ (req'[r].kind # "delete" \/ x.kind = "delete")
    <3>1. CASE End(r)
      BY <1>0, <3>1 DEF End, Set, NewRequest, Correcting
    <3>2. CASE ArchiveAssets(r)
      BY <1>0, <2>2, <3>1, <3>2 DEF ArchiveAssets, Set, Continue, Request, Correcting
    <3>3. CASE StartDrop(r)
      BY <1>0, <2>2, <3>3 DEF StartDrop, Set, NewRequest, Correcting
    <3>4. CASE Confirm(r) \/ DropRelations(r) \/ DropMembers(r)
      BY <1>0, <2>2, <3>1, <3>4 DEF Confirm, DropRelations, DropMembers, At, Set, Request, Correcting
    <3> QED
      BY <1>2, <3>1, <3>2, <3>3, <3>4 DEF RestoreTrash, CloseDataset
  <2> QED
    BY <2>1, <2>3, CountFrame DEF Step
<1>3. CASE StartDelete(r)
  <2>1. UNCHANGED <<published, rows, summary>> /\ x.at \notin Correcting
    BY <1>3 DEF StartDelete, Start, versions, Correcting
  <2>2. req'[r].at \notin Correcting
    BY <1>0, <1>3 DEF StartDelete, Continue, Set, NewRequest, Correcting
  <2>3. ASSUME Correctable PROVE \A q \in Requests : req[q].kind # "delete"
    <3>1. CASE "together" \in events
      BY <1>3, <2>3, <3>1 DEF StartDelete, Correctable, Alone
    <3>2. CASE Quiet
      <4> SUFFICES ASSUME NEW q \in Requests, req[q].kind = "delete" PROVE FALSE
        OBVIOUS
      <4>1. req[q].at \in StepsOf["delete"]
        BY DEF BaseInv, TypeInv, Placed
      <4> QED
        BY <3>2, <4>1 DEF Quiet, Busy, StepsOf
    <3> QED
      BY <1>3, <3>1, <3>2 DEF StartDelete, Start
  <2> QED
    BY <2>1, <2>2, <2>3, CountFrame DEF Step
<1>4. CASE \/ RemoveFromDatasets(r) \/ RemoveFromVersions(r) \/ RemoveRelations(r) \/ Recount(r)
           \/ StoreSummary(r) \/ DropRows(r) \/ DropVersions(r)
  <2> SUFFICES ASSUME Correctable' PROVE (OneDeletion /\ Counted /\ ToVisit /\ FoundIsCurrent)'
    BY DEF CountInv
  <2>1. Correctable
    BY <1>1 DEF Correctable, Alone
  <2>2. OneDeletion /\ Counted /\ ToVisit /\ FoundIsCurrent
    BY <2>1 DEF CountInv
  <2>3. ASSUME NEW q, Set(r, q) \/ Continue(r, q)
        PROVE  req'[r] = q
    BY <1>0, <2>3 DEF Set, Continue
  <2>4. \A q \in Requests : req[q].at \in {"unlisting", "unversioning", "unrelating", "recounting", "storing"}
                             => req[q].kind = "delete"
    BY SMTT(40) DEF BaseInv, TypeInv, TypeOK, Placed, StepsOf, Request, Kinds, Synced
  <2>5. ASSUME req'[r].kind = x.kind \/ req'[r].kind = "none"
        PROVE  OneDeletion'
    BY <1>1, <2>2, <2>5 DEF OneDeletion
  <2>6. \A d : RowsOf(d) \subseteq Members
    BY DEF RowsOf
  <2>7. CASE RemoveFromDatasets(r)
    <3> DEFINE q == [x EXCEPT !.at = "unversioning", !.todo = {d \in Datasets : RowsOf(d) \intersect x.batch # {}}]
    <3>1. req'[r] = q /\ x.at = "unlisting" /\ UNCHANGED <<published, rows, summary>>
      BY <2>3, <2>7 DEF RemoveFromDatasets, versions
    <3>2. q.at = "unversioning" /\ q.todo = {d \in Datasets : RowsOf(d) \intersect x.batch # {}} /\ q.batch = x.batch
          /\ q.kind = x.kind
      BY <1>0 DEF Request
    <3>3. \A d : RowsOf(d)' = RowsOf(d)
      BY <3>1 DEF RowsOf
    <3> HIDE DEF q
    <3>4. \A d : Pending(d) => Pending(d)'
      BY <1>1, <3>1 DEF Pending
    <3>5. Counted'
      BY <2>2, <3>1, <3>3, <3>4 DEF Counted
    <3>6. ToVisit'
      BY <1>1, <2>2, <3>1, <3>2, <3>3 DEF ToVisit
    <3>7. FoundIsCurrent'
      BY <1>1, <2>2, <3>1, <3>2, <3>3 DEF FoundIsCurrent
    <3> QED
      BY <2>5, <3>1, <3>2, <3>5, <3>6, <3>7
  <2>8. CASE RemoveFromVersions(r)
    <3> DEFINE q == [x EXCEPT !.at = "unrelating"]
    <3>1. req'[r] = q /\ x.at = "unversioning" /\ UNCHANGED <<published, summary>>
          /\ rows' = {m \in rows : m[2] \notin x.batch}
      BY <2>3, <2>8 DEF RemoveFromVersions, At
    <3>2. q.at = "unrelating" /\ q.todo = x.todo /\ q.kind = x.kind
      BY <1>0 DEF Request
    <3>3. \A d : RowsOf(d)' = RowsOf(d) \ x.batch
      BY <3>1 DEF RowsOf
    <3> HIDE DEF q
    <3>4. \A s \in Requests : s # r => req[s].kind # "delete"
      BY <2>2, <2>4, <3>1 DEF OneDeletion
    <3>5. Counted'
      <4> SUFFICES ASSUME NEW d \in published PROVE summary[d] = RowsOf(d)' \/ Pending(d)'
        BY <3>1 DEF Counted
      <4>1. CASE Pending(d)
        BY <1>1, <3>1, <4>1 DEF Pending
      <4>2. CASE d \in x.todo
        BY <3>1, <3>2, <4>2 DEF Pending
      <4>3. CASE ~Pending(d) /\ d \notin x.todo
        <5>1. RowsOf(d) \intersect x.batch = {}
          BY <1>0, <2>2, <3>1, <4>3 DEF ToVisit
        <5> QED
          BY <2>2, <3>3, <4>3, <5>1 DEF Counted
      <4> QED
        BY <4>1, <4>2, <4>3
    <3>6. ToVisit'
      BY <1>1, <2>2, <3>1, <3>2, <3>3 DEF ToVisit
    <3>7. FoundIsCurrent'
      <4>1. \A s \in Requests : req'[s].at # "storing"
        BY <1>1, <2>4, <3>1, <3>2, <3>4
      <4> QED
        BY <4>1 DEF FoundIsCurrent
    <3> QED
      BY <2>5, <3>1, <3>2, <3>5, <3>6, <3>7
  <2>9. CASE RemoveRelations(r)
    <3> DEFINE q == [x EXCEPT !.at = "recounting"]
    <3>1. req'[r] = q /\ x.at = "unrelating" /\ UNCHANGED <<published, rows, summary>>
      BY <2>3, <2>9 DEF RemoveRelations, At, versions
    <3>2. q.at = "recounting" /\ q.todo = x.todo /\ q.kind = x.kind
      BY <1>0 DEF Request
    <3>3. \A d : RowsOf(d)' = RowsOf(d)
      BY <3>1 DEF RowsOf
    <3> HIDE DEF q
    <3>4. \A d : Pending(d) => Pending(d)'
      BY <1>1, <3>1, <3>2 DEF Pending
    <3>5. Counted'
      BY <2>2, <3>1, <3>3, <3>4 DEF Counted
    <3>6. ToVisit'
      BY <1>1, <2>2, <3>1, <3>2, <3>3 DEF ToVisit
    <3>7. FoundIsCurrent'
      BY <1>1, <2>2, <3>1, <3>2, <3>3 DEF FoundIsCurrent
    <3> QED
      BY <2>5, <3>1, <3>2, <3>5, <3>6, <3>7
  <2>10. CASE Recount(r)
    <3>1. x.at = "recounting" /\ UNCHANGED <<published, rows, summary>>
      BY <2>10 DEF Recount, versions
    <3>2. \A d : RowsOf(d)' = RowsOf(d)
      BY <3>1 DEF RowsOf
    <3>3. CASE x.todo = {}
      <4>1. req'[r].at = "done" /\ req'[r].kind = "none"
        BY <2>3, <2>10, <3>3 DEF Recount, End, NewRequest
      <4>2. \A d : Pending(d) => Pending(d)'
        BY <1>1, <3>1, <3>3, <4>1 DEF Pending
      <4>3. Counted'
        BY <2>2, <3>1, <3>2, <4>2 DEF Counted
      <4>4. ToVisit' /\ FoundIsCurrent'
        BY <1>1, <2>2, <3>1, <3>2, <4>1 DEF ToVisit, FoundIsCurrent
      <4> QED
        BY <2>5, <4>1, <4>3, <4>4
    <3>4. CASE x.todo # {}
      <4>1. PICK d \in x.todo : Continue(r, [x EXCEPT !.at = "storing", !.visit = d, !.todo = @ \ {d}, !.found = RowsOf(d)])
        BY <2>10, <3>4 DEF Recount
      <4>2. /\ req'[r].at = "storing" /\ req'[r].visit = d /\ req'[r].todo = x.todo \ {d}
            /\ req'[r].found = RowsOf(d) /\ req'[r].kind = x.kind
        BY <1>0, <2>3, <4>1 DEF Request
      <4>3. \A e : Pending(e) => Pending(e)'
        BY <1>1, <3>1, <4>2 DEF Pending
      <4>4. Counted'
        BY <2>2, <3>1, <3>2, <4>3 DEF Counted
      <4>5. ToVisit'
        BY <1>1, <2>2, <3>1, <3>2, <4>2 DEF ToVisit
      <4>6. FoundIsCurrent'
        BY <1>1, <2>2, <2>6, <3>1, <3>2, <4>2 DEF FoundIsCurrent
      <4> QED
        BY <2>5, <4>2, <4>4, <4>5, <4>6
    <3> QED
      BY <3>3, <3>4
  <2>11. CASE StoreSummary(r)
    <3> DEFINE q == [x EXCEPT !.at = "recounting", !.visit = NoDataset, !.found = {}]
    <3>1. /\ req'[r] = q /\ x.at = "storing" /\ UNCHANGED <<published, rows>>
          /\ summary' = IF x.visit \in published THEN [summary EXCEPT ![x.visit] = x.found \intersect Members] ELSE summary
      BY <2>3, <2>11 DEF StoreSummary
    <3>2. q.at = "recounting" /\ q.todo = x.todo /\ q.kind = x.kind
      BY <1>0 DEF Request
    <3>3. \A d : RowsOf(d)' = RowsOf(d)
      BY <3>1 DEF RowsOf
    <3> HIDE DEF q
    <3>4. Counted'
      <4> SUFFICES ASSUME NEW d \in published PROVE summary'[d] = RowsOf(d) \/ Pending(d)'
        BY <3>1, <3>3 DEF Counted
      <4>1. CASE d = x.visit
        <5>1. summary'[d] = x.found \intersect Members
          BY <1>0, <3>1, <4>1 DEF TypeOK
        <5>2. \/ x.found \intersect Members = RowsOf(d)
              \/ \E s \in Requests : req[s].at = "unpublishing" /\ d = req[s].dataset
          BY <2>2, <3>1, <4>1 DEF FoundIsCurrent
        <5>3. ASSUME NEW s \in Requests, req[s].at = "unpublishing", d = req[s].dataset PROVE Pending(d)'
          BY <1>1, <3>1, <5>3 DEF Pending
        <5> QED
          BY <5>1, <5>2, <5>3
      <4>2. CASE d # x.visit
        <5>1. summary'[d] = summary[d]
          BY <1>0, <3>1, <4>2 DEF TypeOK
        <5>2. Pending(d) => Pending(d)'
          BY <1>1, <3>1, <3>2, <4>2 DEF Pending
        <5> QED
          BY <2>2, <5>1, <5>2 DEF Counted
      <4> QED
        BY <4>1, <4>2
    <3>5. ToVisit'
      BY <1>1, <2>2, <3>1, <3>2, <3>3 DEF ToVisit
    <3>6. FoundIsCurrent'
      BY <1>1, <2>2, <3>1, <3>2, <3>3 DEF FoundIsCurrent
    <3> QED
      BY <2>5, <3>1, <3>2, <3>4, <3>5, <3>6
  <2>12. CASE DropRows(r)
    <3> DEFINE q == [x EXCEPT !.at = "unpublishing"]
    <3>1. req'[r] = q /\ x.at = "emptying" /\ UNCHANGED <<published, summary>>
          /\ rows' = {m \in rows : m[1] # x.dataset}
      BY <2>3, <2>12 DEF DropRows, At
    <3>2. q.at = "unpublishing" /\ q.dataset = x.dataset /\ q.kind = x.kind
      BY <1>0 DEF Request
    <3>3. /\ \A d : d # x.dataset => RowsOf(d)' = RowsOf(d)
          /\ \A d : RowsOf(d)' \subseteq RowsOf(d)
      BY <3>1 DEF RowsOf
    <3> HIDE DEF q
    <3>4. Counted'
      <4> SUFFICES ASSUME NEW d \in published PROVE summary[d] = RowsOf(d)' \/ Pending(d)'
        BY <3>1 DEF Counted
      <4>1. Pending(d) => Pending(d)'
        BY <1>1, <3>1 DEF Pending
      <4>2. d = x.dataset => Pending(d)'
        BY <3>1, <3>2 DEF Pending
      <4> QED
        BY <2>2, <3>3, <4>1, <4>2 DEF Counted
    <3>5. ToVisit'
      BY <1>1, <2>2, <3>1, <3>2, <3>3 DEF ToVisit
    <3>6. FoundIsCurrent'
      <4> SUFFICES ASSUME NEW s \in Requests, req'[s].at = "storing", req'[s].visit \in published
                   PROVE  (\/ req[s].found \intersect Members = RowsOf(req[s].visit)
                           \/ \E t \in Requests : req[t].at = "unpublishing" /\ req[s].visit = req[t].dataset)'
        BY <3>1 DEF FoundIsCurrent
      <4>1. req'[s] = req[s]
        BY <1>1, <3>1, <3>2
      <4>2. ASSUME NEW t \in Requests, req[t].at = "unpublishing" PROVE req'[t] = req[t]
        BY <1>1, <3>1, <4>2
      <4>3. CASE req[s].visit = x.dataset
        BY <3>1, <3>2, <4>1, <4>3
      <4>4. CASE req[s].visit # x.dataset
        <5>1. \/ req[s].found \intersect Members = RowsOf(req[s].visit)
              \/ \E t \in Requests : req[t].at = "unpublishing" /\ req[s].visit = req[t].dataset
          BY <2>2, <3>1, <4>1 DEF FoundIsCurrent
        <5>2. RowsOf(req[s].visit)' = RowsOf(req[s].visit)
          BY <3>1, <4>1, <4>4 DEF RowsOf
        <5> QED
          BY <4>1, <4>2, <5>1, <5>2
      <4> QED
        BY <4>3, <4>4
    <3> QED
      BY <2>5, <3>1, <3>2, <3>4, <3>5, <3>6
  <2>13. CASE DropVersions(r)
    <3> DEFINE q == [x EXCEPT !.at = "clearing"]
    <3>1. req'[r] = q /\ x.at = "unpublishing" /\ UNCHANGED <<rows, summary>>
          /\ published' = published \ {x.dataset}
      BY <2>3, <2>13 DEF DropVersions, At
    <3>2. q.at = "clearing" /\ q.kind = x.kind
      BY <1>0 DEF Request
    <3>3. \A d : RowsOf(d)' = RowsOf(d)
      BY <3>1 DEF RowsOf
    <3> HIDE DEF q
    <3>4. Counted'
      <4> SUFFICES ASSUME NEW d \in published, d # x.dataset PROVE summary[d] = RowsOf(d) \/ Pending(d)'
        BY <3>1, <3>3 DEF Counted
      <4>1. Pending(d) => Pending(d)'
        BY <1>1, <3>1 DEF Pending
      <4> QED
        BY <2>2, <4>1 DEF Counted
    <3>5. ToVisit'
      BY <1>1, <2>2, <3>1, <3>2, <3>3 DEF ToVisit
    <3>6. FoundIsCurrent'
      <4> SUFFICES ASSUME NEW s \in Requests, req'[s].at = "storing", req'[s].visit \in published,
                          req'[s].visit # x.dataset
                   PROVE  \/ req'[s].found \intersect Members = RowsOf(req'[s].visit)
                          \/ \E t \in Requests : req'[t].at = "unpublishing" /\ req'[s].visit = req'[t].dataset
        BY <3>1, <3>3 DEF FoundIsCurrent
      <4>1. req'[s] = req[s]
        BY <1>1, <3>1, <3>2
      <4>2. ASSUME NEW t \in Requests, req[t].at = "unpublishing", req[s].visit = req[t].dataset
            PROVE  req'[t] = req[t]
        BY <1>1, <4>1, <4>2
      <4> QED
        BY <2>2, <4>1, <4>2 DEF FoundIsCurrent
    <3> QED
      BY <2>5, <3>1, <3>2, <3>4, <3>5, <3>6
  <2> QED
    BY <1>4, <2>7, <2>8, <2>9, <2>10, <2>11, <2>12, <2>13
<1> QED
  BY <1>2, <1>3, <1>4 DEF Delete

(* CountInv holds in every state.                                          *)
LEMMA CountInvariant == Spec => []CountInv
<1>1. Init => CountInv
  <2> SUFFICES ASSUME Init PROVE OneDeletion /\ Counted /\ ToVisit /\ FoundIsCurrent
    BY DEF CountInv
  <2>1. \A r \in Requests : req[r].at = "idle" /\ req[r].kind = "none"
    BY DEF Init, NewRequest
  <2>2. published \subseteq Datasets /\ summary = [d \in Datasets |-> RowsOf(d)]
    BY DEF Init
  <2> QED
    BY <2>1, <2>2 DEF OneDeletion, Counted, ToVisit, FoundIsCurrent
<1>2. BaseInv /\ CountInv /\ [Next]_vars => CountInv'
  <2> SUFFICES ASSUME BaseInv, CountInv, [Next]_vars PROVE CountInv'
    OBVIOUS
  <2>1. CASE Next
    BY <2>1, SynchroniseCounts, DeleteCounts, FailCounts DEF Next
  <2>2. CASE UNCHANGED vars
    BY SMTT(40), <2>2 DEF vars, versions, CountInv, Correctable, Alone, OneDeletion, Counted, Pending, ToVisit, FoundIsCurrent,
               RowsOf
  <2> QED
    BY <2>1, <2>2
<1> QED
  BY <1>1, <1>2, BaseInvariant, PTL DEF Spec

(* Number, size and digest of a version are those of its members whenever  *)
(* no request is busy: whichever deletions of assets and datasets          *)
(* interleave, each version that lost members was visited afterwards.      *)
THEOREM VersionsStayCounted == Spec => []VersionsAreCounted
<1>1. CountInv => VersionsAreCounted
  <2> SUFFICES ASSUME CountInv, Quiet, Correctable, NEW d \in published PROVE summary[d] = RowsOf(d)
    BY DEF VersionsAreCounted, Correctable
  <2>1. ~Pending(d)
    BY DEF Quiet, Busy, Pending
  <2> QED
    BY <2>1 DEF CountInv, Counted
<1> QED
  BY <1>1, CountInvariant, PTL

-----------------------------------------------------------------------------
(* Revisions: the rows of a pair.                                          *)

Over == [NewRequest EXCEPT !.at = "done"]

(* The request goes on with the relations it is about.                     *)
GoesOn(r, x, q) ==
  /\ q.kind = x.kind /\ q.id = x.id /\ q.ready = x.ready
  /\ q.at \notin {"idle", "checking", "inserting", "revoking"}
  /\ q.pair = x.pair \/ (q.pair = NoPair /\ q.at = "matching")
  /\ q.at = "matching" => q.pair = NoPair
  /\ x.kind = "revoke" /\ q.at \in Synced /\ (~q.undone \/ q.at = "undoing") =>
       (x.at \in Synced /\ ~x.undone) \/ Revoke(r)

StartsOther(r) == StartAdd(r) \/ StartRemove(r) \/ StartCopy(r) \/ StartDelete(r) \/ StartDrop(r)

(* What the steps do to the relations a request is about.                  *)
LEMMA Remembered ==
  ASSUME BaseInv, NEW r \in Requests, Step(r)
  PROVE  \/ req'[r] = Over
         \/ StartCreate(r) \/ StartRevoke(r) \/ StartMatch(r) \/ StartLink(r) \/ StartUnlink(r)
         \/ StartsOther(r)
         \/ Check(r) /\ Creatable(req[r].pair)
         \/ NextPair(r)
         \/ req[r].at # "idle" /\ GoesOn(r, req[r], req'[r])
<1> DEFINE x == req[r]
           Goal == \/ req'[r] = Over
                   \/ StartCreate(r) \/ StartRevoke(r) \/ StartMatch(r) \/ StartLink(r) \/ StartUnlink(r)
                   \/ StartsOther(r)
                   \/ Check(r) /\ Creatable(req[r].pair)
                   \/ NextPair(r)
                   \/ req[r].at # "idle" /\ GoesOn(r, req[r], req'[r])
<1>0. x \in Request /\ Placed(x) /\ Expected(x) /\ req \in [Requests -> Request]
  BY DEF BaseInv, TypeInv, TypeOK
<1>1. ASSUME NEW q, Set(r, q) \/ Continue(r, q) PROVE req'[r] = q
  BY <1>0, <1>1 DEF Set, Continue
<1>2. End(r) => Goal
  BY <1>1 DEF End, Over
<1>3. ASSUME NEW s, At(r, s), s \notin Synced \union {"idle", "checking", "inserting", "revoking", "matching"},
             x.at # "idle"
      PROVE  Goal
  <2> DEFINE q == [x EXCEPT !.at = s]
  <2>1. req'[r] = q
    BY <1>1, <1>3 DEF At
  <2>2. q.at = s /\ q.kind = x.kind /\ q.id = x.id /\ q.ready = x.ready /\ q.pair = x.pair
    BY <1>0 DEF Request
  <2> HIDE DEF q, x
  <2>3. GoesOn(r, x, q)
    BY <1>3, <2>2 DEF GoesOn
  <2> QED
    BY <1>3, <2>1, <2>3 DEF x
<1>4. ASSUME NEW q, Set(r, q) \/ Continue(r, q), x.at # "idle",
             q.kind = x.kind, q.id = x.id, q.ready = x.ready, q.pair = x.pair, q.undone = x.undone,
             q.at \notin {"idle", "checking", "inserting", "revoking", "matching", "undoing"},
             q.at \in Synced => x.at \in Synced \/ Revoke(r) \/ x.kind # "revoke"
      PROVE  Goal
  <2>1. req'[r] = q
    BY <1>1, <1>4
  <2> QED
    BY <1>4, <2>1 DEF GoesOn
<1>5. CASE Synchronise(r)
  <2>1. CASE ListImageDatasets(r)
    BY <1>0, <1>4, <2>1 DEF ListImageDatasets, Request, Synced
  <2>2. CASE CompareMembers(r)
    <3>1. x.at = "comparing"
      BY <2>2 DEF CompareMembers
    <3>2. CASE \E d : Compare(r, d)
      BY <1>0, <1>4, <3>1, <3>2 DEF Compare, Request, Synced
    <3>3. CASE \E d : Continue(r, [x EXCEPT !.todo = @ \ {d}])
      BY <1>0, <1>4, <3>1, <3>3 DEF Request, Synced
    <3> QED
      BY <2>2, <3>2, <3>3 DEF CompareMembers
  <2>3. CASE Include(r)
    BY <1>0, <1>4, <2>3 DEF Include, Request, Synced
  <2>4. CASE Exclude(r)
    BY <1>0, <1>4, <2>4 DEF Exclude, Request, Synced
  <2>5. CASE Synchronised(r)
    <3>1. CASE ~End(r)
      <4> DEFINE q == [x EXCEPT !.at = "matching", !.pair = NoPair]
      <4>1. req'[r] = q /\ x.at = "comparing"
        BY <1>1, <2>5, <3>1 DEF Synchronised
      <4>2. q.at = "matching" /\ q.kind = x.kind /\ q.id = x.id /\ q.ready = x.ready /\ q.pair = NoPair
        BY <1>0 DEF Request
      <4> HIDE DEF q, x
      <4>3. GoesOn(r, x, q)
        BY <4>2 DEF GoesOn, Synced
      <4> QED
        BY <4>1, <4>3 DEF x
    <3> QED
      BY <1>2, <3>1
  <2> QED
    BY <1>5, <2>1, <2>2, <2>3, <2>4, <2>5 DEF Synchronise
<1>6. CASE Relate(r)
  <2>1. CASE Check(r)
    <3>1. CASE ~End(r) /\ Refused(r)
      <4> DEFINE q == [x EXCEPT !.at = "matching", !.pair = NoPair]
      <4>1. req'[r] = q /\ x.at = "checking"
        BY <1>1, <2>1, <3>1 DEF Refused, Check
      <4>2. q.at = "matching" /\ q.kind = x.kind /\ q.id = x.id /\ q.ready = x.ready /\ q.pair = NoPair
        BY <1>0 DEF Request
      <4> HIDE DEF q, x
      <4>3. GoesOn(r, x, q)
        BY <4>2 DEF GoesOn, Synced
      <4> QED
        BY <4>1, <4>3 DEF x
    <3> QED
      BY <1>2, <2>1, <3>1 DEF Check
  <2>2. CASE Insert(r)
    <3>1. CASE ~End(r)
      <4>1. Continue(r, [x EXCEPT !.at = "listing"]) /\ x.at = "inserting"
        BY <2>2, <3>1 DEF Insert
      <4>2. x.kind # "revoke"
        BY <1>0, <4>1 DEF Placed, StepsOf, Synced
      <4> QED
        BY <1>0, <1>4, <4>1, <4>2 DEF Request, Synced
    <3> QED
      BY <1>2, <3>1
  <2>3. CASE Revoke(r)
    <3>1. CASE ~End(r)
      <4>1. Set(r, [x EXCEPT !.at = "listing"]) /\ x.at = "revoking"
        BY <2>3, <3>1 DEF Revoke, At
      <4> QED
        BY <1>0, <1>4, <2>3, <4>1 DEF Request, Synced
    <3> QED
      BY <1>2, <3>1
  <2> QED
    BY <1>6, <2>1, <2>2, <2>3 DEF Relate
<1>7. CASE ChangeMembers(r)
  <2>0. x.at \in {"adding", "removing", "creating", "collecting", "filling"} => x.kind # "revoke"
    BY <1>0 DEF Placed, StepsOf, Synced
  <2>1. CASE AddMember(r)
    BY <1>0, <1>4, <2>0, <2>1 DEF AddMember, Request, Synced
  <2>2. CASE Added(r)
    BY <1>0, <1>4, <2>0, <2>2 DEF Added, Adjust, Request, Synced
  <2>3. CASE RemoveMembers(r)
    BY <1>0, <1>4, <2>0, <2>3 DEF RemoveMembers, Adjust, Request, Synced
  <2>4. CASE CreateCopy(r)
    BY <1>0, <1>4, <2>0, <2>4 DEF CreateCopy, Request, Synced
  <2>5. CASE CollectMembers(r)
    BY <1>0, <1>4, <2>0, <2>5 DEF CollectMembers, Request, Synced
  <2>6. CASE FillCopy(r)
    BY <1>0, <1>4, <2>0, <2>6 DEF FillCopy, Adjust, Request, Synced
  <2> QED
    BY <1>7, <2>1, <2>2, <2>3, <2>4, <2>5, <2>6 DEF ChangeMembers, StartsOther
<1>8. CASE Delete(r)
  <2>1. CASE Confirm(r)
    BY <1>2, <1>3, <2>1 DEF Confirm, Synced
  <2>2. CASE ArchiveAssets(r)
    BY <1>0, <1>2, <1>4, <2>2 DEF ArchiveAssets, Request, Synced
  <2>3. CASE RemoveFromDatasets(r)
    BY <1>0, <1>4, <2>3 DEF RemoveFromDatasets, Request, Synced
  <2>4. CASE RemoveFromVersions(r) \/ RemoveRelations(r)
    BY <1>3, <2>4 DEF RemoveFromVersions, RemoveRelations, Synced
  <2>5. CASE Recount(r)
    BY <1>0, <1>2, <1>4, <2>5 DEF Recount, Request, Synced
  <2>6. CASE StoreSummary(r)
    BY <1>0, <1>4, <2>6 DEF StoreSummary, Request, Synced
  <2>7. CASE RestoreTrash(r) \/ CloseDataset(r)
    BY <1>2, <2>7 DEF RestoreTrash, CloseDataset
  <2>8. CASE DropRelations(r) \/ DropRows(r) \/ DropVersions(r) \/ DropMembers(r)
    BY <1>3, <2>8 DEF DropRelations, DropRows, DropVersions, DropMembers, Synced
  <2> QED
    BY <1>8, <2>1, <2>2, <2>3, <2>4, <2>5, <2>6, <2>7, <2>8 DEF Delete, StartsOther
<1>9. CASE Fail(r)
  <2>1. CASE SyncRaises(r)
    <3> DEFINE q == [x EXCEPT !.at = "undoing", !.undone = TRUE, !.todo = {}, !.visit = NoDataset,
                              !.in = {}, !.out = {}]
    <3>1. req'[r] = q /\ x.at \in Synchronising /\ ~x.undone
      BY <1>1, <2>1 DEF SyncRaises
    <3>2. q.at = "undoing" /\ q.kind = x.kind /\ q.id = x.id /\ q.ready = x.ready /\ q.pair = x.pair
      BY <1>0 DEF Request
    <3>3. x.kind = "revoke" => x.at \in Synced
      BY <1>0, <3>1 DEF Placed, StepsOf, Synchronising, Synced
    <3> HIDE DEF q, x
    <3>4. GoesOn(r, x, q) /\ x.at # "idle"
      BY <3>1, <3>2, <3>3 DEF GoesOn, Synchronising
    <3> QED
      BY <3>1, <3>4 DEF x
  <2>2. CASE Undo(r)
    <3>1. x.at = "undoing"
      BY <2>2 DEF Undo
    <3>2. CASE UndoRelation(r)
      BY <1>0, <1>4, <3>1, <3>2 DEF UndoRelation, At, Request, Synced
    <3>3. CASE UndoMembers(r)
      BY <1>0, <1>4, <3>1, <3>3 DEF UndoMembers, Request, Synced
    <3> QED
      BY <2>2, <3>2, <3>3 DEF Undo
  <2>3. CASE AbandonCopy(r)
    BY <1>3, <2>3 DEF AbandonCopy, Synced
  <2> QED
    BY <1>2, <1>9, <2>1, <2>2, <2>3 DEF Fail, RemoveCopy, UndoRaises, Crash
<1> QED
  BY <1>5, <1>6, <1>7, <1>8, <1>9 DEF Step

(* A row keeps its pair, revision and id; its status may change.           *)
Moved(x, y, p, id, old, new) ==
  /\ y.pair = x.pair /\ y.revision = x.revision /\ y.id = x.id
  /\ y.status = IF x.pair = p /\ x.id = id /\ x.status = old THEN new ELSE x.status

(* The rows after a revocation or its undoing, one by one.                 *)
LEMMA SetRowMoves ==
  ASSUME relations \subseteq Row, NEW p, NEW id, NEW old, NEW new, SetRow(p, id, old, new)
  PROVE  /\ \A y \in relations' : \E x \in relations : Moved(x, y, p, id, old, new)
         /\ \A x \in relations : \E y \in relations' : Moved(x, y, p, id, old, new)
<1> DEFINE F(x) == IF x.pair = p /\ x.id = id /\ x.status = old THEN [x EXCEPT !.status = new] ELSE x
<1>1. relations' = {F(x) : x \in relations}
  BY DEF SetRow
<1>2. ASSUME NEW x \in relations PROVE Moved(x, F(x), p, id, old, new)
  <2>1. x \in Row
    OBVIOUS
  <2> QED
    BY <2>1 DEF Moved, Row
<1> HIDE DEF F
<1> QED
  BY <1>1, <1>2

(* A request that is about something is busy.                              *)
LEMMA KindsAreBusy ==
  ASSUME TypeInv
  PROVE  \A r \in Requests : req[r].kind # "none" => Busy(r)
<1> SUFFICES ASSUME NEW r \in Requests, req[r].kind # "none" PROVE Busy(r)
  OBVIOUS
<1>1. req[r] \in Request /\ req[r].at \in StepsOf[req[r].kind]
  BY DEF TypeInv, TypeOK, Placed
<1> QED
  BY <1>1 DEF StepsOf, Request, Kinds, Synced, Busy

(* What the steps do to the rows.                                          *)
Removing(r) == req[r].at \in {"unrelating", "dropping"} /\ relations' \subseteq relations
Inserting(r) ==
  /\ Insert(r)
  /\ ~Taken(req[r].pair, req[r].revision)
  /\ relations' = relations \union
       {[pair |-> req[r].pair, revision |-> req[r].revision, id |-> r, status |-> "active"]}

(* A step removes rows, adds one, changes the status of one, or none.      *)
LEMMA Rewritten ==
  ASSUME NEW r \in Requests, Step(r)
  PROVE  \/ UNCHANGED relations /\ ~Revoke(r)
         \/ Inserting(r)
         \/ Revoke(r)
         \/ req[r].at = "undoing" /\ UndoRelation(r)
         \/ Removing(r)
<1> DEFINE Goal == \/ UNCHANGED relations /\ ~Revoke(r)
                   \/ Inserting(r)
                   \/ Revoke(r)
                   \/ req[r].at = "undoing" /\ UndoRelation(r)
                   \/ Removing(r)
<1>1. CASE Synchronise(r)
  BY <1>1 DEF Synchronise, ListImageDatasets, CompareMembers, Include, Exclude, Synchronised
<1>2. CASE Relate(r)
  <2>1. CASE Insert(r)
    BY <2>1 DEF Insert, Inserting
  <2>2. CASE ~Insert(r)
    BY <1>2, <2>2 DEF Relate, StartCreate, Check, StartRevoke, StartMatch, NextPair, StartLink, StartUnlink, Start
  <2> QED
    BY <2>1, <2>2
<1>3. CASE ChangeMembers(r)
  BY <1>3 DEF ChangeMembers, StartAdd, AddMember, Added, StartRemove, RemoveMembers, StartCopy, CreateCopy,
             CollectMembers, FillCopy, Start
<1>4. CASE Delete(r)
  <2>1. CASE RemoveRelations(r) \/ DropRelations(r)
    BY <2>1 DEF RemoveRelations, DropRelations, Removing
  <2>2. CASE ~(RemoveRelations(r) \/ DropRelations(r))
    BY <1>4, <2>2 DEF Delete, StartDelete, Confirm, ArchiveAssets, RemoveFromDatasets, RemoveFromVersions, Recount,
                 StoreSummary, RestoreTrash, StartDrop, DropRows, DropVersions, DropMembers, CloseDataset, Start
  <2> QED
    BY <2>1, <2>2
<1>5. CASE Fail(r)
  BY <1>5 DEF Fail, SyncRaises, Undo, UndoMembers, AbandonCopy, RemoveCopy, UndoRaises, Crash
<1> QED
  BY <1>1, <1>2, <1>3, <1>4, <1>5 DEF Step

-----------------------------------------------------------------------------
(* A request creates a relation of its own at most once: rows of one pair  *)
(* differ in the request that made them.                                   *)
RowsDiffer == \A x, y \in relations : x.pair = y.pair /\ x.id = y.id => x = y
RowsAreOwn ==
  \A x \in relations, r \in Requests : x.id = r =>
    /\ req[r].at # "idle"
    /\ x.pair \notin req[r].ready
    /\ req[r].at \in {"checking", "inserting"} => x.pair # req[r].pair
ChoiceIsTaken == \A r \in Requests : req[r].at \in {"checking", "inserting"} => req[r].pair \notin req[r].ready
IdsInv == RowsDiffer /\ RowsAreOwn /\ ChoiceIsTaken

(* Each request adds a row for a pair at most once.                        *)
LEMMA RowsStayDifferent ==
  ASSUME BaseInv, IdsInv, NEW r \in Requests, Step(r)
  PROVE  RowsDiffer'
<1>1. relations \subseteq Row /\ relations' \subseteq Row
  <2>1. TypeInv'
    BY SynchroniseTypes, RelateTypes, ChangeMembersTypes, DeleteTypes, FailTypes DEF Step, BaseInv
  <2> QED
    BY <2>1 DEF BaseInv, TypeInv, TypeOK
<1>2. CASE relations' \subseteq relations
  BY <1>2 DEF IdsInv, RowsDiffer
<1>3. CASE Inserting(r)
  <2> DEFINE new == [pair |-> req[r].pair, revision |-> req[r].revision, id |-> r, status |-> "active"]
  <2>1. relations' = relations \union {new} /\ req[r].at = "inserting"
    BY <1>3 DEF Inserting, Insert
  <2>2. \A x \in relations : ~(x.pair = new.pair /\ x.id = new.id)
    BY <2>1 DEF IdsInv, RowsAreOwn
  <2> HIDE DEF new
  <2> QED
    BY <2>1, <2>2 DEF IdsInv, RowsDiffer
<1>4. ASSUME NEW p, NEW id, NEW old, NEW new, SetRow(p, id, old, new) PROVE RowsDiffer'
  <2> SUFFICES ASSUME NEW x \in relations', NEW y \in relations', x.pair = y.pair, x.id = y.id PROVE x = y
    BY DEF RowsDiffer
  <2>1. PICK v \in relations : Moved(v, x, p, id, old, new)
    BY <1>1, <1>4, SetRowMoves
  <2>2. PICK w \in relations : Moved(w, y, p, id, old, new)
    BY <1>1, <1>4, SetRowMoves
  <2>3. v = w
    BY <2>1, <2>2 DEF Moved, IdsInv, RowsDiffer
  <2>4. x.revision = y.revision /\ x.status = y.status
    BY <2>1, <2>2, <2>3 DEF Moved
  <2> QED
    BY <1>1, <2>4 DEF Row
<1>5. CASE Revoke(r)
  BY <1>4, <1>5 DEF Revoke
<1>6. CASE UndoRelation(r)
  <2>1. CASE req[r].kind = "revoke"
    BY <1>4, <1>6, <2>1 DEF UndoRelation
  <2>2. CASE req[r].kind # "revoke"
    BY <1>2, <1>6, <2>2 DEF UndoRelation
  <2> QED
    BY <2>1, <2>2
<1> QED
  BY <1>2, <1>3, <1>5, <1>6, Rewritten DEF Removing

(* A row of the next state is one of before, or the new one.               *)
LEMMA RowsComeFrom ==
  ASSUME BaseInv, NEW r \in Requests, Step(r), NEW y \in relations'
  PROVE  \/ \E x \in relations : x.pair = y.pair /\ x.id = y.id
         \/ Inserting(r) /\ y.pair = req[r].pair /\ y.id = r
<1>1. relations \subseteq Row
  BY DEF BaseInv, TypeInv, TypeOK
<1>2. CASE relations' \subseteq relations
  BY <1>2
<1>3. CASE Inserting(r)
  BY <1>3 DEF Inserting
<1>4. ASSUME NEW p, NEW id, NEW old, NEW new, SetRow(p, id, old, new)
      PROVE  \E x \in relations : x.pair = y.pair /\ x.id = y.id
  BY <1>1, <1>4, SetRowMoves DEF Moved
<1>5. CASE Revoke(r)
  BY <1>4, <1>5 DEF Revoke
<1>6. CASE UndoRelation(r)
  <2>1. CASE req[r].kind = "revoke"
    BY <1>4, <1>6, <2>1 DEF UndoRelation
  <2>2. CASE req[r].kind # "revoke"
    BY <1>2, <1>6, <2>2 DEF UndoRelation
  <2> QED
    BY <2>1, <2>2
<1> QED
  BY <1>2, <1>3, <1>5, <1>6, Rewritten DEF Removing

(* Every step keeps a pair and a request from having two rows.             *)
LEMMA IdsStep ==
  ASSUME BaseInv, IdsInv, NEW r \in Requests, Step(r)
  PROVE  IdsInv'
<1> DEFINE x == req[r]
           q == req'[r]
           Chosen(s) == s.at \in {"checking", "inserting"}
<1>0. x \in Request /\ Placed(x) /\ req \in [Requests -> Request]
  BY DEF BaseInv, TypeInv, TypeOK
<1>1. \A s \in Requests : s # r => req'[s] = req[s]
  BY StepFrame DEF BaseInv
<1>2. ASSUME NEW s, Set(r, s) \/ Continue(r, s) PROVE q = s
  BY <1>0, <1>2 DEF Set, Continue
<1>3. /\ q.at # "idle"
      /\ x.at # "idle" => q.ready \subseteq x.ready
      /\ Chosen(q) => q.pair \notin q.ready /\ (x.at = "idle" \/ q.pair \in x.ready \/ (q.pair = x.pair /\ Chosen(x)))
  <2>1. CASE q = Over
    BY <2>1 DEF Over, NewRequest
  <2>2. CASE StartCreate(r) \/ StartRevoke(r) \/ StartLink(r) \/ StartUnlink(r)
    <3>1. x.at = "idle"
      BY <2>2 DEF StartCreate, StartRevoke, StartLink, StartUnlink, Start
    <3>2. q.at # "idle" /\ q.ready = {}
      <4>1. CASE StartCreate(r)
        BY ZenonT(40), <1>2, <4>1 DEF StartCreate, NewRequest
      <4>2. CASE StartRevoke(r)
        BY ZenonT(40), <1>2, <4>2 DEF StartRevoke, NewRequest
      <4>3. CASE StartLink(r)
        BY ZenonT(40), <1>2, <4>3 DEF StartLink, NewRequest
      <4>4. CASE StartUnlink(r)
        BY ZenonT(40), <1>2, <4>4 DEF StartUnlink, NewRequest
      <4> QED
        BY <2>2, <4>1, <4>2, <4>3, <4>4
    <3> QED
      BY <3>1, <3>2
  <2>3. CASE StartMatch(r) \/ StartsOther(r)
    <3>1. x.at = "idle"
      BY <2>3 DEF StartMatch, StartsOther, StartAdd, StartRemove, StartCopy, StartDelete, StartDrop, Start
    <3>2. q.at # "idle" /\ ~Chosen(q)
      <4>1. CASE StartMatch(r)
        BY ZenonT(40), <1>2, <4>1 DEF StartMatch, NewRequest
      <4>2. CASE StartAdd(r)
        BY ZenonT(40), <1>2, <4>2 DEF StartAdd, NewRequest
      <4>3. CASE StartRemove(r)
        BY ZenonT(40), <1>2, <4>3 DEF StartRemove, NewRequest
      <4>4. CASE StartCopy(r)
        BY ZenonT(40), <1>2, <4>4 DEF StartCopy, NewRequest
      <4>5. CASE StartDelete(r)
        BY ZenonT(40), <1>2, <4>5 DEF StartDelete, NewRequest
      <4>6. CASE StartDrop(r)
        BY ZenonT(40), <1>2, <4>6 DEF StartDrop, NewRequest
      <4> QED
        BY <2>3, <4>1, <4>2, <4>3, <4>4, <4>5, <4>6 DEF StartsOther
    <3> QED
      BY <3>1, <3>2
  <2>4. CASE Check(r) /\ Creatable(x.pair)
    <3>1. x.at = "checking" /\ \E n : Continue(r, [x EXCEPT !.at = "inserting", !.revision = n])
      BY <2>4 DEF Check
    <3>2. q.at = "inserting" /\ q.pair = x.pair /\ q.ready = x.ready
      BY <1>0, <1>2, <3>1 DEF Request
    <3> QED
      BY <3>1, <3>2 DEF IdsInv, ChoiceIsTaken
  <2>5. CASE NextPair(r)
    <3>1. CASE End(r)
      BY <1>2, <3>1 DEF End, NewRequest
    <3>2. CASE ~End(r)
      <4>1. PICK p \in x.ready : Continue(r, [x EXCEPT !.at = "checking", !.pair = p, !.ready = @ \ {p}])
        BY <2>5, <3>2 DEF NextPair
      <4>2. q.at = "checking" /\ q.pair = p /\ q.ready = x.ready \ {p}
        BY <1>0, <1>2, <4>1 DEF Request
      <4> QED
        BY <4>2
    <3> QED
      BY <3>1, <3>2
  <2>6. CASE x.at # "idle" /\ GoesOn(r, x, q)
    BY <2>6 DEF GoesOn
  <2> QED
    BY <2>1, <2>2, <2>3, <2>4, <2>5, <2>6, Remembered
<1>4. Inserting(r) => x.at = "inserting" /\ ~Chosen(q)
  <2> SUFFICES ASSUME Inserting(r) PROVE x.at = "inserting" /\ ~Chosen(q)
    OBVIOUS
  <2>1. x.at = "inserting" /\ (End(r) \/ Continue(r, [x EXCEPT !.at = "listing"]))
    BY DEF Inserting, Insert
  <2> QED
    BY <1>0, <1>2, <2>1 DEF End, NewRequest, Request
<1> HIDE DEF x, q
<1>5. ChoiceIsTaken'
  BY <1>1, <1>3 DEF IdsInv, ChoiceIsTaken, x, q
<1>6. RowsAreOwn'
  <2> SUFFICES ASSUME NEW y \in relations', NEW s \in Requests, y.id = s
               PROVE  /\ req'[s].at # "idle"
                      /\ y.pair \notin req'[s].ready
                      /\ Chosen(req'[s]) => y.pair # req'[s].pair
    BY DEF RowsAreOwn
  <2>1. CASE Inserting(r) /\ y.pair = x.pair /\ y.id = r
    <3>1. x.pair \notin x.ready
      BY <1>4, <2>1 DEF IdsInv, ChoiceIsTaken, x
    <3> QED
      BY <1>3, <1>4, <2>1, <3>1 DEF x, q
  <2>2. CASE \E v \in relations : v.pair = y.pair /\ v.id = y.id
    <3>1. /\ req[s].at # "idle"
          /\ y.pair \notin req[s].ready
          /\ Chosen(req[s]) => y.pair # req[s].pair
      BY <2>2 DEF IdsInv, RowsAreOwn
    <3>2. CASE s = r
      BY <1>3, <3>1, <3>2 DEF x, q
    <3> QED
      BY <1>1, <3>1, <3>2
  <2> QED
    BY <2>1, <2>2, RowsComeFrom DEF x
<1> QED
  BY <1>5, <1>6, RowsStayDifferent DEF IdsInv

(* A set of natural numbers up to n has a greatest one.                    *)
Above(S, c) == {b \in S : c < b}

LEMMA GreatestExists ==
  ASSUME NEW n \in Nat, NEW S \in SUBSET (1 .. n), S # {}
  PROVE  \E c \in S : \A b \in S : b <= c
<1> DEFINE F == {Above(S, c) : c \in S}
<1>0. IsFiniteSet(S)
  <2>1. IsFiniteSet(1 .. n)
    BY FS_Interval
  <2> QED
    BY <2>1, FS_Subset
<1>1. F \subseteq FiniteSubsetsOf(S)
  <2>1. \A c \in S : IsFiniteSet(Above(S, c)) /\ Above(S, c) \in SUBSET S
    BY <1>0, FS_Subset DEF Above
  <2> QED BY <2>1 DEF FiniteSubsetsOf
<1>2. \E x \in F : \A y \in F : ~(<<y, x>> \in StrictSubsetOrdering(S))
  <2>1. F # {}
    OBVIOUS
  <2> HIDE DEF F
  <2> QED BY <1>0, <1>1, <2>1, FS_StrictSubsetOrderingWellFounded, WFMin
<1>3. PICK c \in S : \A b \in S : ~(<<Above(S, b), Above(S, c)>> \in StrictSubsetOrdering(S))
  BY <1>2
<1>4. ASSUME NEW b \in S, c < b PROVE FALSE
  <2>0. \A a \in S : a \in Nat
    OBVIOUS
  <2>9. ~(b < b) /\ \A a \in S : b < a => c < a
    BY <1>4, <2>0
  <2>1. Above(S, b) \subseteq Above(S, c) /\ b \in Above(S, c) /\ b \notin Above(S, b)
    BY <1>4, <2>9 DEF Above
  <2>2. Above(S, b) \in SUBSET S /\ Above(S, c) \in SUBSET S
    BY DEF Above
  <2>3. Above(S, b) # Above(S, c)
    BY <2>1
  <2>4. <<Above(S, b), Above(S, c)>> \in StrictSubsetOrdering(S)
    BY <2>1, <2>2, <2>3 DEF StrictSubsetOrdering
  <2> QED BY <1>3, <2>4
<1>5. \A a \in S : a \in Nat
  OBVIOUS
<1> QED
  BY <1>4, <1>5

(* A pair with rows has a latest one.                                      *)
LEMMA LatestExists ==
  ASSUME relations \subseteq Row, NEW p, RowsFor(p) # {}
  PROVE  Latest(p) # {}
<1> DEFINE S == {x.revision : x \in RowsFor(p)}
<1>1. S \in SUBSET (1 .. Revisions) /\ S # {}
  BY DEF RowsFor, Row
<1>2. PICK c \in S : \A b \in S : b <= c
  BY <1>1, BoundsAssumption, GreatestExists
<1>3. PICK x \in RowsFor(p) : x.revision = c
  OBVIOUS
<1>4. \A y \in RowsFor(p) : y.revision <= x.revision
  BY <1>2, <1>3
<1> QED
  BY <1>3, <1>4 DEF Latest

-----------------------------------------------------------------------------
(* Rows of a pair bear different revisions and only the highest is active. *)
(* A request about to insert a row has decided on the next revision; when  *)
(* that is taken by now, the unique index refuses it.                      *)
RevisionsDiffer == \A x, y \in relations : x.pair = y.pair /\ x.revision = y.revision => x = y
ActiveIsLatest == \A x, y \in relations : x.pair = y.pair /\ x.status = "active" => y.revision <= x.revision
Follower(p, n) == n = 1 \/ Taken(p, n - 1)
Free(p, n) == \A x \in RowsFor(p) : x.revision < n /\ x.status # "active"
DecisionsHold ==
  \A r \in Requests : req[r].at = "inserting" =>
    /\ Follower(req[r].pair, req[r].revision)
    /\ Taken(req[r].pair, req[r].revision) \/ Free(req[r].pair, req[r].revision)

(* A revocation that is alone is about the highest row, and finds no       *)
(* active row when it takes the revocation back.                           *)
RevocationHolds(q) ==
  q.kind = "revoke" =>
    /\ \A x, y \in RowsFor(q.pair) : x.id = q.id => y.revision <= x.revision
    /\ q.at = "revoking" => \E x \in RowsFor(q.pair) : x.id = q.id
    /\ q.at \in Synced /\ (~q.undone \/ q.at = "undoing") => \A x \in RowsFor(q.pair) : x.status = "revoked"
RevocationsHold == Sequential => \A r \in Requests : RevocationHolds(req[r])

PairParts == RevisionsDiffer /\ ActiveIsLatest /\ DecisionsHold /\ RevocationsHold
PairInv == Alone({"error", "delete", "drop"}) => PairParts

(* The check before an insertion decides on the next revision.             *)
LEMMA CheckDecides ==
  ASSUME BaseInv, RevisionsDiffer, ActiveIsLatest, NEW r \in Requests, Check(r), Creatable(req[r].pair)
  PROVE  LET n == req'[r].revision IN
           /\ req'[r].at = "inserting" /\ req'[r].pair = req[r].pair /\ req'[r].kind = req[r].kind
           /\ Follower(req[r].pair, n) /\ Free(req[r].pair, n)
<1> DEFINE x == req[r]
           p == x.pair
           next == IF Latest(p) = {} THEN 1 ELSE (CHOOSE y \in Latest(p) : TRUE).revision + 1
           q == [x EXCEPT !.at = "inserting", !.revision = next]
<1>0. x \in Request /\ req \in [Requests -> Request] /\ relations \subseteq Row
  BY DEF BaseInv, TypeInv, TypeOK
<1>1. Continue(r, q)
  BY DEF Check
<1>2. req'[r] = q
  BY <1>0, <1>1 DEF Continue, Set
<1>3. q.at = "inserting" /\ q.pair = p /\ q.revision = next /\ q.kind = x.kind
  BY <1>0 DEF Request
<1>4. \A y \in RowsFor(p) : y.revision \in Nat /\ y \in relations /\ y.pair = p
  BY <1>0, BoundsAssumption DEF RowsFor, Row
<1>5. \A y \in RowsFor(p) : y.status # "active"
  <2> SUFFICES ASSUME NEW y \in RowsFor(p), y.status = "active" PROVE FALSE
    OBVIOUS
  <2>1. y \in Latest(p)
    BY <1>4 DEF ActiveIsLatest, Latest
  <2> QED
    BY <2>1 DEF Creatable
<1>6. CASE Latest(p) = {}
  <2>1. RowsFor(p) = {} /\ next = 1
    BY <1>0, <1>6, LatestExists
  <2> HIDE DEF q, next, p
  <2> QED
    BY <1>2, <1>3, <2>1 DEF Follower, Free, p
<1>7. CASE Latest(p) # {}
  <2> DEFINE y == CHOOSE z \in Latest(p) : TRUE
  <2>1. y \in Latest(p) /\ next = y.revision + 1
    BY <1>7
  <2> HIDE DEF y, next
  <2>2. y \in RowsFor(p) /\ \A z \in RowsFor(p) : z.revision <= y.revision
    BY <2>1 DEF Latest
  <2>3. y.revision \in Nat /\ y \in relations /\ y.pair = p /\ next - 1 = y.revision
    BY <1>4, <2>1, <2>2
  <2>4. Follower(p, next)
    BY <2>3 DEF Follower, Taken
  <2>5. Free(p, next)
    BY <1>4, <1>5, <2>1, <2>2, <2>3 DEF Free
  <2> HIDE DEF q, p
  <2> QED
    BY <1>2, <1>3, <2>4, <2>5 DEF p
<1> QED
  BY <1>6, <1>7

(* What a request that is about to insert or to revoke has come from.      *)
LEMMA Decided ==
  ASSUME BaseInv, NEW r \in Requests, Step(r)
  PROVE  /\ req'[r].at = "inserting" => Check(r) /\ Creatable(req[r].pair)
         /\ req'[r].kind = "revoke" => StartRevoke(r) \/ (req[r].kind = "revoke" /\ GoesOn(r, req[r], req'[r]))
<1> DEFINE x == req[r]
           q == req'[r]
<1>0. x \in Request /\ Placed(x) /\ req \in [Requests -> Request]
  BY DEF BaseInv, TypeInv, TypeOK
<1>2. ASSUME NEW s, Set(r, s) \/ Continue(r, s) PROVE q = s
  BY <1>0, <1>2 DEF Set, Continue
<1>3. CASE q = Over
  BY <1>3 DEF Over, NewRequest
<1>4. CASE StartCreate(r)
  BY ZenonT(40), <1>2, <1>4 DEF StartCreate, NewRequest
<1>5. CASE StartRevoke(r)
  BY ZenonT(40), <1>2, <1>5 DEF StartRevoke, NewRequest
<1>6. CASE StartMatch(r)
  BY ZenonT(40), <1>2, <1>6 DEF StartMatch, NewRequest
<1>7. CASE StartLink(r)
  BY ZenonT(40), <1>2, <1>7 DEF StartLink, NewRequest
<1>8. CASE StartUnlink(r)
  BY ZenonT(40), <1>2, <1>8 DEF StartUnlink, NewRequest
<1>9. CASE StartsOther(r)
  <2>1. CASE StartAdd(r)
    BY ZenonT(40), <1>2, <2>1 DEF StartAdd, NewRequest
  <2>2. CASE StartRemove(r)
    BY ZenonT(40), <1>2, <2>2 DEF StartRemove, NewRequest
  <2>3. CASE StartCopy(r)
    BY ZenonT(40), <1>2, <2>3 DEF StartCopy, NewRequest
  <2>4. CASE StartDelete(r)
    <3>1. q.kind = "delete" /\ q.at \in {"archiving", "confirming"}
      BY ZenonT(40), <1>2, <2>4 DEF StartDelete, NewRequest
    <3> QED
      BY <3>1
  <2>5. CASE StartDrop(r)
    BY ZenonT(40), <1>2, <2>5 DEF StartDrop, NewRequest
  <2> QED
    BY <1>9, <2>1, <2>2, <2>3, <2>4, <2>5 DEF StartsOther
<1>10. CASE Check(r) /\ Creatable(x.pair)
  <2>1. x.at = "checking" /\ \E n : Continue(r, [x EXCEPT !.at = "inserting", !.revision = n])
    BY <1>10 DEF Check
  <2>2. q.kind = x.kind
    BY <1>0, <1>2, <2>1 DEF Request
  <2>3. x.kind # "revoke"
    BY <1>0, <2>1 DEF Placed, StepsOf, Synced
  <2> QED
    BY <1>10, <2>2, <2>3
<1>11. CASE NextPair(r)
  <2>1. CASE End(r)
    BY <1>2, <2>1 DEF End, NewRequest
  <2>2. CASE ~End(r)
    <3>1. PICK p \in x.ready : Continue(r, [x EXCEPT !.at = "checking", !.pair = p, !.ready = @ \ {p}])
      BY <1>11, <2>2 DEF NextPair
    <3>2. q.at = "checking" /\ q.kind = x.kind /\ x.at = "matching"
      BY ZenonT(40), <1>0, <1>2, <1>11, <3>1 DEF Request, NextPair
    <3>3. x.kind # "revoke"
      BY <1>0, <3>2 DEF Placed, StepsOf, Synced
    <3> QED
      BY <3>2, <3>3
  <2> QED
    BY <2>1, <2>2
<1>12. CASE GoesOn(r, x, q)
  BY <1>12 DEF GoesOn
<1> QED
  BY <1>3, <1>4, <1>5, <1>6, <1>7, <1>8, <1>9, <1>10, <1>11, <1>12, Remembered

(* Requests for which a row is gone, or active again, are alone.           *)
LEMMA RemovalsAreAlone ==
  ASSUME BaseInv, Alone({"error", "delete", "drop"}), NEW r \in Requests, Step(r),
         req[r].at \in {"undoing", "unrelating", "dropping"}
  PROVE  /\ Sequential
         /\ \A s \in Requests : s # r => ~Busy(s)' /\ req'[s].kind = "none" /\ req'[s].at # "inserting"
<1>1. Expected(req[r]) /\ req[r] \in Request /\ Placed(req[r])
  BY DEF BaseInv, TypeInv, TypeOK
<1>2. events \intersect {"error", "delete", "drop"} # {}
  <2>1. CASE req[r].at = "undoing"
    BY <1>1, <2>1 DEF Expected
  <2>2. CASE req[r].at \in {"unrelating", "dropping"}
    <3>1. req[r].kind \in {"delete", "drop"}
      BY <1>1, <2>2 DEF Placed, StepsOf, Synced, Request, Kinds
    <3> QED
      BY <1>1, <3>1 DEF Expected, EventOf
  <2> QED
    BY <2>1, <2>2
<1>3. Sequential
  BY <1>2 DEF Alone, Sequential
<1>4. \A s \in Requests : s # r => ~Busy(s) /\ ~Busy(s)' /\ req'[s] = req[s]
  BY <1>3, OneStep, StepFrame DEF BaseInv
<1> QED
  BY <1>3, <1>4, KindsAreBusy DEF BaseInv, Busy

(* A request inserts the row of the pair it has checked.                   *)
LEMMA InsertingPairs ==
  ASSUME BaseInv, IdsInv, PairParts, NEW r \in Requests, Step(r), Inserting(r)
  PROVE  PairParts'
<1> DEFINE x == req[r]
           p == x.pair
           n == x.revision
           new == [pair |-> p, revision |-> n, id |-> r, status |-> "active"]
<1>0. x \in Request /\ Placed(x) /\ req \in [Requests -> Request] /\ relations \subseteq Row
  BY DEF BaseInv, TypeInv, TypeOK
<1>1. /\ events' = events
      /\ \A s \in Requests : s # r => req'[s] = req[s]
      /\ Sequential => \A s \in Requests : s # r => ~Busy(s) /\ ~Busy(s)'
  BY StepFrame, OneStep DEF BaseInv
<1>2. x.at = "inserting" /\ ~Taken(p, n) /\ relations' = relations \union {new}
  BY DEF Inserting, Insert
<1>3. n \in 1 .. Revisions /\ \A y \in relations : y.revision \in 1 .. Revisions
  BY <1>0, <1>2 DEF Placed, Row
<1>4. n \in Nat /\ n # 0 /\ \A y \in relations : y.revision \in Nat
  BY <1>3, BoundsAssumption
<1>5. Follower(p, n) /\ Free(p, n)
  BY <1>2 DEF PairParts, DecisionsHold
<1>6. new.pair = p /\ new.revision = n /\ new.id = r /\ new.status = "active"
  OBVIOUS
<1>7. req'[r].at # "inserting" /\ req'[r].kind # "revoke"
  <2>1. req'[r].at # "inserting"
    BY <1>2, Decided DEF Check
  <2>2. x.kind # "revoke"
    BY <1>0, <1>2 DEF Placed, StepsOf, Synced
  <2> QED
    BY <1>2, <2>1, <2>2, Decided DEF StartRevoke, Start
<1> HIDE DEF new, p, n, x
<1>8. \A y \in relations : y.pair = p => y.revision < n /\ y.status # "active"
  BY <1>5 DEF Free, RowsFor
<1>9. RevisionsDiffer'
  <2>1. \A y \in relations : y.pair = p => y.revision # n
    BY <1>2 DEF Taken
  <2> QED
    BY <1>2, <1>6, <2>1 DEF PairParts, RevisionsDiffer
<1>10. ActiveIsLatest'
  BY <1>2, <1>4, <1>6, <1>8 DEF PairParts, ActiveIsLatest
<1>11. DecisionsHold'
  <2> SUFFICES ASSUME NEW s \in Requests, req'[s].at = "inserting",
                      NEW k, k = req'[s].pair, NEW m, m = req'[s].revision
               PROVE  Follower(k, m)' /\ (Taken(k, m)' \/ Free(k, m)')
    BY DEF DecisionsHold, Follower, Taken, Free, RowsFor
  <2>1. req'[s] = req[s]
    BY <1>1, <1>7
  <2>2. Follower(k, m) /\ (Taken(k, m) \/ Free(k, m))
    BY <2>1 DEF PairParts, DecisionsHold
  <2>3. m \in 1 .. Revisions
    BY <2>1 DEF BaseInv, TypeInv, Placed
  <2>4. m \in Nat /\ m # 0
    BY <2>3, BoundsAssumption
  <2>5. \A i : Taken(k, i) => Taken(k, i)'
    BY <1>2 DEF Taken
  <2>6. Follower(k, m)'
    BY <2>2, <2>5 DEF Follower
  <2>7. Taken(k, m)' \/ Free(k, m)'
    <3>1. CASE Taken(k, m)
      BY <2>5, <3>1
    <3>2. CASE k # p /\ Free(k, m)
      BY <1>2, <1>6, <3>2 DEF Free, RowsFor
    <3>3. CASE k = p /\ Free(k, m) /\ ~Taken(k, m)
      <4>1. ~(m < n)
        <5> SUFFICES ASSUME m < n PROVE FALSE
          OBVIOUS
        <5>1. n # 1
          BY <1>4, <2>4
        <5>2. PICK y \in relations : y.pair = p /\ y.revision = n - 1
          BY <1>5, <5>1 DEF Follower, Taken
        <5>3. y.revision < m
          BY <3>3, <5>2 DEF Free, RowsFor
        <5> QED
          BY <1>4, <2>4, <5>2, <5>3
      <4>2. ~(n < m)
        <5> SUFFICES ASSUME n < m PROVE FALSE
          OBVIOUS
        <5>1. m # 1
          BY <1>4, <2>4
        <5>2. PICK y \in relations : y.pair = p /\ y.revision = m - 1
          BY <2>2, <3>3, <5>1 DEF Follower, Taken
        <5>3. y.revision < n
          BY <1>8, <5>2
        <5> QED
          BY <1>4, <2>4, <5>2, <5>3
      <4>3. m = n
        BY <1>4, <2>4, <4>1, <4>2
      <4> QED
        BY <1>2, <1>6, <3>3, <4>3 DEF Taken
    <3> QED
      BY <2>2, <3>1, <3>2, <3>3
  <2> QED
    BY <2>6, <2>7
<1>12. RevocationsHold'
  <2> SUFFICES ASSUME Sequential', NEW s \in Requests PROVE RevocationHolds(req[s])'
    BY DEF RevocationsHold
  <2>1. req'[s].kind # "revoke"
    BY <1>1, <1>7, KindsAreBusy DEF BaseInv, Sequential
  <2> QED
    BY <2>1 DEF RevocationHolds
<1> QED
  BY <1>9, <1>10, <1>11, <1>12 DEF PairParts

(* A revocation goes on with its pair and its row.                         *)
LEMMA RevocationGoesOn ==
  ASSUME BaseInv, NEW r \in Requests, Step(r), req[r].kind = "revoke", GoesOn(r, req[r], req'[r])
  PROVE  /\ req'[r].pair = req[r].pair /\ req'[r].id = req[r].id
         /\ req'[r].at # "revoking"
         /\ req'[r].at \in Synced /\ (~req'[r].undone \/ req'[r].at = "undoing") =>
              (req[r].at \in Synced /\ ~req[r].undone) \/ Revoke(r)
<1>1. TypeInv'
  BY SynchroniseTypes, RelateTypes, ChangeMembersTypes, DeleteTypes, FailTypes DEF Step, BaseInv
<1>2. req'[r].kind = "revoke"
  BY DEF GoesOn
<1>3. req'[r].at \in StepsOf["revoke"]
  BY <1>1, <1>2 DEF TypeInv, Placed
<1>4. req'[r].at # "matching"
  BY <1>3 DEF StepsOf, Synced
<1> QED
  BY <1>4 DEF GoesOn

(* Two properties of the next state, spelled out.                          *)
LEMMA DecisionsNext ==
  ASSUME \A s \in Requests : \A k, m : req'[s].at = "inserting" /\ k = req'[s].pair /\ m = req'[s].revision =>
           Follower(k, m)' /\ (Taken(k, m)' \/ Free(k, m)')
  PROVE  DecisionsHold'
BY DEF DecisionsHold, Follower, Taken, Free, RowsFor

RevokedRows(k, i, q) ==
  /\ \A x, y \in RowsFor(k) : x.id = i => y.revision <= x.revision
  /\ q.at = "revoking" => \E x \in RowsFor(k) : x.id = i
  /\ q.at \in Synced /\ (~q.undone \/ q.at = "undoing") => \A x \in RowsFor(k) : x.status = "revoked"

(* What a revocation relies on in the next state, spelled out.             *)
LEMMA RevocationsNext ==
  ASSUME \A s \in Requests : \A k, i, q : q = req'[s] /\ q.kind = "revoke" /\ k = q.pair /\ i = q.id =>
           RevokedRows(k, i, q)'
  PROVE  RevocationsHold'
BY DEF RevocationsHold, RevocationHolds, RevokedRows, RowsFor

(* Steps that neither add rows nor remove them, nor make one active.       *)
KeepsRows ==
  /\ \A y \in relations' : \E x \in relations :
        /\ x.pair = y.pair /\ x.revision = y.revision /\ x.id = y.id
        /\ y.status = "active" => x.status = "active"
  /\ \A x \in relations : \E y \in relations' : x.pair = y.pair /\ x.revision = y.revision /\ x.id = y.id

(* Steps that remove no rows, and activate none.                           *)
LEMMA KeptPairs ==
  ASSUME BaseInv, IdsInv, PairParts, NEW r \in Requests, Step(r),
         KeepsRows, UNCHANGED relations \/ Revoke(r)
  PROVE  PairParts'
<1> DEFINE Earlier(x, y) == /\ x.pair = y.pair /\ x.revision = y.revision /\ x.id = y.id
                            /\ y.status = "active" => x.status = "active"
<1>0. relations \subseteq Row /\ relations' \subseteq Row /\ req[r] \in Request /\ req \in [Requests -> Request]
  <2>1. TypeInv'
    BY SynchroniseTypes, RelateTypes, ChangeMembersTypes, DeleteTypes, FailTypes DEF Step, BaseInv
  <2> QED
    BY <2>1 DEF BaseInv, TypeInv, TypeOK
<1>1. /\ events' = events
      /\ \A s \in Requests : s # r => req'[s] = req[s]
      /\ Sequential => \A s \in Requests : s # r => ~Busy(s) /\ ~Busy(s)'
  BY StepFrame, OneStep DEF BaseInv
<1>2. \A y \in relations' : \E x \in relations : Earlier(x, y)
  BY DEF KeepsRows
<1>3. RevisionsDiffer'
  <2> SUFFICES ASSUME NEW y \in relations', NEW z \in relations', y.pair = z.pair, y.revision = z.revision
               PROVE  y = z
    BY DEF RevisionsDiffer
  <2>1. PICK v \in relations : Earlier(v, y)
    BY <1>2
  <2>2. PICK w \in relations : Earlier(w, z)
    BY <1>2
  <2>3. v = w
    BY <2>1, <2>2 DEF PairParts, RevisionsDiffer
  <2>4. RowsDiffer'
    BY RowsStayDifferent
  <2> QED
    BY <2>1, <2>2, <2>3, <2>4 DEF RowsDiffer
<1>4. ActiveIsLatest'
  <2> SUFFICES ASSUME NEW y \in relations', NEW z \in relations', y.pair = z.pair, y.status = "active"
               PROVE  z.revision <= y.revision
    BY DEF ActiveIsLatest
  <2>1. PICK v \in relations : Earlier(v, y)
    BY <1>2
  <2>2. PICK w \in relations : Earlier(w, z)
    BY <1>2
  <2> QED
    BY <2>1, <2>2 DEF PairParts, ActiveIsLatest
<1>5. DecisionsHold'
  <2> SUFFICES ASSUME NEW s \in Requests, req'[s].at = "inserting",
                      NEW k, k = req'[s].pair, NEW m, m = req'[s].revision
               PROVE  Follower(k, m)' /\ (Taken(k, m)' \/ Free(k, m)')
    BY DecisionsNext
  <2>1. \A i : Taken(k, i) => Taken(k, i)'
    BY DEF Taken, KeepsRows
  <2>2. Free(k, m) => Free(k, m)'
    BY <1>2 DEF Free, RowsFor
  <2>3. Follower(k, m) => Follower(k, m)'
    BY <2>1 DEF Follower
  <2>4. Follower(k, m) /\ (Taken(k, m) \/ Free(k, m))
    <3>1. CASE s = r
      <4>1. Check(r) /\ Creatable(req[r].pair)
        BY <3>1, Decided
      <4> QED
        BY <3>1, <4>1, CheckDecides DEF PairParts
    <3>2. CASE s # r
      BY <1>1, <3>2 DEF PairParts, DecisionsHold
    <3> QED
      BY <3>1, <3>2
  <2> QED
    BY <2>1, <2>2, <2>3, <2>4
<1>6. RevocationsHold'
  <2> SUFFICES ASSUME Sequential, NEW s \in Requests, NEW q, q = req'[s], q.kind = "revoke",
                      NEW k, k = q.pair, NEW i, i = q.id
               PROVE  RevokedRows(k, i, q)'
    <3>1. ~Sequential => RevocationsHold'
      BY <1>1 DEF RevocationsHold, Sequential
    <3> QED
      BY <3>1, RevocationsNext
  <2>1. s = r
    BY <1>1, KindsAreBusy DEF BaseInv
  <2>2. CASE StartRevoke(r)
    <3>1. PICK v \in relations : /\ v.status = "active"
                                 /\ Continue(r, [NewRequest EXCEPT !.at = "revoking", !.kind = "revoke",
                                                                   !.pair = v.pair, !.id = v.id])
      BY <2>2 DEF StartRevoke
    <3>2. req'[r] = [NewRequest EXCEPT !.at = "revoking", !.kind = "revoke", !.pair = v.pair, !.id = v.id]
      BY <1>0, <3>1 DEF Continue, Set
    <3>3. req'[r].at = "revoking" /\ k = v.pair /\ i = v.id
      BY <2>1, <3>2 DEF NewRequest
    <3>4. relations' = relations
      BY <2>2 DEF StartRevoke, Start
    <3>5. \A x \in relations : x.pair = k /\ x.id = i => x = v
      BY <3>3 DEF IdsInv, RowsDiffer
    <3>6. \A y \in relations : y.pair = k => y.revision <= v.revision
      BY <3>1, <3>3 DEF PairParts, ActiveIsLatest
    <3>7. q.at = "revoking" /\ q.at \notin Synced
      BY <2>1, <3>3 DEF Synced
    <3> QED
      BY <3>1, <3>3, <3>4, <3>5, <3>6, <3>7 DEF RevokedRows, RowsFor
  <2>3. CASE req[r].kind = "revoke" /\ GoesOn(r, req[r], req'[r])
    <3>1. /\ k = req[r].pair /\ i = req[r].id /\ q.at # "revoking"
          /\ q.at \in Synced /\ (~q.undone \/ q.at = "undoing") =>
               (req[r].at \in Synced /\ ~req[r].undone) \/ Revoke(r)
      BY <2>1, <2>3, RevocationGoesOn
    <3>2. RevocationHolds(req[r])
      BY DEF PairParts, RevocationsHold
    <3>3. \A x, y \in RowsFor(k) : x.id = i => y.revision <= x.revision
      BY <2>3, <3>1, <3>2 DEF RevocationHolds
    <3>4. \A x, y \in RowsFor(k)' : x.id = i => y.revision <= x.revision
      <4> SUFFICES ASSUME NEW x \in relations', NEW y \in relations', x.pair = k, y.pair = k, x.id = i
                   PROVE  y.revision <= x.revision
        BY DEF RowsFor
      <4>1. PICK v \in relations : Earlier(v, x)
        BY <1>2
      <4>2. PICK w \in relations : Earlier(w, y)
        BY <1>2
      <4> QED
        BY <3>3, <4>1, <4>2 DEF RowsFor
    <3>5. ASSUME req[r].at \in Synced, ~req[r].undone, NEW y \in RowsFor(k)' PROVE y.status = "revoked"
      <4>1. \A x \in RowsFor(k) : x.status = "revoked"
        BY <2>3, <3>1, <3>2, <3>5 DEF RevocationHolds
      <4>2. y \in relations' /\ y.pair = k /\ y.status \in {"active", "revoked"}
        BY <1>0 DEF RowsFor, Row
      <4>3. PICK x \in relations : Earlier(x, y)
        BY <1>2, <4>2
      <4> QED
        BY <4>1, <4>2, <4>3 DEF RowsFor
    <3>6. ASSUME Revoke(r), NEW y \in RowsFor(k)' PROVE y.status = "revoked"
      <4>1. SetRow(k, i, "active", "revoked") /\ req[r].at = "revoking"
        BY <3>1, <3>6 DEF Revoke
      <4>2. y \in relations' /\ y.pair = k /\ y.status \in {"active", "revoked"}
        BY <1>0 DEF RowsFor, Row
      <4>3. PICK x \in relations : Moved(x, y, k, i, "active", "revoked")
        BY <4>1, <4>2, SetRowMoves DEF BaseInv, TypeInv, TypeOK
      <4>4. PICK v \in RowsFor(k) : v.id = i
        BY <2>3, <3>1, <3>2, <4>1 DEF RevocationHolds
      <4>5. x.pair = k /\ x \in RowsFor(k)
        BY <4>2, <4>3 DEF Moved, RowsFor
      <4>6. SUFFICES ASSUME y.status = "active" PROVE FALSE
        BY <4>2
      <4>7. x.status = "active" /\ x.id # i
        BY <4>3, <4>5, <4>6 DEF Moved
      <4>8. v.revision <= x.revision /\ x.revision <= v.revision
        BY <3>3, <4>4, <4>5, <4>7 DEF PairParts, ActiveIsLatest, RowsFor
      <4>9. x.revision \in Nat /\ v.revision \in Nat
        BY <1>0, <4>4, <4>5, BoundsAssumption DEF RowsFor, Row
      <4>10. x.revision = v.revision
        BY <4>8, <4>9
      <4> QED
        BY <4>4, <4>5, <4>7, <4>10 DEF PairParts, RevisionsDiffer, RowsFor
    <3> QED
      BY <3>1, <3>4, <3>5, <3>6 DEF RevokedRows, RowsFor
  <2> QED
    BY <2>1, <2>2, <2>3, Decided
<1> QED
  BY <1>3, <1>4, <1>5, <1>6 DEF PairParts

(* Rows go with an asset or a dataset, or with the request that made them. *)
LEMMA RemovedPairs ==
  ASSUME BaseInv, IdsInv, PairParts, Alone({"error", "delete", "drop"}), NEW r \in Requests, Step(r),
         req[r].at \in {"undoing", "unrelating", "dropping"}, req[r].kind # "revoke",
         relations' \subseteq relations
  PROVE  PairParts'
<1>1. /\ Sequential
      /\ \A s \in Requests : s # r => ~Busy(s)' /\ req'[s].kind = "none" /\ req'[s].at # "inserting"
  BY RemovalsAreAlone
<1>2. req'[r].at # "inserting" /\ req'[r].kind # "revoke"
  BY Decided DEF Check, StartRevoke, Start
<1>3. RevisionsDiffer' /\ ActiveIsLatest'
  BY DEF PairParts, RevisionsDiffer, ActiveIsLatest
<1>4. DecisionsHold'
  BY <1>1, <1>2 DEF DecisionsHold
<1>5. RevocationsHold'
  <2>1. \A s \in Requests : req'[s].kind # "revoke"
    BY <1>1, <1>2
  <2> QED
    BY <2>1 DEF RevocationsHold, RevocationHolds
<1> QED
  BY <1>3, <1>4, <1>5 DEF PairParts

(* A revocation is taken back: its row is active again.                    *)
LEMMA RestoredPairs ==
  ASSUME BaseInv, IdsInv, PairParts, Alone({"error", "delete", "drop"}), NEW r \in Requests, Step(r),
         req[r].at = "undoing", UndoRelation(r), req[r].kind = "revoke"
  PROVE  PairParts'
<1> DEFINE p == req[r].pair
           id == req[r].id
<1>0. relations \subseteq Row /\ req[r].undone
  BY DEF BaseInv, TypeInv, TypeOK, Expected
<1>1. /\ Sequential /\ events' = events
      /\ \A s \in Requests : s # r => ~Busy(s)' /\ req'[s].kind = "none" /\ req'[s].at # "inserting"
  BY RemovalsAreAlone, StepFrame DEF BaseInv
<1>2. SetRow(p, id, "revoked", "active")
  BY DEF UndoRelation
<1>3. RevocationHolds(req[r])
  BY <1>1 DEF PairParts, RevocationsHold
<1>4. \A x, y \in RowsFor(p) : x.id = id => y.revision <= x.revision
  BY <1>3 DEF RevocationHolds
<1>5. \A y \in relations' : \E x \in relations : Moved(x, y, p, id, "revoked", "active")
  BY <1>0, <1>2, SetRowMoves
<1> HIDE DEF p, id
<1>6. RevisionsDiffer'
  <2> SUFFICES ASSUME NEW y \in relations', NEW z \in relations', y.pair = z.pair, y.revision = z.revision
               PROVE  y = z
    BY DEF RevisionsDiffer
  <2>1. PICK v \in relations : Moved(v, y, p, id, "revoked", "active")
    BY <1>5
  <2>2. PICK w \in relations : Moved(w, z, p, id, "revoked", "active")
    BY <1>5
  <2>3. v = w
    BY <2>1, <2>2 DEF PairParts, RevisionsDiffer, Moved
  <2>4. RowsDiffer'
    BY RowsStayDifferent
  <2> QED
    BY <2>1, <2>2, <2>3, <2>4 DEF RowsDiffer, Moved
<1>7. ActiveIsLatest'
  <2> SUFFICES ASSUME NEW y \in relations', NEW z \in relations', y.pair = z.pair, y.status = "active"
               PROVE  z.revision <= y.revision
    BY DEF ActiveIsLatest
  <2>1. PICK v \in relations : Moved(v, y, p, id, "revoked", "active")
    BY <1>5
  <2>2. PICK w \in relations : Moved(w, z, p, id, "revoked", "active")
    BY <1>5
  <2>3. CASE v.status = "active"
    BY <2>1, <2>2, <2>3 DEF PairParts, ActiveIsLatest, Moved
  <2>4. CASE v.pair = p /\ v.id = id
    BY <1>4, <2>1, <2>2, <2>4 DEF Moved, RowsFor
  <2> QED
    BY <2>1, <2>3, <2>4 DEF Moved
<1>8. req'[r].at # "inserting" /\ ~StartRevoke(r) /\ ~Revoke(r)
  BY Decided DEF Check, StartRevoke, Start, Revoke
<1>9. DecisionsHold'
  BY <1>1, <1>8 DEF DecisionsHold
<1>10. RevocationsHold'
  <2> SUFFICES ASSUME NEW s \in Requests, NEW q, q = req'[s], q.kind = "revoke",
                      NEW k, k = q.pair, NEW i, i = q.id
               PROVE  RevokedRows(k, i, q)'
    BY RevocationsNext
  <2>1. s = r /\ GoesOn(r, req[r], req'[r])
    BY <1>1, <1>8, Decided
  <2>2. /\ k = p /\ i = id /\ q.at # "revoking"
        /\ ~(q.at \in Synced /\ (~q.undone \/ q.at = "undoing"))
    BY <1>0, <1>8, <2>1, RevocationGoesOn DEF p, id
  <2>3. \A x, y \in RowsFor(k)' : x.id = i => y.revision <= x.revision
    <3> SUFFICES ASSUME NEW x \in relations', NEW y \in relations', x.pair = k, y.pair = k, x.id = i
                 PROVE  y.revision <= x.revision
      BY DEF RowsFor
    <3>1. PICK v \in relations : Moved(v, x, p, id, "revoked", "active")
      BY <1>5
    <3>2. PICK w \in relations : Moved(w, y, p, id, "revoked", "active")
      BY <1>5
    <3> QED
      BY <1>4, <2>2, <3>1, <3>2 DEF Moved, RowsFor
  <2> QED
    BY <2>2, <2>3 DEF RevokedRows, RowsFor
<1> QED
  BY <1>6, <1>7, <1>9, <1>10 DEF PairParts

(* Every step keeps the active row of a pair the latest.                   *)
LEMMA PairStep ==
  ASSUME BaseInv, IdsInv, PairInv, NEW r \in Requests, Step(r)
  PROVE  PairInv'
<1>0. events' = events
  BY StepFrame DEF BaseInv
<1> SUFFICES ASSUME Alone({"error", "delete", "drop"}) PROVE PairParts'
  BY <1>0 DEF PairInv, Alone
<1>1. PairParts /\ relations \subseteq Row
  BY DEF PairInv, BaseInv, TypeInv, TypeOK
<1>2. CASE UNCHANGED relations
  <2>1. KeepsRows
    BY <1>2 DEF KeepsRows
  <2> QED
    BY <1>1, <1>2, <2>1, KeptPairs
<1>3. CASE Inserting(r)
  BY <1>1, <1>3, InsertingPairs
<1>4. CASE Revoke(r)
  <2>1. SetRow(req[r].pair, req[r].id, "active", "revoked")
    BY <1>4 DEF Revoke
  <2>2. \A x, y : Moved(x, y, req[r].pair, req[r].id, "active", "revoked") =>
          /\ x.pair = y.pair /\ x.revision = y.revision /\ x.id = y.id
          /\ y.status = "active" => x.status = "active"
    BY DEF Moved
  <2>3. /\ \A y \in relations' : \E x \in relations : Moved(x, y, req[r].pair, req[r].id, "active", "revoked")
        /\ \A x \in relations : \E y \in relations' : Moved(x, y, req[r].pair, req[r].id, "active", "revoked")
    BY <1>1, <2>1, SetRowMoves
  <2>4. KeepsRows
    BY <2>2, <2>3 DEF KeepsRows
  <2> QED
    BY <1>1, <1>4, <2>4, KeptPairs
<1>5. CASE req[r].at = "undoing" /\ UndoRelation(r)
  <2>1. CASE req[r].kind = "revoke"
    BY <1>1, <1>5, <2>1, RestoredPairs
  <2>2. CASE req[r].kind # "revoke"
    <3>1. relations' \subseteq relations
      BY <1>5, <2>2 DEF UndoRelation
    <3> QED
      BY <1>1, <1>5, <2>2, <3>1, RemovedPairs
  <2> QED
    BY <2>1, <2>2
<1>6. CASE Removing(r)
  <2>1. req[r].kind # "revoke"
    BY <1>6 DEF Removing, BaseInv, TypeInv, Placed, StepsOf, Synced
  <2> QED
    BY <1>1, <1>6, <2>1, RemovedPairs DEF Removing
<1> QED
  BY <1>2, <1>3, <1>4, <1>5, <1>6, Rewritten

-----------------------------------------------------------------------------
(* Matching by name, when nothing else relates annotations and requests    *)
(* are alone: an image has one annotation, and the pairs still to create   *)
(* are about images that have none, each image once.                       *)
Matchable == "match" \in events /\ Sequential /\ "relate" \notin events
OnePerImage == \A i \in Images : \A a, b \in Annotations : Related(a, i) /\ Related(b, i) => a = b
ImagesDiffer(q) == \A p, s \in q.ready \union ({q.pair} \ {NoPair}) : p[2] = s[2] => p = s
Chosen(q) == q.ready \union (IF q.at \in {"checking", "inserting"} THEN {q.pair} ELSE {})
Bare(q) == \A p \in Chosen(q) : ~HasAnnotation(p[2])
MatchParts == OnePerImage /\ \A r \in Requests : req[r].kind = "match" => ImagesDiffer(req[r]) /\ Bare(req[r])
MatchInv == Matchable => MatchParts

(* What is related after a step was related, or has been inserted.         *)
LEMMA RelatedComesFrom ==
  ASSUME BaseInv, Matchable, NEW r \in Requests, Step(r),
         NEW a \in Annotations, NEW i \in Images, Related(a, i)'
  PROVE  Related(a, i) \/ (Inserting(r) /\ req[r].kind = "match" /\ <<a, i>> = req[r].pair)
<1> DEFINE x == req[r]
<1>0. x \in Request /\ Placed(x) /\ Expected(x) /\ relations \subseteq Row
  BY DEF BaseInv, TypeInv, TypeOK
<1>1. x.kind \notin {"create", "revoke"}
  BY <1>0 DEF Expected, EventOf, Matchable
<1>2. PICK y \in relations' : y.pair = <<a, i>> /\ y.status = "active"
  BY DEF Related
<1>3. CASE relations' \subseteq relations
  BY <1>2, <1>3 DEF Related
<1>4. CASE Inserting(r)
  <2>1. x.at = "inserting"
    BY <1>4 DEF Inserting, Insert
  <2>2. x.kind \in {"match", "link"}
    BY <1>0, <1>1, <2>1 DEF Placed, StepsOf, Synced, Request, Kinds
  <2>3. x.kind = "link" => x.pair # <<a, i>>
    BY <1>0, TypesAssumption DEF Placed
  <2>4. y \in relations \/ y.pair = x.pair
    BY <1>4 DEF Inserting
  <2> QED
    BY <1>2, <1>4, <2>2, <2>3, <2>4 DEF Related
<1>5. CASE Revoke(r)
  <2>1. SetRow(x.pair, x.id, "active", "revoked")
    BY <1>5 DEF Revoke
  <2>2. PICK v \in relations : Moved(v, y, x.pair, x.id, "active", "revoked")
    BY <1>0, <2>1, SetRowMoves
  <2>3. v.pair = <<a, i>> /\ v.status = "active"
    BY <1>2, <2>2 DEF Moved
  <2> QED
    BY <2>3 DEF Related
<1>6. CASE UndoRelation(r)
  <2>1. relations' \subseteq relations
    BY <1>1, <1>6 DEF UndoRelation
  <2> QED
    BY <1>3, <2>1
<1> QED
  BY <1>3, <1>4, <1>5, <1>6, Rewritten DEF Removing

(* The preview offers pairs of images without annotations, each once.      *)
LEMMA ReadyIsBare ==
  ASSUME TypeOK, NEW S
  PROVE  /\ \A p, s \in Ready(S) : p[2] = s[2] => p = s
         /\ \A p \in Ready(S) : ~HasAnnotation(p[2])
<1>1. ASSUME NEW p \in Ready(S), NEW s \in Ready(S), p[2] = s[2] PROVE p = s
  <2>1. PICK m \in Stems : ImagesOf(m, S) = {p[2]} /\ ClaimsOf(m, S) = {p[1]}
    BY DEF Ready
  <2>2. PICK n \in Stems : ImagesOf(n, S) = {s[2]} /\ ClaimsOf(n, S) = {s[1]}
    BY DEF Ready
  <2>3. m = n
    <3>1. p[2] \in ImagesOf(m, S) /\ p[2] \in ImagesOf(n, S)
      BY <1>1, <2>1, <2>2
    <3> QED
      BY <3>1 DEF ImagesOf
  <2>4. p[1] = s[1]
    BY <2>1, <2>2, <2>3
  <2>5. p \in Annotations \X Images /\ s \in Annotations \X Images
    BY DEF Ready
  <2> QED
    BY <1>1, <2>4, <2>5
<1>2. \A p \in Ready(S) : ~HasAnnotation(p[2])
  BY DEF Ready
<1> QED
  BY <1>1, <1>2

(* Every step keeps matched images to one annotation.                      *)
LEMMA MatchStep ==
  ASSUME BaseInv, IdsInv, MatchInv, NEW r \in Requests, Step(r)
  PROVE  MatchInv'
<1> DEFINE x == req[r]
           q == req'[r]
<1>0. x \in Request /\ Placed(x) /\ Expected(x) /\ req \in [Requests -> Request] /\ TypeOK
  BY DEF BaseInv, TypeInv, TypeOK
<1>1. events' = events
  BY StepFrame DEF BaseInv
<1> SUFFICES ASSUME Matchable PROVE MatchParts'
  BY <1>1 DEF MatchInv, Matchable, Sequential
<1>2. MatchParts
  BY DEF MatchInv
<1>3. \A s \in Requests : s # r => req'[s].kind = "none"
  <2>1. \A s \in Requests : s # r => req'[s] = req[s] /\ ~Busy(s)
    BY StepFrame, OneStep DEF BaseInv, Matchable
  <2> QED
    BY <2>1, KindsAreBusy DEF BaseInv
<1>4. \A a \in Annotations, i \in Images : Related(a, i)' =>
        Related(a, i) \/ (Inserting(r) /\ x.kind = "match" /\ <<a, i>> = x.pair)
  BY RelatedComesFrom
<1>5. Inserting(r) => x.at = "inserting"
  BY DEF Inserting, Insert
<1>6. ASSUME Inserting(r), x.kind = "match"
      PROVE  /\ ~HasAnnotation(x.pair[2]) /\ x.pair \in Annotations \X Images
             /\ \A p \in x.ready : p[2] # x.pair[2]
  <2>1. ImagesDiffer(x) /\ Bare(x) /\ x.pair \in Annotations \X Images
    BY <1>0, <1>2, <1>5, <1>6 DEF MatchParts, Placed
  <2>2. x.pair \notin x.ready /\ x.pair # NoPair
    BY <1>5, <1>6, <2>1, PairShapes, NoPairAssumption DEF IdsInv, ChoiceIsTaken
  <2> QED
    BY <1>5, <1>6, <2>1, <2>2 DEF ImagesDiffer, Bare, Chosen
<1>7. OnePerImage'
  <2> SUFFICES ASSUME NEW i \in Images, NEW a \in Annotations, NEW b \in Annotations, Related(a, i)', Related(b, i)'
               PROVE  a = b
    BY DEF OnePerImage
  <2>1. CASE Inserting(r) /\ x.kind = "match" /\ (<<a, i>> = x.pair \/ <<b, i>> = x.pair)
    <3>1. x.pair[2] = i /\ ~Related(a, i) /\ ~Related(b, i)
      BY <1>6, <2>1 DEF HasAnnotation
    <3> QED
      BY <1>4, <3>1
  <2>2. CASE Related(a, i) /\ Related(b, i)
    BY <1>2, <2>2 DEF MatchParts, OnePerImage
  <2> QED
    BY <1>4, <2>1, <2>2
<1>8. \A p \in Annotations \X Images : HasAnnotation(p[2])' =>
        HasAnnotation(p[2]) \/ (Inserting(r) /\ x.kind = "match" /\ p[2] = x.pair[2])
  <2> SUFFICES ASSUME NEW p \in Annotations \X Images, NEW i, i = p[2], NEW a \in Annotations, Related(a, i)'
               PROVE  HasAnnotation(i) \/ (Inserting(r) /\ x.kind = "match" /\ i = x.pair[2])
    BY DEF HasAnnotation, Related
  <2> QED
    BY <1>4 DEF HasAnnotation
<1>9. ASSUME q.kind = "match"
      PROVE  /\ ImagesDiffer(q)
             /\ \A p \in Chosen(q) : p \in Annotations \X Images /\ ~HasAnnotation(p[2])
             /\ Inserting(r) => \A p \in Chosen(q) : p[2] # x.pair[2]
  <2>0. ASSUME NEW s, Set(r, s) \/ Continue(r, s) PROVE q = s
    BY <1>0, <2>0 DEF Set, Continue
  <2>1. CASE q = Over
    BY <1>9, <2>1 DEF Over, NewRequest
  <2>2. CASE StartMatch(r)
    <3>1. PICK S : Continue(r, [NewRequest EXCEPT !.at = "matching", !.kind = "match", !.ready = Ready(S)])
      BY <2>2 DEF StartMatch
    <3>2. q.at = "matching" /\ q.ready = Ready(S) /\ q.pair = NoPair
      BY ZenonT(40), <2>0, <3>1 DEF NewRequest
    <3>3. x.at = "idle" /\ ~Inserting(r)
      BY <1>5, <2>2 DEF StartMatch, Start
    <3>4. Chosen(q) = Ready(S) /\ q.ready \union ({q.pair} \ {NoPair}) = Ready(S)
      BY <3>2 DEF Chosen
    <3>5. Ready(S) \subseteq Annotations \X Images
      BY DEF Ready
    <3> QED
      BY <1>0, <3>3, <3>4, <3>5, ReadyIsBare DEF ImagesDiffer
  <2>3. CASE StartCreate(r) \/ StartRevoke(r) \/ StartLink(r) \/ StartUnlink(r)
    <3>1. CASE StartCreate(r)
      BY ZenonT(40), <1>9, <2>0, <3>1 DEF StartCreate, NewRequest
    <3>2. CASE StartRevoke(r)
      BY ZenonT(40), <1>9, <2>0, <3>2 DEF StartRevoke, NewRequest
    <3>3. CASE StartLink(r)
      BY ZenonT(40), <1>9, <2>0, <3>3 DEF StartLink, NewRequest
    <3>4. CASE StartUnlink(r)
      BY ZenonT(40), <1>9, <2>0, <3>4 DEF StartUnlink, NewRequest
    <3> QED
      BY <2>3, <3>1, <3>2, <3>3, <3>4
  <2>4. CASE StartsOther(r)
    <3>1. CASE StartAdd(r)
      BY ZenonT(40), <1>9, <2>0, <3>1 DEF StartAdd, NewRequest
    <3>2. CASE StartRemove(r)
      BY ZenonT(40), <1>9, <2>0, <3>2 DEF StartRemove, NewRequest
    <3>3. CASE StartCopy(r)
      BY ZenonT(40), <1>9, <2>0, <3>3 DEF StartCopy, NewRequest
    <3>4. CASE StartDelete(r)
      <4>1. q.kind = "delete"
        BY ZenonT(40), <2>0, <3>4 DEF StartDelete, NewRequest
      <4> QED
        BY <1>9, <4>1
    <3>5. CASE StartDrop(r)
      BY ZenonT(40), <1>9, <2>0, <3>5 DEF StartDrop, NewRequest
    <3> QED
      BY <2>4, <3>1, <3>2, <3>3, <3>4, <3>5 DEF StartsOther
  <2>5. CASE Check(r) /\ Creatable(x.pair)
    <3>1. x.at = "checking" /\ \E n : Continue(r, [x EXCEPT !.at = "inserting", !.revision = n])
      BY <2>5 DEF Check
    <3>2. q.at = "inserting" /\ q.pair = x.pair /\ q.ready = x.ready /\ q.kind = x.kind
      BY <1>0, <2>0, <3>1 DEF Request
    <3>3. ImagesDiffer(x) /\ Bare(x) /\ x.pair \in Annotations \X Images /\ x.ready \subseteq Annotations \X Images
      BY <1>0, <1>2, <1>9, <3>1, <3>2 DEF MatchParts, Placed, Request
    <3>4. Chosen(q) = Chosen(x) /\ Chosen(x) \subseteq Annotations \X Images
      BY <3>1, <3>2, <3>3 DEF Chosen
    <3>5. ~Inserting(r)
      BY <1>5, <3>1
    <3> QED
      BY <3>2, <3>3, <3>4, <3>5 DEF ImagesDiffer, Bare
  <2>6. CASE NextPair(r)
    <3>1. CASE End(r)
      BY <1>9, <2>0, <3>1 DEF End, NewRequest
    <3>2. CASE ~End(r)
      <4>1. PICK p \in x.ready : Continue(r, [x EXCEPT !.at = "checking", !.pair = p, !.ready = @ \ {p}])
        BY <2>6, <3>2 DEF NextPair
      <4>2. q.at = "checking" /\ q.pair = p /\ q.ready = x.ready \ {p} /\ q.kind = x.kind /\ x.at = "matching"
        BY ZenonT(40), <1>0, <2>0, <2>6, <4>1 DEF Request, NextPair
      <4>3. ImagesDiffer(x) /\ Bare(x) /\ x.ready \subseteq Annotations \X Images
        BY <1>0, <1>2, <1>9, <4>2 DEF MatchParts, Request
      <4>4. Chosen(q) = x.ready /\ x.ready \subseteq Chosen(x) /\ q.ready \union ({q.pair} \ {NoPair}) \subseteq x.ready
        BY <4>2 DEF Chosen
      <4>5. ~Inserting(r)
        BY <1>5, <4>2
      <4> QED
        BY <4>3, <4>4, <4>5 DEF ImagesDiffer, Bare
    <3> QED
      BY <3>1, <3>2
  <2>7. CASE GoesOn(r, x, q)
    <3>1. /\ q.kind = x.kind /\ q.ready = x.ready /\ (q.pair = x.pair \/ q.pair = NoPair)
          /\ q.at \notin {"checking", "inserting"}
      BY <2>7 DEF GoesOn
    <3>2. ImagesDiffer(x) /\ Bare(x) /\ x.ready \subseteq Annotations \X Images
      BY <1>0, <1>2, <1>9, <3>1 DEF MatchParts, Request
    <3>3. Chosen(q) = x.ready /\ x.ready \subseteq Chosen(x)
      BY <3>1 DEF Chosen
    <3>4. ImagesDiffer(q)
      BY <3>1, <3>2 DEF ImagesDiffer
    <3> QED
      BY <1>6, <1>9, <3>1, <3>2, <3>3, <3>4 DEF Bare
  <2> QED
    BY <2>1, <2>2, <2>3, <2>4, <2>5, <2>6, <2>7, Remembered
<1>10. ASSUME NEW s \in Requests, req'[s].kind = "match" PROVE (ImagesDiffer(req[s]) /\ Bare(req[s]))'
  <2>1. s = r
    BY <1>3, <1>10
  <2>2. \A p \in Chosen(q) : ~HasAnnotation(p[2])'
    BY <1>8, <1>9, <1>10, <2>1
  <2> QED
    BY <1>9, <1>10, <2>1, <2>2 DEF ImagesDiffer, Bare, Chosen
<1> QED
  BY <1>7, <1>10 DEF MatchParts

RowsInv == IdsInv /\ PairInv /\ MatchInv

(* RowsInv holds in every state.                                           *)
LEMMA RowsInvariant == Spec => []RowsInv
<1>1. Init => RowsInv
  <2> SUFFICES ASSUME Init PROVE RowsInv
    OBVIOUS
  <2>1. \A r \in Requests : req[r] = NewRequest
    BY DEF Init
  <2>2. NewRequest.at = "idle" /\ NewRequest.kind = "none"
    BY DEF NewRequest
  <2>3. PICK pairs : /\ relations = [pair : pairs, revision : {1}, id : {Nobody}, status : {"active"}]
                     /\ "match" \in events => \A p, q \in pairs : p[2] = q[2] => p = q
    BY DEF Init
  <2>4. \A x \in relations : x = [pair |-> x.pair, revision |-> 1, id |-> Nobody, status |-> "active"] /\ x.pair \in pairs
    BY <2>3
  <2>5. IdsInv
    BY <2>1, <2>2, <2>4, NobodyAssumption DEF IdsInv, RowsDiffer, RowsAreOwn, ChoiceIsTaken
  <2>6. RevisionsDiffer /\ ActiveIsLatest
    <3>1. \A x \in relations : x.revision = 1
      BY <2>4
    <3>2. \A x, y \in relations : x.pair = y.pair => x = y
      BY <2>4
    <3> QED
      BY <3>1, <3>2 DEF RevisionsDiffer, ActiveIsLatest
  <2>7. DecisionsHold /\ RevocationsHold
    BY <2>1, <2>2 DEF DecisionsHold, RevocationsHold, RevocationHolds
  <2>8. MatchInv
    <3>1. ASSUME "match" \in events PROVE OnePerImage
      <4> SUFFICES ASSUME NEW i \in Images, NEW a \in Annotations, NEW b \in Annotations, Related(a, i), Related(b, i)
                   PROVE  a = b
        BY DEF OnePerImage
      <4>1. <<a, i>> \in pairs /\ <<b, i>> \in pairs
        BY <2>4 DEF Related
      <4>2. <<a, i>> = <<b, i>>
        BY <2>3, <3>1, <4>1
      <4> QED
        BY <4>2
    <3> QED
      BY <2>1, <2>2, <3>1 DEF MatchInv, MatchParts, Matchable
  <2> QED
    BY <2>5, <2>6, <2>7, <2>8 DEF RowsInv, PairInv, PairParts
<1>2. BaseInv /\ RowsInv /\ [Next]_vars => RowsInv'
  <2> SUFFICES ASSUME BaseInv, RowsInv, [Next]_vars PROVE RowsInv'
    OBVIOUS
  <2>1. CASE Next
    BY <2>1, IdsStep, PairStep, MatchStep DEF Next, Step, RowsInv
  <2>2. CASE UNCHANGED vars
    <3>1. relations' = relations /\ req' = req /\ events' = events
      BY <2>2 DEF vars
    <3>2. IdsInv'
      BY <3>1 DEF RowsInv, IdsInv, RowsDiffer, RowsAreOwn, ChoiceIsTaken
    <3>3. PairInv'
      BY <3>1 DEF RowsInv, PairInv, Alone, PairParts, RevisionsDiffer, ActiveIsLatest, DecisionsHold, Follower, Taken,
                  Free, RowsFor, RevocationsHold, Sequential, RevocationHolds
    <3>4. MatchInv'
      BY <3>1 DEF RowsInv, MatchInv, Matchable, Sequential, MatchParts, OnePerImage, ImagesDiffer, Bare, Chosen,
                  HasAnnotation, Related
    <3> QED
      BY <3>2, <3>3, <3>4 DEF RowsInv
  <2> QED
    BY <2>1, <2>2
<1> QED
  BY <1>1, <1>2, BaseInvariant, PTL DEF Spec

(* A pair has one active relation at most, its preview promises what the   *)
(* creation then does, and matching by name gives no image a second        *)
(* annotation: the unique index on revisions and the check before it are   *)
(* enough, however requests interleave that do not fail or remove rows.    *)
THEOREM RelationsStaySingle == Spec => []RelationsAreSingle
<1>1. BaseInv /\ RowsInv => RelationsAreSingle
  <2> SUFFICES ASSUME BaseInv, RowsInv PROVE PairsAreSingle /\ MatchedOnce
    BY DEF RelationsAreSingle
  <2>1. PairsAreSingle
    <3> SUFFICES ASSUME PairParts, NEW p \in Pairs
                 PROVE  /\ Cardinality({x \in RowsFor(p) : x.status = "active"}) <= 1
                        /\ PreviewReady(p) <=> Creatable(p)
      BY DEF PairsAreSingle, RowsInv, PairInv
    <3> DEFINE A == {x \in RowsFor(p) : x.status = "active"}
    <3>0. \A x \in relations : x.revision \in Nat
      <4>1. relations \subseteq Row
        BY DEF BaseInv, TypeInv, TypeOK
      <4> QED
        BY <4>1, BoundsAssumption DEF Row
    <3>1. \A x, y \in A : x = y
      <4> SUFFICES ASSUME NEW x \in A, NEW y \in A PROVE x = y
        OBVIOUS
      <4>1. x \in relations /\ y \in relations /\ x.pair = y.pair /\ x.status = "active" /\ y.status = "active"
        BY DEF RowsFor
      <4>2. x.revision <= y.revision /\ y.revision <= x.revision
        BY <4>1 DEF PairParts, ActiveIsLatest
      <4>3. x.revision = y.revision
        BY <3>0, <4>1, <4>2
      <4> QED
        BY <4>1, <4>3 DEF PairParts, RevisionsDiffer
    <3>2. Cardinality(A) <= 1
      <4>1. CASE A = {}
        <5> HIDE DEF A
        <5> QED
          BY <4>1, FS_EmptySet
      <4>2. CASE A # {}
        <5>1. PICK x \in A : TRUE
          BY <4>2
        <5>2. A = {x}
          BY <3>1, <5>1
        <5> HIDE DEF A
        <5> QED
          BY <5>2, FS_Singleton
      <4> QED
        BY <4>1, <4>2
    <3>3. PreviewReady(p) <=> Creatable(p)
      <4>1. \A x \in RowsFor(p) : x.status = "active" => x \in Latest(p)
        BY DEF Latest, RowsFor, PairParts, ActiveIsLatest
      <4>2. Latest(p) \subseteq RowsFor(p)
        BY DEF Latest
      <4> QED
        BY <4>1, <4>2 DEF PreviewReady, Creatable
    <3> QED
      BY <3>2, <3>3
  <2>2. MatchedOnce
    BY DEF MatchedOnce, RowsInv, MatchInv, Matchable, Sequential, Alone, MatchParts, OnePerImage
  <2> QED
    BY <2>1, <2>2
<1> QED
  BY <1>1, BaseInvariant, RowsInvariant, PTL

-----------------------------------------------------------------------------
(* A deleted asset has a link only while its deletion has yet to remove    *)
(* it, and a dataset that is not active has none.                          *)
Deleting(steps, a) == \E r \in Requests : req[r].kind = "delete" /\ req[r].at \in steps /\ a \in req[r].batch
Unlinking == {"unlisting", "unversioning", "unrelating"}

ArchivedAreUnlinked ==
  \A a \in archived :
    /\ (\E d \in Datasets : <<d, a>> \in members) => Deleting({"unlisting"}, a)
    /\ (\E d \in Datasets : <<d, a>> \in rows) => Deleting({"unlisting", "unversioning"}, a)
    /\ (\E x \in relations : x.status = "active" /\ a \in {x.pair[1], x.pair[2]}) => Deleting(Unlinking, a)

NoRelations(d) == \A x \in relations : x.pair[2] # d
Unversioned(d) == d \notin published /\ (\A a \in Members : <<d, a>> \notin rows) /\ NoRelations(d)
Memberless(d) == \A a \in Members : <<d, a>> \notin members
DeadAreEmpty == \A d \in Datasets : datasets[d] # "active" => Unversioned(d) /\ Memberless(d)

(* What a request that adds links is about is in use.                      *)
Sound(q) ==
  /\ q.at = "inserting" => Valid(q.pair)
  /\ q.kind = "revoke" => {q.pair[1], q.pair[2]} \intersect archived = {}
  /\ q.kind = "add" => q.batch \intersect archived = {}
  /\ q.kind \in {"add", "remove", "copy"} => datasets[q.dataset] = "active" /\ q.changed \intersect archived = {}
  /\ q.kind = "copy" /\ q.at # "creating" => datasets[q.copy] = "active" /\ Unversioned(q.copy)
  /\ q.at = "abandoning" => Memberless(q.copy)
  /\ q.at \in {"comparing", "including", "excluding"} /\ q.pair = NoPair => \A d \in q.todo : datasets[d] = "active"
  /\ q.at \in {"including", "excluding"} => datasets[q.visit] = "active"
  /\ q.at = "including" => q.in \intersect archived = {}

(* What the deletion of a dataset has removed, nobody adds again.          *)
Dropped(q) ==
  /\ q.at \in {"emptying", "unpublishing", "clearing", "closing"} => NoRelations(q.dataset)
  /\ q.at \in {"unpublishing", "clearing", "closing"} => \A a \in Members : <<q.dataset, a>> \notin rows
  /\ q.at \in {"clearing", "closing"} => q.dataset \notin published
  /\ q.at = "closing" => Memberless(q.dataset)

Asked(q) == q.kind = "delete" /\ ~q.confirmed /\ q.at \in {"archiving", "unlisting"} => ~Linked(q.batch)

Unlinkable == "crash" \notin events /\ Alone({"relate", "match", "members", "copy", "link"})
UnlinkParts ==
  /\ ArchivedAreUnlinked
  /\ DeadAreEmpty
  /\ \A r \in Requests : Sound(req[r]) /\ Dropped(req[r]) /\ Asked(req[r])
UnlinkInv == Unlinkable => UnlinkParts

(* The invariant of the next state, spelled out.                           *)
LEMMA UnlinkNext ==
  ASSUME ArchivedAreUnlinked', DeadAreEmpty',
         \A s \in Requests : \A q : q = req'[s] => Sound(q)' /\ Dropped(q)' /\ Asked(q)'
  PROVE  UnlinkParts'
<1>1. ASSUME NEW s \in Requests PROVE Sound(req[s])'
  BY DEF Sound, Valid, Active, Unversioned, NoRelations, Memberless
<1>2. ASSUME NEW s \in Requests PROVE Dropped(req[s])'
  BY DEF Dropped, NoRelations, Memberless
<1>3. ASSUME NEW s \in Requests PROVE Asked(req[s])'
  BY DEF Asked, Linked
<1> QED
  BY <1>1, <1>2, <1>3 DEF UnlinkParts

(* Assets and datasets are deleted by requests that remove things only.    *)
LEMMA ShrinkStep ==
  ASSUME BaseInv, NEW r \in Requests, Step(r), req[r].kind \in {"none", "delete", "drop"}
  PROVE  members' \subseteq members /\ rows' \subseteq rows /\ relations' \subseteq relations /\ published' \subseteq published
<1>0. req[r].at \in {"idle", "done", "confirming", "archiving", "unlisting", "unversioning", "unrelating",
                     "recounting", "storing", "dropping", "emptying", "unpublishing", "clearing", "closing"}
  BY DEF BaseInv, TypeInv, Placed, StepsOf
<1>1. CASE Synchronise(r)
  BY <1>0, <1>1 DEF Synchronise, ListImageDatasets, CompareMembers, Include, Exclude, Synchronised
<1>2. CASE Relate(r)
  BY <1>0, <1>2 DEF Relate, StartCreate, Check, Insert, StartRevoke, Revoke, StartMatch, NextPair, StartLink,
             StartUnlink, Start, versions
<1>3. CASE ChangeMembers(r)
  BY <1>0, <1>3 DEF ChangeMembers, StartAdd, AddMember, Added, StartRemove, RemoveMembers, StartCopy, CreateCopy,
             CollectMembers, FillCopy, Start, versions
<1>4. CASE Delete(r)
  BY <1>4 DEF Delete, StartDelete, Confirm, ArchiveAssets, RemoveFromDatasets, RemoveFromVersions,
             RemoveRelations, Recount, StoreSummary, RestoreTrash, StartDrop, DropRelations, DropRows,
             DropVersions, DropMembers, CloseDataset, Start, versions
<1>5. CASE Fail(r)
  <2>1. CASE SyncRaises(r) \/ UndoRaises(r) \/ Crash(r)
    BY <2>1 DEF SyncRaises, UndoRaises, Crash, versions
  <2>2. CASE Undo(r) \/ AbandonCopy(r) \/ RemoveCopy(r)
    BY <1>0, <2>2 DEF Undo, AbandonCopy, RemoveCopy
  <2> QED
    BY <1>5, <2>1, <2>2 DEF Fail
<1> QED
  BY <1>1, <1>2, <1>3, <1>4, <1>5 DEF Step

(* Other kinds of requests are alone.                                      *)
LEMMA LinkersAreAlone ==
  ASSUME BaseInv, Unlinkable, NEW r \in Requests
  PROVE  req[r].kind \notin {"none", "delete", "drop"} => Sequential
<1> SUFFICES ASSUME req[r].kind \notin {"none", "delete", "drop"} PROVE Sequential
  OBVIOUS
<1>1. Expected(req[r]) /\ req[r] \in Request
  BY DEF BaseInv, TypeInv, TypeOK
<1>2. EventOf[req[r].kind] \in {{"relate"}, {"match"}, {"members"}, {"copy"}, {"link"}}
  BY <1>1 DEF Request, Kinds, EventOf
<1>3. events \intersect {"relate", "match", "members", "copy", "link"} # {}
  BY <1>1, <1>2 DEF Expected
<1> QED
  BY <1>3 DEF Unlinkable, Alone, Sequential

(* What the other requests rely on is not taken from them.                 *)
LEMMA OthersHold ==
  ASSUME BaseInv, UnlinkParts, Unlinkable, NEW r \in Requests, Step(r),
         NEW s \in Requests, s # r, NEW q, q = req'[s]
  PROVE  Sound(q)' /\ Dropped(q)' /\ Asked(q)'
<1>0. q = req[s] /\ (Sequential => ~Busy(s)) /\ q.at \in StepsOf[q.kind] /\ q \in Request
  BY StepFrame, OneStep DEF BaseInv, TypeInv, TypeOK, Placed
<1>1. q.kind \in {"none", "delete", "drop"}
  BY <1>0, LinkersAreAlone, KindsAreBusy DEF BaseInv
<1>2. q.at \in {"idle", "done", "confirming", "archiving", "unlisting", "unversioning", "unrelating",
                "recounting", "storing", "dropping", "emptying", "unpublishing", "clearing", "closing"}
  BY <1>0, <1>1 DEF StepsOf
<1>3. Sound(q)'
  BY <1>1, <1>2 DEF Sound
<1>4. CASE Sequential
  <2>1. q.kind = "none" /\ q.at \in {"idle", "done"}
    BY <1>0, <1>4, KindsAreBusy DEF BaseInv, Busy
  <2> QED
    BY <1>3, <2>1 DEF Dropped, Asked
<1>5. CASE ~Sequential
  <2>1. req[r].kind \in {"none", "delete", "drop"}
    BY <1>5, LinkersAreAlone
  <2>2. members' \subseteq members /\ rows' \subseteq rows /\ relations' \subseteq relations /\ published' \subseteq published
    BY <2>1, ShrinkStep
  <2>3. Dropped(q) /\ Asked(q)
    BY <1>0 DEF UnlinkParts
  <2>4. Dropped(q)'
    BY <2>2, <2>3 DEF Dropped, NoRelations, Memberless
  <2>5. Asked(q)'
    BY <2>2, <2>3 DEF Asked, Linked
  <2> QED
    BY <1>3, <2>4, <2>5
<1> QED
  BY <1>4, <1>5

(* Where no deletion is under way, deleted assets have no link.            *)
LEMMA AloneIsClean ==
  ASSUME BaseInv, UnlinkParts, Sequential, NEW r \in Requests, Step(r), req[r].kind # "delete"
  PROVE  \A a \in archived :
           /\ \A d \in Datasets : <<d, a>> \notin members /\ <<d, a>> \notin rows
           /\ \A x \in relations : x.status = "active" => a \notin {x.pair[1], x.pair[2]}
<1>1. \A s \in Requests : s # r => ~Busy(s)
  BY OneStep DEF BaseInv
<1>2. \A s \in Requests : req[s].kind # "delete"
  BY <1>1, KindsAreBusy DEF BaseInv
<1>3. \A steps, a : ~Deleting(steps, a)
  BY <1>2 DEF Deleting
<1> QED
  BY <1>3 DEF UnlinkParts, ArchivedAreUnlinked

(* Steps that only read, and steps of requests that add links.             *)
LEMMA ReadUnlinks ==
  ASSUME BaseInv, UnlinkParts, Unlinkable, NEW r \in Requests, Step(r),
         UNCHANGED <<archived, relations, datasets, members, published, rows>>,
         req[r].at \notin Unlinking,
         NEW q, q = req'[r], Sound(q), Dropped(q), Asked(q)
  PROVE  UnlinkParts'
<1>1. \A steps \in SUBSET Unlinking : \A a : Deleting(steps, a) => Deleting(steps, a)'
  BY StepFrame DEF BaseInv, Deleting
<1>2. ArchivedAreUnlinked'
  BY <1>1 DEF UnlinkParts, ArchivedAreUnlinked, Unlinking
<1>3. DeadAreEmpty'
  BY DEF UnlinkParts, DeadAreEmpty, Unversioned, NoRelations, Memberless
<1>4. Sound(q)' /\ Dropped(q)' /\ Asked(q)'
  BY DEF Sound, Valid, Active, Unversioned, NoRelations, Memberless, Dropped, Asked, Linked
<1> QED
  BY <1>2, <1>3, <1>4, OthersHold, UnlinkNext

(* Steps that add links add them to what is in use.                        *)
LEMMA LinkUnlinks ==
  ASSUME BaseInv, UnlinkParts, Unlinkable, NEW r \in Requests, Step(r),
         req[r].kind \notin {"none", "delete", "drop"},
         UNCHANGED <<archived, published, rows>>,
         \A m \in members' : m \in members \/ (m[2] \notin archived /\ datasets'[m[1]] = "active"),
         \A y \in relations' :
           /\ y.status = "active" => {y.pair[1], y.pair[2]} \intersect archived = {}
                                     \/ \E x \in relations : x.pair = y.pair /\ x.status = "active"
           /\ y.pair[2] \in Datasets => datasets'[y.pair[2]] = "active" \/ \E x \in relations : x.pair = y.pair,
         \A d \in Datasets : datasets'[d] # "active" => datasets[d] # "active" \/ (Unversioned(d) /\ Memberless(d))',
         NEW q, q = req'[r], Sound(q)', q.kind \in {req[r].kind, "none"}, q.kind = "none" => q.at = "done"
  PROVE  UnlinkParts'
<1>0. Sequential
  BY LinkersAreAlone
<1>1. \A a \in archived :
        /\ \A d \in Datasets : <<d, a>> \notin members /\ <<d, a>> \notin rows
        /\ \A x \in relations : x.status = "active" => a \notin {x.pair[1], x.pair[2]}
  BY <1>0, AloneIsClean
<1>2. ArchivedAreUnlinked'
  <2>1. \A a \in archived, d \in Datasets : <<d, a>> \notin members' /\ <<d, a>> \notin rows'
    BY <1>1
  <2>2. \A a \in archived : \A y \in relations' : y.status = "active" => a \notin {y.pair[1], y.pair[2]}
    BY <1>1
  <2> QED
    BY <2>1, <2>2 DEF ArchivedAreUnlinked
<1>3. DeadAreEmpty'
  <2> SUFFICES ASSUME NEW d \in Datasets, datasets'[d] # "active" PROVE (Unversioned(d) /\ Memberless(d))'
    BY DEF DeadAreEmpty
  <2>1. CASE datasets[d] # "active"
    <3>1. Unversioned(d) /\ Memberless(d)
      BY <2>1 DEF UnlinkParts, DeadAreEmpty
    <3>2. Memberless(d)'
      BY <3>1 DEF Memberless
    <3>3. NoRelations(d)'
      BY <3>1 DEF Unversioned, NoRelations
    <3> QED
      BY <3>1, <3>2, <3>3 DEF Unversioned
  <2> QED
    BY <2>1
<1>4. Dropped(q)' /\ Asked(q)'
  <2>1. q.at \in StepsOf[q.kind] /\ q \in Request
    <3>1. TypeInv'
      BY SynchroniseTypes, RelateTypes, ChangeMembersTypes, DeleteTypes, FailTypes DEF Step, BaseInv
    <3> QED
      BY <3>1 DEF TypeInv, TypeOK, Placed
  <2>2. q.kind \notin {"delete", "drop"}
    OBVIOUS
  <2>3. q.at \notin {"emptying", "unpublishing", "clearing", "closing"}
    BY <2>1, <2>2 DEF StepsOf, Synced, Request, Kinds
  <2> QED
    BY <2>2, <2>3 DEF Dropped, Asked
<1> QED
  BY <1>2, <1>3, <1>4, OthersHold, UnlinkNext

SynchronisingKinds == {"create", "revoke", "match", "add", "remove", "copy"}

(* A request that is over, or that makes no deletion, has nothing to keep. *)
LEMMA OverIsSound ==
  ASSUME NEW r \in Requests, req \in [Requests -> Request], End(r)
  PROVE  \A q : q = req'[r] => /\ Sound(q) /\ Dropped(q) /\ Asked(q) /\ Sound(q)' /\ Dropped(q)' /\ Asked(q)'
                               /\ q.kind = "none" /\ q.at = "done"
<1> SUFFICES ASSUME NEW q, q = req'[r]
             PROVE  /\ Sound(q) /\ Dropped(q) /\ Asked(q) /\ Sound(q)' /\ Dropped(q)' /\ Asked(q)'
                    /\ q.kind = "none" /\ q.at = "done"
  OBVIOUS
<1>1. q.kind = "none" /\ q.at = "done"
  BY DEF End, Set, NewRequest
<1> QED
  BY <1>1 DEF Sound, Dropped, Asked

(* A request that deletes nothing relies on nothing to be deleted.         *)
LEMMA LinkersAreNotDropped ==
  ASSUME NEW q, q.kind \notin {"delete", "drop"}, q.at \in StepsOf[q.kind], q.kind \in Kinds
  PROVE  Dropped(q) /\ Asked(q)
<1>1. q.at \notin {"emptying", "unpublishing", "clearing", "closing"}
  BY DEF StepsOf, Synced, Kinds
<1> QED
  BY <1>1 DEF Dropped, Asked

(* After a step the request fits its step again.                           *)
LEMMA NextIsPlaced ==
  ASSUME BaseInv, NEW r \in Requests, Step(r)
  PROVE  req'[r] \in Request /\ Placed(req'[r]) /\ req'[r].at \in StepsOf[req'[r].kind] /\ req'[r].kind \in Kinds
<1>1. TypeInv'
  BY SynchroniseTypes, RelateTypes, ChangeMembersTypes, DeleteTypes, FailTypes DEF Step, BaseInv
<1> QED
  BY <1>1 DEF TypeInv, TypeOK, Placed, Request

(* Only what is in use is included in a dataset.                           *)
LEMMA SynchroniseUnlinks ==
  ASSUME BaseInv, UnlinkParts, Unlinkable, NEW r \in Requests, Synchronise(r)
  PROVE  UnlinkParts'
<1> DEFINE x == req[r]
           q == req'[r]
<1>0. /\ x \in Request /\ Placed(x) /\ Sound(x) /\ req \in [Requests -> Request] /\ Step(r)
      /\ q.at \in StepsOf[q.kind] /\ q.kind \in Kinds
      /\ members \subseteq Datasets \X Members /\ relations \subseteq Row
  BY NextIsPlaced DEF BaseInv, TypeInv, TypeOK, UnlinkParts, Step
<1>1. ASSUME NEW s, Set(r, s) \/ Continue(r, s) PROVE q = s
  BY <1>0, <1>1 DEF Set, Continue
<1>2. x.at \in {"listing", "comparing", "including", "excluding"}
  BY DEF Synchronise, ListImageDatasets, CompareMembers, Include, Exclude, Synchronised
<1>3. x.kind \in SynchronisingKinds
  BY <1>0, <1>2 DEF Placed, StepsOf, Synced, Request, Kinds, SynchronisingKinds
<1>4. x.at \notin Unlinking /\ x.kind \notin {"none", "delete", "drop"}
  BY <1>2, <1>3 DEF Unlinking, SynchronisingKinds
<1>5. ASSUME q.kind \in {x.kind, "none"}, Sound(q),
             UNCHANGED <<archived, relations, datasets, members, versions>>
      PROVE  UnlinkParts'
  <2>1. Dropped(q) /\ Asked(q)
    BY <1>0, <1>4, <1>5, LinkersAreNotDropped
  <2> QED
    BY <1>0, <1>4, <1>5, <2>1, ReadUnlinks DEF versions
<1>6. CASE ListImageDatasets(r)
  <2> DEFINE z == [x EXCEPT !.at = "comparing", !.todo = {d \in Datasets : <<d, x.pair[2]>> \in members}]
  <2>1. q = z /\ x.at = "listing"
    BY <1>1, <1>6 DEF ListImageDatasets
  <2>2. /\ z.at = "comparing" /\ z.kind = x.kind /\ z.pair = x.pair /\ z.dataset = x.dataset /\ z.copy = x.copy
        /\ z.batch = x.batch /\ z.changed = x.changed
    BY <1>0 DEF Request
  <2>3. x.pair # NoPair
    <3>1. x.kind \in Relating
      BY <1>0, <1>3, <2>1 DEF Placed, StepsOf, Synced, SynchronisingKinds, Relating
    <3>2. x.pair \in Pairs
      BY <1>0, <2>1, <3>1 DEF Placed
    <3> QED
      BY <3>2, NoPairAssumption
  <2> HIDE DEF z, x
  <2>4. Sound(z)
    BY <1>0, <2>1, <2>2, <2>3 DEF Sound
  <2> QED
    BY <1>5, <1>6, <2>1, <2>2, <2>4 DEF ListImageDatasets
<1>7. CASE CompareMembers(r)
  <2>0. x.at = "comparing" /\ UNCHANGED <<archived, relations, datasets, members, versions>>
    BY <1>7 DEF CompareMembers
  <2>1. PICK d \in x.todo :
               \/ Continue(r, [x EXCEPT !.todo = @ \ {d}])
               \/ Compare(r, d) /\ (x.pair = NoPair \/ datasets[d] = "active")
    BY <1>7 DEF CompareMembers
  <2>2. CASE Continue(r, [x EXCEPT !.todo = @ \ {d}])
    <3> DEFINE z == [x EXCEPT !.todo = @ \ {d}]
    <3>1. q = z
      BY <1>1, <2>2
    <3>2. /\ z.at = "comparing" /\ z.kind = x.kind /\ z.pair = x.pair /\ z.dataset = x.dataset /\ z.copy = x.copy
          /\ z.batch = x.batch /\ z.changed = x.changed /\ z.todo \subseteq x.todo
      BY <1>0, <2>0 DEF Request
    <3> HIDE DEF z, x
    <3>3. Sound(z)
      BY <1>0, <2>0, <3>2 DEF Sound
    <3> QED
      BY <1>5, <2>0, <3>1, <3>2, <3>3
  <2>3. CASE Compare(r, d) /\ (x.pair = NoPair \/ datasets[d] = "active")
    <3> DEFINE current == MembersOf(d) \intersect Annotations
               z == [x EXCEPT !.at = "including", !.todo = @ \ {d}, !.visit = d,
                              !.in = Desired(d) \ current, !.out = current \ Desired(d)]
    <3>1. q = z
      BY <1>1, <2>3 DEF Compare
    <3>2. /\ z.at = "including" /\ z.kind = x.kind /\ z.pair = x.pair /\ z.dataset = x.dataset /\ z.copy = x.copy
          /\ z.batch = x.batch /\ z.changed = x.changed /\ z.todo \subseteq x.todo /\ z.visit = d
          /\ z.in \subseteq Desired(d)
      BY <1>0 DEF Request
    <3>3. Desired(d) \intersect archived = {}
      BY DEF Desired
    <3>4. datasets[d] = "active"
      BY <1>0, <2>0, <2>3 DEF Sound
    <3> HIDE DEF z, x
    <3>5. Sound(z)
      BY <1>0, <2>0, <3>2, <3>3, <3>4 DEF Sound
    <3> QED
      BY <1>5, <2>0, <3>1, <3>2, <3>5
  <2> QED
    BY <2>1, <2>2, <2>3
<1>8. CASE Include(r)
  <2>0. PICK z : z = [x EXCEPT !.at = "excluding", !.in = {}]
    OBVIOUS
  <2>1. q = z /\ x.at = "including" /\ members' = members \union ({x.visit} \X x.in)
        /\ UNCHANGED <<archived, relations, datasets, versions>>
    BY <1>1, <1>8, <2>0 DEF Include
  <2>2. /\ z.at = "excluding" /\ z.kind = x.kind /\ z.pair = x.pair /\ z.dataset = x.dataset /\ z.copy = x.copy
        /\ z.batch = x.batch /\ z.changed = x.changed /\ z.todo = x.todo /\ z.visit = x.visit
    BY <1>0, <2>0 DEF Request
  <2> HIDE DEF x
  <2>3. Sound(z)'
    BY <1>0, <2>1, <2>2 DEF Sound, versions, Unversioned, NoRelations
  <2>4. \A m \in members' : m \in members \/ (m[2] \notin archived /\ datasets'[m[1]] = "active")
    BY <1>0, <2>1 DEF Sound
  <2>5. \A y \in relations' : y \in relations /\ (y.pair[2] \in Datasets => \E v \in relations : v.pair = y.pair)
    BY <2>1
  <2> QED
    BY <1>0, <1>4, <2>1, <2>2, <2>3, <2>4, <2>5, LinkUnlinks DEF versions, x
<1>9. CASE Exclude(r)
  <2>0. PICK z : z = [x EXCEPT !.at = "comparing", !.visit = NoDataset, !.out = {}]
    OBVIOUS
  <2>1. q = z /\ x.at = "excluding" /\ members' \subseteq members
        /\ UNCHANGED <<archived, relations, datasets, versions>>
    BY <1>1, <1>9, <2>0 DEF Exclude
  <2>2. /\ z.at = "comparing" /\ z.kind = x.kind /\ z.pair = x.pair /\ z.dataset = x.dataset /\ z.copy = x.copy
        /\ z.batch = x.batch /\ z.changed = x.changed /\ z.todo = x.todo
    BY <1>0, <2>0 DEF Request
  <2> HIDE DEF x
  <2>3. Sound(z)'
    BY <1>0, <2>1, <2>2 DEF Sound, versions, Unversioned, NoRelations
  <2>4. \A m \in members' : m \in members
    BY <2>1
  <2>5. \A y \in relations' : y \in relations /\ (y.pair[2] \in Datasets => \E v \in relations : v.pair = y.pair)
    BY <2>1
  <2> QED
    BY <1>0, <1>4, <2>1, <2>2, <2>3, <2>4, <2>5, LinkUnlinks DEF versions, x
<1>10. CASE Synchronised(r)
  <2>0. UNCHANGED <<archived, relations, datasets, members, versions>>
    BY <1>10 DEF Synchronised
  <2>1. CASE End(r)
    BY <1>0, <1>5, <2>0, <2>1, OverIsSound
  <2>2. CASE ~End(r)
    <3> DEFINE z == [x EXCEPT !.at = "matching", !.pair = NoPair]
    <3>1. q = z /\ x.at = "comparing" /\ x.ready # {}
      BY <1>1, <1>10, <2>2 DEF Synchronised
    <3>2. z.at = "matching" /\ z.kind = x.kind
      BY <1>0 DEF Request
    <3>3. x.kind = "match"
      BY <1>0, <3>1 DEF Placed
    <3> HIDE DEF z, x
    <3>4. Sound(z)
      BY <3>2, <3>3 DEF Sound
    <3> QED
      BY <1>5, <2>0, <3>1, <3>2, <3>4
  <2> QED
    BY <2>1, <2>2
<1> QED
  BY <1>6, <1>7, <1>8, <1>9, <1>10 DEF Synchronise

(* A relation is inserted between what is in use.                          *)
LEMMA RelateUnlinks ==
  ASSUME BaseInv, UnlinkParts, Unlinkable, NEW r \in Requests, Relate(r)
  PROVE  UnlinkParts'
<1> DEFINE x == req[r]
           q == req'[r]
<1>0. /\ x \in Request /\ Placed(x) /\ Sound(x) /\ req \in [Requests -> Request] /\ Step(r)
      /\ q.at \in StepsOf[q.kind] /\ q.kind \in Kinds
      /\ members \subseteq Datasets \X Members /\ relations \subseteq Row /\ archived \subseteq Assets
      /\ published \subseteq Datasets
  BY NextIsPlaced DEF BaseInv, TypeInv, TypeOK, UnlinkParts, Step
<1>1. ASSUME NEW s, Set(r, s) \/ Continue(r, s) PROVE q = s
  BY <1>0, <1>1 DEF Set, Continue
<1>2. x.at \in {"idle", "checking", "inserting", "revoking", "matching"}
  BY DEF Relate, StartCreate, Check, Insert, StartRevoke, Revoke, StartMatch, NextPair, StartLink, StartUnlink, Start
<1>3. x.at # "idle" => x.kind \in {"create", "revoke", "match", "link", "unlink"}
  BY <1>0, <1>2 DEF Placed, StepsOf, Synced, Request, Kinds
<1>4. x.at \notin Unlinking
  BY <1>2 DEF Unlinking
<1>5. ASSUME q.kind \in Relating \union {"none"}, Sound(q),
             UNCHANGED <<archived, relations, datasets, members, versions>>
      PROVE  UnlinkParts'
  <2>1. Dropped(q) /\ Asked(q)
    BY <1>0, <1>5, LinkersAreNotDropped DEF Relating
  <2> QED
    BY <1>0, <1>4, <1>5, <2>1, ReadUnlinks DEF versions
<1>6. CASE StartCreate(r) \/ StartMatch(r) \/ StartLink(r) \/ StartUnlink(r)
  <2>0. UNCHANGED <<archived, relations, datasets, members, versions>>
    BY <1>6 DEF StartCreate, StartMatch, StartLink, StartUnlink, Start
  <2>1. q.kind \in {"create", "match", "link", "unlink"} /\ q.at \in {"checking", "matching", "revoking"}
    <3>1. CASE StartCreate(r)
      BY ZenonT(40), <1>1, <3>1 DEF StartCreate, NewRequest
    <3>2. CASE StartMatch(r)
      BY ZenonT(40), <1>1, <3>2 DEF StartMatch, NewRequest
    <3>3. CASE StartLink(r)
      BY ZenonT(40), <1>1, <3>3 DEF StartLink, NewRequest
    <3>4. CASE StartUnlink(r)
      BY ZenonT(40), <1>1, <3>4 DEF StartUnlink, NewRequest
    <3> QED
      BY <1>6, <3>1, <3>2, <3>3, <3>4
  <2> HIDE DEF q
  <2>2. Sound(q)
    BY <2>1 DEF Sound
  <2> QED
    BY <1>5, <2>0, <2>1, <2>2 DEF Relating
<1>7. CASE StartRevoke(r)
  <2>0. UNCHANGED <<archived, relations, datasets, members, versions>> /\ x.at = "idle"
    BY <1>7 DEF StartRevoke, Start
  <2>1. PICK v \in relations :
          /\ v.status = "active"
          /\ Continue(r, [NewRequest EXCEPT !.at = "revoking", !.kind = "revoke", !.pair = v.pair, !.id = v.id])
    BY <1>7 DEF StartRevoke
  <2>2. q.at = "revoking" /\ q.kind = "revoke" /\ q.pair = v.pair
    BY ZenonT(40), <1>1, <2>1 DEF NewRequest
  <2>3. Sequential
    BY <1>7 DEF StartRevoke, Unlinkable, Alone, Sequential
  <2>4. x.kind # "delete"
    BY <1>0, <2>0 DEF Placed, StepsOf
  <2>5. {v.pair[1], v.pair[2]} \intersect archived = {}
    BY <1>0, <2>1, <2>3, <2>4, AloneIsClean
  <2> HIDE DEF q
  <2>6. Sound(q)
    BY <2>2, <2>5 DEF Sound
  <2> QED
    BY <1>5, <2>0, <2>2, <2>6 DEF Relating
<1>8. CASE Check(r) \/ NextPair(r)
  <2>0. UNCHANGED <<archived, relations, datasets, members, versions>> /\ x.at \in {"checking", "matching"}
    BY <1>8 DEF Check, NextPair
  <2>1. CASE End(r)
    BY <1>0, <1>5, <2>0, <2>1, OverIsSound
  <2>2. CASE ~End(r)
    <3>1. x.kind \in {"create", "match", "link"}
      BY <1>0, <2>0 DEF Placed, StepsOf, Synced, Request, Kinds
    <3>2. q.kind = x.kind /\ (q.at \in {"checking", "matching"} \/ (q.at = "inserting" /\ Valid(q.pair)))
      <4>1. CASE Check(r) /\ Creatable(x.pair)
        <5>1. \E n : Continue(r, [x EXCEPT !.at = "inserting", !.revision = n])
          BY <4>1 DEF Check
        <5>2. q.at = "inserting" /\ q.pair = x.pair /\ q.kind = x.kind
          BY <1>0, <1>1, <5>1 DEF Request
        <5> QED
          BY <4>1, <5>2 DEF Creatable
      <4>2. CASE Check(r) /\ ~Creatable(x.pair)
        BY <1>0, <1>1, <2>2, <4>2 DEF Check, Refused, Request
      <4>3. CASE NextPair(r)
        <5>1. \E p : Continue(r, [x EXCEPT !.at = "checking", !.pair = p, !.ready = @ \ {p}])
          BY <2>2, <4>3 DEF NextPair
        <5> QED
          BY <1>0, <1>1, <5>1 DEF Request
      <4> QED
        BY <1>8, <4>1, <4>2, <4>3
    <3> HIDE DEF q, x
    <3>3. Sound(q)
      BY <3>1, <3>2 DEF Sound
    <3> QED
      BY <1>5, <2>0, <3>1, <3>2, <3>3 DEF Relating
  <2> QED
    BY <2>1, <2>2
<1>9. ASSUME UNCHANGED <<archived, datasets, members, versions>>, x.at \in {"inserting", "revoking"},
             \A y \in relations' :
               \/ \E v \in relations : v.pair = y.pair /\ (y.status = "active" => v.status = "active")
               \/ y.pair = x.pair /\ x.at = "inserting",
             End(r) \/ Continue(r, [x EXCEPT !.at = "listing"]) \/ Set(r, [x EXCEPT !.at = "listing"])
      PROVE  UnlinkParts'
  <2>1. PICK z : z = q
    OBVIOUS
  <2>2. Sound(z)' /\ z.kind \in {x.kind, "none"} /\ (z.kind = "none" => z.at = "done")
    <3>1. CASE End(r)
      BY <1>0, <2>1, <3>1, OverIsSound
    <3>2. CASE ~End(r)
      <4>1. z.at = "listing" /\ z.pair = x.pair /\ z.kind = x.kind
        BY <1>0, <1>1, <1>9, <2>1, <3>2 DEF Request
      <4> HIDE DEF q, x
      <4>2. x.kind \in {"create", "revoke", "match", "link", "unlink"}
        BY <1>3, <1>9
      <4>3. Sound(z)'
        BY <1>0, <1>9, <4>1, <4>2 DEF Sound
      <4> QED
        BY <4>1, <4>2, <4>3
    <3> QED
      BY <3>1, <3>2
  <2>3. x.at = "inserting" => /\ {x.pair[1], x.pair[2]} \intersect archived = {}
                              /\ x.pair[2] \in Datasets => datasets[x.pair[2]] = "active"
    <3> SUFFICES ASSUME x.at = "inserting"
                 PROVE  /\ {x.pair[1], x.pair[2]} \intersect archived = {}
                        /\ x.pair[2] \in Datasets => datasets[x.pair[2]] = "active"
      OBVIOUS
    <3>1. Valid(x.pair)
      BY <1>0 DEF Sound
    <3>2. Images \intersect Datasets = {} /\ archived \intersect Datasets = {}
      BY <1>0, TypesAssumption DEF Assets
    <3> QED
      BY <1>0, <3>1, <3>2 DEF Valid, Active
  <2>4. ASSUME NEW y \in relations'
        PROVE  /\ y.status = "active" => {y.pair[1], y.pair[2]} \intersect archived = {}
                                         \/ \E v \in relations : v.pair = y.pair /\ v.status = "active"
               /\ y.pair[2] \in Datasets => datasets'[y.pair[2]] = "active" \/ \E v \in relations : v.pair = y.pair
    <3>1. CASE \E v \in relations : v.pair = y.pair /\ (y.status = "active" => v.status = "active")
      BY <3>1
    <3>2. CASE y.pair = x.pair /\ x.at = "inserting"
      BY <1>9, <2>3, <3>2
    <3> QED
      BY <1>9, <3>1, <3>2
  <2>5. x.kind \notin {"none", "delete", "drop"}
    BY <1>3, <1>9
  <2> HIDE DEF q, x
  <2> QED
    BY <1>0, <1>9, <2>1, <2>2, <2>4, <2>5, LinkUnlinks DEF versions, q, x
<1>10. CASE Insert(r)
  <2>1. \A y \in relations' : y \in relations \/ y.pair = x.pair
    BY <1>10 DEF Insert
  <2> QED
    BY <1>9, <1>10, <2>1 DEF Insert
<1>11. CASE Revoke(r)
  <2>1. SetRow(x.pair, x.id, "active", "revoked")
    BY <1>11 DEF Revoke
  <2>2. ASSUME NEW y \in relations'
        PROVE  \E v \in relations : v.pair = y.pair /\ (y.status = "active" => v.status = "active")
    <3>1. PICK v \in relations : Moved(v, y, x.pair, x.id, "active", "revoked")
      BY <1>0, <2>1, SetRowMoves
    <3> QED
      BY <3>1 DEF Moved
  <2> QED
    BY <1>9, <1>11, <2>2 DEF Revoke, At
<1> QED
  BY <1>6, <1>7, <1>8, <1>10, <1>11 DEF Relate

(* Members are added, and copied, that are in use.                         *)
LEMMA ChangeMembersUnlinks ==
  ASSUME BaseInv, UnlinkParts, Unlinkable, NEW r \in Requests, ChangeMembers(r)
  PROVE  UnlinkParts'
<1> DEFINE x == req[r]
           q == req'[r]
<1>0. /\ x \in Request /\ Placed(x) /\ Sound(x) /\ req \in [Requests -> Request] /\ Step(r)
      /\ q.at \in StepsOf[q.kind] /\ q.kind \in Kinds
      /\ members \subseteq Datasets \X Members /\ datasets \in [Datasets -> {"none", "active", "deleted"}]
  BY NextIsPlaced DEF BaseInv, TypeInv, TypeOK, UnlinkParts, Step
<1>1. ASSUME NEW s, Set(r, s) \/ Continue(r, s) PROVE q = s
  BY <1>0, <1>1 DEF Set, Continue
<1>2. x.at \in {"idle", "adding", "removing", "creating", "collecting", "filling"}
  BY DEF ChangeMembers, StartAdd, AddMember, Added, StartRemove, RemoveMembers, StartCopy, CreateCopy,
         CollectMembers, FillCopy, Start
<1>3. /\ x.at # "idle" => x.kind \in {"add", "remove", "copy"}
      /\ x.at \in {"creating", "collecting", "filling"} => x.kind = "copy"
      /\ x.at = "adding" => x.kind = "add"
      /\ x.at = "removing" => x.kind = "remove"
      /\ x.at = "idle" => x.kind = "none"
  BY <1>0, <1>2 DEF Placed, StepsOf, Synced, Request, Kinds
<1>4. x.at \notin Unlinking
  BY <1>2 DEF Unlinking
<1>5. ASSUME q.kind \in {"add", "remove", "copy"}, Sound(q),
             UNCHANGED <<archived, relations, datasets, members, versions>>
      PROVE  UnlinkParts'
  <2>1. Dropped(q) /\ Asked(q)
    BY <1>0, <1>5, LinkersAreNotDropped
  <2> QED
    BY <1>0, <1>4, <1>5, <2>1, ReadUnlinks DEF versions
<1>6. ASSUME NEW z, z = q, x.at # "idle", z.kind = x.kind, Sound(z)',
             UNCHANGED <<archived, relations, versions>>,
             \A m \in members' : m \in members \/ (m[2] \notin archived /\ datasets'[m[1]] = "active"),
             \A d \in Datasets : datasets'[d] # "active" => datasets[d] # "active"
      PROVE  UnlinkParts'
  <2>1. \A y \in relations' : y \in relations /\ \E v \in relations : v.pair = y.pair
    BY <1>6
  <2>2. x.kind \notin {"none", "delete", "drop"}
    BY <1>3, <1>6
  <2>3. UNCHANGED <<archived, published, rows>>
    BY <1>6 DEF versions
  <2>4. z.kind \in {x.kind, "none"} /\ (z.kind = "none" => z.at = "done")
    BY <1>6, <2>2
  <2> HIDE DEF x, q
  <2>5. \A y \in relations' :
           /\ y.status = "active" => {y.pair[1], y.pair[2]} \intersect archived = {}
                                     \/ \E v \in relations : v.pair = y.pair /\ v.status = "active"
           /\ y.pair[2] \in Datasets => datasets'[y.pair[2]] = "active" \/ \E v \in relations : v.pair = y.pair
    BY <2>1
  <2> QED
    BY <1>0, <1>6, <2>2, <2>3, <2>4, <2>5, LinkUnlinks DEF x, q
<1>7. CASE StartAdd(r)
  <2>1. PICK d \in Datasets, S \in SUBSET (Images \ archived) :
          /\ Lease(r, d)
          /\ Set(r, [NewRequest EXCEPT !.at = "adding", !.kind = "add", !.dataset = d, !.batch = S])
    BY <1>7 DEF StartAdd, AtMost
  <2>2. q.at = "adding" /\ q.kind = "add" /\ q.dataset = d /\ q.batch = S /\ q.changed = {}
    BY ZenonT(40), <1>1, <2>1 DEF NewRequest
  <2> HIDE DEF q
  <2>3. Sound(q)
    BY <2>1, <2>2 DEF Sound, Lease
  <2> QED
    BY <1>5, <1>7, <2>2, <2>3 DEF StartAdd, Start
<1>8. CASE StartRemove(r)
  <2>1. PICK d \in Datasets, S \in SUBSET Images :
          /\ Lease(r, d)
          /\ Set(r, [NewRequest EXCEPT !.at = "removing", !.kind = "remove", !.dataset = d,
                                       !.batch = S, !.changed = S \intersect MembersOf(d)])
    BY <1>8 DEF StartRemove, AtMost
  <2>2. q.at = "removing" /\ q.kind = "remove" /\ q.dataset = d /\ q.changed = S \intersect MembersOf(d)
    BY ZenonT(40), <1>1, <2>1 DEF NewRequest
  <2>3. Sequential /\ x.kind # "delete"
    BY <1>3, <1>8 DEF StartRemove, Start, Unlinkable, Alone, Sequential
  <2>4. MembersOf(d) \intersect archived = {}
    BY <1>0, <2>3, AloneIsClean DEF MembersOf
  <2> HIDE DEF q
  <2>5. Sound(q)
    BY <2>1, <2>2, <2>4 DEF Sound, Lease
  <2> QED
    BY <1>5, <1>8, <2>2, <2>5 DEF StartRemove, Start
<1>9. CASE StartCopy(r)
  <2>1. PICK d \in Datasets :
          /\ Lease(r, d)
          /\ Set(r, [NewRequest EXCEPT !.at = "creating", !.kind = "copy", !.dataset = d])
    BY <1>9 DEF StartCopy
  <2>2. q.at = "creating" /\ q.kind = "copy" /\ q.dataset = d /\ q.changed = {}
    BY ZenonT(40), <1>1, <2>1 DEF NewRequest
  <2> HIDE DEF q
  <2>3. Sound(q)
    BY <2>1, <2>2 DEF Sound, Lease
  <2> QED
    BY <1>5, <1>9, <2>2, <2>3 DEF StartCopy, Start
<1>10. CASE AddMember(r)
  <2>0. x.at = "adding" /\ UNCHANGED <<archived, relations, datasets, versions>>
    BY <1>10 DEF AddMember
  <2>1. PICK a \in x.batch :
          /\ members' = members \union {<<x.dataset, a>>}
          /\ Continue(r, [x EXCEPT !.batch = @ \ {a}, !.changed = @ \union ({a} \ MembersOf(x.dataset))])
    BY <1>10 DEF AddMember
  <2>2. PICK z : z = [x EXCEPT !.batch = @ \ {a}, !.changed = @ \union ({a} \ MembersOf(x.dataset))]
    OBVIOUS
  <2>3. z = q
    BY <1>1, <2>1, <2>2
  <2> HIDE DEF q, x
  <2>7. /\ z.at = "adding" /\ z.kind = x.kind /\ z.dataset = x.dataset /\ z.batch = x.batch \ {a}
        /\ z.changed = x.changed \union ({a} \ MembersOf(x.dataset))
    BY <1>0, <2>0, <2>2 DEF Request
  <2> USE DEF q, x
  <2>4. x.kind = "add" /\ datasets[x.dataset] = "active" /\ x.batch \intersect archived = {}
        /\ x.changed \intersect archived = {}
    BY <1>0, <1>3, <2>0 DEF Sound
  <2>5. Sound(z)'
    BY <2>0, <2>1, <2>7, <2>4 DEF Sound
  <2>6. \A m \in members' : m \in members \/ (m[2] \notin archived /\ datasets'[m[1]] = "active")
    BY <2>0, <2>1, <2>4
  <2> QED
    BY <1>6, <2>0, <2>3, <2>7, <2>5, <2>6
<1>11. CASE Added(r)
  <2>1. Continue(r, [x EXCEPT !.at = "comparing", !.todo = {x.dataset}]) /\ x.at = "adding"
    BY <1>11 DEF Added, Adjust
  <2>2. q.at = "comparing" /\ q.kind = x.kind /\ q.dataset = x.dataset /\ q.batch = x.batch /\ q.changed = x.changed
        /\ q.todo = {x.dataset}
    BY <1>0, <1>1, <2>1 DEF Request
  <2>3. x.kind = "add"
    BY <1>3, <2>1
  <2> HIDE DEF q, x
  <2>4. Sound(q)
    BY <1>0, <2>2, <2>3 DEF Sound
  <2> QED
    BY <1>5, <1>11, <2>2, <2>3, <2>4 DEF Added
<1>12. CASE RemoveMembers(r)
  <2>1. Continue(r, [x EXCEPT !.at = "comparing", !.todo = {x.dataset}]) /\ x.at = "removing"
        /\ members' \subseteq members /\ UNCHANGED <<archived, relations, datasets, versions>>
    BY <1>12 DEF RemoveMembers, Adjust
  <2>2. PICK z : z = q
    OBVIOUS
  <2>3. z.at = "comparing" /\ z.kind = x.kind /\ z.dataset = x.dataset /\ z.changed = x.changed
        /\ z.todo = {x.dataset}
    BY <1>0, <1>1, <2>1, <2>2 DEF Request
  <2>4. x.kind = "remove"
    BY <1>3, <2>1
  <2> HIDE DEF q, x
  <2>5. Sound(z)'
    BY <1>0, <2>1, <2>3, <2>4 DEF Sound
  <2> QED
    BY <1>6, <2>1, <2>2, <2>3, <2>5
<1>13. CASE CreateCopy(r)
  <2>0. x.at = "creating" /\ x.kind = "copy" /\ x.changed \intersect archived = {} /\ datasets[x.dataset] = "active"
    BY <1>0, <1>3, <1>13 DEF CreateCopy, Sound
  <2>1. PICK c \in Datasets :
          /\ datasets[c] = "none"
          /\ datasets' = [datasets EXCEPT ![c] = "active"]
          /\ Continue(r, [x EXCEPT !.at = "collecting", !.copy = c])
          /\ UNCHANGED <<archived, relations, members, versions>>
    BY <1>13 DEF CreateCopy
  <2>2. PICK z : z = q
    OBVIOUS
  <2>3. z.at = "collecting" /\ z.kind = x.kind /\ z.dataset = x.dataset /\ z.changed = x.changed /\ z.copy = c
    BY <1>0, <1>1, <2>1, <2>2 DEF Request
  <2>4. Unversioned(c)
    BY <2>1 DEF UnlinkParts, DeadAreEmpty
  <2>5. Unversioned(c)'
    BY <2>1, <2>4 DEF Unversioned, NoRelations, versions
  <2>6. datasets'[c] = "active" /\ x.dataset \in Datasets /\ datasets'[x.dataset] = "active"
    BY <1>0, <2>0, <2>1 DEF Placed
  <2>7. Sound(z)'
    BY <2>0, <2>1, <2>3, <2>5, <2>6 DEF Sound
  <2>8. \A d \in Datasets : datasets'[d] # "active" => datasets[d] # "active"
    BY <1>0, <2>1
  <2> QED
    BY <1>6, <2>0, <2>1, <2>2, <2>3, <2>7, <2>8
<1>14. CASE CollectMembers(r)
  <2>1. Continue(r, [x EXCEPT !.at = "filling", !.changed = MembersOf(x.dataset) \ archived]) /\ x.at = "collecting"
    BY <1>14 DEF CollectMembers
  <2>2. q.at = "filling" /\ q.kind = x.kind /\ q.dataset = x.dataset /\ q.copy = x.copy
        /\ q.changed = MembersOf(x.dataset) \ archived
    BY <1>0, <1>1, <2>1 DEF Request
  <2>3. x.kind = "copy"
    BY <1>3, <2>1
  <2> HIDE DEF q, x
  <2>4. Sound(q)
    BY <1>0, <2>1, <2>2, <2>3 DEF Sound
  <2> QED
    BY <1>5, <1>14, <2>2, <2>3, <2>4 DEF CollectMembers
<1>15. CASE FillCopy(r)
  <2>1. Continue(r, [x EXCEPT !.at = "comparing", !.todo = {x.copy}]) /\ x.at = "filling"
        /\ members' = members \union ({x.copy} \X (x.changed \intersect Members))
        /\ UNCHANGED <<archived, relations, datasets, versions>>
    BY <1>15 DEF FillCopy, Adjust
  <2>2. PICK z : z = q
    OBVIOUS
  <2>3. z.at = "comparing" /\ z.kind = x.kind /\ z.dataset = x.dataset /\ z.changed = x.changed /\ z.copy = x.copy
        /\ z.todo = {x.copy}
    BY <1>0, <1>1, <2>1, <2>2 DEF Request
  <2>4. x.kind = "copy" /\ datasets[x.copy] = "active" /\ x.changed \intersect archived = {} /\ Unversioned(x.copy)
    BY <1>0, <1>3, <2>1 DEF Sound
  <2> HIDE DEF q, x
  <2>5. Sound(z)'
    BY <1>0, <2>1, <2>3, <2>4 DEF Sound, Unversioned, NoRelations, versions
  <2>6. \A m \in members' : m \in members \/ (m[2] \notin archived /\ datasets'[m[1]] = "active")
    BY <2>1, <2>4
  <2> QED
    BY <1>6, <2>1, <2>2, <2>3, <2>5, <2>6
<1> QED
  BY <1>7, <1>8, <1>9, <1>10, <1>11, <1>12, <1>13, <1>14, <1>15 DEF ChangeMembers

(* What is taken back was there before, and is in use still.               *)
LEMMA FailUnlinks ==
  ASSUME BaseInv, UnlinkParts, Unlinkable, NEW r \in Requests, Fail(r)
  PROVE  UnlinkParts'
<1> DEFINE x == req[r]
           q == req'[r]
<1>0. /\ x \in Request /\ Placed(x) /\ Sound(x) /\ req \in [Requests -> Request] /\ Step(r)
      /\ q.at \in StepsOf[q.kind] /\ q.kind \in Kinds
      /\ members \subseteq Datasets \X Members /\ datasets \in [Datasets -> {"none", "active", "deleted"}]
      /\ relations \subseteq Row
  BY NextIsPlaced DEF BaseInv, TypeInv, TypeOK, UnlinkParts, Step
<1>1. ASSUME NEW s, Set(r, s) \/ Continue(r, s) PROVE q = s
  BY <1>0, <1>1 DEF Set, Continue
<1>2. ~Crash(r)
  BY DEF Crash, Unlinkable
<1>3. x.at \in Synchronising \union Synced \union {"abandoning"}
  BY <1>0, <1>2 DEF Fail, SyncRaises, Undo, AbandonCopy, RemoveCopy, UndoRaises, Placed, Synced
<1>4. x.kind \in SynchronisingKinds /\ x.at \notin Unlinking
  BY <1>0, <1>3 DEF Placed, StepsOf, Synced, Synchronising, Request, Kinds, SynchronisingKinds, Unlinking
<1>5. ASSUME q.kind \in {x.kind, "none"}, Sound(q),
             UNCHANGED <<archived, relations, datasets, members, versions>>
      PROVE  UnlinkParts'
  <2>1. Dropped(q) /\ Asked(q)
    BY <1>0, <1>4, <1>5, LinkersAreNotDropped DEF SynchronisingKinds
  <2> QED
    BY <1>0, <1>4, <1>5, <2>1, ReadUnlinks DEF versions
<1>6. ASSUME NEW z, z = q, z.kind \in {x.kind, "none"}, z.kind = "none" => z.at = "done", Sound(z)',
             UNCHANGED <<archived, versions>>,
             \A m \in members' : m \in members \/ (m[2] \notin archived /\ datasets'[m[1]] = "active"),
             \A y \in relations' :
               \E v \in relations : v.pair = y.pair /\ (y.status = "active" =>
                   v.status = "active" \/ {y.pair[1], y.pair[2]} \intersect archived = {}),
             \A d \in Datasets :
               datasets'[d] # "active" => datasets[d] # "active" \/ (Unversioned(d) /\ Memberless(d))'
      PROVE  UnlinkParts'
  <2>1. x.kind \notin {"none", "delete", "drop"}
    BY <1>4 DEF SynchronisingKinds
  <2>2. UNCHANGED <<archived, published, rows>>
    BY <1>6 DEF versions
  <2> HIDE DEF x, q
  <2>3. \A y \in relations' :
           /\ y.status = "active" => {y.pair[1], y.pair[2]} \intersect archived = {}
                                     \/ \E v \in relations : v.pair = y.pair /\ v.status = "active"
           /\ y.pair[2] \in Datasets => datasets'[y.pair[2]] = "active" \/ \E v \in relations : v.pair = y.pair
    BY <1>6
  <2> QED
    BY <1>0, <1>6, <2>1, <2>2, <2>3, LinkUnlinks DEF x, q
<1>7. CASE SyncRaises(r)
  <2>1. Continue(r, [x EXCEPT !.at = "undoing", !.undone = TRUE, !.todo = {}, !.visit = NoDataset, !.in = {}, !.out = {}])
        /\ x.at \in Synchronising
    BY <1>7 DEF SyncRaises
  <2>2. q.at = "undoing" /\ q.kind = x.kind /\ q.pair = x.pair /\ q.dataset = x.dataset /\ q.copy = x.copy
        /\ q.batch = x.batch /\ q.changed = x.changed
    BY ZenonT(40), <1>0, <1>1, <2>1 DEF Request
  <2> HIDE DEF q, x
  <2>3. Sound(q)
    BY <1>0, <2>1, <2>2 DEF Sound, Synchronising
  <2> QED
    BY <1>5, <1>7, <2>2, <2>3 DEF SyncRaises
<1>8. CASE Undo(r)
  <2>0. x.at = "undoing" /\ x.kind # "copy" /\ UNCHANGED <<archived, datasets, versions>>
    BY <1>8 DEF Undo
  <2>1. PICK z : z = q
    OBVIOUS
  <2>2. CASE x.pair # NoPair
    <3>1. UndoRelation(r) /\ Set(r, [x EXCEPT !.at = "listing"]) /\ members' = members
      BY <1>8, <2>2 DEF Undo, UndoRelation, At
    <3>2. z.at = "listing" /\ z.kind = x.kind /\ z.pair = x.pair /\ z.dataset = x.dataset /\ z.copy = x.copy
          /\ z.batch = x.batch /\ z.changed = x.changed
      BY <1>0, <1>1, <2>1, <3>1 DEF Request
    <3>3. ASSUME NEW y \in relations'
          PROVE  \E v \in relations : v.pair = y.pair /\ (y.status = "active" =>
                   v.status = "active" \/ {y.pair[1], y.pair[2]} \intersect archived = {})
      <4>1. CASE x.kind = "revoke"
        <5>1. SetRow(x.pair, x.id, "revoked", "active")
          BY <3>1, <4>1 DEF UndoRelation
        <5>2. PICK v \in relations : Moved(v, y, x.pair, x.id, "revoked", "active")
          BY <1>0, <5>1, SetRowMoves
        <5>3. {x.pair[1], x.pair[2]} \intersect archived = {}
          BY <1>0, <4>1 DEF Sound
        <5> QED
          BY <5>2, <5>3 DEF Moved
      <4>2. CASE x.kind # "revoke"
        BY <3>1, <4>2 DEF UndoRelation
      <4> QED
        BY <4>1, <4>2
    <3> HIDE DEF q, x
    <3>4. Sound(z)'
      BY <1>0, <2>0, <3>2 DEF Sound
    <3>5. /\ UNCHANGED <<archived, versions>>
          /\ \A m \in members' : m \in members
          /\ \A d \in Datasets : datasets'[d] # "active" => datasets[d] # "active"
          /\ \A y \in relations' :
               \E v \in relations : v.pair = y.pair /\ (y.status = "active" =>
                   v.status = "active" \/ {y.pair[1], y.pair[2]} \intersect archived = {})
      BY <2>0, <3>1, <3>3
    <3>6. z.kind = x.kind /\ z.kind # "none"
      BY <1>4, <3>2 DEF SynchronisingKinds
    <3> QED
      BY <1>6, <2>1, <3>4, <3>5, <3>6
  <2>3. CASE x.pair = NoPair
    <3> DEFINE own == {x.dataset} \X (x.changed \intersect Members)
    <3>1. /\ UndoMembers(r) /\ Set(r, [x EXCEPT !.at = "comparing", !.todo = {x.dataset}, !.changed = {}])
          /\ relations' = relations /\ members' \subseteq members \union own
      BY <1>8, <2>3 DEF Undo, UndoMembers
    <3>2. z.at = "comparing" /\ z.kind = x.kind /\ z.pair = x.pair /\ z.dataset = x.dataset /\ z.copy = x.copy
          /\ z.batch = x.batch /\ z.changed = {} /\ z.todo = {x.dataset}
      BY <1>0, <1>1, <2>1, <3>1 DEF Request
    <3>3. x.kind \in {"add", "remove"}
      <4>1. x.kind \in Relating => x.pair \in Pairs
        BY <1>0, <2>0 DEF Placed
      <4> QED
        BY <1>4, <2>0, <2>3, <4>1, NoPairAssumption DEF Relating, SynchronisingKinds
    <3>4. datasets[x.dataset] = "active" /\ x.changed \intersect archived = {}
          /\ (x.kind = "add" => x.batch \intersect archived = {})
      BY <1>0, <3>3 DEF Sound
    <3>5. \A m \in members' : m \in members \/ (m[2] \notin archived /\ datasets'[m[1]] = "active")
      BY <2>0, <3>1, <3>4
    <3> HIDE DEF q, x, own
    <3>6. Sound(z)'
      BY <2>0, <3>2, <3>3, <3>4 DEF Sound
    <3>7. /\ UNCHANGED <<archived, versions>>
          /\ \A d \in Datasets : datasets'[d] # "active" => datasets[d] # "active"
          /\ \A y \in relations' :
               \E v \in relations : v.pair = y.pair /\ (y.status = "active" =>
                   v.status = "active" \/ {y.pair[1], y.pair[2]} \intersect archived = {})
      BY <2>0, <3>1
    <3>8. z.kind = x.kind /\ z.kind # "none"
      BY <1>4, <3>2 DEF SynchronisingKinds
    <3> QED
      BY <1>6, <2>1, <3>5, <3>6, <3>7, <3>8
  <2> QED
    BY <2>2, <2>3
<1>9. CASE AbandonCopy(r)
  <2>1. /\ x.at = "undoing" /\ x.kind = "copy" /\ Set(r, [x EXCEPT !.at = "abandoning"])
        /\ members' = {m \in members : m[1] # x.copy} /\ UNCHANGED <<archived, relations, datasets, versions>>
    BY <1>9 DEF AbandonCopy, At
  <2>2. PICK z : z = q
    OBVIOUS
  <2>3. z.at = "abandoning" /\ z.kind = x.kind /\ z.dataset = x.dataset /\ z.copy = x.copy /\ z.changed = x.changed
    BY <1>0, <1>1, <2>1, <2>2 DEF Request
  <2> HIDE DEF q, x
  <2>4. Sound(z)'
    BY <1>0, <2>1, <2>3 DEF Sound, Unversioned, NoRelations, Memberless, versions
  <2> QED
    BY <1>6, <2>1, <2>2, <2>3, <2>4
<1>10. CASE RemoveCopy(r)
  <2>1. /\ x.at = "abandoning" /\ datasets' = [datasets EXCEPT ![x.copy] = "none"] /\ End(r)
        /\ UNCHANGED <<archived, relations, members, versions>>
    BY <1>10 DEF RemoveCopy
  <2>2. x.kind = "copy"
    BY <1>0, <1>4, <2>1 DEF Placed, StepsOf, Synced, SynchronisingKinds
  <2>3. Unversioned(x.copy) /\ Memberless(x.copy)
    BY <1>0, <2>1, <2>2 DEF Sound
  <2>4. \A d \in Datasets : datasets'[d] # "active" => datasets[d] # "active" \/ (Unversioned(d) /\ Memberless(d))'
    <3> SUFFICES ASSUME NEW d \in Datasets, d = x.copy PROVE (Unversioned(d) /\ Memberless(d))'
      BY <1>0, <2>1
    <3>1. Unversioned(d) /\ Memberless(d)
      BY <2>3
    <3> QED
      BY <2>1, <3>1 DEF Unversioned, NoRelations, Memberless, versions
  <2>5. PICK z : z = q
    OBVIOUS
  <2>6. Sound(z)' /\ z.kind = "none" /\ z.at = "done"
    BY <1>0, <2>1, <2>5, OverIsSound
  <2> QED
    BY <1>6, <2>1, <2>4, <2>5, <2>6
<1>11. CASE UndoRaises(r)
  BY <1>0, <1>5, <1>11, OverIsSound DEF UndoRaises
<1> QED
  BY <1>2, <1>7, <1>8, <1>9, <1>10, <1>11 DEF Fail

DeletionSteps == {"idle", "done", "confirming", "archiving", "unlisting", "unversioning", "unrelating",
                  "recounting", "storing", "dropping", "emptying", "unpublishing", "clearing", "closing"}

(* A deletion adds no links.                                               *)
LEMMA DeletionsAreSound ==
  ASSUME NEW q, q.kind \in {"none", "delete", "drop"}, q.at \in StepsOf[q.kind]
  PROVE  Sound(q) /\ Sound(q)' /\ q.at \in DeletionSteps
<1>1. q.at \in DeletionSteps
  BY DEF StepsOf, DeletionSteps
<1> QED
  BY <1>1 DEF Sound, DeletionSteps

(* The steps of a deletion: what is deleted now, its request is about to   *)
(* unlink, and a request goes on when the links of one kind are gone.      *)
LEMMA DeletionUnlinks ==
  ASSUME BaseInv, UnlinkParts, Unlinkable, NEW r \in Requests, Step(r), req[r].kind \in {"none", "delete", "drop"},
         NEW q, q = req'[r], q.kind \in {"none", "delete", "drop"}, Dropped(q)', Asked(q)',
         \A a \in archived' : a \in archived \/ (q.kind = "delete" /\ q.at = "unlisting" /\ a \in q.batch),
         \A d \in Datasets : datasets'[d] # "active" => datasets[d] # "active" \/ (Unversioned(d) /\ Memberless(d))',
         req[r].at \in Unlinking => q.batch = req[r].batch,
         req[r].at = "unlisting" => q.kind = "delete" /\ q.at = "unversioning"
                                    /\ \A m \in members' : m[2] \notin req[r].batch,
         req[r].at = "unversioning" => q.kind = "delete" /\ q.at = "unrelating"
                                       /\ \A m \in rows' : m[2] \notin req[r].batch,
         req[r].at = "unrelating" => \A y \in relations' : {y.pair[1], y.pair[2]} \intersect req[r].batch = {}
  PROVE  UnlinkParts'
<1>1. members' \subseteq members /\ rows' \subseteq rows /\ relations' \subseteq relations /\ published' \subseteq published
  BY ShrinkStep
<1>2. Sound(q)'
  BY NextIsPlaced, DeletionsAreSound
<1>3. \A s \in Requests : s # r => req'[s] = req[s]
  BY StepFrame DEF BaseInv
<1>4. ArchivedAreUnlinked'
  <2> SUFFICES ASSUME NEW a \in archived'
               PROVE  /\ (\E d \in Datasets : <<d, a>> \in members') => Deleting({"unlisting"}, a)'
                      /\ (\E d \in Datasets : <<d, a>> \in rows') => Deleting({"unlisting", "unversioning"}, a)'
                      /\ (\E y \in relations' : y.status = "active" /\ a \in {y.pair[1], y.pair[2]})
                            => Deleting(Unlinking, a)'
    BY DEF ArchivedAreUnlinked, Unlinking
  <2>1. CASE a \notin archived
    <3>1. q.kind = "delete" /\ q.at = "unlisting" /\ a \in q.batch
      BY <2>1
    <3> QED
      BY <3>1 DEF Deleting, Unlinking
  <2>2. CASE a \in archived
    <3>1. ASSUME NEW d \in Datasets, <<d, a>> \in members' PROVE Deleting({"unlisting"}, a)'
      <4>1. PICK s \in Requests : req[s].kind = "delete" /\ req[s].at = "unlisting" /\ a \in req[s].batch
        BY <1>1, <2>2, <3>1 DEF UnlinkParts, ArchivedAreUnlinked, Deleting
      <4>2. s # r
        BY <3>1, <4>1
      <4> QED
        BY <1>3, <4>1, <4>2 DEF Deleting
    <3>2. ASSUME NEW d \in Datasets, <<d, a>> \in rows' PROVE Deleting({"unlisting", "unversioning"}, a)'
      <4>1. PICK s \in Requests : req[s].kind = "delete" /\ req[s].at \in {"unlisting", "unversioning"} /\ a \in req[s].batch
        BY <1>1, <2>2, <3>2 DEF UnlinkParts, ArchivedAreUnlinked, Deleting
      <4>2. CASE s # r
        BY <1>3, <4>1, <4>2 DEF Deleting
      <4>3. CASE s = r
        <5>1. req[r].at = "unlisting"
          BY <3>2, <4>1, <4>3
        <5>2. q.kind = "delete" /\ q.at = "unversioning" /\ q.batch = req[r].batch
          BY <5>1 DEF Unlinking
        <5> QED
          BY <4>1, <4>3, <5>2 DEF Deleting
      <4> QED
        BY <4>2, <4>3
    <3>3. ASSUME NEW y \in relations', y.status = "active", a \in {y.pair[1], y.pair[2]}
          PROVE  Deleting(Unlinking, a)'
      <4>1. PICK s \in Requests : req[s].kind = "delete" /\ req[s].at \in Unlinking /\ a \in req[s].batch
        BY <1>1, <2>2, <3>3 DEF UnlinkParts, ArchivedAreUnlinked, Deleting
      <4>2. CASE s # r
        BY <1>3, <4>1, <4>2 DEF Deleting
      <4>3. CASE s = r
        <5>1. req[r].at \in {"unlisting", "unversioning"}
          BY <3>3, <4>1, <4>3 DEF Unlinking
        <5>2. q.kind = "delete" /\ q.at \in Unlinking /\ q.batch = req[r].batch
          BY <5>1 DEF Unlinking
        <5> QED
          BY <4>1, <4>3, <5>2 DEF Deleting
      <4> QED
        BY <4>2, <4>3
    <3> QED
      BY <3>1, <3>2, <3>3
  <2> QED
    BY <2>1, <2>2
<1>5. DeadAreEmpty'
  <2> SUFFICES ASSUME NEW d \in Datasets, datasets'[d] # "active" PROVE (Unversioned(d) /\ Memberless(d))'
    BY DEF DeadAreEmpty
  <2>1. CASE datasets[d] # "active"
    <3>1. Unversioned(d) /\ Memberless(d)
      BY <2>1 DEF UnlinkParts, DeadAreEmpty
    <3> QED
      BY <1>1, <3>1 DEF Memberless, Unversioned, NoRelations
  <2> QED
    BY <2>1
<1> QED
  BY <1>2, <1>4, <1>5, OthersHold, UnlinkNext

(* Deletions remove links in the order of their steps.                     *)
LEMMA DeleteUnlinks ==
  ASSUME BaseInv, UnlinkParts, Unlinkable, NEW r \in Requests, Delete(r)
  PROVE  UnlinkParts'
<1> DEFINE x == req[r]
           q == req'[r]
<1>0. /\ x \in Request /\ Placed(x) /\ Dropped(x) /\ Asked(x) /\ req \in [Requests -> Request] /\ Step(r)
      /\ q.at \in StepsOf[q.kind] /\ q.kind \in Kinds /\ datasets \in [Datasets -> {"none", "active", "deleted"}]
  BY NextIsPlaced DEF BaseInv, TypeInv, TypeOK, UnlinkParts, Step
<1>1. ASSUME NEW s, Set(r, s) \/ Continue(r, s) PROVE q = s
  BY <1>0, <1>1 DEF Set, Continue
<1>2. x.at \in DeletionSteps
  BY DEF Delete, StartDelete, Confirm, ArchiveAssets, RemoveFromDatasets, RemoveFromVersions,
         RemoveRelations, Recount, StoreSummary, RestoreTrash, StartDrop, DropRelations, DropRows,
         DropVersions, DropMembers, CloseDataset, Start, DeletionSteps
<1>3. /\ x.kind \in {"none", "delete", "drop"}
      /\ x.at \in {"confirming", "archiving", "unlisting", "unversioning", "unrelating", "recounting", "storing"}
           => x.kind = "delete"
      /\ x.at \in {"dropping", "emptying", "unpublishing", "clearing", "closing"} => x.kind = "drop"
  BY <1>0, <1>2 DEF Placed, StepsOf, Synced, Request, Kinds, DeletionSteps
<1>4. ASSUME x.at \notin Unlinking, q.kind \in {"none", "delete", "drop"}, Dropped(q), Asked(q),
             UNCHANGED <<archived, relations, datasets, members, published, rows>>
      PROVE  UnlinkParts'
  <2>1. Sound(q)
    BY <1>0, <1>4, DeletionsAreSound
  <2> QED
    BY <1>0, <1>4, <2>1, ReadUnlinks
<1>5. ASSUME End(r), x.at \notin Unlinking, UNCHANGED <<archived, relations, datasets, members, published, rows>>
      PROVE  UnlinkParts'
  BY <1>0, <1>4, <1>5, OverIsSound
<1>6. CASE StartDelete(r)
  <2>1. PICK S \in AtMost(BatchSize, Assets), sure \in BOOLEAN :
          Continue(r, [NewRequest EXCEPT !.at = IF sure THEN "archiving" ELSE "confirming", !.kind = "delete",
                                         !.batch = S, !.confirmed = sure])
    BY <1>6 DEF StartDelete
  <2>2. q.kind = "delete" /\ q.confirmed = sure /\ q.at = IF sure THEN "archiving" ELSE "confirming"
    BY ZenonT(40), <1>1, <2>1 DEF NewRequest
  <2>3. x.at = "idle" /\ UNCHANGED <<archived, relations, datasets, members, published, rows>>
    BY <1>6 DEF StartDelete, Start, versions
  <2> HIDE DEF q, x
  <2>4. Dropped(q) /\ Asked(q)
    BY <2>2 DEF Dropped, Asked
  <2> QED
    BY <1>4, <2>2, <2>3, <2>4 DEF Unlinking
<1>7. CASE Confirm(r)
  <2>1. x.at = "confirming" /\ UNCHANGED <<archived, relations, datasets, members, published, rows>>
    BY <1>7 DEF Confirm, versions
  <2>2. CASE Linked(x.batch)
    BY <1>5, <1>7, <2>1, <2>2 DEF Confirm, Unlinking
  <2>3. CASE ~Linked(x.batch)
    <3>1. q = [x EXCEPT !.at = "archiving"]
      BY <1>1, <1>7, <2>3 DEF Confirm, At
    <3>2. q.at = "archiving" /\ q.kind = x.kind /\ q.batch = x.batch
      BY <1>0, <3>1 DEF Request
    <3>3. q.kind = "delete"
      BY <1>3, <2>1, <3>2
    <3> HIDE DEF q, x
    <3>4. Dropped(q) /\ Asked(q)
      BY <2>3, <3>2 DEF Dropped, Asked
    <3> QED
      BY <1>4, <2>1, <3>3, <3>4 DEF Unlinking
  <2> QED
    BY <2>2, <2>3
<1>8. CASE Recount(r) \/ StoreSummary(r)
  <2>1. x.at \in {"recounting", "storing"} /\ UNCHANGED <<archived, relations, datasets, members, published, rows>>
    BY <1>8 DEF Recount, StoreSummary, versions
  <2>2. CASE End(r)
    BY <1>5, <2>1, <2>2 DEF Unlinking
  <2>3. CASE ~End(r)
    <3>1. \/ \E d : q = [x EXCEPT !.at = "storing", !.visit = d, !.todo = @ \ {d}, !.found = RowsOf(d)]
          \/ q = [x EXCEPT !.at = "recounting", !.visit = NoDataset, !.found = {}]
      BY <1>1, <1>8, <2>3 DEF Recount, StoreSummary
    <3>2. q.at \in {"recounting", "storing"} /\ q.kind = x.kind
      BY <1>0, <3>1 DEF Request
    <3>3. q.kind = "delete"
      BY <1>3, <2>1, <3>2
    <3> HIDE DEF q, x
    <3>4. Dropped(q) /\ Asked(q)
      BY <3>2 DEF Dropped, Asked
    <3> QED
      BY <1>4, <2>1, <3>3, <3>4 DEF Unlinking
  <2> QED
    BY <2>2, <2>3
<1>9. CASE StartDrop(r)
  <2>1. PICK d \in Datasets : Set(r, [NewRequest EXCEPT !.at = "dropping", !.kind = "drop", !.dataset = d])
    BY <1>9 DEF StartDrop
  <2>2. q.at = "dropping" /\ q.kind = "drop"
    BY ZenonT(40), <1>1, <2>1 DEF NewRequest
  <2>3. x.at = "idle" /\ UNCHANGED <<archived, relations, datasets, members, published, rows>>
    BY <1>9 DEF StartDrop, Start, versions
  <2> HIDE DEF q, x
  <2>4. Dropped(q) /\ Asked(q)
    BY <2>2 DEF Dropped, Asked
  <2> QED
    BY <1>4, <2>2, <2>3, <2>4 DEF Unlinking
<1>10. ASSUME q.kind \in {"none", "delete", "drop"}, NEW z, z = q, Dropped(z)', Asked(z)',
              UNCHANGED <<datasets>>, archived' \subseteq archived,
              x.at \in Unlinking => q.batch = x.batch,
              x.at = "unlisting" => q.kind = "delete" /\ q.at = "unversioning" /\ \A m \in members' : m[2] \notin x.batch,
              x.at = "unversioning" => q.kind = "delete" /\ q.at = "unrelating" /\ \A m \in rows' : m[2] \notin x.batch,
              x.at = "unrelating" => \A y \in relations' : {y.pair[1], y.pair[2]} \intersect x.batch = {}
       PROVE  UnlinkParts'
  BY <1>0, <1>3, <1>10, DeletionUnlinks
<1>11. CASE RestoreTrash(r)
  <2>1. x.at = "idle" /\ archived' \subseteq archived /\ End(r) /\ UNCHANGED datasets
    BY <1>11 DEF RestoreTrash
  <2>2. PICK z : z = q
    OBVIOUS
  <2>3. Dropped(z)' /\ Asked(z)' /\ z.kind = "none"
    BY <1>0, <2>1, <2>2, OverIsSound
  <2> QED
    BY <1>10, <2>1, <2>2, <2>3 DEF Unlinking
<1>12. CASE ArchiveAssets(r)
  <2> DEFINE S == x.batch \ archived
  <2>1. /\ x.at = "archiving" /\ archived' = archived \union S
        /\ UNCHANGED <<datasets, relations, members, rows>>
    BY <1>12 DEF ArchiveAssets, versions
  <2>2. CASE S = {}
    <3>1. End(r) /\ archived' = archived /\ UNCHANGED <<relations, datasets, members, published, rows>>
      BY <1>12, <2>1, <2>2 DEF ArchiveAssets, versions
    <3> QED
      BY <1>5, <2>1, <3>1 DEF Unlinking
  <2>3. CASE S # {}
    <3>1. PICK z : z = q
      OBVIOUS
    <3>2. q = [x EXCEPT !.at = "unlisting", !.batch = S]
      BY <1>1, <1>12, <2>3 DEF ArchiveAssets
    <3>3. z.at = "unlisting" /\ z.kind = x.kind /\ z.batch = S /\ z.confirmed = x.confirmed
      BY <1>0, <3>1, <3>2 DEF Request
    <3>4. x.kind = "delete"
      BY <1>3, <2>1
    <3> HIDE DEF q, x
    <3>5. Dropped(z)'
      BY <3>3 DEF Dropped
    <3>6. Asked(z)'
      <4> SUFFICES ASSUME ~z.confirmed PROVE ~Linked(z.batch)'
        BY DEF Asked
      <4>1. ~Linked(x.batch)
        BY <1>0, <2>1, <3>3, <3>4 DEF Asked
      <4>2. PICK b : b = S
        OBVIOUS
      <4>3. ~Linked(b)
        BY <4>1, <4>2 DEF Linked
      <4>4. ~Linked(b)'
        BY <2>1, <4>3 DEF Linked
      <4> QED
        BY <3>3, <4>2, <4>4 DEF Linked
    <3>7. \A a \in archived' : a \in archived \/ a \in z.batch
      BY <2>1, <3>3
    <3> QED
      BY <1>0, <1>3, <2>1, <3>1, <3>3, <3>4, <3>5, <3>6, <3>7, DeletionUnlinks DEF Unlinking, q, x
  <2> QED
    BY <2>2, <2>3
<1>13. CASE RemoveFromDatasets(r)
  <2>1. /\ x.at = "unlisting" /\ members' = {m \in members : m[2] \notin x.batch}
        /\ UNCHANGED <<archived, datasets>>
        /\ q = [x EXCEPT !.at = "unversioning", !.todo = {d \in Datasets : RowsOf(d) \intersect x.batch # {}}]
    BY <1>1, <1>13 DEF RemoveFromDatasets
  <2>2. PICK z : z = q
    OBVIOUS
  <2>3. z.at = "unversioning" /\ z.kind = x.kind /\ z.batch = x.batch
    BY <1>0, <2>1, <2>2 DEF Request
  <2>4. x.kind = "delete"
    BY <1>3, <2>1
  <2> HIDE DEF q, x
  <2>5. Dropped(z)' /\ Asked(z)'
    BY <2>3 DEF Dropped, Asked
  <2> QED
    BY <1>10, <2>1, <2>2, <2>3, <2>4, <2>5
<1>14. CASE RemoveFromVersions(r)
  <2>1. /\ x.at = "unversioning" /\ rows' = {m \in rows : m[2] \notin x.batch}
        /\ UNCHANGED <<archived, datasets>> /\ q = [x EXCEPT !.at = "unrelating"]
    BY <1>1, <1>14 DEF RemoveFromVersions, At
  <2>2. PICK z : z = q
    OBVIOUS
  <2>3. z.at = "unrelating" /\ z.kind = x.kind /\ z.batch = x.batch
    BY <1>0, <2>1, <2>2 DEF Request
  <2>4. x.kind = "delete"
    BY <1>3, <2>1
  <2> HIDE DEF q, x
  <2>5. Dropped(z)' /\ Asked(z)'
    BY <2>3 DEF Dropped, Asked
  <2> QED
    BY <1>10, <2>1, <2>2, <2>3, <2>4, <2>5
<1>15. CASE RemoveRelations(r)
  <2>1. /\ x.at = "unrelating" /\ relations' = {y \in relations : {y.pair[1], y.pair[2]} \intersect x.batch = {}}
        /\ UNCHANGED <<archived, datasets>> /\ q = [x EXCEPT !.at = "recounting"]
    BY <1>1, <1>15 DEF RemoveRelations, At
  <2>2. PICK z : z = q
    OBVIOUS
  <2>3. z.at = "recounting" /\ z.kind = x.kind /\ z.batch = x.batch
    BY <1>0, <2>1, <2>2 DEF Request
  <2>4. x.kind = "delete"
    BY <1>3, <2>1
  <2> HIDE DEF q, x
  <2>5. Dropped(z)' /\ Asked(z)'
    BY <2>3 DEF Dropped, Asked
  <2> QED
    BY <1>10, <2>1, <2>2, <2>3, <2>4, <2>5
<1>16. CASE DropRelations(r)
  <2>1. /\ x.at = "dropping" /\ relations' = {y \in relations : y.pair[2] # x.dataset}
        /\ UNCHANGED <<archived, datasets>> /\ q = [x EXCEPT !.at = "emptying"]
    BY <1>1, <1>16 DEF DropRelations, At
  <2>2. PICK z : z = q
    OBVIOUS
  <2>3. z.at = "emptying" /\ z.kind = x.kind /\ z.dataset = x.dataset
    BY <1>0, <2>1, <2>2 DEF Request
  <2>4. x.kind = "drop"
    BY <1>3, <2>1
  <2> HIDE DEF q, x
  <2>5. Dropped(z)' /\ Asked(z)'
    BY <2>1, <2>3, <2>4 DEF Dropped, Asked, NoRelations
  <2> QED
    BY <1>10, <2>1, <2>2, <2>3, <2>4, <2>5 DEF Unlinking
<1>17. CASE DropRows(r)
  <2>1. /\ x.at = "emptying" /\ rows' = {m \in rows : m[1] # x.dataset}
        /\ UNCHANGED <<archived, datasets, relations>> /\ q = [x EXCEPT !.at = "unpublishing"]
    BY <1>1, <1>17 DEF DropRows, At
  <2>2. PICK z : z = q
    OBVIOUS
  <2>3. z.at = "unpublishing" /\ z.kind = x.kind /\ z.dataset = x.dataset
    BY <1>0, <2>1, <2>2 DEF Request
  <2>4. x.kind = "drop"
    BY <1>3, <2>1
  <2> HIDE DEF q, x
  <2>5. Dropped(z)' /\ Asked(z)'
    BY <1>0, <2>1, <2>3, <2>4 DEF Dropped, Asked, NoRelations
  <2> QED
    BY <1>10, <2>1, <2>2, <2>3, <2>4, <2>5 DEF Unlinking
<1>18. CASE DropVersions(r)
  <2>1. /\ x.at = "unpublishing" /\ published' = published \ {x.dataset}
        /\ UNCHANGED <<archived, datasets, relations, rows>> /\ q = [x EXCEPT !.at = "clearing"]
    BY <1>1, <1>18 DEF DropVersions, At
  <2>2. PICK z : z = q
    OBVIOUS
  <2>3. z.at = "clearing" /\ z.kind = x.kind /\ z.dataset = x.dataset
    BY <1>0, <2>1, <2>2 DEF Request
  <2>4. x.kind = "drop"
    BY <1>3, <2>1
  <2> HIDE DEF q, x
  <2>5. Dropped(z)' /\ Asked(z)'
    BY <1>0, <2>1, <2>3, <2>4 DEF Dropped, Asked, NoRelations
  <2> QED
    BY <1>10, <2>1, <2>2, <2>3, <2>4, <2>5 DEF Unlinking
<1>19. CASE DropMembers(r)
  <2>1. /\ x.at = "clearing" /\ members' = {m \in members : m[1] # x.dataset}
        /\ UNCHANGED <<archived, datasets, relations, versions>> /\ q = [x EXCEPT !.at = "closing"]
    BY <1>1, <1>19 DEF DropMembers, At
  <2>2. PICK z : z = q
    OBVIOUS
  <2>3. z.at = "closing" /\ z.kind = x.kind /\ z.dataset = x.dataset
    BY <1>0, <2>1, <2>2 DEF Request
  <2>4. x.kind = "drop"
    BY <1>3, <2>1
  <2> HIDE DEF q, x
  <2>5. Dropped(z)' /\ Asked(z)'
    BY <1>0, <2>1, <2>3, <2>4 DEF Dropped, Asked, NoRelations, Memberless, versions
  <2> QED
    BY <1>10, <2>1, <2>2, <2>3, <2>4, <2>5 DEF Unlinking
<1>20. CASE CloseDataset(r)
  <2>1. /\ x.at = "closing" /\ datasets' = [datasets EXCEPT ![x.dataset] = "deleted"] /\ End(r)
        /\ UNCHANGED <<archived, relations, members, versions>>
    BY <1>20 DEF CloseDataset
  <2>2. PICK z : z = q
    OBVIOUS
  <2>3. Dropped(z)' /\ Asked(z)' /\ z.kind = "none"
    BY <1>0, <2>1, <2>2, OverIsSound
  <2>4. \A d \in Datasets : datasets'[d] # "active" => datasets[d] # "active" \/ (Unversioned(d) /\ Memberless(d))'
    <3> SUFFICES ASSUME NEW d \in Datasets, d = x.dataset PROVE (Unversioned(d) /\ Memberless(d))'
      BY <1>0, <2>1
    <3>1. Unversioned(d) /\ Memberless(d)
      BY <1>0, <2>1 DEF Dropped, Unversioned
    <3> QED
      BY <2>1, <3>1 DEF Unversioned, NoRelations, Memberless, versions
  <2>5. x.at \notin Unlinking /\ x.at \notin {"unlisting", "unversioning", "unrelating"}
    BY <2>1 DEF Unlinking
  <2> HIDE DEF q, x
  <2> QED
    BY <1>0, <1>3, <2>1, <2>2, <2>3, <2>4, <2>5, DeletionUnlinks DEF q, x
<1> QED
  BY <1>6, <1>7, <1>8, <1>9, <1>11, <1>12, <1>13, <1>14, <1>15, <1>16, <1>17, <1>18, <1>19, <1>20 DEF Delete

(* The library starts with links between what is in use.                   *)
LEMMA UnlinkInit == Init => UnlinkInv
<1> SUFFICES ASSUME Init PROVE UnlinkParts
  BY DEF UnlinkInv
<1>1. archived = {} /\ published \subseteq {d \in Datasets : datasets[d] = "active"}
      /\ rows = {m \in members : m[1] \in published} /\ datasets \in [Datasets -> {"none", "active"}]
  BY DEF Init
<1>2. PICK pairs \in AtMost(Links, {p \in Pairs : p[2] \in Images \union published}) :
        /\ relations = [pair : pairs, revision : {1}, id : {Nobody}, status : {"active"}]
        /\ \E S \in AtMost(Links, {d \in Datasets : datasets[d] = "active"} \X Images) :
             members = S \union {m \in Datasets \X Annotations :
                                   \E i \in Images : <<m[1], i>> \in S /\ <<m[2], i>> \in pairs}
  BY DEF Init
<1>3. \A m \in members : datasets[m[1]] = "active"
  BY <1>2 DEF AtMost
<1>4. \A x \in relations : x.pair[2] \in Images \union published
  BY <1>2 DEF AtMost
<1>5. DeadAreEmpty
  <2> SUFFICES ASSUME NEW d \in Datasets, datasets[d] # "active" PROVE Unversioned(d) /\ Memberless(d)
    BY DEF DeadAreEmpty
  <2>1. Memberless(d)
    BY <1>3 DEF Memberless
  <2>2. d \notin published /\ \A a \in Members : <<d, a>> \notin rows
    BY <1>1, <2>1 DEF Memberless
  <2>3. NoRelations(d)
    BY <1>4, <2>2, TypesAssumption DEF NoRelations, Assets
  <2> QED
    BY <2>1, <2>2, <2>3 DEF Unversioned
<1>6. ASSUME NEW r \in Requests PROVE Sound(req[r]) /\ Dropped(req[r]) /\ Asked(req[r])
  <2>1. req[r].kind = "none" /\ req[r].at = "idle"
    BY DEF Init, NewRequest
  <2> QED
    BY <2>1 DEF Sound, Dropped, Asked
<1> QED
  BY <1>1, <1>5, <1>6 DEF UnlinkParts, ArchivedAreUnlinked

(* The invariant of deletion is kept: requests that add links are alone    *)
(* with what they are about, and deletions only ever remove.               *)
LEMMA UnlinkInvariant == Spec => []UnlinkInv
<1>1. BaseInv /\ UnlinkInv /\ [Next]_vars => UnlinkInv'
  <2> SUFFICES ASSUME BaseInv, UnlinkInv, [Next]_vars, Unlinkable' PROVE UnlinkParts'
    BY DEF UnlinkInv
  <2>1. CASE Next
    <3>1. PICK r \in Requests : Step(r)
      BY <2>1 DEF Next, Step
    <3>2. Unlinkable
      BY <3>1, StepFrame DEF BaseInv, Unlinkable, Alone
    <3>3. UnlinkParts
      BY <3>2 DEF UnlinkInv
    <3> QED
      BY <3>1, <3>2, <3>3, SynchroniseUnlinks, RelateUnlinks, ChangeMembersUnlinks, DeleteUnlinks, FailUnlinks
         DEF Step
  <2>2. CASE UNCHANGED vars
    <3>1. UnlinkParts
      BY <2>2 DEF UnlinkInv, Unlinkable, Alone, vars
    <3>2. ArchivedAreUnlinked'
      <4>1. ArchivedAreUnlinked
        BY <3>1 DEF UnlinkParts
      <4>2. UNCHANGED <<archived, relations, members, rows, req>>
        BY <2>2 DEF vars, versions
      <4>3. \A steps, a : Deleting(steps, a) => Deleting(steps, a)'
        BY <4>2 DEF Deleting
      <4> QED
        BY <4>1, <4>2, <4>3 DEF ArchivedAreUnlinked
    <3>3. DeadAreEmpty'
      BY <2>2, <3>1 DEF UnlinkParts, DeadAreEmpty, Unversioned, NoRelations, Memberless, vars, versions
    <3>4. ASSUME NEW s \in Requests, NEW q, q = req'[s] PROVE Sound(q)' /\ Dropped(q)' /\ Asked(q)'
      <4>1. Sound(q) /\ Dropped(q) /\ Asked(q)
        BY <2>2, <3>1, <3>4 DEF UnlinkParts, vars
      <4>2. UNCHANGED <<archived, datasets, relations, members, published, rows>>
        BY <2>2 DEF vars, versions
      <4>3. Valid(q.pair) => Valid(q.pair)'
        BY <4>2 DEF Valid, Active
      <4>4. Unversioned(q.copy) => Unversioned(q.copy)'
        BY <4>2 DEF Unversioned, NoRelations
      <4>5. Sound(q)'
        BY <4>1, <4>2, <4>3, <4>4 DEF Sound, Valid, Active, Memberless
      <4>6. Dropped(q)' /\ Asked(q)'
        BY <4>1, <4>2 DEF Dropped, NoRelations, Memberless, Asked, Linked
      <4> QED
        BY <4>5, <4>6
    <3> QED
      BY <3>2, <3>3, <3>4, UnlinkNext
  <2> QED
    BY <2>1, <2>2 DEF Next
<1> QED
  BY <1>1, UnlinkInit, BaseInvariant, PTL DEF Spec

(* Deleting assets or a dataset leaves no link to them when the requests   *)
(* are over, and without the user's confirmation nothing that has links is *)
(* deleted (batch_delete, delete_dataset), for any library and any number  *)
(* of requests, provided that requests that add links do not overlap.      *)
THEOREM DeletionsLeaveNoLinks == Spec => []DeletionsUnlink
<1>1. BaseInv /\ UnlinkInv => DeletionsUnlink
  <2> SUFFICES ASSUME BaseInv, UnlinkParts PROVE DeletedIsUnlinked /\ UnconfirmedIsUnlinked
    BY DEF UnlinkInv, Unlinkable, DeletionsUnlink
  <2>1. UnconfirmedIsUnlinked
    BY DEF UnlinkParts, Asked, UnconfirmedIsUnlinked
  <2>2. ASSUME Quiet
        PROVE  /\ ~Linked(archived)
               /\ \A d \in Datasets : datasets[d] # "active" =>
                    /\ MembersOf(d) = {} /\ RowsOf(d) = {} /\ d \notin published
                    /\ \A x \in relations : x.pair[2] # d
    <3>1. \A steps, a : ~Deleting(steps, a)
      BY <2>2, KindsAreBusy DEF BaseInv, Deleting, Quiet
    <3>2. \A a \in archived :
            /\ \A d \in Datasets : <<d, a>> \notin members /\ <<d, a>> \notin rows
            /\ \A x \in relations : x.status = "active" => a \notin {x.pair[1], x.pair[2]}
      BY <3>1 DEF UnlinkParts, ArchivedAreUnlinked
    <3>3. members \subseteq Datasets \X Members /\ rows \subseteq Datasets \X Members
      BY DEF BaseInv, TypeInv, TypeOK
    <3>4. ~Linked(archived)
      BY <3>2, <3>3 DEF Linked
    <3>5. ASSUME NEW d \in Datasets, datasets[d] # "active"
          PROVE  /\ MembersOf(d) = {} /\ RowsOf(d) = {} /\ d \notin published
                 /\ \A x \in relations : x.pair[2] # d
      BY <3>5 DEF UnlinkParts, DeadAreEmpty, Unversioned, NoRelations, Memberless, MembersOf, RowsOf
    <3> QED
      BY <3>4, <3>5
  <2>3. DeletedIsUnlinked
    BY <2>2 DEF DeletedIsUnlinked
  <2> QED
    BY <2>1, <2>3
<1> QED
  BY <1>1, BaseInvariant, UnlinkInvariant, PTL

-----------------------------------------------------------------------------
(* An active dataset has the annotations its images bring, or a request is *)
(* about to bring them up to date.                                         *)
Owns(q, d) ==
  \/ q.kind \in {"add", "remove"} /\ d = q.dataset
  \/ q.kind = "copy" /\ q.at # "creating" /\ d = q.copy
  \/ q.at \in Synced /\ q.pair # NoPair /\ <<d, q.pair[2]>> \in members

OwnedOrFollows ==
  \A d \in Datasets : datasets[d] = "active" => Follows(d) \/ \E r \in Requests : Owns(req[r], d)

(* What a synchronisation has read is still so, and what it has visited    *)
(* follows.                                                                *)
Comparing == {"comparing", "including", "excluding"}
Visiting == {"including", "excluding"}

ToFollow(q) ==
  q.at \in Comparing =>
    \A d \in Datasets : datasets[d] = "active" /\ Owns(q, d) => d \in q.todo \/ d = q.visit \/ Follows(d)
OwnsTodo(q) == q.at \in Comparing => \A d \in q.todo : Owns(q, d)
VisitIsCurrent(q) ==
  /\ q.at \notin Visiting => q.visit = NoDataset
  /\ q.at \in Visiting => /\ Owns(q, q.visit)
                          /\ q.out = (MembersOf(q.visit) \intersect Annotations) \ Desired(q.visit)
  /\ q.at = "including" => q.in = Desired(q.visit) \ MembersOf(q.visit)
  /\ q.at = "excluding" => Desired(q.visit) \subseteq MembersOf(q.visit)
Current(q) == ToFollow(q) /\ OwnsTodo(q) /\ VisitIsCurrent(q)

HasLease(q, r) == q.kind \in {"add", "remove", "drop"} => writer[q.dataset] = r

Followable == events \intersect {"delete", "twice", "crash"} = {} /\ Alone({"relate", "match", "copy"})
FollowParts ==
  /\ archived = {}
  /\ OwnedOrFollows
  /\ \A r \in Requests : Current(req[r]) /\ HasLease(req[r], r)
FollowInv == Followable => FollowParts

(* Nobody takes a lease another request holds.                             *)
LEMMA WriterFrame ==
  ASSUME TypeInv, NEW r \in Requests, Step(r)
  PROVE  \A d \in Datasets : writer[d] \in Requests \ {r} => writer'[d] = writer[d]
<1>0. writer \in [Datasets -> Requests \union {Nobody}] /\ Nobody \notin Requests
  BY NobodyAssumption DEF TypeInv, TypeOK
<1>1. CASE UNCHANGED writer
  BY <1>1
<1>2. CASE End(r)
  BY <1>2 DEF End
<1>3. CASE \E d \in Datasets : Lease(r, d)
  BY <1>0, <1>3 DEF Lease
<1>4. UNCHANGED writer \/ End(r) \/ \E d \in Datasets : Lease(r, d)
  <2>1. CASE Synchronise(r)
    BY <2>1 DEF Synchronise, ListImageDatasets, CompareMembers, Compare, Include, Exclude, Synchronised, Continue
  <2>2. CASE Relate(r)
    <3>1. CASE StartCreate(r) \/ StartMatch(r) \/ StartRevoke(r)
      BY <3>1 DEF StartCreate, StartMatch, StartRevoke, Continue
    <3>2. CASE StartLink(r) \/ StartUnlink(r)
      <4>1. CASE StartLink(r)
        BY <4>1 DEF StartLink
      <4>2. CASE StartUnlink(r)
        <5>1. PICK v \in relations : Lease(r, v.pair[2]) /\ v.pair[2] \in published
          BY <4>2 DEF StartUnlink
        <5>2. published \subseteq Datasets
          BY DEF TypeInv, TypeOK
        <5> QED
          BY <5>1, <5>2
      <4> QED
        BY <3>2, <4>1, <4>2
    <3>3. CASE Check(r)
      BY <3>3 DEF Check, Refused, Continue
    <3>4. CASE Insert(r) \/ Revoke(r) \/ NextPair(r)
      BY <3>4 DEF Insert, Revoke, NextPair, Continue
    <3> QED
      BY <2>2, <3>1, <3>2, <3>3, <3>4 DEF Relate
  <2>3. CASE ChangeMembers(r)
    BY <2>3 DEF ChangeMembers, StartAdd, AddMember, Added, StartRemove, RemoveMembers, StartCopy, CreateCopy,
                CollectMembers, FillCopy, Adjust, Continue
  <2>4. CASE Delete(r)
    BY <2>4 DEF Delete, StartDelete, Confirm, ArchiveAssets, RemoveFromDatasets, RemoveFromVersions,
                RemoveRelations, Recount, StoreSummary, RestoreTrash, StartDrop, DropRelations, DropRows,
                DropVersions, DropMembers, CloseDataset, Continue
  <2>5. CASE Fail(r)
    BY <2>5 DEF Fail, SyncRaises, Undo, AbandonCopy, RemoveCopy, UndoRaises, Crash, Continue
  <2> QED
    BY <2>1, <2>2, <2>3, <2>4, <2>5 DEF Step
<1> QED
  BY <1>1, <1>2, <1>3, <1>4

(* Where no assets are deleted, none is ever deleted.                      *)
LEMMA NothingIsDeleted ==
  ASSUME BaseInv, Followable, archived = {}, NEW r \in Requests, Step(r)
  PROVE  /\ archived' = {}
         /\ \A s \in Requests : req[s].kind # "delete"
         /\ req[r].at \notin {"confirming", "archiving", "unlisting", "unversioning", "unrelating", "recounting", "storing"}
<1>1. \A s \in Requests : req[s].kind # "delete"
  BY DEF BaseInv, TypeInv, Expected, EventOf, Followable
<1>2. req[r].at \in StepsOf[req[r].kind] /\ req[r].kind \in Kinds
  BY DEF BaseInv, TypeInv, TypeOK, Placed, Request
<1>3. req[r].at \notin {"confirming", "archiving", "unlisting", "unversioning", "unrelating", "recounting", "storing"}
  BY <1>1, <1>2 DEF StepsOf, Synced, Kinds
<1>4. ~ArchiveAssets(r) /\ ~RestoreTrash(r)
  BY <1>3 DEF ArchiveAssets, RestoreTrash, Followable
<1>5. archived' = archived
  <2>1. CASE Synchronise(r)
    BY <2>1 DEF Synchronise, ListImageDatasets, CompareMembers, Include, Exclude, Synchronised
  <2>2. CASE Relate(r)
    BY <2>2 DEF Relate, StartCreate, Check, Insert, StartRevoke, Revoke, StartMatch, NextPair, StartLink,
                StartUnlink, Start
  <2>3. CASE ChangeMembers(r)
    BY <2>3 DEF ChangeMembers, StartAdd, AddMember, Added, StartRemove, RemoveMembers, StartCopy, CreateCopy,
                CollectMembers, FillCopy, Start
  <2>4. CASE Delete(r)
    BY <1>4, <2>4 DEF Delete, StartDelete, Confirm, RemoveFromDatasets, RemoveFromVersions,
                      RemoveRelations, Recount, StoreSummary, StartDrop, DropRelations, DropRows,
                      DropVersions, DropMembers, CloseDataset, Start
  <2>5. CASE Fail(r)
    BY <2>5 DEF Fail, SyncRaises, Undo, AbandonCopy, RemoveCopy, UndoRaises, Crash
  <2> QED
    BY <2>1, <2>2, <2>3, <2>4, <2>5 DEF Step
<1> QED
  BY <1>1, <1>3, <1>5

(* A request changes the members of a dataset it owns or deletes only.     *)
LEMMA MembersFrame ==
  ASSUME BaseInv, FollowParts, Followable, NEW r \in Requests, Step(r),
         NEW d \in Datasets, ~Owns(req[r], d), req[r].kind = "drop" => d # req[r].dataset
  PROVE  \A a : <<d, a>> \in members' <=> <<d, a>> \in members
<1> DEFINE x == req[r]
<1>0. /\ x.at \in StepsOf[x.kind] /\ x.kind \in Kinds /\ x.kind # "delete" /\ Placed(x)
      /\ x.at \notin {"confirming", "archiving", "unlisting", "unversioning", "unrelating", "recounting", "storing"}
  BY NothingIsDeleted DEF BaseInv, TypeInv, TypeOK, Placed, Request, FollowParts
<1>1. CASE UNCHANGED members
  BY <1>1
<1>2. CASE AddMember(r) \/ RemoveMembers(r)
  <2>1. x.at \in {"adding", "removing"}
    BY <1>2 DEF AddMember, RemoveMembers
  <2>2. x.kind \in {"add", "remove"}
    BY <1>0, <2>1 DEF StepsOf, Synced, Kinds
  <2>3. d # x.dataset
    BY <2>2 DEF Owns
  <2>4. \/ \E b : members' = members \union {<<x.dataset, b>>}
        \/ members' = members \ ({x.dataset} \X x.batch)
    BY <1>2 DEF AddMember, RemoveMembers
  <2> HIDE DEF x
  <2> QED
    BY <2>3, <2>4
<1>3. CASE FillCopy(r) \/ AbandonCopy(r)
  <2>1. x.at \in {"filling", "undoing"} /\ x.kind = "copy"
    BY <1>0, <1>3 DEF FillCopy, AbandonCopy, StepsOf, Synced, Kinds
  <2>2. d # x.copy
    BY <2>1 DEF Owns
  <2> QED
    BY <1>3, <2>2 DEF FillCopy, AbandonCopy
<1>4. CASE Include(r) \/ Exclude(r)
  <2>1. x.at \in Visiting /\ VisitIsCurrent(x)
    BY <1>4 DEF Include, Exclude, Visiting, FollowParts, Current
  <2>2. d # x.visit
    BY <2>1 DEF VisitIsCurrent
  <2> QED
    BY <1>4, <2>2 DEF Include, Exclude
<1>5. CASE Undo(r)
  <2>1. CASE x.pair # NoPair
    BY <1>5, <2>1 DEF Undo, UndoRelation
  <2>2. CASE x.pair = NoPair
    <3>1. x.at = "undoing" /\ x.kind # "copy" /\ UndoMembers(r)
      BY <1>5, <2>2 DEF Undo
    <3>2. x.kind \in {"add", "remove"}
      <4>1. x.kind \in {"create", "revoke", "match", "add", "remove"}
        BY <1>0, <3>1 DEF StepsOf, Synced, Kinds
      <4>2. x.kind \in Relating => x.pair \in Pairs
        BY <3>1, <1>0 DEF Placed
      <4> QED
        BY <2>2, <4>1, <4>2, NoPairAssumption DEF Relating
    <3>3. d # x.dataset
      BY <3>2 DEF Owns
    <3> QED
      BY <3>1, <3>3 DEF UndoMembers
  <2> QED
    BY <2>1, <2>2
<1>6. CASE DropMembers(r)
  <2>1. x.at = "clearing"
    BY <1>6 DEF DropMembers
  <2>2. x.kind = "drop"
    BY <1>0, <2>1 DEF StepsOf, Synced, Kinds
  <2> QED
    BY <1>6, <2>2 DEF DropMembers
<1>7. \/ UNCHANGED members \/ AddMember(r) \/ RemoveMembers(r) \/ FillCopy(r) \/ AbandonCopy(r) \/ Include(r)
      \/ Exclude(r) \/ Undo(r) \/ DropMembers(r)
  <2>1. CASE Synchronise(r)
    BY <2>1 DEF Synchronise, ListImageDatasets, CompareMembers, Synchronised
  <2>2. CASE Relate(r)
    BY <2>2 DEF Relate, StartCreate, Check, Insert, StartRevoke, Revoke, StartMatch, NextPair, StartLink,
                StartUnlink, Start
  <2>3. CASE ChangeMembers(r)
    BY <2>3 DEF ChangeMembers, StartAdd, Added, StartRemove, StartCopy, CreateCopy, CollectMembers, Start
  <2>4. CASE Delete(r)
    BY <1>0, <2>4 DEF Delete, StartDelete, Confirm, ArchiveAssets, RemoveFromDatasets, RemoveFromVersions,
                RemoveRelations, Recount, StoreSummary, RestoreTrash, StartDrop, DropRelations, DropRows,
                DropVersions, CloseDataset, Start
  <2>5. CASE Fail(r)
    BY <2>5 DEF Fail, SyncRaises, RemoveCopy, UndoRaises, Crash
  <2> QED
    BY <2>1, <2>2, <2>3, <2>4, <2>5 DEF Step
<1> QED
  BY <1>1, <1>2, <1>3, <1>4, <1>5, <1>6, <1>7

(* A request changes the relations of its own pair only.                   *)
LEMMA RelatedFrame ==
  ASSUME BaseInv, FollowParts, Followable, NEW r \in Requests, Step(r),
         NEW a \in Annotations, NEW i \in Images,
         req[r].at \in {"inserting", "revoking", "undoing"} => req[r].pair # <<a, i>>
  PROVE  Related(a, i)' <=> Related(a, i)
<1> DEFINE x == req[r]
<1>0. /\ x.at \in StepsOf[x.kind] /\ x.kind \in Kinds /\ relations \subseteq Row /\ Placed(x)
      /\ x.at \notin {"confirming", "archiving", "unlisting", "unversioning", "unrelating", "recounting", "storing"}
  BY NothingIsDeleted DEF BaseInv, TypeInv, TypeOK, Placed, Request, FollowParts
<1>1. CASE UNCHANGED relations
  BY <1>1 DEF Related
<1>2. ASSUME x.pair # <<a, i>>, NEW id, NEW old, NEW new, SetRow(x.pair, id, old, new)
      PROVE  Related(a, i)' <=> Related(a, i)
  <2>1. ASSUME NEW y \in relations, y.pair = <<a, i>> PROVE y \in relations'
    BY <1>2, <2>1 DEF SetRow
  <2>2. ASSUME NEW y \in relations', y.pair = <<a, i>> PROVE y \in relations
    <3>1. PICK v \in relations : y = IF v.pair = x.pair /\ v.id = id /\ v.status = old
                                       THEN [v EXCEPT !.status = new] ELSE v
      BY <1>2 DEF SetRow
    <3>2. CASE v.pair = x.pair
      <4>1. v \in Row
        BY <1>0
      <4>2. y.pair = v.pair
        BY <3>1, <4>1 DEF Row
      <4> QED
        BY <1>2, <2>2, <3>2, <4>2
    <3>3. CASE v.pair # x.pair
      BY <3>1, <3>3
    <3> QED
      BY <3>2, <3>3
  <2> QED
    BY <2>1, <2>2 DEF Related
<1>3. CASE Insert(r)
  <2>1. x.pair # <<a, i>>
    BY <1>3 DEF Insert
  <2>2. \A y : y.pair = <<a, i>> => (y \in relations' <=> y \in relations)
    BY <1>3, <2>1 DEF Insert
  <2> QED
    BY <2>2 DEF Related
<1>4. CASE Revoke(r)
  BY <1>2, <1>4 DEF Revoke
<1>5. CASE Undo(r)
  <2>1. CASE x.pair = NoPair
    BY <1>1, <1>5, <2>1 DEF Undo, UndoMembers
  <2>2. CASE x.pair # NoPair /\ x.kind = "revoke"
    BY <1>2, <1>5, <2>2 DEF Undo, UndoRelation
  <2>3. CASE x.pair # NoPair /\ x.kind # "revoke"
    <3>1. relations' = {y \in relations : y.pair # x.pair \/ y.id # r} /\ x.pair # <<a, i>>
      BY <1>5, <2>3 DEF Undo, UndoRelation
    <3> QED
      BY <3>1 DEF Related
  <2> QED
    BY <2>1, <2>2, <2>3
<1>6. CASE DropRelations(r)
  <2>1. x.at = "dropping" /\ relations' = {y \in relations : y.pair[2] # x.dataset}
    BY <1>6 DEF DropRelations
  <2>2. x.dataset \in Datasets
    BY <1>0, <2>1 DEF Placed, StepsOf, Synced, Kinds
  <2>3. i \notin Datasets
    BY TypesAssumption DEF Assets
  <2>4. \A y : y.pair = <<a, i>> => y.pair[2] = i
    OBVIOUS
  <2> QED
    BY <2>1, <2>2, <2>3, <2>4 DEF Related
<1>7. UNCHANGED relations \/ Insert(r) \/ Revoke(r) \/ Undo(r) \/ DropRelations(r)
  <2>1. CASE Synchronise(r)
    BY <2>1 DEF Synchronise, ListImageDatasets, CompareMembers, Include, Exclude, Synchronised
  <2>2. CASE Relate(r)
    BY <2>2 DEF Relate, StartCreate, Check, StartRevoke, StartMatch, NextPair, StartLink, StartUnlink, Start
  <2>3. CASE ChangeMembers(r)
    BY <2>3 DEF ChangeMembers, StartAdd, AddMember, Added, StartRemove, RemoveMembers, StartCopy, CreateCopy,
                CollectMembers, FillCopy, Start
  <2>4. CASE Delete(r)
    BY <1>0, <2>4 DEF Delete, StartDelete, Confirm, ArchiveAssets, RemoveFromDatasets, RemoveFromVersions,
                RemoveRelations, Recount, StoreSummary, RestoreTrash, StartDrop, DropRows,
                DropVersions, DropMembers, CloseDataset, Start
  <2>5. CASE Fail(r)
    BY <2>5 DEF Fail, SyncRaises, AbandonCopy, RemoveCopy, UndoRaises, Crash
  <2> QED
    BY <2>1, <2>2, <2>3, <2>4, <2>5 DEF Step
<1> QED
  BY <1>1, <1>3, <1>4, <1>5, <1>6, <1>7

(* A dataset whose images are the same, with the same relations, is to     *)
(* have the same annotations.                                              *)
LEMMA DesiredFrame ==
  ASSUME archived = {}, archived' = {}, NEW d,
         \A i \in Images : <<d, i>> \in members' <=> <<d, i>> \in members,
         \A a \in Annotations, i \in Images : <<d, i>> \in members => (Related(a, i)' <=> Related(a, i))
  PROVE  Desired(d)' = Desired(d)
<1>1. \A i \in Images : i \in MembersOf(d)' <=> i \in MembersOf(d)
  BY DEF MembersOf
<1>2. \A a \in Annotations, i \in Images : i \in MembersOf(d) => (Related(a, i)' <=> Related(a, i))
  BY DEF MembersOf
<1> QED
  BY <1>1, <1>2 DEF Desired

(* A step changes nothing for a dataset that its request does not own or   *)
(* delete, and that has no image it relates.                               *)
LEMMA Unaffected ==
  ASSUME BaseInv, FollowParts, Followable, NEW r \in Requests, Step(r),
         NEW d \in Datasets, ~Owns(req[r], d), req[r].kind = "drop" => d # req[r].dataset,
         req[r].at \in {"inserting", "revoking", "undoing"} /\ req[r].pair \in Annotations \X Images
           => <<d, req[r].pair[2]>> \notin members
  PROVE  /\ MembersOf(d)' = MembersOf(d)
         /\ Desired(d)' = Desired(d)
         /\ Follows(d)' <=> Follows(d)
<1>1. \A a : <<d, a>> \in members' <=> <<d, a>> \in members
  BY MembersFrame
<1>2. MembersOf(d)' = MembersOf(d)
  BY <1>1 DEF MembersOf
<1>3. archived = {} /\ archived' = {}
  BY NothingIsDeleted DEF FollowParts
<1>4. ASSUME NEW a \in Annotations, NEW i \in Images, <<d, i>> \in members
      PROVE  Related(a, i)' <=> Related(a, i)
  <2>1. ASSUME req[r].at \in {"inserting", "revoking", "undoing"} PROVE req[r].pair # <<a, i>>
    <3>1. CASE req[r].pair \in Annotations \X Images
      BY <1>4, <2>1, <3>1
    <3>2. CASE req[r].pair \notin Annotations \X Images
      BY <3>2
    <3> QED
      BY <3>1, <3>2
  <2> QED
    BY <2>1, RelatedFrame
<1>5. Desired(d)' = Desired(d)
  BY <1>1, <1>3, <1>4, DesiredFrame
<1> QED
  BY <1>2, <1>5 DEF Follows

(* Where requests that synchronise may overlap, they are additions and     *)
(* removals, and only they own datasets.                                   *)
LEMMA TogetherOwn ==
  ASSUME BaseInv, Followable, "together" \in events, NEW s \in Requests, NEW q, q = req[s]
  PROVE  /\ q.kind \in {"none", "link", "unlink", "add", "remove", "drop"}
         /\ q.kind \notin {"add", "remove"} => q.at \notin Synced \union Comparing \union Visiting
         /\ q.kind \in {"add", "remove"} => q.pair = NoPair /\ q.dataset \in Datasets
         /\ q.pair \notin Annotations \X Images
         /\ \A d : Owns(q, d) => q.kind \in {"add", "remove"} /\ d = q.dataset
         /\ \A d : Owns(q, d)' => q.kind \in {"add", "remove"} /\ d = q.dataset
<1>0. Placed(q) /\ Expected(q) /\ q.kind \in Kinds
  BY DEF BaseInv, TypeInv, TypeOK, Request
<1>1. events \intersect {"relate", "match", "copy", "delete"} = {}
  BY DEF Followable, Alone
<1>2. q.kind \in {"none", "link", "unlink", "add", "remove", "drop"}
  BY <1>0, <1>1 DEF Expected, EventOf, Kinds
<1>3. q.kind \notin {"add", "remove"} => q.at \notin Synced \union Comparing \union Visiting
  BY <1>0, <1>2 DEF Placed, StepsOf, Synced, Comparing, Visiting
<1>4. q.kind \in {"add", "remove"} => q.pair = NoPair /\ q.dataset \in Datasets
  BY <1>0 DEF Placed, Relating
<1>5. q.pair \notin Annotations \X Images
  <2>1. q.kind \in {"link", "unlink"} => q.pair \in Models \X Datasets
    BY <1>0 DEF Placed
  <2>2. q.kind \notin {"link", "unlink"} => q.pair = NoPair
    BY <1>0, <1>2 DEF Placed, Relating
  <2>3. NoPair \notin Annotations \X Images
    BY NoPairAssumption, PairShapes
  <2>4. \A p \in Models \X Datasets : p \notin Annotations \X Images
    BY TypesAssumption
  <2> QED
    BY <2>1, <2>2, <2>3, <2>4
<1> QED
  BY <1>2, <1>3, <1>4, <1>5 DEF Owns

(* What another request owns stays its own.                                *)
LEMMA OthersOwn ==
  ASSUME BaseInv, Followable, NEW r \in Requests, Step(r), NEW s \in Requests, s # r,
         NEW d, Owns(req[s], d)
  PROVE  Owns(req[s], d)'
<1>0. PICK q : q = req[s]
  OBVIOUS
<1>1. req'[s] = q
  BY <1>0, StepFrame DEF BaseInv
<1>2. CASE Sequential
  <2>1. q.kind = "none" /\ q.at \in {"idle", "done"}
    <3>1. ~Busy(s)
      BY <1>2, OneStep DEF BaseInv
    <3> QED
      BY <1>0, <3>1, KindsAreBusy DEF BaseInv, Busy
  <2>2. ~Owns(q, d)
    BY <2>1 DEF Owns, Synced
  <2> QED
    BY <1>0, <2>2 DEF Owns
<1>3. CASE ~Sequential
  <2>1. Owns(q, d)
    BY <1>0 DEF Owns
  <2>2. q.kind \in {"add", "remove"} /\ d = q.dataset
    BY <1>0, <1>3, <2>1, TogetherOwn DEF Sequential
  <2> QED
    BY <1>1, <2>2 DEF Owns
<1> QED
  BY <1>2, <1>3

(* Only a copy makes a dataset active.                                     *)
LEMMA DatasetsFrame ==
  ASSUME TypeInv, NEW r \in Requests, Step(r), req[r].at # "creating"
  PROVE  \A d \in Datasets : datasets'[d] = "active" => datasets[d] = "active"
<1>0. datasets \in [Datasets -> {"none", "active", "deleted"}]
  BY DEF TypeInv, TypeOK
<1>1. CASE Synchronise(r)
  BY <1>1 DEF Synchronise, ListImageDatasets, CompareMembers, Include, Exclude, Synchronised
<1>2. CASE Relate(r)
  BY <1>2 DEF Relate, StartCreate, Check, Insert, StartRevoke, Revoke, StartMatch, NextPair, StartLink,
              StartUnlink, Start
<1>3. CASE ChangeMembers(r)
  BY <1>3 DEF ChangeMembers, StartAdd, AddMember, Added, StartRemove, RemoveMembers, StartCopy, CreateCopy,
              CollectMembers, FillCopy, Start
<1>4. CASE Delete(r)
  <2>1. UNCHANGED datasets \/ CloseDataset(r)
    BY <1>4 DEF Delete, StartDelete, Confirm, ArchiveAssets, RemoveFromDatasets, RemoveFromVersions,
                RemoveRelations, Recount, StoreSummary, RestoreTrash, StartDrop, DropRelations, DropRows,
                DropVersions, DropMembers, Start
  <2> QED
    BY <1>0, <2>1 DEF CloseDataset
<1>5. CASE Fail(r)
  <2>1. UNCHANGED datasets \/ RemoveCopy(r)
    BY <1>5 DEF Fail, SyncRaises, Undo, AbandonCopy, UndoRaises, Crash
  <2> QED
    BY <1>0, <2>1 DEF RemoveCopy
<1> QED
  BY <1>1, <1>2, <1>3, <1>4, <1>5 DEF Step

(* What the others have read is still so.                                  *)
LEMMA OthersFollow ==
  ASSUME BaseInv, FollowParts, Followable, NEW r \in Requests, Step(r),
         NEW s \in Requests, s # r, NEW q, q = req'[s]
  PROVE  Current(q)' /\ HasLease(q, s)'
<1>0. q = req[s] /\ Current(q) /\ HasLease(q, s) /\ Placed(q)
  BY StepFrame DEF BaseInv, TypeInv, FollowParts
<1>1. HasLease(q, s)'
  <2> SUFFICES ASSUME q.kind \in {"add", "remove", "drop"} PROVE writer'[q.dataset] = s
    BY DEF HasLease
  <2>1. writer[q.dataset] = s /\ q.dataset \in Datasets
    BY <1>0 DEF HasLease, Placed
  <2> QED
    BY <2>1, WriterFrame DEF BaseInv
<1>2. CASE q.at \notin Comparing \union Visiting
  <2>1. ToFollow(q)' /\ OwnsTodo(q)'
    BY <1>2 DEF ToFollow, OwnsTodo
  <2>2. q.visit = NoDataset
    BY <1>0, <1>2 DEF Current, VisitIsCurrent
  <2>3. q.at \notin Visiting /\ q.at # "including" /\ q.at # "excluding"
    BY <1>2 DEF Visiting
  <2>4. VisitIsCurrent(q)'
    BY <2>2, <2>3 DEF VisitIsCurrent
  <2> QED
    BY <1>1, <2>1, <2>4 DEF Current
<1>3. CASE q.at \in Comparing \union Visiting
  <2>1. ~Sequential
    <3>1. Busy(s)
      BY <1>0, <1>3 DEF Busy, Comparing, Visiting
    <3> QED
      BY <3>1, OneStep DEF BaseInv
  <2>2. q.kind \in {"add", "remove"} /\ q.pair = NoPair /\ q.dataset \in Datasets
    BY <1>0, <1>3, <2>1, TogetherOwn DEF Sequential
  <2>3. writer[q.dataset] = s
    BY <1>0, <2>2 DEF HasLease
  <2>4. PICK x : x = req[r]
    OBVIOUS
  <2>5. /\ x.kind \in {"none", "link", "unlink", "add", "remove", "drop"}
        /\ x.pair \notin Annotations \X Images
        /\ \A d : Owns(x, d) => x.kind \in {"add", "remove"} /\ d = x.dataset
    BY <2>1, <2>4, TogetherOwn DEF Sequential
  <2>6. x.kind \in {"add", "remove", "drop"} => x.dataset # q.dataset
    BY <2>3, <2>4 DEF FollowParts, HasLease
  <2>7. ~Owns(req[r], q.dataset)
    BY <2>4, <2>5, <2>6
  <2>8. /\ MembersOf(q.dataset)' = MembersOf(q.dataset)
        /\ Desired(q.dataset)' = Desired(q.dataset)
        /\ Follows(q.dataset)' <=> Follows(q.dataset)
    <3>1. PICK d \in Datasets : d = q.dataset
      BY <2>2
    <3>2. MembersOf(d)' = MembersOf(d) /\ Desired(d)' = Desired(d) /\ (Follows(d)' <=> Follows(d))
      BY <2>4, <2>5, <2>6, <2>7, <3>1, Unaffected
    <3> QED
      BY <3>1, <3>2
  <2>9. datasets'[q.dataset] = "active" => datasets[q.dataset] = "active"
    <3>1. req[r].at # "creating"
      BY <2>4, <2>5 DEF BaseInv, TypeInv, Placed, StepsOf, Synced
    <3> QED
      BY <2>2, <3>1, DatasetsFrame DEF BaseInv
  <2>10. \A d : (Owns(q, d) <=> d = q.dataset) /\ (Owns(q, d)' <=> d = q.dataset)
    <3>1. q.pair = NoPair /\ q.kind \in {"add", "remove"} /\ q.kind # "copy"
      BY <2>2
    <3> QED
      BY <3>1 DEF Owns
  <2>11. ToFollow(q)'
    BY <1>0, <2>2, <2>8, <2>9, <2>10 DEF Current, ToFollow
  <2>12. OwnsTodo(q)'
    BY <1>0, <2>10 DEF Current, OwnsTodo
  <2>13. VisitIsCurrent(q)'
    <3>1. VisitIsCurrent(q)
      BY <1>0 DEF Current
    <3>2. q.at \in Visiting => q.visit = q.dataset
      BY <2>10, <3>1 DEF VisitIsCurrent
    <3>3. q.at \notin Visiting => q.visit = NoDataset
      BY <3>1 DEF VisitIsCurrent
    <3>4. q.at \in Visiting => /\ Owns(q, q.visit)'
                              /\ q.out = ((MembersOf(q.visit) \intersect Annotations) \ Desired(q.visit))'
      <4> SUFFICES ASSUME q.at \in Visiting
                   PROVE  /\ Owns(q, q.visit)'
                          /\ q.out = ((MembersOf(q.visit) \intersect Annotations) \ Desired(q.visit))'
        OBVIOUS
      <4>1. PICK d : d = q.visit /\ d = q.dataset
        BY <3>2
      <4>2. q.out = (MembersOf(d) \intersect Annotations) \ Desired(d)
        BY <3>1, <4>1 DEF VisitIsCurrent
      <4>3. MembersOf(d)' = MembersOf(d) /\ Desired(d)' = Desired(d)
        BY <2>8, <4>1
      <4> QED
        BY <2>10, <4>1, <4>2, <4>3
    <3>5. q.at \in Visiting => MembersOf(q.visit)' = MembersOf(q.visit) /\ Desired(q.visit)' = Desired(q.visit)
      <4>1. ASSUME NEW d, d = q.dataset PROVE MembersOf(d)' = MembersOf(d) /\ Desired(d)' = Desired(d)
        BY <2>8, <4>1
      <4> QED
        BY <3>2, <4>1
    <3>6. /\ q.at = "including" => q.in = Desired(q.visit)' \ MembersOf(q.visit)'
          /\ q.at = "excluding" => Desired(q.visit)' \subseteq MembersOf(q.visit)'
      BY <3>1, <3>5 DEF VisitIsCurrent, Visiting
    <3> QED
      BY <3>3, <3>4, <3>6 DEF VisitIsCurrent
  <2> QED
    BY <1>1, <2>11, <2>12, <2>13 DEF Current
<1> QED
  BY <1>1, <1>2, <1>3

(* The invariant of the next state, spelled out.                           *)
LEMMA FollowNext ==
  ASSUME archived' = {}, OwnedOrFollows',
         \A s \in Requests : \A q : q = req'[s] => Current(q)' /\ HasLease(q, s)'
  PROVE  FollowParts'
<1>1. ASSUME NEW s \in Requests PROVE Current(req[s])'
  <2>1. PICK q : q = req'[s]
    OBVIOUS
  <2>2. Current(q)'
    BY <2>1
  <2>3. ToFollow(req[s])'
    BY <2>1, <2>2 DEF Current, ToFollow, Owns
  <2>4. OwnsTodo(req[s])'
    BY <2>1, <2>2 DEF Current, OwnsTodo, Owns
  <2>5. VisitIsCurrent(req[s])'
    BY <2>1, <2>2 DEF Current, VisitIsCurrent, Owns, MembersOf, Desired
  <2> QED
    BY <2>3, <2>4, <2>5 DEF Current
<1>2. ASSUME NEW s \in Requests PROVE HasLease(req[s], s)'
  BY DEF HasLease
<1> QED
  BY <1>1, <1>2 DEF FollowParts

(* A step keeps a dataset following, or its request owns it then.          *)
LEMMA FollowStep ==
  ASSUME BaseInv, FollowParts, Followable, NEW r \in Requests, Step(r),
         NEW q, q = req'[r], Current(q)', HasLease(q, r)',
         \A d \in Datasets : datasets'[d] = "active" =>
           \/ Owns(q, d)'
           \/ Follows(d)'
           \/ datasets[d] = "active" /\ ~Owns(req[r], d) /\ (Follows(d) => Follows(d)')
  PROVE  FollowParts'
<1>1. archived' = {}
  BY NothingIsDeleted DEF FollowParts
<1>2. OwnedOrFollows'
  <2> SUFFICES ASSUME NEW d \in Datasets, datasets'[d] = "active"
               PROVE  Follows(d)' \/ \E s \in Requests : Owns(req[s], d)'
    BY DEF OwnedOrFollows
  <2>1. CASE Owns(q, d)'
    BY <2>1 DEF Owns
  <2>2. CASE Follows(d)'
    BY <2>2
  <2>3. CASE datasets[d] = "active" /\ ~Owns(req[r], d) /\ (Follows(d) => Follows(d)')
    <3>1. CASE Follows(d)
      BY <2>3, <3>1
    <3>2. CASE ~Follows(d)
      <4>1. PICK s \in Requests : Owns(req[s], d)
        BY <2>3, <3>2 DEF FollowParts, OwnedOrFollows
      <4>2. s # r
        BY <2>3, <4>1
      <4>3. Owns(req[s], d)'
        BY <4>1, <4>2, OthersOwn
      <4> QED
        BY <4>3
    <3> QED
      BY <3>1, <3>2
  <2> QED
    BY <2>1, <2>2, <2>3
<1>3. ASSUME NEW s \in Requests, NEW p, p = req'[s] PROVE Current(p)' /\ HasLease(p, s)'
  <2>1. CASE s = r
    BY <1>3, <2>1
  <2>2. CASE s # r
    BY <1>3, <2>2, OthersFollow
  <2> QED
    BY <2>1, <2>2
<1> QED
  BY <1>1, <1>2, <1>3, FollowNext

(* A request that is over, or has nothing to visit, has nothing to keep.   *)
LEMMA IdleIsCurrent ==
  ASSUME NEW q, q.at \notin Comparing, q.visit = NoDataset
  PROVE  Current(q) /\ Current(q)'
<1>1. q.at \notin Visiting /\ q.at # "including" /\ q.at # "excluding"
  BY DEF Comparing, Visiting
<1> QED
  BY <1>1 DEF Current, ToFollow, OwnsTodo, VisitIsCurrent

(* A request that is over has no dataset to visit.                         *)
LEMMA OverFollows ==
  ASSUME NEW r \in Requests, req \in [Requests -> Request], End(r)
  PROVE  \A q : q = req'[r] => Current(q)' /\ HasLease(q, r)' /\ q.kind = "none"
<1> SUFFICES ASSUME NEW q, q = req'[r]
             PROVE  Current(q)' /\ HasLease(q, r)' /\ q.kind = "none"
  OBVIOUS
<1>1. q.kind = "none" /\ q.at = "done" /\ q.visit = NoDataset
  BY DEF End, Set, NewRequest
<1>2. q.at \notin Comparing
  BY <1>1 DEF Comparing
<1> QED
  BY <1>1, <1>2, IdleIsCurrent DEF HasLease

(* A request that has a lease goes on with it.                             *)
LEMMA LeaseStays ==
  ASSUME FollowParts, NEW r \in Requests, UNCHANGED writer,
         NEW q, q.kind = req[r].kind, q.dataset = req[r].dataset
  PROVE  HasLease(q, r)'
BY DEF FollowParts, HasLease

(* Steps that change no relations and no members.                          *)
LEMMA ReadFollows ==
  ASSUME BaseInv, FollowParts, Followable, NEW r \in Requests, Step(r),
         UNCHANGED <<archived, relations, datasets, members>>,
         NEW q, q = req'[r], Current(q), HasLease(q, r)',
         \A d \in Datasets : datasets[d] = "active" /\ Owns(req[r], d) => Owns(q, d) \/ Follows(d)
  PROVE  FollowParts'
<1>1. \A d : MembersOf(d)' = MembersOf(d) /\ Desired(d)' = Desired(d) /\ (Follows(d)' <=> Follows(d))
  BY DEF MembersOf, Desired, Related, Follows
<1>2. \A d : Owns(q, d)' <=> Owns(q, d)
  BY DEF Owns
<1>3. ToFollow(q)' /\ OwnsTodo(q)'
  BY <1>1, <1>2 DEF Current, ToFollow, OwnsTodo
<1>4. VisitIsCurrent(q)'
  <2>1. PICK d : d = q.visit
    OBVIOUS
  <2>2. MembersOf(d)' = MembersOf(d) /\ Desired(d)' = Desired(d) /\ (Owns(q, d)' <=> Owns(q, d))
    BY <1>1, <1>2
  <2>3. VisitIsCurrent(q)
    BY DEF Current
  <2> QED
    BY <2>1, <2>2, <2>3 DEF VisitIsCurrent
<1>5. Current(q)'
  BY <1>3, <1>4 DEF Current
<1> QED
  BY <1>1, <1>2, <1>5, FollowStep

(* Within a synchronisation the datasets a request owns do not change.     *)
LEMMA SameOwner ==
  ASSUME NEW p, NEW q, p.kind = q.kind, p.pair = q.pair, p.dataset = q.dataset, p.copy = q.copy,
         p.at \in Synced, q.at \in Synced
  PROVE  \A d : Owns(p, d) <=> Owns(q, d)
<1>1. p.at # "creating" /\ q.at # "creating"
  BY DEF Synced
<1> QED
  BY <1>1 DEF Owns

(* The visit of a dataset touches its annotations only.                    *)
LEMMA VisitFrame ==
  ASSUME NEW v, archived = {}, archived' = {}, relations' = relations,
         \A d, a : d # v \/ a \notin Annotations => (<<d, a>> \in members' <=> <<d, a>> \in members)
  PROVE  /\ \A d : Desired(d)' = Desired(d)
         /\ \A d : d # v => MembersOf(d)' = MembersOf(d) /\ (Follows(d)' <=> Follows(d))
<1>1. ASSUME NEW d PROVE Desired(d)' = Desired(d)
  <2>1. \A i \in Images : i \notin Annotations
    BY TypesAssumption
  <2>2. \A i \in Images : <<d, i>> \in members' <=> <<d, i>> \in members
    BY <2>1
  <2>3. \A a \in Annotations, i \in Images : <<d, i>> \in members => (Related(a, i)' <=> Related(a, i))
    BY DEF Related
  <2> QED
    BY <2>2, <2>3, DesiredFrame
<1>2. ASSUME NEW d, d # v PROVE MembersOf(d)' = MembersOf(d) /\ (Follows(d)' <=> Follows(d))
  <2>1. MembersOf(d)' = MembersOf(d)
    BY <1>2 DEF MembersOf
  <2> QED
    BY <1>1, <2>1 DEF Follows
<1> QED
  BY <1>1, <1>2

(* A synchronisation makes each dataset follow that it visits.             *)
LEMMA SynchroniseFollows ==
  ASSUME BaseInv, FollowParts, Followable, NEW r \in Requests, Synchronise(r)
  PROVE  FollowParts'
<1> DEFINE x == req[r]
           q == req'[r]
<1>0. /\ x \in Request /\ Placed(x) /\ req \in [Requests -> Request] /\ Step(r)
      /\ ToFollow(x) /\ OwnsTodo(x) /\ VisitIsCurrent(x) /\ HasLease(x, r)
      /\ NoDataset \notin Datasets /\ x.todo \subseteq Datasets
  BY NoDatasetAssumption DEF BaseInv, TypeInv, TypeOK, FollowParts, Current, Step, Request
<1>1. ASSUME NEW s, Set(r, s) \/ Continue(r, s) PROVE q = s
  BY <1>0, <1>1 DEF Set, Continue
<1>2. x.at \in {"listing", "comparing", "including", "excluding"} /\ x.at \in Synced
  BY DEF Synchronise, ListImageDatasets, CompareMembers, Include, Exclude, Synchronised, Synced
<1>3. x.kind \in SynchronisingKinds
  BY <1>0, <1>2 DEF Placed, StepsOf, Synced, Request, Kinds, SynchronisingKinds
<1>4. CASE ListImageDatasets(r)
  <2>1. /\ x.at = "listing" /\ UNCHANGED <<archived, relations, datasets, members, writer>>
        /\ q = [x EXCEPT !.at = "comparing", !.todo = {d \in Datasets : <<d, x.pair[2]>> \in members}]
    BY <1>1, <1>4 DEF ListImageDatasets, Continue
  <2>10. PICK z : z = q
    OBVIOUS
  <2>2. /\ z.at = "comparing" /\ z.kind = x.kind /\ z.pair = x.pair /\ z.dataset = x.dataset /\ z.copy = x.copy
        /\ z.visit = x.visit /\ z.todo = {d \in Datasets : <<d, x.pair[2]>> \in members}
    BY <1>0, <2>1, <2>10 DEF Request
  <2>3. x.kind \notin {"add", "remove", "copy"} /\ x.pair # NoPair
    <3>1. x.kind \in {"create", "revoke", "match"}
      BY <1>0, <1>3, <2>1 DEF Placed, StepsOf, Synced, SynchronisingKinds
    <3>2. x.pair \in Pairs
      BY <1>0, <2>1, <3>1 DEF Placed, Relating
    <3> QED
      BY <3>1, <3>2, NoPairAssumption
  <2> HIDE DEF x, q
  <2>4. z.at \in Synced /\ z.at \in Comparing /\ z.at \notin Visiting
    BY <2>2 DEF Synced, Comparing, Visiting
  <2>5. \A d : Owns(x, d) <=> Owns(z, d)
    BY <1>2, <2>2, <2>4, SameOwner
  <2>6. \A d \in Datasets : Owns(z, d) <=> d \in z.todo
    BY <2>2, <2>3, <2>4 DEF Owns
  <2>7. ToFollow(z) /\ OwnsTodo(z)
    BY <2>2, <2>6 DEF ToFollow, OwnsTodo
  <2>8. VisitIsCurrent(z)
    <3>1. z.visit = NoDataset
      BY <1>0, <2>1, <2>2 DEF VisitIsCurrent, Visiting
    <3> QED
      BY <2>2, <2>4, <3>1 DEF VisitIsCurrent
  <2>9. HasLease(z, r)'
    BY <2>1, <2>2, LeaseStays DEF x
  <2> QED
    BY <1>0, <2>1, <2>5, <2>7, <2>8, <2>9, <2>10, ReadFollows DEF x, q, Current
<1>5. CASE CompareMembers(r)
  <2>0. x.at = "comparing" /\ UNCHANGED <<archived, relations, datasets, members, writer>>
    BY <1>5 DEF CompareMembers, Compare, Continue
  <2>1. PICK d \in x.todo :
          \/ q = [x EXCEPT !.todo = @ \ {d}] /\ datasets[d] # "active"
          \/ q = [x EXCEPT !.at = "including", !.todo = @ \ {d}, !.visit = d,
                           !.in = Desired(d) \ (MembersOf(d) \intersect Annotations),
                           !.out = (MembersOf(d) \intersect Annotations) \ Desired(d)]
    BY <1>1, <1>5 DEF CompareMembers, Compare
  <2>11. PICK z : z = q
    OBVIOUS
  <2>2. /\ z.kind = x.kind /\ z.pair = x.pair /\ z.dataset = x.dataset /\ z.copy = x.copy /\ z.todo = x.todo \ {d}
        /\ \/ z.at = "comparing" /\ z.visit = x.visit /\ datasets[d] # "active"
           \/ /\ z.at = "including" /\ z.visit = d
              /\ z.in = Desired(d) \ (MembersOf(d) \intersect Annotations)
              /\ z.out = (MembersOf(d) \intersect Annotations) \ Desired(d)
    BY ZenonT(40), <1>0, <2>0, <2>1, <2>11 DEF Request
  <2> HIDE DEF x, q
  <2>3. x.visit = NoDataset
    BY <1>0, <2>0 DEF VisitIsCurrent, Visiting
  <2>4. z.at \in Synced
    BY <2>2 DEF Synced
  <2>5. \A c : Owns(x, c) <=> Owns(z, c)
    BY <1>2, <2>2, <2>4, SameOwner
  <2>6. \A c \in Datasets : datasets[c] = "active" /\ Owns(x, c) => c \in x.todo \/ Follows(c)
    BY <1>0, <2>0, <2>3 DEF ToFollow, Comparing
  <2>7. ToFollow(z)
    BY <2>2, <2>5, <2>6 DEF ToFollow
  <2>8. OwnsTodo(z)
    BY <1>0, <2>0, <2>2, <2>5 DEF OwnsTodo, Comparing
  <2>9. VisitIsCurrent(z)
    <3>1. CASE z.at = "comparing"
      BY <2>2, <2>3, <3>1 DEF VisitIsCurrent, Visiting
    <3>2. CASE z.at = "including"
      <4>1. Owns(z, d)
        BY <1>0, <2>0, <2>5 DEF OwnsTodo, Comparing
      <4>2. Desired(d) \ (MembersOf(d) \intersect Annotations) = Desired(d) \ MembersOf(d)
        BY DEF Desired
      <4> QED
        BY <2>2, <3>2, <4>1, <4>2 DEF VisitIsCurrent, Visiting
    <3> QED
      BY <2>2, <3>1, <3>2
  <2>10. HasLease(z, r)'
    BY <2>0, <2>2, LeaseStays DEF x
  <2> QED
    BY <1>0, <2>0, <2>5, <2>7, <2>8, <2>9, <2>10, <2>11, ReadFollows DEF x, q, Current
<1>6. CASE Include(r) \/ Exclude(r)
  <2>18. PICK v : v = x.visit
    OBVIOUS
  <2>0. archived = {} /\ archived' = {} /\ UNCHANGED <<relations, datasets, writer>>
    BY <1>0, <1>6, NothingIsDeleted DEF FollowParts, Include, Exclude, Continue
  <2>1. \/ /\ x.at = "including" /\ members' = members \union ({v} \X x.in)
           /\ q = [x EXCEPT !.at = "excluding", !.in = {}]
        \/ /\ x.at = "excluding" /\ members' = members \ ({v} \X x.out)
           /\ q = [x EXCEPT !.at = "comparing", !.visit = NoDataset, !.out = {}]
    BY <1>1, <1>6, <2>18 DEF Include, Exclude
  <2>2. PICK z : z = q
    OBVIOUS
  <2>3. /\ z.kind = x.kind /\ z.pair = x.pair /\ z.dataset = x.dataset /\ z.copy = x.copy /\ z.todo = x.todo
        /\ \/ x.at = "including" /\ z.at = "excluding" /\ z.visit = v /\ z.out = x.out
           \/ x.at = "excluding" /\ z.at = "comparing" /\ z.visit = NoDataset
    BY ZenonT(40), <1>0, <2>1, <2>2, <2>18 DEF Request
  <2>4. x.in \subseteq Annotations /\ x.out \subseteq Annotations /\ v \in Datasets
    BY <1>0, <2>1, <2>18 DEF Request, Placed
  <2>5. x.pair # NoPair => x.pair[2] \in Images
    BY <1>0, <1>2 DEF Placed
  <2> HIDE DEF x, q
  <2>6. \A d, a : d # v \/ a \notin Annotations => (<<d, a>> \in members' <=> <<d, a>> \in members)
    BY <2>1, <2>4
  <2>7. /\ \A d : Desired(d)' = Desired(d)
        /\ \A d : d # v => MembersOf(d)' = MembersOf(d) /\ (Follows(d)' <=> Follows(d))
    BY <2>0, <2>6, VisitFrame
  <2>8. z.at \in Synced /\ z.at # "creating" /\ x.at # "creating"
    BY <2>3, <1>2 DEF Synced
  <2>9. \A d : Owns(z, d)' <=> Owns(x, d)
    <3>1. ASSUME z.pair # NoPair PROVE \A d : <<d, z.pair[2]>> \in members' <=> <<d, z.pair[2]>> \in members
      <4>1. z.pair[2] \notin Annotations
        BY <2>3, <2>5, <3>1, TypesAssumption
      <4> QED
        BY <2>6, <4>1
    <3>2. \A d : Owns(z, d)' <=> Owns(z, d)
      BY <3>1 DEF Owns
    <3>3. \A d : Owns(z, d) <=> Owns(x, d)
      BY <1>2, <2>3, <2>8, SameOwner
    <3> QED
      BY <3>2, <3>3
  <2>10. Owns(x, v) /\ x.out = (MembersOf(v) \intersect Annotations) \ Desired(v)
    BY <1>0, <2>1, <2>18 DEF VisitIsCurrent, Visiting
  <2>11. x.at = "excluding" => Follows(v)'
    <3> SUFFICES ASSUME x.at = "excluding" PROVE Follows(v)'
      OBVIOUS
    <3>1. Desired(v) \subseteq MembersOf(v)
      BY <1>0, <2>18 DEF VisitIsCurrent
    <3>2. MembersOf(v)' = MembersOf(v) \ x.out
      BY <2>1 DEF MembersOf
    <3>3. Desired(v) \subseteq Annotations
      BY DEF Desired
    <3>4. MembersOf(v)' \intersect Annotations = Desired(v)
      BY <2>10, <3>1, <3>2, <3>3
    <3> QED
      BY <2>7, <3>4 DEF Follows
  <2>12. ToFollow(z)'
    <3> SUFFICES ASSUME NEW d \in Datasets, datasets'[d] = "active", Owns(z, d)'
                 PROVE  d \in z.todo \/ d = z.visit \/ Follows(d)'
      BY DEF ToFollow
    <3>1. d \in x.todo \/ d = v \/ Follows(d)
      BY <1>0, <2>0, <2>1, <2>9, <2>18 DEF ToFollow, Comparing
    <3> QED
      BY <2>3, <2>7, <2>11, <3>1
  <2>13. OwnsTodo(z)'
    BY <1>0, <2>1, <2>3, <2>9 DEF OwnsTodo, Comparing
  <2>14. VisitIsCurrent(z)'
    <3>1. CASE x.at = "excluding"
      BY <2>3, <3>1 DEF VisitIsCurrent, Visiting
    <3>2. CASE x.at = "including"
      <4>1. x.in = Desired(v) \ MembersOf(v)
        BY <1>0, <3>2, <2>18 DEF VisitIsCurrent
      <4>2. MembersOf(v)' = MembersOf(v) \union x.in
        <5>1. x.in \subseteq Members
          BY <2>4 DEF Members
        <5> QED
          BY <2>1, <3>2, <5>1 DEF MembersOf
      <4>3. Desired(v) \subseteq MembersOf(v)'
        BY <4>1, <4>2
      <4>4. x.out = (MembersOf(v)' \intersect Annotations) \ Desired(v)
        BY <2>10, <4>1, <4>2
      <4>5. z.at = "excluding" /\ z.visit = v /\ z.out = x.out
        BY <2>3, <3>2
      <4>6. PICK d : d = v
        OBVIOUS
      <4>7. /\ Owns(z, d)' /\ z.out = (MembersOf(d)' \intersect Annotations) \ Desired(d)'
            /\ Desired(d)' \subseteq MembersOf(d)'
        <5>1. Desired(d)' = Desired(d)
          BY <2>7
        <5> QED
          BY <2>9, <2>10, <4>3, <4>4, <4>5, <4>6, <5>1
      <4> QED
        BY <4>5, <4>6, <4>7 DEF VisitIsCurrent, Visiting
    <3> QED
      BY <2>1, <3>1, <3>2
  <2>15. HasLease(z, r)'
    BY <2>0, <2>3, LeaseStays DEF x
  <2>16. Current(z)'
    BY <2>12, <2>13, <2>14 DEF Current
  <2>17. ASSUME NEW d \in Datasets, datasets'[d] = "active"
         PROVE  \/ Owns(z, d)' \/ Follows(d)'
                \/ datasets[d] = "active" /\ ~Owns(req[r], d) /\ (Follows(d) => Follows(d)')
    BY <2>0, <2>7, <2>9, <2>10, <2>17 DEF x
  <2> QED
    BY <1>0, <2>2, <2>15, <2>16, <2>17, FollowStep DEF q
<1>7. CASE Synchronised(r)
  <2>0. x.at = "comparing" /\ x.todo = {} /\ UNCHANGED <<archived, relations, datasets, members>>
    BY <1>7 DEF Synchronised
  <2>1. \A d \in Datasets : datasets[d] = "active" /\ Owns(x, d) => Follows(d)
    <3>1. x.visit = NoDataset
      BY <1>0, <2>0 DEF VisitIsCurrent, Visiting
    <3> QED
      BY <1>0, <2>0, <3>1 DEF ToFollow, Comparing
  <2>4. PICK z : z = q
    OBVIOUS
  <2>2. z.at \in {"done", "matching"} /\ z.visit = NoDataset /\ HasLease(z, r)'
    <3>1. CASE End(r)
      <4>1. z.at = "done" /\ z.visit = NoDataset
        BY <1>0, <2>4, <3>1 DEF End, Set, NewRequest
      <4>2. z.kind = "none"
        BY <1>0, <2>4, <3>1, OverFollows
      <4> QED
        BY <4>1, <4>2 DEF HasLease
    <3>2. CASE ~End(r)
      <4>1. q = [x EXCEPT !.at = "matching", !.pair = NoPair] /\ UNCHANGED writer
        BY <1>1, <1>7, <3>2 DEF Synchronised, Continue
      <4>2. z.at = "matching" /\ z.visit = x.visit /\ z.kind = x.kind /\ z.dataset = x.dataset
        BY <1>0, <2>4, <4>1 DEF Request
      <4>3. x.visit = NoDataset
        BY <1>0, <2>0 DEF VisitIsCurrent, Visiting
      <4> HIDE DEF q, x
      <4>4. HasLease(z, r)'
        BY <4>1, <4>2, LeaseStays DEF x
      <4> QED
        BY <4>2, <4>3, <4>4
    <3> QED
      BY <3>1, <3>2
  <2>3. z.at \notin Comparing
    BY <2>2 DEF Comparing
  <2>5. Current(z)
    BY <2>2, <2>3, <2>4, IdleIsCurrent
  <2>6. HasLease(z, r)'
    BY <2>2, <2>4
  <2> HIDE DEF x, q
  <2> QED
    BY <1>0, <2>0, <2>1, <2>4, <2>5, <2>6, ReadFollows DEF x, q
<1> QED
  BY <1>4, <1>5, <1>6, <1>7 DEF Synchronise

(* The same for requests that change only what they own.                   *)
LEMMA OwnerFollows ==
  ASSUME BaseInv, FollowParts, Followable, NEW r \in Requests, Step(r), req[r].kind # "drop",
         NEW q, q = req'[r], Current(q)', HasLease(q, r)',
         \A d \in Datasets : datasets'[d] = "active" /\ Owns(req[r], d) => Owns(q, d)' \/ Follows(d)',
         \A d \in Datasets : datasets'[d] = "active" => datasets[d] = "active" \/ Owns(q, d)',
         req[r].at \in {"inserting", "revoking", "undoing"} /\ req[r].pair \in Annotations \X Images
           => \A d \in Datasets : <<d, req[r].pair[2]>> \in members => Owns(q, d)' \/ Owns(req[r], d)
  PROVE  FollowParts'
<1>1. ASSUME NEW d \in Datasets, datasets'[d] = "active", ~Owns(q, d)', ~Follows(d)'
      PROVE  datasets[d] = "active" /\ ~Owns(req[r], d) /\ (Follows(d) => Follows(d)')
  <2>1. datasets[d] = "active" /\ ~Owns(req[r], d)
    BY <1>1
  <2>2. req[r].at \in {"inserting", "revoking", "undoing"} /\ req[r].pair \in Annotations \X Images
          => <<d, req[r].pair[2]>> \notin members
    BY <1>1, <2>1
  <2>3. Follows(d)' <=> Follows(d)
    BY <2>1, <2>2, Unaffected
  <2> QED
    BY <2>1, <2>3
<1> QED
  BY <1>1, FollowStep

(* The synchronisation of the dataset a request has written.               *)
LEMMA AboutToCompare ==
  ASSUME NEW q, q.at = "comparing", q.pair = NoPair, q.visit = NoDataset,
         \/ q.kind \in {"add", "remove"} /\ q.todo = {q.dataset}
         \/ q.kind = "copy" /\ q.todo = {q.copy}
  PROVE  Current(q) /\ Current(q)' /\ \A d \in q.todo : Owns(q, d) /\ Owns(q, d)'
<1>1. \A d : (Owns(q, d) => d \in q.todo) /\ (Owns(q, d)' => d \in q.todo)
  BY DEF Owns
<1>2. \A d \in q.todo : Owns(q, d) /\ Owns(q, d)'
  BY DEF Owns
<1>3. ToFollow(q) /\ ToFollow(q)'
  BY <1>1 DEF ToFollow
<1>4. OwnsTodo(q) /\ OwnsTodo(q)'
  BY <1>2 DEF OwnsTodo
<1>5. VisitIsCurrent(q) /\ VisitIsCurrent(q)'
  BY DEF VisitIsCurrent, Visiting
<1> QED
  BY <1>2, <1>3, <1>4, <1>5 DEF Current

(* The datasets a relation concerns are listed after it is written.        *)
LEMMA RelateFollows ==
  ASSUME BaseInv, FollowParts, Followable, NEW r \in Requests, Relate(r)
  PROVE  FollowParts'
<1> DEFINE x == req[r]
           q == req'[r]
<1>0. /\ x \in Request /\ Placed(x) /\ req \in [Requests -> Request] /\ Step(r) /\ VisitIsCurrent(x)
  BY DEF BaseInv, TypeInv, TypeOK, FollowParts, Current, Step
<1>1. ASSUME NEW s, Set(r, s) \/ Continue(r, s) PROVE q = s
  BY <1>0, <1>1 DEF Set, Continue
<1>2. x.at \in {"idle", "checking", "inserting", "revoking", "matching"}
  BY DEF Relate, StartCreate, Check, Insert, StartRevoke, Revoke, StartMatch, NextPair, StartLink, StartUnlink, Start
<1>3. x.kind \in Relating \union {"none"} /\ (x.at # "idle" => x.kind \in Relating)
  BY <1>0, <1>2 DEF Placed, StepsOf, Synced, Request, Kinds, Relating
<1>4. x.visit = NoDataset /\ \A d : ~Owns(x, d)
  <2>1. x.at \notin Visiting /\ x.at \notin Synced
    BY <1>2 DEF Visiting, Synced
  <2>2. x.kind \notin {"add", "remove", "copy"}
    BY <1>3 DEF Relating
  <2> QED
    BY <1>0, <2>1, <2>2 DEF VisitIsCurrent, Owns
<1>5. ASSUME UNCHANGED <<archived, relations, datasets, members>>, q.kind \in Relating \union {"none"},
             q.at \notin Comparing, q.visit = NoDataset
      PROVE  FollowParts'
  <2>1. PICK z : z = q
    OBVIOUS
  <2>2. Current(z) /\ HasLease(z, r)'
    BY <1>5, <2>1, IdleIsCurrent DEF HasLease, Relating
  <2> QED
    BY <1>0, <1>4, <1>5, <2>1, <2>2, ReadFollows
<1>6. ASSUME End(r) PROVE q.kind = "none" /\ q.at = "done" /\ q.visit = NoDataset
  BY <1>0, <1>6 DEF End, Set, NewRequest
<1>7. CASE StartCreate(r) \/ StartRevoke(r) \/ StartMatch(r) \/ StartLink(r) \/ StartUnlink(r)
  <2>0. UNCHANGED <<archived, relations, datasets, members>>
    BY <1>7 DEF StartCreate, StartRevoke, StartMatch, StartLink, StartUnlink, Start
  <2>1. q.kind \in Relating /\ q.at \in {"checking", "revoking", "matching"} /\ q.visit = NoDataset
    <3>1. CASE StartCreate(r)
      BY ZenonT(40), <1>1, <3>1 DEF StartCreate, NewRequest, Relating
    <3>2. CASE StartRevoke(r)
      BY ZenonT(40), <1>1, <3>2 DEF StartRevoke, NewRequest, Relating
    <3>3. CASE StartMatch(r)
      BY ZenonT(40), <1>1, <3>3 DEF StartMatch, NewRequest, Relating
    <3>4. CASE StartLink(r)
      BY ZenonT(40), <1>1, <3>4 DEF StartLink, NewRequest, Relating
    <3>5. CASE StartUnlink(r)
      BY ZenonT(40), <1>1, <3>5 DEF StartUnlink, NewRequest, Relating
    <3> QED
      BY <1>7, <3>1, <3>2, <3>3, <3>4, <3>5
  <2> HIDE DEF q
  <2> QED
    BY <1>5, <2>0, <2>1 DEF Comparing
<1>8. CASE Check(r) \/ NextPair(r)
  <2>0. UNCHANGED <<archived, relations, datasets, members>>
    BY <1>8 DEF Check, NextPair
  <2>1. CASE End(r)
    BY <1>5, <1>6, <2>0, <2>1 DEF Comparing
  <2>2. CASE ~End(r)
    <3>1. q.kind = x.kind /\ q.at \in {"checking", "inserting", "matching"} /\ q.visit = x.visit
      <4>1. CASE Check(r) /\ Creatable(x.pair)
        <5>1. \E n : Continue(r, [x EXCEPT !.at = "inserting", !.revision = n])
          BY <4>1 DEF Check
        <5> QED
          BY <1>0, <1>1, <5>1 DEF Request
      <4>2. CASE Check(r) /\ ~Creatable(x.pair)
        BY <1>0, <1>1, <2>2, <4>2 DEF Check, Refused, Request
      <4>3. CASE NextPair(r)
        <5>1. \E p : Continue(r, [x EXCEPT !.at = "checking", !.pair = p, !.ready = @ \ {p}])
          BY <2>2, <4>3 DEF NextPair
        <5> QED
          BY <1>0, <1>1, <5>1 DEF Request
      <4> QED
        BY <1>8, <4>1, <4>2, <4>3
    <3> HIDE DEF q, x
    <3> QED
      BY <1>3, <1>4, <1>5, <2>0, <3>1 DEF Comparing
  <2> QED
    BY <2>1, <2>2
<1>9. CASE Insert(r) \/ Revoke(r)
  <2>0. UNCHANGED <<archived, datasets, members>> /\ x.at \in {"inserting", "revoking"}
    BY <1>9 DEF Insert, Revoke
  <2>1. \/ End(r) /\ UNCHANGED relations
        \/ End(r) /\ x.pair[1] \notin Annotations
        \/ q = [x EXCEPT !.at = "listing"]
    BY <1>1, <1>9 DEF Insert, Revoke, At
  <2>2. CASE End(r) /\ UNCHANGED relations
    BY <1>5, <1>6, <2>0, <2>2 DEF Comparing
  <2>3. PICK z : z = q
    OBVIOUS
  <2>4. CASE End(r) /\ x.pair[1] \notin Annotations
    <3>1. z.kind = "none" /\ z.at \notin Comparing /\ z.visit = NoDataset
      BY <1>6, <2>3, <2>4 DEF Comparing
    <3>2. Current(z)' /\ HasLease(z, r)'
      BY <3>1, IdleIsCurrent DEF HasLease
    <3>3. x.pair \notin Annotations \X Images /\ x.kind # "drop"
      BY <1>3, <2>4 DEF Relating
    <3> HIDE DEF q
    <3> QED
      BY <1>0, <1>4, <2>0, <2>3, <3>2, <3>3, OwnerFollows DEF q
  <2>5. CASE q = [x EXCEPT !.at = "listing"]
    <3>1. z.kind = x.kind /\ z.at = "listing" /\ z.visit = NoDataset /\ z.pair = x.pair
      BY <1>0, <1>4, <2>3, <2>5 DEF Request
    <3>2. z.at \notin Comparing /\ z.kind \in Relating
      BY <1>3, <2>0, <3>1 DEF Comparing
    <3>3. Current(z)' /\ HasLease(z, r)'
      BY <3>1, <3>2, IdleIsCurrent DEF HasLease, Relating
    <3>4. x.pair # NoPair /\ x.kind # "drop"
      BY <1>0, <1>3, <2>0, NoPairAssumption DEF Placed, Relating
    <3>5. \A d \in Datasets : <<d, x.pair[2]>> \in members => Owns(z, d)'
      BY <2>0, <3>1, <3>4 DEF Owns, Synced
    <3> HIDE DEF q
    <3> QED
      BY <1>0, <1>4, <2>0, <2>3, <3>3, <3>4, <3>5, OwnerFollows DEF q
  <2> QED
    BY <2>1, <2>2, <2>4, <2>5
<1> QED
  BY <1>7, <1>8, <1>9 DEF Relate

(* The dataset whose members change is visited afterwards.                 *)
LEMMA ChangeMembersFollows ==
  ASSUME BaseInv, FollowParts, Followable, NEW r \in Requests, ChangeMembers(r)
  PROVE  FollowParts'
<1> DEFINE x == req[r]
           q == req'[r]
<1>0. /\ x \in Request /\ Placed(x) /\ req \in [Requests -> Request] /\ Step(r) /\ VisitIsCurrent(x)
      /\ datasets \in [Datasets -> {"none", "active", "deleted"}]
      /\ writer \in [Datasets -> Requests \union {Nobody}]
  BY DEF BaseInv, TypeInv, TypeOK, FollowParts, Current, Step
<1>1. ASSUME NEW s, Set(r, s) \/ Continue(r, s) PROVE q = s
  BY <1>0, <1>1 DEF Set, Continue
<1>2. x.at \in {"idle", "adding", "removing", "creating", "collecting", "filling"}
  BY DEF ChangeMembers, StartAdd, AddMember, Added, StartRemove, RemoveMembers, StartCopy, CreateCopy,
         CollectMembers, FillCopy, Start
<1>3. /\ x.at \in {"creating", "collecting", "filling"} => x.kind = "copy"
      /\ x.at = "adding" => x.kind = "add"
      /\ x.at = "removing" => x.kind = "remove"
      /\ x.at = "idle" => x.kind = "none"
  BY <1>0, <1>2 DEF Placed, StepsOf, Synced, Request, Kinds
<1>4. x.visit = NoDataset /\ x.pair = NoPair /\ x.kind # "drop"
  <2>1. x.at \notin Visiting
    BY <1>2 DEF Visiting
  <2>2. x.kind \in {"none", "add", "remove", "copy"}
    BY <1>2, <1>3
  <2> QED
    BY <1>0, <2>1, <2>2 DEF VisitIsCurrent, Placed, Relating
<1>5. CASE StartAdd(r) \/ StartRemove(r) \/ StartCopy(r)
  <2>0. UNCHANGED <<archived, relations, datasets, members>> /\ x.at = "idle"
    BY <1>5 DEF StartAdd, StartRemove, StartCopy, Start
  <2>1. PICK z : z = q
    OBVIOUS
  <2>2. z.visit = NoDataset /\ z.at \in {"adding", "removing", "creating"} /\ writer'[z.dataset] = r
    <3>1. CASE StartAdd(r)
      <4>1. PICK d \in Datasets : Lease(r, d) /\ \E S : Set(r, [NewRequest EXCEPT !.at = "adding", !.kind = "add",
                                                                           !.dataset = d, !.batch = S])
        BY <3>1 DEF StartAdd
      <4>2. z.visit = NoDataset /\ z.at = "adding" /\ z.dataset = d
        BY ZenonT(40), <1>1, <2>1, <4>1 DEF NewRequest
      <4> QED
        BY <1>0, <4>1, <4>2 DEF Lease
    <3>2. CASE StartRemove(r)
      <4>1. PICK d \in Datasets : Lease(r, d) /\ \E S : Set(r, [NewRequest EXCEPT !.at = "removing", !.kind = "remove",
                                       !.dataset = d, !.batch = S, !.changed = S \intersect MembersOf(d)])
        BY <3>2 DEF StartRemove
      <4>2. z.visit = NoDataset /\ z.at = "removing" /\ z.dataset = d
        BY ZenonT(40), <1>1, <2>1, <4>1 DEF NewRequest
      <4> QED
        BY <1>0, <4>1, <4>2 DEF Lease
    <3>3. CASE StartCopy(r)
      <4>1. PICK d \in Datasets : Lease(r, d) /\ Set(r, [NewRequest EXCEPT !.at = "creating", !.kind = "copy", !.dataset = d])
        BY <3>3 DEF StartCopy
      <4>2. z.visit = NoDataset /\ z.at = "creating" /\ z.dataset = d
        BY <1>1, <2>1, <4>1 DEF NewRequest
      <4> QED
        BY <1>0, <4>1, <4>2 DEF Lease
    <3> QED
      BY <1>5, <3>1, <3>2, <3>3
  <2>3. z.at \notin Comparing
    BY <2>2 DEF Comparing
  <2>4. Current(z) /\ HasLease(z, r)'
    BY <2>2, <2>3, IdleIsCurrent DEF HasLease
  <2>5. \A d : ~Owns(x, d)
    BY <1>3, <1>4, <2>0 DEF Owns
  <2> HIDE DEF q
  <2> QED
    BY <1>0, <2>0, <2>1, <2>4, <2>5, ReadFollows DEF q
<1>6. ASSUME NEW z, z = q, z.kind = x.kind, z.dataset = x.dataset, UNCHANGED writer,
             Current(z)', x.kind \in {"add", "remove", "copy"}, x.kind = "copy" => x.at = "creating" \/ z.copy = x.copy,
             \A d \in Datasets : datasets'[d] = "active" =>
               datasets[d] = "active" \/ (z.kind = "copy" /\ d = z.copy),
             z.at # "creating"
      PROVE  FollowParts'
  <2>1. HasLease(z, r)'
    BY <1>6, LeaseStays
  <2>2. \A d : Owns(x, d) => Owns(z, d)'
    BY <1>4, <1>6 DEF Owns
  <2>3. \A d : z.kind = "copy" /\ d = z.copy => Owns(z, d)'
    BY <1>6 DEF Owns
  <2>4. x.at \notin {"inserting", "revoking", "undoing"}
    BY <1>2
  <2> HIDE DEF x, q
  <2> QED
    BY <1>0, <1>4, <1>6, <2>1, <2>2, <2>3, <2>4, OwnerFollows DEF x, q
<1>7. CASE AddMember(r)
  <2>0. x.at = "adding" /\ UNCHANGED <<datasets, writer>>
    BY <1>7 DEF AddMember, Continue
  <2>1. PICK a \in x.batch :
          q = [x EXCEPT !.batch = @ \ {a}, !.changed = @ \union ({a} \ MembersOf(x.dataset))]
    BY <1>1, <1>7 DEF AddMember
  <2>2. PICK z : z = q
    OBVIOUS
  <2>3. z.at = "adding" /\ z.kind = x.kind /\ z.dataset = x.dataset /\ z.copy = x.copy /\ z.visit = x.visit
    BY <1>0, <2>0, <2>1, <2>2 DEF Request
  <2>4. Current(z)'
    BY <1>4, <2>3, IdleIsCurrent DEF Comparing
  <2> HIDE DEF x, q
  <2> QED
    BY <1>3, <1>6, <2>0, <2>2, <2>3, <2>4
<1>8. CASE Added(r) \/ RemoveMembers(r)
  <2>0. UNCHANGED <<datasets, writer>> /\ x.at \in {"adding", "removing"}
        /\ q = [x EXCEPT !.at = "comparing", !.todo = {x.dataset}]
    BY <1>1, <1>8 DEF Added, RemoveMembers, Adjust, Continue
  <2>1. PICK z : z = q
    OBVIOUS
  <2>2. z.at = "comparing" /\ z.kind = x.kind /\ z.dataset = x.dataset /\ z.copy = x.copy /\ z.visit = x.visit
        /\ z.pair = x.pair /\ z.todo = {x.dataset}
    BY <1>0, <2>0, <2>1 DEF Request
  <2>3. x.kind \in {"add", "remove"}
    BY <1>3, <2>0
  <2> HIDE DEF x, q
  <2>4. Current(z)'
    BY <1>4, <2>2, <2>3, AboutToCompare
  <2> QED
    BY <1>6, <2>0, <2>1, <2>2, <2>3, <2>4
<1>9. CASE CreateCopy(r)
  <2>1. PICK c \in Datasets :
          /\ datasets' = [datasets EXCEPT ![c] = "active"]
          /\ q = [x EXCEPT !.at = "collecting", !.copy = c]
          /\ UNCHANGED writer /\ x.at = "creating"
    BY <1>1, <1>9 DEF CreateCopy, Continue
  <2>2. PICK z : z = q
    OBVIOUS
  <2>3. z.at = "collecting" /\ z.kind = x.kind /\ z.dataset = x.dataset /\ z.copy = c /\ z.visit = x.visit
    BY <1>0, <2>1, <2>2 DEF Request
  <2>4. Current(z)'
    BY <1>4, <2>3, IdleIsCurrent DEF Comparing
  <2>5. x.kind = "copy"
    BY <1>3, <2>1
  <2>6. \A d \in Datasets : datasets'[d] = "active" => datasets[d] = "active" \/ d = c
    BY <1>0, <2>1
  <2> HIDE DEF x, q
  <2> QED
    BY <1>6, <2>1, <2>2, <2>3, <2>4, <2>5, <2>6
<1>10. CASE CollectMembers(r)
  <2>0. UNCHANGED <<datasets, writer>> /\ x.at = "collecting"
        /\ q = [x EXCEPT !.at = "filling", !.changed = MembersOf(x.dataset) \ archived]
    BY <1>1, <1>10 DEF CollectMembers, Continue
  <2>1. PICK z : z = q
    OBVIOUS
  <2>2. z.at = "filling" /\ z.kind = x.kind /\ z.dataset = x.dataset /\ z.copy = x.copy /\ z.visit = x.visit
    BY <1>0, <2>0, <2>1 DEF Request
  <2>3. Current(z)'
    BY <1>4, <2>2, IdleIsCurrent DEF Comparing
  <2> HIDE DEF x, q
  <2> QED
    BY <1>3, <1>6, <2>0, <2>1, <2>2, <2>3
<1>11. CASE FillCopy(r)
  <2>0. UNCHANGED <<datasets, writer>> /\ x.at = "filling"
        /\ q = [x EXCEPT !.at = "comparing", !.todo = {x.copy}]
    BY <1>1, <1>11 DEF FillCopy, Adjust, Continue
  <2>1. PICK z : z = q
    OBVIOUS
  <2>2. z.at = "comparing" /\ z.kind = x.kind /\ z.dataset = x.dataset /\ z.copy = x.copy /\ z.visit = x.visit
        /\ z.pair = x.pair /\ z.todo = {x.copy}
    BY <1>0, <2>0, <2>1 DEF Request
  <2>3. x.kind = "copy"
    BY <1>3, <2>0
  <2> HIDE DEF x, q
  <2>4. Current(z)'
    BY <1>4, <2>2, <2>3, AboutToCompare
  <2> QED
    BY <1>6, <2>0, <2>1, <2>2, <2>3, <2>4
<1> QED
  BY <1>5, <1>7, <1>8, <1>9, <1>10, <1>11 DEF ChangeMembers

(* Only datasets are deleted; the one being deleted loses all its members. *)
LEMMA DeleteFollows ==
  ASSUME BaseInv, FollowParts, Followable, NEW r \in Requests, Delete(r)
  PROVE  FollowParts'
<1> DEFINE x == req[r]
           q == req'[r]
<1>0. /\ x \in Request /\ Placed(x) /\ req \in [Requests -> Request] /\ Step(r) /\ VisitIsCurrent(x)
      /\ datasets \in [Datasets -> {"none", "active", "deleted"}]
      /\ writer \in [Datasets -> Requests \union {Nobody}]
  BY DEF BaseInv, TypeInv, TypeOK, FollowParts, Current, Step
<1>1. ASSUME NEW s, Set(r, s) \/ Continue(r, s) PROVE q = s
  BY <1>0, <1>1 DEF Set, Continue
<1>2. /\ archived = {} /\ archived' = {} /\ "delete" \notin events
      /\ x.at \notin {"confirming", "archiving", "unlisting", "unversioning", "unrelating", "recounting", "storing"}
  BY <1>0, NothingIsDeleted DEF FollowParts, Followable
<1>3. StartDrop(r) \/ DropRelations(r) \/ DropRows(r) \/ DropVersions(r) \/ DropMembers(r) \/ CloseDataset(r)
  BY <1>2 DEF Delete, StartDelete, Confirm, ArchiveAssets, RemoveFromDatasets, RemoveFromVersions,
              RemoveRelations, Recount, StoreSummary, RestoreTrash
<1>4. x.at \in {"idle", "dropping", "emptying", "unpublishing", "clearing", "closing"}
  BY <1>3 DEF StartDrop, DropRelations, DropRows, DropVersions, DropMembers, CloseDataset, Start
<1>5. /\ x.at = "idle" => x.kind = "none"
      /\ x.at # "idle" => x.kind = "drop" /\ x.dataset \in Datasets
  BY <1>0, <1>4 DEF Placed, StepsOf, Synced, Request, Kinds
<1>6. x.visit = NoDataset /\ x.pair = NoPair /\ \A d : ~Owns(x, d)
  <2>1. x.at \notin Visiting /\ x.at \notin Synced
    BY <1>4 DEF Visiting, Synced
  <2>2. x.kind \in {"none", "drop"}
    BY <1>4, <1>5
  <2> QED
    BY <1>0, <2>1, <2>2 DEF VisitIsCurrent, Placed, Relating, Owns
<1>7. CASE StartDrop(r)
  <2>0. UNCHANGED <<archived, relations, datasets, members>>
    BY <1>7 DEF StartDrop, Start
  <2>1. PICK d \in Datasets :
          Lease(r, d) /\ Set(r, [NewRequest EXCEPT !.at = "dropping", !.kind = "drop", !.dataset = d])
    BY <1>7 DEF StartDrop
  <2>2. PICK z : z = q
    OBVIOUS
  <2>3. z.visit = NoDataset /\ z.at \notin Comparing /\ z.dataset = d
    BY ZenonT(40), <1>1, <2>1, <2>2 DEF NewRequest, Comparing
  <2>4. writer'[d] = r
    BY <1>0, <2>1 DEF Lease
  <2>5. Current(z) /\ HasLease(z, r)'
    BY <2>3, <2>4, IdleIsCurrent DEF HasLease
  <2> HIDE DEF q
  <2> QED
    BY <1>0, <1>6, <2>0, <2>2, <2>5, ReadFollows DEF q
<1>8. ASSUME NEW z, z = q, z.visit = NoDataset, z.at \notin Comparing, HasLease(z, r)', x.at # "idle",
             \A d \in Datasets : datasets'[d] = "active" => datasets[d] = "active",
             \A d \in Datasets : d = x.dataset /\ datasets'[d] = "active" /\ Follows(d) => Follows(d)'
      PROVE  FollowParts'
  <2>1. Current(z)'
    BY <1>8, IdleIsCurrent
  <2>2. ASSUME NEW d \in Datasets, datasets'[d] = "active", Follows(d) PROVE Follows(d)'
    <3>1. CASE d = x.dataset
      BY <1>8, <2>2, <3>1
    <3>2. CASE d # x.dataset
      <4>1. x.at \notin {"inserting", "revoking", "undoing"}
        BY <1>4
      <4>2. Follows(d)' <=> Follows(d)
        BY <1>0, <1>6, <3>2, <4>1, Unaffected
      <4> QED
        BY <2>2, <4>2
    <3> QED
      BY <3>1, <3>2
  <2> QED
    BY <1>0, <1>6, <1>8, <2>1, <2>2, FollowStep
<1>9. CASE DropRelations(r) \/ DropRows(r) \/ DropVersions(r)
  <2>1. /\ UNCHANGED <<archived, datasets, members, writer>> /\ x.at \in {"dropping", "emptying", "unpublishing"}
        /\ \E s \in {"emptying", "unpublishing", "clearing"} : q = [x EXCEPT !.at = s]
    BY <1>1, <1>9 DEF DropRelations, DropRows, DropVersions, At
  <2>2. PICK z : z = q
    OBVIOUS
  <2>3. z.at \in {"emptying", "unpublishing", "clearing"} /\ z.kind = x.kind /\ z.dataset = x.dataset /\ z.visit = x.visit
    BY <1>0, <2>1, <2>2 DEF Request
  <2>4. HasLease(z, r)'
    BY <2>1, <2>3, LeaseStays
  <2>5. ASSUME NEW d \in Datasets, Follows(d) PROVE Follows(d)'
    <3>1. \A a \in Annotations, i \in Images : Related(a, i)' <=> Related(a, i)
      BY <1>0, <2>1, RelatedFrame
    <3>2. Desired(d)' = Desired(d)
      BY <1>2, <2>1, <3>1, DesiredFrame
    <3>3. MembersOf(d)' = MembersOf(d)
      BY <2>1 DEF MembersOf
    <3> QED
      BY <2>5, <3>2, <3>3 DEF Follows
  <2> HIDE DEF x, q
  <2>6. z.visit = NoDataset /\ z.at \notin Comparing /\ x.at # "idle"
    BY <1>6, <2>1, <2>3 DEF Comparing
  <2> QED
    BY <1>8, <2>1, <2>2, <2>4, <2>5, <2>6
<1>10. CASE DropMembers(r)
  <2>1. /\ members' = {m \in members : m[1] # x.dataset} /\ UNCHANGED <<archived, relations, datasets, writer>>
        /\ x.at = "clearing" /\ q = [x EXCEPT !.at = "closing"]
    BY <1>1, <1>10 DEF DropMembers, At
  <2>2. PICK z : z = q
    OBVIOUS
  <2>3. z.at = "closing" /\ z.kind = x.kind /\ z.dataset = x.dataset /\ z.visit = x.visit
    BY <1>0, <2>1, <2>2 DEF Request
  <2>4. HasLease(z, r)'
    BY <2>1, <2>3, LeaseStays
  <2>5. ASSUME NEW d \in Datasets, d = x.dataset PROVE Follows(d)'
    <3>1. MembersOf(d)' = {}
      BY <2>1, <2>5 DEF MembersOf
    <3> QED
      BY <3>1 DEF Follows, Desired
  <2> HIDE DEF x, q
  <2>6. z.visit = NoDataset /\ z.at \notin Comparing /\ x.at # "idle"
    BY <1>6, <2>1, <2>3 DEF Comparing
  <2> QED
    BY <1>8, <2>1, <2>2, <2>4, <2>5, <2>6
<1>11. CASE CloseDataset(r)
  <2>1. /\ datasets' = [datasets EXCEPT ![x.dataset] = "deleted"] /\ End(r) /\ x.at = "closing"
    BY <1>11 DEF CloseDataset
  <2>2. PICK z : z = q
    OBVIOUS
  <2>3. z.at = "done" /\ z.visit = NoDataset
    BY <1>0, <2>1, <2>2 DEF End, Set, NewRequest
  <2>4. HasLease(z, r)'
    BY <1>0, <2>1, <2>2, OverFollows
  <2>5. \A d \in Datasets : datasets'[d] = "active" => datasets[d] = "active" /\ d # x.dataset
    BY <1>0, <2>1
  <2> HIDE DEF x, q
  <2>6. z.at \notin Comparing /\ x.at # "idle"
    BY <2>1, <2>3 DEF Comparing
  <2> QED
    BY <1>8, <2>2, <2>3, <2>4, <2>5, <2>6
<1> QED
  BY <1>3, <1>7, <1>9, <1>10, <1>11

(* A synchronisation that fails is made again, or its copy is removed.     *)
LEMMA FailFollows ==
  ASSUME BaseInv, FollowParts, Followable, NEW r \in Requests, Fail(r)
  PROVE  FollowParts'
<1> DEFINE x == req[r]
           q == req'[r]
<1>0. /\ x \in Request /\ Placed(x) /\ req \in [Requests -> Request] /\ Step(r) /\ VisitIsCurrent(x)
      /\ datasets \in [Datasets -> {"none", "active", "deleted"}]
  BY DEF BaseInv, TypeInv, TypeOK, FollowParts, Current, Step
<1>1. ASSUME NEW s, Set(r, s) \/ Continue(r, s) PROVE q = s
  BY <1>0, <1>1 DEF Set, Continue
<1>2. SyncRaises(r) \/ Undo(r) \/ AbandonCopy(r) \/ RemoveCopy(r)
  BY DEF Fail, UndoRaises, Crash, Followable
<1>3. x.at \in Synchronising \union {"undoing", "abandoning"}
  BY <1>2 DEF SyncRaises, Undo, AbandonCopy, RemoveCopy
<1>4. x.kind \in SynchronisingKinds /\ x.kind # "drop"
  BY <1>0, <1>3 DEF Placed, StepsOf, Synced, Synchronising, Request, Kinds, SynchronisingKinds
<1>5. CASE SyncRaises(r)
  <2>1. /\ x.at \in Synchronising /\ UNCHANGED <<archived, relations, datasets, members, writer>>
        /\ q = [x EXCEPT !.at = "undoing", !.undone = TRUE, !.todo = {}, !.visit = NoDataset, !.in = {}, !.out = {}]
    BY <1>1, <1>5 DEF SyncRaises, Continue
  <2>2. PICK z : z = q
    OBVIOUS
  <2>3. z.at = "undoing" /\ z.kind = x.kind /\ z.pair = x.pair /\ z.dataset = x.dataset /\ z.copy = x.copy
        /\ z.visit = NoDataset
    BY <1>0, <2>1, <2>2 DEF Request
  <2>4. HasLease(z, r)'
    BY <2>1, <2>3, LeaseStays
  <2> HIDE DEF x, q
  <2>5. Current(z)
    BY <2>3, IdleIsCurrent DEF Comparing
  <2>6. \A d : Owns(x, d) => Owns(z, d)
    BY <2>3 DEF Owns, Synced
  <2> QED
    BY <1>0, <2>1, <2>2, <2>4, <2>5, <2>6, ReadFollows DEF x, q
<1>6. CASE Undo(r)
  <2>0. x.at = "undoing" /\ x.kind # "copy" /\ UNCHANGED <<archived, datasets, writer>>
    BY <1>6 DEF Undo
  <2>1. PICK z : z = q
    OBVIOUS
  <2>2. x.visit = NoDataset
    BY <1>0, <2>0 DEF VisitIsCurrent, Visiting
  <2>3. CASE x.pair # NoPair
    <3>1. q = [x EXCEPT !.at = "listing"] /\ members' = members
      BY <1>1, <1>6, <2>3 DEF Undo, UndoRelation, At
    <3>2. z.at = "listing" /\ z.kind = x.kind /\ z.pair = x.pair /\ z.dataset = x.dataset /\ z.copy = x.copy
          /\ z.visit = x.visit
      BY <1>0, <2>1, <3>1 DEF Request
    <3>3. HasLease(z, r)'
      BY <2>0, <3>2, LeaseStays
    <3>4. Current(z)'
      BY <2>2, <3>2, IdleIsCurrent DEF Comparing
    <3> HIDE DEF x, q
    <3>5. \A d : Owns(x, d) => Owns(z, d)'
      BY <2>0, <3>1, <3>2 DEF Owns, Synced
    <3>6. \A d : <<d, x.pair[2]>> \in members => Owns(x, d)
      BY <2>0, <2>3 DEF Owns, Synced
    <3> QED
      BY <1>0, <1>4, <2>0, <2>1, <3>3, <3>4, <3>5, <3>6, OwnerFollows DEF x, q
  <2>4. CASE x.pair = NoPair
    <3>1. q = [x EXCEPT !.at = "comparing", !.todo = {x.dataset}, !.changed = {}]
      BY <1>1, <1>6, <2>4 DEF Undo, UndoMembers
    <3>2. z.at = "comparing" /\ z.kind = x.kind /\ z.pair = x.pair /\ z.dataset = x.dataset
          /\ z.visit = x.visit /\ z.todo = {x.dataset}
      BY <1>0, <2>1, <3>1 DEF Request
    <3>3. x.kind \in {"add", "remove"}
      <4>1. x.kind \in Relating => x.pair \in Pairs
        BY <1>0, <2>0 DEF Placed
      <4> QED
        BY <1>4, <2>0, <2>4, <4>1, NoPairAssumption DEF Relating, SynchronisingKinds
    <3>4. HasLease(z, r)'
      BY <2>0, <3>2, LeaseStays
    <3> HIDE DEF x, q
    <3>5. Current(z)' /\ \A d \in z.todo : Owns(z, d)'
      BY <2>2, <2>4, <3>2, <3>3, AboutToCompare
    <3>6. \A d : Owns(x, d) => Owns(z, d)'
      BY <2>4, <3>2, <3>3 DEF Owns
    <3>7. x.pair \notin Annotations \X Images
      BY <2>4, NoPairAssumption, PairShapes
    <3> QED
      BY <1>0, <1>4, <2>0, <2>1, <3>4, <3>5, <3>6, <3>7, OwnerFollows DEF x, q
  <2> QED
    BY <2>3, <2>4
<1>7. CASE AbandonCopy(r)
  <2>1. /\ x.at = "undoing" /\ x.kind = "copy" /\ q = [x EXCEPT !.at = "abandoning"]
        /\ UNCHANGED <<archived, datasets, writer>>
    BY <1>1, <1>7 DEF AbandonCopy, At
  <2>2. PICK z : z = q
    OBVIOUS
  <2>3. z.at = "abandoning" /\ z.kind = x.kind /\ z.dataset = x.dataset /\ z.copy = x.copy /\ z.visit = x.visit
    BY <1>0, <2>1, <2>2 DEF Request
  <2>4. x.visit = NoDataset /\ x.pair = NoPair
    BY <1>0, <2>1 DEF VisitIsCurrent, Visiting, Placed, Relating
  <2>5. HasLease(z, r)'
    BY <2>1, <2>3, LeaseStays
  <2>6. Current(z)'
    BY <2>3, <2>4, IdleIsCurrent DEF Comparing
  <2> HIDE DEF x, q
  <2>7. \A d : Owns(x, d) => Owns(z, d)'
    BY <2>1, <2>3, <2>4 DEF Owns
  <2>8. x.pair \notin Annotations \X Images
    BY <2>4, NoPairAssumption, PairShapes
  <2> QED
    BY <1>0, <1>4, <2>1, <2>2, <2>5, <2>6, <2>7, <2>8, OwnerFollows DEF x, q
<1>8. CASE RemoveCopy(r)
  <2>1. /\ x.at = "abandoning" /\ datasets' = [datasets EXCEPT ![x.copy] = "none"] /\ End(r)
    BY <1>8 DEF RemoveCopy
  <2>2. x.kind = "copy" /\ x.pair = NoPair
    BY <1>0, <1>4, <2>1 DEF Placed, StepsOf, Synced, SynchronisingKinds, Relating
  <2>3. PICK z : z = q
    OBVIOUS
  <2>4. Current(z)' /\ HasLease(z, r)'
    BY <1>0, <2>1, <2>3, OverFollows
  <2>5. \A d \in Datasets : datasets'[d] = "active" => datasets[d] = "active" /\ d # x.copy
    BY <1>0, <2>1
  <2> HIDE DEF x, q
  <2>6. \A d : Owns(x, d) => d = x.copy
    BY <2>2 DEF Owns
  <2>7. x.at \notin {"inserting", "revoking", "undoing"}
    BY <2>1
  <2> QED
    BY <1>0, <1>4, <2>3, <2>4, <2>5, <2>6, <2>7, OwnerFollows DEF x, q
<1> QED
  BY <1>2, <1>5, <1>6, <1>7, <1>8

(* At first every dataset has the annotations of its images.               *)
LEMMA FollowInit == Init => FollowInv
<1> SUFFICES ASSUME Init PROVE FollowParts
  BY DEF FollowInv
<1>1. PICK pairs \in AtMost(Links, {p \in Pairs : p[2] \in Images \union published}) :
        /\ relations = [pair : pairs, revision : {1}, id : {Nobody}, status : {"active"}]
        /\ \E S \in AtMost(Links, {d \in Datasets : datasets[d] = "active"} \X Images) :
             members = S \union {m \in Datasets \X Annotations :
                                   \E i \in Images : <<m[1], i>> \in S /\ <<m[2], i>> \in pairs}
  BY DEF Init
<1>2. PICK S \in AtMost(Links, {d \in Datasets : datasets[d] = "active"} \X Images) :
        members = S \union {m \in Datasets \X Annotations :
                              \E i \in Images : <<m[1], i>> \in S /\ <<m[2], i>> \in pairs}
  BY <1>1
<1>3. archived = {} /\ S \subseteq Datasets \X Images
  BY DEF Init, AtMost
<1>4. \A a, i : Related(a, i) <=> <<a, i>> \in pairs
  <2>1. \A y \in relations : y.pair \in pairs /\ y.status = "active"
    BY <1>1
  <2>2. \A p \in pairs : [pair |-> p, revision |-> 1, id |-> Nobody, status |-> "active"] \in relations
    BY <1>1
  <2> QED
    BY <2>1, <2>2 DEF Related
<1>5. ASSUME NEW d \in Datasets PROVE Follows(d)
  <2>1. \A i \in Images : <<d, i>> \in members <=> <<d, i>> \in S
    BY <1>2, TypesAssumption
  <2>2. \A a \in Annotations : <<d, a>> \in members <=> \E i \in Images : <<d, i>> \in S /\ <<a, i>> \in pairs
    <3> TAKE a \in Annotations
    <3>1. <<d, a>> \notin S
      BY <1>3, TypesAssumption
    <3> QED
      BY <1>2, <3>1
  <2>3. MembersOf(d) \intersect Annotations = {a \in Annotations : <<d, a>> \in members}
    BY DEF MembersOf, Members
  <2>4. \A i \in Images : i \in MembersOf(d) <=> <<d, i>> \in members
    BY DEF MembersOf, Members
  <2>5. Desired(d) = {a \in Annotations : \E i \in Images : <<d, i>> \in members /\ Related(a, i)}
    BY <1>3, <2>4 DEF Desired
  <2> QED
    BY <1>4, <2>1, <2>2, <2>3, <2>5 DEF Follows
<1>6. ASSUME NEW r \in Requests PROVE Current(req[r]) /\ HasLease(req[r], r)
  <2>1. req[r].at = "idle" /\ req[r].visit = NoDataset /\ req[r].kind = "none"
    BY DEF Init, NewRequest
  <2> QED
    BY <2>1, IdleIsCurrent DEF HasLease, Comparing
<1> QED
  BY <1>3, <1>5, <1>6 DEF FollowParts, OwnedOrFollows

(* Every dataset follows its images or has a request that will see to it,  *)
(* and what that request has read is still so.                             *)
LEMMA FollowInvariant == Spec => []FollowInv
<1>1. BaseInv /\ FollowInv /\ [Next]_vars => FollowInv'
  <2> SUFFICES ASSUME BaseInv, FollowInv, [Next]_vars, Followable' PROVE FollowParts'
    BY DEF FollowInv
  <2>1. CASE Next
    <3>1. PICK r \in Requests : Step(r)
      BY <2>1 DEF Next, Step
    <3>2. Followable
      BY <3>1, StepFrame DEF BaseInv, Followable, Alone
    <3>3. FollowParts
      BY <3>2 DEF FollowInv
    <3> QED
      BY <3>1, <3>2, <3>3, SynchroniseFollows, RelateFollows, ChangeMembersFollows, DeleteFollows, FailFollows
         DEF Step
  <2>2. CASE UNCHANGED vars
    <3>1. FollowParts
      BY <2>2 DEF FollowInv, Followable, Alone, vars
    <3>2. UNCHANGED <<archived, relations, datasets, members, writer, req>>
      BY <2>2 DEF vars
    <3>3. \A d : MembersOf(d)' = MembersOf(d) /\ Desired(d)' = Desired(d) /\ (Follows(d)' <=> Follows(d))
      BY <3>2 DEF MembersOf, Desired, Related, Follows
    <3>4. \A q, d : Owns(q, d)' <=> Owns(q, d)
      BY <3>2 DEF Owns
    <3>5. OwnedOrFollows'
      <4> SUFFICES ASSUME NEW d \in Datasets, datasets'[d] = "active"
                   PROVE  Follows(d)' \/ \E s \in Requests : Owns(req[s], d)'
        BY DEF OwnedOrFollows
      <4>1. Follows(d) \/ \E s \in Requests : Owns(req[s], d)
        BY <3>1, <3>2 DEF FollowParts, OwnedOrFollows
      <4>2. \A s \in Requests : Owns(req[s], d)' <=> Owns(req[s], d)
        BY <3>2 DEF Owns
      <4> QED
        BY <3>3, <4>1, <4>2
    <3>6. ASSUME NEW s \in Requests, NEW q, q = req'[s] PROVE Current(q)' /\ HasLease(q, s)'
      <4>1. Current(q) /\ HasLease(q, s)
        BY <3>1, <3>2, <3>6 DEF FollowParts
      <4>2. ToFollow(q)' /\ OwnsTodo(q)'
        BY <3>2, <3>3, <3>4, <4>1 DEF Current, ToFollow, OwnsTodo
      <4>3. VisitIsCurrent(q)'
        <5>1. PICK d : d = q.visit
          OBVIOUS
        <5>2. MembersOf(d)' = MembersOf(d) /\ Desired(d)' = Desired(d) /\ (Owns(q, d)' <=> Owns(q, d))
          BY <3>3, <3>4
        <5>3. VisitIsCurrent(q)
          BY <4>1 DEF Current
        <5> QED
          BY <5>1, <5>2, <5>3 DEF VisitIsCurrent
      <4> QED
        BY <3>2, <4>1, <4>2, <4>3 DEF Current, HasLease
    <3> QED
      BY <3>1, <3>2, <3>5, <3>6, FollowNext DEF FollowParts
  <2> QED
    BY <2>1, <2>2 DEF Next
<1> QED
  BY <1>1, FollowInit, BaseInvariant, PTL DEF Spec

(* When no request is busy, every dataset has exactly the annotations its  *)
(* images bring with them, for any library: whatever was created, matched, *)
(* revoked, added, removed or copied, and wherever a synchronisation       *)
(* failed and the write was taken back (sync_annotation_datasets and       *)
(* the except branches of its callers).                                    *)
THEOREM AnnotationsStayDerived == Spec => []AnnotationsFollow
<1>1. BaseInv /\ FollowInv => AnnotationsFollow
  <2> SUFFICES ASSUME BaseInv, FollowParts, Quiet, NEW d \in Datasets, datasets[d] = "active"
               PROVE  Follows(d)
    BY DEF FollowInv, Followable, AnnotationsFollow
  <2>1. ASSUME NEW s \in Requests PROVE ~Owns(req[s], d)
    <3>1. req[s].kind = "none" /\ req[s].at \in {"idle", "done"}
      BY KindsAreBusy DEF BaseInv, Quiet, Busy
    <3> QED
      BY <3>1 DEF Owns, Synced
  <2> QED
    BY <2>1 DEF FollowParts, OwnedOrFollows
<1> QED
  BY <1>1, BaseInvariant, FollowInvariant, PTL
=============================================================================
