------------------------- MODULE BundleImportProofs -------------------------
(***************************************************************************)
(* Proofs about BundleImport, for any archive, any number of runs and any  *)
(* environment: typing, what a successful import has made, that entries    *)
(* are not imported twice, and what a failed import leaves.                *)
(***************************************************************************)
EXTENDS BundleImport, FiniteSetTheorems, WellFoundedInduction, TLAPS

-----------------------------------------------------------------------------
(* What is imported, and in which order.                                   *)

(* What never changes after Init; a YOLO text is about one stem.           *)
ContentsInv ==
  /\ format \in {"YOLO", "documents", "unsupported"}
  /\ stem \in [Images -> Stems]
  /\ refs \in [Labels -> SUBSET Stems]
  /\ format = "YOLO" => \A l \in Labels : \E s \in Stems : refs[l] = {s}

(* A finite set of entries has a last one.                                 *)
Above(S, c) == {b \in S : c < b}

LEMMA LastExists ==
  ASSUME NEW S \in SUBSET Nat, IsFiniteSet(S), S # {}
  PROVE  Max(S) \in S
<1> DEFINE F == {Above(S, c) : c \in S}
<1>1. F \subseteq FiniteSubsetsOf(S)
  <2>1. \A c \in S : IsFiniteSet(Above(S, c)) /\ Above(S, c) \in SUBSET S
    BY FS_Subset DEF Above
  <2> QED BY <2>1 DEF FiniteSubsetsOf
<1>2. \E x \in F : \A y \in F : ~(<<y, x>> \in StrictSubsetOrdering(S))
  <2>1. F # {}
    OBVIOUS
  <2> HIDE DEF F
  <2> QED BY <1>1, <2>1, FS_StrictSubsetOrderingWellFounded, WFMin
<1>3. PICK c \in S : \A b \in S : ~(<<Above(S, b), Above(S, c)>> \in StrictSubsetOrdering(S))
  BY <1>2
<1>4. ASSUME NEW b \in S, c < b PROVE FALSE
  <2>1. ~(b < b) /\ \A a \in S : b < a => c < a
    BY <1>4
  <2>2. Above(S, b) \subseteq Above(S, c) /\ b \in Above(S, c) /\ b \notin Above(S, b)
    BY <1>4, <2>1 DEF Above
  <2>3. Above(S, b) \in SUBSET S /\ Above(S, c) \in SUBSET S /\ Above(S, b) # Above(S, c)
    BY <2>2 DEF Above
  <2>4. <<Above(S, b), Above(S, c)>> \in StrictSubsetOrdering(S)
    BY <2>2, <2>3 DEF StrictSubsetOrdering
  <2> QED BY <1>3, <2>4
<1>5. \A y \in S : c >= y
  BY <1>4
<1> QED BY <1>5 DEF Max

(* A set of natural numbers has a least one.                               *)
LEMMA LeastExists ==
  ASSUME NEW S \in SUBSET Nat, S # {}
  PROVE  \E m \in S : \A n \in S : m <= n
<1>1. PICK m \in S : \A n \in S : ~(<<n, m>> \in OpToRel(<, Nat))
  BY NatLessThanWellFounded, WFMin
<1>2. \A n \in S : ~(n < m)
  BY <1>1 DEF OpToRel
<1> QED BY <1>2

(* The pair of a stem consists of entries of this stem.                    *)
LEMMA PairsMatch ==
  ASSUME ContentsInv, NEW s \in YoloStems
  PROVE  /\ Pair(s).image \in Images /\ stem[Pair(s).image] = s
         /\ Pair(s).label \in Labels /\ s \in refs[Pair(s).label]
<1>1. Named(s) \in SUBSET Images /\ Named(s) # {} /\ About(s) \in SUBSET Labels /\ About(s) # {}
  BY DEF YoloStems, Named, About
<1>2. Named(s) \in SUBSET Nat /\ IsFiniteSet(Named(s)) /\ About(s) \in SUBSET Nat /\ IsFiniteSet(About(s))
  BY <1>1, EntriesAssumption, FS_Subset
<1>3. Max(Named(s)) \in Named(s) /\ Max(About(s)) \in About(s)
  BY <1>1, <1>2, LastExists
<1> QED BY <1>3 DEF Pair, Named, About

(* The plan is made of items, and its relations are pairs of the format.   *)
LEMMA PlanHasItems ==
  ASSUME ContentsInv
  PROVE  /\ Plan \subseteq Items
         /\ \A x \in Plan : (x.image # 0 => x.image \in Images) /\ (x.label # 0 => x.label \in Labels)
<1>1. CASE format = "YOLO"
  <2>1. \A s \in YoloStems : Pair(s).image \in Images /\ Pair(s).label \in Labels
    BY PairsMatch
  <2>2. \A s \in YoloStems : Pair(s) = [image |-> Pair(s).image, label |-> Pair(s).label]
    BY DEF Pair
  <2> QED BY <1>1, <2>1, <2>2 DEF Plan, YoloPlan, Items, ImageItem, LabelItem
<1>2. CASE format # "YOLO"
  <2>1. \A l \in Labels : Matches(l) \subseteq Images
    BY DEF Matches
  <2> QED BY <1>2, <2>1 DEF Plan, DocumentPlan, Items, ImageItem, LabelItem
<1> QED BY <1>1, <1>2

LEMMA PlannedRelations ==
  ASSUME ContentsInv, NEW x \in Plan, IsRelation(x)
  PROVE  IF format = "YOLO" THEN \E s \in YoloStems : x = Pair(s)
                            ELSE \E l \in Labels : \E i \in Matches(l) : x = [image |-> i, label |-> l]
BY DEF Plan, YoloPlan, DocumentPlan, IsRelation, ImageItem, LabelItem

LEMMA StemsOfPairs ==
  ASSUME ContentsInv, format = "YOLO", NEW s \in YoloStems
  PROVE  /\ StemOf(Pair(s)) = s /\ StemOf(ImageItem(Pair(s).image)) = s
         /\ StemOf(LabelItem(Pair(s).label)) = s
<1>1. /\ Pair(s).image \in Images /\ stem[Pair(s).image] = s
      /\ Pair(s).label \in Labels /\ s \in refs[Pair(s).label]
  BY PairsMatch
<1>2. Pair(s).image # 0
  BY <1>1, EntriesAssumption
<1>3. refs[Pair(s).label] = {s}
  BY <1>1 DEF ContentsInv
<1>4. (CHOOSE t \in {s} : TRUE) = s
  OBVIOUS
<1> QED BY <1>1, <1>2, <1>3, <1>4 DEF StemOf, ImageItem, LabelItem

(* A relation comes after both of its entries.                             *)
LEMMA RelationsComeLast ==
  ASSUME ContentsInv, NEW x \in Plan, IsRelation(x)
  PROVE  /\ ImageItem(x.image) \in Plan /\ ~Comes(x, ImageItem(x.image))
         /\ LabelItem(x.label) \in Plan /\ ~Comes(x, LabelItem(x.label))
<1>1. x.image \in Nat \ {0} /\ x.label \in Nat \ {0}
  BY PlanHasItems, EntriesAssumption DEF IsRelation
<1>2. ~NotAfter(x, ImageItem(x.image)) /\ ~NotAfter(x, LabelItem(x.label))
  BY <1>1 DEF NotAfter, ImageItem, LabelItem
<1>3. CASE format = "YOLO"
  <2>1. PICK s \in YoloStems : x = Pair(s)
    BY <1>3, PlannedRelations
  <2>2. ImageItem(x.image) \in Plan /\ LabelItem(x.label) \in Plan
    BY <1>3, <2>1 DEF Plan, YoloPlan
  <2> QED BY <1>2, <1>3, <2>1, <2>2, StemsOfPairs DEF Comes
<1>4. CASE format # "YOLO"
  <2>1. PICK l \in Labels : \E i \in Matches(l) : x = [image |-> i, label |-> l]
    BY <1>4, PlannedRelations
  <2>2. x.label = l /\ x.image \in Images
    BY <2>1 DEF Matches
  <2>3. ImageItem(x.image) \in Plan /\ LabelItem(x.label) \in Plan
    BY <1>4, <2>1, <2>2 DEF Plan, DocumentPlan
  <2> QED BY <1>2, <1>4, <2>3 DEF Comes
<1> QED BY <1>3, <1>4

(* An image is related to the annotations of one entry at most.            *)
LEMMA PlanHasOneSource ==
  ASSUME ContentsInv, NEW x \in Plan, NEW y \in Plan, IsRelation(x), IsRelation(y), x.image = y.image
  PROVE  x.label = y.label
<1>1. CASE format = "YOLO"
  <2>1. PICK s \in YoloStems : x = Pair(s)
    BY <1>1, PlannedRelations
  <2>2. PICK t \in YoloStems : y = Pair(t)
    BY <1>1, PlannedRelations
  <2>3. s = t
    BY <2>1, <2>2, PairsMatch
  <2> QED BY <2>1, <2>2, <2>3
<1>2. CASE format # "YOLO"
  <2>1. PICK l \in Labels : \E i \in Matches(l) : x = [image |-> i, label |-> l]
    BY <1>2, PlannedRelations
  <2>2. PICK m \in Labels : \E i \in Matches(m) : y = [image |-> i, label |-> m]
    BY <1>2, PlannedRelations
  <2>3. About(stem[x.image]) = {l} /\ About(stem[y.image]) = {m} /\ x.label = l /\ y.label = m
    BY <2>1, <2>2 DEF Matches
  <2> QED BY <2>3
<1> QED BY <1>1, <1>2

LEMMA LeastItemExists ==
  ASSUME NEW T \in SUBSET Items, T # {}
  PROVE  \E x \in T : \A y \in T : NotAfter(x, y)
<1>0. \A x \in T : x.image \in Nat /\ x.label \in Nat
  <2>1. \A x \in Items : x.image \in Images \union {0} /\ x.label \in Labels \union {0}
    BY DEF Items
  <2>2. Images \union {0} \subseteq Nat /\ Labels \union {0} \subseteq Nat
    BY EntriesAssumption
  <2>3. \A x \in Items : x.image \in Nat /\ x.label \in Nat
    BY <2>1, <2>2
  <2> QED BY <2>3
<1>1. PICK x \in T : \A y \in T : x.label <= y.label
  <2> DEFINE S == {y.label : y \in T}
  <2>1. S \in SUBSET Nat /\ S # {}
    BY <1>0
  <2>2. \E m \in S : \A n \in S : m <= n
    <3> HIDE DEF S
    <3> QED BY <2>1, LeastExists
  <2> QED BY <2>2
<1> DEFINE U == {y \in T : y.label = x.label}
<1>2. PICK z \in U : \A y \in U : z.image <= y.image
  <2> DEFINE S == {y.image : y \in U}
  <2>1. S \in SUBSET Nat /\ S # {}
    BY <1>0
  <2>2. \E m \in S : \A n \in S : m <= n
    <3> HIDE DEF S
    <3> QED BY <2>1, LeastExists
  <2> QED BY <2>2
<1>3. ASSUME NEW y \in T PROVE NotAfter(z, y)
  BY <1>0, <1>1, <1>2 DEF NotAfter
<1> QED BY <1>2, <1>3

(* What is left of a plan has a first item.                                *)
LEMMA FirstExists ==
  ASSUME ContentsInv, NEW T \in SUBSET Plan, T # {}
  PROVE  \E x \in T : \A y \in T : Comes(x, y)
<1>0. T \in SUBSET Items
  BY PlanHasItems
<1>1. CASE format # "YOLO"
  BY <1>0, <1>1, LeastItemExists DEF Comes
<1>2. CASE format = "YOLO"
  <2>1. ASSUME NEW x \in T PROVE StemOf(x) \in Nat
    <3>1. PICK s \in YoloStems : x \in {ImageItem(Pair(s).image), LabelItem(Pair(s).label), Pair(s)}
      BY <1>2 DEF Plan, YoloPlan
    <3>2. StemOf(x) = s
      BY <1>2, <3>1, StemsOfPairs
    <3> QED BY <3>2, EntriesAssumption DEF YoloStems
  <2>2. PICK x \in T : \A y \in T : StemOf(x) <= StemOf(y)
    <3> DEFINE S == {StemOf(y) : y \in T}
    <3>1. S \in SUBSET Nat /\ S # {}
      BY <2>1
    <3>2. \E m \in S : \A n \in S : m <= n
      <4> HIDE DEF S
      <4> QED BY <3>1, LeastExists
    <3> QED BY <3>2
  <2> DEFINE U == {y \in T : StemOf(y) = StemOf(x)}
  <2>3. PICK z \in U : \A y \in U : NotAfter(z, y)
    <3>1. U \in SUBSET Items /\ U # {}
      BY <1>0
    <3> HIDE DEF U
    <3> QED BY <3>1, LeastItemExists
  <2>4. ASSUME NEW y \in T PROVE Comes(z, y)
    BY <1>2, <2>1, <2>2, <2>3 DEF Comes
  <2> QED BY <2>3, <2>4
<1> QED BY <1>1, <1>2

LEMMA FirstItem ==
  ASSUME ContentsInv, NEW r \in Runs, run[r].todo \subseteq Plan, run[r].todo # {}
  PROVE  /\ Item(r) \in run[r].todo /\ Item(r) \in Items
         /\ IsRelation(Item(r)) => /\ ImageItem(Item(r).image) \in Plan \ run[r].todo
                                   /\ LabelItem(Item(r).label) \in Plan \ run[r].todo
<1>1. \E x \in run[r].todo : \A y \in run[r].todo : Comes(x, y)
  BY FirstExists
<1>2. Item(r) \in run[r].todo /\ \A y \in run[r].todo : Comes(Item(r), y)
  BY <1>1 DEF Item
<1> QED BY <1>2, PlanHasItems, RelationsComeLast

-----------------------------------------------------------------------------
(* Typing, and what a run knows.                                           *)

Importing(r) == run[r].at \in ImportSteps
InRollback(r) == run[r].at \in RollbackSteps

(* A run works on what its step is for, and has an asset of every entry    *)
(* that it has done with.                                                  *)
Progress(r) ==
  /\ run[r].todo \subseteq Plan
  /\ run[r].at \in {"waiting", "inspecting"} => run[r].known = {}
  /\ run[r].at \in {"storing", "previewing", "inserting"} => run[r].todo # {} /\ ~IsRelation(Item(r))
  /\ run[r].at = "relating" => run[r].todo # {} /\ IsRelation(Item(r))
  /\ Importing(r) => \A x \in Plan \ run[r].todo : ~IsRelation(x) => \E a \in run[r].known : a.item = x

(* An imported relation is one of the plan.                                *)
Match(x) == [image |-> x.target.item.image, label |-> x.source.item.label]
MatchesInv ==
  \A x \in relations : x.provenance = "cvat_import" =>
    /\ Match(x) \in Plan /\ IsRelation(Match(x))
    /\ x.target.item = ImageItem(Match(x).image) /\ x.source.item = LabelItem(Match(x).label)

TypeInv == TypeOK /\ ContentsInv /\ (\A r \in Runs : Progress(r)) /\ MatchesInv

LEMMA AtSets ==
  ASSUME NEW r \in Runs, NEW s \in Steps, run \in [Runs -> Run], At(r, s)
  PROVE  /\ run' \in [Runs -> Run]
         /\ run'[r].at = s /\ run'[r].todo = run[r].todo /\ run'[r].known = run[r].known
         /\ run'[r].listed = run[r].listed /\ run'[r].files = run[r].files
         /\ \A q \in Runs \ {r} : run'[q] = run[q]
BY DEF At, Run

LEMMA ProceedSets ==
  ASSUME NEW r \in Runs, NEW found \in SUBSET Assets, run \in [Runs -> Run], Proceed(r, found)
  PROVE  /\ run' \in [Runs -> Run]
         /\ run'[r].at = "importing" /\ run'[r].todo = run[r].todo \ {Item(r)}
         /\ run'[r].known = run[r].known \union found
         /\ run'[r].listed = run[r].listed /\ run'[r].files = run[r].files
         /\ \A q \in Runs \ {r} : run'[q] = run[q]
<1>1. "importing" \in Steps
  BY DEF Steps, LiveSteps, ImportSteps
<1> QED BY <1>1 DEF Proceed, Run

(* The archive stays what it is, and with it the plan of every run.        *)
LEMMA PlanStays ==
  ASSUME [Next]_vars
  PROVE  /\ UNCHANGED <<events, format, stem, refs>> /\ Plan' = Plan
         /\ \A r \in Runs : run'[r].todo = run[r].todo => Item(r)' = Item(r)
<1>1. UNCHANGED <<events, format, stem, refs>>
  <2>1. ASSUME NEW r \in Runs, RunNext(r) PROVE UNCHANGED <<events, format, stem, refs>>
    BY <2>1 DEF RunNext, contents, Claim, Inspect, FindAsset, StoreObject, StorePreview, InsertAsset,
                FindRelation, InsertRelation, Raise, ListImported, RemoveFiles, DeleteRelations,
                DeleteAssets, UndoRaises, RemoveArchive, DeleteArchive, Succeed, RaiseLate, FailJob, Crash
  <2> QED BY <2>1 DEF Next, GiveUp, Revoke, Relate, vars, contents
<1>2. Plan' = Plan
  BY <1>1 DEF Plan, YoloPlan, DocumentPlan, YoloStems, Pair, Matches, Named, About
<1>3. \A r \in Runs : run'[r].todo = run[r].todo => Item(r)' = Item(r)
  BY <1>1 DEF Item, Comes, StemOf
<1> QED BY <1>1, <1>2, <1>3

LEMMA ProgressStays ==
  ASSUME [Next]_vars, NEW q \in Runs, run'[q] = run[q], Progress(q)
  PROVE  Progress(q)'
<1>1. Plan' = Plan /\ Item(q)' = Item(q)
  BY PlanStays
<1> QED BY <1>1 DEF Progress, Importing

LEMMA NewIsAsset ==
  ASSUME TypeInv, NEW r \in Runs, run[r].at \in {"storing", "previewing", "inserting"}
  PROVE  New(r) \in Assets /\ New(r).item = Item(r) /\ New(r).run = r
<1>1. Item(r) \in Items /\ ~IsRelation(Item(r))
  BY FirstItem DEF TypeInv, Progress
<1> QED BY <1>1 DEF New, Assets

LEMMA EndsAreKnown ==
  ASSUME TypeInv, NEW r \in Runs, Importing(r), run[r].todo # {}, IsRelation(Item(r))
  PROVE  /\ Source(r) \in run[r].known /\ Source(r).item = LabelItem(Item(r).label)
         /\ Target(r) \in run[r].known /\ Target(r).item = ImageItem(Item(r).image)
         /\ Source(r) \in Assets /\ Target(r) \in Assets
         /\ Item(r) \in Plan /\ Item(r) = [image |-> Item(r).image, label |-> Item(r).label]
<1>1. /\ ImageItem(Item(r).image) \in Plan \ run[r].todo
      /\ LabelItem(Item(r).label) \in Plan \ run[r].todo
      /\ Item(r) \in Plan /\ Item(r) \in Items
  BY FirstItem DEF TypeInv, Progress
<1>2. ~IsRelation(ImageItem(Item(r).image)) /\ ~IsRelation(LabelItem(Item(r).label))
  BY DEF IsRelation, ImageItem, LabelItem
<1>3. /\ \E a \in run[r].known : a.item = ImageItem(Item(r).image)
      /\ \E a \in run[r].known : a.item = LabelItem(Item(r).label)
  BY <1>1, <1>2 DEF TypeInv, Progress
<1>4. run[r].known \subseteq Assets
  BY DEF TypeInv, TypeOK, Run
<1> QED BY <1>1, <1>3, <1>4 DEF Source, Target, Asset, Items

LEMMA TypeInit == Init => TypeInv
<1> SUFFICES ASSUME Init PROVE TypeInv
  OBVIOUS
<1>1. ContentsInv
  BY DEF Init, ContentsInv
<1>2. \A r \in Runs : run[r] = [at |-> "waiting", todo |-> {}, known |-> {}, listed |-> {}, files |-> {}]
  BY DEF Init
<1>3. run \in [Runs -> Run]
  BY DEF Init, Run, Steps
<1>4. TypeOK
  BY <1>3 DEF Init, TypeOK
<1>5. \A r \in Runs : Progress(r)
  BY <1>2 DEF Progress, Importing, ImportSteps
<1> QED BY <1>1, <1>4, <1>5 DEF TypeInv, MatchesInv, Init

(* One step of a run.                                                      *)
LEMMA RunTypes ==
  ASSUME TypeInv, NEW r \in Runs, RunNext(r)
  PROVE  /\ run' \in [Runs -> Run] /\ \A q \in Runs \ {r} : run'[q] = run[q]
         /\ Progress(r)'
<1>n. [Next]_vars
  BY DEF Next
<1>0. run \in [Runs -> Run] /\ Progress(r) /\ ContentsInv /\ assets \in SUBSET Assets
  BY DEF TypeInv, TypeOK
<1>p. Plan' = Plan /\ (run'[r].todo = run[r].todo => Item(r)' = Item(r))
  BY <1>n, PlanStays
<1> DEFINE G == /\ run' \in [Runs -> Run] /\ \A q \in Runs \ {r} : run'[q] = run[q]
                /\ Progress(r)'
<1>a. ASSUME NEW s \in Steps \ ImportSteps, At(r, s),
             s \in {"waiting", "inspecting"} => run[r].at = "waiting" PROVE G
  <2>1. /\ run' \in [Runs -> Run] /\ \A q \in Runs \ {r} : run'[q] = run[q]
        /\ run'[r].at = s /\ run'[r].todo = run[r].todo /\ run'[r].known = run[r].known
    BY <1>0, <1>a, AtSets
  <2>2. run'[r].at \in {"waiting", "inspecting"} => run'[r].known = {}
    BY <1>0, <1>a, <2>1 DEF Progress
  <2>3. run'[r].at \notin {"importing", "storing", "previewing", "inserting", "relating"}
    BY <2>1 DEF ImportSteps
  <2>4. Progress(r)'
    BY <1>0, <1>p, <2>1, <2>2, <2>3 DEF Progress, Importing, ImportSteps
  <2> QED BY <2>1, <2>4
<1>b. ASSUME NEW s \in ImportSteps \ {"importing"}, At(r, s), Importing(r), run[r].todo # {},
             s = "relating" <=> IsRelation(Item(r)) PROVE G
  <2>0. s \in Steps
    BY DEF Steps, LiveSteps
  <2>1. /\ run' \in [Runs -> Run] /\ \A q \in Runs \ {r} : run'[q] = run[q]
        /\ run'[r].at = s /\ run'[r].todo = run[r].todo /\ run'[r].known = run[r].known
    BY <1>0, <1>b, <2>0, AtSets
  <2> QED BY <1>0, <1>b, <1>p, <2>1 DEF Progress, Importing, ImportSteps
<1>c. ASSUME NEW found \in SUBSET Assets, Proceed(r, found), Importing(r), run[r].todo # {},
             ~IsRelation(Item(r)) => \E a \in found : a.item = Item(r) PROVE G
  <2>1. /\ run' \in [Runs -> Run] /\ \A q \in Runs \ {r} : run'[q] = run[q]
        /\ run'[r].at = "importing" /\ run'[r].todo = run[r].todo \ {Item(r)}
        /\ run'[r].known = run[r].known \union found
    BY <1>0, <1>c, ProceedSets
  <2>2. \A x \in Plan \ (run[r].todo \ {Item(r)}) : ~IsRelation(x) =>
          \E a \in run[r].known \union found : a.item = x
    BY <1>0, <1>c DEF Progress
  <2> QED BY <1>0, <1>p, <2>1, <2>2 DEF Progress, Importing, ImportSteps
<1> SUFFICES G
  OBVIOUS
<1> HIDE DEF G
<1> USE DEF Steps, LiveSteps, ImportSteps, RollbackSteps, LateSteps
<1>1. CASE Claim(r)
  BY <1>1, <1>a DEF Claim
<1>2. CASE Inspect(r)
  <2>1. CASE archive = "stored" /\ format # "unsupported"
    <3>0. Plan \in SUBSET Items
      BY <1>0, PlanHasItems
    <3>1. run' = [run EXCEPT ![r].at = "importing", ![r].todo = Plan]
      BY <1>2, <2>1 DEF Inspect
    <3> DEFINE R == [run[r] EXCEPT !.at = "importing", !.todo = Plan]
    <3>2. run' \in [Runs -> Run] /\ \A q \in Runs \ {r} : run'[q] = run[q]
      <4>1. run' = [run EXCEPT ![r] = R]
        BY <3>1
      <4>2. R \in Run
        BY <1>0, <3>0 DEF Run
      <4> HIDE DEF R
      <4> QED BY <1>0, <4>1, <4>2
    <3>3. run'[r].at = "importing" /\ run'[r].todo = Plan
      BY <1>0, <3>1 DEF Run
    <3> QED BY <1>p, <3>2, <3>3 DEF G, Progress, Importing
  <2>2. CASE ~(archive = "stored" /\ format # "unsupported")
    BY <1>2, <1>a, <2>2 DEF Inspect
  <2> QED BY <2>1, <2>2
<1>3. CASE FindAsset(r)
  <2>1. run[r].at = "importing" /\ run[r].todo # {} /\ ~IsRelation(Item(r)) /\ Importing(r)
    BY <1>3 DEF FindAsset, Importing
  <2>2. CASE Find(r) = {}
    BY <1>3, <1>b, <2>1, <2>2 DEF FindAsset
  <2>3. CASE Find(r) # {}
    <3>1. PICK a \in Find(r) : Proceed(r, {a})
      BY <1>3, <2>3 DEF FindAsset
    <3>2. a \in Assets /\ a.item = Item(r)
      BY <1>0, <3>1 DEF Find
    <3>3. {a} \in SUBSET Assets /\ \E b \in {a} : b.item = Item(r)
      BY <3>2
    <3> QED BY <1>c, <2>1, <3>1, <3>3
  <2> QED BY <2>2, <2>3
<1>4. CASE StoreObject(r)
  <2>1. run[r].at = "storing" /\ run[r].todo # {} /\ ~IsRelation(Item(r)) /\ Importing(r)
    BY <1>0, <1>4 DEF StoreObject, Importing, Progress
  <2> QED BY <1>4, <1>b, <2>1 DEF StoreObject
<1>5. CASE StorePreview(r)
  <2>1. run[r].at = "previewing" /\ run[r].todo # {} /\ ~IsRelation(Item(r)) /\ Importing(r)
    BY <1>0, <1>5 DEF StorePreview, Importing, Progress
  <2> QED BY <1>5, <1>b, <2>1 DEF StorePreview
<1>6. CASE InsertAsset(r)
  <2>1. run[r].at = "inserting" /\ run[r].todo # {} /\ Importing(r) /\ Proceed(r, {New(r)})
    BY <1>0, <1>6 DEF InsertAsset, Importing, Progress
  <2>2. {New(r)} \in SUBSET Assets /\ \E a \in {New(r)} : a.item = Item(r)
    BY <2>1, NewIsAsset
  <2> QED BY <1>c, <2>1, <2>2
<1>7. CASE FindRelation(r)
  <2>1. run[r].at = "importing" /\ run[r].todo # {} /\ IsRelation(Item(r)) /\ Importing(r)
    BY <1>7 DEF FindRelation, Importing
  <2>2. CASE Proceed(r, {})
    <3>1. {} \in SUBSET Assets
      OBVIOUS
    <3> QED BY <1>c, <2>1, <2>2, <3>1
  <2>3. CASE At(r, "relating")
    BY <1>b, <2>1, <2>3
  <2> QED BY <1>7, <2>2, <2>3 DEF FindRelation
<1>8. CASE InsertRelation(r)
  <2>1. run[r].at = "relating" /\ run[r].todo # {} /\ IsRelation(Item(r)) /\ Importing(r)
    BY <1>0, <1>8 DEF InsertRelation, Importing, Progress
  <2>2. CASE Proceed(r, {})
    <3>1. {} \in SUBSET Assets
      OBVIOUS
    <3> QED BY <1>c, <2>1, <2>2, <3>1
  <2>3. CASE At(r, "listing")
    BY <1>a, <2>3
  <2> QED BY <1>8, <2>2, <2>3 DEF InsertRelation
<1>9. CASE Raise(r)
  BY <1>9, <1>a DEF Raise
<1>10. CASE ListImported(r)
  <2>1. run' = [run EXCEPT ![r].at = "removing", ![r].listed = assets, ![r].files = assets]
    BY <1>10 DEF ListImported
  <2> DEFINE R == [run[r] EXCEPT !.at = "removing", !.listed = assets, !.files = assets]
  <2>2. run' \in [Runs -> Run] /\ \A q \in Runs \ {r} : run'[q] = run[q]
    <3>1. run' = [run EXCEPT ![r] = R]
      BY <2>1
    <3>2. R \in Run
      BY <1>0 DEF Run
    <3> HIDE DEF R
    <3> QED BY <1>0, <3>1, <3>2
  <2>3. run'[r].at = "removing" /\ run'[r].todo = run[r].todo
    BY <1>0, <2>1 DEF Run
  <2> QED BY <1>0, <1>p, <2>2, <2>3 DEF G, Progress, Importing
<1>11. CASE RemoveFiles(r)
  <2>1. PICK F \in SUBSET Assets : run' = [run EXCEPT ![r].files = F]
    <3>1. run[r].files \in SUBSET Assets
      BY <1>0 DEF Run
    <3>2. \E a \in run[r].files : \/ run' = [run EXCEPT ![r].files = @ \ {a}]
                                  \/ run' = [run EXCEPT ![r].files = {}]
      BY <1>11 DEF RemoveFiles
    <3>3. \E a \in run[r].files : \/ run' = [run EXCEPT ![r].files = run[r].files \ {a}]
                                  \/ run' = [run EXCEPT ![r].files = {}]
      BY <1>0, <3>2
    <3> QED BY <3>1, <3>3
  <2>2. run' \in [Runs -> Run] /\ \A q \in Runs \ {r} : run'[q] = run[q]
    BY <1>0, <2>1 DEF Run
  <2>3. run'[r].at = run[r].at /\ run'[r].todo = run[r].todo /\ run[r].at = "removing"
    BY <1>0, <1>11, <2>1 DEF Run, RemoveFiles
  <2> QED BY <1>0, <1>p, <2>2, <2>3 DEF G, Progress, Importing
<1>12. CASE DeleteRelations(r) \/ DeleteAssets(r) \/ UndoRaises(r)
  BY <1>12, <1>a DEF DeleteRelations, DeleteAssets, UndoRaises
<1>13. CASE RemoveArchive(r) \/ DeleteArchive(r) \/ Succeed(r) \/ RaiseLate(r) \/ FailJob(r) \/ Crash(r)
  BY <1>13, <1>a DEF RemoveArchive, DeleteArchive, Succeed, RaiseLate, FailJob, Crash
<1> QED
  BY <1>1, <1>2, <1>3, <1>4, <1>5, <1>6, <1>7, <1>8, <1>9, <1>10, <1>11, <1>12, <1>13 DEF RunNext

(* A row that the import inserts.                                          *)
Inserted(r) ==
  [source |-> Source(r), target |-> Target(r), revision |-> 1,
   status |-> "active", provenance |-> "cvat_import"]

LEMMA InsertedIsRow ==
  ASSUME TypeInv, NEW r \in Runs, run[r].at = "relating"
  PROVE  /\ Inserted(r) \in Row /\ Match(Inserted(r)) = Item(r) /\ IsRelation(Item(r))
         /\ Item(r) \in Plan
         /\ Inserted(r).target.item = ImageItem(Match(Inserted(r)).image)
         /\ Inserted(r).source.item = LabelItem(Match(Inserted(r)).label)
<1>1. Importing(r) /\ run[r].todo # {} /\ IsRelation(Item(r))
  BY DEF TypeInv, Progress, Importing, ImportSteps
<1>2. /\ Source(r) \in Assets /\ Source(r).item = LabelItem(Item(r).label)
      /\ Target(r) \in Assets /\ Target(r).item = ImageItem(Item(r).image)
      /\ Item(r) \in Plan /\ Item(r) = [image |-> Item(r).image, label |-> Item(r).label]
  BY <1>1, EndsAreKnown
<1>3. 1 \in 1..Revisions
  BY RowsAssumption
<1>4. Match(Inserted(r)) = Item(r)
  BY <1>2 DEF Match, Inserted, ImageItem, LabelItem
<1>5. Inserted(r) \in Row
  BY <1>2, <1>3 DEF Inserted, Row
<1> QED BY <1>1, <1>2, <1>4, <1>5 DEF Inserted

(* Rows change their status only.                                          *)
LEMMA RevokedRow ==
  ASSUME TypeInv, Revoke
  PROVE  \E x \in relations :
           LET y == [x EXCEPT !.status = "revoked"]
           IN  /\ relations' = (relations \ {x}) \union {y}
               /\ y \in Row /\ y.source = x.source /\ y.target = x.target
               /\ y.provenance = x.provenance /\ y.revision = x.revision
<1>1. PICK x \in relations : relations' = (relations \ {x}) \union {[x EXCEPT !.status = "revoked"]}
  BY DEF Revoke
<1>2. x \in Row
  BY DEF TypeInv, TypeOK
<1> QED BY <1>1, <1>2 DEF Row

LEMMA RelatedRow ==
  ASSUME TypeInv, Relate
  PROVE  \E y \in Row : /\ relations' = relations \union {y} /\ y.provenance = "user"
                        /\ {y.source, y.target} \subseteq assets
<1> DEFINE Next1(a, b) == Max({0} \union {x.revision : x \in Rows(a, b)}) + 1
<1>1. PICK a \in assets, b \in assets :
        /\ Next1(a, b) <= Revisions
        /\ relations' = relations \union
             {[source |-> a, target |-> b, revision |-> Next1(a, b), status |-> "active", provenance |-> "user"]}
  BY DEF Relate
<1>2. Next1(a, b) \in 1..Revisions
  <2> DEFINE S == {0} \union {x.revision : x \in Rows(a, b)}
  <2>1. S \in SUBSET (0..Revisions)
    BY RowsAssumption DEF Rows, TypeInv, TypeOK, Row
  <2>2. S \in SUBSET Nat /\ IsFiniteSet(S) /\ S # {}
    <3>1. IsFiniteSet(0..Revisions)
      BY RowsAssumption, FS_Interval
    <3> QED BY <2>1, <3>1, FS_Subset, RowsAssumption
  <2>3. Max(S) \in Nat
    <3> HIDE DEF S
    <3> QED BY <2>2, LastExists
  <2> QED BY <1>1, <2>3, RowsAssumption
<1>3. a \in Assets /\ b \in Assets
  BY DEF TypeInv, TypeOK
<1> DEFINE y == [source |-> a, target |-> b, revision |-> Next1(a, b), status |-> "active", provenance |-> "user"]
<1>4. y \in Row
  BY <1>2, <1>3 DEF Row
<1>5. y.provenance = "user" /\ y.source = a /\ y.target = b
  OBVIOUS
<1> QED BY <1>1, <1>4, <1>5

LEMMA MatchesStep ==
  ASSUME TypeInv, [Next]_vars
  PROVE  relations' \subseteq Row /\ MatchesInv'
<1>0. relations \subseteq Row /\ MatchesInv /\ Plan' = Plan
  BY PlanStays DEF TypeInv, TypeOK
<1> DEFINE Planned(x) == x.provenance = "cvat_import" =>
             /\ Match(x) \in Plan /\ IsRelation(Match(x))
             /\ x.target.item = ImageItem(Match(x).image) /\ x.source.item = LabelItem(Match(x).label)
<1>a. ASSUME NEW y \in Row, Planned(y), relations' \subseteq relations \union {y}
      PROVE  relations' \subseteq Row /\ MatchesInv'
  BY <1>0, <1>a DEF MatchesInv, Match
<1>b. ASSUME relations' \subseteq relations PROVE relations' \subseteq Row /\ MatchesInv'
  BY <1>0, <1>b DEF MatchesInv, Match
<1>1. ASSUME NEW r \in Runs, RunNext(r)
      PROVE  relations' \subseteq Row /\ MatchesInv'
  <2>1. CASE InsertRelation(r)
    <3>1. relations' \subseteq relations \union {Inserted(r)} /\ run[r].at = "relating"
      BY <2>1 DEF InsertRelation, Inserted
    <3>2. Inserted(r) \in Row /\ Planned(Inserted(r))
      BY <3>1, InsertedIsRow
    <3> QED BY <1>a, <3>1, <3>2
  <2>2. CASE ~InsertRelation(r)
    <3>1. relations' \subseteq relations
      BY <1>1, <2>2 DEF RunNext, imported, Claim, Inspect, FindAsset, StoreObject, StorePreview, InsertAsset,
                FindRelation, Raise, ListImported, RemoveFiles, DeleteRelations,
                DeleteAssets, UndoRaises, RemoveArchive, DeleteArchive, Succeed, RaiseLate, FailJob, Crash
    <3> QED BY <1>b, <3>1
  <2> QED BY <2>1, <2>2
<1>2. CASE Revoke
  <2>1. PICK x \in relations, y \in Row :
          /\ relations' = (relations \ {x}) \union {y}
          /\ y.source = x.source /\ y.target = x.target /\ y.provenance = x.provenance
    BY <1>2, RevokedRow
  <2>2. Planned(y)
    BY <1>0, <2>1 DEF MatchesInv, Match
  <2> QED BY <1>a, <2>1, <2>2
<1>3. CASE Relate
  <2>1. PICK y \in Row : relations' = relations \union {y} /\ y.provenance = "user"
    BY <1>3, RelatedRow
  <2> QED BY <1>a, <2>1
<1>4. CASE GiveUp \/ UNCHANGED vars
  BY <1>4, <1>b DEF GiveUp, imported, vars
<1> QED BY <1>1, <1>2, <1>3, <1>4 DEF Next

LEMMA TypeStep == TypeInv /\ [Next]_vars => TypeInv'
<1> SUFFICES ASSUME TypeInv, [Next]_vars PROVE TypeInv'
  OBVIOUS
<1>1. relations' \subseteq Row /\ MatchesInv'
  BY MatchesStep
<1>2. UNCHANGED <<events, format, stem, refs>> /\ ContentsInv'
  BY PlanStays DEF TypeInv, ContentsInv
<1>3. run' \in [Runs -> Run] /\ \A q \in Runs : Progress(q)'
  <2>1. ASSUME NEW r \in Runs, RunNext(r) PROVE run' \in [Runs -> Run] /\ \A q \in Runs : Progress(q)'
    BY <2>1, RunTypes, ProgressStays DEF TypeInv
  <2>2. CASE run' = run
    BY <2>2, ProgressStays DEF TypeInv, TypeOK
  <2> QED BY <2>1, <2>2 DEF Next, GiveUp, Revoke, Relate, vars
<1>4. /\ archive' \in {"stored", "removed", "deleted"}
      /\ job' \in {"queued", "running", "succeeded", "failed"}
      /\ assets' \subseteq Assets /\ objects' \subseteq Assets /\ previews' \subseteq Assets
  <2> USE DEF TypeInv, TypeOK, imported
  <2>1. ASSUME NEW r \in Runs, RunNext(r)
        PROVE  /\ archive' \in {"stored", "removed", "deleted"}
               /\ job' \in {"queued", "running", "succeeded", "failed"}
               /\ assets' \subseteq Assets /\ objects' \subseteq Assets /\ previews' \subseteq Assets
    <3>1. CASE StoreObject(r) \/ StorePreview(r) \/ InsertAsset(r)
      BY <3>1, NewIsAsset DEF StoreObject, StorePreview, InsertAsset
    <3>2. CASE RemoveFiles(r)
      BY <3>2 DEF RemoveFiles
    <3>3. CASE ~(StoreObject(r) \/ StorePreview(r) \/ InsertAsset(r) \/ RemoveFiles(r))
      BY <2>1, <3>3 DEF RunNext, Claim, Inspect, FindAsset,
                FindRelation, InsertRelation, Raise, ListImported, DeleteRelations,
                DeleteAssets, UndoRaises, RemoveArchive, DeleteArchive, Succeed, RaiseLate, FailJob, Crash
    <3> QED BY <3>1, <3>2, <3>3
  <2> QED BY <2>1 DEF Next, GiveUp, Revoke, Relate, vars
<1> QED BY <1>1, <1>2, <1>3, <1>4 DEF TypeInv, TypeOK

LEMMA TypeInvariant == Spec => []TypeInv
BY TypeInit, TypeStep, PTL DEF Spec

(* Everything keeps its type; above all every step of a run has an item    *)
(* that it is for, and a relation is only inserted when both its assets    *)
(* are known.                                                              *)
THEOREM TypeCorrect == Spec => []TypeOK
<1>1. TypeInv => TypeOK
  BY DEF TypeInv
<1> QED BY <1>1, TypeInvariant, PTL

-----------------------------------------------------------------------------
(* One run at a time, as long as none loses its heartbeat.                 *)

AloneInv ==
  "stall" \notin events =>
    /\ \A r \in Runs : Live(r) => job = "running"
    /\ \A r, q \in Runs : Live(r) /\ Live(q) => r = q
    /\ \A r \in Runs : Importing(r) => run[r].known \subseteq assets
    /\ \A r \in Runs : run[r].at \in {"removing", "deleting"} => assets \subseteq run[r].listed

(* What a step does to its run, besides its effect on the database.        *)
Same(r) ==
  /\ run'[r].todo = run[r].todo /\ run'[r].known = run[r].known
  /\ run'[r].listed = run[r].listed /\ run'[r].files = run[r].files

LEMMA AtEffect ==
  ASSUME TypeInv, NEW r \in Runs
  PROVE  \A s \in Steps : At(r, s) => run'[r].at = s /\ Same(r)
BY AtSets DEF TypeInv, TypeOK, Same

LEMMA ProceedEffect ==
  ASSUME TypeInv, NEW r \in Runs
  PROVE  \A found \in SUBSET Assets : Proceed(r, found) =>
           /\ run'[r].at = "importing" /\ run'[r].todo = run[r].todo \ {Item(r)}
           /\ run'[r].known = run[r].known \union found
           /\ run'[r].listed = run[r].listed /\ run'[r].files = run[r].files
BY ProceedSets DEF TypeInv, TypeOK

LEMMA InspectEffect ==
  ASSUME TypeInv, NEW r \in Runs, Inspect(r)
  PROVE  \/ /\ archive = "stored" /\ run'[r].at = "importing" /\ run'[r].todo = Plan
            /\ run'[r].known = run[r].known
         \/ run'[r].at = "failing" /\ Same(r)
<1>0. run \in [Runs -> Run] /\ "failing" \in Steps
  BY DEF TypeInv, TypeOK, Steps, LiveSteps
<1>1. CASE archive = "stored" /\ format # "unsupported"
  <2>1. run' = [run EXCEPT ![r].at = "importing", ![r].todo = Plan]
    BY <1>1 DEF Inspect
  <2> QED BY <1>0, <1>1, <2>1 DEF Run
<1>2. CASE ~(archive = "stored" /\ format # "unsupported")
  BY <1>0, <1>2, AtEffect DEF Inspect
<1> QED BY <1>1, <1>2

LEMMA ListEffect ==
  ASSUME TypeInv, NEW r \in Runs, ListImported(r)
  PROVE  /\ run'[r].at = "removing" /\ run'[r].listed = assets /\ run'[r].files = assets
         /\ run'[r].todo = run[r].todo /\ run'[r].known = run[r].known
<1>1. run \in [Runs -> Run]
  BY DEF TypeInv, TypeOK
<1>2. run' = [run EXCEPT ![r].at = "removing", ![r].listed = assets, ![r].files = assets]
  BY DEF ListImported
<1> QED BY <1>1, <1>2 DEF Run

LEMMA RemoveEffect ==
  ASSUME TypeInv, NEW r \in Runs, RemoveFiles(r)
  PROVE  /\ run[r].at = "removing" /\ run'[r].at = "removing" /\ run'[r].listed = run[r].listed
         /\ run'[r].todo = run[r].todo /\ run'[r].known = run[r].known
         /\ \/ \E a \in run[r].files : /\ run'[r].files = run[r].files \ {a}
                                       /\ objects' = objects \ {a} /\ previews' = previews \ {a}
            \/ "undo_error" \in events /\ run'[r].files = {} /\ UNCHANGED <<objects, previews>>
<1>1. run \in [Runs -> Run]
  BY DEF TypeInv, TypeOK
<1>2. PICK a \in run[r].files :
        \/ /\ run' = [run EXCEPT ![r].files = @ \ {a}]
           /\ objects' = objects \ {a} /\ previews' = previews \ {a}
        \/ "undo_error" \in events /\ run' = [run EXCEPT ![r].files = {}] /\ UNCHANGED <<objects, previews>>
  BY DEF RemoveFiles
<1>3. CASE run' = [run EXCEPT ![r].files = @ \ {a}] /\ objects' = objects \ {a} /\ previews' = previews \ {a}
  <2>1. run[r].at = "removing"
    BY DEF RemoveFiles
  <2> QED BY <1>1, <1>2, <1>3, <2>1 DEF Run
<1>4. CASE "undo_error" \in events /\ run' = [run EXCEPT ![r].files = {}] /\ UNCHANGED <<objects, previews>>
  <2>1. run[r].at = "removing"
    BY DEF RemoveFiles
  <2> QED BY <1>1, <1>2, <1>4, <2>1 DEF Run
<1> QED BY <1>2, <1>3, <1>4

(* The other runs neither move nor are under way.                          *)
LEMMA OthersRest ==
  ASSUME TypeInv, AloneInv, NEW r \in Runs, RunNext(r), "stall" \notin events
  PROVE  /\ \A q \in Runs \ {r} : run'[q] = run[q] /\ ~Live(q)
         /\ Claim(r) \/ (Live(r) /\ job = "running")
<1>1. \A q \in Runs \ {r} : run'[q] = run[q]
  BY RunTypes
<1>2. CASE Claim(r)
  BY <1>1, <1>2 DEF AloneInv, Claim
<1>3. CASE ~Claim(r)
  <2>1. Live(r)
    BY <1>3 DEF RunNext, Inspect, FindAsset, StoreObject, StorePreview, InsertAsset,
                FindRelation, InsertRelation, Raise, ListImported, RemoveFiles, DeleteRelations,
                DeleteAssets, UndoRaises, RemoveArchive, DeleteArchive, Succeed, RaiseLate, FailJob, Crash,
                Live, LiveSteps, ImportSteps, RollbackSteps, LateSteps
  <2> QED BY <1>1, <2>1 DEF AloneInv
<1> QED BY <1>2, <1>3

LEMMA AloneInit == Init => AloneInv
BY DEF Init, AloneInv, Live, LiveSteps, Importing, ImportSteps, RollbackSteps, LateSteps

LEMMA AloneStep == TypeInv /\ AloneInv /\ [Next]_vars => AloneInv'
<1> SUFFICES ASSUME TypeInv, AloneInv, [Next]_vars, "stall" \notin events PROVE AloneInv'
  BY PlanStays DEF AloneInv
<1> DEFINE Knows(r) == Importing(r) => run[r].known \subseteq assets
           Lists(r) == run[r].at \in {"removing", "deleting"} => assets \subseteq run[r].listed
<1> USE DEF Steps, LiveSteps, ImportSteps, RollbackSteps, LateSteps
<1>1. ASSUME NEW r \in Runs, RunNext(r) PROVE AloneInv'
  <2>0. /\ \A q \in Runs \ {r} : run'[q] = run[q] /\ ~Live(q)
        /\ Claim(r) \/ (Live(r) /\ job = "running")
    BY <1>1, OthersRest
  <2> SUFFICES (Live(r)' => job' = "running") /\ Knows(r)' /\ Lists(r)'
    <3>1. \A q \in Runs \ {r} : ~Live(q)'
      BY <2>0 DEF Live
    <3>2. \A q \in Runs \ {r} : Knows(q)' /\ Lists(q)'
      BY <3>1 DEF Live, Importing
    <3> QED BY <3>1, <3>2 DEF AloneInv
  <2>1. Knows(r) /\ Lists(r)
    BY DEF AloneInv
  <2> USE DEF Live, Importing
  <2>2. CASE Claim(r)
    BY <2>2, AtEffect DEF Claim
  <2>3. CASE Inspect(r)
    <3>1. run[r].known = {}
      BY <2>3 DEF TypeInv, Progress, Inspect
    <3> QED BY <2>0, <2>3, InspectEffect, <3>1 DEF Inspect, Claim, Same
  <2>4. CASE FindAsset(r)
    <3>1. CASE Find(r) = {}
      BY <2>0, <2>1, <2>4, <3>1, AtEffect DEF FindAsset, Claim, Same, imported
    <3>2. CASE Find(r) # {}
      <4>1. PICK a \in Find(r) : Proceed(r, {a})
        BY <2>4, <3>2 DEF FindAsset
      <4>2. {a} \in SUBSET Assets /\ a \in assets
        BY <4>1 DEF Find, TypeInv, TypeOK
      <4> QED BY <2>0, <2>1, <2>4, <4>1, <4>2, ProceedEffect DEF FindAsset, Claim, imported
    <3> QED BY <3>1, <3>2
  <2>5. CASE StoreObject(r) \/ StorePreview(r)
    BY <2>0, <2>1, <2>5, AtEffect DEF StoreObject, StorePreview, Claim, Same
  <2>6. CASE InsertAsset(r)
    <3>1. {New(r)} \in SUBSET Assets
      BY <2>6, NewIsAsset DEF InsertAsset
    <3> QED BY <2>0, <2>1, <2>6, <3>1, ProceedEffect DEF InsertAsset, Claim
  <2>7. CASE FindRelation(r) \/ InsertRelation(r)
    <3>1. {} \in SUBSET Assets
      OBVIOUS
    <3>2. At(r, "relating") \/ At(r, "listing") \/ Proceed(r, {})
      BY <2>7 DEF FindRelation, InsertRelation
    <3>3. assets' = assets /\ job' = job /\ Importing(r)
      BY <2>7 DEF FindRelation, InsertRelation, imported
    <3> QED BY <2>0, <2>1, <2>7, <3>1, <3>2, <3>3, AtEffect, ProceedEffect DEF FindRelation, InsertRelation, Claim, Same
  <2>8. CASE Raise(r)
    BY <2>0, <2>8, AtEffect DEF Raise, Claim
  <2>9. CASE ListImported(r)
    BY <2>0, <2>9, ListEffect DEF ListImported, Claim, imported
  <2>10. CASE RemoveFiles(r)
    BY <2>0, <2>1, <2>10, RemoveEffect DEF RemoveFiles, Claim
  <2>11. CASE DeleteRelations(r) \/ DeleteAssets(r) \/ UndoRaises(r)
    BY <2>0, <2>1, <2>11, AtEffect DEF DeleteRelations, DeleteAssets, UndoRaises, Claim, Same
  <2>12. CASE RemoveArchive(r) \/ DeleteArchive(r) \/ Succeed(r) \/ RaiseLate(r) \/ FailJob(r) \/ Crash(r)
    BY <2>0, <2>12, AtEffect DEF RemoveArchive, DeleteArchive, Succeed, RaiseLate, FailJob, Crash, Claim
  <2> QED
    BY <1>1, <2>2, <2>3, <2>4, <2>5, <2>6, <2>7, <2>8, <2>9, <2>10, <2>11, <2>12 DEF RunNext
<1>2. CASE GiveUp \/ Revoke \/ Relate \/ UNCHANGED vars
  BY <1>2 DEF GiveUp, Revoke, Relate, Quiet, vars, imported, AloneInv, Live, Importing
<1> QED BY <1>1, <1>2 DEF Next

(* Which steps change what.                                                *)
LEMMA Untouched ==
  ASSUME NEW r \in Runs, RunNext(r)
  PROVE  /\ assets' = assets \/ InsertAsset(r) \/ DeleteAssets(r)
         /\ relations' = relations \/ InsertRelation(r) \/ DeleteRelations(r)
         /\ objects' = objects \/ StoreObject(r) \/ RemoveFiles(r)
         /\ previews' = previews \/ StorePreview(r) \/ RemoveFiles(r)
         /\ archive' = archive \/ RemoveArchive(r) \/ DeleteArchive(r)
         /\ job' = job \/ Claim(r) \/ Succeed(r) \/ FailJob(r)
BY DEF RunNext, imported, Claim, Inspect, FindAsset, StoreObject, StorePreview, InsertAsset,
       FindRelation, InsertRelation, Raise, ListImported, RemoveFiles, DeleteRelations,
       DeleteAssets, UndoRaises, RemoveArchive, DeleteArchive, Succeed, RaiseLate, FailJob, Crash

(* Which steps lead where.                                                 *)
Arrives(r) ==
  /\ run'[r].at # "waiting"
  /\ run'[r].at = "inspecting" => Claim(r)
  /\ run'[r].at = "importing" => Inspect(r) \/ FindAsset(r) \/ InsertAsset(r) \/ FindRelation(r) \/ InsertRelation(r)
  /\ run'[r].at = "storing" => FindAsset(r)
  /\ run'[r].at = "previewing" => StoreObject(r)
  /\ run'[r].at = "inserting" => StoreObject(r) \/ StorePreview(r)
  /\ run'[r].at = "relating" => FindRelation(r)
  /\ run'[r].at = "listing" => Raise(r) \/ InsertRelation(r)
  /\ run'[r].at = "removing" => ListImported(r) \/ RemoveFiles(r)
  /\ run'[r].at = "deleting" => DeleteRelations(r)
  /\ run'[r].at = "failing" => Inspect(r) \/ DeleteAssets(r) \/ UndoRaises(r) \/ RaiseLate(r)
  /\ run'[r].at = "finishing" => RemoveArchive(r)
  /\ run'[r].at = "reporting" => DeleteArchive(r)
  /\ run'[r].at = "ended" => Succeed(r) \/ FailJob(r) \/ Crash(r)

LEMMA ArrivesBy ==
  ASSUME TypeInv, NEW r \in Runs, RunNext(r)
  PROVE  Arrives(r)
<1> USE DEF Arrives, Steps, LiveSteps, ImportSteps, RollbackSteps, LateSteps
<1>0. {} \in SUBSET Assets
  OBVIOUS
<1>1. CASE Claim(r)
  BY <1>1, AtEffect DEF Claim
<1>2. CASE Inspect(r)
  BY <1>2, InspectEffect
<1>3. CASE FindAsset(r)
  <2>1. CASE At(r, "storing")
    BY <1>3, <2>1, AtEffect
  <2>2. ASSUME NEW a \in Find(r), Proceed(r, {a}) PROVE Arrives(r)
    <3>1. {a} \in SUBSET Assets
      BY DEF Find, TypeInv, TypeOK
    <3> QED BY <1>3, <2>2, <3>1, ProceedEffect
  <2> QED BY <1>3, <2>1, <2>2 DEF FindAsset
<1>4. CASE StoreObject(r)
  BY <1>4, AtEffect DEF StoreObject
<1>5. CASE StorePreview(r)
  BY <1>5, AtEffect DEF StorePreview
<1>6. CASE InsertAsset(r)
  <2>1. {New(r)} \in SUBSET Assets
    BY <1>6, NewIsAsset DEF InsertAsset
  <2> QED BY <1>6, <2>1, ProceedEffect DEF InsertAsset
<1>7. CASE FindRelation(r)
  <2>1. CASE At(r, "relating")
    BY <1>7, <2>1, AtEffect
  <2>2. CASE Proceed(r, {})
    BY <1>0, <1>7, <2>2, ProceedEffect
  <2> QED BY <1>7, <2>1, <2>2 DEF FindRelation
<1>8. CASE InsertRelation(r)
  <2>1. CASE At(r, "listing")
    BY <1>8, <2>1, AtEffect
  <2>2. CASE Proceed(r, {})
    BY <1>0, <1>8, <2>2, ProceedEffect
  <2> QED BY <1>8, <2>1, <2>2 DEF InsertRelation
<1>9. CASE Raise(r)
  BY <1>9, AtEffect DEF Raise
<1>10. CASE ListImported(r)
  BY <1>10, ListEffect
<1>11. CASE RemoveFiles(r)
  BY <1>11, RemoveEffect
<1>12. CASE DeleteRelations(r)
  BY <1>12, AtEffect DEF DeleteRelations
<1>13. CASE DeleteAssets(r) \/ UndoRaises(r)
  BY <1>13, AtEffect DEF DeleteAssets, UndoRaises
<1>14. CASE RemoveArchive(r)
  BY <1>14, AtEffect DEF RemoveArchive
<1>15. CASE DeleteArchive(r)
  BY <1>15, AtEffect DEF DeleteArchive
<1>16. CASE RaiseLate(r)
  BY <1>16, AtEffect DEF RaiseLate
<1>17. CASE Succeed(r) \/ FailJob(r) \/ Crash(r)
  BY <1>17, AtEffect DEF Succeed, FailJob, Crash
<1> QED
  BY <1>1, <1>2, <1>3, <1>4, <1>5, <1>6, <1>7, <1>8, <1>9, <1>10, <1>11, <1>12, <1>13, <1>14, <1>15, <1>16,
     <1>17 DEF RunNext

-----------------------------------------------------------------------------
(* No relation without its assets.                                         *)

DanglesInv ==
  events \intersect {"stall", "relate"} = {} =>
    /\ NothingDangles
    /\ \A x \in relations : x.provenance = "cvat_import"
    /\ \A r \in Runs : run[r].at = "deleting" => relations = {}

LEMMA DanglesInit == Init => DanglesInv
BY DEF Init, DanglesInv, NothingDangles

LEMMA DanglesStep == TypeInv /\ AloneInv /\ DanglesInv /\ [Next]_vars => DanglesInv'
<1> SUFFICES ASSUME TypeInv, AloneInv, DanglesInv, [Next]_vars,
                    "stall" \notin events, "relate" \notin events
             PROVE  /\ NothingDangles'
                    /\ \A x \in relations' : x.provenance = "cvat_import"
                    /\ \A r \in Runs : run'[r].at = "deleting" => relations' = {}
  BY PlanStays DEF DanglesInv
<1>0. /\ NothingDangles
      /\ \A x \in relations : x.provenance = "cvat_import"
      /\ \A r \in Runs : run[r].at = "deleting" => relations = {}
  BY DEF DanglesInv
<1>1. ASSUME NEW r \in Runs, RunNext(r)
      PROVE  /\ NothingDangles'
             /\ \A x \in relations' : x.provenance = "cvat_import"
             /\ \A q \in Runs : run'[q].at = "deleting" => relations' = {}
  <2>1. \A q \in Runs \ {r} : run'[q] = run[q] /\ run[q].at # "deleting"
    BY <1>1, OthersRest DEF Live, LiveSteps, RollbackSteps
  <2>2. CASE InsertRelation(r)
    <3>1. relations' \subseteq relations \union {Inserted(r)} /\ assets' = assets /\ run[r].at = "relating"
      BY <2>2 DEF InsertRelation, Inserted
    <3>2. {Source(r), Target(r)} \subseteq assets
      <4>1. Importing(r) /\ run[r].todo # {} /\ IsRelation(Item(r))
        BY <3>1 DEF Importing, ImportSteps, TypeInv, Progress
      <4> QED BY <4>1, EndsAreKnown DEF AloneInv
    <3>3. Inserted(r).source = Source(r) /\ Inserted(r).target = Target(r) /\ Inserted(r).provenance = "cvat_import"
      BY DEF Inserted
    <3>4. run'[r].at # "deleting"
      BY <1>1, <3>1, ArrivesBy DEF Arrives, DeleteRelations
    <3> QED BY <1>0, <2>1, <3>1, <3>2, <3>3, <3>4 DEF NothingDangles
  <2>3. CASE DeleteRelations(r)
    BY <1>0, <2>3 DEF DeleteRelations, NothingDangles
  <2>4. CASE DeleteAssets(r)
    BY <1>0, <2>4 DEF DeleteAssets, NothingDangles
  <2>5. CASE ~(InsertRelation(r) \/ DeleteRelations(r) \/ DeleteAssets(r))
    <3>1. relations' = relations /\ assets \subseteq assets'
      BY <1>1, <2>5, Untouched DEF InsertAsset
    <3>2. run'[r].at # "deleting"
      BY <1>1, <2>5, ArrivesBy DEF Arrives
    <3> QED BY <1>0, <2>1, <3>1, <3>2 DEF NothingDangles
  <2> QED BY <2>2, <2>3, <2>4, <2>5
<1>2. CASE Revoke
  <2>1. PICK x \in relations, y \in Row :
          /\ relations' = (relations \ {x}) \union {y}
          /\ y.source = x.source /\ y.target = x.target /\ y.provenance = x.provenance
    BY <1>2, RevokedRow
  <2> QED BY <1>0, <1>2, <2>1 DEF Revoke, NothingDangles
<1>3. CASE Relate
  BY <1>3 DEF Relate
<1>4. CASE GiveUp \/ UNCHANGED vars
  BY <1>0, <1>4 DEF GiveUp, vars, imported, NothingDangles
<1> QED BY <1>1, <1>2, <1>3, <1>4 DEF Next

-----------------------------------------------------------------------------
(* The YOLO import creates no asset that is there.                         *)

SinglesInv ==
  format = "YOLO" /\ "stall" \notin events =>
    /\ EntriesAreSingle
    /\ \A r \in Runs : run[r].at \in {"storing", "previewing", "inserting"} => \A a \in assets : a.item # Item(r)

LEMMA SinglesInit == Init => SinglesInv
BY DEF Init, SinglesInv, EntriesAreSingle

LEMMA SinglesStep == TypeInv /\ AloneInv /\ SinglesInv /\ [Next]_vars => SinglesInv'
<1> SUFFICES ASSUME TypeInv, AloneInv, SinglesInv, [Next]_vars, format = "YOLO", "stall" \notin events
             PROVE  /\ EntriesAreSingle'
                    /\ \A r \in Runs : run'[r].at \in {"storing", "previewing", "inserting"} =>
                         \A a \in assets' : a.item # Item(r)'
  BY PlanStays DEF SinglesInv
<1> DEFINE Finds(r) == run[r].at \in {"storing", "previewing", "inserting"} => \A a \in assets : a.item # Item(r)
<1>0. EntriesAreSingle /\ \A r \in Runs : Finds(r)
  BY DEF SinglesInv
<1>1. ASSUME NEW r \in Runs, RunNext(r)
      PROVE  EntriesAreSingle' /\ \A q \in Runs : Finds(q)'
  <2>1. \A q \in Runs \ {r} : Finds(q)'
    BY <1>1, OthersRest DEF Live, LiveSteps, ImportSteps
  <2>i. run'[r].todo = run[r].todo => Item(r)' = Item(r)
    BY PlanStays
  <2>s. {"storing", "previewing", "inserting"} \subseteq Steps
    BY DEF Steps, LiveSteps, ImportSteps
  <2>2. CASE FindAsset(r)
    <3>1. assets' = assets
      BY <2>2 DEF FindAsset, imported
    <3>2. CASE Find(r) = {}
      <4>1. At(r, "storing") /\ \A a \in assets : a.item # Item(r)
        BY <2>2, <3>2 DEF FindAsset, Find
      <4>2. Item(r)' = Item(r)
        BY <2>i, <2>s, <4>1, AtEffect DEF Same
      <4> QED BY <1>0, <2>1, <3>1, <4>1, <4>2 DEF EntriesAreSingle
    <3>3. CASE Find(r) # {}
      <4>1. PICK a \in Find(r) : Proceed(r, {a})
        BY <2>2, <3>3 DEF FindAsset
      <4>2. {a} \in SUBSET Assets
        BY <4>1 DEF Find, TypeInv, TypeOK
      <4>3. run'[r].at = "importing"
        BY <4>1, <4>2, ProceedEffect
      <4> QED BY <1>0, <2>1, <3>1, <4>3 DEF EntriesAreSingle
    <3> QED BY <3>2, <3>3
  <2>3. CASE StoreObject(r) \/ StorePreview(r)
    <3>1. run[r].at \in {"storing", "previewing"} /\ assets' = assets /\ Item(r)' = Item(r)
      BY <2>3, <2>i, <2>s, AtEffect DEF StoreObject, StorePreview, Same
    <3> QED BY <1>0, <2>1, <3>1 DEF EntriesAreSingle
  <2>4. CASE InsertAsset(r)
    <3>1. run[r].at = "inserting" /\ assets' = assets \union {New(r)} /\ New(r).item = Item(r)
      BY <2>4, NewIsAsset DEF InsertAsset
    <3>2. {New(r)} \in SUBSET Assets
      BY <3>1, NewIsAsset
    <3>3. run'[r].at = "importing"
      BY <2>4, <3>2, ProceedEffect DEF InsertAsset
    <3> QED BY <1>0, <2>1, <3>1, <3>3 DEF EntriesAreSingle
  <2>5. CASE ~(FindAsset(r) \/ StoreObject(r) \/ StorePreview(r) \/ InsertAsset(r))
    <3>1. assets' \subseteq assets
      BY <1>1, <2>5, Untouched DEF DeleteAssets
    <3>2. run'[r].at \notin {"storing", "previewing", "inserting"}
      BY <1>1, <2>5, ArrivesBy DEF Arrives
    <3> QED BY <1>0, <2>1, <3>1, <3>2 DEF EntriesAreSingle
  <2> QED BY <2>2, <2>3, <2>4, <2>5
<1>2. CASE GiveUp \/ Revoke \/ Relate \/ UNCHANGED vars
  <2>1. assets' = assets /\ run' = run
    BY <1>2 DEF GiveUp, Revoke, Relate, vars, imported
  <2>2. \A r \in Runs : Item(r)' = Item(r)
    BY <2>1, PlanStays
  <2> QED BY <1>0, <2>1, <2>2 DEF EntriesAreSingle
<1> QED BY <1>1, <1>2 DEF Next

-----------------------------------------------------------------------------
(* Failed imports, when nothing but a rollback ends them.                  *)

(* The assets of a run that have a file.                                   *)
Stored(r) == {a \in objects \union previews : a.run = r}
Single(S) == \A a, b \in S : a = b
OnlyUsers == \A x \in relations : x.provenance = "user"

(* All assets are those of the run under way, and its files are those of   *)
(* its assets and of the one it is about to create.                        *)
Undoable(r) ==
  /\ run[r].at \in {"inspecting", "failing"} => assets = {}
  /\ run[r].at \in {"inspecting", "failing", "deleting"} => OnlyUsers
  /\ Importing(r) \/ run[r].at = "listing" => \A a \in assets : a.run = r
  /\ run[r].at \in {"waiting", "inspecting"} => Stored(r) = {}
  /\ run[r].at \in {"importing", "relating", "storing"} => Stored(r) \subseteq assets
  /\ run[r].at \in {"previewing", "inserting"} => Stored(r) \subseteq assets \union {New(r)}
  /\ run[r].at = "listing" => Single(Stored(r) \ assets)
  /\ run[r].at = "removing" => Single(Stored(r) \ run[r].files)
  /\ run[r].at \in {"deleting", "failing"} => Single(Stored(r))
  /\ run[r].at = "ended" /\ job # "succeeded" => Single(Stored(r))

UndoneInv ==
  Undone =>
    /\ job = "running" => ~Quiet
    /\ job \in {"queued", "failed"} => assets = {} /\ OnlyUsers
    /\ \A a, b \in assets : a.run = b.run
    /\ \A r \in Runs : Undoable(r)

LEMMA UndoneInit == Init => UndoneInv
BY DEF Init, UndoneInv, Undoable, OnlyUsers, Stored, Importing, ImportSteps

LEMMA StoredStays ==
  ASSUME TypeInv, NEW r \in Runs, RunNext(r)
  PROVE  /\ \A q \in Runs \ {r} : Stored(q)' \subseteq Stored(q)
         /\ Stored(r)' \subseteq Stored(r) \union {New(r)}
         /\ ~(StoreObject(r) \/ StorePreview(r)) => Stored(r)' \subseteq Stored(r)
<1>1. CASE StoreObject(r) \/ StorePreview(r)
  <2>1. New(r).run = r /\ objects' \union previews' \subseteq objects \union previews \union {New(r)}
    BY <1>1, NewIsAsset DEF StoreObject, StorePreview
  <2> QED BY <1>1, <2>1 DEF Stored
<1>2. CASE ~(StoreObject(r) \/ StorePreview(r))
  <2>1. objects' \subseteq objects /\ previews' \subseteq previews
    BY <1>2, Untouched DEF RemoveFiles
  <2> QED BY <1>2, <2>1 DEF Stored
<1> QED BY <1>1, <1>2

LEMMA OthersUndoable ==
  ASSUME TypeInv, AloneInv, NEW r \in Runs, RunNext(r), "stall" \notin events,
         NEW q \in Runs \ {r}, Undoable(q)
  PROVE  Undoable(q)'
<1>1. run'[q] = run[q] /\ ~Live(q) /\ Stored(q)' \subseteq Stored(q)
  BY OthersRest, StoredStays
<1>2. job # "succeeded"
  BY OthersRest DEF Claim
<1>3. run'[q].at \in {"waiting", "ended"}
  BY <1>1 DEF Live, Steps, TypeInv, TypeOK, Run
<1>4. run[q].at = "waiting" => Stored(q)' = {}
  BY <1>1 DEF Undoable
<1>5. run[q].at = "ended" => Single(Stored(q)')
  BY <1>1, <1>2 DEF Undoable, Single
<1> QED BY <1>1, <1>3, <1>4, <1>5 DEF Undoable, Importing, ImportSteps, Single

LEMMA UndoneStep == TypeInv /\ AloneInv /\ UndoneInv /\ [Next]_vars => UndoneInv'
<1> SUFFICES ASSUME TypeInv, AloneInv, UndoneInv, [Next]_vars, Undone PROVE UndoneInv'
  BY PlanStays DEF UndoneInv, Undone
<1>e. {"stall", "crash", "late_error", "undo_error"} \intersect events = {}
  BY DEF Undone
<1>0. /\ job = "running" => ~Quiet
      /\ job \in {"queued", "failed"} => assets = {} /\ OnlyUsers
      /\ \A a, b \in assets : a.run = b.run
      /\ \A r \in Runs : Undoable(r)
  BY DEF UndoneInv
<1>1. ASSUME NEW r \in Runs, RunNext(r) PROVE UndoneInv'
  <2>q. \A q \in Runs \ {r} : Undoable(q)'
    BY <1>0, <1>1, <1>e, OthersUndoable
  <2>o. Claim(r) \/ (Live(r) /\ job = "running")
    BY <1>1, <1>e, OthersRest
  <2>a. Arrives(r)
    BY <1>1, ArrivesBy
  <2>t. run'[r].at \in Steps
    BY <1>1, RunTypes DEF Run
  <2>n. ~(UndoRaises(r) \/ RaiseLate(r) \/ Crash(r))
    BY <1>e DEF UndoRaises, RaiseLate, Crash
  <2>s. /\ Stored(r)' \subseteq Stored(r) \union {New(r)}
        /\ ~(StoreObject(r) \/ StorePreview(r)) => Stored(r)' \subseteq Stored(r)
    BY <1>1, StoredStays
  <2>u. Undoable(r)
    BY <1>0
  <2>1. job' = "running" => ~Quiet'
    <3>1. run'[r].at = "ended" => job' # "running"
      BY <2>a, <2>n DEF Arrives, Succeed, FailJob
    <3>2. run'[r].at # "ended" => Live(r)'
      BY <2>a, <2>t DEF Live, Steps, Arrives
    <3> QED BY <3>1, <3>2 DEF Quiet
  <2>2. job' \in {"queued", "failed"} => assets' = {} /\ OnlyUsers'
    <3>1. job' \in {"queued", "failed"} => FailJob(r)
      BY <1>1, <2>o, Untouched DEF Claim, Succeed
    <3> QED BY <2>u, <3>1 DEF FailJob, Undoable, OnlyUsers, imported
  <2>3. (\A a, b \in assets : a.run = b.run)'
    <3>1. CASE InsertAsset(r)
      <4>1. assets' = assets \union {New(r)} /\ New(r).run = r /\ \A a \in assets : a.run = r
        BY <2>u, <3>1, NewIsAsset DEF InsertAsset, Undoable, Importing, ImportSteps
      <4> QED BY <4>1
    <3>2. CASE ~InsertAsset(r)
      BY <1>0, <1>1, <3>2, Untouched DEF DeleteAssets
    <3> QED BY <3>1, <3>2
  <2>4. run'[r].at = "inspecting" => Undoable(r)'
    <3> SUFFICES ASSUME run'[r].at = "inspecting" PROVE Undoable(r)'
      OBVIOUS
    <3>1. Claim(r)
      BY <2>a DEF Arrives
    <3>2. assets' = {} /\ OnlyUsers'
      BY <1>0, <3>1 DEF Claim, OnlyUsers, imported
    <3>3. Stored(r)' = {}
      BY <2>u, <3>1, <2>s DEF Claim, Undoable, StoreObject, StorePreview
    <3> QED BY <3>2, <3>3 DEF Undoable, Importing, ImportSteps
  <2>5. run'[r].at = "failing" => Undoable(r)'
    <3> SUFFICES ASSUME run'[r].at = "failing" PROVE Undoable(r)'
      OBVIOUS
    <3>1. CASE Inspect(r)
      <4>1. assets' = {} /\ OnlyUsers' /\ Stored(r)' \subseteq Stored(r) /\ Stored(r) = {}
        BY <2>u, <3>1, <2>s DEF Inspect, Undoable, OnlyUsers, imported, StoreObject, StorePreview
      <4> QED BY <4>1 DEF Undoable, Importing, ImportSteps, Single
    <3>2. CASE DeleteAssets(r)
      <4>1. assets' = {} /\ OnlyUsers'
        BY <1>e, <2>u, <3>2 DEF DeleteAssets, AloneInv, Undoable, OnlyUsers
      <4>2. Stored(r)' \subseteq Stored(r) /\ Single(Stored(r))
        BY <2>u, <3>2, <2>s DEF DeleteAssets, Undoable, StoreObject, StorePreview
      <4> QED BY <4>1, <4>2 DEF Undoable, Importing, ImportSteps, Single
    <3> QED BY <2>a, <2>n, <3>1, <3>2 DEF Arrives
  <2>6. run'[r].at = "deleting" => Undoable(r)'
    <3> SUFFICES ASSUME run'[r].at = "deleting" PROVE Undoable(r)'
      OBVIOUS
    <3>1. DeleteRelations(r)
      BY <2>a DEF Arrives
    <3>2. OnlyUsers'
      BY <3>1 DEF DeleteRelations, OnlyUsers, TypeInv, TypeOK, Row
    <3>3. Stored(r)' \subseteq Stored(r) /\ Single(Stored(r))
      BY <2>u, <3>1, <2>s DEF DeleteRelations, Undoable, StoreObject, StorePreview
    <3> QED BY <3>2, <3>3 DEF Undoable, Importing, ImportSteps, Single
  <2>7. run'[r].at = "removing" => Undoable(r)'
    <3> SUFFICES ASSUME run'[r].at = "removing" PROVE Undoable(r)'
      OBVIOUS
    <3>1. CASE ListImported(r)
      <4>1. run'[r].files = assets /\ Single(Stored(r) \ assets) /\ Stored(r)' \subseteq Stored(r)
        BY <2>u, <3>1, <2>s, ListEffect DEF ListImported, Undoable, StoreObject, StorePreview
      <4> QED BY <4>1 DEF Undoable, Importing, ImportSteps, Single
    <3>2. CASE RemoveFiles(r)
      <4>1. PICK a \in run[r].files : /\ run'[r].files = run[r].files \ {a}
                                      /\ objects' = objects \ {a} /\ previews' = previews \ {a}
        BY <1>e, <3>2, RemoveEffect
      <4>2. Stored(r)' \ run'[r].files \subseteq Stored(r) \ run[r].files
        BY <4>1 DEF Stored
      <4>3. Single(Stored(r) \ run[r].files)
        BY <2>u, <3>2 DEF Undoable, RemoveFiles
      <4> QED BY <4>2, <4>3 DEF Undoable, Importing, ImportSteps, Single
    <3> QED BY <2>a, <3>1, <3>2 DEF Arrives
  <2>8. run'[r].at = "listing" => Undoable(r)'
    <3> SUFFICES ASSUME run'[r].at = "listing" PROVE Undoable(r)'
      OBVIOUS
    <3>1. Importing(r) /\ assets' = assets /\ Stored(r)' \subseteq Stored(r)
      BY <2>a DEF Arrives, Raise, InsertRelation, imported, Importing, ImportSteps, Stored
    <3>2. Stored(r) \subseteq assets \union {New(r)} /\ \A a \in assets : a.run = r
      BY <2>u, <3>1 DEF Undoable, Importing, ImportSteps
    <3> QED BY <3>1, <3>2 DEF Undoable, Importing, ImportSteps, Single
  <2>9. run'[r].at \in ImportSteps => Undoable(r)'
    <3> SUFFICES ASSUME run'[r].at \in ImportSteps PROVE Undoable(r)'
      OBVIOUS
    <3>1. (\A a \in assets' : a.run = r) /\ Stored(r)' \subseteq assets'
          /\ run'[r].at \in {"importing", "relating", "storing"} => Undoable(r)'
      BY DEF Undoable, Importing, ImportSteps
    <3>2. CASE Inspect(r)
      <4>1. assets' = {} /\ Stored(r)' \subseteq Stored(r) /\ Stored(r) = {} /\ run'[r].at = "importing"
        BY <2>u, <3>2, <2>s, InspectEffect DEF Inspect, Undoable, imported, StoreObject, StorePreview, ImportSteps
      <4> QED BY <3>1, <4>1
    <3>3. CASE FindAsset(r) \/ FindRelation(r) \/ InsertRelation(r)
      <4>1. assets' = assets /\ Stored(r)' \subseteq Stored(r) /\ run[r].at \in {"importing", "relating"}
        BY <3>3, <2>s DEF FindAsset, FindRelation, InsertRelation, imported, StoreObject, StorePreview
      <4>2. (\A a \in assets : a.run = r) /\ Stored(r) \subseteq assets
        BY <2>u, <4>1 DEF Undoable, Importing, ImportSteps
      <4>3. run'[r].at \in {"importing", "relating", "storing"}
        BY <2>a, <3>3 DEF Arrives, ImportSteps, FindAsset, FindRelation, InsertRelation, StoreObject, StorePreview
      <4> QED BY <3>1, <4>1, <4>2, <4>3
    <3>4. CASE InsertAsset(r)
      <4>1. assets' = assets \union {New(r)} /\ Stored(r)' \subseteq Stored(r) /\ New(r).run = r
        BY <3>4, <2>s, NewIsAsset DEF InsertAsset, StoreObject, StorePreview
      <4>2. (\A a \in assets : a.run = r) /\ Stored(r) \subseteq assets \union {New(r)}
        BY <2>u, <3>4 DEF Undoable, Importing, ImportSteps, InsertAsset
      <4>3. run'[r].at = "importing"
        BY <2>a, <3>4 DEF Arrives, ImportSteps, FindAsset, FindRelation, InsertAsset, StoreObject, StorePreview
      <4> QED BY <3>1, <4>1, <4>2, <4>3
    <3>5. CASE StoreObject(r) \/ StorePreview(r)
      <4>1. assets' = assets /\ run[r].at \in {"storing", "previewing"}
        BY <3>5 DEF StoreObject, StorePreview
      <4>2. (\A a \in assets : a.run = r) /\ Stored(r) \subseteq assets \union {New(r)}
        BY <2>u, <4>1 DEF Undoable, Importing, ImportSteps
      <4>3. run'[r].at \in {"previewing", "inserting"} /\ New(r)' = New(r)
        <5>1. {"previewing", "inserting"} \subseteq Steps
          BY DEF Steps, LiveSteps, ImportSteps
        <5>2. run'[r].at \in {"previewing", "inserting"} /\ Same(r)
          BY <3>5, <5>1, AtEffect DEF StoreObject, StorePreview
        <5> QED BY <5>2, PlanStays DEF New, Same
      <4> QED BY <2>s, <4>1, <4>2, <4>3 DEF Undoable, Importing, ImportSteps
    <3> QED BY <2>a, <3>2, <3>3, <3>4, <3>5 DEF Arrives, ImportSteps
  <2>10. run'[r].at = "ended" => Undoable(r)'
    <3> SUFFICES ASSUME run'[r].at = "ended", job' # "succeeded" PROVE Undoable(r)'
      BY DEF Undoable, Importing, ImportSteps
    <3>1. FailJob(r)
      BY <2>a, <2>n DEF Arrives, Succeed
    <3>2. Stored(r)' \subseteq Stored(r) /\ Single(Stored(r))
      BY <2>u, <3>1, <2>s DEF FailJob, Undoable, StoreObject, StorePreview
    <3> QED BY <3>2 DEF Undoable, Importing, ImportSteps, Single
  <2>11. run'[r].at \in LateSteps => Undoable(r)'
    BY DEF Undoable, Importing, ImportSteps, LateSteps
  <2>12. Undoable(r)'
    BY <2>a, <2>t, <2>4, <2>5, <2>6, <2>7, <2>8, <2>9, <2>10, <2>11
       DEF Arrives, Steps, LiveSteps, RollbackSteps
  <2> QED BY <2>q, <2>1, <2>2, <2>3, <2>12 DEF UndoneInv
<1>2. CASE Revoke \/ Relate
  <2>1. /\ UNCHANGED <<job, assets, objects, previews, run>>
        /\ \A y \in relations' : y.provenance = "user" \/ \E x \in relations : y.provenance = x.provenance
    <3>1. CASE Revoke
      BY <3>1, RevokedRow DEF Revoke
    <3>2. CASE Relate
      BY <3>2, RelatedRow DEF Relate
    <3> QED BY <1>2, <3>1, <3>2
  <2>2. OnlyUsers => OnlyUsers'
    BY <2>1 DEF OnlyUsers
  <2>4. ASSUME NEW r \in Runs PROVE Undoable(r)'
    <3>1. New(r)' = New(r) /\ Stored(r)' = Stored(r)
      BY <2>1, PlanStays DEF New, Stored
    <3>2. Undoable(r)
      BY <1>0
    <3> QED BY <2>1, <2>2, <3>1, <3>2 DEF Undoable, Importing, Single
  <2> QED BY <1>0, <2>1, <2>2, <2>4 DEF UndoneInv, Quiet, Live
<1>3. CASE UNCHANGED vars
  <2>1. UNCHANGED <<job, assets, objects, previews, relations, run>>
    BY <1>3 DEF vars, imported
  <2>3. ASSUME NEW r \in Runs PROVE Undoable(r)'
    <3>1. New(r)' = New(r) /\ Stored(r)' = Stored(r) /\ OnlyUsers' = OnlyUsers
      BY <2>1, PlanStays DEF New, Stored, OnlyUsers
    <3>2. Undoable(r)
      BY <1>0
    <3> QED BY <2>1, <3>1, <3>2 DEF Undoable, Importing, Single
  <2> QED BY <1>0, <2>1, <2>3 DEF UndoneInv, Quiet, Live, OnlyUsers
<1>4. CASE GiveUp
  BY <1>0, <1>4, <1>e DEF GiveUp
<1> QED BY <1>1, <1>2, <1>3, <1>4 DEF Next

-----------------------------------------------------------------------------
(* Interrupted imports: without users and failing calls, a run never finds *)
(* a relation that it is about to insert, and so never begins a rollback.  *)

Written(r) ==
  /\ \A a \in run[r].known : a.run = r
  /\ \A x \in relations : x.source.run = r =>
       run[r].at \notin {"waiting", "inspecting"} /\ (Importing(r) => Match(x) \notin run[r].todo)

FreshInv ==
  "crash" \in events /\ "stall" \notin events /\ RollbacksEnd =>
    /\ \A x \in relations : x.status = "active"
    /\ \A r \in Runs : ~InRollback(r)
    /\ format = "YOLO" => \A r \in Runs : run[r].at = "relating" => Rows(Source(r), Target(r)) = {}
    /\ format # "YOLO" => \A r \in Runs : Written(r)

LEMMA FreshInit == Init => FreshInv
BY DEF Init, FreshInv, InRollback, RollbackSteps, Written

LEMMA NoRowYet ==
  ASSUME TypeInv, FreshInv, "crash" \in events, "stall" \notin events, RollbacksEnd,
         NEW r \in Runs, run[r].at = "relating"
  PROVE  Rows(Source(r), Target(r)) = {}
<1>1. CASE format = "YOLO"
  BY <1>1 DEF FreshInv
<1>2. CASE format # "YOLO"
  <2>1. Importing(r) /\ run[r].todo # {} /\ IsRelation(Item(r)) /\ Item(r) \in run[r].todo
    BY FirstItem DEF TypeInv, Progress, Importing, ImportSteps
  <2>2. /\ Source(r) \in run[r].known /\ Source(r).item = LabelItem(Item(r).label)
        /\ Target(r).item = ImageItem(Item(r).image)
        /\ Item(r) = [image |-> Item(r).image, label |-> Item(r).label]
    BY <2>1, EndsAreKnown
  <2>3. Written(r)
    BY <1>2 DEF FreshInv
  <2>4. ASSUME NEW x \in Rows(Source(r), Target(r)) PROVE FALSE
    <3>1. Match(x) = Item(r)
      BY <2>2 DEF Rows, Match, ImageItem, LabelItem
    <3>2. x \in relations /\ x.source.run = r
      BY <2>2, <2>3 DEF Rows, Written
    <3> QED BY <2>1, <2>3, <3>1, <3>2 DEF Written
  <2> QED BY <2>4
<1> QED BY <1>1, <1>2

LEMMA FreshStep == TypeInv /\ AloneInv /\ FreshInv /\ [Next]_vars => FreshInv'
<1> SUFFICES ASSUME TypeInv, AloneInv, FreshInv, [Next]_vars,
                    "crash" \in events, "stall" \notin events, RollbacksEnd
             PROVE  FreshInv'
  BY PlanStays DEF FreshInv, RollbacksEnd
<1>e. {"undo_error", "error", "revoke", "relate"} \intersect events = {}
  BY DEF RollbacksEnd
<1>f. format' = format
  BY PlanStays
<1>0. /\ \A x \in relations : x.status = "active"
      /\ \A r \in Runs : ~InRollback(r)
      /\ format = "YOLO" => \A r \in Runs : run[r].at = "relating" => Rows(Source(r), Target(r)) = {}
      /\ format # "YOLO" => \A r \in Runs : Written(r)
  BY DEF FreshInv
<1>1. ASSUME NEW r \in Runs, RunNext(r) PROVE FreshInv'
  <2>q. \A q \in Runs \ {r} : run'[q] = run[q] /\ ~Live(q)
    BY <1>1, OthersRest
  <2>a. Arrives(r)
    BY <1>1, ArrivesBy
  <2>b. ~InRollback(r)
    BY <1>0
  <2>1. InsertRelation(r) => /\ relations' = relations \union {Inserted(r)} /\ Proceed(r, {})
    <3> SUFFICES ASSUME InsertRelation(r) PROVE relations' = relations \union {Inserted(r)} /\ Proceed(r, {})
      OBVIOUS
    <3>1. Rows(Source(r), Target(r)) = {}
      BY NoRowYet DEF InsertRelation
    <3> QED BY <3>1 DEF InsertRelation, Inserted
  <2>2. relations' = relations \/ InsertRelation(r)
    BY <1>1, <2>b, Untouched DEF DeleteRelations, InRollback, RollbackSteps
  <2>3. \A x \in relations' : x.status = "active"
    BY <1>0, <2>1, <2>2 DEF Inserted
  <2>4. \A q \in Runs : ~InRollback(q)'
    <3>0. {} \in SUBSET Assets
      OBVIOUS
    <3>1. InsertRelation(r) => run'[r].at = "importing"
      BY <2>1, <3>0, ProceedEffect
    <3>2. run'[r].at \notin RollbackSteps
      BY <1>e, <2>a, <2>b, <3>1 DEF Arrives, Raise, ListImported, RemoveFiles, DeleteRelations, InRollback, RollbackSteps
    <3> QED BY <1>0, <2>q, <3>2 DEF InRollback
  <2>5. ASSUME format = "YOLO", NEW q \in Runs, run'[q].at = "relating"
        PROVE  Rows(Source(q), Target(q))' = {}
    <3>1. q = r /\ FindRelation(r)
      BY <2>5, <2>a, <2>q DEF Arrives, Live, LiveSteps, ImportSteps
    <3>2. At(r, "relating")
      <4>1. {} \in SUBSET Assets
        OBVIOUS
      <4>2. ~Proceed(r, {})
        BY <2>5, <3>1, <4>1, ProceedEffect
      <4> QED BY <3>1, <4>2 DEF FindRelation
    <3>3. ~\E x \in Rows(Source(r), Target(r)) : x.status = "active"
      <4>1. {} \in SUBSET Assets
        OBVIOUS
      <4>2. ~Proceed(r, {})
        BY <2>5, <3>1, <4>1, ProceedEffect
      <4> QED BY <2>5, <3>1, <4>2 DEF FindRelation
    <3>4. Rows(Source(r), Target(r)) = {}
      BY <1>0, <3>3 DEF Rows
    <3>5. Same(r)
      BY <3>2, AtEffect DEF Steps, LiveSteps, ImportSteps
    <3>6. Source(r)' = Source(r) /\ Target(r)' = Target(r)
      BY <3>5, PlanStays DEF Source, Target, Asset, Same
    <3>7. relations' = relations
      BY <3>1 DEF FindRelation, imported
    <3> QED BY <3>1, <3>4, <3>6, <3>7 DEF Rows
  <2>6. ASSUME format # "YOLO" PROVE \A q \in Runs : Written(q)'
    <3>w. \A q \in Runs : Written(q)
      BY <1>0, <2>6
    <3>1. CASE InsertRelation(r)
      <4>0. {} \in SUBSET Assets
        OBVIOUS
      <4>1. /\ run[r].at = "relating" /\ Importing(r)
            /\ run'[r].at = "importing" /\ run'[r].todo = run[r].todo \ {Item(r)} /\ run'[r].known = run[r].known
        <5>1. run[r].at = "relating" /\ Proceed(r, {})
          BY <2>1, <3>1 DEF InsertRelation
        <5>2. run'[r].at = "importing" /\ run'[r].todo = run[r].todo \ {Item(r)} /\ run'[r].known = run[r].known
          <6>1. /\ run'[r].at = "importing" /\ run'[r].todo = run[r].todo \ {Item(r)}
                /\ run'[r].known = run[r].known \union {}
            BY <4>0, <5>1, ProceedEffect
          <6> QED BY <6>1
        <5> QED BY <5>1, <5>2 DEF Importing, ImportSteps
      <4>2. Match(Inserted(r)) = Item(r) /\ Inserted(r).source.run = r
        <5>1. Source(r) \in run[r].known
          BY <4>1, EndsAreKnown DEF TypeInv, Progress
        <5> QED BY <3>w, <4>1, <5>1, InsertedIsRow DEF Written, Inserted
      <4>3. relations' = relations \union {Inserted(r)}
        BY <2>1, <3>1
      <4>4. Written(r)'
        BY <3>w, <4>1, <4>2, <4>3 DEF Written, Match
      <4>5. \A q \in Runs \ {r} : Written(q)'
        BY <3>w, <2>q, <4>2, <4>3 DEF Written, Importing, Match
      <4> QED BY <4>4, <4>5
    <3>2. CASE ~InsertRelation(r)
      <4>1. relations' = relations
        BY <2>2, <3>2
      <4>2. \A q \in Runs \ {r} : Written(q)'
        BY <3>w, <2>q, <4>1 DEF Written, Importing, Match
      <4>3. CASE Claim(r)
        <5>1. run'[r].at = "inspecting" /\ Same(r)
          BY <4>3, AtEffect DEF Claim, Steps, LiveSteps
        <5> QED BY <3>w, <4>1, <4>2, <4>3, <5>1 DEF Written, Importing, ImportSteps, Claim, Same, Match
      <4>4. CASE Inspect(r)
        <5>1. run[r].at = "inspecting" /\ run'[r].known = run[r].known /\ run'[r].at \in {"importing", "failing"}
          BY <4>4, InspectEffect DEF Inspect, Same
        <5> QED BY <3>w, <4>1, <4>2, <5>1 DEF Written
      <4>5. CASE ~Claim(r) /\ ~Inspect(r)
        <5>1. run'[r].at \notin {"waiting", "inspecting"}
          BY <2>a, <4>5 DEF Arrives
        <5>2. Importing(r)' => Importing(r)
          BY <2>a, <4>5 DEF Arrives, Importing, ImportSteps, FindAsset, StoreObject, StorePreview, InsertAsset, FindRelation, InsertRelation
        <5>3. run'[r].todo \subseteq run[r].todo /\ \A a \in run'[r].known : a.run = r
          <6>1. CASE InsertAsset(r)
            <7>1. New(r) \in Assets /\ New(r).run = r /\ Proceed(r, {New(r)})
              BY <6>1, NewIsAsset DEF InsertAsset
            <7>2. {New(r)} \in SUBSET Assets
              BY <7>1
            <7> QED BY <3>w, <7>1, <7>2, ProceedEffect DEF Written
          <6>2. CASE FindRelation(r)
            <7>1. CASE Proceed(r, {})
              <8>1. {} \in SUBSET Assets
                OBVIOUS
              <8> QED BY <3>w, <7>1, <8>1, ProceedEffect DEF Written
            <7>2. CASE At(r, "relating")
              BY <3>w, <7>2, AtEffect DEF Written, Same, Steps, LiveSteps, ImportSteps
            <7> QED BY <6>2, <7>1, <7>2 DEF FindRelation
          <6>3. CASE FindAsset(r)
            <7>1. At(r, "storing")
              BY <2>6, <6>3 DEF FindAsset, Find
            <7> QED BY <3>w, <7>1, AtEffect DEF Written, Same, Steps, LiveSteps, ImportSteps
          <6>4. CASE ~(InsertAsset(r) \/ FindRelation(r) \/ FindAsset(r))
            <7>1. ~(Raise(r) \/ ListImported(r) \/ RemoveFiles(r) \/ DeleteRelations(r) \/ DeleteAssets(r) \/ UndoRaises(r))
              BY <1>e, <2>b DEF Raise, ListImported, RemoveFiles, DeleteRelations, DeleteAssets, UndoRaises, InRollback, RollbackSteps
            <7>2. \E s \in Steps : At(r, s)
              BY <1>1, <3>2, <4>5, <6>4, <7>1 DEF RunNext, StoreObject, StorePreview, RemoveArchive, DeleteArchive,
                 Succeed, RaiseLate, FailJob, Crash, Steps, LiveSteps, ImportSteps, LateSteps
            <7>3. Same(r)
              BY <7>2, AtEffect
            <7> QED BY <3>w, <7>3 DEF Written, Same
          <6> QED BY <6>1, <6>2, <6>3, <6>4
        <5>4. Written(r)'
          BY <3>w, <4>1, <5>1, <5>2, <5>3 DEF Written, Match
        <5> QED BY <4>2, <5>4
      <4> QED BY <4>3, <4>4, <4>5
    <3> QED BY <3>1, <3>2
  <2> QED BY <1>f, <2>3, <2>4, <2>5, <2>6 DEF FreshInv
<1>2. CASE GiveUp \/ UNCHANGED vars
  <2>1. UNCHANGED <<relations, run>>
    BY <1>2 DEF GiveUp, vars, imported
  <2>2. \A r \in Runs : Source(r)' = Source(r) /\ Target(r)' = Target(r)
    BY <2>1, PlanStays DEF Source, Target, Asset
  <2>3. \A r \in Runs : Rows(Source(r), Target(r))' = Rows(Source(r), Target(r))
    BY <2>1, <2>2 DEF Rows
  <2>4. \A r \in Runs : Written(r)' = Written(r) /\ InRollback(r)' = InRollback(r)
    BY <2>1 DEF Written, InRollback, Importing, Match
  <2> QED BY <1>0, <1>f, <2>1, <2>3, <2>4 DEF FreshInv
<1>3. CASE Revoke \/ Relate
  BY <1>e, <1>3 DEF Revoke, Relate
<1> QED BY <1>1, <1>2, <1>3 DEF Next

-----------------------------------------------------------------------------
(* Complete imports.                                                       *)

(* What NothingIsMissing says of one match, and of the files.              *)
Related(i) ==
  \E x \in relations :
    /\ {x.source, x.target} \subseteq assets
    /\ x.source.item.label = i.label
    /\ x.target.item.image = i.image
AssetsHaveFiles == \A a \in assets : a \in objects /\ (a.item.image # 0 => a \in previews)

(* A run under way has related what it is done with, and stored the files  *)
(* of the asset that it is about to create.                                *)
Completes(r) ==
  /\ run[r].at \in LateSteps => archive # "stored"
  /\ Importing(r) \/ InRollback(r) => archive = "stored"
  /\ run[r].at \in {"previewing", "inserting"} => New(r) \in objects
  /\ run[r].at = "inserting" /\ Item(r).image # 0 => New(r) \in previews
  /\ Importing(r) => \A i \in Plan \ run[r].todo : IsRelation(i) => Related(i)

Changing(r) == run[r].at \in {"removing", "deleting"}

CompleteInv ==
  "stall" \notin events /\ RollbacksEnd =>
    /\ archive # "stored" => NothingIsMissing
    /\ job = "succeeded" => archive # "stored"
    /\ (\A r \in Runs : ~Changing(r)) => AssetsHaveFiles
    /\ \A r \in Runs : Completes(r)

LEMMA CompleteInit == Init => CompleteInv
BY DEF Init, CompleteInv, AssetsHaveFiles, Completes, Importing, InRollback, ImportSteps, RollbackSteps, LateSteps

LEMMA MissingMeans ==
  NothingIsMissing <=>
    /\ \A i \in Plan : IF IsRelation(i) THEN Related(i) ELSE \E a \in assets : a.item = i
    /\ AssetsHaveFiles
BY DEF NothingIsMissing, Related, AssetsHaveFiles

(* Related entries stay related while assets are only added.               *)
LEMMA RelatedStays ==
  ASSUME assets \subseteq assets',
         \A x \in relations : \E y \in relations' : y.source = x.source /\ y.target = x.target,
         NEW i, Related(i)
  PROVE  Related(i)'
<1>1. PICK x \in relations : /\ {x.source, x.target} \subseteq assets
                             /\ x.source.item.label = i.label /\ x.target.item.image = i.image
  BY DEF Related
<1>2. PICK y \in relations' : y.source = x.source /\ y.target = x.target
  OBVIOUS
<1> QED BY <1>1, <1>2 DEF Related

(* The last step of the import.                                            *)
LEMMA RemovedWhenComplete ==
  ASSUME TypeInv, AloneInv, CompleteInv, "stall" \notin events, RollbacksEnd,
         NEW r \in Runs, RemoveArchive(r)
  PROVE  NothingIsMissing
<1>1. Importing(r) /\ run[r].todo = {} /\ run[r].at = "importing"
  BY DEF RemoveArchive, Importing, ImportSteps
<1>2. \A i \in Plan : IsRelation(i) => Related(i)
  BY <1>1 DEF CompleteInv, Completes
<1>3. \A i \in Plan : ~IsRelation(i) => \E a \in assets : a.item = i
  BY <1>1 DEF TypeInv, Progress, AloneInv
<1>4. AssetsHaveFiles
  <2>1. \A q \in Runs : ~Changing(q)
    BY <1>1 DEF AloneInv, Live, LiveSteps, ImportSteps, RollbackSteps, Changing
  <2> QED BY <2>1 DEF CompleteInv
<1> QED BY <1>2, <1>3, <1>4, MissingMeans

LEMMA MissingStep ==
  ASSUME TypeInv, AloneInv, CompleteInv, "stall" \notin events, RollbacksEnd,
         NEW r \in Runs, RunNext(r), archive' # "stored"
  PROVE  NothingIsMissing'
<1>1. CASE RemoveArchive(r)
  <2>1. UNCHANGED <<assets, objects, previews, relations>> /\ Plan' = Plan
    BY <1>1, PlanStays DEF RemoveArchive, imported, Next
  <2> QED BY <1>1, <2>1, RemovedWhenComplete DEF NothingIsMissing
<1>2. CASE ~RemoveArchive(r)
  <2>1. archive # "stored"
    BY <1>2, Untouched DEF DeleteArchive, CompleteInv, Completes, LateSteps
  <2>2. ~Importing(r) /\ ~InRollback(r)
    BY <2>1 DEF CompleteInv, Completes
  <2>3. UNCHANGED <<assets, objects, previews, relations>> /\ Plan' = Plan
    BY <2>2, Untouched, PlanStays DEF Next, Importing, InRollback, ImportSteps, RollbackSteps, InsertAsset, DeleteAssets,
       InsertRelation, DeleteRelations, StoreObject, StorePreview, RemoveFiles
  <2> QED BY <2>1, <2>3 DEF CompleteInv, NothingIsMissing
<1> QED BY <1>1, <1>2

LEMMA FilesStep ==
  ASSUME TypeInv, AloneInv, FreshInv, CompleteInv, "stall" \notin events, RollbacksEnd,
         NEW r \in Runs, RunNext(r), \A q \in Runs : ~Changing(q)'
  PROVE  AssetsHaveFiles'
<1>q. \A q \in Runs \ {r} : ~Changing(q)
  BY OthersRest DEF Changing, Live, LiveSteps, RollbackSteps
<1>1. CASE Changing(r)
  <2>1. DeleteAssets(r)
    <3>1. ~(DeleteRelations(r) \/ RemoveFiles(r))
      BY AtEffect, RemoveEffect DEF DeleteRelations, Changing, Steps, LiveSteps, RollbackSteps
    <3>2. ~Crash(r) /\ ~UndoRaises(r)
      BY <1>1 DEF Crash, UndoRaises, RollbacksEnd, FreshInv, InRollback, RollbackSteps, Changing
    <3> QED BY <1>1, <3>1, <3>2 DEF RunNext, Changing, Claim, Inspect, FindAsset, StoreObject, StorePreview, InsertAsset,
                FindRelation, InsertRelation, Raise, ListImported,
                RemoveArchive, DeleteArchive, Succeed, RaiseLate, FailJob, ImportSteps, LateSteps
  <2>2. assets' = {}
    BY <2>1 DEF DeleteAssets, AloneInv
  <2> QED BY <2>2 DEF AssetsHaveFiles
<1>2. CASE ~Changing(r)
  <2>1. AssetsHaveFiles
    BY <1>q, <1>2 DEF CompleteInv
  <2>2. objects \subseteq objects' /\ previews \subseteq previews'
    BY <1>2, Untouched DEF StoreObject, StorePreview, RemoveFiles, Changing
  <2>3. CASE InsertAsset(r)
    <3>1. /\ assets' = assets \union {New(r)} /\ New(r).item = Item(r)
          /\ New(r) \in objects /\ (Item(r).image # 0 => New(r) \in previews)
      BY <2>3, NewIsAsset DEF InsertAsset, CompleteInv, Completes
    <3> QED BY <2>1, <2>2, <3>1 DEF AssetsHaveFiles
  <2>4. CASE ~InsertAsset(r)
    <3>1. assets' \subseteq assets
      BY <2>4, Untouched DEF DeleteAssets
    <3> QED BY <2>1, <2>2, <3>1 DEF AssetsHaveFiles
  <2> QED BY <2>3, <2>4
<1> QED BY <1>1, <1>2

(* The matches that a run is done with.                                    *)
LEMMA RelatedStep ==
  ASSUME TypeInv, AloneInv, CompleteInv, "stall" \notin events, RollbacksEnd,
         NEW r \in Runs, RunNext(r), Importing(r)'
  PROVE  \A i \in Plan \ run'[r].todo : IsRelation(i) => Related(i)'
<1>a. Arrives(r)
  BY ArrivesBy
<1>e. {} \in SUBSET Assets
  OBVIOUS
<1>1. CASE Inspect(r)
  <2>1. run'[r].todo = Plan
    BY <1>1, InspectEffect DEF Importing, ImportSteps
  <2> QED BY <2>1
<1>2. CASE ~Inspect(r)
  <2>1. Importing(r)
    BY <1>2, <1>a DEF Arrives, Importing, ImportSteps, FindAsset, StoreObject, StorePreview, InsertAsset,
       FindRelation, InsertRelation
  <2>2. \A i \in Plan \ run[r].todo : IsRelation(i) => Related(i)
    BY <2>1 DEF CompleteInv, Completes
  <2>3. assets \subseteq assets' /\ relations \subseteq relations'
    BY <2>1, Untouched DEF InsertAsset, DeleteAssets, InsertRelation, DeleteRelations, Importing, ImportSteps
  <2>4. \A i : Related(i) => Related(i)'
    BY <2>3, RelatedStays
  <2>5. CASE run'[r].todo = run[r].todo
    BY <2>2, <2>4, <2>5
  <2>6. CASE run'[r].todo = run[r].todo \ {Item(r)} /\ ~IsRelation(Item(r))
    BY <2>2, <2>4, <2>6
  <2>7. CASE /\ run'[r].todo = run[r].todo \ {Item(r)} /\ IsRelation(Item(r)) /\ run[r].todo # {}
             /\ \E x \in relations' : x.source = Source(r) /\ x.target = Target(r)
    <3>1. /\ Source(r) \in run[r].known /\ Source(r).item = LabelItem(Item(r).label)
          /\ Target(r) \in run[r].known /\ Target(r).item = ImageItem(Item(r).image)
      BY <2>1, <2>7, EndsAreKnown
    <3>2. run[r].known \subseteq assets
      BY <2>1 DEF AloneInv
    <3>3. Source(r).item.label = Item(r).label /\ Target(r).item.image = Item(r).image
      BY <3>1 DEF LabelItem, ImageItem
    <3>4. {Source(r), Target(r)} \subseteq assets'
      BY <2>3, <3>1, <3>2
    <3>5. PICK x \in relations' : x.source = Source(r) /\ x.target = Target(r)
      BY <2>7
    <3> DEFINE j == Item(r)
    <3>6. ASSUME NEW i, i = Item(r) PROVE Related(i)'
      BY <3>3, <3>4, <3>5, <3>6 DEF Related
    <3> QED BY <2>2, <2>4, <2>7, <3>6
  <2>8. CASE FindAsset(r)
    <3>1. CASE At(r, "storing")
      BY <2>5, <3>1, AtEffect DEF Same, Steps, LiveSteps, ImportSteps
    <3>2. ASSUME NEW a \in Find(r), Proceed(r, {a})
          PROVE  run'[r].todo = run[r].todo \ {Item(r)} /\ ~IsRelation(Item(r))
      <4>1. {a} \in SUBSET Assets
        BY DEF Find, TypeInv, TypeOK
      <4> QED BY <2>8, <3>2, <4>1, ProceedEffect DEF FindAsset
    <3> QED BY <2>6, <2>8, <3>1, <3>2 DEF FindAsset
  <2>9. CASE InsertAsset(r)
    <3>1. {New(r)} \in SUBSET Assets /\ ~IsRelation(Item(r))
      BY <2>9, NewIsAsset DEF InsertAsset, TypeInv, Progress
    <3> QED BY <2>6, <2>9, <3>1, ProceedEffect DEF InsertAsset
  <2>10. CASE FindRelation(r)
    <3>1. CASE At(r, "relating")
      BY <2>5, <3>1, AtEffect DEF Same, Steps, LiveSteps, ImportSteps
    <3>2. CASE Proceed(r, {}) /\ \E x \in Rows(Source(r), Target(r)) : x.status = "active"
      <4>1. /\ run'[r].todo = run[r].todo \ {Item(r)} /\ IsRelation(Item(r)) /\ run[r].todo # {}
        BY <1>e, <2>10, <3>2, ProceedEffect DEF FindRelation
      <4>2. \E x \in relations' : x.source = Source(r) /\ x.target = Target(r)
        BY <2>3, <3>2 DEF Rows
      <4> QED BY <2>7, <4>1, <4>2
    <3> QED BY <2>10, <3>1, <3>2 DEF FindRelation
  <2>11. CASE InsertRelation(r)
    <3>1. run[r].todo # {} /\ IsRelation(Item(r))
      BY <2>11 DEF InsertRelation, TypeInv, Progress
    <3>2. ~At(r, "listing")
      BY AtEffect DEF Steps, LiveSteps, RollbackSteps, Importing, ImportSteps
    <3>3. Inserted(r) \in relations' /\ Proceed(r, {})
      BY <2>11, <3>2 DEF InsertRelation, Inserted
    <3>4. run'[r].todo = run[r].todo \ {Item(r)}
      BY <1>e, <3>3, ProceedEffect
    <3>5. Inserted(r).source = Source(r) /\ Inserted(r).target = Target(r)
      BY DEF Inserted
    <3> QED BY <2>7, <3>1, <3>3, <3>4, <3>5
  <2>12. CASE StoreObject(r) \/ StorePreview(r)
    BY <2>5, <2>12, AtEffect DEF StoreObject, StorePreview, Same, Steps, LiveSteps, ImportSteps
  <2> QED BY <1>2, <1>a, <2>8, <2>9, <2>10, <2>11, <2>12 DEF Arrives, Importing, ImportSteps
<1> QED BY <1>1, <1>2

LEMMA CompleteRun ==
  ASSUME TypeInv, AloneInv, FreshInv, CompleteInv, "stall" \notin events, RollbacksEnd,
         NEW r \in Runs, RunNext(r)
  PROVE  Completes(r)'
<1>a. Arrives(r)
  BY ArrivesBy
<1>c. Completes(r)
  BY DEF CompleteInv
<1>1. run'[r].at \in LateSteps => archive' # "stored"
  BY <1>a DEF Arrives, RemoveArchive, DeleteArchive, LateSteps
<1>2. Importing(r)' \/ InRollback(r)' => archive' = "stored"
  <2>1. CASE Inspect(r)
    <3>1. archive' = archive /\ run'[r].at \in {"importing", "failing"}
      BY <2>1, InspectEffect DEF Inspect
    <3>2. run'[r].at = "importing" => archive = "stored"
      BY <2>1, InspectEffect
    <3> QED BY <3>1, <3>2 DEF Importing, InRollback, ImportSteps, RollbackSteps
  <2>2. CASE ~Inspect(r)
    <3> SUFFICES ASSUME Importing(r)' \/ InRollback(r)' PROVE archive' = "stored"
      OBVIOUS
    <3>1. Importing(r) \/ InRollback(r)
      BY <1>a, <2>2 DEF Arrives, Importing, InRollback, ImportSteps, RollbackSteps, FindAsset, StoreObject,
         StorePreview, InsertAsset, FindRelation, InsertRelation, Raise, ListImported, RemoveFiles, DeleteRelations
    <3>2. ~(RemoveArchive(r) \/ DeleteArchive(r))
      BY AtEffect DEF RemoveArchive, DeleteArchive, Importing, InRollback, ImportSteps, RollbackSteps, LateSteps, Steps, LiveSteps
    <3> QED BY <1>c, <3>1, <3>2, Untouched DEF Completes
  <2> QED BY <2>1, <2>2
<1>6. Importing(r)' => \A i \in Plan' \ run'[r].todo : IsRelation(i) => Related(i)'
  BY RelatedStep, PlanStays DEF Next
<1>3. CASE StoreObject(r)
  <2>1. /\ run[r].at = "storing" /\ New(r) \in objects' /\ ~IsRelation(Item(r))
        /\ run'[r].at = IF Item(r).label = 0 THEN "previewing" ELSE "inserting"
        /\ Same(r)
    BY <1>3, AtEffect DEF StoreObject, TypeInv, Progress, Steps, LiveSteps, ImportSteps
  <2>2. Item(r)' = Item(r) /\ New(r)' = New(r)
    BY <2>1, PlanStays DEF Next, Same, New
  <2>3. run'[r].at = "inserting" => Item(r).image = 0
    BY <2>1 DEF IsRelation
  <2> QED BY <1>1, <1>2, <2>1, <2>2, <2>3, <1>6 DEF Completes
<1>4. CASE StorePreview(r)
  <2>1. /\ run[r].at = "previewing" /\ New(r) \in objects /\ New(r) \in previews' /\ objects' = objects
        /\ run'[r].at = "inserting" /\ Same(r)
    BY <1>3, <1>4, <1>c, AtEffect DEF StorePreview, Completes, Steps, LiveSteps, ImportSteps
  <2>2. Item(r)' = Item(r) /\ New(r)' = New(r)
    BY <2>1, PlanStays DEF Next, Same, New
  <2> QED BY <1>1, <1>2, <1>6, <2>1, <2>2 DEF Completes
<1>5. CASE ~(StoreObject(r) \/ StorePreview(r))
  <2>1. run'[r].at \notin {"previewing", "inserting"}
    BY <1>a, <1>5 DEF Arrives
  <2> QED BY <1>1, <1>2, <1>6, <2>1 DEF Completes
<1> QED BY <1>3, <1>4, <1>5

LEMMA CompleteStep == TypeInv /\ AloneInv /\ FreshInv /\ CompleteInv /\ [Next]_vars => CompleteInv'
<1> SUFFICES ASSUME TypeInv, AloneInv, FreshInv, CompleteInv, [Next]_vars, "stall" \notin events, RollbacksEnd
             PROVE  CompleteInv'
  BY PlanStays DEF CompleteInv, RollbacksEnd
<1>0. /\ archive # "stored" => NothingIsMissing
      /\ job = "succeeded" => archive # "stored"
      /\ (\A r \in Runs : ~Changing(r)) => AssetsHaveFiles
      /\ \A r \in Runs : Completes(r)
  BY DEF CompleteInv
<1>1. ASSUME NEW r \in Runs, RunNext(r) PROVE CompleteInv'
  <2>1. archive' # "stored" => NothingIsMissing'
    BY <1>1, MissingStep
  <2>2. job' = "succeeded" => archive' # "stored"
    <3>1. CASE Succeed(r)
      BY <1>0, <3>1 DEF Succeed, Completes, LateSteps
    <3>2. CASE ~Succeed(r)
      <4>1. job' = "succeeded" => job = "succeeded"
        BY <1>1, <3>2, Untouched DEF Claim, FailJob
      <4>2. archive # "stored" => archive' # "stored"
        BY <1>1, Untouched DEF RemoveArchive, DeleteArchive
      <4> QED BY <1>0, <4>1, <4>2
    <3> QED BY <3>1, <3>2
  <2>3. (\A q \in Runs : ~Changing(q)') => AssetsHaveFiles'
    BY <1>1, FilesStep
  <2>4. Completes(r)'
    BY <1>1, CompleteRun
  <2>5. ASSUME NEW q \in Runs \ {r} PROVE Completes(q)'
    <3>1. run'[q] = run[q] /\ ~Live(q)
      BY <1>1, OthersRest
    <3>2. run'[q].at \notin ImportSteps \union RollbackSteps \union LateSteps
      BY <3>1 DEF Live, LiveSteps
    <3> QED BY <3>2 DEF Completes, Importing, InRollback, ImportSteps
  <2> QED BY <2>1, <2>2, <2>3, <2>4, <2>5 DEF CompleteInv
<1>2. CASE GiveUp \/ Revoke \/ Relate \/ UNCHANGED vars
  <2>1. /\ UNCHANGED <<archive, assets, objects, previews, run>> /\ Plan' = Plan
        /\ job' = "succeeded" => job = "succeeded"
    BY <1>2, PlanStays DEF GiveUp, Revoke, Relate, vars, imported
  <2>2. \A x \in relations : \E y \in relations' : y.source = x.source /\ y.target = x.target
    <3>1. CASE Revoke
      BY <3>1, RevokedRow
    <3>2. CASE Relate
      BY <3>2, RelatedRow
    <3>3. CASE GiveUp \/ UNCHANGED vars
      BY <3>3 DEF GiveUp, vars, imported
    <3> QED BY <1>2, <3>1, <3>2, <3>3
  <2>3. \A i : Related(i) => Related(i)'
    BY <2>1, <2>2, RelatedStays
  <2>4. /\ AssetsHaveFiles' = AssetsHaveFiles
        /\ NothingIsMissing => NothingIsMissing'
    <3>1. AssetsHaveFiles' = AssetsHaveFiles
      BY <2>1 DEF AssetsHaveFiles
    <3>2. ASSUME NothingIsMissing PROVE NothingIsMissing'
      <4>1. /\ \A i \in Plan : IF IsRelation(i) THEN Related(i) ELSE \E a \in assets : a.item = i
            /\ AssetsHaveFiles
        BY <3>2, MissingMeans
      <4>2. \A i \in Plan : IF IsRelation(i) THEN Related(i)' ELSE \E a \in assets' : a.item = i
        BY <2>1, <2>3, <4>1
      <4>3. AssetsHaveFiles'
        BY <3>1, <4>1
      <4> QED BY <2>1, <4>2, <4>3 DEF NothingIsMissing, Related, AssetsHaveFiles
    <3> QED BY <3>1, <3>2
  <2>5. ASSUME NEW r \in Runs
        PROVE  Completes(r)'
    <3>1. Item(r)' = Item(r) /\ New(r)' = New(r)
      BY <2>1, PlanStays DEF New
    <3> QED BY <1>0, <2>1, <2>3, <3>1 DEF Completes, Importing, InRollback
  <2>6. \A r \in Runs : Changing(r)' = Changing(r)
    BY <2>1 DEF Changing
  <2> QED BY <1>0, <2>1, <2>4, <2>5, <2>6 DEF CompleteInv
<1> QED BY <1>1, <1>2 DEF Next

-----------------------------------------------------------------------------
(* The inductive invariant, and what follows from it.                      *)

ImportInv == TypeInv /\ AloneInv /\ DanglesInv /\ SinglesInv /\ UndoneInv /\ FreshInv /\ CompleteInv

LEMMA ImportInvariant == Spec => []ImportInv
<1>1. Init => ImportInv
  BY TypeInit, AloneInit, DanglesInit, SinglesInit, UndoneInit, FreshInit, CompleteInit DEF ImportInv
<1>2. ImportInv /\ [Next]_vars => ImportInv'
  BY TypeStep, AloneStep, DanglesStep, SinglesStep, UndoneStep, FreshStep, CompleteStep DEF ImportInv
<1> QED BY <1>1, <1>2, PTL DEF Spec

(* When the job has succeeded, or the archive is gone for good, every      *)
(* entry that counts is an asset with its files and every match is a       *)
(* relation: whatever failed or interrupted runs left behind, unless a     *)
(* rollback stopped half-way or two runs overlapped.                       *)
THEOREM ImportsEndComplete == Spec => []ImportsAreComplete
<1>1. ImportInv => ImportsAreComplete
  BY DEF ImportInv, CompleteInv, ImportsAreComplete
<1> QED BY <1>1, ImportInvariant, PTL

(* The YOLO import creates no asset twice as long as two runs do not       *)
(* overlap, a document import as long as every failed run is rolled back;  *)
(* and no image ever has annotations imported from two entries.            *)
THEOREM ImportsStaySingle == Spec => []ImportsAreSingle
<1>1. ASSUME ImportInv PROVE ImportsAreSingle
  <2>1. format = "YOLO" /\ "stall" \notin events => EntriesAreSingle
    BY <1>1 DEF ImportInv, SinglesInv
  <2>2. Undone => EntriesAreSingle
    <3> SUFFICES ASSUME Undone, NEW a \in assets, NEW b \in assets, a.item = b.item PROVE a = b
      BY DEF EntriesAreSingle
    <3>1. a.run = b.run /\ a \in Assets /\ b \in Assets
      BY <1>1 DEF ImportInv, UndoneInv, TypeInv, TypeOK
    <3> QED BY <3>1 DEF Assets
  <2>3. ImagesHaveOneSource
    <3> SUFFICES ASSUME NEW x \in relations, NEW y \in relations, x.target.item = y.target.item,
                        x.provenance = "cvat_import", y.provenance = "cvat_import"
                 PROVE  x.source.item = y.source.item
      BY DEF ImagesHaveOneSource
    <3>1. /\ Match(x) \in Plan /\ IsRelation(Match(x)) /\ x.source.item = LabelItem(Match(x).label)
          /\ Match(y) \in Plan /\ IsRelation(Match(y)) /\ y.source.item = LabelItem(Match(y).label)
          /\ ContentsInv
      BY <1>1 DEF ImportInv, TypeInv, MatchesInv
    <3>2. Match(x).image = Match(y).image
      BY DEF Match
    <3>3. Match(x).label = Match(y).label
      BY <3>1, <3>2, PlanHasOneSource
    <3> QED BY <3>1, <3>3
  <2> QED BY <2>1, <2>2, <2>3 DEF ImportsAreSingle
<1> QED BY <1>1, ImportInvariant, PTL

(* A failed import that was rolled back leaves no asset and no relation of *)
(* its own, and of each run the files of one entry at most; and no         *)
(* relation outlives its assets, however runs fail or end.                 *)
THEOREM FailedImportsGo == Spec => []FailedImportsVanish
<1>1. ASSUME ImportInv PROVE FailedImportsVanish
  <2>1. ASSUME job = "failed", Quiet, Undone PROVE NothingStays
    <3>1. /\ assets = {} /\ OnlyUsers /\ \A r \in Runs : Undoable(r)
          /\ objects \subseteq Assets /\ previews \subseteq Assets /\ run \in [Runs -> Run]
      BY <1>1, <2>1 DEF ImportInv, UndoneInv, TypeInv, TypeOK
    <3>2. \A r \in Runs : Single(Stored(r))
      <4>1. \A r \in Runs : run[r].at \in {"waiting", "ended"}
        BY <2>1, <3>1 DEF Quiet, Live, Run, Steps
      <4> QED BY <2>1, <3>1, <4>1 DEF Undoable, Single
    <3>3. \A a, b \in objects \union previews : a.run = b.run => a = b
      <4> SUFFICES ASSUME NEW a \in objects \union previews, NEW b \in objects \union previews, a.run = b.run
                   PROVE  a = b
        OBVIOUS
      <4>1. a.run \in Runs
        BY <3>1 DEF Assets
      <4>2. a \in Stored(a.run) /\ b \in Stored(a.run)
        BY DEF Stored
      <4> QED BY <3>2, <4>1, <4>2 DEF Single
    <3> QED BY <3>1, <3>3 DEF NothingStays, OnlyUsers
  <2>2. events \intersect {"stall", "relate"} = {} => NothingDangles
    BY <1>1 DEF ImportInv, DanglesInv
  <2> QED BY <2>1, <2>2 DEF FailedImportsVanish
<1> QED BY <1>1, ImportInvariant, PTL
=============================================================================
