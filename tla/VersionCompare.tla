--------------------------- MODULE VersionCompare ---------------------------
(***************************************************************************)
(* compare_version_memberships: two cursors over the members of two        *)
(* dataset versions, sorted by asset id, are merged in one pass; the       *)
(* differences are counted, and the first detail_limit of them are kept    *)
(* for the response.                                                       *)
(*                                                                         *)
(* Asset ids are numbers in their sort order; a snapshot is an opaque      *)
(* value, and Absent means that the version has no row for the asset.  The *)
(* unique index on (version, asset) gives a version one row per asset.     *)
(***************************************************************************)
EXTENDS Integers, FiniteSets

CONSTANTS
  Ids,          \* the asset ids
  Snapshots,    \* what a version can record of an asset
  Absent,       \* no row
  DetailLimit   \* detail_limit, 1000 in the code

ASSUME IdsAssumption == Ids \subseteq Nat /\ IsFiniteSet(Ids)
ASSUME AbsentAssumption == Absent \notin Snapshots
ASSUME DetailLimitAssumption == DetailLimit \in Nat

VARIABLES
  before, after,            \* the rows of the two versions
  rest_before, rest_after,  \* the ids each cursor has still to deliver
  added, removed, changed,  \* the details kept
  counts,                   \* the counters of the response
  returned,                 \* how many details were kept
  answered,                 \* is the response built?
  truncated                 \* its flag

comparison == <<before, after, rest_before, rest_after, added, removed, changed, counts,
                returned, answered, truncated>>

compared == <<before, after>>
response == <<answered, truncated>>

Rows == [Ids -> Snapshots \union {Absent}]

Members(rows) == {a \in Ids : rows[a] # Absent}

CountNames == {"added", "removed", "unchanged", "changed"}

CompareTypeOK ==
  /\ before \in Rows
  /\ after \in Rows
  /\ rest_before \in SUBSET Ids
  /\ rest_after \in SUBSET Ids
  /\ added \in SUBSET Ids
  /\ removed \in SUBSET Ids
  /\ changed \in SUBSET Ids
  /\ counts \in [CountNames -> Nat]
  /\ returned \in 0 .. DetailLimit
  /\ answered \in BOOLEAN
  /\ truncated \in BOOLEAN

CompareInit ==
  /\ before \in Rows
  /\ after \in Rows
  /\ rest_before = Members(before)
  /\ rest_after = Members(after)
  /\ added = {}
  /\ removed = {}
  /\ changed = {}
  /\ counts = [c \in CountNames |-> 0]
  /\ returned = 0
  /\ answered = FALSE
  /\ truncated = FALSE

-----------------------------------------------------------------------------
(* The id a cursor delivers next.                                          *)
IsNext(a, rest) == a \in rest /\ \A b \in rest : a <= b

Count(name) == counts' = [counts EXCEPT ![name] = @ + 1]

(* Slip: one detail too many.                                              *)
RoomAtLimit == returned <= DetailLimit

Room == returned < DetailLimit

(* A detail is kept while there is room.                                   *)
Keep(details, a) ==
  IF Room
    THEN details' = details \union {a} /\ returned' = returned + 1
    ELSE UNCHANGED <<details, returned>>

(* Slip: taking an equal id for an earlier one.                            *)
AheadOrEqual(a, rest) == \A b \in rest : a <= b

(* a comes before everything the other cursor still has, or the other      *)
(* cursor is exhausted.                                                    *)
Ahead(a, rest) == \A b \in rest : a < b

Added ==
  /\ \E a \in rest_after :
       /\ IsNext(a, rest_after)
       /\ Ahead(a, rest_before)
       /\ Count("added")
       /\ Keep(added, a)
       /\ rest_after' = rest_after \ {a}
  /\ UNCHANGED <<compared, rest_before, removed, changed, response>>

Removed ==
  /\ \E a \in rest_before :
       /\ IsNext(a, rest_before)
       /\ Ahead(a, rest_after)
       /\ Count("removed")
       /\ Keep(removed, a)
       /\ rest_before' = rest_before \ {a}
  /\ UNCHANGED <<compared, rest_after, added, changed, response>>

Matched ==
  /\ \E a \in rest_before \intersect rest_after :
       /\ IsNext(a, rest_before)
       /\ IsNext(a, rest_after)
       /\ IF before[a] = after[a]
            THEN Count("unchanged") /\ UNCHANGED <<changed, returned>>
            ELSE Count("changed") /\ Keep(changed, a)
       /\ rest_before' = rest_before \ {a}
       /\ rest_after' = rest_after \ {a}
  /\ UNCHANGED <<compared, added, removed, response>>

TotalChanged == counts["added"] + counts["removed"] + counts["changed"]

Truncated == TotalChanged > returned

Respond ==
  /\ rest_before = {}
  /\ rest_after = {}
  /\ ~answered
  /\ answered' = TRUE
  /\ truncated' = Truncated
  /\ UNCHANGED <<compared, rest_before, rest_after, added, removed, changed, counts, returned>>

CompareNext == Added \/ Removed \/ Matched \/ Respond

CompareSpec == CompareInit /\ [][CompareNext]_comparison

-----------------------------------------------------------------------------
(* Reference definitions.                                                  *)

AddedIds == Members(after) \ Members(before)
RemovedIds == Members(before) \ Members(after)
CommonIds == Members(before) \intersect Members(after)
ChangedIds == {a \in CommonIds : before[a] # after[a]}
UnchangedIds == CommonIds \ ChangedIds
DifferentIds == AddedIds \union RemovedIds \union ChangedIds

Shown == added \union removed \union changed

(* Properties.                                                             *)

(* The four counters of the response are the sizes of the four classes of  *)
(* assets, over all members of both versions, not only the details shown.  *)
CountsAreExact ==
  answered =>
    /\ counts["added"] = Cardinality(AddedIds)
    /\ counts["removed"] = Cardinality(RemovedIds)
    /\ counts["changed"] = Cardinality(ChangedIds)
    /\ counts["unchanged"] = Cardinality(UnchangedIds)

(* Every detail shown stands in the list it belongs to, and the details    *)
(* are the first differences in id order, without a gap.                   *)
DetailsAreFirst ==
  /\ added \subseteq AddedIds
  /\ removed \subseteq RemovedIds
  /\ changed \subseteq ChangedIds
  /\ answered => \A a \in Shown, b \in DifferentIds : b < a => b \in Shown

(* The response says it is truncated exactly when a difference is missing  *)
(* from the details.                                                       *)
TruncatedIsHonest == answered => (truncated <=> Shown # DifferentIds)

(* The answer is right: the streaming merge gives what comparing the two   *)
(* member lists as sets would give.                                        *)
AnswerIsRight == CountsAreExact /\ DetailsAreFirst /\ TruncatedIsHonest

-----------------------------------------------------------------------------
(* What has been merged so far.                                            *)

Seen(S) == S \ (rest_before \union rest_after)

MergeInv ==
  /\ rest_before \subseteq Members(before)
  /\ rest_after \subseteq Members(after)
  /\ \A a \in Ids, b \in rest_before \union rest_after :
       a \in Members(before) \union Members(after) /\ a \notin rest_before \union rest_after
         => a < b
  /\ \A a \in CommonIds : a \in rest_before <=> a \in rest_after
  /\ counts["added"] = Cardinality(Seen(AddedIds))
  /\ counts["removed"] = Cardinality(Seen(RemovedIds))
  /\ counts["changed"] = Cardinality(Seen(ChangedIds))
  /\ counts["unchanged"] = Cardinality(Seen(UnchangedIds))
  /\ added \subseteq Seen(AddedIds)
  /\ removed \subseteq Seen(RemovedIds)
  /\ changed \subseteq Seen(ChangedIds)
  /\ returned = Cardinality(Shown)
  /\ returned < DetailLimit => Shown = Seen(DifferentIds)
  /\ \A a \in Shown, b \in Seen(DifferentIds) : b < a => b \in Shown
  /\ answered => /\ rest_before = {}
             /\ rest_after = {}
             /\ truncated = (Cardinality(Shown) < Cardinality(DifferentIds))
=============================================================================
