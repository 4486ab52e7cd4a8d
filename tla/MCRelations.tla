---------------------------- MODULE MCRelations ----------------------------
(* Environments for the model-checking runs of Relations.                  *)
EXTENDS Relations, TLC

(* One request after the other.                                            *)
Compensated == {"relate", "members", "error"}
Copied == {"members", "copy", "error"}
Matched == {"match", "error"}
Deleted == {"delete", "link", "relate"}
Dropped == {"drop", "delete", "link", "copy"}

(* Requests that overlap.                                                  *)
RelatedTogether == {"together", "relate", "link"}
MembersTogether == {"together", "members", "link", "error"}
DeletedTogether == {"together", "delete", "deletions", "drop"}
DeletedWhileLinked == {"together", "delete", "link"}

(* With failures that nothing compensates.                                 *)
Interrupted == {"relate", "error", "twice", "crash"}

EveryEnvironment ==
  {Compensated, Copied, Matched, Deleted, Dropped, RelatedTogether, MembersTogether, DeletedTogether,
   DeletedWhileLinked, Interrupted}

(* A relation is made or revoked while members change, or is revoked in    *)
(* vain; two deletions meet; an image is deleted.                          *)
SynchronisedTogether == {{"together", "relate", "members"}}
RevocationFails == {{"together", "relate", "error"}}
BothDeleted == {{"together", "delete", "deletions"}}
ImagesDeleted == {{"relate", "members", "delete"}}

Symmetry ==
  Permutations(Images) \union Permutations(Annotations) \union Permutations(Datasets)
    \union Permutations(Requests) \union Permutations(Stems)
=============================================================================
