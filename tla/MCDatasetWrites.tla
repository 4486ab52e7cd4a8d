-------------------------- MODULE MCDatasetWrites --------------------------
(* Environments and symmetry for the model-checking runs of DatasetWrites. *)
EXTENDS DatasetWrites, TLC

Interchangeable == Permutations(Writers) \union Permutations(Assets)

AllButRenewal == EventKinds \ {"renew_fails"}

(* A renewal raises; a publication is cut short.                           *)
RenewalFails == {{"renew_fails"}}
Interrupted == {{"crash"}}

EveryEnvironment == {AllButRenewal, {"error"}, {"crash", "renew_fails"}}
=============================================================================
