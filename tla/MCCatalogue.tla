---------------------------- MODULE MCCatalogue ----------------------------
(* Environments for the model-checking run of Catalogue.                   *)
EXTENDS Catalogue, TLC

EveryEnvironment ==
  {{"metrics"}, {"tags", "crash"}, {"formats", "crash"}, {"metrics", "crash"}}

(* Requests that overlap.                                                  *)
TagsTogether == {{"tags", "together"}}
MetricsTogether == {{"metrics", "together"}}

Symmetry == Permutations(Requests) \union Permutations(Values)
=============================================================================
