-------------------------- MODULE MCAssetObjects --------------------------
(* Environments for the model-checking runs of AssetObjects.               *)
EXTENDS AssetObjects, TLC

(* A worker that runs one task at a time.                                  *)
SoloOverwriting == {"trash", "busy", "overwrite", "error", "twins"}
SoloHashing == {"trash", "busy", "error", "hash"}
SoloRestoring == {"trash", "restore", "twins"}

(* A worker with a pool of processes.                                      *)
PoolHashing == {"pool", "hash", "error"}
PoolTrash == {"pool", "trash", "busy", "twins"}

EveryEnvironment == {SoloOverwriting, SoloHashing, SoloRestoring, PoolHashing, PoolTrash}

TwinsHashed == {{"hash", "twins"}}

Symmetry == Permutations(Uploads) \union Permutations(Contents)
=============================================================================
