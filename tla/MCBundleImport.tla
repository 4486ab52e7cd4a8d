--------------------------- MODULE MCBundleImport ---------------------------
(* Environments for the model-checking run of BundleImport.                *)
EXTENDS BundleImport, TLC

Failing == {"error", "revoke", "relate"}
FailingLate == {"late_error", "revoke"}
FailingTwice == {"error", "undo_error"}
Crashing == {"crash", "late_error"}
CrashingAndUsed == {"crash", "revoke"}
CrashingBack == {"crash", "error"}
Stalling == {"stall"}

EveryEnvironment ==
  {Failing, FailingLate, FailingTwice, Crashing, CrashingAndUsed, CrashingBack, Stalling}

Symmetry == Permutations(Runs)
=============================================================================
