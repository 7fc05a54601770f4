----------------------- MODULE MCDeploymentLifecycle -----------------------
(***************************************************************************)
(* Small instances of DeploymentLifecycle for TLC.                         *)
(***************************************************************************)
EXTENDS DeploymentLifecycle, TLC

CONSTANTS r1, r2

Symmetry == Permutations({r1, r2})
=============================================================================
