------------------------------ MODULE MCDeploy ------------------------------
(* Small instances of Deploy for TLC.                                      *)
EXTENDS DeployProperties, TLC

CONSTANT Exotic  \* policies that need a capability no node advertises

MCUnsupported == Node \X (Exotic \cap Policy)
Symmetry == Permutations(Task)
=============================================================================
