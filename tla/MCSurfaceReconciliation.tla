---------------------- MODULE MCSurfaceReconciliation ----------------------
(***************************************************************************)
(* The reconciliation of surfaces on small instances.                     *)
(***************************************************************************)
EXTENDS SurfaceReconciliation, TLC

\* Nothing chooses between workers or between servers; the liveness run does without.
Symmetry == Permutations(Workers) \union Permutations(Servers)
=============================================================================
