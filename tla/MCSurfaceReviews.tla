-------------------------- MODULE MCSurfaceReviews --------------------------
(* Small instances of SurfaceReviews for TLC: refs and versions are only compared. *)
EXTENDS SurfaceReviews, TLC

Symmetry == Permutations(Refs) \cup Permutations(Versions)
=============================================================================
