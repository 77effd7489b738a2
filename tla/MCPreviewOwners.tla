-------------------------- MODULE MCPreviewOwners ---------------------------
(* Small instances of PreviewOwners for TLC: launches, requests and prints are only compared. *)
EXTENDS PreviewOwners, TLC

Symmetry == Permutations(Starts) \cup Permutations(Previews) \cup Permutations(Demands) \cup Permutations(Prints)
=============================================================================
