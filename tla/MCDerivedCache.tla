--------------------------- MODULE MCDerivedCache ---------------------------
(* Small instances of DerivedCache for TLC: readers and flights are interchangeable. *)
EXTENDS DerivedCache, TLC

Symmetry == Permutations(Readers) \cup Permutations(Flights)
=============================================================================
