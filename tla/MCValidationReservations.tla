---------------------- MODULE MCValidationReservations ----------------------
(* Small instances of ValidationReservations for TLC: requests and upstreams are interchangeable. *)
EXTENDS ValidationReservations, TLC

Symmetry == Permutations(Requests) \cup Permutations(Services)
=============================================================================
