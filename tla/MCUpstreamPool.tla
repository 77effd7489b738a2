--------------------------- MODULE MCUpstreamPool ---------------------------
(***************************************************************************)
(* The upstream pool on small instances.  A configuration bounds the sets  *)
(* and picks, as Kinds, which requests and faults meet the demands; they   *)
(* are grouped here by the part of the pool that they disturb.             *)
(***************************************************************************)
EXTENDS UpstreamPool, TLC

UpdateFaults    == {"update"}
RecoveryFaults  == {"connect", "relaunch", "reap", "callfails", "succeed", "rotate", "evict", "sync"}
LifecycleEvents == {"enable", "disable", "mode", "sync", "update", "delete"}
DroppedFaults   == {"disconnect", "connect", "callfails", "evict", "update", "disable"}
DanglingEvents  == {"mode", "sync"}

\* Requests, configurations and secrets are compared and never chosen, so each may
\* be exchanged for another of its kind.
ValueSymmetry == Permutations(Callers) \union Permutations(Versions) \union Permutations(Secrets)

=============================================================================
