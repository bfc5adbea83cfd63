--------------------------- MODULE MCSidecarClient ---------------------------
(* Instances of SidecarClient for TLC. *)
EXTENDS SidecarClient, TLC

Symmetric == Permutations(Calls)
=============================================================================
