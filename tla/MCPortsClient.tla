--------------------------- MODULE MCPortsClient ---------------------------
(* Instances of PortsClient for TLC. *)
EXTENDS PortsClient, TLC

CONSTANTS l1, l2, p1

(* Two listens (TCP and UDP, say) of one port. *)
SamePort == l1 :> p1 @@ l2 :> p1

(* Containers, watcher slots, and the listens of SamePort are interchangeable. *)
Symmetry == Permutations(W) \cup Permutations(Listen) \cup Permutations(Container)

(* One listen. *)
OnePort == l1 :> p1
=============================================================================
