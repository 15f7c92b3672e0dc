--------------------------- MODULE MCPeerManager ---------------------------
(* Instances of PeerManager for TLC. *)
EXTENDS PeerManager
=============================================================================
