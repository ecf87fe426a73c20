----------------------------- MODULE MCPeerRoom -----------------------------
(* Peers of one lobby. *)
EXTENDS PeerRoom, TLC
=============================================================================
