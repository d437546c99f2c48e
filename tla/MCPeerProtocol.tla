--------------------------- MODULE MCPeerProtocol ---------------------------
(* PeerProtocol for TLC: its constants are numbers, in the .cfg files.     *)
EXTENDS PeerProtocol
=============================================================================
