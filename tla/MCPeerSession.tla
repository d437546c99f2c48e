--------------------------- MODULE MCPeerSession ---------------------------
(* PeerSession on small sets of connections, with the connections           *)
(* interchangeable where only safety is checked.                            *)
EXTENDS PeerSessionInv, TLC

Symmetry == Permutations(Conns)

=============================================================================
