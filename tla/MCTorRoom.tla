----------------------------- MODULE MCTorRoom -----------------------------
(* TorRoom for TLC: its constants are numbers, given in the .cfg files.    *)
EXTENDS TorRoom
=============================================================================
