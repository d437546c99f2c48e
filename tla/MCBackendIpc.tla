---------------------------- MODULE MCBackendIpc ----------------------------
(* BackendIpc for TLC: its constants are in the .cfg files.                 *)
EXTENDS BackendIpc
=============================================================================
