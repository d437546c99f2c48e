--------------------------- MODULE MCAppFrontend ---------------------------
(* AppFrontend for TLC.  Its constants are numbers, given by the .cfg files: *)
(* small limits, so that batches are cut and the queue and the history fill. *)
EXTENDS AppFrontend
=============================================================================
