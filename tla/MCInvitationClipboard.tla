----------------------- MODULE MCInvitationClipboard ------------------------
(* InvitationClipboard for TLC: its constants are numbers, in the .cfg file. *)
EXTENDS InvitationClipboard
=============================================================================
