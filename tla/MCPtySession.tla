---------------------------- MODULE MCPtySession ----------------------------
(* The instance of PtySession for TLC; its constants are in the cfg files. *)
EXTENDS PtySession
=============================================================================
