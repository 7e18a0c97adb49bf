----------------------------- MODULE MCTerminal -----------------------------
(* The instance of TerminalClient for TLC; its constants are in the cfg. *)
EXTENDS TerminalClient
=============================================================================
