---------------------------- MODULE MCPaneViews -----------------------------
(* The instance of PaneViews for TLC; its constants are in the cfg files. *)
EXTENDS PaneViews
=============================================================================
