--------------------------- MODULE MCWorkspacePages ---------------------------
(* Two accounts, one of them with a workspace id in its row. *)
EXTENDS WorkspacePages

MCSpec == PagesInit /\ [][PagesNext]_pagesVars
=============================================================================
