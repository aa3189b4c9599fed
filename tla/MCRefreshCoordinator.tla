------------------------ MODULE MCRefreshCoordinator ------------------------
(* Small instances of RefreshCoordinator: see the .cfg files. *)
EXTENDS RefreshCoordinator
=============================================================================
