---------------------------- MODULE MCFolderTree ----------------------------
(***************************************************************************)
(* The instance TLC checks FolderTree on.                                  *)
(***************************************************************************)
EXTENDS FolderTree
=============================================================================
