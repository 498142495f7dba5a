--------------------------- MODULE MCPackageCache ---------------------------
(***************************************************************************)
(* The instance TLC checks PackageCache on.                                *)
(***************************************************************************)
EXTENDS PackageCache, TLC

=============================================================================
