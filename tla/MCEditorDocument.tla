-------------------------- MODULE MCEditorDocument --------------------------
(***************************************************************************)
(* The instance TLC checks EditorDocument on.                              *)
(***************************************************************************)
EXTENDS EditorDocument, TLC

Places == Permutations(Calls)

\* Every property excepts what happens after a call of an earlier page went on.
NotCrossed == ~crossed

=============================================================================
