---------------------------- MODULE MCMembership ----------------------------
(***************************************************************************)
(* The instance TLC checks Membership on.                                  *)
(***************************************************************************)
EXTENDS Membership, TLC

AnyUserAnyRequest == Permutations(Users) \cup Permutations(Requests)
=============================================================================
