-------------------------- MODULE MCParentAndChild --------------------------
(***************************************************************************)
(* Small instances of a subnet actor with its child.                       *)
(***************************************************************************)
EXTENDS ParentAndChild, TLC

Symmetry == Permutations(Validator)
=============================================================================
