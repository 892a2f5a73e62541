---------------------------- MODULE MCSubnetActor ----------------------------
(***************************************************************************)
(* Small instances of SubnetActor. The validators are model values; they   *)
(* are interchangeable unless a run singles some out, and a run without    *)
(* liveness properties may take one state per permutation of them.         *)
(***************************************************************************)
EXTENDS SubnetActor, TLC

Symmetry == Permutations(Validator)
=============================================================================
