------------------------------ MODULE MCQuorum ------------------------------
(***************************************************************************)
(* Small instances of the quorums over checkpoints.                        *)
(***************************************************************************)
EXTENDS LibQuorum, TLC

Symmetry == Permutations(Validator)
=============================================================================
