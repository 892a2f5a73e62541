----------------------------- MODULE MCCrossNet -----------------------------
(***************************************************************************)
(* Small instances of the funds between a parent and its child.            *)
(***************************************************************************)
EXTENDS CrossNet, TLC
=============================================================================
