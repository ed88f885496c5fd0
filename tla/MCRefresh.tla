----------------------------- MODULE MCRefresh -----------------------------
(***************************************************************************)
(* A small instance of RefreshRotation for TLC: three tabs.                *)
(***************************************************************************)
EXTENDS RefreshRotation, TLC

Symmetry == Permutations(Requests)
=============================================================================
