--------------------------- MODULE MCWithdrawals ---------------------------
(***************************************************************************)
(* A small instance of Withdrawals for TLC: two withdrawals, two keys and  *)
(* two overlapping handlers.  An admin who acts on a withdrawal whose       *)
(* payout is under way, or that has failed, does so on the gateway's word. *)
(***************************************************************************)
EXTENDS Withdrawals, TLC

Symmetry == Permutations(Workers) \cup Permutations(Keys) \cup Permutations(Ids)
=============================================================================
