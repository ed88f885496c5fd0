----------------------------- MODULE MCPayment -----------------------------
(***************************************************************************)
(* A small instance of PaymentCapture for TLC: two orders of one client,   *)
(* worth different amounts, and two overlapping handlers, of one order or  *)
(* of both.                                                                *)
(***************************************************************************)
EXTENDS PaymentCapture, TLC

CONSTANTS o1, o2

MCAmount == o1 :> 1 @@ o2 :> 2
=============================================================================
