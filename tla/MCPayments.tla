----------------------------- MODULE MCPayments -----------------------------
(***************************************************************************)
(* Small instances of Payments: one buyer, one payment at each gateway or  *)
(* one alone, and two or three callbacks.                                  *)
(***************************************************************************)
EXTENDS Payments, TLC

CONSTANTS buyer

MCAccount == {buyer}
MCInitBalance == buyer :> 0
MCOp == Payment \X {"deposit", "bonus"}

(* A payment is named after its gateway.                                   *)
MCGateway == [p \in Payment |-> p]
MCUser == [p \in Payment |-> buyer]
MCAmount == [p \in Payment |-> 4]
MCBonus == [p \in Payment |-> 1]
=============================================================================
