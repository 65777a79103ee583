------------------------------ MODULE MCWallet ------------------------------
(***************************************************************************)
(* Small instances of Wallet: two buyers, the manager of their workspace   *)
(* and the workspace's treasury.                                           *)
(***************************************************************************)
EXTENDS Wallet, TLC

CONSTANTS alice, bob, boss, treasury

MCAccount == {alice, bob, boss, treasury}

MCInitBalance == alice :> 3 @@ bob :> 2 @@ boss :> 0 @@ treasury :> 1

(* A sale to each buyer, the refund of one of them, and an administrator   *)
(* forcing the balance of the manager, on whom the legs meet.              *)
SaleJobs == "buy"    :> Purchase(alice, {boss}, 2)
         @@ "buy2"   :> Purchase(bob, {boss}, 2)
         @@ "refund" :> RefundOf(alice, {boss}, 2)
         @@ "set"    :> SetTo(boss, 1)

(* Operations that meet on one treasury: the cost of a sale, a top-up, a   *)
(* withdrawal, an administrator forcing the balance, and an empty request. *)
TreasuryJobs == "cost"  :> CostOfGoods(treasury, 3)
             @@ "topup" :> Credit(treasury, 1)
             @@ "debit" :> Debit(treasury, 1)
             @@ "set"   :> SetTo(treasury, 2)
             @@ "none"  :> Credit(treasury, 0)
=============================================================================
