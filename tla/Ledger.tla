------------------------------- MODULE Ledger -------------------------------
(***************************************************************************)
(* What WalletService and WorkspaceWalletService promise, seen from the    *)
(* committed database: each requested operation happens at most once, all  *)
(* its legs in one step, and never overdraws an account it may not         *)
(* overdraw.  Wallet is the same services step by step and implements this *)
(* module.                                                                 *)
(*                                                                         *)
(* A job is [kind, order, amount, over]: order is the accounts in the      *)
(* order applyDelta takes them, amount the signed change of each (for a    *)
(* job of kind "set", the balance to reach), over whether it may leave an  *)
(* account negative.                                                       *)
(***************************************************************************)
EXTENDS Books

CONSTANTS Job,      \* the operation each element of Op stands for
          Serial    \* TRUE on SQLite, whose transactions run one at a time

Touched(o) == {Job[o].order[i] : i \in 1..Len(Job[o].order)}

ASSUME LedgerAssumption ==
    /\ Serial \in BOOLEAN
    /\ DOMAIN Job = Op
    /\ \A o \in Op :
         /\ Job[o].kind \in {"delta", "set"}
         /\ Job[o].over \in BOOLEAN
         /\ Job[o].order \in Seq(Account)
         /\ Job[o].order # <<>>
         /\ \A i, j \in 1..Len(Job[o].order) :
               Job[o].order[i] = Job[o].order[j] => i = j
         /\ Job[o].amount \in [Touched(o) -> Int]
         /\ Job[o].kind = "set" => Len(Job[o].order) = 1

(* The balances account a has had.                                         *)
History(a) ==
    {InitBalance[a]} \cup {ledger[a][i].after : i \in 1..Len(ledger[a])}

(* SetBalanceWithMeta and SetTreasury compute target - balance and hand it *)
(* to applyDelta, which reads the balance again.  Where transactions are   *)
(* serial both reads agree; otherwise the first may be of any balance the  *)
(* account has had.                                                        *)
Deltas(o) ==
    IF Job[o].kind = "delta"
    THEN {Job[o].amount}
    ELSE LET acct == Job[o].order[1]
         IN  {[a \in {acct} |-> Job[o].amount[acct] - seen] :
                 seen \in IF Serial THEN {balance[acct]} ELSE History(acct)}

Post(o) == /\ ~Posted(o)
           /\ \E d \in Deltas(o) : Transfer(o, d, Job[o].over)

LedgerNext == \E o \in Op : Post(o)

LedgerSpec == BooksInit /\ [][LedgerNext]_books
=============================================================================
