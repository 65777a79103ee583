------------------------------- MODULE Books -------------------------------
(***************************************************************************)
(* The books of the panel: every balance the panel keeps (a user's wallet, *)
(* users.balance, or a workspace's treasury, workspace_wallets.balance)    *)
(* together with the audit rows written beside it (model.Transaction and   *)
(* model.WorkspaceTransaction).  A balance is only ever moved by a         *)
(* transfer: one database transaction that moves one or two accounts and   *)
(* writes one row for each of them.                                        *)
(*                                                                         *)
(* The module has no specification of its own.  Ledger, Orders and         *)
(* Payments extend it and move money through Transfer only.                *)
(***************************************************************************)
EXTENDS Integers, Sequences

CONSTANTS Account,       \* users' wallets and workspaces' treasuries
          Op,            \* what a row refers to: a request, a leg of an order
          InitBalance    \* what each account was seeded with, outside the books

ASSUME BooksAssumption == InitBalance \in [Account -> Int]

VARIABLES balance,       \* the committed balance of each account
          ledger         \* the committed rows of each account, oldest first

books == <<balance, ledger>>

(* model.Transaction / model.WorkspaceTransaction: the snapshot around one *)
(* balance change and what caused it.                                      *)
Row == [before : Int, after : Int, op : Op]

BooksInit == /\ balance = InitBalance
             /\ ledger = [a \in Account |-> <<>>]

(* d gives each account the transfer touches its signed change.  A leg that*)
(* would leave an account negative refuses the whole transfer, unless it   *)
(* may overdraw (DebitCostOfGoods).                                        *)
Affordable(d, over) == over \/ \A a \in DOMAIN d : balance[a] + d[a] >= 0

(* Every leg of one database transaction, committed together.              *)
Transfer(o, d, over) ==
    /\ Affordable(d, over)
    /\ balance' = [a \in Account |->
                     IF a \in DOMAIN d THEN balance[a] + d[a] ELSE balance[a]]
    /\ ledger' = [a \in Account |->
                     IF a \in DOMAIN d
                     THEN Append(ledger[a], [before |-> balance[a],
                                             after  |-> balance[a] + d[a],
                                             op     |-> o])
                     ELSE ledger[a]]

(* The rows op o has on account a.                                         *)
RowsOf(o, a) == {i \in 1..Len(ledger[a]) : ledger[a][i].op = o}

Posted(o) == \E a \in Account : RowsOf(o, a) # {}

BooksTypeOK == /\ balance \in [Account -> Int]
               /\ ledger \in [Account -> Seq(Row)]

(* The balance an account stood at before its k-th row.                    *)
Opening(a, k) == IF k = 1 THEN InitBalance[a] ELSE ledger[a][k - 1].after

(* The audit trail is unbroken: each row starts where the row before it    *)
(* ended, and the account stands where its last row left it.  A lost update*)
(* or a row written outside the compare-and-swap breaks the chain.         *)
LedgerChain ==
    \A a \in Account :
       /\ \A k \in 1..Len(ledger[a]) : ledger[a][k].before = Opening(a, k)
       /\ balance[a] = Opening(a, Len(ledger[a]) + 1)
=============================================================================
