------------------------------- MODULE Wallet -------------------------------
(***************************************************************************)
(* WalletService (service/wallet.go) and WorkspaceWalletService            *)
(* (service/workspace_wallet.go), statement by statement: each operation   *)
(* runs its legs inside one database transaction, each leg reads a         *)
(* balance, computes the new one and writes it with a compare-and-swap     *)
(* (UPDATE ... WHERE balance = before) beside its audit row, and a         *)
(* conflict retries the whole transaction a bounded number of times.       *)
(*                                                                         *)
(* Concurrency is the database's: on SQLite (_txlock=immediate) one        *)
(* transaction runs at a time; on PostgreSQL (READ COMMITTED) statements   *)
(* interleave, a read sees committed rows and its own writes, and an       *)
(* UPDATE waits for the row's uncommitted writer and then re-evaluates its *)
(* WHERE clause.                                                           *)
(***************************************************************************)
EXTENDS Ledger

CONSTANTS NoRow,       \* no uncommitted row
          MaxRetries   \* walletMaxRetries

ASSUME WalletAssumption == /\ NoRow \notin Row
                           /\ MaxRetries \in Nat \ {0}

VARIABLES pending,   \* pending[a]: the row an open transaction wrote for a,
                     \* which also is the row lock on a
          pc,        \* the statement each operation is at
          at,        \* the leg each operation is at
          seen,      \* the balance applyDelta read
          delta,     \* the change a "set" computed from its own read
          tries      \* transactions begun for the operation

vars == <<balance, ledger, pending, pc, at, seen, delta, tries>>

InTx == {"target", "read", "swap", "commit"}
Refused == {"invalid", "insufficient", "conflict", "error"}
Settled == Refused \cup {"done"}

-----------------------------------------------------------------------------
(* The operations of the two services, as jobs.                            *)

OneLeg(a, n, over) == [kind |-> "delta", order |-> <<a>>,
                       amount |-> [x \in {a} |-> n], over |-> over]

(* CreditWithMeta / CreditTreasury, DebitWithMeta / DebitTreasury          *)
Credit(a, n) == OneLeg(a, n, FALSE)
Debit(a, n)  == OneLeg(a, -n, FALSE)

(* DebitCostOfGoods: the only debit that may leave its account negative.   *)
CostOfGoods(t, n) == OneLeg(t, -n, TRUE)

(* SetBalanceWithMeta / SetTreasury                                        *)
SetTo(a, n) == [OneLeg(a, n, FALSE) EXCEPT !.kind = "set"]

(* DebitWorkspacePurchase: the buyer pays, and the manager of the          *)
(* storefront, when there is one and it is not the buyer, earns.           *)
Purchase(buyer, managers, n) ==
    LET earners == managers \ {buyer}
    IN  IF earners = {} THEN Debit(buyer, n)
        ELSE LET m == CHOOSE m \in earners : TRUE
             IN  [kind |-> "delta", order |-> <<buyer, m>>, over |-> FALSE,
                  amount |-> [a \in {buyer, m} |-> IF a = buyer THEN -n ELSE n]]

(* RefundWorkspacePurchase: both legs reversed, in the same order.         *)
RefundOf(buyer, managers, n) ==
    LET sale == Purchase(buyer, managers, n)
    IN  [sale EXCEPT !.amount = [a \in DOMAIN sale.amount |-> -sale.amount[a]]]

(* ErrInvalidAmount: a set takes a target >= 0.  The other operations check*)
(* their unsigned amount before any job exists, so a zero change stands for*)
(* an amount they refuse.                                                  *)
Valid(o) == \A a \in Touched(o) :
               IF Job[o].kind = "set" THEN Job[o].amount[a] >= 0
               ELSE Job[o].amount[a] # 0

-----------------------------------------------------------------------------
Holds(o, a) == pending[a] # NoRow /\ pending[a].op = o

(* What a statement of o's transaction reads for a.                        *)
Visible(o, a) == IF Holds(o, a) THEN pending[a].after ELSE balance[a]

Leg(o) == Job[o].order[at[o]]

Change(o) == IF Job[o].kind = "set" THEN delta[o] ELSE Job[o].amount[Leg(o)]

(* Mutated: the connection is not given back, its row locks stay.          *)
RollbackForgotten(o) == UNCHANGED pending

(* The writes of o's transaction undone, its row locks released.           *)
Rollback(o) ==
    pending' = [a \in Account |-> IF Holds(o, a) THEN NoRow ELSE pending[a]]

Init == /\ BooksInit
        /\ pending = [a \in Account |-> NoRow]
        /\ pc = [o \in Op |-> "new"]
        /\ at = [o \in Op |-> 1]
        /\ seen = [o \in Op |-> 0]
        /\ delta = [o \in Op |-> 0]
        /\ tries = [o \in Op |-> 0]

(* A request calls the service.                                            *)
Start(o) ==
    /\ pc[o] = "new"
    /\ pc' = [pc EXCEPT ![o] = IF Valid(o) THEN "begin" ELSE "invalid"]
    /\ UNCHANGED <<books, pending, at, seen, delta, tries>>

(* SQLite transactions take the write lock when they begin                 *)
(* (_txlock=immediate, database/db.go).  Mutated: without it.              *)
TxFreeDeferred == TRUE

TxFree == Serial => \A p \in Op : pc[p] \notin InTx

(* withRetry: a fresh transaction.                                         *)
Begin(o) ==
    /\ pc[o] = "begin"
    /\ TxFree
    /\ pc' = [pc EXCEPT ![o] = IF Job[o].kind = "set" THEN "target" ELSE "read"]
    /\ at' = [at EXCEPT ![o] = 1]
    /\ tries' = [tries EXCEPT ![o] = @ + 1]
    /\ UNCHANGED <<books, pending, seen, delta>>

(* SetBalanceWithMeta / SetTreasury read the balance themselves and turn   *)
(* the target into a change; no change commits an empty transaction.       *)
ReadTarget(o) ==
    /\ pc[o] = "target"
    /\ LET d == Job[o].amount[Leg(o)] - Visible(o, Leg(o))
       IN  /\ delta' = [delta EXCEPT ![o] = d]
           /\ pc' = [pc EXCEPT ![o] = IF d = 0 THEN "done" ELSE "read"]
    /\ UNCHANGED <<books, pending, at, seen, tries>>

(* applyDelta refuses an overdraft, be the change a debit or a credit.     *)
(* Mutated: it does not.                                                   *)
CoveredAlways(o) == TRUE

Covered(o) == Job[o].over \/ Visible(o, Leg(o)) + Change(o) >= 0

(* applyDelta reads the balance; an error returned from the closure rolls  *)
(* the transaction back.                                                   *)
Read(o) ==
    /\ pc[o] = "read"
    /\ \/ /\ Covered(o)
          /\ seen' = [seen EXCEPT ![o] = Visible(o, Leg(o))]
          /\ pc' = [pc EXCEPT ![o] = "swap"]
          /\ UNCHANGED pending
       \/ /\ ~Covered(o)
          /\ pc' = [pc EXCEPT ![o] = "insufficient"]
          /\ Rollback(o)
          /\ UNCHANGED seen
    /\ UNCHANGED <<books, at, delta, tries>>

(* UPDATE ... WHERE balance = before, and the audit row: it waits while    *)
(* another transaction holds the row.                                      *)
Unlocked(o) == pending[Leg(o)] = NoRow \/ Holds(o, Leg(o))

(* Mutated: UPDATE without AND balance = before.                           *)
MatchesAny(o) == TRUE

Matches(o) == Visible(o, Leg(o)) = seen[o]

(* Mutated: the closure returns after its first leg.                       *)
AnyLeg(o) == TRUE

LastLeg(o) == at[o] = Len(Job[o].order)

Swap(o) ==
    /\ pc[o] = "swap"
    /\ Unlocked(o)
    /\ Matches(o)
    /\ pending' = [pending EXCEPT ![Leg(o)] =
                     [before |-> seen[o], after |-> seen[o] + Change(o), op |-> o]]
    /\ at' = [at EXCEPT ![o] = @ + 1]
    /\ pc' = [pc EXCEPT ![o] = IF LastLeg(o) THEN "commit" ELSE "read"]
    /\ UNCHANGED <<books, seen, delta, tries>>

MayRetry(o) == tries[o] < MaxRetries

(* No row matched: ErrBalanceConflict rolls back and withRetry starts over.*)
SwapConflict(o) ==
    /\ pc[o] = "swap"
    /\ Unlocked(o)
    /\ ~Matches(o)
    /\ pc' = [pc EXCEPT ![o] = IF MayRetry(o) THEN "begin" ELSE "conflict"]
    /\ Rollback(o)
    /\ UNCHANGED <<books, at, seen, delta, tries>>

Commit(o) ==
    /\ pc[o] = "commit"
    /\ balance' = [a \in Account |-> IF Holds(o, a) THEN pending[a].after ELSE balance[a]]
    /\ ledger' = [a \in Account |->
                    IF Holds(o, a) THEN Append(ledger[a], pending[a]) ELSE ledger[a]]
    /\ Rollback(o)
    /\ pc' = [pc EXCEPT ![o] = "done"]
    /\ UNCHANGED <<at, seen, delta, tries>>

(* A statement fails in the database (busy, connection lost, constraint):  *)
(* any error but a conflict is returned without a retry.                   *)
Fail(o) ==
    /\ pc[o] \in InTx \cup {"begin"}
    /\ pc' = [pc EXCEPT ![o] = "error"]
    /\ Rollback(o)
    /\ UNCHANGED <<books, at, seen, delta, tries>>

(* The panel process dies: open transactions are rolled back by the        *)
(* database, and the requests that ran in the process are gone.            *)
Crash ==
    /\ \E o \in Op : pc[o] \in InTx \cup {"begin"}
    /\ pending' = [a \in Account |-> NoRow]
    /\ pc' = [o \in Op |-> IF pc[o] \in InTx \cup {"begin"} THEN "error" ELSE pc[o]]
    /\ UNCHANGED <<books, at, seen, delta, tries>>

Step(o) == \/ Start(o) \/ Begin(o) \/ ReadTarget(o) \/ Read(o)
           \/ Swap(o) \/ SwapConflict(o) \/ Commit(o) \/ Fail(o)

AllSettled == (\A o \in Op : pc[o] \in Settled) /\ UNCHANGED vars

Next == (\E o \in Op : Step(o)) \/ Crash \/ AllSettled

(* A running request keeps executing; nothing makes a request arrive.      *)
Fairness == \A o \in Op : WF_vars(Begin(o) \/ ReadTarget(o) \/ Read(o)
                                  \/ Swap(o) \/ SwapConflict(o) \/ Commit(o))

Spec == Init /\ [][Next]_vars
FairSpec == Spec /\ Fairness

-----------------------------------------------------------------------------
(* The types of the state: the committed books, at most one uncommitted row*)
(* per account, and where each request's closure (wallet.go:170-179) is.   *)
TypeOK == /\ BooksTypeOK
          /\ pending \in [Account -> Row \cup {NoRow}]
          /\ pc \in [Op -> {"new", "begin"} \cup InTx \cup Settled]
          /\ at \in [Op -> Nat]
          /\ seen \in [Op -> Int]
          /\ delta \in [Op -> Int]
          /\ tries \in [Op -> 0..MaxRetries]

(* applyDelta (wallet.go:51-90) promises that concurrent debits cannot     *)
(* oversell a balance: no committed row leaves an account negative except  *)
(* a cost-of-goods debit of a treasury, whatever transactions interleave.  *)
OverdraftOnlyByCost ==
    \A a \in Account : \A k \in 1..Len(ledger[a]) :
        ledger[a][k].after < 0 => Job[ledger[a][k].op].over

(* Both legs or none (wallet.go:98-99, "Both legs commit (or roll back)    *)
(* together"), once, however often the closure was retried; an operation   *)
(* that returned an error left nothing behind.                             *)
AllOrNothing ==
    \A o \in Op :
        /\ \A a \in Account : \A i, j \in RowsOf(o, a) : i = j
        /\ Posted(o) => /\ pc[o] = "done"
                        /\ \A a \in Account : RowsOf(o, a) # {} <=> a \in Touched(o)
        /\ pc[o] = "done" /\ Job[o].kind = "delta" => Posted(o)

(* SetBalance "forces a user's balance to target" (wallet.go:221,          *)
(* workspace_wallet.go:188): the row it commits ends on the target.        *)
SetReachesTarget ==
    \A a \in Account : \A k \in 1..Len(ledger[a]) :
        LET o == ledger[a][k].op
        IN  Job[o].kind = "set" => ledger[a][k].after = Job[o].amount[a]

(* A request whose service call has begun gets an answer: no row lock is   *)
(* kept by a transaction that ended, and no two transactions wait for each *)
(* other's rows.                                                           *)
EveryCallReturns == \A o \in Op : pc[o] = "begin" ~> pc[o] \in Settled
=============================================================================
