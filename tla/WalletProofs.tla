---------------------------- MODULE WalletProofs ----------------------------
(***************************************************************************)
(* Proofs about Wallet for every set of accounts, every set of operations  *)
(* and every number of retries.  WInv is the inductive invariant: the      *)
(* types, the unbroken ledger, and what an open transaction knows -- its   *)
(* uncommitted rows start from the committed balance (so the row locks     *)
(* work), they are exactly the legs it has passed, and none of them        *)
(* overdraws.                                                              *)
(***************************************************************************)
EXTENDS Wallet, SequenceTheorems, TLAPS

N(o) == Len(Job[o].order)

(* An uncommitted row starts from the committed balance, belongs to a leg  *)
(* of a transaction that is still open, and does not overdraw.             *)
PendingInv ==
    \A a \in Account : pending[a] # NoRow =>
        /\ pending[a].before = balance[a]
        /\ pc[pending[a].op] \in {"read", "swap", "commit"}
        /\ \/ Job[pending[a].op].over
           \/ pending[a].after >= 0

(* An open transaction holds the rows of the legs it has passed, no other. *)
LegOK(o) ==
    /\ pc[o] \in {"new", "begin"} => tries[o] < MaxRetries
    /\ pc[o] \in {"target", "read", "swap"} => at[o] \in 1..N(o)
    /\ pc[o] = "target" => at[o] = 1
    /\ pc[o] = "commit" => at[o] = N(o) + 1
    /\ \A a \in Account :
          Holds(o, a) <=> /\ pc[o] \in InTx
                          /\ \E i \in 1..N(o) : i < at[o] /\ a = Job[o].order[i]
    /\ pc[o] = "swap" => Job[o].over \/ seen[o] + Change(o) >= 0

LegInv == \A o \in Op : LegOK(o)

WInv == TypeOK /\ LedgerChain /\ PendingInv /\ LegInv /\ OverdraftOnlyByCost

-----------------------------------------------------------------------------
(* What the assumption on the constants gives for one job.                 *)
LEMMA JobFacts ==
    ASSUME NEW o \in Op
    PROVE  /\ Job[o].kind \in {"delta", "set"}
           /\ Job[o].over \in BOOLEAN
           /\ Job[o].order \in Seq(Account)
           /\ N(o) \in Nat \ {0}
           /\ \A i \in 1..N(o) : Job[o].order[i] \in Account
           /\ \A i, j \in 1..N(o) : Job[o].order[i] = Job[o].order[j] => i = j
           /\ Touched(o) \subseteq Account
           /\ \A i \in 1..N(o) : Job[o].order[i] \in Touched(o)
           /\ Job[o].amount \in [Touched(o) -> Int]
  <1>1. Job[o].order \in Seq(Account) /\ Job[o].order # <<>>
    BY LedgerAssumption
  <1>2. N(o) \in Nat \ {0}
    BY <1>1, EmptySeq, LenProperties DEF N
  <1>3. \A i \in 1..N(o) : Job[o].order[i] \in Account
    BY <1>1, ElementOfSeq DEF N
  <1>4. /\ Job[o].kind \in {"delta", "set"}
        /\ Job[o].over \in BOOLEAN
        /\ \A i, j \in 1..N(o) : Job[o].order[i] = Job[o].order[j] => i = j
        /\ Job[o].amount \in [Touched(o) -> Int]
    BY LedgerAssumption DEF N
  <1>5. Touched(o) \subseteq Account
    BY <1>3 DEF Touched, N
  <1>6. \A i \in 1..N(o) : Job[o].order[i] \in Touched(o)
    BY DEF Touched, N
  <1>7. QED
    BY <1>1, <1>2, <1>3, <1>4, <1>5, <1>6

(* A leg that exists changes its account by an integer.                    *)
LEMMA ChangeInt ==
    ASSUME TypeOK, NEW o \in Op, at[o] \in 1..N(o)
    PROVE  Leg(o) \in Account /\ Leg(o) \in Touched(o) /\ Change(o) \in Int
  <1>1. Leg(o) \in Account /\ Leg(o) \in Touched(o)
    BY JobFacts DEF Leg
  <1>2. Job[o].amount[Leg(o)] \in Int
    BY <1>1, JobFacts
  <1>3. QED
    BY <1>1, <1>2 DEF Change, TypeOK

(* What a statement reads is an integer.                                   *)
LEMMA VisibleInt ==
    ASSUME TypeOK, NEW o \in Op, NEW a \in Account
    PROVE  Visible(o, a) \in Int
  BY DEF TypeOK, BooksTypeOK, Visible, Holds, Row

(* Rolling a transaction back keeps every other row and the types.         *)
LEMMA RollbackFacts ==
    ASSUME TypeOK, NEW o \in Op, Rollback(o)
    PROVE  /\ pending' \in [Account -> Row \cup {NoRow}]
           /\ \A a \in Account : pending'[a] # NoRow =>
                  pending'[a] = pending[a] /\ pending[a] # NoRow /\ pending[a].op # o
           /\ \A a \in Account : pending[a] # NoRow /\ pending[a].op # o =>
                  pending'[a] = pending[a]
  BY DEF TypeOK, Rollback, Holds

-----------------------------------------------------------------------------
LEMMA InitTypes == Init => TypeOK
  <1>1. BooksInit => BooksTypeOK
    BY BooksAssumption, EmptySeq DEF BooksInit, BooksTypeOK
  <1>2. QED
    BY <1>1, WalletAssumption DEF Init, TypeOK, InTx, Settled, Refused

LEMMA NextTypes ==
    ASSUME TypeOK, LegInv, [Next]_vars
    PROVE  TypeOK'
  <1> USE DEF InTx, Settled, Refused
  <1>1. ASSUME NEW o \in Op, Start(o)
        PROVE  TypeOK'
    BY <1>1 DEF Start, TypeOK, BooksTypeOK, books
  <1>2. ASSUME NEW o \in Op, Begin(o)
        PROVE  TypeOK'
    <2>1. tries[o] < MaxRetries /\ tries[o] \in 0..MaxRetries /\ MaxRetries \in Nat
      BY <1>2, WalletAssumption DEF Begin, TxFree, LegInv, LegOK, TypeOK
    <2>2. QED
      BY <1>2, <2>1 DEF Begin, TxFree, TypeOK, BooksTypeOK, books
  <1>3. ASSUME NEW o \in Op, ReadTarget(o)
        PROVE  TypeOK'
    <2>1. at[o] \in 1..N(o)
      BY <1>3 DEF ReadTarget, LegInv, LegOK
    <2>2. Job[o].amount[Leg(o)] - Visible(o, Leg(o)) \in Int
      BY <2>1, ChangeInt, VisibleInt, JobFacts
    <2>3. QED
      BY <1>3, <2>2 DEF ReadTarget, TypeOK, BooksTypeOK, books
  <1>4. ASSUME NEW o \in Op, Read(o)
        PROVE  TypeOK'
    <2>1. Visible(o, Leg(o)) \in Int
      BY <1>4, ChangeInt, VisibleInt DEF Read, Covered, LegInv, LegOK
    <2>2. pending' \in [Account -> Row \cup {NoRow}]
      BY <1>4, RollbackFacts DEF Read, Covered, TypeOK
    <2>3. QED
      BY <1>4, <2>1, <2>2 DEF Read, Covered, TypeOK, BooksTypeOK, books
  <1>5. ASSUME NEW o \in Op, Swap(o)
        PROVE  TypeOK'
    <2>1. at[o] \in 1..N(o)
      BY <1>5 DEF Swap, LastLeg, Matches, LegInv, LegOK
    <2>2. [before |-> seen[o], after |-> seen[o] + Change(o), op |-> o] \in Row
      BY <2>1, ChangeInt DEF Row, TypeOK
    <2>3. pending' \in [Account -> Row \cup {NoRow}]
      BY <1>5, <2>2 DEF Swap, LastLeg, Matches, TypeOK
    <2>4. at' \in [Op -> Nat] /\ pc' \in [Op -> {"new", "begin"} \cup InTx \cup Settled]
      BY <1>5, <2>1 DEF Swap, LastLeg, Matches, TypeOK
    <2>5. QED
      BY <1>5, <2>3, <2>4 DEF Swap, LastLeg, Matches, TypeOK, BooksTypeOK, books
  <1>6. ASSUME NEW o \in Op, SwapConflict(o)
        PROVE  TypeOK'
    BY <1>6, RollbackFacts DEF SwapConflict, Matches, MayRetry, TypeOK, BooksTypeOK, books
  <1>7. ASSUME NEW o \in Op, Commit(o)
        PROVE  TypeOK'
    <2>1. \A a \in Account : Holds(o, a) => pending[a] \in Row /\ pending[a].after \in Int
      BY DEF Holds, TypeOK, Row
    <2>2. balance' \in [Account -> Int]
      BY <1>7, <2>1 DEF Commit, TypeOK, BooksTypeOK
    <2>3. ledger' \in [Account -> Seq(Row)]
      <3>1. \A a \in Account : Holds(o, a) => Append(ledger[a], pending[a]) \in Seq(Row)
        BY <2>1, AppendProperties DEF TypeOK, BooksTypeOK
      <3>2. QED
        BY <1>7, <3>1 DEF Commit, TypeOK, BooksTypeOK
    <2>4. QED
      BY <1>7, <2>2, <2>3, RollbackFacts DEF Commit, TypeOK, BooksTypeOK
  <1>8. ASSUME NEW o \in Op, Fail(o)
        PROVE  TypeOK'
    BY <1>8, RollbackFacts DEF Fail, TypeOK, BooksTypeOK, books
  <1>9. CASE Crash
    BY <1>9 DEF Crash, TypeOK, BooksTypeOK, books
  <1>10. CASE UNCHANGED vars
    BY <1>10 DEF vars, TypeOK, BooksTypeOK
  <1>11. QED
    BY <1>1, <1>2, <1>3, <1>4, <1>5, <1>6, <1>7, <1>8, <1>9, <1>10
       DEF Next, Step, AllSettled


-----------------------------------------------------------------------------
(* Nothing has been posted and no transaction is open when the panel       *)
(* starts.                                                                 *)
LEMMA InitInv == Init => WInv
  <1> SUFFICES ASSUME Init
               PROVE  WInv
    OBVIOUS
  <1>1. TypeOK
    BY InitTypes
  <1>2. \A a \in Account : Len(ledger[a]) = 0
    BY EmptySeq DEF Init, BooksInit
  <1>3. LedgerChain
    <2>1. ASSUME NEW a \in Account
          PROVE  Opening(a, Len(ledger[a]) + 1) = InitBalance[a]
      <3>1. Len(ledger[a]) + 1 = 1
        BY <1>2
      <3>2. QED
        BY <3>1 DEF Opening
    <2>2. balance = InitBalance
      BY DEF Init, BooksInit
    <2>3. \A a \in Account : \A k \in 1..Len(ledger[a]) : FALSE
      BY <1>2
    <2>4. QED
      BY <2>1, <2>2, <2>3 DEF LedgerChain
  <1>4. OverdraftOnlyByCost
    BY <1>2 DEF OverdraftOnlyByCost
  <1>5. PendingInv /\ LegInv
    BY WalletAssumption DEF Init, PendingInv, LegInv, LegOK, InTx, Holds
  <1>6. QED
    BY <1>1, <1>3, <1>4, <1>5 DEF WInv

(* The books only move when a transaction commits.                         *)
LEMMA BooksMove ==
    ASSUME [Next]_vars
    PROVE  UNCHANGED books \/ \E o \in Op : Commit(o)
  BY DEF Next, Step, Start, Begin, ReadTarget, Read, Swap, SwapConflict, Fail,
         Crash, AllSettled, vars, books

(* A commit appends to an account's rows one that starts where the account *)
(* stands, and moves the account to where that row ends.                   *)
LEMMA CommitAppends ==
    ASSUME WInv, NEW o \in Op, Commit(o), NEW a \in Account
    PROVE  \/ ledger'[a] = ledger[a] /\ balance'[a] = balance[a]
           \/ \E r \in Row : /\ ledger'[a] = Append(ledger[a], r)
                             /\ r.before = balance[a]
                             /\ r.after = balance'[a]
                             /\ r.op = o
                             /\ Job[o].over \/ r.after >= 0
  <1>1. CASE ~Holds(o, a)
    BY <1>1 DEF Commit, WInv, TypeOK, BooksTypeOK
  <1>2. CASE Holds(o, a)
    <2>1. pending[a] \in Row /\ pending[a].op = o
      BY <1>2 DEF Holds, WInv, TypeOK
    <2>2. pending[a].before = balance[a] /\ (Job[o].over \/ pending[a].after >= 0)
      BY <1>2, <2>1 DEF Holds, WInv, PendingInv
    <2>3. ledger'[a] = Append(ledger[a], pending[a]) /\ balance'[a] = pending[a].after
      BY <1>2 DEF Commit
    <2>4. QED
      BY <2>1, <2>2, <2>3
  <1>3. QED
    BY <1>1, <1>2

(* Appending such a row keeps the chain unbroken.                          *)
LEMMA ChainGrows ==
    ASSUME BooksTypeOK, NEW a \in Account, NEW r \in Row,
           \A k \in 1..Len(ledger[a]) : ledger[a][k].before = Opening(a, k),
           balance[a] = Opening(a, Len(ledger[a]) + 1),
           ledger'[a] = Append(ledger[a], r),
           r.before = balance[a], balance'[a] = r.after
    PROVE  /\ \A k \in 1..Len(ledger'[a]) : ledger'[a][k].before = Opening(a, k)'
           /\ balance'[a] = Opening(a, Len(ledger[a]) + 1)'
  <1>. PICK n \in Nat : n = Len(ledger[a])
    BY LenProperties DEF BooksTypeOK
  <1>1. ledger[a] \in Seq(Row)
    BY DEF BooksTypeOK
  <1>2. /\ Len(ledger'[a]) = n + 1
        /\ \A k \in 1..n : ledger'[a][k] = ledger[a][k]
        /\ ledger'[a][n + 1] = r
    BY <1>1, AppendProperties
  <1>3. \A k \in 1..(n + 1) : Opening(a, k)' = Opening(a, k)
    BY <1>1, <1>2 DEF Opening
  <1>4. ASSUME NEW k \in 1..(n + 1)
        PROVE  ledger'[a][k].before = Opening(a, k)'
    <2>1. CASE k \in 1..n
      BY <2>1, <1>2, <1>3
    <2>2. CASE k = n + 1
      BY <2>2, <1>2, <1>3
    <2>3. QED
      BY <2>1, <2>2, <1>1, <1>4
  <1>5. Opening(a, n + 2)' = r.after
    BY <1>1, <1>2 DEF Opening
  <1>6. QED
    BY <1>2, <1>4, <1>5


-----------------------------------------------------------------------------
LEMMA NextChain ==
    ASSUME WInv, [Next]_vars
    PROVE  LedgerChain' /\ OverdraftOnlyByCost'
  <1>1. CASE UNCHANGED books
    BY <1>1 DEF books, WInv, LedgerChain, Opening, OverdraftOnlyByCost
  <1>2. ASSUME NEW o \in Op, Commit(o)
        PROVE  LedgerChain' /\ OverdraftOnlyByCost'
    <2> SUFFICES ASSUME NEW a \in Account
                 PROVE  /\ \A k \in 1..Len(ledger'[a]) :
                              ledger'[a][k].before = Opening(a, k)'
                        /\ balance'[a] = Opening(a, Len(ledger[a]) + 1)'
                        /\ \A k \in 1..Len(ledger'[a]) :
                              ledger'[a][k].after < 0 => Job[ledger'[a][k].op].over
      BY DEF LedgerChain, OverdraftOnlyByCost
    <2>1. CASE ledger'[a] = ledger[a] /\ balance'[a] = balance[a]
      BY <2>1 DEF WInv, LedgerChain, Opening, OverdraftOnlyByCost
    <2>2. ASSUME NEW r \in Row, ledger'[a] = Append(ledger[a], r),
                 r.before = balance[a], r.after = balance'[a], r.op = o,
                 Job[o].over \/ r.after >= 0
          PROVE  /\ \A k \in 1..Len(ledger'[a]) :
                       ledger'[a][k].before = Opening(a, k)'
                 /\ balance'[a] = Opening(a, Len(ledger[a]) + 1)'
                 /\ \A k \in 1..Len(ledger'[a]) :
                       ledger'[a][k].after < 0 => Job[ledger'[a][k].op].over
      <3>1. /\ \A k \in 1..Len(ledger'[a]) : ledger'[a][k].before = Opening(a, k)'
            /\ balance'[a] = Opening(a, Len(ledger[a]) + 1)'
        BY <2>2, ChainGrows DEF WInv, TypeOK, LedgerChain
      <3>2. ledger[a] \in Seq(Row) /\ Len(ledger[a]) \in Nat
        BY LenProperties DEF WInv, TypeOK, BooksTypeOK
      <3>3. /\ Len(ledger'[a]) = Len(ledger[a]) + 1
            /\ \A k \in 1..Len(ledger[a]) : ledger'[a][k] = ledger[a][k]
            /\ ledger'[a][Len(ledger[a]) + 1] = r
        BY <2>2, <3>2, AppendProperties
      <3>4. ASSUME NEW k \in 1..Len(ledger'[a]), ledger'[a][k].after < 0
            PROVE  Job[ledger'[a][k].op].over
        <4>1. CASE k \in 1..Len(ledger[a])
          BY <4>1, <3>3, <3>4 DEF WInv, OverdraftOnlyByCost
        <4>2. CASE k = Len(ledger[a]) + 1
          <5>1. ledger'[a][k] = r /\ r.after \in Int
            BY <4>2, <3>3 DEF Row
          <5>2. QED
            BY <5>1, <2>2, <3>4
        <4>3. QED
          BY <4>1, <4>2, <3>2, <3>3
      <3>5. QED
        BY <3>1, <3>4
    <2>3. QED
      BY <1>2, <2>1, <2>2, CommitAppends
  <1>3. QED
    BY <1>1, <1>2, BooksMove


-----------------------------------------------------------------------------
(* An uncommitted row stays on the committed balance: the row lock lets no *)
(* other transaction commit the account it is for.                         *)
LEMMA NextPending ==
    ASSUME WInv, [Next]_vars
    PROVE  PendingInv'
  <1> USE DEF WInv
  <1>1. ASSUME NEW o \in Op, Start(o)
        PROVE  PendingInv'
    BY <1>1 DEF Start, PendingInv, books, TypeOK, Row
  <1>2. ASSUME NEW o \in Op, Begin(o)
        PROVE  PendingInv'
    BY <1>2 DEF Begin, TxFree, PendingInv, books, TypeOK, Row
  <1>3. ASSUME NEW o \in Op, ReadTarget(o)
        PROVE  PendingInv'
    BY <1>3 DEF ReadTarget, PendingInv, books, TypeOK, Row
  <1>4. ASSUME NEW o \in Op, Read(o)
        PROVE  PendingInv'
    <2>1. CASE UNCHANGED pending /\ pc' = [pc EXCEPT ![o] = "swap"]
      BY <1>4, <2>1 DEF Read, Covered, PendingInv, books, TypeOK, Row
    <2>2. CASE Rollback(o)
      BY <1>4, <2>2, RollbackFacts DEF Read, Covered, PendingInv, books, TypeOK, Row
    <2>3. QED
      BY <1>4, <2>1, <2>2 DEF Read, Covered
  <1>5. ASSUME NEW o \in Op, Swap(o)
        PROVE  PendingInv'
    <2>1. at[o] \in 1..N(o) /\ (Job[o].over \/ seen[o] + Change(o) >= 0)
      BY <1>5 DEF Swap, LastLeg, Matches, LegInv, LegOK
    <2>2. Leg(o) \in Account
      BY <2>1, ChangeInt
    <2>3. ~Holds(o, Leg(o))
      <3>1. \A i \in 1..N(o) : i < at[o] => Leg(o) # Job[o].order[i]
        BY <2>1, JobFacts DEF Leg
      <3>2. QED
        BY <3>1, <2>2, <1>5 DEF Swap, LastLeg, Matches, LegInv, LegOK, InTx
    <2>4. seen[o] = balance[Leg(o)]
      BY <2>3, <1>5 DEF Swap, LastLeg, Matches, Visible
    <2>5. ASSUME NEW a \in Account, pending'[a] # NoRow
          PROVE  /\ pending'[a].before = balance'[a]
                 /\ pc'[pending'[a].op] \in {"read", "swap", "commit"}
                 /\ Job[pending'[a].op].over \/ pending'[a].after >= 0
      <3>1. CASE a = Leg(o)
        <4>1. pending'[a] = [before |-> seen[o], after |-> seen[o] + Change(o), op |-> o]
          BY <1>5, <3>1 DEF Swap, LastLeg, Matches, TypeOK
        <4>2. pc'[o] \in {"read", "commit"} /\ balance' = balance
          BY <1>5 DEF Swap, LastLeg, Matches, TypeOK, books
        <4>3. QED
          BY <4>1, <4>2, <3>1, <2>1, <2>4
      <3>2. CASE a # Leg(o)
        <4>1. pending'[a] = pending[a] /\ balance' = balance
          BY <1>5, <3>2 DEF Swap, LastLeg, Matches, TypeOK, books
        <4>2. pending[a].op \in Op
          BY <4>1, <2>5 DEF TypeOK, Row
        <4>3. pc'[pending[a].op] \in {"read", "swap", "commit"}
          BY <1>5, <4>1, <4>2, <2>5 DEF Swap, LastLeg, Matches, PendingInv, TypeOK
        <4>4. QED
          BY <4>1, <4>3, <2>5 DEF PendingInv
      <3>3. QED
        BY <3>1, <3>2
    <2>6. QED
      BY <2>5 DEF PendingInv
  <1>6. ASSUME NEW o \in Op, SwapConflict(o)
        PROVE  PendingInv'
    BY <1>6, RollbackFacts DEF SwapConflict, Matches, MayRetry, PendingInv, books, TypeOK, Row
  <1>7. ASSUME NEW o \in Op, Commit(o)
        PROVE  PendingInv'
    <2>1. ASSUME NEW a \in Account, pending'[a] # NoRow
          PROVE  pending'[a] = pending[a] /\ pending[a] # NoRow /\ balance'[a] = balance[a]
                 /\ pending[a].op # o /\ pending[a].op \in Op
      BY <1>7, <2>1, RollbackFacts DEF Commit, Holds, TypeOK, BooksTypeOK, Row
    <2>2. QED
      BY <1>7, <2>1 DEF Commit, PendingInv, TypeOK
  <1>8. ASSUME NEW o \in Op, Fail(o)
        PROVE  PendingInv'
    BY <1>8, RollbackFacts DEF Fail, PendingInv, books, TypeOK, Row
  <1>9. CASE Crash
    BY <1>9 DEF Crash, PendingInv
  <1>10. CASE UNCHANGED vars
    BY <1>10 DEF vars, PendingInv
  <1>11. QED
    BY <1>1, <1>2, <1>3, <1>4, <1>5, <1>6, <1>7, <1>8, <1>9, <1>10
       DEF Next, Step, AllSettled


-----------------------------------------------------------------------------
(* A rolled back transaction holds nothing; the others keep what they held.*)
LEMMA RollbackHolds ==
    ASSUME TypeOK, NEW o \in Op, Rollback(o), NEW p \in Op, NEW a \in Account
    PROVE  Holds(p, a)' <=> Holds(p, a) /\ p # o
  BY DEF Rollback, Holds, TypeOK

(* A step of another transaction leaves what LegInv says of p alone.       *)
LEMMA LegFrame ==
    ASSUME TypeOK, LegInv, NEW p \in Op,
           pc'[p] = pc[p], at'[p] = at[p], seen'[p] = seen[p],
           delta'[p] = delta[p], tries'[p] = tries[p],
           \A a \in Account : Holds(p, a)' <=> Holds(p, a)
    PROVE  LegOK(p)'
  BY DEF LegInv, LegOK, Change, Leg


LEMMA NextLegs ==
    ASSUME WInv, [Next]_vars
    PROVE  LegInv'
  <1> USE DEF WInv
  <1>1. ASSUME NEW o \in Op, NEW p \in Op, p # o, Step(o)
        PROVE  LegOK(p)'
    <2>1. /\ pc'[p] = pc[p] /\ at'[p] = at[p] /\ seen'[p] = seen[p]
          /\ delta'[p] = delta[p] /\ tries'[p] = tries[p]
      BY <1>1 DEF Step, Start, Begin, ReadTarget, Read, Swap, SwapConflict,
                  Commit, Fail, TypeOK
    <2>2. ASSUME NEW a \in Account
          PROVE  Holds(p, a)' <=> Holds(p, a)
      <3>1. CASE UNCHANGED pending
        BY <3>1 DEF Holds
      <3>2. CASE Rollback(o)
        BY <3>2, <1>1, RollbackHolds
      <3>3. CASE Swap(o)
        <4>1. CASE a # Leg(o)
          BY <3>3, <4>1 DEF Swap, LastLeg, Matches, Holds, TypeOK
        <4>2. CASE a = Leg(o)
          <5>1. ~Holds(p, a)
            BY <3>3, <4>2, <1>1 DEF Swap, LastLeg, Matches, Unlocked, Holds
          <5>2. pending'[a].op = o
            BY <3>3, <4>2 DEF Swap, LastLeg, Matches, TypeOK
          <5>3. QED
            BY <5>1, <5>2, <1>1 DEF Holds
        <4>3. QED
          BY <4>1, <4>2
      <3>4. QED
        BY <1>1, <3>1, <3>2, <3>3
           DEF Step, Start, Begin, ReadTarget, Read, SwapConflict, Commit, Fail
    <2>3. QED
      BY <2>1, <2>2, LegFrame
  <1>2. ASSUME NEW o \in Op, Start(o)
        PROVE  LegOK(o)'
    BY <1>2 DEF Start, LegInv, LegOK, Holds, TypeOK, InTx
  <1>3. ASSUME NEW o \in Op, Begin(o)
        PROVE  LegOK(o)'
    <2>1. pc'[o] \in {"target", "read"} /\ at'[o] = 1 /\ UNCHANGED pending
      BY <1>3 DEF Begin, TxFree, TypeOK
    <2>2. \A a \in Account : ~Holds(o, a)
      BY <1>3 DEF Begin, TxFree, LegInv, LegOK, InTx
    <2>3. \A a \in Account : Holds(o, a)' <=> Holds(o, a)
      BY <2>1 DEF Holds
    <2>4. N(o) \in Nat \ {0}
      BY JobFacts
    <2>5. QED
      BY <2>1, <2>2, <2>3, <2>4 DEF LegOK
  <1>4. ASSUME NEW o \in Op, ReadTarget(o)
        PROVE  LegOK(o)'
    <2>1. pc'[o] \in {"done", "read"} /\ at'[o] = 1 /\ UNCHANGED pending /\ pc[o] = "target"
      BY <1>4 DEF ReadTarget, LegInv, LegOK, TypeOK
    <2>2. \A a \in Account : ~Holds(o, a)
      BY <2>1, JobFacts DEF LegInv, LegOK, InTx, ReadTarget
    <2>3. \A a \in Account : Holds(o, a)' <=> Holds(o, a)
      BY <2>1 DEF Holds
    <2>4. N(o) \in Nat \ {0}
      BY JobFacts
    <2>5. QED
      BY <2>1, <2>2, <2>3, <2>4 DEF LegOK

  <1>5. ASSUME NEW o \in Op, Read(o)
        PROVE  LegOK(o)'
    <2>1. pc[o] = "read" /\ at'[o] = at[o] /\ delta' = delta /\ at[o] \in 1..N(o)
      BY <1>5 DEF Read, Covered, LegInv, LegOK
    <2>2. CASE pc' = [pc EXCEPT ![o] = "swap"]
      <3>1. /\ UNCHANGED pending
            /\ pc'[o] = "swap"
            /\ seen'[o] = Visible(o, Leg(o))
            /\ Job[o].over \/ Visible(o, Leg(o)) + Change(o) >= 0
        BY <1>5, <2>2 DEF Read, Covered, TypeOK
      <3>2. Change(o)' = Change(o)
        BY <2>1 DEF Change, Leg
      <3>3. \A a \in Account : Holds(o, a)' <=> Holds(o, a)
        BY <3>1 DEF Holds
      <3>4. QED
        BY <2>1, <3>1, <3>2, <3>3 DEF LegInv, LegOK, InTx
    <2>3. CASE pc' = [pc EXCEPT ![o] = "insufficient"] /\ Rollback(o)
      <3>1. pc'[o] = "insufficient" /\ \A a \in Account : ~Holds(o, a)'
        BY <2>3, RollbackHolds DEF TypeOK
      <3>2. QED
        BY <3>1 DEF LegOK, InTx
    <2>4. QED
      BY <1>5, <2>2, <2>3 DEF Read, Covered
  <1>6. ASSUME NEW o \in Op, Swap(o)
        PROVE  LegOK(o)'
    <2>1. at[o] \in 1..N(o) /\ N(o) \in Nat /\ at'[o] = at[o] + 1
      BY <1>6, JobFacts DEF Swap, LastLeg, Matches, LegInv, LegOK, TypeOK
    <2>2. pc'[o] = IF at[o] < N(o) THEN "read" ELSE "commit"
      BY <1>6, <2>1 DEF Swap, LastLeg, Matches, TypeOK, N
    <2>3. Leg(o) \in Account
      BY <2>1, ChangeInt
    <2>4. \A a \in Account : Holds(o, a)' <=> Holds(o, a) \/ a = Leg(o)
      <3> DEFINE row == [before |-> seen[o], after |-> seen[o] + Change(o), op |-> o]
      <3>1. row \in Row /\ row # NoRow /\ row.op = o
        BY <2>1, ChangeInt, WalletAssumption DEF Row, TypeOK
      <3>2. pending' = [pending EXCEPT ![Leg(o)] = row]
        BY <1>6 DEF Swap
      <3> HIDE DEF row
      <3>3. QED
        BY <2>3, <3>1, <3>2 DEF Holds, TypeOK
    <2>5. \A a \in Account : Holds(o, a) <=>
             \E i \in 1..N(o) : i < at[o] /\ a = Job[o].order[i]
      BY <1>6 DEF Swap, LastLeg, Matches, LegInv, LegOK, InTx
    <2>6. \A a \in Account : Holds(o, a)' <=>
             \E i \in 1..N(o) : i < at[o] + 1 /\ a = Job[o].order[i]
      BY <2>1, <2>4, <2>5 DEF Leg
    <2>7. QED
      BY <2>1, <2>2, <2>6 DEF LegOK, InTx
  <1>7. ASSUME NEW o \in Op, SwapConflict(o) \/ Commit(o) \/ Fail(o)
        PROVE  LegOK(o)'
    <2>1. pc'[o] \in {"begin", "conflict", "done", "error"} /\ Rollback(o)
      BY <1>7 DEF SwapConflict, Matches, MayRetry, Commit, Fail, TypeOK
    <2>2. \A a \in Account : ~Holds(o, a)'
      BY <2>1, RollbackHolds
    <2>3. pc'[o] = "begin" => tries'[o] < MaxRetries
      BY <1>7 DEF SwapConflict, Matches, MayRetry, Commit, Fail, TypeOK
    <2>4. QED
      BY <2>1, <2>2, <2>3 DEF LegOK, InTx
  <1>8. CASE Crash
    <2>1. \A o \in Op : /\ pc'[o] \notin InTx \cup {"begin"}
                        /\ pc'[o] = "new" => pc[o] = "new" /\ tries' = tries
                        /\ \A a \in Account : ~Holds(o, a)'
      BY <1>8 DEF Crash, Holds, InTx
    <2>2. QED
      BY <2>1 DEF LegInv, LegOK, InTx
  <1>9. CASE UNCHANGED vars
    BY <1>9 DEF vars, LegInv, LegOK, Holds, Change, Leg
  <1>10. ASSUME NEW o \in Op, Step(o)
         PROVE  LegInv'
    <2>1. LegOK(o)'
      BY <1>2, <1>3, <1>4, <1>5, <1>6, <1>7, <1>10 DEF Step
    <2>2. QED
      BY <1>1, <1>10, <2>1 DEF LegInv
  <1>11. QED
    BY <1>8, <1>9, <1>10 DEF Next, AllSettled

-----------------------------------------------------------------------------
(* The inductive invariant: types, books and open transactions together.   *)
THEOREM Invariance == Spec => []WInv
  <1>1. Init => WInv
    BY InitInv
  <1>2. WInv /\ [Next]_vars => WInv'
    <2> SUFFICES ASSUME WInv, [Next]_vars
                 PROVE  WInv'
      OBVIOUS
    <2>1. TypeOK'
      BY NextTypes DEF WInv
    <2>2. QED
      BY <2>1, NextChain, NextPending, NextLegs DEF WInv
  <1>3. QED
    BY <1>1, <1>2, PTL DEF Spec

(* Types of Wallet's variables (wallet.go, workspace_wallet.go).           *)
THEOREM TypeCorrect == Spec => []TypeOK
  <1>1. WInv => TypeOK
    BY DEF WInv
  <1>2. QED
    BY <1>1, Invariance, PTL

(* Whatever transactions interleave, conflict, fail or crash, every row    *)
(* applyDelta writes starts where the account's row before it ended, and   *)
(* the account's balance is where its last row left it.                    *)
THEOREM ChainUnbroken == Spec => []LedgerChain
  <1>1. WInv => LedgerChain
    BY DEF WInv
  <1>2. QED
    BY <1>1, Invariance, PTL

(* No account is left negative by a committed change other than a          *)
(* cost-of-goods debit (applyDelta, applyTreasuryDelta).                   *)
THEOREM NoOverdraft == Spec => []OverdraftOnlyByCost
  <1>1. WInv => OverdraftOnlyByCost
    BY DEF WInv
  <1>2. QED
    BY <1>1, Invariance, PTL

-----------------------------------------------------------------------------
(* Wallet implements Ledger, on both kinds of database: a commit posts an  *)
(* operation with all its legs, once, and nothing else moves the books.    *)
(* LedgerInv adds to WInv what that takes: which change an open            *)
(* transaction has written and where a "set" computed it from, and that an *)
(* operation has rows only when it is done.                                *)
First(o) == Job[o].order[1]

(* The change operation o makes to account a.                              *)
ChangeOf(o, a) == IF Job[o].kind = "set" THEN delta[o] ELSE Job[o].amount[a]

(* Only a "set" reads its target.                                          *)
KindInv == \A o \in Op : pc[o] = "target" => Job[o].kind = "set"

(* On SQLite one transaction is open at a time.                            *)
AloneInv == Serial => \A o, p \in Op : pc[o] \in InTx /\ pc[p] \in InTx => o = p

(* What a "set" may have read: the balance, where transactions are serial, *)
(* and otherwise any the account has had.                                  *)
Readable(a) == IF Serial THEN {balance[a]} ELSE History(a)

TargetOK(o) ==
    Job[o].kind = "set" /\ pc[o] \in {"read", "swap", "commit"} =>
        \E s \in Readable(First(o)) : delta[o] = Job[o].amount[First(o)] - s
TargetInv == \A o \in Op : TargetOK(o)

(* An uncommitted row is its operation's change.                           *)
RowInv ==
    \A a \in Account : pending[a] # NoRow =>
        pending[a].after = pending[a].before + ChangeOf(pending[a].op, a)

LedgerInv == WInv /\ KindInv /\ AloneInv /\ TargetInv /\ RowInv /\ AllOrNothing

-----------------------------------------------------------------------------
LEMMA FirstFacts ==
    ASSUME NEW o \in Op
    PROVE  /\ First(o) \in Account
           /\ 1 \in 1..N(o)
           /\ Job[o].kind = "set" => N(o) = 1 /\ Touched(o) = {First(o)}
  <1>1. 1 \in 1..N(o) /\ First(o) \in Account
    BY JobFacts DEF First
  <1>2. ASSUME Job[o].kind = "set"
        PROVE  N(o) = 1 /\ Touched(o) = {First(o)}
    <2>1. Len(Job[o].order) = 1
      BY <1>2, LedgerAssumption
    <2>2. QED
      BY <2>1 DEF N, Touched, First
  <1>3. QED
    BY <1>1, <1>2

(* A balance is one the account has had.                                   *)
LEMMA BalanceReadable ==
    ASSUME WInv, NEW a \in Account
    PROVE  balance[a] \in Readable(a)
  <1>. PICK n \in Nat : n = Len(ledger[a])
    BY LenProperties DEF WInv, TypeOK, BooksTypeOK
  <1>1. balance[a] = Opening(a, n + 1)
    BY DEF WInv, LedgerChain
  <1>2. CASE n = 0
    BY <1>1, <1>2 DEF Opening, Readable, History
  <1>3. CASE n # 0
    BY <1>1, <1>3 DEF Opening, Readable, History
  <1>4. QED
    BY <1>2, <1>3

(* Histories only grow.                                                    *)
LEMMA HistoryGrows ==
    ASSUME WInv, [Next]_vars, NEW a \in Account
    PROVE  History(a) \subseteq History(a)'
  <1>1. CASE UNCHANGED books
    BY <1>1 DEF books, History
  <1>2. ASSUME NEW o \in Op, Commit(o)
        PROVE  History(a) \subseteq History(a)'
    <2>1. ledger'[a] = ledger[a] \/ \E r \in Row : ledger'[a] = Append(ledger[a], r)
      BY <1>2, CommitAppends
    <2>2. ledger[a] \in Seq(Row)
      BY DEF WInv, TypeOK, BooksTypeOK
    <2>3. \A i \in 1..Len(ledger[a]) : i \in 1..Len(ledger'[a]) /\ ledger'[a][i] = ledger[a][i]
      BY <2>1, <2>2, AppendProperties, LenProperties
    <2>4. QED
      BY <2>3 DEF History
  <1>3. QED
    BY <1>1, <1>2, BooksMove

-----------------------------------------------------------------------------
LEMMA InitLedger == Init => LedgerInv
  <1> SUFFICES ASSUME Init
               PROVE  LedgerInv
    OBVIOUS
  <1>1. KindInv /\ AloneInv /\ TargetInv /\ RowInv
    BY DEF Init, KindInv, AloneInv, TargetInv, TargetOK, RowInv, InTx
  <1>2. \A o \in Op, a \in Account : RowsOf(o, a) = {}
    <2> SUFFICES ASSUME NEW o \in Op, NEW a \in Account
                 PROVE  RowsOf(o, a) = {}
      OBVIOUS
    <2>1. ledger[a] = <<>>
      BY DEF Init, BooksInit
    <2>2. Len(ledger[a]) = 0
      BY <2>1, EmptySeq
    <2>3. 1..Len(ledger[a]) = {}
      BY <2>2
    <2>4. QED
      BY <2>3 DEF RowsOf
  <1>3. AllOrNothing
    BY <1>2 DEF AllOrNothing, Posted, Init
  <1>4. QED
    BY <1>1, <1>3, InitInv DEF LedgerInv

LEMMA NextAlone ==
    ASSUME LedgerInv, [Next]_vars
    PROVE  KindInv' /\ AloneInv'
  <1> USE DEF LedgerInv, WInv
  <1>1. ASSUME NEW o \in Op, Start(o)
        PROVE  KindInv' /\ AloneInv'
    BY <1>1 DEF Start, KindInv, AloneInv, TypeOK, InTx
  <1>2. ASSUME NEW o \in Op, Begin(o)
        PROVE  KindInv' /\ AloneInv'
    BY <1>2 DEF Begin, TxFree, KindInv, AloneInv, TypeOK, InTx
  <1>3. ASSUME NEW o \in Op, ReadTarget(o) \/ Read(o) \/ Swap(o) \/ SwapConflict(o)
                              \/ Commit(o) \/ Fail(o)
        PROVE  KindInv' /\ AloneInv'
    <2>1. /\ \A p \in Op : p # o => pc'[p] = pc[p]
          /\ pc'[o] # "target"
          /\ pc'[o] \in InTx => pc[o] \in InTx
      BY <1>3 DEF ReadTarget, Read, Swap, SwapConflict, Commit, Fail, TypeOK, InTx
    <2>2. QED
      BY <2>1 DEF KindInv, AloneInv
  <1>4. CASE Crash
    BY <1>4 DEF Crash, KindInv, AloneInv, InTx
  <1>5. CASE UNCHANGED vars
    BY <1>5 DEF vars, KindInv, AloneInv
  <1>6. QED
    BY <1>1, <1>2, <1>3, <1>4, <1>5 DEF Next, Step, AllSettled

-----------------------------------------------------------------------------
(* What a "set" read stays readable while its transaction is open.         *)
LEMMA NextTarget ==
    ASSUME LedgerInv, [Next]_vars
    PROVE  TargetInv'
  <1> USE DEF LedgerInv
  <1> SUFFICES ASSUME NEW o \in Op, Job[o].kind = "set",
                      pc'[o] \in {"read", "swap", "commit"}
               PROVE  \E s \in Readable(First(o))' : delta'[o] = Job[o].amount[First(o)] - s
    BY DEF TargetInv, TargetOK, First
  <1>1. CASE ReadTarget(o)
    <2>1. at[o] = 1
      BY <1>1 DEF ReadTarget, WInv, LegInv, LegOK
    <2>2. Leg(o) = First(o) /\ First(o) \in Account
      BY <2>1, FirstFacts DEF Leg, First
    <2>3. ~Holds(o, First(o))
      BY <1>1, <2>1, <2>2, JobFacts DEF ReadTarget, WInv, LegInv, LegOK
    <2>4. delta'[o] = Job[o].amount[First(o)] - balance[First(o)]
      BY <1>1, <2>2, <2>3 DEF ReadTarget, Visible, WInv, TypeOK
    <2>5. balance[First(o)] \in Readable(First(o))
      BY <2>2, BalanceReadable
    <2>6. Readable(First(o))' = Readable(First(o))
      BY <1>1 DEF ReadTarget, books, Readable, History, First
    <2>7. QED
      BY <2>4, <2>5, <2>6
  <1>2. CASE ~ReadTarget(o)
    <2>1. pc[o] \in {"read", "swap", "commit"} /\ delta'[o] = delta[o]
      <3>1. /\ pc \in [Op -> {"new", "begin"} \cup InTx \cup Settled]
            /\ delta \in [Op -> Int]
        BY DEF WInv, TypeOK
      <3>2. CASE Start(o) \/ Begin(o) \/ Read(o) \/ Swap(o)
        BY <3>1, <3>2 DEF Start, Begin, Read, Swap, InTx
      <3>3. CASE SwapConflict(o) \/ Commit(o) \/ Fail(o)
        BY <3>1, <3>3 DEF SwapConflict, Commit, Fail, InTx
      <3>4. ASSUME NEW p \in Op \ {o}, Step(p)
            PROVE  pc'[o] = pc[o] /\ delta'[o] = delta[o]
        <4>1. CASE Start(p) \/ Begin(p) \/ ReadTarget(p) \/ Read(p)
          BY <3>1, <4>1 DEF Start, Begin, ReadTarget, Read
        <4>2. CASE Swap(p) \/ SwapConflict(p) \/ Commit(p) \/ Fail(p)
          BY <3>1, <4>2 DEF Swap, SwapConflict, Commit, Fail
        <4>3. QED
          BY <3>4, <4>1, <4>2 DEF Step
      <3>5. CASE Crash
        BY <3>1, <3>5 DEF Crash, InTx
      <3>6. CASE AllSettled \/ UNCHANGED vars
        BY <3>6 DEF AllSettled, vars
      <3>7. QED
        BY <1>2, <3>2, <3>3, <3>4, <3>5, <3>6 DEF Next, Step
    <2>2. Readable(First(o)) \subseteq Readable(First(o))'
      <3>1. CASE ~Serial
        BY <3>1, HistoryGrows, FirstFacts DEF Readable, First
      <3>2. CASE UNCHANGED books
        BY <3>2 DEF books, Readable, History, First
      <3>3. ASSUME NEW p \in Op, Commit(p), Serial
            PROVE  FALSE
        <4>1. p = o
          BY <3>3, <2>1 DEF Commit, AloneInv, InTx
        <4>2. QED
          BY <3>3, <4>1 DEF Commit, WInv, TypeOK
      <3>4. QED
        BY <3>1, <3>2, <3>3, BooksMove
    <2>3. QED
      BY <2>1, <2>2 DEF TargetInv, TargetOK
  <1>3. QED
    BY <1>1, <1>2

(* A row is written with its operation's change, and the change stays.     *)
LEMMA NextRow ==
    ASSUME LedgerInv, [Next]_vars
    PROVE  RowInv'
  <1> USE DEF LedgerInv, WInv
  <1> SUFFICES ASSUME NEW a \in Account, pending'[a] # NoRow
               PROVE  pending'[a].after = pending'[a].before + ChangeOf(pending[a].op, a)'
    BY DEF RowInv
  <1>1. ASSUME pending'[a] = pending[a], delta'[pending[a].op] = delta[pending[a].op]
        PROVE  pending'[a].after = pending'[a].before + ChangeOf(pending[a].op, a)'
    BY <1>1 DEF RowInv, ChangeOf
  <1>2. ASSUME NEW o \in Op, ReadTarget(o)
        PROVE  pending'[a] = pending[a] /\ delta'[pending[a].op] = delta[pending[a].op]
    <2>1. pending' = pending /\ \A p \in Op : p # o => delta'[p] = delta[p]
      BY <1>2 DEF ReadTarget, TypeOK
    <2>2. pending[a].op \in Op /\ pc[pending[a].op] # "target"
      BY <2>1 DEF PendingInv, TypeOK, Row
    <2>3. QED
      BY <1>2, <2>1, <2>2 DEF ReadTarget
  <1>3. ASSUME NEW o \in Op, Swap(o), a = Leg(o)
        PROVE  pending'[a].after = pending'[a].before + ChangeOf(pending[a].op, a)'
    <2>1. pending'[a] = [before |-> seen[o], after |-> seen[o] + Change(o), op |-> o]
      BY <1>3 DEF Swap, TypeOK
    <2>2. pending'[a].op = o /\ pending'[a].after = pending'[a].before + Change(o)
      BY <2>1
    <2>3. ChangeOf(pending[a].op, a)' = Change(o)
      BY <1>3, <2>2 DEF Swap, ChangeOf, Change
    <2>4. QED
      BY <2>2, <2>3
  <1>4. ASSUME NEW o \in Op, Swap(o), a # Leg(o)
        PROVE  pending'[a] = pending[a] /\ delta' = delta
    BY <1>4 DEF Swap, TypeOK
  <1>5. ASSUME NEW o \in Op, Start(o) \/ Begin(o) \/ Read(o) \/ SwapConflict(o)
                              \/ Commit(o) \/ Fail(o)
        PROVE  pending'[a] = pending[a] /\ delta' = delta
    BY <1>5, RollbackFacts DEF Start, Begin, Read, SwapConflict, Commit, Fail
  <1>6. CASE Crash
    BY <1>6 DEF Crash
  <1>7. CASE UNCHANGED vars
    BY <1>1, <1>7 DEF vars
  <1>8. ASSUME NEW o \in Op, Step(o)
        PROVE  pending'[a].after = pending'[a].before + ChangeOf(pending[a].op, a)'
    BY <1>1, <1>2, <1>3, <1>4, <1>5, <1>8 DEF Step
  <1>9. QED
    BY <1>6, <1>7, <1>8 DEF Next, AllSettled

-----------------------------------------------------------------------------
(* An operation that commits holds a row of each account it touches.       *)
LEMMA CommitHolds ==
    ASSUME WInv, NEW o \in Op, pc[o] = "commit", NEW a \in Account
    PROVE  Holds(o, a) <=> a \in Touched(o)
  <1>1. at[o] = N(o) + 1 /\ N(o) \in Nat
    BY JobFacts DEF WInv, LegInv, LegOK
  <1>2. Holds(o, a) <=> \E i \in 1..N(o) : i < at[o] /\ a = Job[o].order[i]
    BY DEF WInv, LegInv, LegOK, InTx
  <1>3. QED
    BY <1>1, <1>2 DEF Touched, N

(* What a commit does to the rows of each operation.                       *)
LEMMA CommitRows ==
    ASSUME LedgerInv, NEW o \in Op, Commit(o), NEW a \in Account
    PROVE  /\ \A p \in Op : p # o => RowsOf(p, a)' = RowsOf(p, a)
           /\ a \in Touched(o) => RowsOf(o, a)' = {Len(ledger[a]) + 1}
           /\ a \notin Touched(o) => RowsOf(o, a)' = {}
  <1> USE DEF LedgerInv, WInv
  <1>. PICK n \in Nat : n = Len(ledger[a])
    BY LenProperties DEF TypeOK, BooksTypeOK
  <1>1. ledger[a] \in Seq(Row) /\ pc[o] = "commit"
    BY DEF TypeOK, BooksTypeOK, Commit
  <1>2. RowsOf(o, a) = {}
    BY <1>1 DEF AllOrNothing, Posted
  <1>3. CASE a \notin Touched(o)
    <2>1. ledger'[a] = ledger[a]
      BY <1>1, <1>3, CommitHolds DEF Commit
    <2>2. QED
      BY <1>2, <1>3, <2>1 DEF RowsOf
  <1>4. CASE a \in Touched(o)
    <2>1. Holds(o, a)
      BY <1>1, <1>4, CommitHolds
    <2>2. ledger'[a] = Append(ledger[a], pending[a]) /\ pending[a] \in Row /\ pending[a].op = o
      BY <2>1 DEF Commit, Holds, TypeOK
    <2>3. /\ Len(ledger'[a]) = n + 1
          /\ \A i \in 1..n : ledger'[a][i] = ledger[a][i]
          /\ ledger'[a][n + 1] = pending[a]
      BY <1>1, <2>2, AppendProperties
    <2>4. \A p \in Op : RowsOf(p, a)' = {i \in 1..(n + 1) : ledger'[a][i].op = p}
      BY <2>3 DEF RowsOf
    <2>5. \A p \in Op : p # o => RowsOf(p, a)' = RowsOf(p, a)
      <3> SUFFICES ASSUME NEW p \in Op, p # o
                   PROVE  \A i \in 1..(n + 1) :
                             ledger'[a][i].op = p <=> i \in 1..n /\ ledger[a][i].op = p
        BY <2>4 DEF RowsOf
      <3>1. QED
        BY <2>2, <2>3
    <2>6. \A i \in 1..n : ledger[a][i].op # o
      BY <1>2 DEF RowsOf
    <2>7. RowsOf(o, a)' = {n + 1}
      BY <2>2, <2>3, <2>4, <2>6
    <2>8. QED
      BY <1>4, <2>5, <2>7
  <1>5. QED
    BY <1>3, <1>4

LEMMA NextAllOrNothing ==
    ASSUME LedgerInv, [Next]_vars
    PROVE  AllOrNothing'
  <1> USE DEF LedgerInv, WInv
  <1>1. ASSUME NEW o \in Op, Commit(o)
        PROVE  AllOrNothing'
    <2>1. Touched(o) \subseteq Account /\ First(o) \in Touched(o)
      BY JobFacts, FirstFacts DEF First
    <2>2. pc'[o] = "done" /\ Posted(o)'
      <3>1. RowsOf(o, First(o))' # {}
        BY <1>1, <2>1, CommitRows
      <3>2. QED
        BY <1>1, <2>1, <3>1 DEF Commit, TypeOK, Posted
    <2>3. \A p \in Op : p # o => pc'[p] = pc[p] /\ (Posted(p)' <=> Posted(p))
      BY <1>1, CommitRows DEF Commit, TypeOK, Posted
    <2>4. \A a \in Account : /\ \A i, j \in RowsOf(o, a)' : i = j
                             /\ RowsOf(o, a)' # {} <=> a \in Touched(o)
      BY <1>1, CommitRows
    <2>5. \A p \in Op, a \in Account : p # o => RowsOf(p, a)' = RowsOf(p, a)
      BY <1>1, CommitRows
    <2>6. QED
      BY <2>2, <2>3, <2>4, <2>5 DEF AllOrNothing
  <1>2. ASSUME UNCHANGED books,
               \A o \in Op : pc'[o] = "done" => pc[o] = "done" \/ Job[o].kind # "delta",
               \A o \in Op : pc[o] = "done" => pc'[o] = "done"
        PROVE  AllOrNothing'
    <2>1. \A o \in Op : /\ \A a \in Account : RowsOf(o, a)' = RowsOf(o, a)
                        /\ Posted(o)' <=> Posted(o)
      BY <1>2 DEF books, RowsOf, Posted
    <2>2. QED
      BY <1>2, <2>1 DEF AllOrNothing
  <1>3. ASSUME NEW o \in Op, ReadTarget(o)
        PROVE  AllOrNothing'
    BY <1>2, <1>3 DEF ReadTarget, KindInv, TypeOK
  <1>4. ASSUME NEW o \in Op, Start(o) \/ Begin(o) \/ Read(o) \/ Swap(o) \/ SwapConflict(o) \/ Fail(o)
        PROVE  AllOrNothing'
    BY <1>2, <1>4 DEF Start, Begin, Read, Swap, SwapConflict, Fail, TypeOK, InTx
  <1>5. CASE Crash
    BY <1>2, <1>5 DEF Crash, InTx
  <1>6. CASE UNCHANGED vars
    BY <1>2, <1>6 DEF vars, books
  <1>7. QED
    BY <1>1, <1>3, <1>4, <1>5, <1>6 DEF Next, Step, AllSettled

-----------------------------------------------------------------------------
(* A commit is a step of the ledger: every leg, once, covered.             *)
LEMMA CommitPosts ==
    ASSUME LedgerInv, NEW o \in Op, Commit(o)
    PROVE  Post(o)
  <1> USE DEF LedgerInv, WInv
  <1> DEFINE d == [a \in Touched(o) |-> ChangeOf(o, a)]
  <1>1. pc[o] = "commit" /\ ~Posted(o)
    BY DEF Commit, AllOrNothing
  <1>2. Touched(o) \subseteq Account
    BY JobFacts
  <1>3. ASSUME NEW a \in Touched(o)
        PROVE  /\ Holds(o, a) /\ pending[a] \in Row
               /\ pending[a].after = balance[a] + d[a]
               /\ pending[a] = [before |-> balance[a], after |-> balance[a] + d[a], op |-> o]
               /\ Job[o].over \/ balance[a] + d[a] >= 0
    <2>1. Holds(o, a) /\ pending[a] \in Row /\ pending[a].op = o
      BY <1>1, <1>2, CommitHolds DEF Holds, TypeOK
    <2>2. pending[a].before = balance[a] /\ (Job[o].over \/ pending[a].after >= 0)
      BY <1>2, <2>1 DEF Holds, PendingInv
    <2>3. pending[a].after = balance[a] + d[a]
      BY <1>2, <2>1, <2>2 DEF Holds, RowInv
    <2>4. QED
      BY <2>1, <2>2, <2>3 DEF Row
  <1>4. d \in Deltas(o)
    <2>1. CASE Job[o].kind = "delta"
      <3>1. Job[o].amount = [a \in Touched(o) |-> Job[o].amount[a]]
        BY JobFacts
      <3>2. d = Job[o].amount
        BY <2>1, <3>1 DEF ChangeOf
      <3>3. QED
        BY <2>1, <3>2 DEF Deltas
    <2>2. CASE Job[o].kind = "set"
      <3>1. PICK s \in Readable(First(o)) : delta[o] = Job[o].amount[First(o)] - s
        BY <1>1, <2>2 DEF TargetInv, TargetOK
      <3>2. d = [a \in {First(o)} |-> Job[o].amount[First(o)] - s]
        BY <2>2, <3>1, FirstFacts DEF ChangeOf
      <3>3. QED
        BY <2>2, <3>1, <3>2 DEF Deltas, Readable, First
    <2>3. QED
      BY <2>1, <2>2, JobFacts
  <1>5. /\ DOMAIN d = Touched(o)
        /\ \A a \in Account : a \notin Touched(o) => ~Holds(o, a)
    BY <1>1, CommitHolds
  <1> HIDE DEF d
  <1>6. Transfer(o, d, Job[o].over)
    <2>1. Affordable(d, Job[o].over)
      BY <1>3, <1>5 DEF Affordable
    <2>2. balance' = [a \in Account |-> IF a \in DOMAIN d THEN balance[a] + d[a] ELSE balance[a]]
      <3>1. ASSUME NEW a \in Account
            PROVE  (IF Holds(o, a) THEN pending[a].after ELSE balance[a])
                    = (IF a \in DOMAIN d THEN balance[a] + d[a] ELSE balance[a])
        <4>1. a \in Touched(o) => Holds(o, a) /\ pending[a].after = balance[a] + d[a]
          BY <1>3
        <4>2. QED
          BY <4>1, <1>5
      <3>2. QED
        BY <3>1 DEF Commit
    <2>3. ledger' = [a \in Account |->
                       IF a \in DOMAIN d
                       THEN Append(ledger[a], [before |-> balance[a],
                                               after  |-> balance[a] + d[a], op |-> o])
                       ELSE ledger[a]]
      <3>1. \A a \in Account : (IF Holds(o, a) THEN Append(ledger[a], pending[a]) ELSE ledger[a])
                              = (IF a \in DOMAIN d
                                 THEN Append(ledger[a], [before |-> balance[a],
                                                         after  |-> balance[a] + d[a], op |-> o])
                                 ELSE ledger[a])
        BY <1>3, <1>5
      <3>2. QED
        BY <3>1 DEF Commit
    <2>4. QED
      BY <2>1, <2>2, <2>3 DEF Transfer
  <1>7. QED
    BY <1>1, <1>4, <1>6 DEF Post

-----------------------------------------------------------------------------
(* The invariant the ledger rests on, beside WInv.                         *)
THEOREM LedgerInvariance == Spec => []LedgerInv
  <1>1. Init => LedgerInv
    BY InitLedger
  <1>2. LedgerInv /\ [Next]_vars => LedgerInv'
    <2> SUFFICES ASSUME LedgerInv, [Next]_vars
                 PROVE  LedgerInv'
      OBVIOUS
    <2>1. WInv'
      BY NextTypes, NextChain, NextPending, NextLegs DEF LedgerInv, WInv
    <2>2. QED
      BY <2>1, NextAlone, NextTarget, NextRow, NextAllOrNothing DEF LedgerInv
  <1>3. QED
    BY <1>1, <1>2, PTL DEF Spec

(* "Both legs commit (or roll back) together" (wallet.go:98-99), once,     *)
(* however often withRetry started over, and an operation that returned an *)
(* error left nothing behind.                                              *)
THEOREM BothLegsOrNone == Spec => []AllOrNothing
  <1>1. LedgerInv => AllOrNothing
    BY DEF LedgerInv
  <1>2. QED
    BY <1>1, LedgerInvariance, PTL

(* The services, statement by statement, do what Ledger says: their        *)
(* transactions, compare-and-swaps and retries (withRetry, applyDelta) are *)
(* invisible but for one step that posts all legs of an operation.         *)
THEOREM WalletImplementsLedger == Spec => LedgerSpec
  <1>1. Init => BooksInit
    BY DEF Init
  <1>2. LedgerInv /\ [Next]_vars => [LedgerNext]_books
    <2> SUFFICES ASSUME LedgerInv, [Next]_vars
                 PROVE  [LedgerNext]_books
      OBVIOUS
    <2>1. CASE UNCHANGED books
      BY <2>1
    <2>2. ASSUME NEW o \in Op, Commit(o)
          PROVE  LedgerNext
      BY <2>2, CommitPosts DEF LedgerNext
    <2>3. QED
      BY <2>1, <2>2, BooksMove
  <1>3. QED
    BY <1>1, <1>2, LedgerInvariance, PTL DEF Spec, LedgerSpec

-----------------------------------------------------------------------------
(* Where transactions are serial a "set" posts the target: both its reads  *)
(* are of the balance its row starts from.                                 *)
LEMMA PostReachesTarget ==
    ASSUME LedgerInv, SetReachesTarget, Serial, NEW o \in Op, Commit(o)
    PROVE  SetReachesTarget'
  <1>1. PICK d \in Deltas(o) : Transfer(o, d, Job[o].over)
    BY CommitPosts DEF Post
  <1> SUFFICES ASSUME NEW a \in Account, NEW k \in 1..Len(ledger'[a]),
                      Job[ledger'[a][k].op].kind = "set"
               PROVE  ledger'[a][k].after = Job[ledger'[a][k].op].amount[a]
    BY DEF SetReachesTarget
  <1>2. ledger[a] \in Seq(Row) /\ balance[a] \in Int
    BY DEF LedgerInv, WInv, TypeOK, BooksTypeOK
  <1>. PICK n \in Nat : n = Len(ledger[a])
    BY <1>2, LenProperties
  <1>3. CASE ledger'[a] = ledger[a]
    BY <1>3 DEF SetReachesTarget
  <1>4. CASE ledger'[a] # ledger[a]
    <2> DEFINE r == [before |-> balance[a], after |-> balance[a] + d[a], op |-> o]
    <2>1. a \in DOMAIN d /\ ledger'[a] = Append(ledger[a], r)
      BY <1>1, <1>4 DEF Transfer
    <2>2. \E x \in Row : ledger'[a] = Append(ledger[a], x)
      BY <1>4, CommitAppends DEF LedgerInv
    <2>3. /\ Len(ledger'[a]) = n + 1
          /\ \A i \in 1..n : ledger'[a][i] = ledger[a][i]
          /\ ledger'[a][n + 1] = r
      <3>1. PICK x \in Row : ledger'[a] = Append(ledger[a], x)
        BY <2>2
      <3>2. /\ Len(ledger'[a]) = n + 1
            /\ \A i \in 1..n : ledger'[a][i] = ledger[a][i]
            /\ ledger'[a][n + 1] = x
        BY <1>2, <3>1, AppendProperties
      <3>3. x = r
        BY <1>2, <2>1, <3>1, <3>2, AppendProperties
      <3>4. QED
        BY <3>2, <3>3
    <2>4. CASE k \in 1..n
      BY <2>3, <2>4 DEF SetReachesTarget
    <2>5. CASE k = n + 1
      <3>1. ledger'[a][k] = r
        BY <2>3, <2>5
      <3>2. Job[o].kind = "set" /\ r.op = o /\ r.after = balance[a] + d[a]
        BY <3>1
      <3>3. First(o) \in Account /\ Touched(o) = {First(o)}
        BY <3>2, FirstFacts
      <3>4. d = [x \in {First(o)} |-> Job[o].amount[First(o)] - balance[First(o)]]
        BY <3>2 DEF Deltas, First
      <3>5. a = First(o) /\ d[a] = Job[o].amount[a] - balance[a]
        BY <2>1, <3>4
      <3>6. Job[o].amount[a] \in Int
        BY <3>3, <3>5, LedgerAssumption
      <3>7. r.after = Job[o].amount[a]
        BY <1>2, <3>2, <3>5, <3>6
      <3>8. QED
        BY <3>1, <3>2, <3>7
    <2>6. QED
      BY <2>3, <2>4, <2>5
  <1>5. QED
    BY <1>3, <1>4

(* SetBalance "forces a user's balance to target" (wallet.go:221,          *)
(* workspace_wallet.go:188): on SQLite every row a set commits ends on the *)
(* target, whatever runs at the same time.  On PostgreSQL it may miss it.  *)
THEOREM SetEndsOnTarget == Spec => [](Serial => SetReachesTarget)
  <1>1. Init => SetReachesTarget
    <2> SUFFICES ASSUME Init, NEW a \in Account
                 PROVE  1..Len(ledger[a]) = {}
      BY DEF SetReachesTarget
    <2>1. ledger[a] = <<>>
      BY DEF Init, BooksInit
    <2>2. Len(ledger[a]) = 0
      BY <2>1, EmptySeq
    <2>3. QED
      BY <2>2
  <1>2. LedgerInv /\ (Serial => SetReachesTarget) /\ [Next]_vars => (Serial => SetReachesTarget)'
    <2> SUFFICES ASSUME LedgerInv, SetReachesTarget, [Next]_vars, Serial
                 PROVE  SetReachesTarget'
      OBVIOUS
    <2>1. CASE UNCHANGED books
      BY <2>1 DEF books, SetReachesTarget
    <2>2. ASSUME NEW o \in Op, Commit(o)
          PROVE  SetReachesTarget'
      BY <2>2, PostReachesTarget
    <2>3. QED
      BY <2>1, <2>2, BooksMove DEF LedgerInv
  <1>3. QED
    BY <1>1, <1>2, LedgerInvariance, PTL DEF Spec
=============================================================================
