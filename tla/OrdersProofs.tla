----------------------------- MODULE OrdersProofs -----------------------------
(***************************************************************************)
(* Proofs about Orders for every set of requests of every kind, products   *)
(* on any inbounds, any inbounds deleted meanwhile, with all faults.       *)
(* No safety property of Orders but LinkedAsListed is inductive:           *)
(*   RefundedNotSold takes where each request can still go: a refunded one *)
(*     only cancels its order, one that has delivered anything is past the *)
(*     last step that can fail (OInv), and a creation ends only with no leg*)
(*     left (LeftInv);                                                     *)
(*   PaidInFull takes that each request's locals say what its rows in the  *)
(*     books do (CashInv), row by row;                                     *)
(*   OnlySpentRevenueWithheld takes that no wallet of a buyer is ever below*)
(*     zero (PurseInv), so that it is the manager's side that cannot pay,  *)
(*     and that he still has what he earned or has a later row that lowers *)
(*     his balance (EarnedInv);                                            *)
(*   NameSoldOnce takes what each writer has read under its lock (NameInv).*)
(***************************************************************************)
EXTENDS Orders, SequenceTheorems, FiniteSetTheorems, TLAPS

(* The variables are functions of the shapes the steps update.             *)
PcShape == pc = [r \in Request |-> pc[r]]
OrderShape == order = [r \in Request |-> order[r]]
LocalShape ==
    /\ local = [r \in Request |-> local[r]]
    /\ \A r \in Request : /\ DOMAIN local[r] = {"charged", "phase", "wire", "todo", "read"}
                          /\ local[r].charged \in Int
RecordShape ==
    /\ records = [c \in DOMAIN records |-> records[c]]
    /\ \A c \in DOMAIN records : "owner" \in DOMAIN records[c]

(* The steps of a leg, and those that write nothing on the inbound.        *)
Legs == {"leg", "unlink", "lock", "write"}
Looks(r) == LookUp(r) \/ Unlink(r) \/ ReadLeg(r)
LegStep(r) == Looks(r) \/ WriteLeg(r)

ShapeInv == BooksTypeOK /\ PcShape /\ OrderShape /\ LocalShape /\ RecordShape

(* What a sale that was not reversed leaves behind.                        *)
Owns(r) == \E c \in DOMAIN records : records[c].owner.by = r
Delivered(r) == \/ Owns(r)
                \/ Posted(<<r, "cost">>)
                \/ Posted(<<r, "commission">>)
                \/ order[r] = "completed"

RefundInv == \A r \in Request : Refunded(r) => pc[r] \in {"cancel", "failed", "dead"}

Late == {"complete", "cost", "links", "commission", "done", "dead"}
Attaching(r) == pc[r] \in Legs /\ local[r].phase = "attach"
DeliverInv == \A r \in Request : Delivered(r) => pc[r] \in Late \/ Attaching(r)

Apart == \A r \in Request : ~(Refunded(r) /\ Delivered(r))

OInv == ShapeInv /\ RefundInv /\ DeliverInv /\ Apart

-----------------------------------------------------------------------------
LEMMA RequestFacts ==
    ASSUME NEW r \in Request
    PROVE  /\ r # ""
           /\ F(r).buyer \in Account /\ F(r).price \in Nat /\ F(r).cost \in Nat
           /\ Manager[F(r).store] \subseteq Account /\ Treasury[F(r).store] \subseteq Account
           /\ Referrer[F(r).buyer] \subseteq Account /\ Percent \in 0..100
           /\ \A leg \in {"charge", "refund", "cost", "commission"} : <<r, leg>> \in Op
  BY OrdersAssumption DEF F

(* An operation is booked as its transfer would have it: one row on each   *)
(* account it touches, of its change.                                      *)
Empty(o) == \A a \in Account : RowsOf(o, a) = {}

Booked(o, d) ==
    \A a \in Account :
        IF a \in DOMAIN d
        THEN \E i \in RowsOf(o, a) : /\ RowsOf(o, a) = {i}
                                     /\ ledger[a][i].after - ledger[a][i].before = d[a]
        ELSE RowsOf(o, a) = {}

(* Nothing happens to the rows of an operation.                            *)
Untouched(o) ==
    \A a \in Account : /\ RowsOf(o, a)' = RowsOf(o, a)
                       /\ \A i \in RowsOf(o, a) : ledger'[a][i] = ledger[a][i]

(* A transfer books its own operation and leaves the others alone.         *)
LEMMA TransferRows ==
    ASSUME BooksTypeOK, NEW o \in Op, NEW d, NEW over, DOMAIN d \subseteq Account,
           \A a \in DOMAIN d : d[a] \in Int, Transfer(o, d, over)
    PROVE  /\ BooksTypeOK'
           /\ \A q \in Op : q # o => Untouched(q)
           /\ Empty(o) => Booked(o, d)'
  <1> DEFINE row(a) == [before |-> balance[a], after |-> balance[a] + d[a], op |-> o]
  <1>1. /\ balance' = [a \in Account |-> IF a \in DOMAIN d THEN balance[a] + d[a] ELSE balance[a]]
        /\ ledger' = [a \in Account |-> IF a \in DOMAIN d THEN Append(ledger[a], row(a))
                                        ELSE ledger[a]]
    BY DEF Transfer
  <1>2. \A a \in Account : balance[a] \in Int /\ ledger[a] \in Seq(Row) /\ Len(ledger[a]) \in Nat
    BY LenProperties DEF BooksTypeOK
  <1>3. ASSUME NEW a \in DOMAIN d
        PROVE  /\ ledger'[a] \in Seq(Row) /\ ledger'[a] = Append(ledger[a], row(a))
               /\ Len(ledger'[a]) = Len(ledger[a]) + 1
               /\ \A i \in 1..Len(ledger[a]) : ledger'[a][i] = ledger[a][i]
               /\ ledger'[a][Len(ledger[a]) + 1].op = o
               /\ LET r == ledger'[a][Len(ledger[a]) + 1] IN r.after - r.before = d[a]
    <2>1. a \in Account /\ row(a) \in Row
      BY <1>2 DEF Row
    <2>2. ledger'[a] = Append(ledger[a], row(a))
      BY <1>1, <2>1
    <2>3. row(a).op = o /\ row(a).after - row(a).before = d[a]
      BY <1>2, <2>1
    <2> HIDE DEF row
    <2>4. QED
      BY <1>2, <2>1, <2>2, <2>3, AppendProperties
  <1>4. \A a \in Account \ DOMAIN d : ledger'[a] = ledger[a]
    BY <1>1
  <1>5. BooksTypeOK'
    <2>1. \A a \in Account : ledger'[a] \in Seq(Row)
      BY <1>2, <1>3, <1>4
    <2>2. ledger' \in [Account -> Seq(Row)]
      BY <1>1, <2>1
    <2>3. balance' \in [Account -> Int]
      BY <1>1, <1>2
    <2>4. QED
      BY <2>2, <2>3 DEF BooksTypeOK
  <1>6. ASSUME NEW q \in Op, NEW a \in DOMAIN d
        PROVE  RowsOf(q, a)' = RowsOf(q, a) \cup (IF q = o THEN {Len(ledger[a]) + 1} ELSE {})
    <2>1. PICK n \in Nat : n = Len(ledger[a])
      BY <1>2
    <2>2. /\ Len(ledger'[a]) = n + 1 /\ ledger'[a][n + 1].op = o
          /\ \A i \in 1..n : ledger'[a][i] = ledger[a][i]
      BY <1>3, <2>1
    <2>3. ASSUME NEW i \in 1..(n + 1)
          PROVE  ledger'[a][i].op = q
                    <=> (i \in 1..n /\ ledger[a][i].op = q) \/ (i = n + 1 /\ q = o)
      <3>1. CASE i = n + 1
        BY <2>2, <3>1
      <3>2. CASE i \in 1..n
        BY <2>2, <3>2
      <3>3. QED
        BY <3>1, <3>2
    <2>4. RowsOf(q, a)' = {i \in 1..(n + 1) : ledger'[a][i].op = q}
      BY <2>2 DEF RowsOf
    <2>5. RowsOf(q, a) = {i \in 1..n : ledger[a][i].op = q}
      BY <2>1 DEF RowsOf
    <2>6. QED
      BY <2>1, <2>3, <2>4, <2>5
  <1>7. ASSUME NEW q \in Op, q # o
        PROVE  Untouched(q)
    <2> SUFFICES ASSUME NEW a \in Account
                 PROVE  /\ RowsOf(q, a)' = RowsOf(q, a)
                        /\ \A i \in RowsOf(q, a) : ledger'[a][i] = ledger[a][i]
      BY DEF Untouched
    <2>1. CASE a \in DOMAIN d
      <3>1. RowsOf(q, a)' = RowsOf(q, a)
        BY <1>6, <1>7, <2>1
      <3>2. \A i \in RowsOf(q, a) : i \in 1..Len(ledger[a])
        BY DEF RowsOf
      <3>3. QED
        BY <1>3, <2>1, <3>1, <3>2
    <2>2. CASE a \notin DOMAIN d
      BY <1>4, <2>2 DEF RowsOf
    <2>3. QED
      BY <2>1, <2>2
  <1>8. ASSUME Empty(o)
        PROVE  Booked(o, d)'
    <2> SUFFICES ASSUME NEW a \in Account
                 PROVE  IF a \in DOMAIN d
                        THEN \E i \in RowsOf(o, a)' :
                                /\ RowsOf(o, a)' = {i}
                                /\ ledger'[a][i].after - ledger'[a][i].before = d[a]
                        ELSE RowsOf(o, a)' = {}
      BY DEF Booked
    <2>1. CASE a \in DOMAIN d
      BY <1>3, <1>6, <1>8, <2>1 DEF Empty
    <2>2. CASE a \notin DOMAIN d
      BY <1>4, <1>8, <2>2 DEF Empty, RowsOf
    <2>3. QED
      BY <2>1, <2>2
  <1>9. QED
    BY <1>5, <1>7, <1>8

LEMMA TransferPosts ==
    ASSUME BooksTypeOK, NEW o \in Op, NEW d, NEW over, DOMAIN d \subseteq Account,
           \A a \in DOMAIN d : d[a] \in Int, Transfer(o, d, over)
    PROVE  /\ BooksTypeOK'
           /\ \A q \in Op : q # o => (Posted(q)' <=> Posted(q))
  <1>1. BooksTypeOK' /\ \A q \in Op : q # o => Untouched(q)
    BY TransferRows
  <1>2. QED
    BY <1>1 DEF Untouched, Posted

LEMMA BooksKept ==
    ASSUME BooksTypeOK, UNCHANGED books
    PROVE  BooksTypeOK' /\ \A q \in Op : Posted(q)' <=> Posted(q)
  BY DEF books, BooksTypeOK, Posted, RowsOf

(* Whoever has no way back has not been refunded; whoever is not past the  *)
(* last step that can fail has delivered nothing.                          *)
LEMMA Early ==
    ASSUME OInv, NEW r \in Request
    PROVE  /\ pc[r] \notin {"cancel", "failed", "dead"} => ~Refunded(r)
           /\ pc[r] \notin Late /\ ~Attaching(r) => ~Delivered(r)
  BY DEF OInv, RefundInv, DeliverInv

(* A step of one request, from what it makes of that request.              *)
LEMMA RequestSteps ==
    ASSUME OInv, NEW r \in Request, NEW step, Goto(r, step),
           BooksTypeOK', OrderShape', LocalShape', RecordShape',
           \A q \in Request \ {r} : /\ Refunded(q)' => Refunded(q)
                                    /\ Delivered(q)' => Delivered(q)
                                    /\ local'[q] = local[q],
           Refunded(r)' => step \in {"cancel", "failed"} /\ ~Delivered(r)',
           Delivered(r)' => step \in Late \/ (step \in Legs /\ local'[r].phase = "attach")
    PROVE  OInv'
  <1> USE DEF OInv
  <1>1. PcShape' /\ pc'[r] = step /\ \A q \in Request \ {r} : pc'[q] = pc[q]
    BY DEF Goto, ShapeInv, PcShape
  <1>2. ShapeInv'
    BY <1>1 DEF ShapeInv
  <1>3. RefundInv'
    BY <1>1 DEF RefundInv
  <1>4. DeliverInv'
    <2>1. ASSUME NEW q \in Request \ {r}, Delivered(q)'
          PROVE  pc'[q] \in Late \/ Attaching(q)'
      BY <1>1, <2>1 DEF DeliverInv, Attaching
    <2>2. Delivered(r)' => pc'[r] \in Late \/ Attaching(r)'
      BY <1>1 DEF Attaching
    <2>3. QED
      BY <2>1, <2>2 DEF DeliverInv
  <1>5. Apart'
    BY DEF Apart
  <1>6. QED
    BY <1>2, <1>3, <1>4, <1>5

(* One that moves no money, order or record.                               *)
LEMMA QuietStep ==
    ASSUME OInv, NEW r \in Request, NEW step, Goto(r, step),
           UNCHANGED <<books, order, records>>, LocalShape',
           \A q \in Request \ {r} : local'[q] = local[q],
           pc[r] \notin {"cancel", "failed", "dead"},
           pc[r] \in Late \/ Attaching(r) =>
               step \in Late \/ (step \in Legs /\ local'[r].phase = "attach")
    PROVE  OInv'
  <1>1. BooksTypeOK /\ OrderShape /\ RecordShape
    BY DEF OInv, ShapeInv
  <1>2. BooksTypeOK' /\ \A q \in Op : Posted(q)' <=> Posted(q)
    BY <1>1, BooksKept
  <1>3. OrderShape' /\ RecordShape'
    BY <1>1 DEF OrderShape, RecordShape
  <1>4. \A q \in Request : (Refunded(q)' <=> Refunded(q)) /\ (Delivered(q)' <=> Delivered(q))
    BY <1>2, RequestFacts DEF Refunded, Delivered, Owns
  <1>5. ~Refunded(r) /\ (Delivered(r) => pc[r] \in Late \/ Attaching(r))
    BY Early
  <1>6. QED
    BY <1>2, <1>3, <1>4, <1>5, RequestSteps

(* What one leg of money changes of what was refunded and delivered.       *)
LEMMA MoneyMoves ==
    ASSUME OInv, NEW r \in Request, NEW leg \in {"charge", "refund", "cost", "commission"},
           NEW d, NEW over, DOMAIN d \subseteq Account, \A a \in DOMAIN d : d[a] \in Int,
           Transfer(<<r, leg>>, d, over), UNCHANGED <<order, records>>
    PROVE  /\ BooksTypeOK' /\ OrderShape' /\ RecordShape'
           /\ \A q \in Request :
                 /\ q # r \/ leg # "refund" => (Refunded(q)' <=> Refunded(q))
                 /\ q # r \/ leg \in {"charge", "refund"} => (Delivered(q)' <=> Delivered(q))
  <1>1. BooksTypeOK /\ OrderShape /\ RecordShape /\ <<r, leg>> \in Op
    BY RequestFacts DEF OInv, ShapeInv
  <1>2. BooksTypeOK' /\ \A q \in Op : q # <<r, leg>> => (Posted(q)' <=> Posted(q))
    BY <1>1, TransferPosts
  <1>3. OrderShape' /\ RecordShape'
    BY <1>1 DEF OrderShape, RecordShape
  <1>4. \A q \in Request, k \in {"charge", "refund", "cost", "commission"} :
           q # r \/ k # leg => (Posted(<<q, k>>)' <=> Posted(<<q, k>>))
    BY <1>2, RequestFacts
  <1>5. \A q \in Request : Owns(q)' <=> Owns(q)
    BY DEF Owns
  <1>6. QED
    BY <1>2, <1>3, <1>4, <1>5 DEF Refunded, Delivered

LEMMA SaleShape ==
    ASSUME NEW r \in Request, NEW n \in Int, NEW sign \in {-1, 1}
    PROVE  /\ DOMAIN Sale(r, n, sign) \subseteq Account
           /\ \A a \in DOMAIN Sale(r, n, sign) : Sale(r, n, sign)[a] \in Int
  <1>1. sign * n \in Int /\ -sign * n \in Int
    OBVIOUS
  <1>2. QED
    BY <1>1, RequestFacts DEF Sale

-----------------------------------------------------------------------------
LEMMA InitOrders == Init => OInv
  <1> SUFFICES ASSUME Init
               PROVE  OInv
    OBVIOUS
  <1>1. BooksTypeOK /\ \A q : ~Posted(q)
    <2>1. BooksTypeOK
      <3>1. <<>> \in Seq(Row)
        BY EmptySeq
      <3>2. QED
        BY <3>1, BooksAssumption DEF Init, BooksInit, BooksTypeOK
    <2>2. \A a \in Account : ledger[a] = <<>>
      BY DEF Init, BooksInit
    <2>3. QED
      BY <2>1, <2>2 DEF Posted, RowsOf
  <1>2. PcShape /\ OrderShape /\ LocalShape
    <2>1. PcShape
      BY DEF Init, PcShape
    <2>2. OrderShape
      BY DEF Init, OrderShape
    <2>3. LocalShape
      <3> DEFINE l == [charged |-> 0, phase |-> "none", wire |-> NoEntry, todo |-> <<>>, read |-> <<>>]
      <3>1. local = [r \in Request |-> l]
        BY DEF Init
      <3>2. DOMAIN l = {"charged", "phase", "wire", "todo", "read"} /\ l.charged = 0
        OBVIOUS
      <3> HIDE DEF l
      <3>3. QED
        BY <3>1, <3>2 DEF LocalShape
    <2>4. QED
      BY <2>1, <2>2, <2>3
  <1>3. RecordShape /\ \A c \in DOMAIN records : records[c].owner.by = ""
    BY DEF Init, RecordShape, Owner
  <1>4. \A r \in Request : ~Refunded(r) /\ ~Delivered(r)
    <2>1. \A r \in Request : order[r] = "none"
      BY DEF Init
    <2>2. QED
      BY <1>1, <1>3, <2>1, RequestFacts DEF Refunded, Delivered, Owns
  <1>5. QED
    BY <1>1, <1>2, <1>3, <1>4 DEF OInv, ShapeInv, RefundInv, DeliverInv, Apart

(* A leg keeps what is to be written, and takes the first inbound off what *)
(* is left.                                                                *)
LEMMA LegLocals ==
    ASSUME LocalShape, NEW r \in Request, LegStep(r)
    PROVE  /\ LocalShape'
           /\ \A q \in Request \ {r} : local'[q] = local[q]
           /\ local'[r].phase = local[r].phase /\ local'[r].wire = local[r].wire
           /\ local'[r].charged = local[r].charged
           /\ local'[r].todo \in {local[r].todo, Tail(local[r].todo)}
  <1> PICK rest : rest = Tail(local[r].todo)
    OBVIOUS
  <1>1. CASE Looks(r)
    <2>1. \/ local' = local
          \/ \E list : local' = [local EXCEPT ![r].read = list]
          \/ local' = [local EXCEPT ![r].todo = rest]
      BY <1>1 DEF Looks, LookUp, Unlink, ReadLeg
    <2>2. CASE local' = local
      BY <2>2 DEF LocalShape
    <2>3. ASSUME NEW list, local' = [local EXCEPT ![r].read = list]
          PROVE  /\ LocalShape' /\ \A q \in Request \ {r} : local'[q] = local[q]
                 /\ local'[r].phase = local[r].phase /\ local'[r].wire = local[r].wire
                 /\ local'[r].charged = local[r].charged /\ local'[r].todo = local[r].todo
      BY <2>3 DEF LocalShape
    <2>4. CASE local' = [local EXCEPT ![r].todo = rest]
      BY <2>4 DEF LocalShape
    <2>5. QED
      BY <2>1, <2>2, <2>3, <2>4
  <1>2. CASE WriteLeg(r)
    <2>1. \/ local' = [local EXCEPT ![r].todo = rest, ![r].read = <<>>]
          \/ local' = [local EXCEPT ![r].read = <<>>]
      BY <1>2 DEF WriteLeg
    <2>2. CASE local' = [local EXCEPT ![r].todo = rest, ![r].read = <<>>]
      BY <2>2 DEF LocalShape
    <2>3. CASE local' = [local EXCEPT ![r].read = <<>>]
      BY <2>3 DEF LocalShape
    <2>4. QED
      BY <2>1, <2>2, <2>3
  <1>3. QED
    BY <1>1, <1>2 DEF LegStep

(* Steps that move no money, order or record.                              *)
LEMMA QuietSteps ==
    ASSUME OInv, NEW r \in Request,
           \/ Check(r) \/ CheckName(r) \/ Looks(r) \/ ReadPlan(r) \/ Touch(r) \/ Reset(r)
           \/ ReadLinks(r)
    PROVE  OInv'
  <1>1. LocalShape
    BY DEF OInv, ShapeInv
  <1>2. CASE Check(r) \/ Touch(r) \/ Reset(r)
    <2>1. PICK step \in {"charge", "refused", "complete", "refund", "cost"} : Goto(r, step)
      BY <1>2 DEF Check, Touch, Reset
    <2>2. UNCHANGED <<books, order, local, records>> /\ pc[r] \in {"new", "touch", "reset"}
      BY <1>2 DEF Check, Touch, Reset, clients
    <2>3. LocalShape'
      BY <1>1, <2>2 DEF LocalShape
    <2>4. QED
      BY <2>1, <2>2, <2>3, QuietStep DEF Late, Attaching, Legs
  <1>3. CASE CheckName(r)
    <2>1. PICK step \in {"leg", "refund"} : Goto(r, step)
      BY <1>3 DEF CheckName
    <2>2. UNCHANGED <<books, order, records>> /\ pc[r] = "name"
      BY <1>3 DEF CheckName, clients
    <2>3. LocalShape' /\ \A q \in Request \ {r} : local'[q] = local[q]
      BY <1>1, <1>3 DEF CheckName, LocalShape
    <2>4. QED
      BY <2>1, <2>2, <2>3, QuietStep DEF Late, Attaching, Legs
  <1>4. CASE ReadPlan(r)
    <2>1. PICK step \in {"leg", "touch"} : Goto(r, step)
      BY <1>4 DEF ReadPlan
    <2>2. UNCHANGED <<books, order, records>> /\ pc[r] = "readplan"
      BY <1>4 DEF ReadPlan, clients
    <2>3. LocalShape' /\ \A q \in Request \ {r} : local'[q] = local[q]
      BY <1>1, <1>4 DEF ReadPlan, LocalShape
    <2>4. QED
      BY <2>1, <2>2, <2>3, QuietStep DEF Late, Attaching, Legs
  <1>5. CASE ReadLinks(r)
    <2>1. PICK step \in {"leg", "commission"} : Goto(r, step)
      BY <1>5 DEF ReadLinks
    <2>2. UNCHANGED <<books, order, records>> /\ pc[r] = "links"
      BY <1>5 DEF ReadLinks, clients
    <2>3. LocalShape' /\ local'[r].phase = "attach" /\ \A q \in Request \ {r} : local'[q] = local[q]
      BY <1>1, <1>5 DEF ReadLinks, LocalShape
    <2>4. QED
      BY <2>1, <2>2, <2>3, QuietStep DEF Late, Attaching, Legs
  <1>6. CASE Looks(r)
    <2>1. UNCHANGED <<books, order, records>> /\ pc[r] \in Legs
      BY <1>6 DEF Looks, LookUp, Unlink, ReadLeg, clients, Legs
    <2>2. /\ LocalShape' /\ local'[r].phase = local[r].phase
          /\ \A q \in Request \ {r} : local'[q] = local[q]
      BY <1>1, <1>6, LegLocals DEF LegStep
    <2>3. \E step : /\ Goto(r, step)
                    /\ local[r].phase = "attach" => step \in {"leg", "unlink", "lock", "write", "commission"}
      BY <1>6 DEF Looks, LookUp, Unlink, ReadLeg, NextLeg, Abort, After
    <2>4. PICK step : /\ Goto(r, step)
                      /\ local[r].phase = "attach" => step \in {"leg", "unlink", "lock", "write", "commission"}
      BY <2>3
    <2>5. QED
      BY <2>1, <2>2, <2>4, QuietStep DEF Late, Attaching, Legs
  <1>7. QED
    BY <1>2, <1>3, <1>4, <1>5, <1>6

(* The price goes one way, and back.                                       *)
LEMMA SaleSteps ==
    ASSUME OInv, NEW r \in Request, Charge(r) \/ Refund(r)
    PROVE  OInv'
  <1>1. LocalShape /\ local[r].charged \in Int
    BY DEF OInv, ShapeInv, LocalShape
  <1>2. UNCHANGED <<order, records>>
    BY DEF Charge, Refund, clients
  <1>3. CASE Charge(r)
    <2>1. PICK step \in {"create", "name", "reset", "refused"} : Goto(r, step)
      BY <1>3 DEF Charge
    <2>2. pc[r] = "charge" /\ Due(r) \in Int
      <3>1. F(r).price \in Nat
        BY RequestFacts
      <3>2. Due(r) = 0 \/ Due(r) = F(r).price
        BY DEF Due
      <3>3. QED
        BY <1>3, <3>1, <3>2 DEF Charge
    <2>3. LocalShape' /\ \A q \in Request \ {r} : local'[q] = local[q]
      BY <1>1, <1>3, <2>2 DEF Charge, LocalShape
    <2>4. CASE UNCHANGED books
      BY <1>2, <2>1, <2>2, <2>3, <2>4, QuietStep DEF Late, Attaching, Legs
    <2>5. CASE Transfer(<<r, "charge">>, Sale(r, Due(r), -1), FALSE)
      <3>1. /\ BooksTypeOK' /\ OrderShape' /\ RecordShape'
            /\ \A q \in Request : /\ Refunded(q)' <=> Refunded(q)
                                  /\ Delivered(q)' <=> Delivered(q)
        BY <1>2, <2>2, <2>5, SaleShape, MoneyMoves
      <3>2. ~Refunded(r) /\ ~Delivered(r)
        BY <2>2, Early DEF Late, Attaching, Legs
      <3>3. QED
        BY <2>1, <2>3, <3>1, <3>2, RequestSteps
    <2>6. QED
      BY <1>3, <2>4, <2>5 DEF Charge
  <1>4. CASE Refund(r)
    <2>1. PICK step \in {"cancel", "failed"} : Goto(r, step)
      BY <1>4 DEF Refund
    <2>2. pc[r] = "refund" /\ Paid(r) \in Int /\ UNCHANGED local
      BY <1>1, <1>4 DEF Refund, Paid
    <2>3. LocalShape'
      BY <1>1, <2>2 DEF LocalShape
    <2>4. CASE UNCHANGED books
      BY <1>2, <2>1, <2>2, <2>3, <2>4, QuietStep DEF Late, Attaching, Legs
    <2>5. CASE Transfer(<<r, "refund">>, Sale(r, Paid(r), 1), FALSE)
      <3>1. /\ BooksTypeOK' /\ OrderShape' /\ RecordShape'
            /\ \A q \in Request : /\ q # r => (Refunded(q)' <=> Refunded(q))
                                  /\ Delivered(q)' <=> Delivered(q)
        BY <1>2, <2>2, <2>5, SaleShape, MoneyMoves
      <3>2. ~Delivered(r)
        BY <2>2, Early DEF Late, Attaching, Legs
      <3>3. QED
        BY <2>1, <2>2, <2>3, <3>1, <3>2, RequestSteps
    <2>6. QED
      BY <1>4, <2>4, <2>5 DEF Refund
  <1>5. QED
    BY <1>3, <1>4

(* The treasury's cost, which may overdraw, and the referrer's commission. *)
LEMMA FeeShape ==
    ASSUME NEW r \in Request, CostOfGoods(r) \/ PayCommission(r)
    PROVE  \/ UNCHANGED books
           \/ \E leg \in {"cost", "commission"}, over \in BOOLEAN : \E d :
                 /\ Transfer(<<r, leg>>, d, over)
                 /\ DOMAIN d \subseteq Account /\ \A a \in DOMAIN d : d[a] \in Int
                 /\ over => DOMAIN d \subseteq Treasury[F(r).store]
  <1>1. CASE CostOfGoods(r) /\ ~UNCHANGED books
    <2>1. PICK owes \in SUBSET Treasury[F(r).store] :
             Transfer(<<r, "cost">>, [t \in owes |-> -F(r).cost], TRUE)
      BY <1>1 DEF CostOfGoods
    <2> DEFINE d == [t \in owes |-> -F(r).cost]
    <2>2. -F(r).cost \in Int /\ owes \subseteq Account
      <3>1. F(r).cost \in Nat /\ Treasury[F(r).store] \subseteq Account
        BY RequestFacts
      <3>2. QED
        BY <3>1
    <2>3. /\ DOMAIN d \subseteq Account /\ \A a \in DOMAIN d : d[a] \in Int
          /\ DOMAIN d \subseteq Treasury[F(r).store]
      BY <2>2
    <2> HIDE DEF d
    <2>4. QED
      BY <2>1, <2>3 DEF d
  <1>2. CASE PayCommission(r) /\ ~UNCHANGED books
    <2>1. PICK earner \in SUBSET Referrer[F(r).buyer] :
             Transfer(<<r, "commission">>, [u \in earner |-> Commission(r)], FALSE)
      BY <1>2 DEF PayCommission
    <2> DEFINE d == [u \in earner |-> Commission(r)]
    <2>2. Commission(r) \in Int /\ earner \subseteq Account
      <3>1. F(r).price \in Nat /\ Percent \in 0..100 /\ Referrer[F(r).buyer] \subseteq Account
        BY RequestFacts
      <3>2. \A p \in Nat, q \in 0..100 : (p * q) \div 100 \in Int
        OBVIOUS
      <3>3. QED
        BY <3>1, <3>2 DEF Commission
    <2>3. DOMAIN d \subseteq Account /\ \A a \in DOMAIN d : d[a] \in Int
      BY <2>2
    <2> HIDE DEF d
    <2>4. QED
      BY <2>1, <2>3 DEF d
  <1>3. QED
    BY <1>1, <1>2

(* They come when the sale can no longer fail.                             *)
LEMMA FeeSteps ==
    ASSUME OInv, NEW r \in Request, CostOfGoods(r) \/ PayCommission(r)
    PROVE  OInv'
  <1>1. UNCHANGED <<order, local, records>> /\ LocalShape
    BY DEF CostOfGoods, PayCommission, clients, OInv, ShapeInv
  <1>2. LocalShape'
    BY <1>1 DEF LocalShape
  <1>3. PICK step \in {"links", "commission", "done"} : Goto(r, step)
    BY DEF CostOfGoods, PayCommission
  <1>4. pc[r] \in {"cost", "commission"}
    BY DEF CostOfGoods, PayCommission
  <1>5. CASE UNCHANGED books
    BY <1>1, <1>2, <1>3, <1>4, <1>5, QuietStep DEF Late
  <1>6. ASSUME NEW leg \in {"cost", "commission"}, NEW d, NEW over, Transfer(<<r, leg>>, d, over),
               DOMAIN d \subseteq Account, \A a \in DOMAIN d : d[a] \in Int
        PROVE  OInv'
    <2>1. /\ BooksTypeOK' /\ OrderShape' /\ RecordShape'
          /\ \A q \in Request : /\ Refunded(q)' <=> Refunded(q)
                                /\ q # r => (Delivered(q)' <=> Delivered(q))
      BY <1>1, <1>6, MoneyMoves
    <2>2. ~Refunded(r)
      BY <1>4, Early
    <2>3. QED
      BY <1>1, <1>2, <1>3, <2>1, <2>2, RequestSteps DEF Late
  <1>7. QED
    BY <1>5, <1>6, FeeShape

(* The order's row.                                                        *)
LEMMA OrderSteps ==
    ASSUME OInv, NEW r \in Request, CreateOrder(r) \/ Cancel(r) \/ Complete(r)
    PROVE  OInv'
  <1>1. UNCHANGED <<books, local, records>> /\ LocalShape /\ OrderShape /\ RecordShape /\ BooksTypeOK
    BY DEF CreateOrder, Cancel, Complete, clients, OInv, ShapeInv
  <1>2. LocalShape' /\ RecordShape'
    BY <1>1 DEF LocalShape, RecordShape
  <1>3. BooksTypeOK' /\ \A q \in Request, k \in {"charge", "refund", "cost", "commission"} :
                           Posted(<<q, k>>)' <=> Posted(<<q, k>>)
    BY <1>1, BooksKept, RequestFacts
  <1>4. OrderShape' /\ \A q \in Request \ {r} : order'[q] = order[q]
    BY <1>1 DEF OrderShape, CreateOrder, Cancel, Complete
  <1>5. \A q \in Request : /\ Refunded(q)' <=> Refunded(q)
                           /\ q # r => (Delivered(q)' <=> Delivered(q))
    BY <1>1, <1>3, <1>4 DEF Refunded, Delivered, Owns
  <1>6. order'[r] # "completed" => (Delivered(r)' => Delivered(r))
    BY <1>1, <1>3 DEF Delivered, Owns
  <1>7. CASE CreateOrder(r)
    <2>1. PICK step : Goto(r, step)
      BY <1>7 DEF CreateOrder
    <2>2. pc[r] = "create"
      BY <1>7 DEF CreateOrder
    <2>3. ~Refunded(r) /\ ~Delivered(r)
      BY <2>2, Early DEF Late, Attaching, Legs
    <2>4. order'[r] # "completed"
      <3>1. order[r] # "completed"
        BY <2>3 DEF Delivered
      <3>2. QED
        BY <1>1, <1>7, <3>1 DEF CreateOrder, OrderShape
    <2>5. QED
      BY <1>1, <1>2, <1>3, <1>4, <1>5, <1>6, <2>1, <2>3, <2>4, RequestSteps
  <1>8. CASE Cancel(r)
    <2>1. Goto(r, "failed") /\ pc[r] = "cancel"
      BY <1>8 DEF Cancel
    <2>2. ~Delivered(r)
      BY <2>1, Early DEF Late, Attaching, Legs
    <2>3. order'[r] # "completed"
      <3>1. order[r] # "completed"
        BY <2>2 DEF Delivered
      <3>2. QED
        BY <1>1, <1>8, <3>1 DEF Cancel, OrderShape
    <2>4. QED
      BY <1>1, <1>2, <1>3, <1>4, <1>5, <1>6, <2>1, <2>2, <2>3, RequestSteps
  <1>9. CASE Complete(r)
    <2>1. Goto(r, "cost") /\ pc[r] = "complete"
      BY <1>9 DEF Complete
    <2>2. ~Refunded(r)
      BY <2>1, Early
    <2>3. QED
      BY <1>1, <1>2, <1>3, <1>4, <1>5, <2>1, <2>2, RequestSteps DEF Late
  <1>10. QED
    BY <1>7, <1>8, <1>9

(* The clients' records: a leg keeps whoever owns a record, the stamp makes*)
(* it the request's own.                                                   *)
LEMMA RecordSteps ==
    ASSUME OInv, NEW r \in Request, WriteLeg(r) \/ Stamp(r)
    PROVE  OInv'
  <1>1. UNCHANGED <<books, order>> /\ LocalShape /\ OrderShape /\ RecordShape /\ BooksTypeOK
    BY DEF WriteLeg, Stamp, OInv, ShapeInv
  <1>2. OrderShape'
    BY <1>1 DEF OrderShape
  <1>3. BooksTypeOK' /\ \A q \in Request, k \in {"charge", "refund", "cost", "commission"} :
                           Posted(<<q, k>>)' <=> Posted(<<q, k>>)
    BY <1>1, BooksKept, RequestFacts
  <1>4. \A q \in Request : (Refunded(q)' <=> Refunded(q))
    BY <1>3 DEF Refunded
  <1>5. ASSUME NEW q \in Request, Owns(q)' => Owns(q)
        PROVE  Delivered(q)' => Delivered(q)
    BY <1>1, <1>3, <1>5 DEF Delivered
  <1>6. CASE WriteLeg(r)
    <2>1. pc[r] = "write"
      BY <1>6 DEF WriteLeg
    <2>2. /\ LocalShape' /\ local'[r].phase = local[r].phase
          /\ \A q \in Request \ {r} : local'[q] = local[q]
      BY <1>1, <1>6, LegLocals DEF LegStep
    <2>3. PICK step : /\ Goto(r, step)
                      /\ local[r].phase = "attach" => step \in {"leg", "commission"}
      <3>1. \E step : /\ Goto(r, step)
                      /\ local[r].phase = "attach" => step \in {"leg", "commission"}
        BY <1>6 DEF WriteLeg, NextLeg, Abort, After
      <3>2. QED
        BY <3>1
    <2>4. RecordShape' /\ \A q \in Request : Owns(q)' => Owns(q)
      <3>1. CASE UNCHANGED records
        BY <1>1, <3>1 DEF RecordShape, Owns
      <3>2. CASE \E list : records' = Records(list)
        <4>1. PICK list : records' = Records(list)
          BY <3>2
        <4>2. /\ records' = [c \in DOMAIN records' |-> records'[c]]
              /\ \A c \in DOMAIN records' :
                    \/ c \in DOMAIN records /\ records'[c] = records[c]
                    \/ /\ "owner" \in DOMAIN records'[c]
                       /\ \/ c \in DOMAIN records /\ records'[c].owner = records[c].owner
                          \/ records'[c].owner = Owner("", "", "")
          BY <4>1 DEF Records
        <4>3. Owner("", "", "").by = ""
          BY DEF Owner
        <4>4. QED
          BY <1>1, <4>2, <4>3, RequestFacts DEF RecordShape, Owns
      <3>3. QED
        BY <1>6, <3>1, <3>2 DEF WriteLeg, clients
    <2>5. ~Refunded(r) /\ (Delivered(r) => local[r].phase = "attach")
      BY <2>1, Early DEF Late, Attaching, Legs
    <2>6. QED
      BY <1>2, <1>3, <1>4, <1>5, <2>2, <2>3, <2>4, <2>5, RequestSteps DEF Late, Legs
  <1>7. CASE Stamp(r)
    <2>1. pc[r] = "stamp" /\ UNCHANGED local
      BY <1>7 DEF Stamp
    <2>2. LocalShape'
      BY <1>1, <2>1 DEF LocalShape
    <2>3. ~Refunded(r) /\ ~Delivered(r)
      BY <2>1, Early DEF Late, Attaching, Legs
    <2>4. CASE Goto(r, "refund") /\ UNCHANGED records
      BY <1>1, <2>1, <2>2, <2>4, QuietStep DEF Late, Attaching, Legs
    <2>5. CASE /\ records' = [records EXCEPT ![F(r).config].owner = Owner(F(r).buyer, F(r).store, r)]
               /\ Goto(r, IF Ordered(r) THEN "complete" ELSE "cost")
      <3>1. PICK step \in {"complete", "cost"} : Goto(r, step)
        BY <2>5
      <3>2. Owner(F(r).buyer, F(r).store, r).by = r
        BY DEF Owner
      <3>3. RecordShape' /\ \A q \in Request \ {r} : Owns(q)' => Owns(q)
        BY <1>1, <2>5, <3>2 DEF RecordShape, Owns
      <3>4. QED
        BY <1>2, <1>3, <1>4, <1>5, <2>1, <2>2, <2>3, <3>1, <3>3, RequestSteps DEF Late
    <2>6. QED
      BY <1>7, <2>4, <2>5 DEF Stamp
  <1>8. QED
    BY <1>6, <1>7

(* Deletions of inbounds touch neither; a crash ends what is under way.    *)
LEMMA WorldSteps ==
    ASSUME OInv, \/ \E i \in Inbound : DetachInbound(i) \/ DeleteInbound(i)
                 \/ Crash \/ UNCHANGED vars
    PROVE  OInv'
  <1>1. UNCHANGED <<books, order, local, records>>
    BY DEF DetachInbound, DeleteInbound, Crash, vars, clients
  <1>2. BooksTypeOK /\ OrderShape /\ LocalShape /\ RecordShape /\ PcShape
    BY DEF OInv, ShapeInv
  <1>3. BooksTypeOK' /\ \A q \in Op : Posted(q)' <=> Posted(q)
    BY <1>1, <1>2, BooksKept
  <1>4. \A q \in Request : (Refunded(q)' <=> Refunded(q)) /\ (Delivered(q)' <=> Delivered(q))
    BY <1>1, <1>3, RequestFacts DEF Refunded, Delivered, Owns
  <1>5. \A q \in Request : pc'[q] \in {pc[q], "dead"}
    BY <1>2 DEF DetachInbound, DeleteInbound, Crash, vars
  <1>6. PcShape'
    BY <1>2 DEF PcShape, DetachInbound, DeleteInbound, Crash, vars
  <1>7. ShapeInv'
    BY <1>1, <1>2, <1>3, <1>6 DEF ShapeInv, OrderShape, LocalShape, RecordShape
  <1>8. RefundInv' /\ Apart'
    BY <1>4, <1>5 DEF OInv, RefundInv, Apart
  <1>9. DeliverInv'
    BY <1>1, <1>4, <1>5 DEF OInv, DeliverInv, Attaching, Late
  <1>10. QED
    BY <1>7, <1>8, <1>9 DEF OInv

-----------------------------------------------------------------------------
LEMMA OInvSteps == OInv /\ [Next]_vars => OInv'
  BY QuietSteps, SaleSteps, FeeSteps, OrderSteps, RecordSteps, WorldSteps
  DEF Next, Advance, LegStep, Looks, AllEnded

(* The invariant the properties rest on.                                   *)
THEOREM OrdersInvariance == Spec => []OInv
  <1>1. OInv /\ [Next]_vars => OInv'
    BY OInvSteps
  <1>2. QED
    BY <1>1, InitOrders, PTL DEF Spec

(* The steps before the charge, and those a refund is followed by.         *)
Before == {"unasked", "new", "charge", "refused"}
Behind == {"cancel", "failed", "dead"}

(* What local.charged says is what the books have, until it was refunded;  *)
(* and whoever is past the charge, or has an order, was charged all.       *)
ChargedInv(r) ==
    /\ local[r].charged \in {0, Due(r)}
    /\ pc[r] \in Before => local[r].charged = 0
    /\ pc[r] \notin Before \cup {"dead"} \/ order[r] # "none" => local[r].charged = Due(r)
    /\ IF local[r].charged = 0 THEN Empty(<<r, "charge">>)
       ELSE Booked(<<r, "charge">>, Sale(r, local[r].charged, -1))

RefundedInv(r) ==
    \/ Empty(<<r, "refund">>)
    \/ /\ pc[r] \in Behind /\ local[r].charged > 0
       /\ Booked(<<r, "refund">>, Sale(r, local[r].charged, 1))

PhaseInv(r) == pc[r] \in Legs => local[r].phase \in {"create", "update", "attach"}

CashInv == \A r \in Request : ChargedInv(r) /\ RefundedInv(r) /\ PhaseInv(r)

(* The wallets of a request's buyer and of the store's manager are never   *)
(* below zero; a manager still has what he earned from a request, or has   *)
(* spent since; and without faults only one who has spent keeps a failed   *)
(* request's money.                                                        *)
Purses(r) == {F(r).buyer} \cup Manager[F(r).store]
Seller(r) == Manager[F(r).store] \ {F(r).buyer}

PurseInv == \A r \in Request : \A a \in Purses(r) : balance[a] >= 0

EarnedInv == \A r \in Request : \A m \in Seller(r) :
    local[r].charged > 0 => SpentSince(r, m) \/ balance[m] >= local[r].charged

Kept(r) == /\ pc[r] \in {"cancel", "failed"} /\ local[r].charged > 0
           /\ ~Refunded(r) /\ r \notin outrun

WithheldInv ==
    ~faulty => \A r \in Request : Kept(r) => \E m \in Seller(r) : SpentSince(r, m)

-----------------------------------------------------------------------------
LEMMA DueFacts ==
    ASSUME NEW r \in Request
    PROVE  Due(r) \in Nat
  BY RequestFacts DEF Due

(* What is booked stays booked.                                            *)
LEMMA UntouchedStays ==
    ASSUME NEW o, Untouched(o), NEW d
    PROVE  /\ Empty(o) => Empty(o)'
           /\ Booked(o, d) => Booked(o, d)'
           /\ Posted(o)' <=> Posted(o)
  <1>1. Empty(o) => Empty(o)'
    BY DEF Untouched, Empty
  <1>2. Booked(o, d) => Booked(o, d)'
    BY DEF Untouched, Booked
  <1>3. Posted(o)' <=> Posted(o)
    BY DEF Untouched, Posted
  <1>4. QED
    BY <1>1, <1>2, <1>3

(* A request whose legs and locals stay keeps its money in order wherever  *)
(* it does not cross the charge.                                           *)
LEMMA CashStays ==
    ASSUME NEW r \in Request, ChargedInv(r), RefundedInv(r),
           Untouched(<<r, "charge">>), Untouched(<<r, "refund">>),
           local'[r].charged = local[r].charged,
           pc'[r] \in Before => pc[r] \in Before,
           pc'[r] \notin Before \cup {"dead"} => pc[r] \notin Before \cup {"dead"},
           pc[r] \in Behind => pc'[r] \in Behind,
           order'[r] # "none" => order[r] # "none" \/ pc[r] \notin Before \cup {"dead"}
    PROVE  ChargedInv(r)' /\ RefundedInv(r)'
  <1>1. \A n : Sale(r, n, -1)' = Sale(r, n, -1) /\ Sale(r, n, 1)' = Sale(r, n, 1)
    OBVIOUS
  <1>2. \A d : /\ Empty(<<r, "charge">>) => Empty(<<r, "charge">>)'
               /\ Booked(<<r, "charge">>, d) => Booked(<<r, "charge">>, d)'
               /\ Empty(<<r, "refund">>) => Empty(<<r, "refund">>)'
               /\ Booked(<<r, "refund">>, d) => Booked(<<r, "refund">>, d)'
    BY UntouchedStays
  <1>3. ChargedInv(r)'
    BY <1>2 DEF ChargedInv
  <1>4. RefundedInv(r)'
    BY <1>2 DEF RefundedInv
  <1>5. QED
    BY <1>3, <1>4

(* A step of one request, from what it makes of that request's money.      *)
LEMMA OthersStay ==
    ASSUME OInv, CashInv, NEW r \in Request, NEW step, Goto(r, step),
           \A q \in Request \ {r} : /\ Untouched(<<q, "charge">>) /\ Untouched(<<q, "refund">>)
                                    /\ local'[q] = local[q] /\ order'[q] = order[q],
           ChargedInv(r)', RefundedInv(r)', PhaseInv(r)'
    PROVE  CashInv'
  <1>1. \A q \in Request \ {r} : pc'[q] = pc[q]
    BY DEF Goto, OInv, ShapeInv, PcShape
  <1>2. ASSUME NEW q \in Request \ {r}
        PROVE  ChargedInv(q)' /\ RefundedInv(q)' /\ PhaseInv(q)'
    <2>1. ChargedInv(q) /\ RefundedInv(q) /\ PhaseInv(q)
      BY DEF CashInv
    <2>2. PhaseInv(q)'
      BY <1>1, <2>1 DEF PhaseInv
    <2>3. QED
      BY <1>1, <2>1, <2>2, CashStays
  <1>3. QED
    BY <1>2 DEF CashInv

(* One that moves no money.                                                *)
LEMMA QuietCash ==
    ASSUME OInv, CashInv, NEW r \in Request, NEW step, Goto(r, step), UNCHANGED books,
           \A q \in Request \ {r} : local'[q] = local[q] /\ order'[q] = order[q],
           local'[r].charged = local[r].charged,
           step \in Before => pc[r] \in Before,
           step \notin Before \cup {"dead"} => pc[r] \notin Before \cup {"dead"},
           pc[r] \in Behind => step \in Behind,
           order'[r] # "none" => order[r] # "none" \/ pc[r] \notin Before \cup {"dead"},
           step \in Legs => local'[r].phase \in {"create", "update", "attach"}
    PROVE  CashInv'
  <1>1. pc'[r] = step
    BY DEF Goto, OInv, ShapeInv, PcShape
  <1>2. \A o : Untouched(o)
    BY DEF Untouched, books, RowsOf
  <1>3. ChargedInv(r)' /\ RefundedInv(r)'
    BY <1>1, <1>2, CashStays DEF CashInv
  <1>4. PhaseInv(r)'
    BY <1>1 DEF PhaseInv
  <1>5. QED
    BY <1>2, <1>3, <1>4, OthersStay

LEMMA QuietCashSteps ==
    ASSUME OInv, CashInv, NEW r \in Request,
           \/ Check(r) \/ CreateOrder(r) \/ CheckName(r) \/ LegStep(r) \/ Stamp(r)
           \/ ReadPlan(r) \/ Touch(r) \/ Reset(r) \/ Cancel(r) \/ Complete(r) \/ ReadLinks(r)
    PROVE  CashInv'
  <1>1. LocalShape /\ OrderShape /\ PhaseInv(r)
    BY DEF OInv, ShapeInv, CashInv
  <1>2. CASE Check(r) \/ Stamp(r) \/ Touch(r) \/ Reset(r)
    <2>1. PICK step \in {"charge", "refused", "complete", "cost", "refund"} :
             /\ Goto(r, step)
             /\ pc[r] = "new" \/ (pc[r] \in {"stamp", "touch", "reset"}
                                  /\ step \in {"complete", "cost", "refund"})
             /\ pc[r] = "new" => step \in {"charge", "refused"}
      BY <1>2 DEF Check, Stamp, Touch, Reset
    <2>2. UNCHANGED <<books, order, local>>
      BY <1>2 DEF Check, Stamp, Touch, Reset
    <2>3. QED
      BY <2>1, <2>2, QuietCash DEF Before, Behind, Legs
  <1>3. CASE CreateOrder(r)
    <2>1. PICK step \in {"readplan", "complete", "name", "refund"} : Goto(r, step)
      BY <1>3 DEF CreateOrder
    <2>2. UNCHANGED <<books, local>> /\ pc[r] = "create"
      BY <1>3 DEF CreateOrder
    <2>3. \A q \in Request \ {r} : order'[q] = order[q]
      BY <1>1, <1>3 DEF CreateOrder, OrderShape
    <2>4. QED
      BY <2>1, <2>2, <2>3, QuietCash DEF Before, Behind, Legs
  <1>4. CASE CheckName(r) \/ ReadPlan(r) \/ ReadLinks(r)
    <2>1. PICK step \in {"leg", "refund", "touch", "commission"} :
             Goto(r, step) /\ (step = "leg" => local'[r].phase \in {"create", "update", "attach"})
      <3>1. CASE CheckName(r)
        BY <1>1, <3>1 DEF CheckName, LocalShape
      <3>2. CASE ReadPlan(r)
        BY <1>1, <3>2 DEF ReadPlan, LocalShape
      <3>3. CASE ReadLinks(r)
        BY <1>1, <3>3 DEF ReadLinks, LocalShape
      <3>4. QED
        BY <1>4, <3>1, <3>2, <3>3
    <2>2. UNCHANGED <<books, order>> /\ pc[r] \in {"name", "readplan", "links"}
      BY <1>4 DEF CheckName, ReadPlan, ReadLinks
    <2>3. /\ \A q \in Request \ {r} : local'[q] = local[q]
          /\ local'[r].charged = local[r].charged
      BY <1>1, <1>4 DEF CheckName, ReadPlan, ReadLinks, LocalShape
    <2>4. QED
      BY <2>1, <2>2, <2>3, QuietCash DEF Before, Behind, Legs
  <1>5. CASE LegStep(r)
    <2>1. pc[r] \in Legs /\ local[r].phase \in {"create", "update", "attach"}
      BY <1>1, <1>5 DEF LegStep, Looks, LookUp, Unlink, ReadLeg, NextLeg, WriteLeg, PhaseInv, Legs
    <2>2. PICK step \in {"unlink", "lock", "write", "leg", "stamp", "touch", "commission", "refund"} : Goto(r, step)
      BY <1>5, <2>1 DEF LegStep, Looks, LookUp, Unlink, ReadLeg, NextLeg, WriteLeg, After, Abort
    <2>3. UNCHANGED <<books, order>>
      BY <1>5 DEF LegStep, Looks, LookUp, Unlink, ReadLeg, NextLeg, WriteLeg
    <2>4. /\ \A q \in Request \ {r} : local'[q] = local[q]
          /\ local'[r].charged = local[r].charged /\ local'[r].phase = local[r].phase
      BY <1>1, <1>5, LegLocals
    <2>5. QED
      BY <2>1, <2>2, <2>3, <2>4, QuietCash DEF Before, Behind, Legs
  <1>6. CASE Cancel(r) \/ Complete(r)
    <2>1. PICK step \in {"failed", "cost"} :
             Goto(r, step) /\ (pc[r] = "cancel" => step = "failed")
      BY <1>6 DEF Cancel, Complete
    <2>2. UNCHANGED <<books, local>> /\ pc[r] \in {"cancel", "complete"}
      BY <1>6 DEF Cancel, Complete
    <2>3. \A q \in Request \ {r} : order'[q] = order[q]
      BY <1>1, <1>6 DEF Cancel, Complete, OrderShape
    <2>4. QED
      BY <2>1, <2>2, <2>3, QuietCash DEF Before, Behind, Legs
  <1>7. QED
    BY <1>2, <1>3, <1>4, <1>5, <1>6

(* One leg of a request's money, which is nobody else's.                   *)
LEMMA LegApart ==
    ASSUME OInv, NEW r \in Request, NEW leg \in {"charge", "refund", "cost", "commission"},
           NEW d, NEW over, DOMAIN d \subseteq Account, \A a \in DOMAIN d : d[a] \in Int,
           Transfer(<<r, leg>>, d, over)
    PROVE  /\ \A q \in Request, k \in {"charge", "refund", "cost", "commission"} :
                 q # r \/ k # leg => Untouched(<<q, k>>)
           /\ Empty(<<r, leg>>) => Booked(<<r, leg>>, d)'
  <1>1. <<r, leg>> \in Op /\ BooksTypeOK
    BY RequestFacts DEF OInv, ShapeInv
  <1>2. /\ \A o \in Op : o # <<r, leg>> => Untouched(o)
        /\ Empty(<<r, leg>>) => Booked(<<r, leg>>, d)'
    BY <1>1, TransferRows
  <1>3. QED
    BY <1>2, RequestFacts

LEMMA ChargeCash ==
    ASSUME OInv, CashInv, NEW r \in Request, Charge(r)
    PROVE  CashInv'
  <1>1. LocalShape /\ PcShape /\ pc[r] = "charge" /\ UNCHANGED order /\ Due(r) \in Nat
    BY DueFacts DEF OInv, ShapeInv, Charge
  <1>2. \/ /\ Due(r) = 0 /\ UNCHANGED <<books, local>>
           /\ \E step \in {"create", "name", "reset"} : Goto(r, step)
        \/ /\ Due(r) > 0 /\ Transfer(<<r, "charge">>, Sale(r, Due(r), -1), FALSE)
           /\ local' = [local EXCEPT ![r].charged = Due(r)]
           /\ \E step \in {"create", "name", "reset"} : Goto(r, step)
        \/ Due(r) > 0 /\ Goto(r, "refused") /\ UNCHANGED <<books, local>>
    BY DEF Charge
  <1>3. /\ local[r].charged = 0 /\ Empty(<<r, "charge">>) /\ Empty(<<r, "refund">>)
        /\ order[r] # "none" => local[r].charged = Due(r)
    BY <1>1 DEF CashInv, ChargedInv, RefundedInv, Before, Behind
  <1>4. ASSUME Goto(r, "refused"), UNCHANGED <<books, local>>
        PROVE  CashInv'
    BY <1>1, <1>4, QuietCash DEF Before, Behind, Legs
  <1>5. ASSUME NEW step \in {"create", "name", "reset"}, Goto(r, step),
               Untouched(<<r, "refund">>), local'[r].charged = Due(r),
               IF Due(r) = 0 THEN Empty(<<r, "charge">>)'
                             ELSE Booked(<<r, "charge">>, Sale(r, Due(r), -1))',
               \A q \in Request \ {r} : /\ Untouched(<<q, "charge">>) /\ Untouched(<<q, "refund">>)
                                        /\ local'[q] = local[q]
        PROVE  CashInv'
    <2>1. pc'[r] = step
      BY <1>1, <1>5 DEF Goto, PcShape
    <2>2. PhaseInv(r)'
      BY <2>1 DEF PhaseInv, Legs
    <2>3. RefundedInv(r)'
      BY <1>3, <1>5, UntouchedStays DEF RefundedInv
    <2>4. ChargedInv(r)'
      BY <1>1, <1>5, <2>1 DEF ChargedInv, Before
    <2>5. QED
      BY <1>1, <1>5, <2>2, <2>3, <2>4, OthersStay
  <1>6. ASSUME Due(r) = 0, UNCHANGED <<books, local>>
        PROVE  /\ \A o : Untouched(o)
               /\ Empty(<<r, "charge">>)'
    BY <1>3, <1>6 DEF Untouched, Empty, books, RowsOf
  <1>7. ASSUME Due(r) > 0, Transfer(<<r, "charge">>, Sale(r, Due(r), -1), FALSE)
        PROVE  /\ Untouched(<<r, "refund">>)
               /\ \A q \in Request \ {r} : Untouched(<<q, "charge">>) /\ Untouched(<<q, "refund">>)
               /\ Booked(<<r, "charge">>, Sale(r, Due(r), -1))'
    <2> DEFINE d == Sale(r, Due(r), -1)
    <2>1. DOMAIN d \subseteq Account /\ \A a \in DOMAIN d : d[a] \in Int
      BY <1>1, SaleShape
    <2> HIDE DEF d
    <2>2. Transfer(<<r, "charge">>, d, FALSE)
      BY <1>7 DEF d
    <2>3. /\ \A q \in Request, k \in {"charge", "refund", "cost", "commission"} :
                 q # r \/ k # "charge" => Untouched(<<q, k>>)
          /\ Booked(<<r, "charge">>, d)'
      BY <1>3, <2>1, <2>2, LegApart
    <2>4. QED
      BY <2>3 DEF d
  <1>8. CASE Due(r) = 0 /\ UNCHANGED <<books, local>>
    BY <1>2, <1>3, <1>5, <1>6, <1>8
  <1>9. CASE Due(r) > 0 /\ Transfer(<<r, "charge">>, Sale(r, Due(r), -1), FALSE)
                        /\ local' = [local EXCEPT ![r].charged = Due(r)]
    <2>1. local'[r].charged = Due(r) /\ \A q \in Request \ {r} : local'[q] = local[q]
      BY <1>1, <1>9 DEF LocalShape
    <2>2. Due(r) # 0 /\ ~UNCHANGED <<books, local>>
      <3>1. \A n \in Nat : n > 0 => n # 0
        OBVIOUS
      <3>2. Due(r) # 0
        BY <1>1, <1>9, <3>1
      <3>3. local'[r].charged # local[r].charged
        BY <1>3, <2>1, <3>2
      <3>4. QED
        BY <3>2, <3>3
    <2>3. PICK step \in {"create", "name", "reset"} : Goto(r, step)
      BY <1>2, <2>2
    <2>4. QED
      BY <1>5, <1>7, <1>9, <2>1, <2>2, <2>3
  <1>10. QED
    BY <1>2, <1>4, <1>8, <1>9

LEMMA RefundCash ==
    ASSUME OInv, CashInv, NEW r \in Request, Refund(r)
    PROVE  CashInv'
  <1>1. /\ PcShape /\ pc[r] = "refund" /\ UNCHANGED <<order, local>>
        /\ local[r].charged \in Int
    BY DEF OInv, ShapeInv, LocalShape, Refund
  <1>2. PICK step \in {"cancel", "failed"} : Goto(r, step)
    BY DEF Refund
  <1>3. pc'[r] = step
    BY <1>1, <1>2 DEF Goto, PcShape
  <1>4. CASE UNCHANGED books
    BY <1>1, <1>2, <1>4, QuietCash DEF Before, Behind, Legs
  <1>5. CASE /\ local[r].charged > 0
             /\ Transfer(<<r, "refund">>, Sale(r, local[r].charged, 1), FALSE)
    <2>0. PICK n \in Int : n = local[r].charged
      BY <1>1
    <2> DEFINE d == Sale(r, n, 1)
    <2>1. DOMAIN d \subseteq Account /\ \A a \in DOMAIN d : d[a] \in Int
      BY SaleShape
    <2>2. Empty(<<r, "refund">>)
      BY <1>1 DEF CashInv, RefundedInv, Behind
    <2> HIDE DEF d
    <2>3. Transfer(<<r, "refund">>, d, FALSE)
      BY <1>5, <2>0 DEF d
    <2>4. /\ \A q \in Request, k \in {"charge", "refund", "cost", "commission"} :
                 q # r \/ k # "refund" => Untouched(<<q, k>>)
          /\ Booked(<<r, "refund">>, d)'
      BY <2>1, <2>2, <2>3, LegApart
    <2>5. RefundedInv(r)'
      BY <1>1, <1>2, <1>3, <1>5, <2>0, <2>4 DEF RefundedInv, Behind, d
    <2>6. ChargedInv(r)'
      <3>1. ChargedInv(r) /\ Untouched(<<r, "charge">>)
        BY <2>4 DEF CashInv
      <3>2. QED
        BY <1>1, <1>2, <1>3, <3>1, UntouchedStays DEF ChargedInv, Before
    <2>7. PhaseInv(r)'
      BY <1>2, <1>3 DEF PhaseInv, Legs
    <2>8. QED
      BY <1>1, <1>2, <2>4, <2>5, <2>6, <2>7, OthersStay
  <1>6. QED
    BY <1>4, <1>5 DEF Refund, Paid

LEMMA FeeCash ==
    ASSUME OInv, CashInv, NEW r \in Request, CostOfGoods(r) \/ PayCommission(r)
    PROVE  CashInv'
  <1>1. /\ PcShape /\ pc[r] \in {"cost", "commission"} /\ UNCHANGED <<order, local>>
    BY DEF OInv, ShapeInv, CostOfGoods, PayCommission
  <1>2. PICK step \in {"links", "commission", "done"} : Goto(r, step)
    BY DEF CostOfGoods, PayCommission
  <1>3. \A q \in Request : Untouched(<<q, "charge">>) /\ Untouched(<<q, "refund">>)
    <2>1. CASE UNCHANGED books
      BY <2>1 DEF Untouched, books, RowsOf
    <2>2. ASSUME NEW leg \in {"cost", "commission"}, NEW d, NEW over, Transfer(<<r, leg>>, d, over),
                 DOMAIN d \subseteq Account, \A a \in DOMAIN d : d[a] \in Int
          PROVE  \A q \in Request : Untouched(<<q, "charge">>) /\ Untouched(<<q, "refund">>)
      BY <2>2, LegApart
    <2>3. UNCHANGED books
          \/ \E leg \in {"cost", "commission"}, over \in BOOLEAN : \E d :
                /\ Transfer(<<r, leg>>, d, over)
                /\ DOMAIN d \subseteq Account /\ \A a \in DOMAIN d : d[a] \in Int
      BY FeeShape
    <2>4. QED
      BY <2>1, <2>2, <2>3
  <1>4. pc'[r] = step
    BY <1>1, <1>2 DEF Goto, PcShape
  <1>5. ChargedInv(r)' /\ RefundedInv(r)'
    BY <1>1, <1>2, <1>3, <1>4, CashStays DEF CashInv, Before, Behind
  <1>6. PhaseInv(r)'
    BY <1>2, <1>4 DEF PhaseInv, Legs
  <1>7. QED
    BY <1>1, <1>2, <1>3, <1>5, <1>6, OthersStay

(* What no request does.                                                   *)
LEMMA WorldCash ==
    ASSUME OInv, CashInv, \/ \E i \in Inbound : DetachInbound(i) \/ DeleteInbound(i)
                          \/ Crash \/ UNCHANGED vars
    PROVE  CashInv'
  <1>1. UNCHANGED <<books, order, local>>
    BY DEF DetachInbound, DeleteInbound, Crash, vars
  <1>2. \A q \in Request : pc'[q] = pc[q] \/ (pc'[q] = "dead" /\ pc[q] \notin Ended \cup {"new"})
    BY DEF OInv, ShapeInv, PcShape, DetachInbound, DeleteInbound, Crash, Running, vars
  <1>3. ASSUME NEW q \in Request
        PROVE  ChargedInv(q)' /\ RefundedInv(q)' /\ PhaseInv(q)'
    <2>1. ChargedInv(q) /\ RefundedInv(q) /\ PhaseInv(q)
      BY DEF CashInv
    <2>2. Untouched(<<q, "charge">>) /\ Untouched(<<q, "refund">>)
      BY <1>1 DEF Untouched, books, RowsOf
    <2>3. PhaseInv(q)'
      BY <1>1, <1>2, <2>1 DEF PhaseInv, Legs
    <2>4. QED
      BY <1>1, <1>2, <2>1, <2>2, <2>3, CashStays DEF Before, Behind, Ended
  <1>4. QED
    BY <1>3 DEF CashInv

LEMMA InitCash == Init => CashInv
  <1> SUFFICES ASSUME Init, NEW r \in Request
               PROVE  ChargedInv(r) /\ RefundedInv(r) /\ PhaseInv(r)
    BY DEF CashInv
  <1>1. \A o : Empty(o)
    <2>1. \A a \in Account : Len(ledger[a]) = 0
      BY EmptySeq DEF Init, BooksInit
    <2>2. ASSUME NEW o, NEW a \in Account
          PROVE  RowsOf(o, a) = {}
      <3>1. 1..Len(ledger[a]) = {}
        BY <2>1
      <3>2. QED
        BY <3>1, Zenon DEF RowsOf
    <2>3. QED
      BY <2>2 DEF Empty
  <1>2. local[r].charged = 0
    <2> DEFINE l == [charged |-> 0, phase |-> "none", wire |-> NoEntry, todo |-> <<>>, read |-> <<>>]
    <2>1. local = [q \in Request |-> l] /\ l.charged = 0
      BY DEF Init
    <2> HIDE DEF l
    <2>2. QED
      BY <2>1
  <1>3. order[r] = "none" /\ pc[r] \in {"new", "unasked"}
    BY DEF Init
  <1>4. QED
    BY <1>1, <1>2, <1>3 DEF ChargedInv, RefundedInv, PhaseInv, Before, Legs

(* Each request's locals, its order's status and its rows in the books     *)
(* agree, at every step of every request (order.go:136-175).               *)
THEOREM CashInvariance == Spec => []CashInv
  <1>1. OInv /\ CashInv /\ [Next]_vars => CashInv'
    BY QuietCashSteps, ChargeCash, RefundCash, FeeCash, WorldCash DEF Next, Advance, LegStep, Looks, AllEnded
  <1>2. QED
    BY <1>1, InitCash, OrdersInvariance, PTL DEF Spec

(* What one leg moved on an account, read off the rows.                    *)
Moved(o, a) ==
    IF RowsOf(o, a) = {} THEN 0
    ELSE LET i == CHOOSE i \in RowsOf(o, a) : TRUE
         IN  ledger[a][i].after - ledger[a][i].before

LEMMA MovedFacts ==
    ASSUME NEW o, NEW a \in Account
    PROVE  /\ Empty(o) => Moved(o, a) = 0
           /\ \A d : Booked(o, d) => Moved(o, a) = IF a \in DOMAIN d THEN d[a] ELSE 0
  <1>1. Empty(o) => Moved(o, a) = 0
    BY DEF Empty, Moved
  <1>2. ASSUME NEW d, Booked(o, d)
        PROVE  Moved(o, a) = IF a \in DOMAIN d THEN d[a] ELSE 0
    <2>1. CASE a \in DOMAIN d
      <3>1. PICK i : /\ RowsOf(o, a) = {i}
                     /\ ledger[a][i].after - ledger[a][i].before = d[a]
        BY <1>2, <2>1 DEF Booked
      <3> DEFINE j == CHOOSE j \in RowsOf(o, a) : TRUE
      <3>2. j = i /\ RowsOf(o, a) # {}
        BY <3>1
      <3>3. Moved(o, a) = ledger[a][j].after - ledger[a][j].before
        BY <3>2 DEF Moved
      <3> HIDE DEF j
      <3>4. QED
        BY <2>1, <3>1, <3>2, <3>3
    <2>2. CASE a \notin DOMAIN d
      BY <1>2, <2>2 DEF Booked, Moved
    <2>3. QED
      BY <2>1, <2>2
  <1>3. QED
    BY <1>1, <1>2

(* The manager of the store is credited with what the buyer is charged.    *)
LEMMA SaleSides ==
    ASSUME NEW r \in Request, NEW n \in Int
    PROVE  /\ Sale(r, n, -1)[F(r).buyer] = -n /\ Sale(r, n, 1)[F(r).buyer] = n
           /\ F(r).buyer \in DOMAIN Sale(r, n, -1) /\ F(r).buyer \in DOMAIN Sale(r, n, 1)
           /\ \A m \in Manager[F(r).store] \ {F(r).buyer} :
                 /\ m \in DOMAIN Sale(r, n, -1) /\ Sale(r, n, -1)[m] = n
                 /\ m \in DOMAIN Sale(r, n, 1) /\ Sale(r, n, 1)[m] = -n
  <1>1. -1 * n = -n /\ 1 * n = n /\ -(-1) * n = n
    OBVIOUS
  <1>2. QED
    BY <1>1 DEF Sale

(* A completed order was paid for exactly once and kept its price          *)
(* (order.go:136-147), a refused one cost nothing, and whatever the buyer  *)
(* paid the manager of the store earned, to the last row of the ledger:    *)
(* for any requests, fees, deletions, failed transactions and crashes.     *)
THEOREM SalesArePaid == Spec => []PaidInFull
  <1>1. ASSUME OInv, CashInv, NEW r \in Request
        PROVE  /\ order[r] = "completed" => Net(r, F(r).buyer) = -Due(r)
               /\ pc[r] = "refused" => Net(r, F(r).buyer) = 0
               /\ \A m \in Manager[F(r).store] \ {F(r).buyer} : Net(r, m) = -Net(r, F(r).buyer)
    <2>1. PICK c \in Nat : c = local[r].charged
      BY <1>1, DueFacts DEF CashInv, ChargedInv
    <2>2. /\ F(r).buyer \in Account /\ Manager[F(r).store] \subseteq Account
          /\ \A a : Net(r, a) = Moved(<<r, "charge">>, a) + Moved(<<r, "refund">>, a)
      BY RequestFacts DEF Net, Moved
    <2>3. /\ Moved(<<r, "charge">>, F(r).buyer) = -c
          /\ \A m \in Manager[F(r).store] \ {F(r).buyer} : Moved(<<r, "charge">>, m) = c
      <3>1. CASE c = 0
        <4>1. Empty(<<r, "charge">>)
          BY <1>1, <2>1, <3>1 DEF CashInv, ChargedInv
        <4>2. \A a \in Account : Moved(<<r, "charge">>, a) = 0
          BY <4>1, MovedFacts
        <4>3. -c = 0
          <5>1. -c = 0 - c
            BY <2>1
          <5>2. 0 - c = 0
            BY <3>1
          <5>3. QED
            BY <5>1, <5>2, Zenon
        <4>4. QED
          BY <2>2, <3>1, <4>2, <4>3
      <3>2. CASE c # 0
        <4>1. Booked(<<r, "charge">>, Sale(r, c, -1))
          BY <1>1, <2>1, <3>2 DEF CashInv, ChargedInv
        <4>2. \A a \in DOMAIN Sale(r, c, -1) \cap Account :
                 Moved(<<r, "charge">>, a) = Sale(r, c, -1)[a]
          BY <4>1, MovedFacts
        <4>3. c \in Int
          OBVIOUS
        <4>4. QED
          BY <2>2, <4>2, <4>3, SaleSides
      <3>3. QED
        BY <3>1, <3>2
    <2>4. ASSUME Empty(<<r, "refund">>)
          PROVE  \A a \in Account : Moved(<<r, "refund">>, a) = 0
      BY <2>4, MovedFacts
    <2>5. ASSUME Booked(<<r, "refund">>, Sale(r, c, 1))
          PROVE  /\ Moved(<<r, "refund">>, F(r).buyer) = c
                 /\ \A m \in Manager[F(r).store] \ {F(r).buyer} : Moved(<<r, "refund">>, m) = -c
      BY <2>2, <2>5, MovedFacts, SaleSides
    <2>6. \/ Empty(<<r, "refund">>)
          \/ pc[r] \in Behind /\ Booked(<<r, "refund">>, Sale(r, c, 1))
      BY <1>1, <2>1 DEF CashInv, RefundedInv
    <2>7. order[r] = "completed" => Empty(<<r, "refund">>) /\ c = Due(r)
      <3>1. order[r] = "completed" => c = Due(r)
        BY <1>1, <2>1 DEF CashInv, ChargedInv
      <3>2. order[r] = "completed" => ~Refunded(r)
        BY <1>1 DEF OInv, Apart, Delivered
      <3>3. QED
        BY <3>1, <3>2 DEF Refunded, Posted, Empty
    <2>8. pc[r] = "refused" => Empty(<<r, "refund">>) /\ c = 0
      BY <1>1, <2>1, <2>6 DEF CashInv, ChargedInv, Before, Behind
    <2>9. CASE Empty(<<r, "refund">>)
      <3>1. Net(r, F(r).buyer) = -c /\ \A m \in Manager[F(r).store] \ {F(r).buyer} : Net(r, m) = c
        BY <2>2, <2>3, <2>4, <2>9
      <3>2. QED
        BY <2>7, <2>8, <3>1
    <2>10. CASE ~Empty(<<r, "refund">>)
      <3>1. Net(r, F(r).buyer) = 0 /\ \A m \in Manager[F(r).store] \ {F(r).buyer} : Net(r, m) = 0
        <4>1. -c + c = 0 /\ c + (-c) = 0
          BY <2>1
        <4>2. QED
          BY <2>2, <2>3, <2>5, <2>6, <2>10, <4>1
      <3>2. QED
        BY <2>7, <2>8, <2>10, <3>1
    <2>11. QED
      BY <2>9, <2>10
  <1>2. OInv /\ CashInv => PaidInFull
    BY <1>1 DEF PaidInFull
  <1>3. QED
    BY <1>2, OrdersInvariance, CashInvariance, PTL

-----------------------------------------------------------------------------
(* What is left to write: something while a leg is under way; nothing was  *)
(* begun before the legs; and unless the database failed, a request that is*)
(* given up has an inbound left.                                           *)
Left(r) ==
    /\ pc[r] \in Legs => local[r].todo # <<>>
    /\ pc[r] \in {"new", "charge", "create", "name"} => local[r].phase = "none"
    /\ pc[r] \in {"refund", "cancel", "failed"} /\ ~faulty =>
          local[r].phase = "none" \/ local[r].todo # <<>>
    /\ pc[r] = "dead" => faulty

LeftInv == \A r \in Request : Left(r)

(* A step of one request, from what it makes of that request.              *)
LEMMA LeftStep ==
    ASSUME OInv, LeftInv, NEW r \in Request, NEW step, Goto(r, step), UNCHANGED faulty,
           \A q \in Request \ {r} : local'[q] = local[q], step # "dead",
           step \in Legs => local'[r].todo # <<>>,
           step \in {"new", "charge", "create", "name"} => local'[r].phase = "none",
           step \in {"refund", "cancel", "failed"} =>
              faulty \/ local'[r].phase = "none" \/ local'[r].todo # <<>>
    PROVE  LeftInv'
  <1>1. pc'[r] = step /\ \A q \in Request \ {r} : pc'[q] = pc[q]
    BY DEF Goto, OInv, ShapeInv, PcShape
  <1>2. Left(r)'
    BY <1>1 DEF Left
  <1>3. \A q \in Request \ {r} : Left(q)'
    BY <1>1 DEF LeftInv, Left
  <1>4. QED
    BY <1>2, <1>3 DEF LeftInv

LEMMA LeftSteps ==
    ASSUME OInv, CashInv, LeftInv, [Next]_vars
    PROVE  LeftInv'
  <1>1. LocalShape /\ PcShape
    BY DEF OInv, ShapeInv
  <1>2. ASSUME NEW r \in Request,
               \/ Check(r) \/ Reset(r) \/ Touch(r) \/ Stamp(r) \/ CreateOrder(r)
               \/ Refund(r) \/ Cancel(r) \/ Complete(r) \/ CostOfGoods(r) \/ PayCommission(r)
        PROVE  LeftInv'
    <2>1. UNCHANGED local /\ UNCHANGED faulty
      BY <1>2 DEF Check, Reset, Touch, Stamp, CreateOrder, Refund, Cancel, Complete, CostOfGoods,
                  PayCommission, world
    <2>2. Left(r)
      BY DEF LeftInv
    <2>3. CASE Check(r) \/ CreateOrder(r)
      <3>1. PICK step \in {"charge", "refused", "refund", "readplan", "complete", "name"} : Goto(r, step)
        BY <2>3 DEF Check, CreateOrder
      <3>2. local[r].phase = "none"
        BY <2>2, <2>3 DEF Check, CreateOrder, Left
      <3>3. QED
        BY <2>1, <3>1, <3>2, LeftStep DEF Legs
    <2>4. CASE Reset(r) \/ Touch(r) \/ Stamp(r)
      <3>1. PICK step \in {"cost", "refund", "complete"} :
               Goto(r, step) /\ (step = "refund" => faulty)
        BY <2>4 DEF Reset, Touch, Stamp
      <3>2. QED
        BY <2>1, <3>1, LeftStep DEF Legs
    <2>5. CASE Refund(r) \/ Cancel(r)
      <3>1. PICK step \in {"cancel", "failed"} : Goto(r, step)
        BY <2>5 DEF Refund, Cancel
      <3>2. faulty \/ local[r].phase = "none" \/ local[r].todo # <<>>
        BY <2>2, <2>5 DEF Refund, Cancel, Left
      <3>3. QED
        BY <2>1, <3>1, <3>2, LeftStep DEF Legs
    <2>6. CASE Complete(r) \/ CostOfGoods(r) \/ PayCommission(r)
      <3>1. PICK step \in {"cost", "links", "commission", "done"} : Goto(r, step)
        BY <2>6 DEF Complete, CostOfGoods, PayCommission
      <3>2. QED
        BY <2>1, <3>1, LeftStep DEF Legs
    <2>7. QED
      BY <1>2, <2>3, <2>4, <2>5, <2>6
  <1>3. ASSUME NEW r \in Request, Charge(r)
        PROVE  LeftInv'
    <2>1. PICK step \in {"create", "name", "reset", "refused"} : Goto(r, step)
      BY <1>3 DEF Charge
    <2>2. /\ UNCHANGED faulty /\ \A q \in Request \ {r} : local'[q] = local[q]
          /\ local'[r].phase = local[r].phase
      BY <1>1, <1>3 DEF Charge, LocalShape, world
    <2>3. local[r].phase = "none"
      BY <1>3 DEF Charge, LeftInv, Left
    <2>4. QED
      BY <2>1, <2>2, <2>3, LeftStep DEF Legs
  <1>4. ASSUME NEW r \in Request, CheckName(r)
        PROVE  LeftInv'
    <2>1. UNCHANGED faulty /\ \A q \in Request \ {r} : local'[q] = local[q]
      BY <1>1, <1>4 DEF CheckName, LocalShape, world
    <2>2. CASE Goto(r, "refund") /\ UNCHANGED local
      <3>1. local[r].phase = "none"
        BY <1>4 DEF CheckName, LeftInv, Left
      <3>2. QED
        BY <2>1, <2>2, <3>1, LeftStep DEF Legs
    <2>3. CASE /\ F(r).inbounds # <<>> /\ Goto(r, "leg")
               /\ local' = [local EXCEPT ![r].phase = "create", ![r].todo = F(r).inbounds,
                                         ![r].wire = Entry(F(r).config, r, F(r).days)]
      <3>1. local'[r].todo # <<>>
        BY <1>1, <2>3 DEF LocalShape
      <3>2. QED
        BY <2>1, <2>3, <3>1, LeftStep DEF Legs
    <2>4. QED
      BY <1>4, <2>2, <2>3 DEF CheckName
  <1>5. ASSUME NEW r \in Request, ReadPlan(r) \/ ReadLinks(r)
        PROVE  LeftInv'
    <2>1. UNCHANGED faulty /\ \A q \in Request \ {r} : local'[q] = local[q]
      BY <1>1, <1>5 DEF ReadPlan, ReadLinks, LocalShape, world
    <2>2. PICK step \in {"leg", "touch", "commission"} :
             Goto(r, step) /\ (step = "leg" => local'[r].todo # <<>>)
      <3>1. CASE ReadPlan(r)
        BY <1>1, <3>1 DEF ReadPlan, LocalShape
      <3>2. CASE ReadLinks(r)
        BY <1>1, <3>2 DEF ReadLinks, LocalShape
      <3>3. QED
        BY <1>5, <3>1, <3>2
    <2>3. QED
      BY <2>1, <2>2, LeftStep DEF Legs
  <1>6. ASSUME NEW r \in Request, LegStep(r)
        PROVE  LeftInv'
    <2>1. /\ pc[r] \in Legs /\ local[r].todo # <<>>
          /\ \A q \in Request \ {r} : local'[q] = local[q]
      <3>1. pc[r] \in Legs
        BY <1>6 DEF LegStep, Looks, LookUp, Unlink, ReadLeg, WriteLeg, Legs
      <3>2. QED
        BY <1>1, <1>6, <3>1, LegLocals DEF LeftInv, Left
    <2>2. UNCHANGED faulty
      BY <1>6 DEF LegStep, Looks, LookUp, Unlink, ReadLeg, WriteLeg, world
    <2>3. local[r].phase \in {"create", "update", "attach"}
      BY <1>6, <2>1 DEF CashInv, PhaseInv
    <2>4. ASSUME NEW step \in {"lock", "unlink", "write", "commission", "refund"}, Goto(r, step),
                 local'[r].todo = local[r].todo
          PROVE  LeftInv'
      BY <2>1, <2>2, <2>4, LeftStep DEF Legs
    <2>5. ASSUME local'[r].todo = Tail(local[r].todo), NextLeg(r, Tail(local[r].todo))
          PROVE  LeftInv'
      <3> PICK rest : rest = Tail(local[r].todo)
        OBVIOUS
      <3>1. PICK step \in {"leg", "stamp", "touch", "commission"} :
               Goto(r, step) /\ (step = "leg" => rest # <<>>)
        BY <2>3, <2>5 DEF NextLeg, After
      <3>2. QED
        BY <2>1, <2>2, <2>5, <3>1, LeftStep DEF Legs
    <2>6. ASSUME Abort(r), local'[r].todo = local[r].todo
          PROVE  LeftInv'
      <3>1. PICK step \in {"commission", "refund"} : Goto(r, step)
        BY <2>6 DEF Abort
      <3>2. QED
        BY <2>4, <2>6, <3>1
    <2>7. CASE LookUp(r)
      BY <2>4, <2>6, <2>7 DEF LookUp
    <2>8. CASE Unlink(r)
      <3>1. PICK rest : rest = Tail(local[r].todo)
        OBVIOUS
      <3>2. \/ local' = [local EXCEPT ![r].todo = rest] /\ NextLeg(r, rest)
            \/ Abort(r) /\ UNCHANGED local
        BY <2>8, <3>1 DEF Unlink
      <3>3. local' = [local EXCEPT ![r].todo = rest] => local'[r].todo = rest
        BY <1>1 DEF LocalShape
      <3>4. QED
        BY <2>5, <2>6, <3>1, <3>2, <3>3
    <2>9. CASE ReadLeg(r)
      <3>1. \/ Goto(r, "write") /\ \E list : local' = [local EXCEPT ![r].read = list]
            \/ Abort(r) /\ UNCHANGED local
        BY <2>9 DEF ReadLeg
      <3>2. \A list : local' = [local EXCEPT ![r].read = list] => local'[r].todo = local[r].todo
        BY <1>1 DEF LocalShape
      <3>3. QED
        BY <2>4, <2>6, <3>1, <3>2
    <2>10. CASE WriteLeg(r)
      <3>1. PICK rest : rest = Tail(local[r].todo)
        OBVIOUS
      <3>2. \/ local' = [local EXCEPT ![r].todo = rest, ![r].read = <<>>] /\ NextLeg(r, rest)
            \/ Abort(r) /\ local' = [local EXCEPT ![r].read = <<>>]
        BY <2>10, <3>1 DEF WriteLeg
      <3>3. /\ local' = [local EXCEPT ![r].todo = rest, ![r].read = <<>>] => local'[r].todo = rest
            /\ local' = [local EXCEPT ![r].read = <<>>] => local'[r].todo = local[r].todo
        BY <1>1 DEF LocalShape
      <3>4. QED
        BY <2>5, <2>6, <3>1, <3>2, <3>3
    <2>11. QED
      BY <1>6, <2>7, <2>8, <2>9, <2>10 DEF LegStep, Looks
  <1>7. CASE UNCHANGED vars \/ Crash \/ \E i \in Inbound : DetachInbound(i) \/ DeleteInbound(i)
    <2>1. UNCHANGED <<local, faulty>>
      BY <1>7 DEF DetachInbound, DeleteInbound, Crash, vars, world
    <2>2. \A q \in Request : pc'[q] = pc[q] \/ (pc'[q] = "dead" /\ faulty)
      BY <1>1, <1>7 DEF PcShape, DetachInbound, DeleteInbound, Crash, vars
    <2>3. QED
      BY <2>1, <2>2 DEF LeftInv, Left, Legs
  <1>8. QED
    BY <1>2, <1>3, <1>4, <1>5, <1>6, <1>7 DEF Next, Advance, LegStep, Looks, AllEnded

(* A request that was refunded (order.go:162-167, controller/client.go:    *)
(* 315-321) is sold nowhere -- it owns no config, is no completed order,   *)
(* and nobody was charged its cost of goods or paid a commission for it -- *)
(* and, unless the database failed, there is an inbound it did not get to  *)
(* write: whatever failed, whichever requests and deletions came between,  *)
(* and wherever the panel died.                                            *)
THEOREM RefundedSoldNowhere == Spec => []RefundedNotSold
  <1>1. Init => LeftInv
    <2> SUFFICES ASSUME Init
                 PROVE  LeftInv
      OBVIOUS
    <2>1. \A r \in Request : pc[r] \in {"new", "unasked"} /\ local[r].phase = "none"
      BY DEF Init
    <2>2. QED
      BY <2>1 DEF LeftInv, Left, Legs
  <1>2. OInv /\ CashInv /\ LeftInv /\ [Next]_vars => LeftInv'
    BY LeftSteps
  <1>3. OInv /\ LeftInv => RefundedNotSold
    <2> SUFFICES ASSUME OInv, LeftInv, NEW r \in Request, Refunded(r)
                 PROVE  /\ ~Delivered(r)
                        /\ ~faulty /\ local[r].phase # "none" => local[r].todo # <<>>
      BY DEF RefundedNotSold, Delivered, Owns
    <2>1. ~Delivered(r) /\ pc[r] \in {"cancel", "failed", "dead"}
      BY DEF OInv, Apart, RefundInv
    <2>2. QED
      BY <2>1 DEF LeftInv, Left
  <1>4. QED
    BY <1>1, <1>2, <1>3, OrdersInvariance, CashInvariance, PTL DEF Spec

-----------------------------------------------------------------------------
(* Whatever step is taken moves no money, or is one transfer that may      *)
(* overdraw only treasuries.                                               *)
Moves(r, o, d, over) ==
    /\ Transfer(o, d, over)
    /\ DOMAIN d \subseteq Account /\ \A a \in DOMAIN d : d[a] \in Int
    /\ over => \A q \in Request : \A a \in Purses(q) : a \notin DOMAIN d

LEMMA PurseFacts ==
    ASSUME NEW r \in Request
    PROVE  /\ Purses(r) \subseteq Account /\ Seller(r) \subseteq Purses(r)
           /\ \A a \in Purses(r), q \in Request : a \notin Treasury[F(q).store]
           /\ \A a \in Purses(r) : InitBalance[a] >= 0
  BY OrdersAssumption, RequestFacts DEF Purses, Seller, F

LEMMA MoneySteps ==
    ASSUME OInv, NEW r \in Request,
           Charge(r) \/ Refund(r) \/ CostOfGoods(r) \/ PayCommission(r)
    PROVE  UNCHANGED books \/ \E o, d, over : Moves(r, o, d, over)
  <1>1. \A q \in Request : local[q].charged \in Int /\ Due(q) \in Int
    BY DueFacts DEF OInv, ShapeInv, LocalShape
  <1>2. ASSUME NEW o, NEW n \in Int, NEW sign \in {-1, 1}, Transfer(o, Sale(r, n, sign), FALSE)
        PROVE  Moves(r, o, Sale(r, n, sign), FALSE)
    BY <1>2, SaleShape DEF Moves
  <1>3. CASE Charge(r)
    <2>1. UNCHANGED books \/ Transfer(<<r, "charge">>, Sale(r, Due(r), -1), FALSE)
      BY <1>3 DEF Charge
    <2>2. QED
      BY <1>1, <1>2, <2>1
  <1>4. CASE Refund(r)
    <2>1. UNCHANGED books \/ Transfer(<<r, "refund">>, Sale(r, local[r].charged, 1), FALSE)
      BY <1>4 DEF Refund, Paid
    <2>2. QED
      BY <1>1, <1>2, <2>1
  <1>5. CASE CostOfGoods(r) \/ PayCommission(r)
    <2>1. ASSUME NEW leg, NEW d, NEW over, Transfer(<<r, leg>>, d, over), DOMAIN d \subseteq Account,
                 \A a \in DOMAIN d : d[a] \in Int, over => DOMAIN d \subseteq Treasury[F(r).store]
          PROVE  Moves(r, <<r, leg>>, d, over)
      BY <2>1, PurseFacts DEF Moves
    <2>2. UNCHANGED books
          \/ \E leg \in {"cost", "commission"}, over \in BOOLEAN : \E d :
                /\ Transfer(<<r, leg>>, d, over)
                /\ DOMAIN d \subseteq Account /\ \A a \in DOMAIN d : d[a] \in Int
                /\ over => DOMAIN d \subseteq Treasury[F(r).store]
      BY <1>5, FeeShape
    <2>3. QED
      BY <2>1, <2>2
  <1>6. QED
    BY <1>3, <1>4, <1>5

(* Rows are only ever added, and one that lowers a wallet says that it was *)
(* spent from.                                                             *)
Grown == \A a \in Account :
            /\ DOMAIN ledger'[a] = 1..Len(ledger'[a])
            /\ \A j \in DOMAIN ledger[a] : j \in DOMAIN ledger'[a] /\ ledger'[a][j] = ledger[a][j]

Lowered(a) == \E j \in DOMAIN ledger'[a] : /\ j \notin DOMAIN ledger[a]
                                           /\ ledger'[a][j].after < ledger'[a][j].before

LEMMA MovesGrow ==
    ASSUME BooksTypeOK, PurseInv, NEW r, NEW o, NEW d, NEW over, Moves(r, o, d, over)
    PROVE  /\ Grown /\ PurseInv'
           /\ \A a \in Account : balance'[a] >= balance[a] \/ Lowered(a)
           /\ \A a \in Account : balance[a] \in Int
           /\ \A a \in DOMAIN d : balance'[a] = balance[a] + d[a]
  <1> DEFINE row(a) == [before |-> balance[a], after |-> balance[a] + d[a], op |-> o]
  <1>1. /\ balance' = [a \in Account |-> IF a \in DOMAIN d THEN balance[a] + d[a] ELSE balance[a]]
        /\ ledger' = [a \in Account |-> IF a \in DOMAIN d THEN Append(ledger[a], row(a))
                                        ELSE ledger[a]]
        /\ DOMAIN d \subseteq Account /\ \A a \in DOMAIN d : d[a] \in Int
    BY DEF Moves, Transfer
  <1>2. \A a \in Account : balance[a] \in Int /\ ledger[a] \in Seq(Row) /\ Len(ledger[a]) \in Nat
    BY LenProperties DEF BooksTypeOK
  <1>3. ASSUME NEW a \in DOMAIN d
        PROVE  /\ Len(ledger'[a]) = Len(ledger[a]) + 1
               /\ DOMAIN ledger[a] = 1..Len(ledger[a]) /\ DOMAIN ledger'[a] = 1..(Len(ledger[a]) + 1)
               /\ \A i \in 1..Len(ledger[a]) : ledger'[a][i] = ledger[a][i]
               /\ ledger'[a][Len(ledger[a]) + 1] = row(a)
    <2>1. a \in Account
      BY <1>1
    <2>2. row(a) \in [before : Int, after : Int, op : {o}]
      BY <1>1, <1>2, <2>1
    <2>3. ledger'[a] = Append(ledger[a], row(a))
      BY <1>1, <2>1
    <2>4. ledger[a] \in Seq(Row \cup {row(a)})
      BY <1>2, <2>1
    <2> HIDE DEF row
    <2>5. /\ Append(ledger[a], row(a)) \in Seq(Row \cup {row(a)})
          /\ Len(Append(ledger[a], row(a))) = Len(ledger[a]) + 1
          /\ \A i \in 1..Len(ledger[a]) : Append(ledger[a], row(a))[i] = ledger[a][i]
          /\ Append(ledger[a], row(a))[Len(ledger[a]) + 1] = row(a)
      BY <2>4, AppendProperties
    <2>6. DOMAIN ledger[a] = 1..Len(ledger[a]) /\ DOMAIN ledger'[a] = 1..Len(ledger'[a])
      BY <2>3, <2>4, <2>5, LenProperties
    <2>7. QED
      BY <2>3, <2>5, <2>6
  <1>4. \A a \in Account \ DOMAIN d : ledger'[a] = ledger[a] /\ balance'[a] = balance[a]
    BY <1>1
  <1>5. Grown
    <2>1. ASSUME NEW a \in Account, NEW j \in DOMAIN ledger[a]
          PROVE  j \in DOMAIN ledger'[a] /\ ledger'[a][j] = ledger[a][j]
      <3>1. CASE a \in DOMAIN d
        <4>1. DOMAIN ledger[a] = 1..Len(ledger[a]) /\ Len(ledger[a]) \in Nat
          BY <1>2, LenProperties
        <4>2. /\ DOMAIN ledger'[a] = 1..(Len(ledger[a]) + 1)
              /\ \A i \in 1..Len(ledger[a]) : ledger'[a][i] = ledger[a][i]
          BY <1>3, <3>1
        <4>3. QED
          BY <4>1, <4>2
      <3>2. CASE a \notin DOMAIN d
        BY <1>4, <3>2
      <3>3. QED
        BY <3>1, <3>2
    <2>2. \A a \in Account : DOMAIN ledger'[a] = 1..Len(ledger'[a])
      <3>1. \A a \in Account : DOMAIN ledger[a] = 1..Len(ledger[a])
        BY <1>2, LenProperties
      <3>2. QED
        BY <1>2, <1>3, <1>4, <3>1
    <2>3. QED
      BY <2>1, <2>2 DEF Grown
  <1>6. ASSUME NEW a \in Account
        PROVE  balance'[a] >= balance[a] \/ Lowered(a)
    <2>1. CASE a \notin DOMAIN d
      BY <1>2, <1>4, <2>1
    <2>2. CASE a \in DOMAIN d /\ d[a] >= 0
      BY <1>1, <1>2, <2>2
    <2>3. CASE a \in DOMAIN d /\ ~(d[a] >= 0)
      <3>1. PICK n \in Nat : n = Len(ledger[a])
        BY <1>2
      <3>2. n + 1 \in DOMAIN ledger'[a] /\ n + 1 \notin DOMAIN ledger[a] /\ ledger'[a][n + 1] = row(a)
        BY <1>3, <2>3, <3>1
      <3>3. row(a).after = balance[a] + d[a] /\ row(a).before = balance[a]
        OBVIOUS
      <3>4. balance[a] + d[a] < balance[a]
        BY <1>1, <1>2, <2>3
      <3> HIDE DEF row
      <3>5. QED
        BY <3>2, <3>3, <3>4 DEF Lowered
    <2>4. QED
      BY <2>1, <2>2, <2>3
  <1>7. PurseInv'
    <2>1. ASSUME NEW q \in Request, NEW a \in Purses(q)
          PROVE  balance'[a] >= 0
      <3>1. a \in Account /\ balance[a] >= 0
        BY PurseFacts DEF PurseInv
      <3>2. a \in DOMAIN d => balance[a] + d[a] >= 0
        BY DEF Moves, Transfer, Affordable
      <3>3. balance'[a] = IF a \in DOMAIN d THEN balance[a] + d[a] ELSE balance[a]
        BY <1>1, <3>1
      <3>4. QED
        BY <3>1, <3>2, <3>3
    <2>2. QED
      BY <2>1 DEF PurseInv, Purses
  <1>8. QED
    BY <1>1, <1>2, <1>5, <1>6, <1>7

(* What a request's seller has spent, he has spent for good; and who loses *)
(* money that was charged before, spends it.                               *)
LEMMA SpentStays ==
    ASSUME BooksTypeOK, Grown, NEW r, NEW m \in Account
    PROVE  /\ SpentSince(r, m) => SpentSince(r, m)'
           /\ RowsOf(<<r, "charge">>, m) # {} /\ Lowered(m) => SpentSince(r, m)'
  <1>1. /\ ledger[m] \in Seq(Row) /\ Len(ledger[m]) \in Nat /\ DOMAIN ledger[m] = 1..Len(ledger[m])
    BY LenProperties DEF BooksTypeOK
  <1>2. \A j \in DOMAIN ledger[m] : j \in DOMAIN ledger'[m] /\ ledger'[m][j] = ledger[m][j]
    BY DEF Grown
  <1>3. \A i \in RowsOf(<<r, "charge">>, m) : i \in DOMAIN ledger[m]
    BY <1>1 DEF RowsOf
  <1>4. \A i \in RowsOf(<<r, "charge">>, m) : i \in RowsOf(<<r, "charge">>, m)'
    <2>1. ASSUME NEW i \in RowsOf(<<r, "charge">>, m)
          PROVE  i \in RowsOf(<<r, "charge">>, m)'
      <3>1. i \in DOMAIN ledger'[m] /\ ledger'[m][i].op = <<r, "charge">>
        BY <1>2, <1>3 DEF RowsOf
      <3>2. DOMAIN ledger'[m] = 1..Len(ledger'[m])
        BY DEF Grown
      <3>3. QED
        BY <3>1, <3>2 DEF RowsOf
    <2>2. QED
      BY <2>1
  <1>5. SpentSince(r, m) => SpentSince(r, m)'
    BY <1>2, <1>4 DEF SpentSince
  <1>6. ASSUME NEW i \in RowsOf(<<r, "charge">>, m), Lowered(m)
        PROVE  SpentSince(r, m)'
    <2>1. DOMAIN ledger'[m] = 1..Len(ledger'[m])
      BY DEF Grown
    <2>2. PICK j \in DOMAIN ledger'[m] : /\ j \notin DOMAIN ledger[m]
                                        /\ ledger'[m][j].after < ledger'[m][j].before
      BY <1>6 DEF Lowered
    <2>3. j \in Int /\ i \in Int /\ j > i
      <3>1. PICK n \in Nat : n = Len(ledger[m])
        BY <1>1
      <3>2. i \in 1..n /\ j \notin 1..n
        BY <1>1, <1>3, <2>2, <3>1
      <3>3. j \in Int /\ j >= 1
        BY <2>1
      <3>4. QED
        BY <3>2, <3>3
    <2>4. i \in RowsOf(<<r, "charge">>, m)'
      BY <1>4
    <2>5. QED
      BY <2>2, <2>3, <2>4 DEF SpentSince
  <1>7. QED
    BY <1>5, <1>6

LEMMA MoneyKept ==
    ASSUME BooksTypeOK, UNCHANGED books
    PROVE  /\ Grown
           /\ \A a \in Account : balance'[a] = balance[a]
           /\ \A r, m : SpentSince(r, m)' <=> SpentSince(r, m)
           /\ PurseInv => PurseInv'
  <1>1. \A a \in Account : DOMAIN ledger[a] = 1..Len(ledger[a])
    BY LenProperties DEF BooksTypeOK
  <1>2. QED
    BY <1>1 DEF books, Grown, SpentSince, RowsOf, PurseInv, Purses

(* No other step moves money.                                              *)
LEMMA UnpaidSteps ==
    ASSUME NEW r \in Request,
           \/ Check(r) \/ CreateOrder(r) \/ CheckName(r) \/ LegStep(r) \/ Stamp(r)
           \/ ReadPlan(r) \/ Touch(r) \/ Reset(r) \/ Cancel(r) \/ Complete(r) \/ ReadLinks(r)
    PROVE  UNCHANGED books /\ UNCHANGED <<faulty, outrun>>
  BY DEF Check, CreateOrder, CheckName, LegStep, Looks, LookUp, Unlink, ReadLeg, WriteLeg, Stamp,
         ReadPlan, Touch, Reset, Cancel, Complete, ReadLinks, world

(* Each step's money, in one.                                              *)
LEMMA BooksSteps ==
    ASSUME OInv, PurseInv, [Next]_vars
    PROVE  /\ Grown /\ PurseInv'
           /\ \A a \in Account : balance[a] \in Int /\ (balance'[a] >= balance[a] \/ Lowered(a))
  <1>1. BooksTypeOK
    BY DEF OInv, ShapeInv
  <1>2. \A a \in Account : balance[a] \in Int
    BY <1>1 DEF BooksTypeOK
  <1>3. UNCHANGED books \/ \E r, o, d, over : Moves(r, o, d, over)
    <2>1. ASSUME NEW r \in Request, Check(r) \/ Advance(r)
          PROVE  UNCHANGED books \/ \E o, d, over : Moves(r, o, d, over)
      BY <2>1, MoneySteps, UnpaidSteps DEF Advance, LegStep, Looks
    <2>2. CASE Crash \/ UNCHANGED vars \/ \E i \in Inbound : DetachInbound(i) \/ DeleteInbound(i)
      BY <2>2 DEF DetachInbound, DeleteInbound, Crash, vars
    <2>3. QED
      BY <2>1, <2>2 DEF Next, AllEnded
  <1>4. CASE UNCHANGED books
    BY <1>1, <1>2, <1>4, MoneyKept
  <1>5. CASE \E r, o, d, over : Moves(r, o, d, over)
    BY <1>1, <1>5, MovesGrow
  <1>6. QED
    BY <1>3, <1>4, <1>5

LEMMA ChargedNat ==
    ASSUME CashInv, NEW r \in Request
    PROVE  local[r].charged \in Nat
  <1>1. ChargedInv(r)
    BY DEF CashInv
  <1>2. local[r].charged \in {0, Due(r)}
    BY <1>1 DEF ChargedInv
  <1>3. QED
    BY <1>2, DueFacts

(* The charge of a request is a row of its seller's.                       *)
LEMMA SoldRow ==
    ASSUME CashInv, NEW r \in Request, NEW m \in Seller(r), local[r].charged # 0
    PROVE  RowsOf(<<r, "charge">>, m) # {}
  <1>1. local[r].charged \in Int
    BY ChargedNat
  <1>2. m \in DOMAIN Sale(r, local[r].charged, -1) /\ m \in Account
    BY <1>1, SaleSides, PurseFacts DEF Seller
  <1>3. Booked(<<r, "charge">>, Sale(r, local[r].charged, -1))
    BY DEF CashInv, ChargedInv
  <1>4. QED
    BY <1>2, <1>3 DEF Booked

(* A manager has what he earned, until he spends.                          *)
LEMMA EarnedSteps ==
    ASSUME OInv, CashInv, PurseInv, EarnedInv, [Next]_vars
    PROVE  EarnedInv'
  <1>1. /\ Grown /\ BooksTypeOK
        /\ \A a \in Account : balance[a] \in Int /\ (balance'[a] >= balance[a] \/ Lowered(a))
        /\ \A a \in Account : balance'[a] \in Int
    <2>1. BooksTypeOK /\ BooksTypeOK'
      BY OInvSteps DEF OInv, ShapeInv
    <2>2. QED
      BY <2>1, BooksSteps DEF BooksTypeOK
  <1>2. ASSUME NEW r \in Request, NEW m \in Seller(r), local'[r].charged = local[r].charged,
               local[r].charged > 0
        PROVE  SpentSince(r, m)' \/ balance'[m] >= local[r].charged
    <2>1. m \in Account /\ local[r].charged \in Nat
      BY PurseFacts, ChargedNat
    <2>2. SpentSince(r, m) \/ balance[m] >= local[r].charged
      BY <1>2 DEF EarnedInv
    <2>3. CASE SpentSince(r, m)
      BY <1>1, <2>1, <2>3, SpentStays
    <2>4. CASE Lowered(m)
      <3>1. RowsOf(<<r, "charge">>, m) # {}
        BY <1>2, <2>1, SoldRow
      <3>2. QED
        BY <1>1, <2>1, <2>4, <3>1, SpentStays
    <2>5. CASE balance'[m] >= balance[m] /\ balance[m] >= local[r].charged
      <3>1. balance[m] \in Int /\ balance'[m] \in Int
        BY <1>1, <2>1
      <3>2. QED
        BY <2>1, <2>5, <3>1
    <2>6. QED
      BY <1>1, <2>1, <2>2, <2>3, <2>4, <2>5
  <1>3. ASSUME NEW r \in Request, Charge(r), local'[r].charged # local[r].charged, NEW m \in Seller(r)
        PROVE  balance'[m] >= local'[r].charged
    <2>1. LocalShape /\ Due(r) \in Nat /\ m \in Account /\ m \in Purses(r)
      BY DueFacts, PurseFacts DEF OInv, ShapeInv
    <2>2. /\ Transfer(<<r, "charge">>, Sale(r, Due(r), -1), FALSE)
          /\ local' = [local EXCEPT ![r].charged = Due(r)]
      BY <1>3 DEF Charge
    <2>3. local'[r].charged = Due(r)
      BY <2>1, <2>2 DEF LocalShape
    <2>4. Moves(r, <<r, "charge">>, Sale(r, Due(r), -1), FALSE)
      <3>1. Due(r) \in Int
        BY <2>1
      <3>2. /\ DOMAIN Sale(r, Due(r), -1) \subseteq Account
            /\ \A a \in DOMAIN Sale(r, Due(r), -1) : Sale(r, Due(r), -1)[a] \in Int
        BY <3>1, SaleShape
      <3>3. QED
        BY <2>2, <3>2 DEF Moves
    <2>5. m \in DOMAIN Sale(r, Due(r), -1) /\ Sale(r, Due(r), -1)[m] = Due(r)
      BY <2>1, SaleSides DEF Seller
    <2>6. balance'[m] = balance[m] + Due(r)
      BY <1>1, <2>4, <2>5, MovesGrow
    <2>7. balance[m] >= 0 /\ balance[m] \in Int
      BY <1>1, <2>1 DEF PurseInv
    <2>8. QED
      BY <2>1, <2>3, <2>6, <2>7
  <1>4. ASSUME NEW r \in Request, local'[r].charged # local[r].charged
        PROVE  Charge(r)
    <2>1. LocalShape
      BY DEF OInv, ShapeInv
    <2>2. ASSUME NEW q \in Request, Check(q) \/ Advance(q), ~Charge(q)
          PROVE  local'[r].charged = local[r].charged
      <3>1. CASE CheckName(q) \/ ReadPlan(q) \/ ReadLinks(q)
        BY <2>1, <3>1 DEF CheckName, ReadPlan, ReadLinks, LocalShape
      <3>2. CASE LegStep(q)
        BY <2>1, <3>2, LegLocals
      <3>3. QED
        BY <2>2, <3>1, <3>2 DEF Advance, LegStep, Looks, Check, CreateOrder, Stamp, Touch, Reset, Refund,
                                Cancel, Complete, CostOfGoods, PayCommission
    <2>3. ASSUME NEW q \in Request, Charge(q), q # r
          PROVE  local'[r].charged = local[r].charged
      BY <2>1, <2>3 DEF Charge, LocalShape
    <2>4. CASE Crash \/ UNCHANGED vars \/ \E i \in Inbound : DetachInbound(i) \/ DeleteInbound(i)
      BY <1>4, <2>4 DEF DetachInbound, DeleteInbound, Crash, vars
    <2>5. QED
      BY <1>4, <2>2, <2>3, <2>4 DEF Next, AllEnded
  <1>5. QED
    BY <1>2, <1>3, <1>4 DEF EarnedInv, Seller

(* A step of one request, from what it makes of that request.              *)
LEMMA OthersWithheld ==
    ASSUME OInv, WithheldInv, NEW r \in Request, NEW step, Goto(r, step), UNCHANGED faulty, Grown,
           outrun \subseteq outrun',
           \A q \in Request \ {r} : Untouched(<<q, "refund">>) /\ local'[q] = local[q],
           \/ faulty \/ step \notin {"cancel", "failed"} \/ ~(local'[r].charged > 0)
           \/ Refunded(r)' \/ r \in outrun' \/ \E m \in Seller(r) : SpentSince(r, m)
    PROVE  WithheldInv'
  <1>1. pc'[r] = step /\ \A q \in Request \ {r} : pc'[q] = pc[q]
    BY DEF Goto, OInv, ShapeInv, PcShape
  <1>2. \A q \in Request \ {r} : Refunded(q)' <=> Refunded(q)
    BY UntouchedStays DEF Refunded
  <1>3. \A q \in Request : \A m \in Seller(q) : SpentSince(q, m) => SpentSince(q, m)'
    BY SpentStays, PurseFacts DEF OInv, ShapeInv
  <1>4. ASSUME ~faulty, NEW q \in Request \ {r}, Kept(q)'
        PROVE  \E m \in Seller(q) : SpentSince(q, m)
    BY <1>1, <1>2, <1>4 DEF WithheldInv, Kept
  <1>5. ASSUME ~faulty, Kept(r)'
        PROVE  \E m \in Seller(r) : SpentSince(r, m)
    BY <1>1, <1>5 DEF Kept
  <1>6. QED
    BY <1>3, <1>4, <1>5 DEF WithheldInv, Seller

LEMMA RefundWithheld ==
    ASSUME OInv, CashInv, PurseInv, EarnedInv, WithheldInv, NEW r \in Request, Refund(r), Grown
    PROVE  WithheldInv'
  <1>1. PICK step : Goto(r, step)
    BY DEF Refund
  <1>2. UNCHANGED <<local, faulty>> /\ outrun \subseteq outrun'
    BY DEF Refund
  <1>3. PICK n \in Nat : n = local[r].charged
    BY DueFacts DEF CashInv, ChargedInv
  <1> DEFINE d == Sale(r, n, 1)
  <1>4. /\ DOMAIN d \subseteq Account /\ \A a \in DOMAIN d : d[a] \in Int
        /\ DOMAIN d = Purses(r) /\ d[F(r).buyer] = n /\ \A m \in Seller(r) : d[m] = -n
    <2>1. DOMAIN d = Purses(r)
      BY DEF Sale, Purses
    <2>2. QED
      BY <2>1, SaleShape, SaleSides DEF Seller
  <1>5. \/ n = 0 /\ UNCHANGED books
        \/ n > 0 /\ Transfer(<<r, "refund">>, d, FALSE)
        \/ n > 0 /\ (faulty \/ ~Affordable(d, FALSE)) /\ UNCHANGED books
        \/ r \in outrun' /\ UNCHANGED books
    BY <1>3 DEF Refund, Paid
  <1> HIDE DEF d
  <1>6. ASSUME UNCHANGED books
        PROVE  \A q \in Request \ {r} : Untouched(<<q, "refund">>)
    BY <1>6 DEF Untouched, books, RowsOf
  <1>7. CASE n = 0 /\ UNCHANGED books
    <2>1. ~(local'[r].charged > 0)
      BY <1>2, <1>3, <1>7
    <2>2. QED
      BY <1>1, <1>2, <1>6, <1>7, <2>1, OthersWithheld
  <1>8. CASE n > 0 /\ Transfer(<<r, "refund">>, d, FALSE)
    <2>1. Empty(<<r, "refund">>)
      BY DEF CashInv, RefundedInv, Behind, Refund
    <2>2. /\ \A q \in Request, k \in {"charge", "refund", "cost", "commission"} :
                 q # r \/ k # "refund" => Untouched(<<q, k>>)
          /\ Booked(<<r, "refund">>, d)'
      BY <1>4, <1>8, <2>1, LegApart
    <2>3. Refunded(r)'
      BY <1>4, <2>2, RequestFacts DEF Booked, Refunded, Posted, Purses
    <2>4. QED
      BY <1>1, <1>2, <2>2, <2>3, OthersWithheld
  <1>9. CASE n > 0 /\ (faulty \/ ~Affordable(d, FALSE)) /\ UNCHANGED books
    <2>1. CASE ~Affordable(d, FALSE)
      <3>1. PICK a \in DOMAIN d : ~(balance[a] + d[a] >= 0)
        BY <2>1 DEF Affordable
      <3>2. \A p \in Purses(r) : balance[p] \in Int /\ balance[p] >= 0
        BY PurseFacts DEF OInv, ShapeInv, BooksTypeOK, PurseInv
      <3>3. a # F(r).buyer
        BY <1>4, <3>1, <3>2 DEF Purses
      <3>4. a \in Seller(r) /\ d[a] = -n
        BY <1>4, <3>1, <3>3 DEF Seller, Purses
      <3>5. ~(balance[a] >= n)
        BY <1>4, <3>1, <3>2, <3>4
      <3>6. SpentSince(r, a)
        BY <1>3, <1>9, <3>4, <3>5 DEF EarnedInv
      <3>7. QED
        BY <1>1, <1>2, <1>6, <1>9, <3>4, <3>6, OthersWithheld
    <2>2. CASE faulty
      BY <1>1, <1>2, <1>6, <1>9, <2>2, OthersWithheld
    <2>3. QED
      BY <1>9, <2>1, <2>2
  <1>10. CASE r \in outrun' /\ UNCHANGED books
    BY <1>1, <1>2, <1>6, <1>10, OthersWithheld
  <1>11. QED
    BY <1>5, <1>7, <1>8, <1>9, <1>10

(* No other step ends a request unserved, but the one that cancels what was*)
(* refunded before.                                                        *)
LEMMA QuietWithheld ==
    ASSUME OInv, CashInv, WithheldInv, NEW r \in Request,
           \/ Check(r) \/ CreateOrder(r) \/ CheckName(r) \/ LegStep(r) \/ Stamp(r)
           \/ ReadPlan(r) \/ Touch(r) \/ Reset(r) \/ Cancel(r) \/ Complete(r) \/ ReadLinks(r)
    PROVE  WithheldInv'
  <1>1. UNCHANGED books /\ UNCHANGED <<faulty, outrun>>
    BY UnpaidSteps
  <1>2. Grown /\ \A q \in Request : Untouched(<<q, "refund">>)
    BY <1>1, MoneyKept DEF OInv, ShapeInv, Untouched, books, RowsOf
  <1>3. \A q \in Request \ {r} : local'[q] = local[q]
    <2>1. LocalShape
      BY DEF OInv, ShapeInv
    <2>2. CASE CheckName(r) \/ ReadPlan(r) \/ ReadLinks(r)
      BY <2>1, <2>2 DEF CheckName, ReadPlan, ReadLinks, LocalShape
    <2>3. CASE LegStep(r)
      BY <2>1, <2>3, LegLocals
    <2>4. QED
      BY <2>2, <2>3 DEF Check, CreateOrder, Stamp, Touch, Reset, Cancel, Complete
  <1>4. CASE Cancel(r)
    <2>1. pc[r] = "cancel" /\ Goto(r, "failed") /\ UNCHANGED local
      BY <1>4 DEF Cancel
    <2>2. \/ faulty \/ ~(local'[r].charged > 0) \/ Refunded(r)' \/ r \in outrun'
          \/ \E m \in Seller(r) : SpentSince(r, m)
      BY <1>1, <1>2, <2>1, UntouchedStays DEF WithheldInv, Kept, Refunded
    <2>3. QED
      BY <1>1, <1>2, <1>3, <2>1, <2>2, OthersWithheld
  <1>5. CASE ~Cancel(r)
    <2>1. \E step : Goto(r, step) /\ step \notin {"cancel", "failed"}
      <3>1. CASE Check(r) \/ CreateOrder(r) \/ CheckName(r) \/ Stamp(r) \/ ReadPlan(r)
        <4>1. \E step \in {"charge", "refused", "refund", "readplan", "complete", "name", "leg", "cost",
                            "touch"} : Goto(r, step)
          BY <3>1 DEF Check, CreateOrder, CheckName, Stamp, ReadPlan
        <4>2. QED
          BY <4>1
      <3>2. CASE Touch(r) \/ Reset(r) \/ Complete(r) \/ ReadLinks(r)
        <4>1. \E step \in {"complete", "cost", "refund", "commission", "leg"} : Goto(r, step)
          BY <3>2 DEF Touch, Reset, Complete, ReadLinks
        <4>2. QED
          BY <4>1
      <3>3. CASE LegStep(r)
        <4>1. pc[r] \in Legs
          BY <3>3 DEF LegStep, Looks, LookUp, Unlink, ReadLeg, WriteLeg, Legs
        <4>2. local[r].phase \in {"create", "update", "attach"}
          BY <4>1 DEF CashInv, PhaseInv
        <4>3. \E step \in {"unlink", "lock", "write", "leg", "stamp", "touch", "commission", "refund"} :
                 Goto(r, step)
          BY <3>3, <4>2 DEF LegStep, Looks, LookUp, Unlink, ReadLeg, NextLeg, WriteLeg, After, Abort
        <4>4. QED
          BY <4>3
      <3>4. QED
        BY <1>5, <3>1, <3>2, <3>3
    <2>2. QED
      BY <1>1, <1>2, <1>3, <2>1, OthersWithheld
  <1>6. QED
    BY <1>4, <1>5

LEMMA FeeWithheld ==
    ASSUME OInv, WithheldInv, NEW r \in Request, Charge(r) \/ CostOfGoods(r) \/ PayCommission(r), Grown
    PROVE  WithheldInv'
  <1>1. PICK step \in {"create", "name", "reset", "refused", "links", "commission", "done"} :
           Goto(r, step)
    BY DEF Charge, CostOfGoods, PayCommission
  <1>2. LocalShape /\ UNCHANGED <<faulty, outrun>>
    BY DEF OInv, ShapeInv, Charge, CostOfGoods, PayCommission, world
  <1>3. \A q \in Request \ {r} : local'[q] = local[q]
    BY <1>2 DEF Charge, CostOfGoods, PayCommission, LocalShape
  <1>4. CASE UNCHANGED books
    <2>1. \A q \in Request : Untouched(<<q, "refund">>)
      BY <1>4 DEF Untouched, books, RowsOf
    <2>2. QED
      BY <1>1, <1>2, <1>3, <2>1, OthersWithheld
  <1>5. ASSUME NEW leg \in {"charge", "cost", "commission"}, NEW d, NEW over,
               Transfer(<<r, leg>>, d, over), DOMAIN d \subseteq Account, \A a \in DOMAIN d : d[a] \in Int
        PROVE  WithheldInv'
    <2>1. \A q \in Request : Untouched(<<q, "refund">>)
      BY <1>5, LegApart
    <2>2. QED
      BY <1>1, <1>2, <1>3, <2>1, OthersWithheld
  <1>6. CASE Charge(r)
    <2>1. UNCHANGED books \/ Transfer(<<r, "charge">>, Sale(r, Due(r), -1), FALSE)
      BY <1>6 DEF Charge
    <2>2. /\ DOMAIN Sale(r, Due(r), -1) \subseteq Account
          /\ \A a \in DOMAIN Sale(r, Due(r), -1) : Sale(r, Due(r), -1)[a] \in Int
      BY DueFacts, SaleShape
    <2>3. QED
      BY <1>4, <1>5, <2>1, <2>2
  <1>7. QED
    BY <1>4, <1>5, <1>6, FeeShape

(* Without database errors, the only money a failed request keeps is money *)
(* that the manager of the store has spent since he earned it (refund,     *)
(* order.go:392-404), unless the refund lost the race for the wallets      *)
(* (wallet.go:172-178), however many requests draw on them meanwhile.      *)
THEOREM OnlyRevenueIsLost == Spec => []OnlySpentRevenueWithheld
  <1>1. Init => PurseInv /\ EarnedInv /\ WithheldInv
    <2> SUFFICES ASSUME Init
                 PROVE  PurseInv /\ EarnedInv /\ WithheldInv
      OBVIOUS
    <2>1. PurseInv
      BY PurseFacts DEF Init, BooksInit, PurseInv
    <2>2. \A r \in Request : pc[r] \in {"new", "unasked"} /\ local[r].charged = 0
      BY DEF Init
    <2>3. QED
      BY <2>1, <2>2 DEF WithheldInv, Kept, EarnedInv
  <1>2. ASSUME OInv, CashInv, PurseInv, EarnedInv, WithheldInv, [Next]_vars
        PROVE  WithheldInv'
    <2>0. Grown
      BY <1>2, BooksSteps
    <2>1. CASE UNCHANGED vars \/ Crash \/ \E i \in Inbound : DetachInbound(i) \/ DeleteInbound(i)
      <3>1. UNCHANGED <<books, local, faulty, outrun>>
        BY <2>1 DEF vars, world, Crash, DetachInbound, DeleteInbound
      <3>2. \A r \in Request : pc'[r] \in {pc[r], "dead"}
        BY <1>2, <2>1 DEF OInv, ShapeInv, PcShape, DetachInbound, DeleteInbound, Crash, vars
      <3>3. /\ \A r \in Request : Refunded(r)' <=> Refunded(r)
            /\ \A r, m : SpentSince(r, m)' <=> SpentSince(r, m)
        BY <3>1 DEF Refunded, Posted, RowsOf, books, SpentSince
      <3>4. \A r \in Request : Kept(r)' => Kept(r)
        BY <3>1, <3>2, <3>3 DEF Kept
      <3>5. QED
        BY <1>2, <3>1, <3>3, <3>4 DEF WithheldInv, Seller
    <2>2. QED
      BY <1>2, <2>0, <2>1, QuietWithheld, FeeWithheld, RefundWithheld
      DEF Next, Advance, LegStep, Looks, AllEnded
  <1>3. ASSUME CashInv, WithheldInv
        PROVE  OnlySpentRevenueWithheld
    <2>1. ASSUME NEW r \in Request, Charged(r)
          PROVE  local[r].charged > 0
      <3>1. local[r].charged \in Nat /\ ChargedInv(r)
        BY <1>3, DueFacts DEF CashInv, ChargedInv
      <3>2. local[r].charged # 0
        BY <2>1, <3>1 DEF ChargedInv, Charged, Posted, Empty
      <3>3. QED
        BY <3>1, <3>2
    <2>2. QED
      BY <1>3, <2>1 DEF WithheldInv, Kept, Seller, OnlySpentRevenueWithheld
  <1>4. OInv /\ CashInv /\ PurseInv /\ EarnedInv /\ WithheldInv /\ [Next]_vars
           => PurseInv' /\ EarnedInv' /\ WithheldInv'
    BY <1>2, BooksSteps, EarnedSteps
  <1>5. QED
    BY <1>1, <1>3, <1>4, OrdersInvariance, CashInvariance, PTL DEF Spec

-----------------------------------------------------------------------------
(* A finite set's sequence lists the set.                                  *)
LEMMA SeqOfSet ==
    ASSUME NEW S, IsFiniteSet(S)
    PROVE  SetToSeq(S) \in Seq(S) /\ ToSet(SetToSeq(S)) = S
  <1> DEFINE n == Cardinality(S)
             I == [1..n -> S]
             f == SetToSeq(S)
  <1>1. n \in Nat /\ ExistsBijection(1..n, S)
    BY FS_CardinalityType
  <1>2. \E g \in I : IsInjective(g)
    BY <1>1 DEF ExistsBijection, Bijection, Injection
  <1>3. f = CHOOSE g \in I : IsInjective(g)
    BY DEF SetToSeq
  <1>4. f \in I /\ IsInjective(f)
    <2> HIDE DEF I, f
    <2>1. QED
      BY <1>2, <1>3
  <1>5. f \in Injection(1..n, S)
    BY <1>4 DEF Injection
  <1>6. IsFiniteSet(1..n) /\ Cardinality(1..n) = n
    <2>1. 0 \in Int /\ 1 \in Int /\ n \in Int
      BY <1>1
    <2>2. IsFiniteSet(1..n) /\ Cardinality(1..n) = IF 1 > n THEN 0 ELSE n - 1 + 1
      BY <2>1, FS_Interval
    <2>3. QED
      BY <1>1, <2>2
  <1>7. f \in Surjection(1..n, S)
    BY <1>5, <1>6, FS_Injection
  <1> HIDE DEF f
  <1>8. /\ DOMAIN f = 1..n
        /\ \A i \in 1..n : f[i] \in S
        /\ \A x \in S : \E j \in 1..n : f[j] = x
    BY <1>7 DEF Surjection
  <1>9. ToSet(f) = S
    <2>1. ASSUME NEW x
          PROVE  x \in ToSet(f) <=> x \in S
      BY <1>8 DEF ToSet
    <2>2. QED
      BY <2>1
  <1>10. f \in Seq(S)
    BY <1>1, <1>7, SeqDef DEF Surjection
  <1>11. QED
    BY <1>9, <1>10 DEF f

(* What each inbound lists at the start.                                   *)
There(i) == {c \in DOMAIN Existing : Existing[c].on = i}
Listing(i) == {Entry(c, "there", 0) : c \in There(i)}

LEMMA InitListing ==
    ASSUME Init, NEW i \in Inbound
    PROVE  settings[i] \in Seq(Listing(i)) /\ ToSet(settings[i]) = Listing(i)
  <1>1. settings[i] = SetToSeq(Listing(i))
    BY DEF Init, Listing, There
  <1>2. IsFiniteSet(There(i))
    BY OrdersAssumption, FS_Subset DEF There
  <1> DEFINE g == [c \in There(i) |-> Entry(c, "there", 0)]
  <1>3. g \in Surjection(There(i), Listing(i))
    BY DEF Surjection, Listing
  <1> HIDE DEF g
  <1>4. IsFiniteSet(Listing(i))
    BY <1>2, <1>3, FS_Surjection
  <1>5. QED
    BY <1>1, <1>4, SeqOfSet

Linked(i) == Named(links, i)
Lost(i) == Named(cut, i)
Entered(i) == {x.config : x \in ToSet(settings[i])}

(* What is said of one inbound.                                            *)
Agree(i) == Linked(i) \cup Lost(i) = Entered(i) /\ Linked(i) \cap Lost(i) = {}

LEMMA AgreeAll ==
    LinkedAsListed <=> (~faulty => \A i \in DOMAIN settings \ deleting : Agree(i))
  BY DEF LinkedAsListed, Agree, Linked, Lost, Entered

LEMMA AgreeAllThen ==
    LinkedAsListed' <=> (~faulty' => \A i \in DOMAIN settings' \ deleting' : Agree(i)')
  BY DEF LinkedAsListed, Agree, Linked, Lost, Entered

LEMMA InitLinked == Init => LinkedAsListed
  <1> SUFFICES ASSUME Init, NEW i \in Inbound
               PROVE  Agree(i)
    BY AgreeAll DEF Init
  <1> DEFINE here == There(i)
             S == Listing(i)
  <1>3. ToSet(settings[i]) = S
    BY InitListing
  <1>4. {x.config : x \in S} = here
    <2>1. \A c : Entry(c, "there", 0).config = c
      BY DEF Entry
    <2>2. ASSUME NEW c \in here
          PROVE  \E x \in S : x.config = c
      BY <2>1 DEF Listing
    <2>3. ASSUME NEW x \in S
          PROVE  x.config \in here
      BY <2>1 DEF Listing
    <2> HIDE DEF S, here
    <2>4. QED
      BY <2>2, <2>3
  <1>5. links = {<<c, Existing[c].on>> : c \in DOMAIN Existing}
    BY DEF Init
  <1>6. Linked(i) = here
    <2>1. ASSUME NEW c \in here
          PROVE  c \in Linked(i)
      <3>1. <<c, i>> \in links /\ <<c, i>>[1] = c /\ <<c, i>>[2] = i
        BY <1>5 DEF There
      <3>2. QED
        BY <3>1 DEF Linked, Named
    <2>2. ASSUME NEW l \in links, l[2] = i
          PROVE  l[1] \in here
      BY <1>5, <2>2 DEF There
    <2> HIDE DEF here
    <2>3. QED
      BY <2>1, <2>2 DEF Linked, Named
  <1>7. Lost(i) = {}
    BY DEF Init, Lost, Named
  <1>8. QED
    BY <1>3, <1>4, <1>6, <1>7 DEF Agree, Entered

(* The pairs of an inbound are what its names come from.                   *)
LEMMA NamedOf ==
    ASSUME NEW pairs, NEW pairs2, NEW i, \A l : l[2] = i => (l \in pairs2 <=> l \in pairs)
    PROVE  Named(pairs2, i) = Named(pairs, i)
  <1>1. {l \in pairs2 : l[2] = i} = {l \in pairs : l[2] = i}
    OBVIOUS
  <1>2. QED
    BY <1>1 DEF Named

LEMMA NamedElsewhere ==
    ASSUME NEW pairs, NEW j, NEW i
    PROVE  Named(Elsewhere(pairs, j), i) = IF i = j THEN {} ELSE Named(pairs, i)
  <1>1. CASE i = j
    BY <1>1 DEF Named, Elsewhere
  <1>2. CASE i # j
    <2>1. \A l : l[2] = i => (l \in Elsewhere(pairs, j) <=> l \in pairs)
      BY <1>2 DEF Elsewhere
    <2>2. QED
      BY <1>2, <2>1, NamedOf
  <1>3. QED
    BY <1>1, <1>2

(* After a write the inbound's links are its clients.                      *)
LEMMA NamedLinks ==
    ASSUME NEW list, NEW j, NEW i
    PROVE  Named(Links(j, list), i) = IF i = j THEN {x.config : x \in ToSet(list)} ELSE Named(links, i)
  <1>1. CASE i = j
    <2> DEFINE pairs == {<<x.config, i>> : x \in ToSet(list)}
    <2>1. {l \in Links(j, list) : l[2] = i} = pairs
      BY <1>1 DEF Links, Elsewhere
    <2>2. ASSUME NEW x \in ToSet(list)
          PROVE  \E l \in pairs : l[1] = x.config
      <3>1. <<x.config, i>> \in pairs /\ <<x.config, i>>[1] = x.config
        OBVIOUS
      <3>2. QED
        BY <3>1
    <2>3. \A l \in pairs : \E x \in ToSet(list) : l[1] = x.config
      OBVIOUS
    <2> HIDE DEF pairs
    <2>4. {l[1] : l \in pairs} = {x.config : x \in ToSet(list)}
      BY <2>2, <2>3
    <2>5. QED
      BY <1>1, <2>1, <2>4 DEF Named
  <1>2. CASE i # j
    <2>1. \A l : l[2] = i => (l \in Links(j, list) <=> l \in links)
      BY <1>2 DEF Links, Elsewhere
    <2>2. QED
      BY <1>2, <2>1, NamedOf
  <1>3. QED
    BY <1>1, <1>2

(* The links are pairs.                                                    *)
LinkShape == \A l \in links : l = <<l[1], l[2]>>

(* A link taken away is lost where the inbound is there.                   *)
LEMMA NamedCut ==
    ASSUME NEW c, NEW j, NEW i, NEW gone, gone = links \cap {<<c, j>>}, LinkShape
    PROVE  /\ i # j => Named(links \ gone, i) = Named(links, i) /\ Named(cut \cup gone, i) = Named(cut, i)
           /\ Named(links \ gone, i) \cup Named(cut \cup gone, i) = Named(links, i) \cup Named(cut, i)
           /\ Named(links, i) \cap Named(cut, i) = {} =>
                 Named(links \ gone, i) \cap Named(cut \cup gone, i) = {}
  <1>1. CASE i # j
    <2>1. \A l \in gone : l[2] = j
      OBVIOUS
    <2>2. /\ Named(links \ gone, i) = Named(links, i)
          /\ Named(cut \cup gone, i) = Named(cut, i)
      BY <1>1, <2>1, NamedOf
    <2>3. QED
      BY <2>2
  <1>2. CASE i = j
    <2>1. Named(links \ gone, i) \cup Named(cut \cup gone, i) = Named(links, i) \cup Named(cut, i)
      BY <1>2 DEF Named
    <2>2. ASSUME Named(links, i) \cap Named(cut, i) = {}
          PROVE  Named(links \ gone, i) \cap Named(cut \cup gone, i) = {}
      <3>1. ASSUME NEW x \in Named(links \ gone, i), x \in Named(cut \cup gone, i)
            PROVE  FALSE
        <4>1. PICK l \in links \ gone : l[2] = i /\ l[1] = x
          BY <3>1 DEF Named
        <4>2. PICK k \in cut \cup gone : k[2] = i /\ k[1] = x
          BY <3>1 DEF Named
        <4>3. k \notin cut
          BY <2>2, <4>1, <4>2 DEF Named
        <4>4. k = <<c, j>> /\ c = x
          BY <4>2, <4>3
        <4>5. l = <<c, j>>
          BY <1>2, <4>1, <4>4 DEF LinkShape
        <4>6. QED
          BY <4>1, <4>5
      <3>2. QED
        BY <3>1
    <2>3. QED
      BY <1>2, <2>1, <2>2
  <1>3. QED
    BY <1>1, <1>2

LEMMA LinkedSteps ==
    ASSUME LinkShape, LinkedAsListed, [Next]_vars
    PROVE  LinkShape' /\ LinkedAsListed'
  <1>1. ASSUME NEW r \in Request, Check(r) \/ Advance(r), ~Unlink(r), ~WriteLeg(r)
        PROVE  UNCHANGED <<settings, links, cut, deleting, faulty>>
    BY <1>1 DEF Advance, Check, Charge, CreateOrder, CheckName, LookUp, ReadLeg, Stamp, ReadPlan, Touch,
                Reset, Refund, Cancel, Complete, CostOfGoods, ReadLinks, PayCommission, world, clients
  <1>2. CASE UNCHANGED <<settings, links, cut, deleting, faulty>>
    BY <1>2 DEF LinkShape, LinkedAsListed, Named
  <1>3. ASSUME NEW r \in Request, Unlink(r)
        PROVE  LinkShape' /\ LinkedAsListed'
    <2>1. UNCHANGED <<settings, deleting, faulty>>
      BY <1>3 DEF Unlink, world
    <2>2. CASE UNCHANGED <<links, cut>>
      BY <1>2, <2>1, <2>2
    <2>3. CASE ~UNCHANGED <<links, cut>>
      <3>1. PICK c, j, gone : /\ gone = links \cap {<<c, j>>}
                              /\ links' = links \ gone
                              /\ cut' = IF j \in DOMAIN settings THEN cut \cup gone ELSE cut
        BY <1>3, <2>3 DEF Unlink
      <3>2. ASSUME NEW i \in DOMAIN settings, Agree(i)
            PROVE  Agree(i)'
        <4>1. CASE i = j
          <5>1. cut' = cut \cup gone
            BY <3>1, <3>2, <4>1
          <5> DEFINE left == links \ gone
                     lost == cut \cup gone
          <5>2. /\ Named(left, i) \cup Named(lost, i) = Named(links, i) \cup Named(cut, i)
                /\ Named(links, i) \cap Named(cut, i) = {} => Named(left, i) \cap Named(lost, i) = {}
            BY <3>1, NamedCut
          <5> HIDE DEF left, lost
          <5>3. links' = left /\ cut' = lost
            BY <3>1, <5>1 DEF left, lost
          <5>4. QED
            BY <2>1, <3>2, <5>2, <5>3 DEF Agree, Linked, Lost, Entered
        <4>2. CASE i # j
          <5>1. Named(links \ gone, i) = Named(links, i) /\ Named(cut \cup gone, i) = Named(cut, i)
            <6>1. \A l : l[2] = i => /\ l \in links \ gone <=> l \in links
                                     /\ l \in cut \cup gone <=> l \in cut
              <7>1. \A l \in gone : l[2] = j
                BY <3>1
              <7>2. QED
                BY <4>2, <7>1
            <6>2. QED
              BY <6>1, NamedOf
          <5>2. Named(links', i) = Named(links, i) /\ Named(cut', i) = Named(cut, i)
            <6>1. links' = links \ gone /\ (cut' = cut \/ cut' = cut \cup gone)
              BY <3>1
            <6>2. QED
              BY <5>1, <6>1
          <5>3. QED
            BY <2>1, <3>2, <5>2 DEF Agree, Linked, Lost, Entered
        <4>3. QED
          BY <4>1, <4>2
      <3>3. LinkShape'
        BY <3>1 DEF LinkShape
      <3>4. QED
        BY <2>1, <3>2, <3>3, AgreeAll, AgreeAllThen
    <2>4. QED
      BY <2>2, <2>3
  <1>4. ASSUME NEW r \in Request, WriteLeg(r)
        PROVE  LinkShape' /\ LinkedAsListed'
    <2>1. UNCHANGED <<deleting, faulty>>
      BY <1>4 DEF WriteLeg, world
    <2>2. PICK list, j : \/ UNCHANGED clients
                         \/ /\ settings' = [k \in DOMAIN settings \cup {j} |->
                                               IF k = j THEN list ELSE settings[k]]
                            /\ links' = Links(j, list)
                            /\ cut' = Elsewhere(cut, j)
      BY <1>4 DEF WriteLeg
    <2>3. CASE UNCHANGED clients
      BY <1>2, <2>1, <2>3 DEF clients
    <2>4. CASE /\ settings' = [k \in DOMAIN settings \cup {j} |->
                                  IF k = j THEN list ELSE settings[k]]
               /\ links' = Links(j, list) /\ cut' = Elsewhere(cut, j)
      <3>1. ASSUME NEW i \in DOMAIN settings', i \in DOMAIN settings => Agree(i)
            PROVE  Agree(i)'
        <4>1. /\ Named(links', i) = IF i = j THEN {x.config : x \in ToSet(list)} ELSE Named(links, i)
              /\ Named(cut', i) = IF i = j THEN {} ELSE Named(cut, i)
          BY <2>4, NamedLinks, NamedElsewhere
        <4>2. CASE i = j
          <5>1. settings'[i] = list
            BY <2>4, <4>2
          <5>2. QED
            BY <4>1, <4>2, <5>1 DEF Agree, Linked, Lost, Entered
        <4>3. CASE i # j
          <5>1. settings'[i] = settings[i] /\ i \in DOMAIN settings
            BY <2>4, <3>1, <4>3
          <5>2. QED
            BY <3>1, <4>1, <4>3, <5>1 DEF Agree, Linked, Lost, Entered
        <4>4. QED
          BY <4>2, <4>3
      <3>2. LinkShape'
        BY <2>4 DEF LinkShape, Links, Elsewhere
      <3>3. QED
        BY <2>1, <3>1, <3>2, AgreeAll, AgreeAllThen
    <2>5. QED
      BY <2>2, <2>3, <2>4
  <1>5. ASSUME NEW j \in Inbound, DetachInbound(j) \/ DeleteInbound(j)
        PROVE  LinkShape' /\ LinkedAsListed'
    <2>1. /\ UNCHANGED faulty /\ cut' = Elsewhere(cut, j)
          /\ links' = links \/ links' = Elsewhere(links, j)
      BY <1>5 DEF DetachInbound, DeleteInbound
    <2>2. ASSUME NEW i \in DOMAIN settings' \ deleting'
          PROVE  i \in DOMAIN settings \ deleting /\ i # j /\ settings'[i] = settings[i]
      BY <1>5, <2>2 DEF DetachInbound, DeleteInbound
    <2>3. ASSUME NEW i \in DOMAIN settings' \ deleting', Agree(i)
          PROVE  Agree(i)'
      <3>1. Named(links', i) = Named(links, i) /\ Named(cut', i) = Named(cut, i)
        BY <2>1, <2>2, <2>3, NamedElsewhere
      <3>2. QED
        BY <2>2, <2>3, <3>1 DEF Agree, Linked, Lost, Entered
    <2>4. LinkShape'
      BY <2>1 DEF LinkShape, Elsewhere
    <2>5. QED
      BY <2>1, <2>2, <2>3, <2>4, AgreeAll, AgreeAllThen
  <1>6. CASE Crash
    <2>1. UNCHANGED <<settings, links, cut, faulty>> /\ faulty
      BY <1>6 DEF Crash, clients
    <2>2. QED
      BY <2>1 DEF LinkShape, LinkedAsListed
  <1>7. CASE AllEnded \/ UNCHANGED vars
    BY <1>2, <1>7 DEF AllEnded, vars, world, clients
  <1>8. QED
    BY <1>1, <1>2, <1>3, <1>4, <1>5, <1>6, <1>7 DEF Next, Advance

(* The links a subscription is built from and the settings the core is     *)
(* configured from agree on every inbound that is not being deleted        *)
(* (client_link.go:12-153, inbound.go:839-904), although a leg writes back *)
(* what it read before, and may bring back an inbound deleted meanwhile:   *)
(* all but the links a renewal deletes of an inbound that came back after  *)
(* it had looked (client_crud.go:333-342).                                 *)
THEOREM LinksAgree == Spec => []LinkedAsListed
  <1>1. Init => LinkShape
    <2>1. ASSUME Init, NEW l \in links
          PROVE  l = <<l[1], l[2]>>
      <3>1. links = {<<c, Existing[c].on>> : c \in DOMAIN Existing}
        BY <2>1 DEF Init
      <3>2. PICK c \in DOMAIN Existing : l = <<c, Existing[c].on>>
        BY <3>1
      <3>3. QED
        BY <3>2
    <2>2. QED
      BY <2>1 DEF LinkShape
  <1>2. QED
    BY <1>1, InitLinked, LinkedSteps, PTL DEF Spec

-----------------------------------------------------------------------------
(* A name is sold once on an inbound.  Two requests of one name may both   *)
(* have found it free, and each has written some of its legs: what keeps   *)
(* them apart is that an entry once written stays in its inbound's settings*)
(* and in whatever a lock holder has read of them (KeptInv), also across a *)
(* deletion that a write in progress undoes; so that a second one finds it *)
(* when it takes the lock (OnceInv).                                       *)
ListShape(list) == list \in Seq(ToSet(list))
Has(list, c, sub) == \E k \in DOMAIN list : list[k].config = c /\ list[k].sub = sub

Placed == {"stamp", "complete", "cost", "commission", "done"}
Wrote(r, i) == /\ Creates(r) /\ pc[r] \in Legs \cup Placed
               /\ i \in ToSet(F(r).inbounds) \ ToSet(local[r].todo)
Writing(q, i) == pc[q] = "write" /\ Head(local[q].todo) = i

(* What a request is at tells its kind, and a leg what is written.         *)
StageInv(r) ==
    /\ pc[r] = "create" => Ordered(r)
    /\ pc[r] = "name" => Creates(r)
    /\ pc[r] = "reset" => ~Creates(r)
    /\ pc[r] \in {"readplan", "links", "touch"} => F(r).kind = "renew"
    /\ pc[r] \in Legs =>
          \/ /\ Creates(r) /\ local[r].phase = "create"
             /\ local[r].wire = Entry(F(r).config, r, F(r).days)
             /\ local[r].todo \in Seq(Inbound) /\ local[r].todo # <<>>
          \/ /\ F(r).kind = "renew" /\ local[r].phase \in {"update", "attach"}
             /\ local[r].wire.config = F(r).config
    /\ pc[r] = "unlink" => local[r].phase = "update"
    /\ Creates(r) /\ pc[r] \in Placed => F(r).inbounds = <<>> \/ local[r].todo = <<>>

LockInv == \A r, q \in Request :
    pc[r] = "write" /\ pc[q] = "write" /\ Head(local[r].todo) = Head(local[q].todo) => r = q

ListInv == /\ \A i \in DOMAIN settings : ListShape(settings[i])
           /\ \A q \in Request : pc[q] = "write" => ListShape(local[q].read)

KeptInv == \A r \in Request, i \in Inbound :
    Wrote(r, i) /\ ~Renewed(F(r).config) =>
        /\ i \in DOMAIN settings => Has(settings[i], F(r).config, r)
        /\ \A q \in Request : Writing(q, i) => Has(local[q].read, F(r).config, r)

OnceInv == \A r, q \in Request, i \in Inbound :
    r # q /\ Creates(q) /\ F(r).config = F(q).config /\ ~Renewed(F(r).config) /\ Wrote(r, i) =>
        ~Wrote(q, i) /\ ~Writing(q, i)

NameInv == (\A r \in Request : StageInv(r)) /\ LockInv /\ ListInv /\ KeptInv /\ OnceInv

LEMMA Kinds ==
    ASSUME NEW r \in Request
    PROVE  /\ Creates(r) => F(r).kind # "renew"
           /\ Ordered(r) /\ F(r).kind # "renew" => Creates(r)
           /\ F(r).kind = "create" => Creates(r)
           /\ ~Ordered(r) /\ F(r).kind # "create" => ~Creates(r)
  BY DEF Creates, Ordered

(* A step of a request is that request's alone.                            *)
LEMMA OthersAlone ==
    ASSUME OInv, NEW r \in Request, StageInv(r), Check(r) \/ Advance(r)
    PROVE  /\ pc[r] # "unasked" /\ pc'[r] # "unasked" /\ pc[r] \notin {"refused", "failed", "dead"}
           /\ \A q \in Request \ {r} : pc'[q] = pc[q] /\ local'[q] = local[q]
           /\ LocalShape
  <1>1. LocalShape /\ PcShape
    BY DEF OInv, ShapeInv
  <1>2. /\ pc[r] \notin {"unasked", "refused", "failed", "dead"}
        /\ \E step : Goto(r, step) /\ step # "unasked"
    <2>1. CASE Check(r) \/ Charge(r) \/ CreateOrder(r) \/ CheckName(r)
      <3>1. PICK step \in {"charge", "refused", "create", "name", "reset", "refund", "readplan",
                            "complete", "leg"} : Goto(r, step)
        BY <2>1 DEF Check, Charge, CreateOrder, CheckName
      <3>2. QED
        BY <2>1, <3>1 DEF Check, Charge, CreateOrder, CheckName
    <2>2. CASE Stamp(r) \/ ReadPlan(r) \/ Touch(r) \/ Reset(r)
      <3>1. PICK step \in {"complete", "cost", "refund", "touch", "leg"} : Goto(r, step)
        BY <2>2 DEF Stamp, ReadPlan, Touch, Reset
      <3>2. QED
        BY <2>2, <3>1 DEF Stamp, ReadPlan, Touch, Reset
    <2>3. CASE Refund(r) \/ Cancel(r) \/ Complete(r)
      <3>1. PICK step \in {"failed", "cancel", "cost"} : Goto(r, step)
        BY <2>3 DEF Refund, Cancel, Complete
      <3>2. QED
        BY <2>3, <3>1 DEF Refund, Cancel, Complete
    <2>4. CASE CostOfGoods(r) \/ ReadLinks(r) \/ PayCommission(r)
      <3>1. PICK step \in {"links", "commission", "done", "leg"} : Goto(r, step)
        BY <2>4 DEF CostOfGoods, ReadLinks, PayCommission
      <3>2. QED
        BY <2>4, <3>1 DEF CostOfGoods, ReadLinks, PayCommission
    <2>5. CASE LegStep(r)
      <3>1. pc[r] \in Legs
        BY <2>5 DEF LegStep, Looks, LookUp, Unlink, ReadLeg, NextLeg, WriteLeg, Legs
      <3>2. local[r].phase \in {"create", "update", "attach"}
        BY <3>1 DEF StageInv
      <3>3. PICK step \in {"unlink", "lock", "write", "leg", "stamp", "touch", "commission", "refund"} : Goto(r, step)
        BY <2>5, <3>2 DEF LegStep, Looks, LookUp, Unlink, ReadLeg, NextLeg, WriteLeg, After, Abort
      <3>4. QED
        BY <3>1, <3>3 DEF Legs
    <2>6. QED
      BY <2>1, <2>2, <2>3, <2>4, <2>5 DEF Advance, LegStep, Looks
  <1>3. \A q \in Request \ {r} : local'[q] = local[q]
    <2>1. CASE Charge(r) \/ CheckName(r) \/ ReadPlan(r) \/ ReadLinks(r)
      BY <1>1, <2>1 DEF Charge, CheckName, ReadPlan, ReadLinks, LocalShape
    <2>2. CASE LegStep(r)
      BY <1>1, <2>2, LegLocals
    <2>3. QED
      BY <2>1, <2>2 DEF Advance, Check, CreateOrder, Stamp, Touch, Reset, Refund, Cancel, Complete,
                        CostOfGoods, PayCommission, LegStep, Looks
  <1>4. QED
    BY <1>1, <1>2, <1>3 DEF Goto, PcShape

(* A step that leaves the legs alone, or ends them.                        *)
LEMMA StageQuiet ==
    ASSUME OInv, NEW r \in Request, NEW step, Goto(r, step), UNCHANGED local,
           step \notin {"leg", "unlink", "lock", "write", "readplan", "links", "touch", "create",
                        "name", "reset"},
           Creates(r) /\ step \in Placed => F(r).inbounds = <<>> \/ local[r].todo = <<>>
    PROVE  StageInv(r)'
  <1>1. pc'[r] = step
    BY DEF OInv, ShapeInv, PcShape, Goto
  <1>2. QED
    BY <1>1 DEF StageInv, Creates, Legs

LEMMA StageLegs ==
    ASSUME OInv, NEW r \in Request, StageInv(r), LegStep(r)
    PROVE  StageInv(r)'
  <1>1. LocalShape /\ \A step : Goto(r, step) => pc'[r] = step
    BY DEF OInv, ShapeInv, PcShape, Goto
  <1>2. /\ local'[r].phase = local[r].phase /\ local'[r].wire = local[r].wire
        /\ local'[r].todo \in {local[r].todo, Tail(local[r].todo)}
    BY <1>1, LegLocals
  <1>3. pc[r] \in Legs
    BY DEF LegStep, Looks, LookUp, Unlink, ReadLeg, NextLeg, WriteLeg, Legs
  <1>4. CASE /\ F(r).kind = "renew" /\ local[r].phase \in {"update", "attach"}
             /\ local[r].wire.config = F(r).config
    <2>1. PICK step \in {"unlink", "lock", "write", "leg", "touch", "commission", "refund"} :
             Goto(r, step) /\ (step = "unlink" => local[r].phase = "update")
      BY <1>4 DEF LegStep, Looks, LookUp, Unlink, ReadLeg, NextLeg, WriteLeg, After, Abort
    <2>2. QED
      BY <1>1, <1>2, <1>4, <2>1, Kinds DEF StageInv, Placed, Creates, Legs
  <1>5. CASE /\ Creates(r) /\ local[r].phase = "create"
             /\ local[r].wire = Entry(F(r).config, r, F(r).days)
             /\ local[r].todo \in Seq(Inbound) /\ local[r].todo # <<>>
    <2>1. Tail(local[r].todo) \in Seq(Inbound)
      BY <1>5, HeadTailProperties
    <2>2. \/ Goto(r, "refund")
          \/ (Goto(r, "lock") \/ Goto(r, "write")) /\ local'[r].todo = local[r].todo
          \/ Goto(r, "leg") /\ local'[r].todo = Tail(local[r].todo) /\ Tail(local[r].todo) # <<>>
          \/ Goto(r, "stamp") /\ local'[r].todo = Tail(local[r].todo) /\ Tail(local[r].todo) = <<>>
      <3>1. CASE Looks(r)
        <4>1. CASE LookUp(r)
          BY <1>5, <4>1 DEF LookUp, Abort
        <4>2. ~Unlink(r)
          BY <1>5 DEF Unlink, StageInv
        <4>3. CASE ReadLeg(r)
          BY <1>1, <1>5, <4>3 DEF ReadLeg, Abort, LocalShape
        <4>4. QED
          BY <3>1, <4>1, <4>2, <4>3 DEF Looks
      <3>2. CASE WriteLeg(r)
        <4>1. After(r) = "stamp" /\ (Abort(r) => Goto(r, "refund"))
          BY <1>5 DEF After, Abort
        <4> DEFINE rest == Tail(local[r].todo)
        <4>2. \/ /\ Goto(r, IF rest = <<>> THEN After(r) ELSE "leg")
                 /\ local' = [local EXCEPT ![r].todo = rest, ![r].read = <<>>]
              \/ Abort(r)
          BY <3>2 DEF WriteLeg, NextLeg
        <4> HIDE DEF rest
        <4>3. ASSUME local' = [local EXCEPT ![r].todo = rest, ![r].read = <<>>]
              PROVE  local'[r].todo = rest
          BY <1>1, <4>3 DEF LocalShape
        <4>4. \/ Goto(r, "refund")
              \/ Goto(r, "leg") /\ local'[r].todo = rest /\ rest # <<>>
              \/ Goto(r, "stamp") /\ local'[r].todo = rest /\ rest = <<>>
          BY <4>1, <4>2, <4>3
        <4>5. QED
          BY <4>4 DEF rest
      <3>3. QED
        BY <3>1, <3>2 DEF LegStep
    <2>3. QED
      BY <1>1, <1>2, <1>5, <2>1, <2>2 DEF StageInv, Placed, Creates, Legs
  <1>6. QED
    BY <1>3, <1>4, <1>5 DEF StageInv

LEMMA StageSteps ==
    ASSUME OInv, NEW r \in Request, StageInv(r), Check(r) \/ Advance(r)
    PROVE  StageInv(r)'
  <1>1. LocalShape /\ PcShape
    BY DEF OInv, ShapeInv
  <1>2. \A step : Goto(r, step) => pc'[r] = step
    BY <1>1 DEF Goto, PcShape
  <1>3. CASE Check(r) \/ Refund(r) \/ Cancel(r)
    <2>1. UNCHANGED local /\ \E step \in {"charge", "refused", "failed", "cancel"} : Goto(r, step)
      BY <1>3 DEF Check, Refund, Cancel
    <2>2. QED
      BY <2>1, StageQuiet DEF Placed
  <1>4. CASE Charge(r)
    <2> DEFINE next == CASE Ordered(r) -> "create"
                         [] F(r).kind = "create" -> "name"
                         [] OTHER -> "reset"
    <2>5. Goto(r, "refused") \/ Goto(r, next)
      BY <1>4, Zenon DEF Charge
    <2>6. /\ Ordered(r) => next = "create"
          /\ ~Ordered(r) /\ F(r).kind = "create" => next = "name"
          /\ ~Ordered(r) /\ F(r).kind # "create" => next = "reset"
      BY DEF Ordered
    <2> HIDE DEF next
    <2>1. CASE Ordered(r)
      <3>1. PICK step \in {"refused", "create"} : Goto(r, step)
        BY <2>1, <2>5, <2>6
      <3>2. QED
        BY <1>2, <2>1, <3>1 DEF StageInv, Placed, Ordered, Legs
    <2>2. CASE ~Ordered(r) /\ F(r).kind = "create"
      <3>1. PICK step \in {"refused", "name"} : Goto(r, step)
        BY <2>2, <2>5, <2>6
      <3>2. QED
        BY <1>2, <2>2, <3>1, Kinds DEF StageInv, Placed, Creates, Legs
    <2>3. CASE ~Ordered(r) /\ F(r).kind # "create"
      <3>1. PICK step \in {"refused", "reset"} : Goto(r, step)
        BY <2>3, <2>5, <2>6
      <3>2. QED
        BY <1>2, <2>3, <3>1, Kinds DEF StageInv, Placed, Creates, Legs
    <2>4. QED
      BY <2>1, <2>2, <2>3
  <1>5. CASE CreateOrder(r)
    <2>1. PICK step : /\ Goto(r, step)
                      /\ \/ step = "refund" \/ (step = "readplan" /\ F(r).kind = "renew")
                         \/ (step = "complete" /\ F(r).inbounds = <<>>)
                         \/ (step = "name" /\ F(r).kind # "renew")
      BY <1>5 DEF CreateOrder
    <2>2. Ordered(r)
      BY <1>5 DEF CreateOrder, StageInv
    <2>3. QED
      BY <1>2, <2>1, <2>2, Kinds DEF StageInv, Placed, Legs
  <1>6. CASE CheckName(r)
    <2>1. Creates(r) /\ F(r).inbounds \in Seq(Inbound)
      BY <1>6, OrdersAssumption DEF CheckName, StageInv, F
    <2>2. CASE Goto(r, "refund")
      BY <1>2, <2>2 DEF StageInv, Placed, Legs
    <2>3. CASE /\ F(r).inbounds # <<>> /\ Goto(r, "leg")
               /\ local' = [local EXCEPT ![r].phase = "create", ![r].todo = F(r).inbounds,
                                         ![r].wire = Entry(F(r).config, r, F(r).days)]
      <3>1. /\ local'[r].phase = "create" /\ local'[r].todo = F(r).inbounds
            /\ local'[r].wire = Entry(F(r).config, r, F(r).days)
        BY <1>1, <2>3 DEF LocalShape
      <3>2. QED
        BY <1>2, <2>1, <2>3, <3>1 DEF StageInv, Placed, Creates
    <2>4. QED
      BY <1>6, <2>2, <2>3 DEF CheckName
  <1>7. CASE Stamp(r) \/ Complete(r) \/ CostOfGoods(r) \/ PayCommission(r)
    <2>1. UNCHANGED local /\ pc[r] \in Placed
      BY <1>7 DEF Stamp, Complete, CostOfGoods, PayCommission, Placed
    <2>2. PICK step \in {"complete", "cost", "refund", "links", "commission", "done"} :
             Goto(r, step) /\ (step = "links" => F(r).kind = "renew")
      BY <1>7 DEF Stamp, Complete, CostOfGoods, PayCommission
    <2>3. Creates(r) => F(r).inbounds = <<>> \/ local[r].todo = <<>>
      BY <2>1 DEF StageInv
    <2>4. QED
      BY <1>2, <2>1, <2>2, <2>3, Kinds DEF StageInv, Placed, Legs
  <1>8. CASE Touch(r) \/ Reset(r)
    <2>1. UNCHANGED local /\ ~Creates(r) /\ \E step \in {"complete", "cost", "refund"} : Goto(r, step)
      BY <1>8, Kinds DEF Touch, Reset, StageInv
    <2>2. QED
      BY <2>1, StageQuiet
  <1>9. CASE ReadPlan(r) \/ ReadLinks(r)
    <2>1. F(r).kind = "renew"
      BY <1>9 DEF ReadPlan, ReadLinks, StageInv
    <2>2. PICK step \in {"leg", "touch", "commission"} : Goto(r, step)
      BY <1>9 DEF ReadPlan, ReadLinks
    <2>3. local'[r].phase \in {"update", "attach"} /\ local'[r].wire.config = F(r).config
      <3>1. \A sub, e : Entry(F(r).config, sub, e).config = F(r).config
        BY DEF Entry
      <3>2. CASE ReadPlan(r)
        BY <1>1, <3>1, <3>2 DEF ReadPlan, LocalShape
      <3>3. CASE ReadLinks(r)
        BY <1>1, <3>1, <3>3 DEF ReadLinks, LocalShape
      <3>4. QED
        BY <1>9, <3>2, <3>3
    <2>4. QED
      BY <1>2, <2>1, <2>2, <2>3, Kinds DEF StageInv, Placed, Creates
  <1>10. CASE LegStep(r)
    BY <1>10, StageLegs
  <1>11. QED
    BY <1>3, <1>4, <1>5, <1>6, <1>7, <1>8, <1>9, <1>10 DEF Advance, LegStep, Looks

LEMMA RenewedStays ==
    ASSUME \A q \in Request : pc'[q] = "unasked" <=> pc[q] = "unasked"
    PROVE  \A c : Renewed(c)' <=> Renewed(c)
  BY DEF Renewed

(* A step that takes no lock, writes no leg and forgets none of an inbound.*)
LEMMA PlainNames ==
    ASSUME LockInv, ListInv, KeptInv, OnceInv,
           \A q \in Request : pc'[q] = "unasked" <=> pc[q] = "unasked",
           \A q \in Request : pc'[q] = "write" => /\ pc[q] = "write"
                                                /\ local'[q].todo = local[q].todo
                                                /\ local'[q].read = local[q].read,
           \A q \in Request, i \in Inbound : Wrote(q, i)' => Wrote(q, i),
           \A i \in DOMAIN settings' : i \in DOMAIN settings /\ settings'[i] = settings[i]
    PROVE  LockInv' /\ ListInv' /\ KeptInv' /\ OnceInv'
  <1>1. \A c : Renewed(c)' <=> Renewed(c)
    BY RenewedStays
  <1>2. \A q \in Request, i \in Inbound : Writing(q, i)' => Writing(q, i)
    BY DEF Writing
  <1>3. LockInv'
    BY DEF LockInv
  <1>4. ListInv'
    BY DEF ListInv, ListShape
  <1>5. KeptInv'
    <2> SUFFICES ASSUME NEW r \in Request, NEW i \in Inbound, Wrote(r, i)', ~Renewed(F(r).config)'
                 PROVE  /\ i \in DOMAIN settings' => Has(settings'[i], F(r).config, r)
                        /\ \A q \in Request : Writing(q, i)' => Has(local'[q].read, F(r).config, r)
      BY DEF KeptInv, Has
    <2>1. /\ i \in DOMAIN settings => Has(settings[i], F(r).config, r)
          /\ \A q \in Request : Writing(q, i) => Has(local[q].read, F(r).config, r)
      BY <1>1 DEF KeptInv
    <2>2. \A q \in Request : Writing(q, i)' => local'[q].read = local[q].read
      BY DEF Writing
    <2>3. QED
      BY <1>2, <2>1, <2>2
  <1>6. OnceInv'
    BY <1>1, <1>2 DEF OnceInv
  <1>7. QED
    BY <1>3, <1>4, <1>5, <1>6

LEMMA PlainSteps ==
    ASSUME OInv, NameInv, NEW r \in Request, Check(r) \/ Advance(r),
           UNCHANGED settings, pc'[r] # "write",
           WriteLeg(r) => local'[r].todo = local[r].todo
    PROVE  LockInv' /\ ListInv' /\ KeptInv' /\ OnceInv'
  <1>1. /\ StageInv(r) /\ LocalShape /\ pc[r] # "unasked" /\ pc'[r] # "unasked"
        /\ \A q \in Request \ {r} : pc'[q] = pc[q] /\ local'[q] = local[q]
        /\ \A step : Goto(r, step) => pc'[r] = step
    BY OthersAlone DEF NameInv, OInv, ShapeInv, PcShape, Goto
  <1> SUFFICES ASSUME NEW i \in Inbound, Wrote(r, i)'
               PROVE  Wrote(r, i)
    <2>1. \A q \in Request \ {r}, j \in Inbound : Wrote(q, j)' => Wrote(q, j)
      BY <1>1 DEF Wrote
    <2> HIDE DEF Placed
    <2>2. QED
      BY <1>1, <2>1, PlainNames DEF NameInv
  <1>2. /\ Creates(r) /\ pc'[r] \in Legs \cup Placed
        /\ i \in ToSet(F(r).inbounds) /\ i \notin ToSet(local'[r].todo)
    BY DEF Wrote
  <1>3. ASSUME pc[r] \in Legs \cup Placed, local'[r].todo = local[r].todo
        PROVE  Wrote(r, i)
    BY <1>2, <1>3 DEF Wrote
  <1>4. F(r).inbounds # <<>>
    BY <1>2 DEF ToSet
  <1>5. CASE Check(r) \/ Charge(r) \/ Refund(r) \/ Cancel(r)
    <2>1. PICK step \in {"charge", "refused", "create", "name", "reset", "failed", "cancel"} : Goto(r, step)
      BY <1>5 DEF Check, Charge, Refund, Cancel
    <2>2. QED
      BY <1>1, <1>2, <2>1 DEF Placed, Legs
  <1>6. CASE CreateOrder(r)
    <2>1. PICK step \in {"refund", "readplan", "name"} : Goto(r, step)
      BY <1>4, <1>6 DEF CreateOrder
    <2>2. QED
      BY <1>1, <1>2, <2>1 DEF Placed, Legs
  <1>7. CASE CheckName(r)
    <2>1. CASE Goto(r, "refund")
      BY <1>1, <1>2, <2>1 DEF Placed, Legs
    <2>2. CASE local' = [local EXCEPT ![r].phase = "create", ![r].todo = F(r).inbounds,
                                      ![r].wire = Entry(F(r).config, r, F(r).days)]
      <3>1. local'[r].todo = F(r).inbounds
        BY <1>1, <2>2 DEF LocalShape
      <3>2. QED
        BY <1>2, <3>1
    <2>3. QED
      BY <1>7, <2>1, <2>2 DEF CheckName
  <1>8. CASE Stamp(r) \/ Complete(r) \/ CostOfGoods(r) \/ PayCommission(r)
    <2>1. UNCHANGED local /\ pc[r] \in Placed
      BY <1>8 DEF Stamp, Complete, CostOfGoods, PayCommission, Placed
    <2>2. QED
      BY <1>3, <2>1
  <1>9. CASE Touch(r) \/ Reset(r) \/ ReadPlan(r) \/ ReadLinks(r)
    <2>1. ~Creates(r)
      BY <1>1, <1>9, Kinds DEF Touch, Reset, ReadPlan, ReadLinks, StageInv
    <2>2. QED
      BY <1>2, <2>1
  <1>10. CASE Looks(r)
    <2>1. pc[r] \in Legs /\ local[r].phase = "create"
      BY <1>1, <1>2, <1>10, Kinds DEF Looks, LookUp, Unlink, ReadLeg, StageInv, Legs
    <2>2. local'[r].todo = local[r].todo
      BY <1>1, <1>10, <2>1 DEF Looks, LookUp, Unlink, ReadLeg, LocalShape, StageInv
    <2>3. QED
      BY <1>3, <2>1, <2>2
  <1>11. CASE WriteLeg(r)
    <2>1. pc[r] = "write"
      BY <1>11 DEF WriteLeg
    <2>2. QED
      BY <1>3, <1>11, <2>1 DEF Legs
  <1>12. QED
    BY <1>5, <1>6, <1>7, <1>8, <1>9, <1>10, <1>11 DEF Advance, Looks

(* A leg takes its inbound's lock: it reads the rival's entry, if that was *)
(* written, and is refused.                                                *)
LEMMA LockNames ==
    ASSUME OInv, NameInv, NEW r \in Request, ReadLeg(r), pc'[r] = "write"
    PROVE  LockInv' /\ ListInv' /\ KeptInv' /\ OnceInv'
  <1> DEFINE i == Head(local[r].todo)
             e == local[r].wire
  <1>1. /\ StageInv(r) /\ LocalShape /\ pc[r] # "unasked" /\ pc'[r] # "unasked"
        /\ \A q \in Request \ {r} : pc'[q] = pc[q] /\ local'[q] = local[q]
        /\ \A step : Goto(r, step) => pc'[r] = step
    BY OthersAlone DEF NameInv, OInv, ShapeInv, PcShape, Goto, Advance
  <1>2. /\ pc[r] = "lock" /\ i \in DOMAIN settings /\ ~Locked(i) /\ UNCHANGED settings
        /\ local[r].phase # "update" => ~Clash(e)
        /\ local' = [local EXCEPT ![r].read = settings[i]]
    <2>1. After(r) # "write" /\ (Abort(r) => pc'[r] # "write")
      <3>1. local[r].phase \in {"create", "update", "attach"}
        BY <1>1 DEF ReadLeg, StageInv, Legs
      <3>2. Abort(r) => Goto(r, "commission") \/ Goto(r, "refund")
        BY DEF Abort
      <3>3. QED
        BY <1>1, <3>1, <3>2 DEF After
    <2>2. QED
      BY <1>1, <2>1 DEF ReadLeg, clients
  <1>3. local'[r].todo = local[r].todo /\ local'[r].read = settings[i]
    BY <1>1, <1>2 DEF LocalShape
  <1> HIDE DEF i, e
  <1>4. /\ \A c : Renewed(c)' <=> Renewed(c)
        /\ \A q \in Request, j \in Inbound : Wrote(q, j)' => Wrote(q, j)
    BY <1>1, <1>2, <1>3, RenewedStays DEF Wrote, Legs
  <1>5. /\ \A q \in Request \ {r}, j \in Inbound : Writing(q, j)' => Writing(q, j) /\ local'[q].read = local[q].read
        /\ \A j : Writing(r, j)' => j = i
    BY <1>1, <1>3 DEF Writing, i
  <1>6. \A q \in Request \ {r} : ~Writing(q, i)
    BY <1>2 DEF Locked, Writing
  <1>7. LockInv'
    BY <1>1, <1>3, <1>6 DEF NameInv, LockInv, Writing, i
  <1>8. ListInv'
    BY <1>1, <1>2, <1>3 DEF NameInv, ListInv, ListShape
  <1>9. KeptInv'
    <2> SUFFICES ASSUME NEW p \in Request, NEW j \in Inbound, Wrote(p, j)', ~Renewed(F(p).config)'
                 PROVE  /\ j \in DOMAIN settings' => Has(settings'[j], F(p).config, p)
                        /\ \A q \in Request : Writing(q, j)' => Has(local'[q].read, F(p).config, p)
      BY DEF KeptInv, Has
    <2>1. /\ j \in DOMAIN settings => Has(settings[j], F(p).config, p)
          /\ \A q \in Request : Writing(q, j) => Has(local[q].read, F(p).config, p)
      BY <1>4 DEF NameInv, KeptInv
    <2>2. QED
      BY <1>2, <1>3, <1>5, <2>1
  <1>10. OnceInv'
    <2> SUFFICES ASSUME NEW p \in Request, NEW q \in Request, NEW j \in Inbound,
                        p # q, Creates(q), F(p).config = F(q).config, ~Renewed(F(p).config)', Wrote(p, j)'
                 PROVE  ~Wrote(q, j)' /\ ~Writing(q, j)'
      BY DEF OnceInv
    <2>1. Wrote(p, j) /\ ~Wrote(q, j) /\ ~Writing(q, j) /\ ~Renewed(F(p).config)
      BY <1>4 DEF NameInv, OnceInv
    <2>2. CASE q # r
      BY <1>4, <1>5, <2>1, <2>2
    <2>3. CASE q = r
      <3>1. SUFFICES ASSUME j = i
                     PROVE  FALSE
        BY <1>4, <1>5, <2>1, <2>3
      <3>2. Has(settings[i], F(p).config, p)
        BY <1>2, <2>1, <3>1 DEF NameInv, KeptInv
      <3>3. /\ local[r].phase = "create" /\ e = Entry(F(r).config, r, F(r).days)
        BY <1>1, <1>2, <2>3, Kinds DEF StageInv, e, Legs
      <3>4. ~Clash(e) /\ e.config = F(r).config /\ e.sub = r
        BY <1>2, <3>3 DEF Entry
      <3>5. PICK k \in DOMAIN settings[i] : settings[i][k].config = F(p).config /\ settings[i][k].sub = p
        BY <3>2 DEF Has
      <3>6. settings[i][k] \in Listed
        BY <1>2 DEF Listed, ToSet
      <3>7. QED
        BY <2>3, <3>4, <3>5, <3>6 DEF Clash
    <2>4. QED
      BY <2>2, <2>3
  <1>11. QED
    BY <1>7, <1>8, <1>9, <1>10

(* Sequences of entries, whatever their type.                              *)
LEMMA ShapeOfSeq ==
    ASSUME NEW S, NEW list \in Seq(S)
    PROVE  ListShape(list) /\ DOMAIN list = 1..Len(list) /\ Len(list) \in Nat
  <1>1. /\ Len(list) \in Nat /\ DOMAIN list = 1..Len(list)
        /\ list = [k \in 1..Len(list) |-> list[k]]
    BY LenProperties, Zenon
  <1>2. \A k \in 1..Len(list) : list[k] \in ToSet(list)
    BY <1>1 DEF ToSet
  <1>3. list \in [1..Len(list) -> ToSet(list)]
    BY <1>1, <1>2
  <1>4. QED
    BY <1>1, <1>3, SeqDef DEF ListShape

LEMMA AppendKeeps ==
    ASSUME NEW list, ListShape(list), NEW e
    PROVE  /\ ListShape(Append(list, e))
           /\ Has(Append(list, e), e.config, e.sub)
           /\ \A c, sub : Has(list, c, sub) => Has(Append(list, e), c, sub)
  <1> DEFINE S == ToSet(list) \cup {e}
             new == Append(list, e)
  <1>1. list \in Seq(S) /\ e \in S
    BY SeqMonotonic DEF ListShape
  <1> HIDE DEF S
  <1>2. /\ new \in Seq(S) /\ Len(new) = Len(list) + 1
        /\ \A k \in 1..Len(list) : new[k] = list[k]
        /\ new[Len(list) + 1] = e
    BY <1>1, AppendProperties
  <1> HIDE DEF new
  <1>3. /\ ListShape(new) /\ DOMAIN new = 1..(Len(list) + 1)
        /\ DOMAIN list = 1..Len(list) /\ Len(list) \in Nat
    BY <1>1, <1>2, ShapeOfSeq
  <1>4. Len(list) + 1 \in DOMAIN new /\ DOMAIN list \subseteq DOMAIN new
    BY <1>3
  <1>5. Has(new, e.config, e.sub) /\ \A c, sub : Has(list, c, sub) => Has(new, c, sub)
    BY <1>2, <1>3, <1>4 DEF Has
  <1>6. QED
    BY <1>3, <1>5 DEF new

(* The first entry of a name, if there is one.                             *)
First(list, c) == SelectInSeq(list, LAMBDA x : x.config = c)

LEMMA FirstNamed ==
    ASSUME NEW list, ListShape(list), NEW c
    PROVE  First(list, c) \notin DOMAIN list \/ list[First(list, c)].config = c
  <1> DEFINE I == {j \in 1..Len(list) : list[j].config = c}
  <1>1. First(list, c) = IF I # {} THEN Min(I) ELSE 0
    BY DEF First, SelectInSeq
  <1>2. DOMAIN list = 1..Len(list) /\ Len(list) \in Nat
    BY ShapeOfSeq DEF ListShape
  <1>3. I \subseteq Nat
    BY <1>2
  <1>4. ASSUME I # {}
        PROVE  Min(I) \in I
    <2> HIDE DEF I
    <2>1. PICK m \in I : \A j \in I : ~(<<j, m>> \in OpToRel(<, Nat))
      BY <1>3, <1>4, NatLessThanWellFounded, WFMin, Zenon
    <2>2. \A j \in I : m =< j
      <3>1. \A x, y \in Nat : x < y => <<x, y>> \in OpToRel(<, Nat)
        BY DEF OpToRel
      <3> SUFFICES ASSUME NEW j \in I
                   PROVE  m =< j
        OBVIOUS
      <3>2. j \in Nat /\ m \in Nat /\ ~(j < m)
        BY <1>3, <2>1, <3>1
      <3>3. QED
        BY <3>2
    <2>3. QED
      BY <2>1, <2>2 DEF Min
  <1>5. QED
    BY <1>1, <1>2, <1>4

LEMMA ReplaceKeeps ==
    ASSUME NEW list, ListShape(list), NEW e, NEW k, k \notin DOMAIN list \/ list[k].config = e.config
    PROVE  /\ ListShape(ReplaceAt(list, k, e))
           /\ \A c, sub : c # e.config /\ Has(list, c, sub) => Has(ReplaceAt(list, k, e), c, sub)
  <1> DEFINE S == ToSet(list) \cup {e}
             new == ReplaceAt(list, k, e)
  <1>1. list \in Seq(S) /\ e \in S
    BY SeqMonotonic DEF ListShape
  <1>2. DOMAIN list = 1..Len(list) /\ Len(list) \in Nat /\ list \in [DOMAIN list -> S]
    BY <1>1, ShapeOfSeq DEF ListShape, ToSet
  <1>3. new = [j \in DOMAIN list |-> IF j = k THEN e ELSE list[j]]
    BY <1>2 DEF ReplaceAt
  <1>4. new \in [1..Len(list) -> S]
    BY <1>1, <1>2, <1>3
  <1> HIDE DEF S, new
  <1>5. new \in Seq(S)
    BY <1>2, <1>4, SeqDef
  <1>6. \A c, sub : c # e.config /\ Has(list, c, sub) => Has(new, c, sub)
    BY <1>3 DEF Has
  <1>7. QED
    BY <1>5, <1>6, ShapeOfSeq DEF new

(* A leg is saved under its lock: it keeps every entry it has read but that*)
(* of the name it renews.                                                  *)
LEMMA WriteNames ==
    ASSUME OInv, NameInv, NEW r \in Request, WriteLeg(r), local'[r].todo # local[r].todo \/ ~UNCHANGED settings
    PROVE  LockInv' /\ ListInv' /\ KeptInv' /\ OnceInv'
  <1> DEFINE i == Head(local[r].todo)
             e == local[r].wire
             read == local[r].read
             list == IF local[r].phase = "update"
                     THEN ReplaceAt(read, SelectInSeq(read, LAMBDA x : x.config = e.config), e)
                     ELSE Append(read, e)
  <1>1. /\ StageInv(r) /\ LocalShape /\ pc[r] # "unasked" /\ pc'[r] # "unasked"
        /\ \A q \in Request \ {r} : pc'[q] = pc[q] /\ local'[q] = local[q]
        /\ \A step : Goto(r, step) => pc'[r] = step
    BY OthersAlone DEF NameInv, OInv, ShapeInv, PcShape, Goto, Advance
  <1>2. /\ pc[r] = "write"
        /\ settings' = [j \in DOMAIN settings \cup {i} |-> IF j = i THEN list ELSE settings[j]]
        /\ local'[r].todo = Tail(local[r].todo)
        /\ pc'[r] # "write"
    <2>1. pc[r] = "write" /\ After(r) # "write"
      <3>1. pc[r] = "write"
        BY DEF WriteLeg
      <3>2. QED
        BY <1>1, <3>1 DEF After, StageInv, Legs
    <2>2. ~(UNCHANGED clients /\ local' = [local EXCEPT ![r].read = <<>>])
      BY <1>1 DEF LocalShape, clients
    <2>3. /\ settings' = [j \in DOMAIN settings \cup {i} |-> IF j = i THEN list ELSE settings[j]]
          /\ local' = [local EXCEPT ![r].todo = Tail(local[r].todo), ![r].read = <<>>]
          /\ Goto(r, IF Tail(local[r].todo) = <<>> THEN After(r) ELSE "leg")
      BY <2>2, Zenon DEF WriteLeg, NextLeg
    <2>4. local'[r].todo = Tail(local[r].todo)
      BY <1>1, <2>3 DEF LocalShape
    <2>5. pc'[r] # "write"
      BY <1>1, <2>1, <2>3
    <2> HIDE DEF i, list
    <2>6. QED
      BY <2>1, <2>3, <2>4, <2>5
  <1>3. ListShape(read)
    BY <1>2 DEF NameInv, ListInv
  <1>4. ListShape(list)
    <2> DEFINE k == First(read, e.config)
    <2> HIDE DEF read, e
    <2>1. k \notin DOMAIN read \/ read[k].config = e.config
      BY <1>3, FirstNamed
    <2> HIDE DEF k
    <2>2. QED
      BY <1>3, <2>1, AppendKeeps, ReplaceKeeps DEF k, First
  <1>5. ASSUME NEW p \in Request, ~Renewed(F(p).config), Has(read, F(p).config, p)
        PROVE  Has(list, F(p).config, p)
    <2> DEFINE k == First(read, e.config)
    <2>1. local[r].phase = "update" => F(p).config # e.config
      BY <1>1, <1>2, <1>5 DEF StageInv, Renewed, Legs
    <2> HIDE DEF read, e
    <2>2. k \notin DOMAIN read \/ read[k].config = e.config
      BY <1>3, FirstNamed
    <2> HIDE DEF k
    <2>3. QED
      BY <1>3, <1>5, <2>1, <2>2, AppendKeeps, ReplaceKeeps DEF k, First
  <1>6. Creates(r) => Has(list, F(r).config, r)
    <2>1. Creates(r) => local[r].phase = "create" /\ e = Entry(F(r).config, r, F(r).days)
      BY <1>1, <1>2, Kinds DEF StageInv, Legs
    <2>2. Creates(r) => e.config = F(r).config /\ e.sub = r
      BY <2>1 DEF Entry
    <2> HIDE DEF read, e
    <2>3. QED
      BY <1>3, <2>1, <2>2, AppendKeeps
  <1> HIDE DEF e, read, list
  <1>7. ASSUME NEW p \in Request, NEW j \in Inbound, Wrote(p, j)'
        PROVE  Wrote(p, j) \/ (p = r /\ j = i)
    <2>1. CASE p # r
      BY <1>1, <1>7, <2>1 DEF Wrote
    <2>2. CASE p = r
      <3>1. Creates(r) /\ j \in ToSet(F(r).inbounds) /\ j \notin ToSet(Tail(local[r].todo))
        BY <1>2, <1>7, <2>2 DEF Wrote
      <3>2. local[r].todo \in Seq(Inbound) /\ local[r].todo # <<>>
        BY <1>1, <1>2, <3>1, Kinds DEF StageInv, Legs
      <3>3. j \in ToSet(local[r].todo) => j = i
        <4> DEFINE todo == local[r].todo
        <4>1. /\ Tail(todo) \in Seq(Inbound) /\ Len(Tail(todo)) = Len(todo) - 1
              /\ \A k \in 1..Len(Tail(todo)) : Tail(todo)[k] = todo[k + 1]
              /\ i = todo[1]
          BY <3>2, HeadTailProperties
        <4> HIDE DEF todo, i
        <4>2. /\ DOMAIN todo = 1..Len(todo) /\ Len(todo) \in Nat
              /\ DOMAIN Tail(todo) = 1..(Len(todo) - 1)
          BY <3>2, <4>1, LenProperties DEF todo
        <4>3. ASSUME NEW k \in DOMAIN todo, k # 1
              PROVE  todo[k] \in ToSet(Tail(todo))
          <5>1. k - 1 \in 1..(Len(todo) - 1) /\ k - 1 + 1 = k
            BY <4>2, <4>3
          <5>2. Tail(todo)[k - 1] = todo[k]
            BY <4>1, <5>1
          <5>3. QED
            BY <4>2, <5>1, <5>2 DEF ToSet
        <4>4. QED
          BY <3>1, <4>1, <4>3 DEF ToSet, todo
      <3>4. QED
        BY <1>2, <2>2, <3>1, <3>3 DEF Wrote, Legs
    <2>3. QED
      BY <2>1, <2>2
  <1>8. /\ Writing(r, i) /\ \A j : ~Writing(r, j)'
        /\ \A q \in Request \ {r} : ~Writing(q, i)
        /\ \A q \in Request \ {r}, j \in Inbound : Writing(q, j)' => Writing(q, j)
    BY <1>1, <1>2 DEF Writing, NameInv, LockInv, i
  <1> HIDE DEF i
  <1>9. /\ \A c : Renewed(c)' <=> Renewed(c)
        /\ \A j \in DOMAIN settings' : \/ j = i /\ settings'[j] = list
                                       \/ j # i /\ j \in DOMAIN settings /\ settings'[j] = settings[j]
    BY <1>1, <1>2, RenewedStays
  <1>10. LockInv'
    BY <1>1, <1>2 DEF NameInv, LockInv
  <1>11. ListInv'
    BY <1>1, <1>2, <1>4, <1>9 DEF NameInv, ListInv, ListShape
  <1>12. KeptInv'
    <2> SUFFICES ASSUME NEW p \in Request, NEW j \in Inbound, Wrote(p, j)', ~Renewed(F(p).config)'
                 PROVE  /\ j \in DOMAIN settings' => Has(settings'[j], F(p).config, p)
                        /\ \A q \in Request : Writing(q, j)' => Has(local'[q].read, F(p).config, p)
      BY DEF KeptInv, Has
    <2>1. ~Renewed(F(p).config)
      BY <1>9
    <2>2. CASE Wrote(p, j)
      <3>1. /\ j \in DOMAIN settings => Has(settings[j], F(p).config, p)
            /\ \A q \in Request : Writing(q, j) => Has(local[q].read, F(p).config, p)
        BY <2>1, <2>2 DEF NameInv, KeptInv
      <3>2. j = i => Has(list, F(p).config, p)
        BY <1>5, <1>8, <2>1, <3>1 DEF read
      <3>3. QED
        BY <1>1, <1>8, <1>9, <3>1, <3>2
    <2>3. CASE ~Wrote(p, j)
      <3>1. p = r /\ j = i /\ Creates(r)
        BY <1>7, <2>3 DEF Wrote
      <3>2. QED
        BY <1>6, <1>8, <1>9, <3>1
    <2>4. QED
      BY <2>2, <2>3
  <1>13. OnceInv'
    <2> SUFFICES ASSUME NEW p \in Request, NEW q \in Request, NEW j \in Inbound,
                        p # q, Creates(q), F(p).config = F(q).config, ~Renewed(F(p).config)', Wrote(p, j)'
                 PROVE  ~Wrote(q, j)' /\ ~Writing(q, j)'
      BY DEF OnceInv
    <2>1. ~Renewed(F(p).config)
      BY <1>9
    <2>2. CASE Wrote(p, j)
      <3>1. ~Wrote(q, j) /\ ~Writing(q, j)
        BY <2>1, <2>2 DEF NameInv, OnceInv
      <3>2. QED
        BY <1>7, <1>8, <3>1
    <2>3. CASE ~Wrote(p, j)
      <3>1. p = r /\ j = i /\ Creates(r)
        BY <1>7, <2>3 DEF Wrote
      <3>2. ~Wrote(q, j)
        BY <1>8, <2>1, <3>1 DEF NameInv, OnceInv
      <3>3. QED
        BY <1>7, <1>8, <3>1, <3>2
    <2>4. QED
      BY <2>2, <2>3
  <1>14. QED
    BY <1>10, <1>11, <1>12, <1>13

LEMMA InitNames == Init => NameInv
  <1> SUFFICES ASSUME Init
               PROVE  NameInv
    OBVIOUS
  <1>1. \A q \in Request : pc[q] \in {"new", "unasked"}
    BY DEF Init
  <1>2. DOMAIN settings = Inbound
    BY DEF Init
  <1>3. \A i \in Inbound : ListShape(settings[i])
    BY InitListing DEF ListShape
  <1>4. \A r, i : ~Wrote(r, i) \/ r \notin Request
    BY <1>1 DEF Wrote, Placed, Legs
  <1>5. \A r \in Request : StageInv(r)
    BY <1>1 DEF StageInv, Placed, Legs
  <1>6. QED
    BY <1>1, <1>2, <1>3, <1>4, <1>5 DEF NameInv, LockInv, ListInv, KeptInv, OnceInv

LEMMA NameSteps ==
    ASSUME OInv, NameInv, [Next]_vars
    PROVE  NameInv'
  <1>1. ASSUME NEW r \in Request, Check(r) \/ Advance(r)
        PROVE  NameInv'
    <2>1. StageInv(r) /\ \A q \in Request \ {r} : pc'[q] = pc[q] /\ local'[q] = local[q]
      BY <1>1, OthersAlone DEF NameInv
    <2>2. \A q \in Request : StageInv(q)'
      <3>1. StageInv(r)'
        BY <1>1, <2>1, StageSteps
      <3>2. \A q \in Request \ {r} : StageInv(q)'
        BY <2>1 DEF NameInv, StageInv
      <3>3. QED
        BY <3>1, <3>2
    <2>3. LockInv' /\ ListInv' /\ KeptInv' /\ OnceInv'
      <3>1. CASE ReadLeg(r) /\ pc'[r] = "write"
        BY <3>1, LockNames
      <3>2. CASE WriteLeg(r) /\ (local'[r].todo # local[r].todo \/ ~UNCHANGED settings)
        BY <3>2, WriteNames
      <3>3. CASE UNCHANGED settings /\ pc'[r] # "write" /\ (WriteLeg(r) => local'[r].todo = local[r].todo)
        BY <1>1, <3>3, PlainSteps
      <3>4. ~WriteLeg(r) => UNCHANGED settings
        BY <1>1 DEF Advance, Check, Charge, CreateOrder, CheckName, LookUp, Unlink, ReadLeg, Stamp, ReadPlan, Touch, Reset,
                    Refund, Cancel, Complete, CostOfGoods, ReadLinks, PayCommission, clients
      <3>5. ~ReadLeg(r) => pc'[r] # "write"
        <4>1. PcShape /\ \A step : Goto(r, step) => pc'[r] = step
          BY DEF OInv, ShapeInv, PcShape, Goto
        <4>2. CASE WriteLeg(r)
          <5>1. local[r].phase \in {"create", "update", "attach"}
            BY <2>1, <4>2 DEF WriteLeg, StageInv, Legs
          <5>2. PICK step \in {"leg", "stamp", "touch", "commission", "refund"} : Goto(r, step)
            BY <4>2, <5>1 DEF WriteLeg, NextLeg, After, Abort
          <5>3. QED
            BY <4>1, <5>2
        <4>3. CASE Check(r) \/ Charge(r) \/ CreateOrder(r) \/ CheckName(r)
          <5>1. PICK step \in {"charge", "refused", "create", "name", "reset", "refund", "readplan",
                                "complete", "leg"} : Goto(r, step)
            BY <4>3 DEF Check, Charge, CreateOrder, CheckName
          <5>2. QED
            BY <4>1, <5>1
        <4>4. CASE \/ Stamp(r) \/ ReadPlan(r) \/ Touch(r) \/ Reset(r) \/ Refund(r) \/ Cancel(r)
                   \/ Complete(r) \/ CostOfGoods(r) \/ ReadLinks(r) \/ PayCommission(r)
          <5>1. PICK step \in {"complete", "cost", "refund", "touch", "leg", "failed", "cancel", "links",
                                "commission", "done"} : Goto(r, step)
            BY <4>4 DEF Stamp, ReadPlan, Touch, Reset, Refund, Cancel, Complete, CostOfGoods, ReadLinks,
                        PayCommission
          <5>2. QED
            BY <4>1, <5>1
        <4>5. CASE LookUp(r) \/ Unlink(r)
          <5>1. local[r].phase \in {"create", "update", "attach"}
            BY <2>1, <4>5 DEF LookUp, Unlink, StageInv, Legs
          <5>2. PICK step \in {"leg", "unlink", "lock", "stamp", "touch", "commission", "refund"} : Goto(r, step)
            BY <4>5, <5>1 DEF LookUp, Unlink, NextLeg, After, Abort
          <5>3. QED
            BY <4>1, <5>2
        <4>6. QED
          BY <1>1, <4>2, <4>3, <4>4, <4>5 DEF Advance
      <3>6. QED
        BY <3>1, <3>2, <3>3, <3>4, <3>5
    <2>4. QED
      BY <2>2, <2>3 DEF NameInv
  <1>2. CASE UNCHANGED vars \/ Crash \/ \E i \in Inbound : DetachInbound(i) \/ DeleteInbound(i)
    <2>1. UNCHANGED local
      BY <1>2 DEF vars, Crash, DetachInbound, DeleteInbound
    <2>2. \A q \in Request : pc'[q] = pc[q] \/ (pc'[q] = "dead" /\ pc[q] # "unasked")
      BY <1>2 DEF OInv, ShapeInv, PcShape, DetachInbound, DeleteInbound, Crash, Running, Ended, vars
    <2>3. \A i \in DOMAIN settings' : i \in DOMAIN settings /\ settings'[i] = settings[i]
      BY <1>2 DEF DetachInbound, DeleteInbound, Crash, vars, clients
    <2>4. \A q \in Request, i \in Inbound : Wrote(q, i)' => Wrote(q, i)
      BY <2>1, <2>2 DEF Wrote, Placed, Legs
    <2>5. \A q \in Request : StageInv(q)'
      BY <2>1, <2>2 DEF NameInv, StageInv, Placed, Legs
    <2>6. QED
      BY <2>1, <2>2, <2>3, <2>4, <2>5, PlainNames DEF NameInv
  <1>3. QED
    BY <1>1, <1>2 DEF Next, Advance, LegStep, Looks, AllEnded

(* One name is sold once on an inbound (client_crud.go:82-91,              *)
(* client_inbound_apply.go:176-204): of the requests that create a config  *)
(* of one name and share an inbound, one at most succeeds, whichever       *)
(* inbounds each goes over first, whatever is deleted and written back     *)
(* between their legs, as long as nobody renews that name beside them.     *)
THEOREM OnceSold == Spec => []NameSoldOnce
  <1>1. NameInv => NameSoldOnce
    <2> SUFFICES ASSUME NameInv, NEW r \in Request, NEW q \in Request, r # q, Creates(r), Creates(q),
                        F(r).config = F(q).config, ~Renewed(F(r).config),
                        ToSet(F(r).inbounds) \cap ToSet(F(q).inbounds) # {},
                        pc[r] = "done", pc[q] = "done"
                 PROVE  FALSE
      BY DEF NameSoldOnce
    <2>1. PICK i : i \in ToSet(F(r).inbounds) /\ i \in ToSet(F(q).inbounds)
      OBVIOUS
    <2>2. i \in Inbound
      <3>1. F(r).inbounds \in Seq(Inbound)
        BY OrdersAssumption DEF F
      <3>2. PICK k \in DOMAIN F(r).inbounds : F(r).inbounds[k] = i
        BY <2>1 DEF ToSet
      <3>3. QED
        BY <3>1, <3>2, LenProperties, ElementOfSeq
    <2>3. ToSet(<<>>) = {}
      BY DEF ToSet
    <2>4. Wrote(r, i) /\ Wrote(q, i)
      BY <2>1, <2>3 DEF NameInv, StageInv, Wrote, Placed
    <2>5. QED
      BY <2>2, <2>4 DEF NameInv, OnceInv
  <1>2. OInv /\ NameInv /\ [Next]_vars => NameInv'
    BY NameSteps
  <1>3. QED
    BY <1>1, <1>2, InitNames, OrdersInvariance, PTL DEF Spec
=============================================================================
