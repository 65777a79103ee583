---------------------------- MODULE PaymentsProofs ----------------------------
(***************************************************************************)
(* Proofs about Payments for every set of payments at either gateway, every*)
(* number of callbacks and all rates, with all faults.  PInv is the        *)
(* inductive invariant behind CreditedOnce: the callback that flipped a    *)
(* payment to paid is the only one on its way to credit it, and a leg that *)
(* has its row has nobody on the way to it.                                *)
(***************************************************************************)
EXTENDS Payments, SequenceTheorems, FiniteSetTheorems, TLAPS

Rows(p, leg) == RowsOf(<<p, leg>>, User[p])

(* Until a payment's handler has got so far, there is neither row nor money*)
RequestInv ==
    \A p \in Payment :
        /\ request[p] = "new" => status[p] = "none" /\ session[p] = "none"
        /\ request[p] = "record" => Gateway[p] = "zarinpal" /\ status[p] = "none"
        /\ request[p] = "invoice" => Gateway[p] = "plisio" /\ session[p] = "none"

(* A paid payment, and a callback past its checks, have the gateway's word.*)
CapturedInv ==
    /\ \A p \in Payment : status[p] = "paid" => session[p] = "captured"
    /\ \A c \in Callback :
          pc[c] \in {"mark", "deposit", "bonus"} => session[pay(c)] = "captured"

(* Only the callback that made the payment paid is on its way to credit it.*)
Crediting == {"deposit", "bonus"}
WinnerInv ==
    /\ \A c \in Callback : pc[c] \in Crediting => status[pay(c)] = "paid"
    /\ \A c, d \in Callback :
          pc[c] \in Crediting /\ pc[d] \in Crediting /\ pay(c) = pay(d) => c = d

(* A leg has one row, and nobody on the way to it once it has.             *)
RowsInv ==
    \A p \in Payment :
        /\ \A leg \in {"deposit", "bonus"} : \A i, j \in Rows(p, leg) : i = j
        /\ Rows(p, "deposit") # {} => status[p] = "paid" /\ ~Serving(p, {"deposit"})
        /\ Rows(p, "bonus") # {} => status[p] = "paid" /\ ~Serving(p, Crediting)

PInv == TypeOK /\ RequestInv /\ CapturedInv /\ WinnerInv /\ RowsInv

-----------------------------------------------------------------------------
LEMMA CallbackFacts ==
    ASSUME NEW c \in Callback
    PROVE  /\ pay(c) \in Payment
           /\ User[pay(c)] \in Account
           /\ Amount[pay(c)] \in Nat /\ Bonus[pay(c)] \in Nat
           /\ \A leg \in {"deposit", "bonus"} : <<pay(c), leg>> \in Op
  <1>1. pay(c) \in Payment
    BY DEF Callback, pay
  <1>2. QED
    BY <1>1, PaymentsAssumption

(* What one credit does to the rows.                                       *)
LEMMA TransferRows ==
    ASSUME BooksTypeOK, NEW o \in Op, NEW u \in Account, NEW n \in Int, NEW d,
           DOMAIN d = {u}, d[u] = n, Transfer(o, d, FALSE)
    PROVE  /\ BooksTypeOK'
           /\ \A q \in Op, a \in Account :
                 q # o \/ a # u => RowsOf(q, a)' = RowsOf(q, a)
           /\ RowsOf(o, u) = {} => \A i, j \in RowsOf(o, u)' : i = j
           /\ RowsOf(o, u)' # {}
  <1> DEFINE r == [before |-> balance[u], after |-> balance[u] + n, op |-> o]
  <1>1. /\ balance' = [a \in Account |-> IF a \in {u} THEN balance[a] + n ELSE balance[a]]
        /\ ledger' = [a \in Account |-> IF a \in {u}
                                        THEN Append(ledger[a], [before |-> balance[a],
                                               after |-> balance[a] + n, op |-> o])
                                        ELSE ledger[a]]
    BY DEF Transfer
  <1>2. r \in Row /\ ledger[u] \in Seq(Row)
    <2>1. balance[u] \in Int /\ balance[u] + n \in Int /\ ledger[u] \in Seq(Row)
      BY DEF BooksTypeOK
    <2>2. QED
      BY <2>1 DEF Row
  <1>3. ledger'[u] = Append(ledger[u], r) /\ \A a \in Account : a # u => ledger'[a] = ledger[a]
    BY <1>1
  <1>. PICK m \in Nat : m = Len(ledger[u])
    BY <1>2, LenProperties
  <1>4. /\ ledger'[u] \in Seq(Row)
        /\ Len(ledger'[u]) = m + 1
        /\ \A i \in 1..m : ledger'[u][i] = ledger[u][i]
        /\ ledger'[u][m + 1] = r
    BY <1>2, <1>3, AppendProperties
  <1>5. BooksTypeOK'
    <2>1. \A a \in Account : ledger'[a] \in Seq(Row)
      BY <1>3, <1>4 DEF BooksTypeOK
    <2>2. QED
      BY <1>1, <2>1 DEF BooksTypeOK
  <1>6. ASSUME NEW q \in Op, NEW a \in Account, q # o \/ a # u
        PROVE  RowsOf(q, a)' = RowsOf(q, a)
    <2>1. CASE a # u
      BY <1>3, <2>1 DEF RowsOf
    <2>2. CASE a = u
      <3>1. r.op # q
        BY <1>6, <2>2
      <3>2. \A i \in 1..(m + 1) : ledger'[u][i].op = q <=> i \in 1..m /\ ledger[u][i].op = q
        BY <3>1, <1>4
      <3>3. QED
        BY <2>2, <3>2, <1>4 DEF RowsOf
    <2>3. QED
      BY <2>1, <2>2
  <1>7. ASSUME RowsOf(o, u) = {}
        PROVE  \A i, j \in RowsOf(o, u)' : i = j
    <2>1. \A i \in 1..m : ledger[u][i].op # o
      BY <1>7 DEF RowsOf
    <2>2. RowsOf(o, u)' \subseteq {m + 1}
      BY <2>1, <1>4 DEF RowsOf
    <2>3. QED
      BY <2>2
  <1>8. m + 1 \in RowsOf(o, u)'
    BY <1>4 DEF RowsOf
  <1>9. QED
    BY <1>5, <1>6, <1>7, <1>8

(* A step that leaves the books alone, puts nobody on the way to credit and*)
(* makes no paid payment unpaid keeps the rows in order.                   *)
LEMMA RowsStay ==
    ASSUME RowsInv, UNCHANGED books,
           \A p \in Payment : status[p] = "paid" => status'[p] = "paid",
           \A c \in Callback : pc'[c] \in Crediting => pc'[c] = pc[c]
    PROVE  RowsInv'
  <1>1. \A p \in Payment, leg \in Crediting : Rows(p, leg)' = Rows(p, leg)
    BY DEF Rows, RowsOf, books
  <1>2. \A p \in Payment : /\ Serving(p, {"deposit"})' => Serving(p, {"deposit"})
                           /\ Serving(p, Crediting)' => Serving(p, Crediting)
    BY DEF Serving, Crediting
  <1>3. QED
    BY <1>1, <1>2 DEF RowsInv, Crediting

-----------------------------------------------------------------------------
LEMMA InitPayments == Init => PInv
  <1> SUFFICES ASSUME Init
               PROVE  PInv
    OBVIOUS
  <1>1. TypeOK
    <2>1. BooksTypeOK
      BY BooksAssumption, EmptySeq DEF Init, BooksInit, BooksTypeOK
    <2>2. QED
      BY <2>1 DEF Init, TypeOK
  <1>2. RequestInv /\ CapturedInv /\ WinnerInv
    <2>1. \A c \in Callback : pay(c) \in Payment
      BY CallbackFacts
    <2>2. QED
      BY <2>1 DEF Init, RequestInv, CapturedInv, WinnerInv, Crediting
  <1>3. \A p \in Payment, leg \in {"deposit", "bonus"} : Rows(p, leg) = {}
    <2> SUFFICES ASSUME NEW p \in Payment, NEW leg \in {"deposit", "bonus"}
                 PROVE  Rows(p, leg) = {}
      OBVIOUS
    <2>1. ledger[User[p]] = <<>>
      BY PaymentsAssumption DEF Init, BooksInit
    <2>2. Len(ledger[User[p]]) = 0
      BY <2>1, EmptySeq
    <2>3. 1..Len(ledger[User[p]]) = {}
      BY <2>2
    <2>4. QED
      BY <2>3 DEF Rows, RowsOf
  <1>4. RowsInv
    BY <1>3 DEF RowsInv
  <1>5. QED
    BY <1>1, <1>2, <1>4 DEF PInv

(* The handlers that open a payment.                                       *)
LEMMA OpenKeeps ==
    ASSUME PInv, NEW p \in Payment, Open(p)
    PROVE  PInv'
  <1> USE DEF PInv
  <1>0. /\ UNCHANGED <<books, lost, rate, faults, pc, reply, acked>>
        /\ \A q \in Payment : q # p => /\ status'[q] = status[q]
                                       /\ session'[q] = session[q]
                                       /\ request'[q] = request[q]
        /\ status \in [Payment -> {"none", "pending", "paid", "failed"}]
        /\ session \in [Payment -> {"none", "open", "captured", "cancelled"}]
        /\ request \in [Payment -> {"new", "record", "invoice", "give up", "ready", "failed"}]
    <2>1. /\ status \in [Payment -> {"none", "pending", "paid", "failed"}]
          /\ session \in [Payment -> {"none", "open", "captured", "cancelled"}]
          /\ request \in [Payment -> {"new", "record", "invoice", "give up", "ready", "failed"}]
      BY DEF TypeOK
    <2>2. CASE ZarinpalOpen(p) \/ ZarinpalRecord(p)
      BY <2>1, <2>2 DEF ZarinpalOpen, ZarinpalRecord, rows, setting, callbacks
    <2>3. CASE PlisioRecord(p)
      BY <2>1, <2>3 DEF PlisioRecord, setting, callbacks
    <2>4. CASE PlisioInvoice(p)
      BY <2>1, <2>4 DEF PlisioInvoice, rows, setting, callbacks
    <2>5. CASE PlisioGiveUp(p)
      BY <2>1, <2>5 DEF PlisioGiveUp, setting, callbacks, Transition
    <2>6. QED
      BY <2>2, <2>3, <2>4, <2>5 DEF Open
  <1>1. TypeOK'
    <2>1. Quotes(p) \subseteq Nat
      BY PaymentsAssumption DEF Quotes
    <2>2. UNCHANGED fiat \/ \E n \in Quotes(p) : fiat' = [fiat EXCEPT ![p] = n]
      BY DEF Open, ZarinpalOpen, ZarinpalRecord, PlisioRecord, PlisioInvoice, PlisioGiveUp
    <2>3. fiat' \in [Payment -> Nat]
      BY <2>1, <2>2 DEF TypeOK
    <2>4. /\ status' \in [Payment -> {"none", "pending", "paid", "failed"}]
          /\ session' \in [Payment -> {"none", "open", "captured", "cancelled"}]
          /\ request' \in [Payment -> {"new", "record", "invoice", "give up", "ready", "failed"}]
      BY <1>0 DEF Open, ZarinpalOpen, ZarinpalRecord, PlisioRecord, PlisioInvoice,
                  PlisioGiveUp, Transition, rows
    <2>5. QED
      BY <1>0, <2>3, <2>4 DEF TypeOK, BooksTypeOK, books
  <1>2. /\ RequestInv'
        /\ status'[p] = "paid" <=> status[p] = "paid"
        /\ session'[p] = "captured" <=> session[p] = "captured"
    <2> DEFINE opened == /\ request'[p] # "new"
                         /\ request'[p] = "record" => Gateway[p] = "zarinpal" /\ status'[p] = "none"
                         /\ request'[p] = "invoice" => Gateway[p] = "plisio" /\ session'[p] = "none"
                         /\ status'[p] = "paid" <=> status[p] = "paid"
                         /\ session'[p] = "captured" <=> session[p] = "captured"
    <2>1. /\ request[p] = "new" => status[p] = "none" /\ session[p] = "none"
          /\ request[p] = "record" => status[p] = "none"
          /\ request[p] = "invoice" => session[p] = "none"
      BY DEF RequestInv
    <2>2. ASSUME ZarinpalOpen(p)
          PROVE  opened
      BY <1>0, <2>1, <2>2 DEF ZarinpalOpen, rows
    <2>3. ASSUME ZarinpalRecord(p)
          PROVE  opened
      BY <1>0, <2>1, <2>3 DEF ZarinpalRecord
    <2>4. ASSUME PlisioRecord(p)
          PROVE  opened
      BY <1>0, <2>1, <2>4 DEF PlisioRecord
    <2>5. ASSUME PlisioInvoice(p)
          PROVE  opened
      BY <1>0, <2>1, <2>5 DEF PlisioInvoice, rows
    <2>6. ASSUME PlisioGiveUp(p)
          PROVE  opened
      BY <1>0, <2>6 DEF PlisioGiveUp, Transition
    <2>7. opened
      BY <2>2, <2>3, <2>4, <2>5, <2>6 DEF Open
    <2>8. QED
      BY <1>0, <2>7 DEF RequestInv
  <1>3. \A q \in Payment : /\ status'[q] = "paid" <=> status[q] = "paid"
                           /\ session'[q] = "captured" <=> session[q] = "captured"
    BY <1>0, <1>2
  <1>4. CapturedInv' /\ WinnerInv'
    BY <1>0, <1>3, CallbackFacts DEF CapturedInv, WinnerInv
  <1>5. RowsInv'
    BY <1>0, <1>3, RowsStay
  <1>6. QED
    BY <1>1, <1>2, <1>4, <1>5

(* The gateway's pages and the administrator.                              *)
LEMMA OutsideKeeps ==
    ASSUME PInv,
           \/ \E p \in Payment : BuyerPays(p) \/ BuyerCancels(p)
           \/ \E n \in Rates : SetRate(n)
    PROVE  PInv'
  <1> USE DEF PInv
  <1>1. UNCHANGED <<books, status, lost, request, fiat, faults, pc, reply, acked>>
    BY DEF BuyerPays, BuyerCancels, SetRate, rows, setting, callbacks
  <1>2. /\ session' \in [Payment -> {"none", "open", "captured", "cancelled"}]
        /\ rate' \in Rates
        /\ \A q \in Payment : /\ session[q] = "captured" => session'[q] = "captured"
                              /\ session[q] = "none" => session'[q] = "none"
    <2>1. session \in [Payment -> {"none", "open", "captured", "cancelled"}] /\ rate \in Rates
      BY DEF TypeOK
    <2>2. CASE \E p \in Payment : BuyerPays(p) \/ BuyerCancels(p)
      BY <2>1, <2>2 DEF BuyerPays, BuyerCancels, setting
    <2>3. CASE \E n \in Rates : SetRate(n)
      BY <2>1, <2>3 DEF SetRate
    <2>4. QED
      BY <2>2, <2>3
  <1>3. TypeOK'
    BY <1>1, <1>2 DEF TypeOK, BooksTypeOK, books
  <1>4. RequestInv' /\ CapturedInv' /\ WinnerInv'
    BY <1>1, <1>2, CallbackFacts DEF RequestInv, CapturedInv, WinnerInv
  <1>5. RowsInv'
    BY <1>1, RowsStay
  <1>6. QED
    BY <1>3, <1>4, <1>5

(* A callback's steps up to the one that makes the payment paid.           *)
LEMMA CallbackKeeps ==
    ASSUME PInv, NEW c \in Callback,
           ZarinpalReturns(c) \/ PlisioCalls(c) \/ Verify(c) \/ MarkFailed(c)
    PROVE  PInv'
  <1> USE DEF PInv
  <1>1. /\ UNCHANGED <<books, session, request, fiat, rate, faults>>
        /\ \A d \in Callback : d # c => pc'[d] = pc[d]
        /\ pc'[c] \in {"verify", "failing", "mark", "done"}
        /\ pc'[c] = "mark" => session[pay(c)] = "captured"
        /\ pc' \in [Callback -> {"idle", "verify", "failing", "mark", "deposit", "bonus", "done"}]
        /\ reply' \in [Callback -> {"none", "ok", "failed"}]
        /\ acked' \subseteq Payment
        /\ lost' \in [Payment -> {"no", "credit", "rate", "rounding"}]
    <2>1. /\ pc \in [Callback -> {"idle", "verify", "failing", "mark", "deposit", "bonus", "done"}]
          /\ reply \in [Callback -> {"none", "ok", "failed"}]
          /\ acked \subseteq Payment /\ pay(c) \in Payment
          /\ lost \in [Payment -> {"no", "credit", "rate", "rounding"}]
          /\ pc[c] = "mark" => session[pay(c)] = "captured"
      BY CallbackFacts DEF TypeOK, CapturedInv
    <2>2. /\ UNCHANGED <<books, session, request, fiat, rate, faults>>
          /\ acked' = acked \/ acked' = acked \cup {pay(c)}
          /\ reply' = reply \/ \E what \in {"ok", "failed"} : reply' = [reply EXCEPT ![c] = what]
          /\ \E step \in {"verify", "failing", "mark", "done"} :
                /\ pc' = [pc EXCEPT ![c] = step]
                /\ step = "mark" => session[pay(c)] = "captured"
      <3>1. CASE ZarinpalReturns(c)
        BY <3>1 DEF ZarinpalReturns, Goto, Answer, rows, outside, setting
      <3>2. CASE PlisioCalls(c)
        BY <3>2 DEF PlisioCalls, Goto, Answer, rows, outside, setting
      <3>3. CASE Verify(c)
        BY <2>1, <3>3 DEF Verify, Goto, rows, outside, setting
      <3>4. CASE MarkFailed(c)
        BY <3>4 DEF MarkFailed, Goto, Answer, outside, setting
      <3>5. QED
        BY <3>1, <3>2, <3>3, <3>4
    <2>3. PICK step \in {"verify", "failing", "mark", "done"} :
             /\ pc' = [pc EXCEPT ![c] = step]
             /\ step = "mark" => session[pay(c)] = "captured"
      BY <2>2
    <2>4. /\ reply' \in [Callback -> {"none", "ok", "failed"}]
          /\ acked' \subseteq Payment
      BY <2>1, <2>2
    <2>6. lost' \in [Payment -> {"no", "credit", "rate", "rounding"}]
      BY <2>1 DEF ZarinpalReturns, PlisioCalls, Verify, MarkFailed, rows
    <2>5. /\ \A d \in Callback : d # c => pc'[d] = pc[d]
          /\ pc'[c] = step
          /\ pc' \in [Callback -> {"idle", "verify", "failing", "mark", "deposit", "bonus", "done"}]
      BY <2>1, <2>3
    <2>7. QED
      BY <2>2, <2>3, <2>4, <2>5, <2>6
  <1>2. /\ status' \in [Payment -> {"none", "pending", "paid", "failed"}]
        /\ \A q \in Payment : /\ status'[q] = "paid" <=> status[q] = "paid"
                              /\ status[q] = "none" => status'[q] = "none"
    BY DEF ZarinpalReturns, PlisioCalls, Verify, MarkFailed, rows, Transition, TypeOK
  <1>3. TypeOK'
    BY <1>1, <1>2 DEF TypeOK, BooksTypeOK, books
  <1>4. RequestInv'
    BY <1>1, <1>2 DEF RequestInv
  <1>5. CapturedInv' /\ WinnerInv'
    <2>1. pc'[c] \notin Crediting
      BY <1>1 DEF Crediting
    <2>2. WinnerInv'
      BY <1>1, <1>2, <2>1, CallbackFacts DEF WinnerInv
    <2>3. CapturedInv'
      BY <1>1, <1>2, <2>1, CallbackFacts DEF CapturedInv, Crediting
    <2>4. QED
      BY <2>2, <2>3
  <1>6. RowsInv'
    BY <1>1, <1>2, RowsStay DEF Crediting
  <1>7. QED
    BY <1>3, <1>4, <1>5, <1>6

(* UPDATE ... WHERE status = 'pending' lets one callback through.          *)
LEMMA MarkPaidKeeps ==
    ASSUME PInv, NEW c \in Callback, MarkPaid(c)
    PROVE  PInv'
  <1> USE DEF PInv
  <1>0. /\ pc \in [Callback -> {"idle", "verify", "failing", "mark", "deposit", "bonus", "done"}]
        /\ status \in [Payment -> {"none", "pending", "paid", "failed"}]
    BY DEF TypeOK
  <1>1. /\ UNCHANGED <<books, lost, session, request, fiat, rate, faults>>
        /\ \A d \in Callback : d # c => pc'[d] = pc[d]
        /\ pc[c] = "mark" /\ session[pay(c)] = "captured" /\ pay(c) \in Payment
        /\ pc' \in [Callback -> {"idle", "verify", "failing", "mark", "deposit", "bonus", "done"}]
        /\ reply' \in [Callback -> {"none", "ok", "failed"}]
        /\ acked' \subseteq Payment
    <2>1. /\ reply \in [Callback -> {"none", "ok", "failed"}] /\ acked \subseteq Payment
          /\ pay(c) \in Payment /\ (pc[c] = "mark" => session[pay(c)] = "captured")
      BY CallbackFacts DEF TypeOK, CapturedInv
    <2>2. /\ UNCHANGED <<books, lost, session, request, fiat, rate, faults>> /\ pc[c] = "mark"
          /\ acked' = acked \/ acked' = acked \cup {pay(c)}
          /\ reply' = reply \/ \E what \in {"ok", "failed"} : reply' = [reply EXCEPT ![c] = what]
          /\ \E step \in {"deposit", "done"} : pc' = [pc EXCEPT ![c] = step]
      BY DEF MarkPaid, Finish, Goto, Answer, outside, setting
    <2>3. /\ reply' \in [Callback -> {"none", "ok", "failed"}]
          /\ acked' \subseteq Payment
      BY <2>1, <2>2
    <2>4. PICK step \in {"deposit", "done"} : pc' = [pc EXCEPT ![c] = step]
      BY <2>2
    <2>5. /\ \A d \in Callback : d # c => pc'[d] = pc[d]
          /\ pc' \in [Callback -> {"idle", "verify", "failing", "mark", "deposit", "bonus", "done"}]
      BY <1>0, <2>4
    <2>6. QED
      BY <2>1, <2>2, <2>3, <2>5
  <1>2. CASE pc'[c] = "deposit"
    <2>1. status[pay(c)] = "pending" /\ status' = [status EXCEPT ![pay(c)] = "paid"]
      <3>1. ~Goto(c, "done")
        BY <1>0, <1>2 DEF Goto
      <3>2. Wins(c) /\ Transition(pay(c), "paid")
        BY <3>1 DEF MarkPaid, Finish, Answer
      <3>3. QED
        BY <3>2 DEF Wins, Transition
    <2>2. TypeOK' /\ RequestInv' /\ CapturedInv'
      <3>1. status' \in [Payment -> {"none", "pending", "paid", "failed"}]
        BY <1>0, <2>1
      <3>2. TypeOK'
        BY <1>1, <3>1 DEF TypeOK, BooksTypeOK, books
      <3>3. \A q \in Payment : status[q] = "none" => status'[q] = "none"
        BY <1>0, <1>1, <2>1
      <3>4. RequestInv'
        BY <1>1, <3>3 DEF RequestInv
      <3>5. CapturedInv'
        <4>1. \A q \in Payment : status'[q] = "paid" => status[q] = "paid" \/ q = pay(c)
          BY <1>0, <1>1, <2>1
        <4>2. ASSUME NEW d \in Callback, pc'[d] \in {"mark", "deposit", "bonus"}
              PROVE  session'[pay(d)] = "captured"
          BY <1>1, <4>2 DEF CapturedInv
        <4>3. QED
          BY <1>1, <4>1, <4>2 DEF CapturedInv
      <3>6. QED
        BY <3>2, <3>4, <3>5
    <2>3. \A d \in Callback : pc[d] \in Crediting => pay(d) # pay(c)
      BY <2>1 DEF WinnerInv
    <2>4. WinnerInv'
      <3>1. \A q \in Payment : status'[q] = "paid" <=> status[q] = "paid" \/ q = pay(c)
        BY <1>0, <1>1, <2>1
      <3>2. QED
        BY <1>1, <1>2, <2>3, <3>1, CallbackFacts DEF WinnerInv
    <2>5. \A p \in Payment, leg \in Crediting : Rows(p, leg)' = Rows(p, leg)
      BY <1>1 DEF Rows, RowsOf, books
    <2>6. Rows(pay(c), "deposit") = {} /\ Rows(pay(c), "bonus") = {}
      BY <1>1, <2>1 DEF RowsInv
    <2>7. \A p \in Payment : p # pay(c) =>
             /\ Serving(p, {"deposit"})' => Serving(p, {"deposit"})
             /\ Serving(p, Crediting)' => Serving(p, Crediting)
      BY <1>1 DEF Serving
    <2>8. RowsInv'
      <3>1. \A q \in Payment : status[q] = "paid" => status'[q] = "paid"
        BY <1>0, <1>1, <2>1
      <3>2. ASSUME NEW q \in Payment
            PROVE  /\ \A leg \in {"deposit", "bonus"} : \A i, j \in Rows(q, leg)' : i = j
                   /\ Rows(q, "deposit")' # {} => status'[q] = "paid" /\ ~Serving(q, {"deposit"})'
                   /\ Rows(q, "bonus")' # {} => status'[q] = "paid" /\ ~Serving(q, Crediting)'
        BY <2>5, <2>6, <2>7, <3>1 DEF RowsInv, Crediting
      <3>3. QED
        BY <3>2 DEF RowsInv
    <2>9. QED
      BY <2>2, <2>4, <2>8
  <1>3. CASE pc'[c] # "deposit"
    <2>1. pc'[c] = "done" /\ status' = status
      BY <1>0, <1>3 DEF MarkPaid, Finish, Goto, Answer
    <2>2. TypeOK' /\ RequestInv'
      BY <1>1, <2>1 DEF TypeOK, BooksTypeOK, books, RequestInv
    <2>3. CapturedInv' /\ WinnerInv'
      BY <1>1, <2>1, CallbackFacts DEF CapturedInv, WinnerInv, Crediting
    <2>4. RowsInv'
      BY <1>1, <2>1, RowsStay DEF Crediting
    <2>5. QED
      BY <2>2, <2>3, <2>4
  <1>4. QED
    BY <1>2, <1>3

(* One leg credited, or lost to the database, and the callback moves on.   *)
LEMMA CreditKeeps ==
    ASSUME PInv, NEW c \in Callback, CreditDeposit(c) \/ CreditBonus(c)
    PROVE  PInv'
  <1> USE DEF PInv
  <1> DEFINE p == pay(c)
  <1>0. BooksTypeOK
    BY DEF TypeOK
  <1>1. PICK leg \in {"deposit", "bonus"}, n \in Nat : pc[c] = leg /\ Credit(c, leg, n)
    BY CallbackFacts DEF CreditDeposit, CreditBonus
  <1>2. /\ UNCHANGED <<status, session, request, fiat, rate, faults>>
        /\ \A d \in Callback : d # c => pc'[d] = pc[d]
        /\ pc'[c] \in {"bonus", "done"}
        /\ pc'[c] = "bonus" => leg = "deposit"
        /\ pc' \in [Callback -> {"idle", "verify", "failing", "mark", "deposit", "bonus", "done"}]
        /\ reply' \in [Callback -> {"none", "ok", "failed"}]
        /\ acked' \subseteq Payment
    <2>1. /\ pc \in [Callback -> {"idle", "verify", "failing", "mark", "deposit", "bonus", "done"}]
          /\ reply \in [Callback -> {"none", "ok", "failed"}]
          /\ acked \subseteq Payment /\ pay(c) \in Payment
      BY CallbackFacts DEF TypeOK
    <2>2. /\ UNCHANGED <<status, session, request, fiat, rate, faults>>
          /\ acked' = acked \/ acked' = acked \cup {pay(c)}
          /\ reply' = reply \/ reply' = [reply EXCEPT ![c] = "ok"]
          /\ \/ pc' = [pc EXCEPT ![c] = "done"]
             \/ pc[c] = "deposit" /\ pc' = [pc EXCEPT ![c] = "bonus"]
      <3>1. CASE CreditDeposit(c)
        BY <3>1 DEF CreditDeposit, Finish, Goto, Answer, outside, setting
      <3>2. CASE CreditBonus(c)
        BY <3>2 DEF CreditBonus, Finish, Goto, Answer, outside, setting
      <3>3. QED
        BY <3>1, <3>2
    <2>3. reply' \in [Callback -> {"none", "ok", "failed"}] /\ acked' \subseteq Payment
      <3>1. reply' = reply \/ reply' = [reply EXCEPT ![c] = "ok"]
        BY <2>2
      <3>2. acked' = acked \/ acked' = acked \cup {pay(c)}
        BY <2>2
      <3>3. QED
        BY <2>1, <3>1, <3>2
    <2>4. CASE pc' = [pc EXCEPT ![c] = "done"]
      BY <2>1, <2>2, <2>3, <2>4
    <2>5. CASE pc[c] = "deposit" /\ pc' = [pc EXCEPT ![c] = "bonus"]
      BY <1>1, <2>1, <2>2, <2>3, <2>5
    <2>6. QED
      BY <2>2, <2>4, <2>5
  <1>3. /\ p \in Payment /\ User[p] \in Account /\ <<p, leg>> \in Op
        /\ status[p] = "paid" /\ session[p] = "captured"
        /\ \A d \in Callback : pc[d] \in Crediting /\ pay(d) = p => d = c
    BY <1>1, CallbackFacts DEF WinnerInv, CapturedInv, Crediting
  <1>4. Rows(p, leg) = {}
    BY <1>1, <1>3 DEF RowsInv, Serving, Crediting
  <1>5. /\ BooksTypeOK'
        /\ \A q \in Payment, l \in Crediting : q # p \/ l # leg => Rows(q, l)' = Rows(q, l)
        /\ \A i, j \in Rows(p, leg)' : i = j
    <2>1. CASE UNCHANGED books
      BY <1>4, <2>1 DEF Rows, RowsOf, books, BooksTypeOK, TypeOK
    <2>2. CASE Transfer(<<p, leg>>, [a \in {User[p]} |-> n], FALSE)
      <3>1. /\ BooksTypeOK'
            /\ \A q \in Op, a \in Account :
                  q # <<p, leg>> \/ a # User[p] => RowsOf(q, a)' = RowsOf(q, a)
            /\ RowsOf(<<p, leg>>, User[p]) = {} =>
                  \A i, j \in RowsOf(<<p, leg>>, User[p])' : i = j
        <4> DEFINE d == [a \in {User[p]} |-> n]
        <4>1. n \in Int
          OBVIOUS
        <4>2. DOMAIN d = {User[p]}
          OBVIOUS
        <4>3. d[User[p]] = n
          OBVIOUS
        <4>4. Transfer(<<p, leg>>, d, FALSE)
          BY <2>2
        <4> HIDE DEF d
        <4>5. QED
          BY <1>0, <1>3, <4>1, <4>2, <4>3, <4>4, TransferRows
      <3>2. \A q \in Payment : User[q] \in Account /\ \A l \in Crediting : <<q, l>> \in Op
        BY PaymentsAssumption DEF Crediting
      <3>3. QED
        BY <1>4, <3>1, <3>2 DEF Rows
    <2>3. QED
      BY <1>1, <2>1, <2>2 DEF Credit
  <1>6. TypeOK'
    <2>1. lost' \in [Payment -> {"no", "credit", "rate", "rounding"}]
      BY <1>1 DEF TypeOK, Credit
    <2>2. QED
      BY <1>2, <1>5, <2>1 DEF TypeOK
  <1>7. RequestInv' /\ CapturedInv' /\ WinnerInv'
    BY <1>1, <1>2, <1>3, CallbackFacts DEF RequestInv, CapturedInv, WinnerInv, Crediting
  <1>8. RowsInv'
    <2>1. ~Serving(p, {"deposit"})' /\ (leg = "bonus" => ~Serving(p, Crediting)')
      BY <1>1, <1>2, <1>3 DEF Serving, Crediting
    <2>2. \A q \in Payment : /\ Serving(q, {"deposit"})' => Serving(q, {"deposit"})
                             /\ q # p /\ Serving(q, Crediting)' => Serving(q, Crediting)
      BY <1>2 DEF Serving
    <2>3. leg = "deposit" => Rows(p, "bonus")' = {}
      BY <1>1, <1>3, <1>5 DEF RowsInv, Serving, Crediting
    <2>4. ASSUME NEW q \in Payment
          PROVE  /\ \A l \in {"deposit", "bonus"} : \A i, j \in Rows(q, l)' : i = j
                 /\ Rows(q, "deposit")' # {} => status'[q] = "paid" /\ ~Serving(q, {"deposit"})'
                 /\ Rows(q, "bonus")' # {} => status'[q] = "paid" /\ ~Serving(q, Crediting)'
      BY <1>2, <1>3, <1>5, <2>1, <2>2, <2>3 DEF RowsInv, Crediting
    <2>5. QED
      BY <2>4 DEF RowsInv
  <1>9. QED
    BY <1>6, <1>7, <1>8

LEMMA CrashKeeps ==
    ASSUME PInv, Crash \/ UNCHANGED vars
    PROVE  PInv'
  <1> USE DEF PInv
  <1>1. /\ UNCHANGED <<books, status, session, fiat, rate, faults, reply, acked>>
        /\ \A c \in Callback : pc'[c] \in {pc[c], "done"}
        /\ \A p \in Payment : request'[p] \in {request[p], "failed"}
        /\ pc' \in [Callback -> {"idle", "verify", "failing", "mark", "deposit", "bonus", "done"}]
        /\ request' \in [Payment -> {"new", "record", "invoice", "give up", "ready", "failed"}]
        /\ lost' \in [Payment -> {"no", "credit", "rate", "rounding"}]
    <2>1. /\ pc \in [Callback -> {"idle", "verify", "failing", "mark", "deposit", "bonus", "done"}]
          /\ request \in [Payment -> {"new", "record", "invoice", "give up", "ready", "failed"}]
          /\ lost \in [Payment -> {"no", "credit", "rate", "rounding"}]
      BY DEF TypeOK
    <2>2. CASE Crash
      BY <2>1, <2>2 DEF Crash, setting
    <2>3. CASE UNCHANGED vars
      BY <2>1, <2>3 DEF vars
    <2>4. QED
      BY <2>2, <2>3
  <1>2. TypeOK' /\ RequestInv'
    <2>1. TypeOK'
      BY <1>1 DEF TypeOK, BooksTypeOK, books
    <2>2. RequestInv'
      BY <1>1 DEF RequestInv
    <2>3. QED
      BY <2>1, <2>2
  <1>3. CapturedInv' /\ WinnerInv'
    <2>1. CapturedInv'
      BY <1>1, CallbackFacts DEF CapturedInv
    <2>2. WinnerInv'
      BY <1>1, CallbackFacts DEF WinnerInv, Crediting
    <2>3. QED
      BY <2>1, <2>2
  <1>4. RowsInv'
    BY <1>1, RowsStay DEF Crediting
  <1>5. QED
    BY <1>2, <1>3, <1>4

-----------------------------------------------------------------------------
(* The invariant CreditedOnce rests on.                                    *)
THEOREM PaymentsInvariance == Spec => []PInv
  <1>1. PInv /\ [Next]_vars => PInv'
    <2> SUFFICES ASSUME PInv, [Next]_vars
                 PROVE  PInv'
      OBVIOUS
    <2>1. ASSUME NEW c \in Callback, Serve(c)
          PROVE  PInv'
      <3>1. CASE Verify(c) \/ MarkFailed(c)
        BY <3>1, CallbackKeeps
      <3>2. CASE MarkPaid(c)
        BY <3>2, MarkPaidKeeps
      <3>3. CASE CreditDeposit(c) \/ CreditBonus(c)
        BY <3>3, CreditKeeps
      <3>4. QED
        BY <2>1, <3>1, <3>2, <3>3 DEF Serve
    <2>2. QED
      BY <2>1, OpenKeeps, OutsideKeeps, CallbackKeeps, CrashKeeps DEF Next, AtRest
  <1>2. QED
    BY <1>1, InitPayments, PTL DEF Spec

(* "exactly one caller credits the wallet" (payment.go:58-60): each leg of *)
(* a payment is credited at most once, for money the gateway took,         *)
(* whatever callbacks repeat, overlap, fail or die.                        *)
THEOREM CreditedAtMostOnce == Spec => []CreditedOnce
  <1>1. PInv => CreditedOnce
    <2> SUFFICES ASSUME PInv, NEW p \in Payment, NEW leg \in {"deposit", "bonus"}
                 PROVE  /\ Cardinality(Rows(p, leg)) <= 1
                        /\ Rows(p, leg) # {} => status[p] = "paid" /\ session[p] = "captured"
      BY DEF CreditedOnce, Rows
    <2>1. CASE Rows(p, leg) = {}
      BY <2>1, FS_EmptySet
    <2>2. CASE Rows(p, leg) # {}
      <3>1. PICK i : i \in Rows(p, leg)
        BY <2>2
      <3>2. Rows(p, leg) = {i}
        BY <3>1 DEF PInv, RowsInv
      <3>3. Cardinality(Rows(p, leg)) = 1
        BY <3>2, FS_Singleton
      <3>4. QED
        BY <2>2, <3>3 DEF PInv, RowsInv, CapturedInv
    <2>3. QED
      BY <2>1, <2>2
  <1>2. QED
    BY <1>1, PaymentsInvariance, PTL

-----------------------------------------------------------------------------
(* What OkMeansCredited takes beyond PInv: a paid payment has its row, or   *)
(* the callback about to write it, or has been dropped; a payment somebody  *)
(* comes back for, or pays for at Plisio, has a row in the panel.           *)
Kept(p) ==
    /\ status[p] = "paid" =>
          \/ Posted(<<p, "deposit">>) \/ Serving(p, {"deposit"}) \/ lost[p] # "no"
    /\ Gateway[p] = "plisio" /\ (request[p] = "invoice" \/ session[p] # "none")
          => status[p] # "none"

Told(c) ==
    /\ pc[c] # "idle" => status[pay(c)] # "none"
    /\ reply[c] = "ok" => /\ session[pay(c)] = "captured"
                          /\ status[pay(c)] \in {"paid", "failed"} \/ lost[pay(c)] # "no"

OkInv == /\ \A p \in Payment : Kept(p)
         /\ \A c \in Callback : Told(c)

(* A credit posts its leg and takes no other away.                          *)
LEMMA CreditPosts ==
    ASSUME BooksTypeOK, NEW c \in Callback, NEW leg \in {"deposit", "bonus"}, NEW n \in Nat,
           Transfer(<<pay(c), leg>>, [a \in {User[pay(c)]} |-> n], FALSE)
    PROVE  /\ Posted(<<pay(c), leg>>)'
           /\ \A p \in Payment : Posted(<<p, "deposit">>) => Posted(<<p, "deposit">>)'
  <1>1. PICK o \in Op : o = <<pay(c), leg>>
    BY CallbackFacts
  <1>2. PICK u \in Account : u = User[pay(c)]
    BY CallbackFacts
  <1>3. /\ \A q \in Op, a \in Account : q # o \/ a # u => RowsOf(q, a)' = RowsOf(q, a)
        /\ RowsOf(o, u)' # {}
    <2> DEFINE d == [a \in {u} |-> n]
    <2>1. n \in Int /\ DOMAIN d = {u} /\ d[u] = n
      OBVIOUS
    <2>2. Transfer(o, d, FALSE)
      BY <1>1, <1>2
    <2> HIDE DEF d
    <2>3. QED
      BY <2>1, <2>2, TransferRows
  <1>4. Posted(o)'
    BY <1>3 DEF Posted
  <1>5. \A q \in Op : Posted(q) => Posted(q)'
    BY <1>3, <1>4 DEF Posted
  <1>6. \A p \in Payment : <<p, "deposit">> \in Op
    BY PaymentsAssumption
  <1>7. QED
    BY <1>1, <1>4, <1>5, <1>6

LEMMA InitOk == Init => OkInv
  <1> SUFFICES ASSUME Init
               PROVE  /\ \A p \in Payment : Kept(p)
                      /\ \A c \in Callback : Told(c)
    BY DEF OkInv
  <1>1. \A p \in Payment : Kept(p)
    BY DEF Init, Kept
  <1>2. \A c \in Callback : Told(c)
    BY CallbackFacts DEF Init, Told
  <1>3. QED
    BY <1>1, <1>2

(* A step that posts nothing and takes nobody off the way to a deposit.     *)
LEMMA StillDue ==
    ASSUME UNCHANGED books, NEW p \in Payment,
           \A c \in Callback : pc[c] = "deposit" => pc'[c] = "deposit"
    PROVE  /\ Posted(<<p, "deposit">>)' <=> Posted(<<p, "deposit">>)
           /\ Serving(p, {"deposit"}) => Serving(p, {"deposit"})'
  BY DEF books, Posted, RowsOf, Serving

(* Opening a payment, the gateway's pages and the administrator.            *)
LEMMA OpenKeepsOk ==
    ASSUME PInv, OkInv,
           \/ \E p \in Payment : Open(p) \/ BuyerPays(p) \/ BuyerCancels(p)
           \/ \E n \in Rates : SetRate(n)
    PROVE  OkInv'
  <1>1. CASE \E n \in Rates : SetRate(n)
    <2>1. UNCHANGED <<books, status, lost, session, request, pc, reply>>
      BY <1>1 DEF SetRate, rows, callbacks
    <2>2. ASSUME NEW p \in Payment
          PROVE  Kept(p)'
      BY <2>1, StillDue DEF OkInv, Kept
    <2>3. ASSUME NEW c \in Callback
          PROVE  Told(c)'
      BY <2>1 DEF OkInv, Told
    <2>4. QED
      BY <2>2, <2>3 DEF OkInv
  <1>2. CASE \E p \in Payment : Open(p) \/ BuyerPays(p) \/ BuyerCancels(p)
    <2>1. PICK p \in Payment : Open(p) \/ BuyerPays(p) \/ BuyerCancels(p)
      BY <1>2
    <2>2. /\ status \in [Payment -> {"none", "pending", "paid", "failed"}]
          /\ session \in [Payment -> {"none", "open", "captured", "cancelled"}]
          /\ request \in [Payment -> {"new", "record", "invoice", "give up", "ready", "failed"}]
          /\ Gateway[p] \in {"zarinpal", "plisio"}
          /\ RequestInv /\ Kept(p)
      BY PaymentsAssumption DEF PInv, TypeOK, OkInv
    <2>3. /\ UNCHANGED <<books, lost, pc, reply>>
          /\ \A q \in Payment \ {p} : /\ status'[q] = status[q] /\ session'[q] = session[q]
                                       /\ request'[q] = request[q]
      BY <2>1, <2>2 DEF Open, ZarinpalOpen, ZarinpalRecord, PlisioRecord, PlisioInvoice,
             PlisioGiveUp, BuyerPays, BuyerCancels, rows, callbacks, Transition
    <2> DEFINE opened == /\ status'[p] = "paid" => status[p] = "paid"
                         /\ status[p] # "none" => status'[p] # "none"
                         /\ status[p] \in {"paid", "failed"} => status'[p] = status[p]
                         /\ session[p] = "captured" => session'[p] = "captured"
                         /\ Gateway[p] = "plisio" /\ (request'[p] = "invoice" \/ session'[p] # "none")
                               => status'[p] # "none"
    <2>4. opened
      <3>1. CASE ZarinpalOpen(p) \/ BuyerPays(p) \/ BuyerCancels(p)
        BY <2>2, <3>1 DEF ZarinpalOpen, BuyerPays, BuyerCancels, rows, Kept, RequestInv
      <3>2. CASE ZarinpalRecord(p)
        BY <2>2, <3>2 DEF ZarinpalRecord, RequestInv
      <3>3. CASE PlisioRecord(p)
        BY <2>2, <3>3 DEF PlisioRecord, RequestInv
      <3>4. CASE PlisioInvoice(p)
        BY <2>2, <3>4 DEF PlisioInvoice, Kept, rows, RequestInv
      <3>5. CASE PlisioGiveUp(p)
        BY <2>2, <3>5 DEF PlisioGiveUp, Transition, Kept
      <3>6. QED
        BY <2>1, <3>1, <3>2, <3>3, <3>4, <3>5 DEF Open
    <2>5. ASSUME NEW q \in Payment
          PROVE  Kept(q)'
      BY <2>3, <2>4, StillDue DEF OkInv, Kept
    <2>6. ASSUME NEW c \in Callback
          PROVE  Told(c)'
      <3>1. pay(c) \in Payment /\ Told(c)
        BY CallbackFacts DEF OkInv
      <3>2. QED
        BY <2>3, <2>4, <3>1 DEF Told
    <2>7. QED
      BY <2>5, <2>6 DEF OkInv
  <1>3. QED
    BY <1>1, <1>2

(* What remains when a callback moves: its own payment and its own answer.  *)
LEMMA OkStep ==
    ASSUME PInv, OkInv, NEW c \in Callback, UNCHANGED <<session, request>>,
           \A q \in Payment \ {pay(c)} : /\ status'[q] = status[q] /\ lost'[q] = lost[q]
                                         /\ Posted(<<q, "deposit">>) => Posted(<<q, "deposit">>)'
           ,
           \A d \in Callback \ {c} : pc'[d] = pc[d] /\ reply'[d] = reply[d],
           status[pay(c)] # "none" => status'[pay(c)] # "none",
           status[pay(c)] \in {"paid", "failed"} => status'[pay(c)] = status[pay(c)],
           lost[pay(c)] # "no" => lost'[pay(c)] # "no",
           Kept(pay(c))', Told(c)'
    PROVE  OkInv'
  <1>1. ASSUME NEW q \in Payment
        PROVE  Kept(q)'
    <2>1. CASE q = pay(c)
      BY <2>1
    <2>2. CASE q # pay(c)
      <3>1. Serving(q, {"deposit"}) => Serving(q, {"deposit"})'
        BY <2>2 DEF Serving
      <3>2. Kept(q) /\ request'[q] = request[q] /\ session'[q] = session[q]
        BY DEF OkInv
      <3>3. QED
        BY <2>2, <3>1, <3>2 DEF Kept
    <2>3. QED
      BY <2>1, <2>2
  <1>2. ASSUME NEW d \in Callback
        PROVE  Told(d)'
    <2>1. pay(d) \in Payment /\ Told(d)
      BY CallbackFacts DEF OkInv
    <2>2. CASE d = c
      BY <2>2
    <2>3. CASE d # c
      BY <2>1, <2>3 DEF Told
    <2>4. QED
      BY <2>2, <2>3
  <1>3. QED
    BY <1>1, <1>2 DEF OkInv

(* A callback up to the step that makes the payment paid.                   *)
LEMMA CallbackKeepsOk ==
    ASSUME PInv, OkInv, NEW c \in Callback,
           ZarinpalReturns(c) \/ PlisioCalls(c) \/ Verify(c) \/ MarkFailed(c)
    PROVE  OkInv'
  <1> DEFINE p == pay(c)
  <1>0. /\ pc \in [Callback -> {"idle", "verify", "failing", "mark", "deposit", "bonus", "done"}]
        /\ reply \in [Callback -> {"none", "ok", "failed"}]
        /\ status \in [Payment -> {"none", "pending", "paid", "failed"}]
        /\ lost \in [Payment -> {"no", "credit", "rate", "rounding"}]
        /\ p \in Payment /\ Kept(p) /\ Told(c)
        /\ status[p] = "paid" => session[p] = "captured"
    BY CallbackFacts DEF PInv, TypeOK, OkInv, CapturedInv
  <1>1. /\ UNCHANGED <<books, session, request>>
        /\ \A d \in Callback \ {c} : pc'[d] = pc[d] /\ reply'[d] = reply[d]
        /\ \A q \in Payment \ {p} : status'[q] = status[q] /\ lost'[q] = lost[q]
        /\ pc[c] # "deposit"
    BY <1>0 DEF ZarinpalReturns, PlisioCalls, Verify, MarkFailed, Goto, Answer, rows,
                outside, Transition
  <1>2. /\ status[p] # "none" => status'[p] # "none"
        /\ status[p] \in {"paid", "failed"} => status'[p] = status[p]
        /\ status'[p] = "paid" => status[p] = "paid"
        /\ lost[p] # "no" => lost'[p] # "no"
    BY <1>0 DEF ZarinpalReturns, PlisioCalls, Verify, MarkFailed, rows, Transition
  <1>3. status[p] # "none" /\ (reply'[c] = "ok" =>
           /\ session[p] = "captured"
           /\ status'[p] \in {"paid", "failed"} \/ lost'[p] # "no")
    <2>1. CASE ZarinpalReturns(c)
      BY <1>0, <2>1 DEF ZarinpalReturns, Goto, Answer, rows, Told
    <2>2. CASE PlisioCalls(c)
      BY <1>0, <2>2 DEF PlisioCalls, Goto, Answer, Kept, Told
    <2>3. CASE Verify(c)
      BY <1>0, <2>3 DEF Verify, rows, Told
    <2>4. CASE MarkFailed(c)
      BY <1>0, <2>4 DEF MarkFailed, Answer, Told
    <2>5. QED
      BY <2>1, <2>2, <2>3, <2>4
  <1>4. \A q \in Payment : /\ Posted(<<q, "deposit">>)' <=> Posted(<<q, "deposit">>)
                           /\ Serving(q, {"deposit"}) => Serving(q, {"deposit"})'
    BY <1>1, StillDue
  <1>5. Kept(p)' /\ Told(c)'
    BY <1>0, <1>1, <1>2, <1>3, <1>4 DEF Kept, Told
  <1>6. QED
    BY <1>1, <1>2, <1>4, <1>5, OkStep

(* UPDATE ... WHERE status = 'pending': whoever finds the payment not       *)
(* pending finds it paid or failed.                                         *)
LEMMA MarkPaidKeepsOk ==
    ASSUME PInv, OkInv, NEW c \in Callback, MarkPaid(c)
    PROVE  OkInv'
  <1> DEFINE p == pay(c)
  <1>0. /\ pc \in [Callback -> {"idle", "verify", "failing", "mark", "deposit", "bonus", "done"}]
        /\ reply \in [Callback -> {"none", "ok", "failed"}]
        /\ status \in [Payment -> {"none", "pending", "paid", "failed"}]
        /\ p \in Payment /\ Kept(p) /\ Told(c)
        /\ pc[c] = "mark" => session[p] = "captured"
    BY CallbackFacts DEF PInv, TypeOK, OkInv, CapturedInv
  <1>1. /\ UNCHANGED <<books, lost, session, request>>
        /\ \A d \in Callback \ {c} : pc'[d] = pc[d] /\ reply'[d] = reply[d]
        /\ \A q \in Payment \ {p} : status'[q] = status[q]
        /\ pc[c] = "mark"
    BY <1>0 DEF MarkPaid, Finish, Goto, Answer, outside, Transition
  <1>2. /\ status[p] # "none"
        /\ \/ status'[p] = status[p] /\ reply'[c] = "ok" /\ status[p] # "pending"
           \/ status'[p] = status[p] /\ reply'[c] = "failed"
           \/ /\ status[p] = "pending" /\ status'[p] = "paid" /\ reply'[c] = reply[c]
              /\ pc'[c] = "deposit"
    BY <1>0, <1>1 DEF MarkPaid, Wins, Transition, Finish, Goto, Answer, Told
  <1>3. \A q \in Payment : /\ Posted(<<q, "deposit">>)' <=> Posted(<<q, "deposit">>)
                           /\ Serving(q, {"deposit"}) => Serving(q, {"deposit"})'
    BY <1>1, StillDue
  <1>4. pc'[c] = "deposit" => Serving(p, {"deposit"})'
    BY DEF Serving
  <1>5. Kept(p)'
    BY <1>0, <1>1, <1>2, <1>3, <1>4 DEF Kept
  <1>6. Told(c)'
    BY <1>0, <1>1, <1>2 DEF Told
  <1>7. QED
    BY <1>0, <1>1, <1>2, <1>3, <1>5, <1>6, OkStep

(* The credit is booked, or dropped, before the callback answers.           *)
LEMMA CreditKeepsOk ==
    ASSUME PInv, OkInv, NEW c \in Callback, CreditDeposit(c) \/ CreditBonus(c)
    PROVE  OkInv'
  <1> DEFINE p == pay(c)
  <1>0. /\ pc \in [Callback -> {"idle", "verify", "failing", "mark", "deposit", "bonus", "done"}]
        /\ reply \in [Callback -> {"none", "ok", "failed"}]
        /\ lost \in [Payment -> {"no", "credit", "rate", "rounding"}]
        /\ p \in Payment /\ BooksTypeOK /\ Kept(p) /\ Told(c)
    BY CallbackFacts DEF PInv, TypeOK, OkInv
  <1>1. PICK leg \in {"deposit", "bonus"}, n \in Nat : pc[c] = leg /\ Credit(c, leg, n)
    BY CallbackFacts DEF CreditDeposit, CreditBonus
  <1>2. /\ UNCHANGED <<status, session, request>>
        /\ \A d \in Callback \ {c} : pc'[d] = pc[d] /\ reply'[d] = reply[d]
    BY <1>0 DEF CreditDeposit, CreditBonus, Finish, Goto, Answer, outside
  <1>3. status[p] = "paid" /\ session[p] = "captured"
    BY <1>1 DEF PInv, WinnerInv, CapturedInv, Crediting
  <1>4. /\ \A q \in Payment \ {p} : lost'[q] = lost[q]
        /\ lost[p] # "no" => lost'[p] # "no"
        /\ Posted(<<p, leg>>)' \/ lost'[p] # "no"
        /\ \A q \in Payment : Posted(<<q, "deposit">>) => Posted(<<q, "deposit">>)'
    <2>1. CASE UNCHANGED lost /\ Transfer(<<p, leg>>, [a \in {User[p]} |-> n], FALSE)
      BY <1>0, <1>1, <2>1, CreditPosts
    <2>2. CASE UNCHANGED books /\ lost' = [lost EXCEPT ![p] = "credit"]
      BY <1>0, <2>2 DEF books, Posted, RowsOf
    <2>3. QED
      BY <1>1, <2>1, <2>2 DEF Credit
  <1>5. Kept(p)'
    <2>1. leg = "bonus" /\ Serving(p, {"deposit"}) => Serving(p, {"deposit"})'
      BY <1>1, <1>2 DEF Serving
    <2>2. QED
      BY <1>0, <1>2, <1>3, <1>4, <2>1 DEF Kept
  <1>6. Told(c)'
    BY <1>2, <1>3 DEF Told
  <1>7. QED
    BY <1>2, <1>3, <1>4, <1>5, <1>6, OkStep

(* A crash drops the deposits under way and answers nobody.                 *)
LEMMA CrashKeepsOk ==
    ASSUME PInv, OkInv, Crash
    PROVE  OkInv'
  <1>1. /\ UNCHANGED <<books, status, session, reply>>
        /\ \A c \in Callback : pc'[c] # "idle" => pc[c] # "idle"
        /\ \A p \in Payment : /\ request'[p] = "invoice" => request[p] = "invoice"
                              /\ Serving(p, {"deposit"}) => lost'[p] # "no"
                              /\ lost[p] # "no" => lost'[p] # "no"
    BY DEF Crash
  <1>2. \A p \in Payment : Posted(<<p, "deposit">>)' <=> Posted(<<p, "deposit">>)
    BY <1>1 DEF books, Posted, RowsOf
  <1>3. ASSUME NEW p \in Payment
        PROVE  Kept(p)'
    BY <1>1, <1>2 DEF OkInv, Kept
  <1>4. ASSUME NEW c \in Callback
        PROVE  Told(c)'
    BY <1>1, CallbackFacts DEF OkInv, Told
  <1>5. QED
    BY <1>3, <1>4 DEF OkInv

(* The page that says "Payment successful -- your balance has been topped   *)
(* up" (BillingPage.tsx:177-179), and Plisio's acknowledgement: under every *)
(* fault and in every order of returns an ok is given only for money the    *)
(* gateway has, and the wallet has it too, or is about to, unless it was    *)
(* dropped between paid and credit or for its amount, or the payment had    *)
(* been marked failed.                                                      *)
THEOREM OkTellsTheTruth == Spec => []OkMeansCredited
  <1>1. PInv /\ OkInv /\ [Next]_vars => OkInv'
    <2> SUFFICES ASSUME PInv, OkInv, [Next]_vars
                 PROVE  OkInv'
      OBVIOUS
    <2>1. ASSUME UNCHANGED vars
          PROVE  OkInv'
      <3>1. UNCHANGED <<books, status, lost, session, request, pc, reply>>
        BY <2>1 DEF vars, books
      <3>2. ASSUME NEW p \in Payment
            PROVE  Kept(p)'
        BY <3>1, StillDue DEF OkInv, Kept
      <3>3. ASSUME NEW c \in Callback
            PROVE  Told(c)'
        BY <3>1 DEF OkInv, Told
      <3>4. QED
        BY <3>2, <3>3 DEF OkInv
    <2>2. ASSUME NEW c \in Callback, ZarinpalReturns(c) \/ PlisioCalls(c) \/ Serve(c)
          PROVE  OkInv'
      BY <2>2, CallbackKeepsOk, MarkPaidKeepsOk, CreditKeepsOk DEF Serve
    <2>3. QED
      BY <2>1, <2>2, OpenKeepsOk, CrashKeepsOk DEF Next, AtRest
  <1>2. ASSUME OkInv
        PROVE  OkMeansCredited
    <2> SUFFICES ASSUME NEW c \in Callback, reply[c] = "ok"
                 PROVE  /\ session[pay(c)] = "captured"
                        /\ \/ Posted(<<pay(c), "deposit">>)
                           \/ Serving(pay(c), {"deposit"})
                           \/ status[pay(c)] = "failed"
                           \/ lost[pay(c)] # "no"
      BY DEF OkMeansCredited
    <2>1. pay(c) \in Payment /\ Told(c)
      BY <1>2, CallbackFacts DEF OkInv
    <2>2. Kept(pay(c))
      BY <1>2, <2>1 DEF OkInv
    <2>3. QED
      BY <2>1, <2>2 DEF Kept, Told
  <1>3. QED
    BY <1>1, <1>2, InitOk, PaymentsInvariance, PTL DEF Spec
=============================================================================
