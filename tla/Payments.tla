------------------------------ MODULE Payments ------------------------------
(***************************************************************************)
(* Top-ups through a payment gateway (controller/payment.go,               *)
(* controller/plisio_webhook.go, service/payment.go, service/zarinpal.go). *)
(* The panel records a payment, the gateway takes the money on its own     *)
(* pages, and a callback -- the buyer's browser for ZarinPal, Plisio's     *)
(* server for crypto -- flips the payment to paid and credits the wallet,  *)
(* in two database transactions.  Callbacks repeat, overlap, and meet      *)
(* gateways that do not answer, a failing database and a dying panel.      *)
(*                                                                         *)
(* Signature, currency and ownership checks refuse a callback before it    *)
(* does anything and are left out, as are Plisio's callbacks of a status   *)
(* other than "completed", which are acknowledged and ignored.             *)
(***************************************************************************)
EXTENDS Books, FiniteSets

CONSTANTS Payment,   \* the authorities: one payment attempt each
          Gateway,   \* Gateway[p]: "zarinpal" or "plisio"
          User,      \* User[p]: the wallet to credit
          Amount,    \* Amount[p]: credits asked for
          Bonus,     \* Bonus[p]: what computeBonus grants on them
          Rates,     \* credits per unit of fiat an administrator may set
          Calls,     \* callbacks considered for each payment
          Weather    \* sets of "database", "gateway", "crash" and "rate":
                     \* what may go wrong, or change, together

ASSUME PaymentsAssumption ==
    /\ Gateway \in [Payment -> {"zarinpal", "plisio"}]
    /\ User \in [Payment -> Account]
    /\ \A p \in Payment : Amount[p] \in Nat \ {0} /\ Bonus[p] \in Nat
    /\ Rates \subseteq Nat \ {0}
    /\ Weather \subseteq SUBSET {"database", "gateway", "crash", "rate"}
    /\ Calls \in Nat
    /\ Payment \X {"deposit", "bonus"} \subseteq Op

VARIABLES status,    \* the payment rows: "none" before there is one
          session,   \* the gateway's side: "none", "open", "captured",
                     \* "cancelled"
          request,   \* the handler that opens each payment
          fiat,      \* what Plisio's invoice asks for, in cents
          rate,      \* the exchange rate set now
          faults,    \* what may go wrong in this behaviour
          pc,        \* each callback's step
          reply,     \* what it answered
          acked,     \* payments Plisio has had a success answer for
          lost       \* history, read by no step of the code: the payments
                     \* whose money came and was dropped -- "credit" when
                     \* the paid payment's credit failed or died, "rate" and
                     \* "rounding" when the webhook refused the amount

vars == <<books, status, session, request, fiat, rate, faults, pc, reply, acked, lost>>

rows == <<books, status, lost>>
setting == <<rate, faults>>
outside == <<session, request, fiat, setting>>
callbacks == <<pc, reply, acked>>

(* A callback is one HTTP request about one payment.                       *)
Callback == Payment \X (1..Calls)
pay(c) == c[1]
-----------------------------------------------------------------------------
Init == /\ BooksInit
        /\ status = [p \in Payment |-> "none"]
        /\ session = [p \in Payment |-> "none"]
        /\ request = [p \in Payment |-> "new"]
        /\ fiat = [p \in Payment |-> 0]
        /\ rate \in Rates
        /\ faults \in Weather
        /\ pc = [c \in Callback |-> "idle"]
        /\ reply = [c \in Callback |-> "none"]
        /\ acked = {}
        /\ lost = [p \in Payment |-> "no"]

Goto(c, label) == pc' = [pc EXCEPT ![c] = label]

Answer(c, what) == /\ Goto(c, "done")
                   /\ reply' = [reply EXCEPT ![c] = what]

(* Every status update is UPDATE ... WHERE status = 'pending'.             *)
Transition(p, to) ==
    status' = IF status[p] = "pending" THEN [status EXCEPT ![p] = to] ELSE status

-----------------------------------------------------------------------------
(* zarinpalRequest: the gateway opens a session, then the row is written.  *)
ZarinpalOpen(p) ==
    /\ Gateway[p] = "zarinpal" /\ request[p] = "new"
    /\ \/ /\ session' = [session EXCEPT ![p] = "open"]
          /\ request' = [request EXCEPT ![p] = "record"]
       \/ /\ "gateway" \in faults
          /\ session' \in {session, [session EXCEPT ![p] = "open"]}
          /\ request' = [request EXCEPT ![p] = "failed"]
    /\ UNCHANGED <<rows, fiat, setting, callbacks>>

ZarinpalRecord(p) ==
    /\ Gateway[p] = "zarinpal" /\ request[p] = "record"
    /\ \/ /\ status' = [status EXCEPT ![p] = "pending"]
          /\ request' = [request EXCEPT ![p] = "ready"]
       \/ /\ "database" \in faults
          /\ request' = [request EXCEPT ![p] = "failed"]
          /\ UNCHANGED status
    /\ UNCHANGED <<books, lost, session, fiat, setting, callbacks>>

(* FormatFloat(credits / rate, 'f', 2): the nearest number of cents.  Where*)
(* two are as near the binary fraction decides.                            *)
Quotes(p) == {n \in 0..(100 * Amount[p]) :
                2 * n * rate \in (200 * Amount[p] - rate)..(200 * Amount[p] + rate)}

(* plisioRequest: the other way round.  The invoice is priced at the rate  *)
(* read at the start.                                                      *)
PlisioRecord(p) ==
    /\ Gateway[p] = "plisio" /\ request[p] = "new"
    /\ \/ /\ status' = [status EXCEPT ![p] = "pending"]
          /\ \E cents \in Quotes(p) : fiat' = [fiat EXCEPT ![p] = cents]
          /\ request' = [request EXCEPT ![p] = "invoice"]
       \/ /\ "database" \in faults
          /\ request' = [request EXCEPT ![p] = "failed"]
          /\ UNCHANGED <<status, fiat>>
    /\ UNCHANGED <<books, lost, session, setting, callbacks>>

(* CreateInvoice; an error, which may be of an invoice that was made, ends *)
(* in MarkFailed, best effort.  The gateway may refuse an invoice of 0.00. *)
PlisioInvoice(p) ==
    /\ request[p] = "invoice"
    /\ \/ /\ session' = [session EXCEPT ![p] = "open"]
          /\ request' = [request EXCEPT ![p] = "ready"]
       \/ /\ "gateway" \in faults \/ fiat[p] = 0
          /\ session' \in {session, [session EXCEPT ![p] = "open"]}
          /\ request' = [request EXCEPT ![p] = "give up"]
    /\ UNCHANGED <<rows, fiat, setting, callbacks>>

PlisioGiveUp(p) ==
    /\ request[p] = "give up"
    /\ \/ Transition(p, "failed")
       \/ "database" \in faults /\ UNCHANGED status
    /\ request' = [request EXCEPT ![p] = "failed"]
    /\ UNCHANGED <<books, lost, session, fiat, setting, callbacks>>

-----------------------------------------------------------------------------
(* On the gateway's pages the buyer pays, or leaves; ZarinPal sends the    *)
(* browser back either way.  A buyer reaches them by the URL the request   *)
(* answered with; Plisio also mails its invoices.                          *)
BuyerPays(p) ==
    /\ session[p] = "open"
    /\ request[p] = "ready" \/ Gateway[p] = "plisio"
    /\ session' = [session EXCEPT ![p] = "captured"]
    /\ UNCHANGED <<rows, request, fiat, setting, callbacks>>

BuyerCancels(p) ==
    /\ Gateway[p] = "zarinpal" /\ session[p] = "open" /\ request[p] = "ready"
    /\ session' = [session EXCEPT ![p] = "cancelled"]
    /\ UNCHANGED <<rows, request, fiat, setting, callbacks>>

(* An administrator changes the exchange rate.                             *)
SetRate(n) ==
    /\ "rate" \in faults
    /\ n \in Rates \ {rate}
    /\ rate' = n
    /\ UNCHANGED <<rows, session, request, fiat, faults, callbacks>>

-----------------------------------------------------------------------------
(* zarinpalCallback: the browser comes back, as often as the buyer likes   *)
(* and with the Status of its own URL: after having paid it may still open *)
(* the address of the cancel button, and before having paid that of "OK".  *)
(* Any Status but "OK" fails the payment without asking the gateway.  The  *)
(* payment is read once, here.                                             *)
ZarinpalReturns(c) ==
    LET p == pay(c) IN
    /\ pc[c] = "idle"
    /\ Gateway[p] = "zarinpal" /\ status[p] # "none"
    /\ \/ Goto(c, "failing") /\ UNCHANGED reply
       \/ status[p] = "paid" /\ Answer(c, "ok")
       \/ status[p] # "paid" /\ Goto(c, "verify") /\ UNCHANGED reply
    /\ UNCHANGED <<rows, outside, acked>>

(* VerifyPayment: 100 and 101 both confirm money the gateway has taken; of *)
(* a session without it, and without an answer, the payment is marked      *)
(* failed.                                                                 *)
Verify(c) ==
    /\ pc[c] = "verify"
    /\ \/ session[pay(c)] = "captured" /\ Goto(c, "mark")
       \/ session[pay(c)] # "captured" /\ Goto(c, "failing")
       \/ "gateway" \in faults /\ Goto(c, "failing")
    /\ UNCHANGED <<rows, outside, reply, acked>>

MarkFailed(c) ==
    /\ pc[c] = "failing"
    /\ \/ Transition(pay(c), "failed")
       \/ "database" \in faults /\ UNCHANGED status
    /\ Answer(c, "failed")
    /\ UNCHANGED <<books, lost, outside, acked>>

-----------------------------------------------------------------------------
(* The Plisio webhook: repeated until it is acknowledged.  An invoice paid *)
(* in full is compared, at today's rate, with the credits asked for, less  *)
(* one percent.  An invoice that is refused is acknowledged all the same.  *)
(* Mutated: without the percent.                                           *)
UnderpaidToTheCredit(p) == fiat[p] * rate < Amount[p] * 100

Underpaid(p) == fiat[p] * rate < Amount[p] * 99

PlisioCalls(c) ==
    LET p == pay(c) IN
    /\ pc[c] = "idle"
    /\ Gateway[p] = "plisio" /\ session[p] = "captured" /\ p \notin acked
    /\ \/ /\ Underpaid(p)
          /\ Answer(c, "ok")
          /\ acked' = acked \cup {p}
          /\ lost' = [lost EXCEPT ![p] = IF fiat[p] \in Quotes(p) THEN "rounding"
                                                                 ELSE "rate"]
       \/ /\ ~Underpaid(p)
          /\ Goto(c, "mark")
          /\ UNCHANGED <<reply, acked, lost>>
    /\ UNCHANGED <<books, status, outside>>

-----------------------------------------------------------------------------
(* How a callback that has nothing left to do answers.                     *)
Finish(c) == /\ Answer(c, "ok")
             /\ acked' = IF Gateway[pay(c)] = "plisio" THEN acked \cup {pay(c)} ELSE acked

(* Mutated: whoever finds the payment not failed goes on to credit.        *)
WinsUnlessFailed(c) == status[pay(c)] # "failed"

(* RowsAffected of the update: this callback found the payment pending.    *)
Wins(c) == status[pay(c)] = "pending"

(* MarkPaid / MarkPaidWithBonus: the callback that makes the transition    *)
(* goes on to credit, every other one is done.                             *)
MarkPaid(c) ==
    /\ pc[c] = "mark"
    /\ \/ /\ Wins(c)
          /\ Transition(pay(c), "paid")
          /\ Goto(c, "deposit")
          /\ UNCHANGED <<reply, acked>>
       \/ /\ ~Wins(c)
          /\ Finish(c)
          /\ UNCHANGED status
       \/ /\ "database" \in faults
          /\ Answer(c, "failed")
          /\ UNCHANGED <<status, acked>>
    /\ UNCHANGED <<books, lost, outside>>

(* Mutated: the wallet is not credited.                                    *)
CreditNothing(c, leg, n) == UNCHANGED <<books, lost>>

(* CreditWithMeta; an error is logged and the callback goes on.            *)
Credit(c, leg, n) ==
    \/ /\ Transfer(<<pay(c), leg>>, [a \in {User[pay(c)]} |-> n], FALSE)
       /\ UNCHANGED lost
    \/ /\ "database" \in faults
       /\ lost' = [lost EXCEPT ![pay(c)] = "credit"]
       /\ UNCHANGED books

CreditDeposit(c) ==
    /\ pc[c] = "deposit"
    /\ Credit(c, "deposit", Amount[pay(c)])
    /\ LET p == pay(c)
       IN  IF Gateway[p] = "plisio" /\ Bonus[p] > 0
           THEN Goto(c, "bonus") /\ UNCHANGED <<reply, acked>>
           ELSE Finish(c)
    /\ UNCHANGED <<status, outside>>

CreditBonus(c) ==
    /\ pc[c] = "bonus"
    /\ Credit(c, "bonus", Bonus[pay(c)])
    /\ Finish(c)
    /\ UNCHANGED <<status, outside>>

(* A callback is at one of these steps for the payment.                    *)
Serving(p, steps) == \E c \in Callback : pay(c) = p /\ pc[c] \in steps

(* The panel dies; the callbacks it was serving are not answered.          *)
Crash ==
    /\ "crash" \in faults
    /\ \E c \in Callback : pc[c] \notin {"idle", "done"}
    /\ pc' = [c \in Callback |-> IF pc[c] = "idle" THEN "idle" ELSE "done"]
    /\ request' = [p \in Payment |->
                     IF request[p] \in {"new", "ready"} THEN request[p] ELSE "failed"]
    /\ lost' = [p \in Payment |-> IF Serving(p, {"deposit"}) THEN "credit" ELSE lost[p]]
    /\ UNCHANGED <<books, status, session, fiat, setting, reply, acked>>

-----------------------------------------------------------------------------
Open(p) == \/ ZarinpalOpen(p) \/ ZarinpalRecord(p)
           \/ PlisioRecord(p) \/ PlisioInvoice(p) \/ PlisioGiveUp(p)

Serve(c) == \/ Verify(c) \/ MarkFailed(c) \/ MarkPaid(c)
            \/ CreditDeposit(c) \/ CreditBonus(c)

(* Nobody needs to come back: the panel may stay as it is.                 *)
AtRest == /\ \A c \in Callback : pc[c] \in {"idle", "done"}
          /\ \A p \in Payment : request[p] \in {"ready", "failed"}
          /\ UNCHANGED vars

Next == \/ \E p \in Payment : Open(p) \/ BuyerPays(p) \/ BuyerCancels(p)
        \/ \E n \in Rates : SetRate(n)
        \/ \E c \in Callback : ZarinpalReturns(c) \/ PlisioCalls(c) \/ Serve(c)
        \/ Crash
        \/ AtRest

Spec == Init /\ [][Next]_vars

(* A request in progress keeps executing, and Plisio calls until it is     *)
(* answered.  Nothing makes a buyer pay or return.                         *)
FairSpec ==
    /\ Spec
    /\ \A p \in Payment : WF_vars(Open(p))
    /\ \A c \in Callback : WF_vars(Serve(c))
    /\ \A p \in Payment : WF_vars(\E n \in 1..Calls : PlisioCalls(<<p, n>>))
-----------------------------------------------------------------------------
(* The types of the state: the payment rows, the gateway's sessions and    *)
(* the callbacks in progress.                                              *)
TypeOK ==
    /\ BooksTypeOK
    /\ status \in [Payment -> {"none", "pending", "paid", "failed"}]
    /\ session \in [Payment -> {"none", "open", "captured", "cancelled"}]
    /\ request \in [Payment -> {"new", "record", "invoice", "give up", "ready", "failed"}]
    /\ fiat \in [Payment -> Nat]
    /\ rate \in Rates /\ faults \in Weather
    /\ pc \in [Callback -> {"idle", "verify", "failing", "mark", "deposit", "bonus", "done"}]
    /\ reply \in [Callback -> {"none", "ok", "failed"}]
    /\ acked \subseteq Payment
    /\ lost \in [Payment -> {"no", "credit", "rate", "rounding"}]

(* "exactly one caller credits the wallet" (payment.go:58-60): whatever    *)
(* callbacks repeat or overlap, each leg of a payment is credited at most  *)
(* once, only for money the gateway took and a payment the panel holds for *)
(* paid.                                                                   *)
CreditedOnce ==
    \A p \in Payment : \A leg \in {"deposit", "bonus"} :
        LET credits == RowsOf(<<p, leg>>, User[p])
        IN  /\ Cardinality(credits) <= 1
            /\ credits # {} => status[p] = "paid" /\ session[p] = "captured"

(* "The balance is credited asynchronously by the Plisio webhook once the  *)
(* payment confirms" (controller/payment.go:105-107): a crypto invoice that*)
(* was paid ends in the wallet although its price was rounded to cents,    *)
(* provided that it asks for half a unit of fiat (below, one percent does  *)
(* not absorb the rounding, plisio_webhook.go:93-98) and that neither the  *)
(* database nor a crash interferes -- or else the rate was moved between   *)
(* the invoice and the webhook, so far that the amount was refused.        *)
CapturedInvoiceCredited ==
    \A p \in Payment : Gateway[p] = "plisio" =>
        (faults \subseteq {"rate"} /\ session[p] = "captured" /\ fiat[p] >= 50
            ~> Posted(<<p, "deposit">>) \/ lost[p] = "rate")

(* What an "ok" is worth -- the page that says "your balance has been      *)
(* topped up" (en-US.json:1800-1801, BillingPage.tsx:177-179), and the     *)
(* acknowledgement after which Plisio calls no more.  Under every fault and*)
(* in every order of returns: the gateway has the money, and the wallet has*)
(* it, or another callback is booking it, or it was dropped at the one     *)
(* transaction between paid and credit or for its amount, or an earlier    *)
(* answer had already marked the payment failed.                           *)
OkMeansCredited ==
    \A c \in Callback :
        reply[c] = "ok" =>
            LET p == pay(c)
            IN  /\ session[p] = "captured"
                /\ \/ Posted(<<p, "deposit">>)
                   \/ Serving(p, {"deposit"})
                   \/ status[p] = "failed"
                   \/ lost[p] # "no"
=============================================================================
