------------------------------- MODULE Orders -------------------------------
(***************************************************************************)
(* The sale of a service (service/order.go, controller/client.go): money,  *)
(* the order row, the config on its inbounds, the workspace's treasury and *)
(* the referral commission are moved by separate database transactions of  *)
(* one request, with other requests, deletions of inbounds, failures and a *)
(* crash of the panel between any two of them.                             *)
(*                                                                         *)
(* Each transfer is one atomic step here; Wallet shows that the services   *)
(* make it one.  Traffic, quota and usage counters are left out.  A        *)
(* request is one of                                                       *)
(*   "purchase"  OrderService.Purchase                                     *)
(*   "renew"     OrderService.Renew                                        *)
(*   "create"    ClientController.create, a config made by hand            *)
(*   "reset"     ClientController.resetTrafficByEmail                      *)
(***************************************************************************)
EXTENDS Books, SequencesExt, FiniteSets

CONSTANTS Request,
          Story,      \* [made, faults]: requests that may be made together,
                      \* and whether errors and crashes are considered
          Form,       \* Form[r]: [kind, buyer, store, price, cost, days,
                      \*           inbounds, config] -- what r asks for
          Role, Home, \* of each user; a user's wallet is the user
          Referrer,   \* {} or the set holding the user who referred this one
          Manager,    \* {} or the set holding the manager of a store
          Treasury,   \* {} or the set holding the treasury of a store
          Percent,    \* referral commission, in percent
          Inbound,    \* the inbounds there are at the start
          Deletable,  \* those an administrator deletes meanwhile
          Existing,   \* Existing[c]: [user, store, on], the owner and the
                      \* inbound of each config there is at the start
          Fresh       \* configs the requests are to create

Config == DOMAIN Existing \cup Fresh
SubId  == Request \cup {"there"}

ASSUME OrdersAssumption ==
    /\ Percent \in 0..100
    /\ Story \subseteq [made : SUBSET Request, faults : BOOLEAN]
    /\ Inbound \subseteq Nat
    /\ Deletable \subseteq Inbound
    /\ "" \notin Request
    /\ \A r \in Request : /\ Form[r].buyer \in Account
                          /\ Form[r].price \in Nat /\ Form[r].cost \in Nat
                          /\ Form[r].config \in Config
                          /\ Form[r].inbounds \in Seq(Inbound)
                          /\ Manager[Form[r].store] \subseteq Account
                          /\ Treasury[Form[r].store] \subseteq Account
                          /\ Referrer[Form[r].buyer] \subseteq Account
    \* a wallet is never seeded below zero (user.go:447-450), and treasuries
    \* are other tables than wallets (treasury.go:4)
    /\ \A r, q \in Request : \A a \in {Form[r].buyer} \cup Manager[Form[r].store] :
           InitBalance[a] >= 0 /\ a \notin Treasury[Form[q].store]
    /\ Request \X {"charge", "refund", "cost", "commission"} \subseteq Op
    /\ IsFiniteSet(DOMAIN Existing)

VARIABLES pc,        \* the step each request is at
          order,     \* the order row of each request
          local,     \* its local variables: charged, the money taken; phase,
                     \* the loop over inbounds it is in; wire, the client it
                     \* writes; todo, the inbounds left; read, the settings
                     \* of the inbound whose lock it holds
          settings,  \* the clients in the settings of each inbound there is
          links,     \* the ClientInbound rows, <<config, inbound>>
          cut,       \* history: the links a renewal deleted although their
                     \* inbound had been saved back since it looked
          records,   \* the ClientRecords: [sub, expiry, owner]
          outrun,    \* history: the requests whose refund lost the race for
                     \* the wallets (ErrBalanceConflict)
          deleting,  \* inbounds whose deletion is under way
          faulty     \* whether database errors and crashes are considered

clients == <<settings, links, cut, records>>
world == <<outrun, deleting, faulty>>
vars == <<books, pc, order, local, clients, world>>

Ended == {"unasked", "refused", "failed", "done", "dead"}
Owner(user, store, by) == [user |-> user, store |-> store, by |-> by]
Entry(c, sub, expiry) == [config |-> c, sub |-> sub, expiry |-> expiry]
NoEntry == Entry("", "", 0)
-----------------------------------------------------------------------------
F(r) == Form[r]

Ordered(r) == F(r).kind \in {"purchase", "renew"}
Creates(r) == F(r).kind \in {"purchase", "create"}

(* workspaceCanBuy: customers buy in their own workspace, managers there or*)
(* in the global store, administrators anywhere.                           *)
CanBuy(r) ==
    LET u == F(r).buyer
    IN  \/ Role[u] = "admin"
        \/ F(r).store = Home[u]
        \/ Role[u] = "manager" /\ Treasury[F(r).store] = {}

(* Renew: any config for an administrator, those of his workspace for a    *)
(* manager, his own for anybody.                                           *)
MayRenew(r) ==
    LET u == F(r).buyer
        c == F(r).config
    IN  /\ c \in DOMAIN records
        /\ \/ Role[u] = "admin"
           \/ Role[u] = "manager" /\ records[c].owner.store = Home[u]
           \/ records[c].owner.user = u

(* A manager selling to himself pays the cost of goods only; by hand, no   *)
(* manager or administrator is charged.                                    *)
Exempt(r) ==
    LET u == F(r).buyer
    IN  IF Ordered(r) THEN Role[u] = "manager" /\ Home[u] = F(r).store
                      ELSE Role[u] \in {"admin", "manager"}

Due(r) == IF Exempt(r) THEN 0 ELSE F(r).price

(* Mutated: the manager's leg is left out.                                 *)
SaleBuyerOnly(r, n, sign) == [a \in {F(r).buyer} |-> sign * n]

(* DebitWorkspacePurchase and RefundWorkspacePurchase: sign -1 takes the   *)
(* price from the buyer and gives it to the manager of the store, +1       *)
(* reverses both.                                                          *)
Sale(r, n, sign) ==
    [a \in {F(r).buyer} \cup Manager[F(r).store] |->
        IF a = F(r).buyer THEN sign * n ELSE -sign * n]

Commission(r) == (F(r).price * Percent) \div 100

Goto(r, label) == pc' = [pc EXCEPT ![r] = label]

Init ==
    /\ BooksInit
    /\ \E s \in Story :
          /\ pc = [r \in Request |-> IF r \in s.made THEN "new" ELSE "unasked"]
          /\ faulty = s.faults
    /\ order = [r \in Request |-> "none"]
    /\ local = [r \in Request |-> [charged |-> 0, phase |-> "none", wire |-> NoEntry,
                                   todo |-> <<>>, read |-> <<>>]]
    /\ records = [c \in DOMAIN Existing |->
                    [sub |-> "there", expiry |-> 0,
                     owner |-> Owner(Existing[c].user, Existing[c].store, "")]]
    /\ links = {<<c, Existing[c].on>> : c \in DOMAIN Existing}
    /\ settings = [i \in Inbound |->
                     LET here == {c \in DOMAIN Existing : Existing[c].on = i}
                     IN  SetToSeq({Entry(c, "there", 0) : c \in here})]
    /\ cut = {} /\ outrun = {} /\ deleting = {}
-----------------------------------------------------------------------------
(* Everything checked before money moves: who may buy or renew here, and   *)
(* that every inbound the product targets exists (missingInbounds).  A     *)
(* product may be withdrawn or not meant for the buyer, a workspace's quota*)
(* used up: any request may be refused.                                    *)
Check(r) ==
    /\ pc[r] = "new"
    /\ \/ /\ Ordered(r) => CanBuy(r) /\ ToSet(F(r).inbounds) \subseteq DOMAIN settings
          /\ F(r).kind = "renew" => MayRenew(r)
          /\ F(r).kind = "reset" => F(r).config \in DOMAIN records
          /\ Goto(r, "charge")
       \/ Goto(r, "refused")
    /\ UNCHANGED <<books, order, local, clients, world>>

(* DebitWorkspacePurchase; any error ends the request with nothing done: no*)
(* money, a failing database, or walletMaxRetries lost to other postings on*)
(* the wallets (ErrBalanceConflict), those of the panel's other handlers   *)
(* included.                                                               *)
Charge(r) ==
    /\ pc[r] = "charge"
    /\ LET next == CASE Ordered(r) -> "create"
                     [] F(r).kind = "create" -> "name"
                     [] OTHER -> "reset"
       IN  \/ /\ Due(r) = 0
              /\ Goto(r, next)
              /\ UNCHANGED <<books, local>>
           \/ /\ Due(r) > 0
              /\ Transfer(<<r, "charge">>, Sale(r, Due(r), -1), FALSE)
              /\ local' = [local EXCEPT ![r].charged = Due(r)]
              /\ Goto(r, next)
           \/ /\ Due(r) > 0
              /\ Goto(r, "refused")
              /\ UNCHANGED <<books, local>>
    /\ UNCHANGED <<order, clients, world>>

CreateOrder(r) ==
    /\ pc[r] = "create"
    /\ \/ /\ order' = [order EXCEPT ![r] = "pending"]
          /\ Goto(r, CASE F(r).kind = "renew" -> "readplan"
                       [] F(r).inbounds = <<>> -> "complete"
                       [] OTHER -> "name")
       \/ /\ faulty
          /\ Goto(r, "refund")
          /\ UNCHANGED order
    /\ UNCHANGED <<books, local, clients, world>>

(* ClientService.Create: the name must be free, and some inbound given.    *)
(* The client gets credentials of its own, of which the sub id stands here.*)
CheckName(r) ==
    /\ pc[r] = "name"
    /\ \/ /\ F(r).config \notin DOMAIN records /\ F(r).inbounds # <<>>
          /\ local' = [local EXCEPT ![r].phase = "create", ![r].todo = F(r).inbounds,
                                    ![r].wire = Entry(F(r).config, r, F(r).days)]
          /\ Goto(r, "leg")
       \/ /\ faulty \/ F(r).config \in DOMAIN records \/ F(r).inbounds = <<>>
          /\ Goto(r, "refund")
          /\ UNCHANGED local
    /\ UNCHANGED <<books, order, clients, world>>

(* Creation, renewal and attachment go over inbounds, one leg after the    *)
(* other; where they go on after the last leg, and where when one fails:   *)
(* nothing already written is taken back.                                  *)
After(r) == CASE local[r].phase = "create" -> "stamp"
              [] local[r].phase = "update" -> "touch"
              [] local[r].phase = "attach" -> "commission"

Abort(r) == Goto(r, IF local[r].phase = "attach" THEN "commission" ELSE "refund")

(* Mutated: lockInbound does not lock.                                     *)
LockedNever(i) == FALSE

(* lockInbound: an inbound's settings are changed by one request at a time.*)
Locked(i) == \E q \in Request : pc[q] = "write" /\ Head(local[q].todo) = i

Listed == UNION {ToSet(settings[i]) : i \in DOMAIN settings}

(* checkEmailsExistForClients: the name is in some inbound's settings under*)
(* another sub id.                                                         *)
Clash(e) == \E x \in Listed : x.config = e.config /\ x.sub # e.sub

(* The next leg begins without a lock: a GetInbound, whose answer decides. *)
(* An inbound that has gone ends a creation or an attachment; an update    *)
(* deletes its link to it, and goes on.                                    *)
LookUp(r) ==
    /\ pc[r] = "leg"
    /\ LET there == Head(local[r].todo) \in DOMAIN settings
       IN  \/ there /\ Goto(r, "lock")
           \/ ~there /\ local[r].phase = "update" /\ Goto(r, "unlink")
           \/ (faulty \/ (~there /\ local[r].phase # "update")) /\ Abort(r)
    /\ UNCHANGED <<books, order, local, clients, world>>

NextLeg(r, rest) == Goto(r, IF rest = <<>> THEN After(r) ELSE "leg")

(* That DELETE is a statement of its own, and the inbound may be back.     *)
Unlink(r) ==
    /\ pc[r] = "unlink"
    /\ LET i == Head(local[r].todo)
           gone == links \cap {<<local[r].wire.config, i>>}
           rest == Tail(local[r].todo)
       IN  \/ /\ links' = links \ gone
              /\ cut' = IF i \in DOMAIN settings THEN cut \cup gone ELSE cut
              /\ local' = [local EXCEPT ![r].todo = rest]
              /\ NextLeg(r, rest)
           \/ /\ faulty
              /\ Abort(r)
              /\ UNCHANGED <<local, links, cut>>
    /\ UNCHANGED <<books, order, settings, records, world>>

(* AddInboundClient and UpdateInboundClient under the inbound's lock: the  *)
(* inbound is read once more, and the checks made; gone by now, it is an   *)
(* error for an update too.                                                *)
ReadLeg(r) ==
    /\ pc[r] = "lock"
    /\ LET e == local[r].wire
           i == Head(local[r].todo)
           fits == /\ i \in DOMAIN settings
                   /\ IF local[r].phase = "update"
                      THEN \E k \in DOMAIN settings[i] : settings[i][k].config = e.config
                      ELSE ~Clash(e)
       IN  /\ ~Locked(i)
           /\ \/ /\ fits
                 /\ local' = [local EXCEPT ![r].read = settings[i]]
                 /\ Goto(r, "write")
              \/ /\ faulty \/ ~fits
                 /\ Abort(r)
                 /\ UNCHANGED local
    /\ UNCHANGED <<books, order, clients, world>>

(* Mutated: no SyncInbound after the save.                                 *)
LinksKept(i, list) == links

Elsewhere(pairs, i) == {l \in pairs : l[2] # i}

(* SyncInbound: inbound i's links are those of the clients listed; a client*)
(* without a record gets one, the others' records take over what is listed *)
(* last.                                                                   *)
Links(i, list) == Elsewhere(links, i) \cup {<<x.config, i>> : x \in ToSet(list)}

Records(list) ==
    LET last(c) == list[SelectLastInSeq(list, LAMBDA x : x.config = c)]
        here == {x.config : x \in ToSet(list)}
    IN  [c \in DOMAIN records \cup here |->
            IF c \notin here THEN records[c]
            ELSE [sub |-> last(c).sub, expiry |-> last(c).expiry,
                  owner |-> IF c \in DOMAIN records THEN records[c].owner
                                                    ELSE Owner("", "", "")]]

(* The transaction writes what was read, with the client appended or put in*)
(* the place of its first entry; tx.Save brings back an inbound that has   *)
(* been deleted since.                                                     *)
WriteLeg(r) ==
    /\ pc[r] = "write"
    /\ LET e == local[r].wire
           i == Head(local[r].todo)
           rest == Tail(local[r].todo)
           list == IF local[r].phase = "update"
                   THEN ReplaceAt(local[r].read,
                                  SelectInSeq(local[r].read, LAMBDA x : x.config = e.config), e)
                   ELSE Append(local[r].read, e)
       IN  \/ /\ settings' = [j \in DOMAIN settings \cup {i} |->
                                IF j = i THEN list ELSE settings[j]]
              /\ links' = Links(i, list)
              /\ cut' = Elsewhere(cut, i)
              /\ records' = Records(list)
              /\ local' = [local EXCEPT ![r].todo = rest, ![r].read = <<>>]
              /\ NextLeg(r, rest)
           \/ /\ faulty
              /\ local' = [local EXCEPT ![r].read = <<>>]
              /\ Abort(r)
              /\ UNCHANGED clients
    /\ UNCHANGED <<books, order, world>>

(* ClientService.Create ends by stamping the record of that name.          *)
Stamp(r) ==
    /\ pc[r] = "stamp"
    /\ \/ /\ records' = [records EXCEPT ![F(r).config].owner =
                                Owner(F(r).buyer, F(r).store, r)]
          /\ Goto(r, IF Ordered(r) THEN "complete" ELSE "cost")
       \/ /\ faulty
          /\ Goto(r, "refund")
          /\ UNCHANGED records
    /\ UNCHANGED <<books, order, local, settings, links, cut, world>>

LinkedTo(c) == SetToSortSeq({l[2] : l \in {l \in links : l[1] = c}}, <)

(* applyPlan reads the config and where it is linked, and hands a client   *)
(* extended by the product's duration to ClientService.Update.             *)
ReadPlan(r) ==
    /\ pc[r] = "readplan"
    /\ LET c == F(r).config
           expiry == IF F(r).days > 0 THEN records[c].expiry + F(r).days ELSE 0
       IN  /\ local' = [local EXCEPT ![r].phase = "update", ![r].todo = LinkedTo(c),
                                     ![r].wire = Entry(c, records[c].sub, expiry)]
           /\ Goto(r, IF LinkedTo(c) = <<>> THEN "touch" ELSE "leg")
    /\ UNCHANGED <<books, order, clients, world>>

(* Update's last writes to the record, which can fail when all is done.    *)
Touch(r) ==
    /\ pc[r] = "touch"
    /\ \/ Goto(r, "complete")
       \/ faulty /\ Goto(r, "refund")
    /\ UNCHANGED <<books, order, local, clients, world>>

(* ResetTrafficByEmail for the "reset" handler.                            *)
Reset(r) ==
    /\ pc[r] = "reset"
    /\ \/ Goto(r, "cost")
       \/ faulty /\ Goto(r, "refund")
    /\ UNCHANGED <<books, order, local, clients, world>>

(* Mutated: the caller's charged is shadowed and stays 0.                  *)
PaidNothing(r) == 0

Paid(r) == local[r].charged

(* refund: best effort -- the manager may not have the money any more, the *)
(* database may fail, or other postings on the two wallets get in first at *)
(* each of the walletMaxRetries attempts; all is logged and forgotten.     *)
Refund(r) ==
    /\ pc[r] = "refund"
    /\ LET n == Paid(r)
           back == Sale(r, n, 1)
       IN  \/ n = 0 /\ UNCHANGED <<books, outrun>>
           \/ n > 0 /\ Transfer(<<r, "refund">>, back, FALSE) /\ UNCHANGED outrun
           \/ n > 0 /\ (faulty \/ ~Affordable(back, FALSE)) /\ UNCHANGED <<books, outrun>>
           \/ n > 0 /\ outrun' = outrun \cup {r} /\ UNCHANGED books
    /\ Goto(r, IF order[r] = "none" THEN "failed" ELSE "cancel")
    /\ UNCHANGED <<order, local, clients, deleting, faulty>>

(* Mutated: the cancelled row is not saved.                                *)
CancelUnsaved(r) ==
    /\ pc[r] = "cancel"
    /\ Goto(r, "failed")
    /\ UNCHANGED <<books, order, local, clients, world>>

(* The status update's error is dropped.                                   *)
Cancel(r) ==
    /\ pc[r] = "cancel"
    /\ \/ order' = [order EXCEPT ![r] = "cancelled"]
       \/ faulty /\ UNCHANGED order
    /\ Goto(r, "failed")
    /\ UNCHANGED <<books, local, clients, world>>

(* Mutated: an error of the status update refunds the buyer.               *)
CompleteOrRefund(r) ==
    /\ pc[r] = "complete"
    /\ \/ order' = [order EXCEPT ![r] = "completed"] /\ Goto(r, "cost")
       \/ faulty /\ Goto(r, "refund") /\ UNCHANGED order
    /\ UNCHANGED <<books, local, clients, world>>

Complete(r) ==
    /\ pc[r] = "complete"
    /\ \/ order' = [order EXCEPT ![r] = "completed"]
       \/ faulty /\ UNCHANGED order
    /\ Goto(r, "cost")
    /\ UNCHANGED <<books, local, clients, world>>

(* chargeManagerCostOfGoods / DebitProvisionBandwidth, from the treasury of*)
(* the store (by hand: of the user's workspace, unless an administrator);  *)
(* an error is logged.                                                     *)
CostOfGoods(r) ==
    /\ pc[r] = "cost"
    /\ LET owes == IF ~Ordered(r) /\ Role[F(r).buyer] = "admin" THEN {}
                   ELSE Treasury[F(r).store]
           due == owes # {} /\ F(r).cost > 0
       IN  \/ due /\ Transfer(<<r, "cost">>, [t \in owes |-> -F(r).cost], TRUE)
           \/ UNCHANGED books
    /\ Goto(r, CASE F(r).kind = "renew" -> "links"
                 [] F(r).kind = "purchase" -> "commission"
                 [] OTHER -> "done")
    /\ UNCHANGED <<order, local, clients, world>>

(* Renew converges the config onto the product's inbounds: Attach reads the*)
(* record and its links, and adds it to the other inbounds.                *)
ReadLinks(r) ==
    /\ pc[r] = "links"
    /\ LET c == F(r).config
           todo == SelectSeq(F(r).inbounds, LAMBDA i : <<c, i>> \notin links)
       IN  /\ local' = [local EXCEPT ![r].phase = "attach", ![r].todo = todo,
                                     ![r].wire = Entry(c, records[c].sub, records[c].expiry)]
           /\ Goto(r, IF todo = <<>> THEN "commission" ELSE "leg")
    /\ UNCHANGED <<books, order, clients, world>>

(* payReferralCommission: on the order's amount, which is the product's    *)
(* price, to the buyer's referrer while that one is a reseller.            *)
PayCommission(r) ==
    /\ pc[r] = "commission"
    /\ LET earner == {u \in Referrer[F(r).buyer] : Role[u] = "reseller"}
           due == earner # {} /\ Commission(r) > 0
       IN  \/ due /\ Transfer(<<r, "commission">>, [u \in earner |-> Commission(r)], FALSE)
           \/ UNCHANGED books
    /\ Goto(r, "done")
    /\ UNCHANGED <<order, local, clients, world>>

(* An administrator deletes an inbound, without its lock: its links go ... *)
DetachInbound(i) ==
    /\ i \in (DOMAIN settings \cap Deletable) \ deleting
    /\ links' = Elsewhere(links, i)
    /\ cut' = Elsewhere(cut, i)
    /\ deleting' = deleting \cup {i}
    /\ UNCHANGED <<books, pc, order, local, settings, records, outrun, faulty>>

(* ... and then its row, with the clients in its settings.                 *)
DeleteInbound(i) ==
    /\ i \in deleting
    /\ settings' = [j \in DOMAIN settings \ {i} |-> settings[j]]
    /\ cut' = Elsewhere(cut, i)
    /\ deleting' = deleting \ {i}
    /\ UNCHANGED <<books, pc, order, local, links, records, outrun, faulty>>

(* The panel dies: the requests in flight go no further.                   *)
Running(r) == pc[r] \notin Ended \cup {"new"}

Crash ==
    /\ faulty
    /\ \E r \in Request : Running(r)
    /\ pc' = [r \in Request |-> IF Running(r) THEN "dead" ELSE pc[r]]
    /\ deleting' = {}
    /\ UNCHANGED <<books, order, local, clients, outrun, faulty>>

Advance(r) == \/ Charge(r) \/ CreateOrder(r) \/ CheckName(r) \/ LookUp(r)
              \/ Unlink(r) \/ ReadLeg(r) \/ WriteLeg(r) \/ Stamp(r) \/ ReadPlan(r) \/ Touch(r) \/ Reset(r)
              \/ Refund(r) \/ Cancel(r) \/ Complete(r) \/ CostOfGoods(r)
              \/ ReadLinks(r) \/ PayCommission(r)

AllEnded == (\A r \in Request : pc[r] \in Ended) /\ UNCHANGED vars

Next == \/ \E r \in Request : Check(r) \/ Advance(r)
        \/ \E i \in Inbound : DetachInbound(i) \/ DeleteInbound(i)
        \/ Crash
        \/ AllEnded

Spec == Init /\ [][Next]_vars

(* A request that is being served keeps executing.                         *)
FairSpec == Spec /\ \A r \in Request : WF_vars(Advance(r))
-----------------------------------------------------------------------------
Entries == [config : Config, sub : SubId, expiry : Nat]

(* The types of the state: the books, each request with its order row and  *)
(* locals; every client listed in an inbound or linked to one has a record *)
(* (client_link.go SyncInbound).                                           *)
TypeOK ==
    /\ BooksTypeOK
    /\ order \in [Request -> {"none", "pending", "completed", "cancelled"}]
    /\ \A r \in Request :
         /\ local[r].charged \in {0, F(r).price}
         /\ local[r].phase = "none" \/ local[r].wire \in Entries
         /\ local[r].todo \in Seq(Inbound) /\ local[r].read \in Seq(Entries)
         /\ pc[r] \in {"leg", "unlink", "lock", "write"} => local[r].todo # <<>>
    /\ DOMAIN records \subseteq Config
    /\ \A c \in DOMAIN records : /\ records[c].sub \in SubId
                                 /\ records[c].expiry \in Nat
                                 /\ records[c].owner.user \in Account \cup {""}
    /\ DOMAIN settings \subseteq Inbound /\ Listed \subseteq Entries
    /\ {x.config : x \in Listed} \cup {l[1] : l \in links} \subseteq DOMAIN records
    /\ deleting \subseteq Deletable /\ outrun \subseteq Request
    /\ faulty \in BOOLEAN

(* An inbound that is not being deleted is linked to exactly the clients in*)
(* its settings (client_link.go:12-153, inbound.go:839-904), a subscription*)
(* being built from the links and the core's config from the settings,     *)
(* whatever is deleted and saved back meanwhile -- but for the links that a*)
(* renewal deletes after its inbound, gone when it looked without the lock,*)
(* has come back with a writer (client_crud.go:333-342): those alone are   *)
(* listed and not linked, until the next write on that inbound.            *)
Named(pairs, i) == {l[1] : l \in {l \in pairs : l[2] = i}}

LinkedAsListed ==
    ~faulty => \A i \in DOMAIN settings \ deleting :
        /\ Named(links, i) \cup Named(cut, i) = {x.config : x \in ToSet(settings[i])}
        /\ Named(links, i) \cap Named(cut, i) = {}

Charged(r)  == Posted(<<r, "charge">>)
Refunded(r) == Posted(<<r, "refund">>)

(* What the charge and the refund of r moved on account a in the end.      *)
Net(r, a) ==
    LET moved(kind) == IF RowsOf(<<r, kind>>, a) = {} THEN 0
                       ELSE LET i == CHOOSE i \in RowsOf(<<r, kind>>, a) : TRUE
                            IN  ledger[a][i].after - ledger[a][i].before
    IN  moved("charge") + moved("refund")

(* A completed order was paid for exactly once and kept its price          *)
(* (order.go:136-147); one cancelled or refused cost the buyer nothing or, *)
(* where the refund did not go through, the price.  What the buyer paid is *)
(* what the manager of the store earned.                                   *)
PaidInFull ==
    \A r \in Request :
        LET b == F(r).buyer
        IN  /\ order[r] = "completed" => Net(r, b) = -Due(r)
            /\ pc[r] = "refused" => Net(r, b) = 0
            /\ \A m \in Manager[F(r).store] \ {b} : Net(r, m) = -Net(r, b)

(* A refunded request (order.go:162-167, controller/client.go:315-321) is  *)
(* sold nowhere: it owns no config, completed no order, cost the treasury  *)
(* and the referrer nothing.  And unless the database failed, the refund is*)
(* for something: an inbound is left that it did not get to write.  What it*)
(* wrote before that one stays: clients nobody owns of a creation, entries *)
(* extended of a renewal.  "Creation never happened" (controller/          *)
(* client.go:317) is not so then.                                          *)
RefundedNotSold ==
    \A r \in Request :
        Refunded(r) => /\ \A c \in DOMAIN records : records[c].owner.by # r
                       /\ ~Posted(<<r, "cost">>)
                       /\ ~Posted(<<r, "commission">>)
                       /\ order[r] # "completed"
                       /\ ~faulty /\ local[r].phase # "none" => local[r].todo # <<>>

(* One config name is sold once on an inbound (client_crud.go:82-91,       *)
(* client_inbound_apply.go:176-204): of the requests that want to create it*)
(* and share an inbound, one at most succeeds.  Not so while a renewal of  *)
(* that very name runs beside them: it writes the sub id of the record, the*)
(* one listed last, into every entry, and the check under the lock takes   *)
(* the other's entry for its own.                                          *)
Renewed(c) == \E s \in Request : pc[s] # "unasked" /\ F(s).kind = "renew" /\ F(s).config = c

NameSoldOnce ==
    \A r, q \in Request :
        /\ r # q /\ Creates(r) /\ Creates(q) /\ F(r).config = F(q).config
        /\ ToSet(F(r).inbounds) \cap ToSet(F(q).inbounds) # {}
        /\ ~Renewed(F(r).config)
        => ~(pc[r] = "done" /\ pc[q] = "done")

(* Without database errors, the only money a failed request keeps is money *)
(* the manager of the store has spent since he earned it (refund,          *)
(* order.go:392-404), a row of his after the sale's says, unless the refund*)
(* lost the race for the wallets (wallet.go:172-178).                      *)
SpentSince(r, m) == \E i \in RowsOf(<<r, "charge">>, m) : \E j \in DOMAIN ledger[m] :
                       j > i /\ ledger[m][j].after < ledger[m][j].before

OnlySpentRevenueWithheld ==
    ~faulty => \A r \in Request :
        pc[r] = "failed" /\ Charged(r) /\ ~Refunded(r) /\ r \notin outrun
            => \E m \in Manager[F(r).store] \ {F(r).buyer} : SpentSince(r, m)

(* Every order reaches a final status (order.go:162-175) unless the        *)
(* database fails or the panel dies.                                       *)
OrdersSettle ==
    \A r \in {r \in Request : Ordered(r)} :
        ~faulty /\ order[r] = "pending" ~> order[r] \in {"completed", "cancelled"}
=============================================================================
