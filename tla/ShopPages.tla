------------------------------ MODULE ShopPages ------------------------------
(***************************************************************************)
(* The pages about money: the products on sale, a customer's services, the *)
(* store, the wallet's payments and deposits, the orders.                  *)
(***************************************************************************)
EXTENDS PageOps

Order(op) == [op EXCEPT !.does = "order", !.refresh = "never"]

(* Products: a move sends the whole order of the list as shown.            *)
ProductsList == Listed("query", "error")

ProductsRows == "move" :> AtOnce("-") @@ "delete" :> Delete @@ "toggle" :> AtOnce("-")

ProductsForm == "create" :> NewForm("product") @@ "edit" :> RowForm("product")

ProductsOffers == ForAll({"move", "toggle", "edit", "delete"})

ProductsDialogs == "product" :> Dialog("save")

(* Services: editing and renewing lower one flag, each in its own finally  *)
(* clause, and Enter submits the edit form's only field.                   *)
ServicesList == Listed("query", "error")

ServicesEdit == "edit" :> RowForm("editing")

ServicesRenew == "renew" :> [Bump("renewing") EXCEPT !.shows = "qr"]

ServicesOffers == ForAll({"config", "renew", "edit"})

ServicesDialogs ==
    "editing" :> [HandFlag("busy") EXCEPT !.enter = TRUE] @@ "renewing" :> HandFlag("busy")
    @@ "qr" :> Plain

ServicesConfig == "config" :> [View("qr") EXCEPT !.from = "row"]

(* Store: what is bought appears in other lists; a foreign shop or an      *)
(* empty purse disables the button.                                        *)
StoreList == Listed("query", "error")

StoreHandlers == "buy" :> [Order(Bump("buying")) EXCEPT !.shows = "success"]

StoreOffers == [odd \in BOOLEAN |-> IF odd THEN {} ELSE {"buy"}]

StoreDialogsUnflagged == "buying" :> HandFlag("-") @@ "success" :> Plain
StoreDialogs == "buying" :> HandFlag("busy") @@ "success" :> Plain

(* Billing: an amount stands on the page; a success hands the browser to   *)
(* the gateway, whose return invalidates the payments.                     *)
BillingList == Listed("query", "empty")

BillingHandlers == [g \in {"zarinpal", "plisio"} |-> OnPage(Order(AtOnce(g)))]

BillingForms == [g \in {"zarinpal", "plisio"} |-> Inline(Dialog(g))]

(* Deposits by bank transfer: a customer's form, and the administrator's   *)
(* decisions.                                                              *)
DepositList == Listed("query", "empty")

DepositHandlers == "submit" :> NewForm("deposit")

DepositForm == "deposit" :> Inline(Dialog("submit"))

DepositsList == Listed("query", "empty")

DepositsHandlers ==
    "approve" :> Ask @@ "reject" :> RowForm("reject") @@ "detail" :> [View("detail") EXCEPT !.from = "row"]

DepositsOffers == [odd \in BOOLEAN |-> {"detail"} \cup IF odd THEN {} ELSE {"approve", "reject"}]

DepositsDialogs == "reject" :> Dialog("reject") @@ "detail" :> Plain

(* Orders are only listed.                                                 *)
OrdersList == Listed("query", "error")

ShopCatalogue ==
    "products" :> Page(ProductsList, ProductsRows @@ ProductsForm, ProductsOffers, ProductsDialogs)
    @@ "services" :> Page(ServicesList, ServicesEdit @@ ServicesRenew @@ ServicesConfig,
                          ServicesOffers, ServicesDialogs)
    @@ "store" :> Page(StoreList, StoreHandlers, StoreOffers, StoreDialogs)
    @@ "billing" :> Page(BillingList, BillingHandlers, ForAll({}), BillingForms)
    @@ "deposit" :> Page(DepositList, DepositHandlers, ForAll({}), DepositForm)
    @@ "deposits" :> Page(DepositsList, DepositsHandlers, DepositsOffers, DepositsDialogs)
    @@ "orders" :> Page(OrdersList, <<>>, ForAll({}), "none" :> Plain)
=============================================================================
