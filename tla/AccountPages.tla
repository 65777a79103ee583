---------------------------- MODULE AccountPages ----------------------------
(***************************************************************************)
(* The pages about people: the accounts of the panel and of a workspace,   *)
(* the workspaces, the clients' groups and the tickets.                    *)
(***************************************************************************)
EXTENDS PageOps

(* Users: one dialog both creates and edits, by what `editing` holds.      *)
UsersList == Listed("query", "error")

UsersEdits ==
    "create" :> [NewForm("user") EXCEPT !.does = "named"] @@ "edit" :> RowForm("user")
    @@ "delete" :> Delete

UsersBalanceUnread == "balance" :> [Bump("balance") EXCEPT !.refresh = "never"]
UsersBalance == "balance" :> Bump("balance")

UsersHistory == "history" :> View("history")

UsersHandlers == UsersEdits @@ UsersBalance @@ UsersHistory

UsersOffers ==
    [odd \in BOOLEAN |-> {"edit", "balance", "history"} \cup IF odd THEN {} ELSE {"delete"}]

UsersDialogs == "user" :> Dialog("save") @@ "balance" :> Dialog("balance") @@ "history" :> Plain

(* A workspace's own users.                                                *)
TenantUsersList == Listed("query", "error")

TenantUsersHandlers ==
    "create" :> [NewForm("user") EXCEPT !.does = "named"] @@ "edit" :> RowForm("user")
    @@ "delete" :> Delete @@ "balance" :> Bump("balance")

TenantUsersOffers ==
    [odd \in BOOLEAN |-> {"edit", "balance"} \cup IF odd THEN {} ELSE {"delete"}]

TenantUsersDialogs == "user" :> Dialog("save") @@ "balance" :> Dialog("balance")

(* Workspaces: a new one shows its key, as a rotated key does; the allowed *)
(* inbounds are fetched before their form, which a failure leaves empty.   *)
ManagersList == Listed("query", "error")

ManagersHandlers ==
    "create" :> [NewForm("create") EXCEPT !.does = "named", !.shows = "key"]
    @@ "bandwidth" :> RowForm("bandwidth")
    @@ "inbounds" :> [RowForm("inbounds") EXCEPT !.from = "first", !.empty = "opens",
                                                 !.does = "other", !.refresh = "never"]
    @@ "domain" :> RowForm("domain") @@ "charge" :> Bump("charge")
    @@ "details" :> View("details") @@ "toggle" :> AtOnce("-")
    @@ "rotate" :> [Ask EXCEPT !.does = "other", !.refresh = "never", !.shows = "key"]
    @@ "delete" :> Delete

ManagersOffers == ForAll({"details", "toggle", "charge", "bandwidth", "inbounds", "domain", "rotate", "delete"})

ManagersDialogs ==
    "create" :> Dialog("create") @@ "bandwidth" :> Dialog("bandwidth")
    @@ "inbounds" :> Dialog("inbounds") @@ "domain" :> Dialog("domain")
    @@ "charge" :> Dialog("charge") @@ "details" :> Plain @@ "key" :> Plain

(* Groups: what acts on a group's clients fetches their emails first, and  *)
(* gives up when there are none.  The group and the emails are one state   *)
(* for the four dialogs, each of which acts on what it holds by then.      *)
GroupsList == Listed("query", "error")

GroupsNames == "create" :> [NewForm("create") EXCEPT !.does = "named"]
               @@ "rename" :> RowForm("rename") @@ "delete" :> Delete

GroupsOnClients ==
    "subLinks" :> Shared([First(RowForm("subLinks")) EXCEPT !.does = "nothing"])
    @@ "adjust" :> Shared([First(RowForm("adjust")) EXCEPT !.does = "bump"])
    @@ "addClients" :> Shared([RowForm("addClients") EXCEPT !.from = "blank"])
    @@ "removeClients" :> Shared([RowForm("removeClients") EXCEPT !.from = "blank"])

GroupsAsked == [a \in {"deleteClients", "reset"} |-> [Ask EXCEPT !.from = "late"]]

GroupsHandlers == GroupsNames @@ GroupsOnClients @@ GroupsAsked

GroupsOffers ==
    [odd \in BOOLEAN |-> {"rename", "delete", "addClients"} \cup
        IF odd THEN {} ELSE {"subLinks", "adjust", "removeClients", "deleteClients", "reset"}]

GroupsDialogs ==
    "create" :> [Dialog("create") EXCEPT !.enter = TRUE]
    @@ "rename" :> [Dialog("rename") EXCEPT !.enter = TRUE]
    @@ "subLinks" :> Plain @@ "adjust" :> HandFlag("adjust")
    @@ "addClients" :> HandFlag("add") @@ "removeClients" :> HandFlag("remove")

(* Tickets, and one ticket with its messages: the composer stands on the   *)
(* page and an answer clears it.                                           *)
TicketsList == Listed("query", "empty")

TicketsHandlers == "create" :> NewForm("create")

TicketsDialogs == "create" :> Dialog("create")

TicketList == Behind("load", Listed("query", "kept"))

TicketReply == "reply" :> NewForm("reply")

TicketActions == [a \in {"status", "priority", "assign", "transfer", "escalate", "reopen"} |->
                     OnPage(AtOnce("-"))]

TicketDialogs == "reply" :> Inline(Dialog("reply"))

(* Ticket categories, a tab of the settings.                               *)
CategoriesList == Listed("query", "empty")

CategoriesHandlers ==
    "create" :> NewForm("category") @@ "edit" :> RowForm("category")
    @@ "toggle" :> AtOnce("-") @@ "move" :> AtOnce("-") @@ "delete" :> Delete

CategoriesDialogs == "category" :> Dialog("save")

AccountCatalogue ==
    "users" :> Page(UsersList, UsersHandlers, UsersOffers, UsersDialogs)
    @@ "tenantUsers" :> Page(TenantUsersList, TenantUsersHandlers, TenantUsersOffers, TenantUsersDialogs)
    @@ "managers" :> Page(ManagersList, ManagersHandlers, ManagersOffers, ManagersDialogs)
    @@ "groups" :> Page(GroupsList, GroupsHandlers, GroupsOffers, GroupsDialogs)
    @@ "tickets" :> Page(TicketsList, TicketsHandlers, ForAll({}), TicketsDialogs)
    @@ "ticket" :> Page(TicketList, TicketReply @@ TicketActions, ForAll({}), TicketDialogs)
    @@ "categories" :> Page(CategoriesList, CategoriesHandlers,
                            ForAll({"edit", "toggle", "move", "delete"}), CategoriesDialogs)
=============================================================================
