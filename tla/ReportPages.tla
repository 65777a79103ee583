----------------------------- MODULE ReportPages -----------------------------
(***************************************************************************)
(* Pages and windows that mostly show: the finance tabs, a client's links  *)
(* and addresses, what a purchase brought, the form that tries a node, the *)
(* versions installed, and the two forms in front of the panel.            *)
(***************************************************************************)
EXTENDS PageOps

(* Finance: one tab at a time, each a query keyed by the workspace chosen  *)
(* and by its own filters; a user's profile is keyed by the user.          *)
Keyed(slot) == [View(slot) EXCEPT !.on = "page", !.turns = TRUE]

FinanceOverview == "overview" :> Keyed("tab")
FinanceDeposits == "deposits" :> Keyed("tab")
FinanceAnalytics == "analytics" :> Keyed("tab")
FinanceCashflow == "cashflow" :> Keyed("tab")
FinanceWorkspaces == "workspaces" :> [Keyed("tab") EXCEPT !.turns = FALSE]
FinanceProfile == "profile" :> View("profile")

FinanceDialogs == "tab" :> Inline(Plain) @@ "profile" :> Plain

(* The rosters nothing is done to: a reseller's customers and code.        *)
CustomersList == Listed("query", "empty")
ReferralList == Listed("query", "error")

(* A client's windows: the effect that fetches the links is cancelled when *)
(* the client changes; the subscription links come from the list.          *)
ClientLinks == "info" :> [View("info") EXCEPT !.guard = "latest"]
ClientQr == "qr" :> [View("qr") EXCEPT !.guard = "latest"]
ClientSubLinks == "subLinks" :> [View("subLinks") EXCEPT !.on = "rows", !.from = "row"]

ClientInfoDialogs == [s \in {"info", "qr", "subLinks"} |-> Plain]

(* A client's addresses, in its own window and in its inbound's, have no   *)
(* guard: they are those of the last answer.                               *)
ClientIps == "ips" :> Unguarded(View("ips")) @@ "clear" :> Unlisted(OnPage(AtOnce("clear")))

InboundIps == "inboundIps" :> Unguarded(View("inboundIps"))
InboundIpsActs == "reload" :> Unguarded(View("inboundIps")) @@ "clearInboundIps" :> Unlisted(AtOnce("-"))

IpsDialogs == [s \in {"ips", "inboundIps"} |-> Inline(Plain)] @@ "clear" :> Inline(HandFlag("ipsClearing"))

(* The subscription a purchase brought, fetched when the answer to the     *)
(* purchase did not bring it, and by a button.                             *)
PurchaseDetails == "details" :> Unguarded(View("details"))

PurchaseDialogs == "details" :> Inline(Plain)

(* The node form tries the node and fetches its certificate's pin, and     *)
(* writes the answers into whatever node it holds by then.                 *)
NodeTest == "test" :> Unguarded(View("test"))
NodePin == "pin" :> Unguarded(View("pin"))

NodeFormDialogs == [s \in {"test", "pin"} |-> Inline(Plain)]

(* Versions of the core, the geo files and the panel.                      *)
VersionsList == "versions" :> [Unguarded(View("versions")) EXCEPT !.on = "page"]

VersionsInstall == "install" :> Unlisted(Ask)
    @@ "geofile" :> Unlisted(Ask) @@ "geofiles" :> Unlisted(OnPage(Ask))

PanelUpdate == "update" :> Unlisted(OnPage(Ask))

DatabaseImport == "import" :> Unlisted(OnPage(AtOnce("-")))

VersionsDialogs == "versions" :> Inline(Plain)

(* In front of the panel: a success leaves the page, a refused form stays; *)
(* the server refuses a name that is taken.                                *)
Entry(slot) == OnPage(RowForm(slot))

LoginSubmit == "login" :> Unlisted(Entry("login"))

LoginDialogs == "login" :> Inline(HandFlag("submitting"))

RegisterSubmit == "register" :> [Entry("register") EXCEPT !.does = "named", !.refresh = "never"]

RegisterDialogs == "register" :> Inline(HandFlag("submitting"))

Nothing == Listed("none", "kept")

ReportCatalogue ==
    "finance" :> Page(Nothing, FinanceOverview @@ FinanceDeposits @@ FinanceAnalytics @@ FinanceCashflow
                          @@ FinanceWorkspaces @@ FinanceProfile, ForAll({"profile"}), FinanceDialogs)
    @@ "customers" :> Page(CustomersList, <<>>, ForAll({}), <<>>)
    @@ "referral" :> Page(ReferralList, <<>>, ForAll({}), <<>>)
    @@ "clientInfo" :> Page(Nothing, ClientLinks @@ ClientQr @@ ClientSubLinks, ForAll({"info", "qr", "pick"}),
                            ClientInfoDialogs)
    @@ "clientIps" :> Page(Nothing, ClientIps @@ InboundIps @@ InboundIpsActs,
                           ForAll({"ips", "inboundIps", "reload", "clearInboundIps"}), IpsDialogs)
    @@ "purchase" :> Page(Nothing, PurchaseDetails, ForAll({"details"}), PurchaseDialogs)
    @@ "nodeForm" :> Page(Nothing, NodeTest @@ NodePin, ForAll({"test", "pin"}), NodeFormDialogs)
    @@ "versions" :> Page(Nothing, VersionsList @@ VersionsInstall @@ PanelUpdate @@ DatabaseImport,
                          ForAll({"install", "geofile"}), VersionsDialogs)
    @@ "login" :> Page(Nothing, LoginSubmit, ForAll({}), LoginDialogs)
    @@ "register" :> Page(Nothing, RegisterSubmit, ForAll({}), RegisterDialogs)
=============================================================================
