----------------------------- MODULE ServerPages -----------------------------
(***************************************************************************)
(* The pages about machines: the nodes, the custom geo files, the inbounds *)
(* and the server itself.                                                  *)
(***************************************************************************)
EXTENDS PageOps

(* Nodes: the form probes before it saves and stays until it has an answer;*)
(* only nodes that are up and enabled can be selected and updated.         *)
NodesList == Listed("query", "error")

NodesForm == "add" :> NewForm("node") @@ "edit" :> RowForm("node")

NodesRows ==
    "delete" :> Delete @@ "probe" :> AtOnce("-") @@ "toggle" :> AtOnce("-")
    @@ "update" :> [Ask EXCEPT !.clears = TRUE]
    @@ "updateSelected" :> [Ask EXCEPT !.on = "rows", !.clears = TRUE]

NodesOffers ==
    [odd \in BOOLEAN |-> {"edit", "delete", "probe", "toggle"} \cup IF odd THEN {} ELSE {"update", "pick"}]

NodesDialogs == "node" :> [HandFlag("submitting") EXCEPT !.locked = TRUE]

(* Custom geo files: the list is the component's own request, and nothing  *)
(* keeps an older answer from replacing a newer one.                       *)
GeoList == Listed("loader", "kept")

GeoHandlers ==
    "add" :> NewForm("form") @@ "edit" :> RowForm("form") @@ "delete" :> Delete
    @@ "download" :> AtOnce("-") @@ "updateAll" :> OnPage(AtOnce("updateAll"))

GeoOffers == ForAll({"edit", "delete", "download"})

GeoForm == "form" :> HandFlag("saving")

GeoDialogs == GeoForm @@ "updateAll" :> Inline(HandFlag("updatingAll"))

(* Inbounds: what needs the clients' secrets fetches the inbound first and *)
(* makes do with the listed row when that fails; what was fetched replaces *)
(* the row in the list.  The Odd inbound has no clients.                   *)
InboundsList == [Behind("load", Listed("query", "error")) EXCEPT !.copies = TRUE]

Hydrated(op) == [First(op) EXCEPT !.empty = "opens", !.swaps = TRUE]

InboundsForms ==
    "add" :> NewForm("form") @@ "edit" :> Hydrated(RowForm("form")) @@ "import" :> NewForm("prompt")

InboundsText ==
    [a \in {"exportAll", "subsAll"} |-> [Hydrated(View("text")) EXCEPT !.on = "page"]]
    @@ [a \in {"export", "subs", "clipboard"} |-> Hydrated(View("text"))]
    @@ "showInfo" :> Hydrated(View("info")) @@ "qrcode" :> Hydrated(View("qr"))

InboundsAsked ==
    [a \in {"resetTraffic", "delAllClients"} |-> Ask]
    @@ "delete" :> Delete @@ "clone" :> [Hydrated(Ask) EXCEPT !.does = "add"]
    @@ "resetAll" :> OnPage(Ask)
    @@ "bulkDelete" :> [Delete EXCEPT !.on = "rows", !.refresh = "always", !.clears = TRUE]

(* The switch reads nothing again: the server's message does.  The place it*)
(* is drawn in meanwhile is not the row's data, and is left out.           *)
InboundsSwitch == "toggle" :> [AtOnce("-") EXCEPT !.refresh = "push"]

InboundsAttach ==
    "attachClients" :> Hydrated(RowForm("attach")) @@ "detachClients" :> RowForm("detach")
    @@ "addToGroup" :> Hydrated(RowForm("group"))

InboundsAttachExistingLate ==
    "attachExisting" :> [RowForm("existing") EXCEPT !.from = "fetch", !.guard = "none"]
InboundsAttachExisting ==
    "attachExisting" :> [RowForm("existing") EXCEPT !.from = "fetch", !.guard = "latest"]

InboundsOffers ==
    [odd \in BOOLEAN |->
        {"edit", "qrcode", "clipboard", "resetTraffic", "clone", "delete", "toggle", "pick"}
        \cup IF odd THEN {"showInfo"}
             ELSE {"export", "subs", "attachExisting", "attachClients", "detachClients",
                   "addToGroup", "delAllClients"}]

InboundsDialogs ==
    "form" :> HandFlag("saving") @@ "prompt" :> HandFlag("promptLoading")
    @@ [s \in {"text", "info", "qr"} |-> Plain]
    @@ [s \in {"attach", "detach", "existing"} |-> HandFlag(s)]
    @@ "group" :> [HandFlag("group") EXCEPT !.enter = TRUE]

(* The server's own page: its readings are polled; a log or a graph can be *)
(* turned to another level or range, and shows the last answer to arrive.  *)
HomeList == Behind("load", Listed("query", "error"))

HomeCore == [a \in {"stop", "restart"} |-> [OnPage(AtOnce("-")) EXCEPT !.refresh = "always"]]

Turning(slot) == [View(slot) EXCEPT !.on = "page", !.guard = "none", !.turns = TRUE]

HomeConfig == "config" :> [First(View("config")) EXCEPT !.on = "page"]
HomeLogs == "logs" :> Turning("logs")
HomeXrayLogs == "xrayLogs" :> Turning("xrayLogs")
HomeHistory == "history" :> Turning("history")
HomeMetrics == "metrics" :> Turning("metrics")

HomeDialogs == [s \in {"config", "logs", "xrayLogs", "history", "metrics"} |-> Plain]

ServerCatalogue ==
    "nodes" :> Page(NodesList, NodesForm @@ NodesRows, NodesOffers, NodesDialogs)
    @@ "geo" :> Page(GeoList, GeoHandlers, GeoOffers, GeoDialogs)
    @@ "inbounds" :> Page(InboundsList, InboundsForms @@ InboundsText @@ InboundsAsked @@ InboundsSwitch
                              @@ InboundsAttach @@ InboundsAttachExisting,
                          InboundsOffers, InboundsDialogs)
    @@ "home" :> Page(HomeList, HomeCore @@ HomeConfig @@ HomeLogs @@ HomeXrayLogs @@ HomeHistory
                          @@ HomeMetrics, ForAll({}), HomeDialogs)
=============================================================================
