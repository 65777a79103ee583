------------------------------ MODULE XrayPages ------------------------------
(***************************************************************************)
(* What the outbounds' section keeps on the server beside the template of  *)
(* XrayEditor: the outbounds' traffic and tests, the subscriptions that    *)
(* bring outbounds, the WARP account and the NordVPN one.                  *)
(***************************************************************************)
EXTENDS PageOps

(* Outbounds: the listed rows are their traffic.  A test is sent for the   *)
(* outbound as it was drawn, and only its button waits for the answer; the *)
(* tests of all run in two lanes under one flag.                           *)
OutboundsList == Listed("query", "kept")

OutboundsReset == "reset" :> AtOnce("-") @@ "resetAll" :> OnPage(Ask)

OutboundsTest == "test" :> Unlisted(AtOnce("-"))

OutboundsTestSub == "testSub" :> Unlisted(AtOnce("-"))

OutboundsTestAll == "testAll" :> Unlisted(OnPage(AtOnce("testAll")))

(* The Odd outbound is a black hole, which nothing can test.               *)
Testable == {"test", "testSub"}

OutboundsOffers ==
    [odd \in BOOLEAN |-> {"reset"} \cup IF odd THEN {} ELSE Testable]

OutboundsDialogs == "testAll" :> Inline(HandFlag("testingAll"))

(* Subscriptions: the list is the tab's own request; the form above it may *)
(* be given another subscription while a save is under way.  Refreshing    *)
(* all reads the list again whatever became of each.                       *)
SubsList == Listed("loader", "kept")

SubsForm == "add" :> NewForm("sub") @@ "edit" :> RowForm("sub")

SubsPreview == "preview" :> Unlisted(OnPage(AtOnce("preview")))

SubsRows == "toggle" :> AtOnce("-") @@ "move" :> [AtOnce("-") EXCEPT !.does = "order"]

SubsRefresh == "refresh" :> AtOnce("-")
    @@ "refreshAll" :> [OnPage(AtOnce("refreshAll")) EXCEPT !.refresh = "always"]

SubsDelete == "delete" :> Delete

SubsOffers == ForAll({"edit", "toggle", "move", "refresh", "delete"})

SubsDialogs ==
    [s \in {"sub", "preview", "refreshAll"} |-> Inline(HandFlag(s))]

(* WARP: the account, read when the window opens, and what is done with it *)
(* raise one flag; the answers to all of them write the same state.        *)
Account(op) == [OnPage(AtOnce("account")) EXCEPT !.does = op, !.refresh = "never"]

Shown(slot) == [Unguarded(View(slot)) EXCEPT !.on = "page"]

WarpData == "data" :> Shown("data")

WarpHandlers == "register" :> Account("add") @@ [a \in {"config", "license"} |-> Account("set")]

WarpDelete == "delete" :> Account("other")

WarpDialogs == "data" :> Inline(Plain) @@ "account" :> Inline(HandFlag("loading"))

(* NordVPN: the servers follow the country chosen, in the order of the     *)
(* answers.                                                                *)
NordData == "data" :> Shown("data")

NordHandlers == [a \in {"login", "saveKey"} |-> Account("add")]

NordLogout == "logout" :> Account("other")

NordServers == "servers" :> [Shown("servers") EXCEPT !.turns = TRUE]

NordDialogs == [s \in {"data", "servers"} |-> Inline(Plain)]
               @@ "account" :> Inline(HandFlag("loading"))

XrayCatalogue ==
    "outbounds" :> Page(OutboundsList, OutboundsReset @@ OutboundsTest @@ OutboundsTestSub
                            @@ OutboundsTestAll, OutboundsOffers, OutboundsDialogs)
    @@ "outboundSubs" :> Page(SubsList, SubsForm @@ SubsPreview @@ SubsRows @@ SubsRefresh @@ SubsDelete,
                              SubsOffers, SubsDialogs)
    @@ "warp" :> Page(Listed("none", "kept"), WarpData @@ WarpHandlers @@ WarpDelete, ForAll({}),
                      WarpDialogs)
    @@ "nord" :> Page(Listed("none", "kept"), NordData @@ NordHandlers @@ NordLogout @@ NordServers,
                      ForAll({}), NordDialogs)
=============================================================================
