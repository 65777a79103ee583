---------------------------- MODULE SettingsPages ----------------------------
(***************************************************************************)
(* The pages about the panel itself: its settings, a workspace's, the      *)
(* tokens, the payment cards, the referral codes, the notifications.  A    *)
(* settings page is one draft on the page, which a save makes the server's *)
(* and the reading that follows replaces.                                  *)
(***************************************************************************)
EXTENDS PageOps

Draft(slot) == OnPage(RowForm(slot))

(* Panel settings: saving and restarting spin the same page.               *)
SettingsList == Behind("answer", Listed("query", "kept"))

SettingsSave == "save" :> Draft("draft")

SettingsRestart == "restart" :> [OnPage(Ask) EXCEPT !.does = "other", !.refresh = "never"]

SettingsDialogs == "draft" :> Inline(Dialog("save"))

(* Security: the tokens' list is the tab's own request; a new token is     *)
(* shown once.                                                             *)
TokensList == Listed("loader", "kept")

TokensHandlers ==
    "create" :> [NewForm("create") EXCEPT !.shows = "created"] @@ "delete" :> Delete
    @@ "toggle" :> [AtOnce("-") EXCEPT !.refresh = "patch"]

TokensUser == "updateUser" :> [OnPage(AtOnce("updating")) EXCEPT !.does = "other", !.refresh = "never"]

TokensDialogs ==
    "create" :> HandFlag("creating") @@ "created" :> Plain
    @@ "updating" :> Inline(HandFlag("updating"))

(* The company's payment cards.                                            *)
CardsList == Listed("query", "empty")

CardsHandlers ==
    "create" :> NewForm("card") @@ "edit" :> RowForm("card") @@ "toggle" :> AtOnce("-")
    @@ "delete" :> Delete

CardsOffers == ForAll({"edit", "toggle", "delete"})

CardsDialogs == "card" :> Dialog("save")

(* The resellers' referral codes.                                          *)
ReferralsList == Listed("query", "empty")

ReferralsHandlers == "code" :> RowForm("editing") @@ "toggle" :> AtOnce("-")

ReferralsDialogs == "editing" :> Dialog("code")

(* A workspace's settings, with its prices beside them, and its gateways.  *)
WorkspaceList == Behind("load", Listed("query", "error"))

WorkspaceSave == "save" :> Draft("draft") @@ "pricing" :> Draft("pricing")

WorkspaceDialogs == [s \in {"draft", "pricing"} |-> Inline(Dialog(s))]

GatewaysList == Behind("load", Listed("query", "error"))

GatewaysSave == "save" :> Draft("draft")

GatewaysDialogs == "draft" :> Inline(Dialog("save"))

(* A user's own password: the form is submitted by Enter too.              *)
ProfileSave == "save" :> Draft("draft")

ProfileDialogs == "draft" :> Inline([Dialog("save") EXCEPT !.enter = TRUE])

(* The bell: a notification is read by a click, all by a button, and the   *)
(* list is read again whatever the answer.                                 *)
BellList == Listed("query", "empty")

BellHandlers == "read" :> [AtOnce("-") EXCEPT !.refresh = "always"]
                @@ "readAll" :> [OnPage(AtOnce("-")) EXCEPT !.refresh = "always"]

SettingsCatalogue ==
    "settings" :> Page(SettingsList, SettingsSave @@ SettingsRestart, ForAll({}), SettingsDialogs)
    @@ "security" :> Page(TokensList, TokensHandlers @@ TokensUser, ForAll({"delete", "toggle"}),
                          TokensDialogs)
    @@ "cards" :> Page(CardsList, CardsHandlers, CardsOffers, CardsDialogs)
    @@ "referrals" :> Page(ReferralsList, ReferralsHandlers, ForAll({"code", "toggle"}),
                           ReferralsDialogs)
    @@ "workspace" :> Page(WorkspaceList, WorkspaceSave, ForAll({}), WorkspaceDialogs)
    @@ "gateways" :> Page(GatewaysList, GatewaysSave, ForAll({}), GatewaysDialogs)
    @@ "profile" :> Page(Listed("query", "kept"), ProfileSave, ForAll({}), ProfileDialogs)
    @@ "bell" :> Page(BellList, BellHandlers, ForAll({"read"}), "bell" :> Plain)
=============================================================================
