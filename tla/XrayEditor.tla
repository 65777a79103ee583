----------------------------- MODULE XrayEditor -----------------------------
(***************************************************************************)
(* The page that edits the core's configuration template: the hook that    *)
(* keeps it (hooks/useXraySetting.ts) and the sections that change it      *)
(* (pages/xray: XrayPage, OutboundsTab, RoutingTab, RoutingBasic,          *)
(* BalancersTab, BasicsTab, DnsTab, NordModal, WarpModal); XrayTemplate    *)
(* has what they make of it.                                               *)
(*                                                                         *)
(* The template is held twice, as a value the sections change and as the   *)
(* text that is saved; both are replaced whenever a fetch brings a         *)
(* configuration other than the last one.  Rules name outbounds and        *)
(* balancers by tag, balancers choose outbounds by tag, and the            *)
(* observatories list what the balancers choose from.                      *)
(***************************************************************************)
EXTENDS XrayTemplate

CONSTANTS MaxHandEdits,   \* bound on the changes made by hand
          MaxSaves,   \* bound on the saves sent
          MaxSubs     \* bound on the requests that change a subscription

VARIABLES template, text, url,     \* what the page shows: the value, the text, the test URL
          oldText, oldUrl,         \* oldXraySettingRef, oldOutboundTestUrlRef
          saveDisabled,
          dialog,                  \* the form open over the page
          cached, fetch,           \* the config query: its data and the fetch under way
          saves, defaults, logout, subWork,  \* the other requests under way
          server,
          handEdits, sent, changed,  \* how many edits, saves and subscription changes so far
          gone, misled,            \* history: what was taken away by hand, what the page cannot know
          astray                   \* history: a place remembered was used when something else was there

shown == <<template, text, url>>
old == <<oldText, oldUrl>>
query == <<cached, fetch>>
counts == <<handEdits, sent, changed>>
editorVars == <<shown, old, saveDisabled, dialog, query, saves, defaults, logout, subWork, server,
                counts, gone, misled, astray>>

-----------------------------------------------------------------------------
Closed == [form |-> "none", at |-> 0]
NoFetch == [state |-> "none"]

(* The page opens on an edited template, to be edited further, or on the   *)
(* default one, to be edited and saved.                                    *)
EditorInit ==
    /\ \/ template = Start /\ sent = MaxSaves /\ changed = MaxSubs
       \/ template = Default /\ sent = 0 /\ changed = MaxSubs
       \/ template = Default /\ sent = 1 /\ changed = 0
    /\ server = [template |-> template, url |-> 0, subs |-> 0]
    /\ text = template /\ url = 0
    /\ oldText = template /\ oldUrl = 0 /\ saveDisabled = TRUE
    /\ dialog = Closed
    /\ cached = server /\ fetch = NoFetch
    /\ saves = {} /\ defaults = FALSE /\ logout = -1 /\ subWork = "none"
    /\ handEdits = 0 /\ gone = {} /\ misled = FALSE /\ astray = FALSE

(* setXraySetting as it would be, had it parsed only what the tab shows.   *)
ShowTextOnly(next) == text' = next /\ UNCHANGED template

(* setXraySetting: a text that does not parse leaves the value alone.      *)
ShowText(next) ==
    /\ text' = next
    /\ template' = IF next = Broken THEN template ELSE next

(* setTemplateSettings, with the value as it is when the update runs.      *)
ShowTemplate(next) == template' = next /\ text' = next

(* The tags of outbounds and balancers a replaced template no longer has.  *)
Names(t) == Outbounds(t) \union {t.balancers[i].tag : i \in DOMAIN t.balancers}
Lost(t, next) == Names(t) \ Names(next)

requests == <<saves, defaults, logout, subWork>>

(* A change made by hand, with the tags it takes away on purpose.          *)
Edit(next, lost) ==
    /\ ShowTemplate(next)
    /\ gone' = gone \union lost
    /\ UNCHANGED <<url, old, saveDisabled, query, requests, server, sent, changed, misled>>

EditOnPage(next, lost) ==
    /\ dialog.form = "none" /\ handEdits < MaxHandEdits /\ handEdits' = handEdits + 1
    /\ Edit(next, lost) /\ UNCHANGED <<dialog, astray>>

(* The advanced section.                                                   *)
Type(next) ==
    /\ dialog.form = "none" /\ handEdits < MaxHandEdits
    /\ handEdits' = handEdits + 1
    /\ ShowText(next)
    /\ gone' = gone \union Lost(template, template')
    /\ UNCHANGED <<url, old, saveDisabled, dialog, query, requests, server, sent, changed, misled, astray>>
TypeRules == EditOnPage([template EXCEPT !.rules = <<>>], {})
TypeOutbounds ==
    LET next == [template EXCEPT !.outbounds = <<"direct">>]
    IN  EditOnPage(next, Lost(template, next))

(* The observatory's own editor, under the balancers.                      *)
TypeObservatory ==
    /\ template.observatory.on
    /\ EditOnPage([template EXCEPT !.observatory.of = {"direct"}], {"observatory"})

(* The basics: settings of the direct outbound, and the test URL.          *)
SetStrategy == EditOnPage(WithDirect(template), {})
SetUrl ==
    /\ dialog.form = "none" /\ handEdits < MaxHandEdits
    /\ handEdits' = handEdits + 1 /\ url' = 1 - url
    /\ UNCHANGED <<template, text, old, saveDisabled, dialog, query, requests, server, sent, changed,
                   gone, misled, astray>>
Route(b, on) ==
    /\ on \/ \E i \in DOMAIN template.rules : Matches(template.rules[i], b[1], b[2])
    /\ EditOnPage(SetBasic(template, b, on), {})

(* The lists: move by a step, to the front or by dragging; deleting asks   *)
(* first, below.                                                           *)
MoveOutbound(i, j) ==
    /\ i # j /\ (j = 1 \/ j \in {i - 1, i + 1})
    /\ EditOnPage([template EXCEPT !.outbounds = Moved(@, i, j)], {})
MoveRule(i, j) == i # j /\ EditOnPage([template EXCEPT !.rules = Moved(@, i, j)], {})

-----------------------------------------------------------------------------
(* The basics' options and the DNS section, whose lists are shown while    *)
(* there is a "dns" to show them of.                                       *)
SetOption(o) == EditOnPage([template EXCEPT !.options = Toggled(@, o)], {})
SwitchDns == EditOnPage(DnsSwitched(template), {})
EditDns(dns) == template.dns.on /\ EditOnPage([template EXCEPT !.dns = dns], {})
SetDnsField(f) == EditDns([template.dns EXCEPT !.fields = Toggled(@, f)])
SetHosts(rows) == EditDns([template.dns EXCEPT !.hosts = HostsWritten(rows)])
DeleteServer(i) == EditDns([template.dns EXCEPT !.servers = RemoveAt(@, i)])
EditFakeDns(list) == template.dns.on /\ EditOnPage([template EXCEPT !.fakedns = list], {})

-----------------------------------------------------------------------------
(* The forms remember the index they were opened at, 0 to add, and the     *)
(* outbound form the tags taken then.  `tag` is history: what was at that  *)
(* index.                                                                  *)
Rows(f) ==
    CASE f = "outbound" -> template.outbounds [] f = "rule" -> template.rules
      [] f = "balancer" -> template.balancers [] f = "server" -> template.dns.servers
FormNames == {"outbound", "rule", "balancer", "server"}
TagAt(t, f, i) ==
    CASE f = "outbound" /\ i \in DOMAIN t.outbounds -> t.outbounds[i]
      [] f = "balancer" /\ i \in DOMAIN t.balancers -> t.balancers[i].tag
      [] OTHER -> ""

(* All of the servers at once: the presets, and the question before        *)
(* clearing the list.                                                      *)
ListDialogs == {"presets", "clear"}

OpenForm(f, i) ==
    /\ dialog.form = "none" /\ handEdits < MaxHandEdits /\ handEdits' = handEdits + 1
    /\ i \in {0} \union DOMAIN Rows(f)
    /\ f = "server" => template.dns.on
    /\ dialog' = [form |-> f, at |-> i,
                  tag |-> TagAt(template, f, i),
                  taken |-> {template.outbounds[j] : j \in DOMAIN template.outbounds \ {i}},
                  was |-> IF f = "rule" /\ i > 0 THEN template.rules[i] ELSE Rule({}, "", "")]
    /\ UNCHANGED <<shown, old, saveDisabled, query, requests, server, sent, changed, gone, misled, astray>>
OpenList(f) ==
    /\ dialog.form = "none" /\ handEdits < MaxHandEdits /\ handEdits' = handEdits + 1
    /\ template.dns.on /\ (f = "clear" => template.dns.servers # <<>>)
    /\ dialog' = [form |-> f, at |-> 0]
    /\ UNCHANGED <<shown, old, saveDisabled, query, requests, server, sent, changed, gone, misled, astray>>
CloseForm ==
    /\ dialog.form # "none" /\ dialog' = Closed
    /\ UNCHANGED <<shown, old, saveDisabled, query, requests, server, counts, gone, misled, astray>>

(* The question before an entry of a list is deleted: it is answered later,*)
(* and the list may have been replaced by then.                            *)
AskDelete(f, i) ==
    /\ dialog.form = "none" /\ handEdits < MaxHandEdits /\ handEdits' = handEdits + 1
    /\ f # "server" /\ i \in DOMAIN Rows(f)
    /\ dialog' = [form |-> "delete", of |-> f, at |-> i, tag |-> TagAt(template, f, i)]
    /\ UNCHANGED <<shown, old, saveDisabled, query, requests, server, sent, changed, gone, misled, astray>>

Confirmed(f, next, lost) ==
    dialog.form = f /\ dialog' = Closed /\ Edit(next, lost) /\ UNCHANGED handEdits

(* Is something else there now than when the dialog was opened?            *)
Strayed(f) == TagAt(template, f, dialog.at) \notin {dialog.tag, ""}

(* What is taken away on purpose is what was seen.                         *)
ConfirmedAt(f, list, next) ==
    /\ Confirmed(f, next, Lost(template, next) \intersect {dialog.tag})
    /\ astray' = (astray \/ Strayed(list))

Without(list, i) == IF i \in DOMAIN list THEN RemoveAt(list, i) ELSE list

ConfirmDelete ==
    /\ dialog.form = "delete"
    /\ \/ /\ dialog.of = "outbound"
          /\ ConfirmedAt("delete", "outbound", WithoutOutbound(template, dialog.at))
       \/ /\ dialog.of = "balancer"
          /\ ConfirmedAt("delete", "balancer",
                         Sync([template EXCEPT !.balancers = Without(@, dialog.at)]))
       \/ /\ dialog.of = "rule"
          /\ Confirmed("delete", [template EXCEPT !.rules = Without(@, dialog.at)], {})
          /\ UNCHANGED astray

TagFree(tag) == tag # "" /\ tag \notin dialog.taken
ConfirmOutbound(tag) ==
    LET i == dialog.at
        next == [template EXCEPT !.outbounds = IF i = 0 THEN Append(@, tag) ELSE Put(@, i, tag, "")]
    IN  /\ dialog.form = "outbound"
        /\ TagFree(tag)
        /\ ConfirmedAt("outbound", "outbound", next)

(* The form offers the tags there are, and keeps what the rule named.      *)
ConfirmRule(filled, to, via) ==
    LET i == dialog.at
        rule == RuleMade(filled, to, via)
    IN  /\ dialog.form = "rule"
        /\ to \in Offered(Outbounds(template), dialog.was.to)
        /\ via \in Offered({template.balancers[j].tag : j \in DOMAIN template.balancers}, dialog.was.via)
        /\ Confirmed("rule", [template EXCEPT !.rules =
                                 IF i = 0 THEN Append(@, rule) ELSE Put(@, i, rule, Rule({}, "", ""))], {})
        /\ UNCHANGED astray

ConfirmBalancer(tag, strategy, selector, tuned) ==
    LET i == dialog.at
        wire == BalancerMade(tag, strategy, selector, tuned)
        next == [template EXCEPT !.balancers =
                    IF i = 0 THEN Append(@, wire) ELSE Put(@, i, wire, Balancer("", "none", {}, FALSE))]
        renamed == i \in DOMAIN template.balancers
    IN  /\ dialog.form = "balancer" /\ BalancerComplete(tag, selector)
        /\ \A j \in DOMAIN template.balancers \ {i} : template.balancers[j].tag # tag
        /\ Confirmed("balancer",
                     Sync(IF renamed THEN Rebalanced(next, template.balancers[i].tag, tag) ELSE next), {})
        /\ UNCHANGED astray

(* By the time a dialog on the servers is answered there may be no "dns".  *)
WithServers(servers) == IF template.dns.on THEN [template EXCEPT !.dns.servers = servers] ELSE template
ConfirmServer(filled) ==
    LET i == dialog.at
        value == ServerMade(filled)
        list == template.dns.servers
    IN  /\ Confirmed("server", WithServers(IF i = 0 THEN Append(list, value) ELSE Put(list, i, value, NoServer)), {})
        /\ UNCHANGED astray
InstallPreset == Confirmed("presets", WithServers(Preset), {}) /\ UNCHANGED astray
ClearServers == Confirmed("clear", WithServers(<<>>), {}) /\ UNCHANGED astray

-----------------------------------------------------------------------------
(* NordVPN and WARP.  The index of the outbound is that of the last        *)
(* render; a logout removes what is there once it is answered, and the     *)
(* rules that name one of NordVPN's.  WARP's outbound is removed by its    *)
(* tag, once its own request is answered.                                  *)
NordIndex == SelectInSeq(template.outbounds, LAMBDA o : o \in NordTags)

AddNord(tag) == NordIndex = 0 /\ EditOnPage([template EXCEPT !.outbounds = Append(@, tag)], {})
ResetNord(tag) ==
    /\ NordIndex > 0
    /\ EditOnPage(Retargeted([template EXCEPT !.outbounds[NordIndex] = tag],
                             template.outbounds[NordIndex], tag), {})
AddWarp == IndexOf(template, "warp") = 0 /\ EditOnPage(WithOutbound(template, "warp"), {})
DeleteWarp == EditOnPage(WithoutOutbound(template, IndexOf(template, "warp")), {"warp"})

Logout ==
    /\ dialog.form = "none" /\ logout = -1 /\ handEdits < MaxHandEdits
    /\ logout' = NordIndex /\ handEdits' = handEdits + 1
    /\ dialog' = [form |-> "nord", at |-> 0]
    /\ UNCHANGED <<shown, old, saveDisabled, query, saves, defaults, subWork, server, sent, changed,
                   gone, misled, astray>>
LoggedOut ==
    LET next == [WithoutOutbound(template, logout) EXCEPT
                    !.rules = Kept(@, {i \in DOMAIN @ : @[i].to \notin NordTags})]
    IN  /\ logout # -1 /\ logout' = -1
        /\ dialog' = IF dialog.form = "nord" THEN Closed ELSE dialog
        /\ ShowTemplate(next)
        /\ gone' = gone \union (Lost(template, next) \intersect NordTags)
        /\ astray' = (astray \/ TagAt(template, "outbound", logout) \notin NordTags \union {""})
        /\ UNCHANGED <<url, old, saveDisabled, query, saves, defaults, subWork, server, counts, misled>>

-----------------------------------------------------------------------------
(* The server and the config query.                                        *)
Invalidated == [state |-> "asked"]

(* A save sends what is shown, if it parses; saves may overlap.            *)
SaveAll ==
    /\ dialog.form = "none" /\ ~saveDisabled /\ text # Broken /\ sent < MaxSaves
    /\ sent' = sent + 1
    /\ saves' = saves \union {[n |-> sent', text |-> text, url |-> url, state |-> "sent"]}
    /\ misled' = (misled \/ saves # {})
    /\ UNCHANGED <<shown, old, saveDisabled, dialog, query, defaults, logout, subWork, server,
                   handEdits, changed, gone, astray>>

(* updateSetting refuses, or stores both, or fails after storing: the core *)
(* does not restart.                                                       *)
SaveHandled(s, stored, ok) ==
    /\ s.state = "sent" /\ (ok => stored)
    /\ saves' = (saves \ {s}) \union {[s EXCEPT !.state = IF ok THEN "done" ELSE "failed"]}
    /\ server' = IF stored THEN [server EXCEPT !.template = s.text, !.url = s.url] ELSE server
    /\ misled' = (misled \/ (stored /\ ~ok))
    /\ UNCHANGED <<shown, old, saveDisabled, dialog, query, defaults, logout, subWork, counts, gone, astray>>

(* onSuccess, had it read the text again instead of what was sent.         *)
SaveAnsweredReadingText(s) ==
    /\ s.state # "sent" /\ saves' = saves \ {s}
    /\ IF s.state = "done"
       THEN oldText' = text /\ oldUrl' = url /\ saveDisabled' = TRUE /\ UNCHANGED query
       ELSE UNCHANGED <<old, saveDisabled, query>>
    /\ UNCHANGED <<shown, dialog, defaults, logout, subWork, server, counts, gone, misled, astray>>

SaveAnswered(s) ==
    /\ s.state # "sent" /\ saves' = saves \ {s}
    /\ IF s.state = "done"
       THEN /\ oldText' = s.text /\ oldUrl' = s.url /\ saveDisabled' = TRUE
            /\ fetch' = Invalidated /\ UNCHANGED cached
       ELSE UNCHANGED <<old, saveDisabled, query>>
    /\ UNCHANGED <<shown, dialog, defaults, logout, subWork, server, counts, gone, misled, astray>>

FetchRead ==
    /\ fetch.state = "asked"
    /\ fetch' = [state |-> "read", read |-> server]
    /\ UNCHANGED <<shown, old, saveDisabled, dialog, cached, requests, server, counts, gone, misled, astray>>

(* An equal answer keeps the cached object, and the effect does not run.   *)
FetchDone ==
    /\ fetch.state = "read"
    /\ fetch' = NoFetch /\ cached' = fetch.read
    /\ IF fetch.read = cached THEN UNCHANGED <<shown, old, saveDisabled, gone>>
       ELSE /\ ShowTemplate(cached'.template) /\ url' = cached'.url
            /\ oldText' = cached'.template /\ oldUrl' = cached'.url /\ saveDisabled' = TRUE
            /\ gone' = gone \union Lost(template, template')
    /\ UNCHANGED <<dialog, requests, server, counts, misled, astray>>
FetchFail ==
    /\ fetch.state = "asked" /\ fetch' = NoFetch
    /\ UNCHANGED <<shown, old, saveDisabled, dialog, cached, requests, server, counts, gone, misled, astray>>

ResetDefault ==
    /\ dialog.form = "none" /\ ~defaults /\ handEdits < MaxHandEdits
    /\ defaults' = TRUE /\ handEdits' = handEdits + 1
    /\ UNCHANGED <<shown, old, saveDisabled, dialog, query, saves, logout, subWork, server, sent, changed,
                   gone, misled, astray>>
DefaultArrives ==
    /\ defaults /\ defaults' = FALSE
    /\ ShowTemplate(Default) /\ gone' = gone \union Lost(template, Default)
    /\ UNCHANGED <<url, old, saveDisabled, dialog, query, saves, logout, subWork, server, counts, misled,
                   astray>>

(* The subscription manager: a change, the list again, then the config.    *)
ChangeSub ==
    /\ dialog.form = "none" /\ subWork = "none" /\ changed < MaxSubs
    /\ subWork' = "sent" /\ changed' = changed + 1
    /\ UNCHANGED <<shown, old, saveDisabled, dialog, query, saves, defaults, logout, server, handEdits,
                   sent, gone, misled, astray>>
SubChanged(moved) ==
    /\ subWork = "sent" /\ subWork' = "listing"
    /\ server' = IF moved THEN [server EXCEPT !.subs = @ + 1] ELSE server
    /\ UNCHANGED <<shown, old, saveDisabled, dialog, query, saves, defaults, logout, counts, gone, misled, astray>>
SubRefused ==
    /\ subWork = "sent" /\ subWork' = "none"
    /\ UNCHANGED <<shown, old, saveDisabled, dialog, query, saves, defaults, logout, server, counts, gone,
                   misled, astray>>
SubListed ==
    /\ subWork = "listing" /\ subWork' = "none"
    /\ fetch' = Invalidated
    /\ UNCHANGED <<shown, old, saveDisabled, dialog, cached, saves, defaults, logout, server, counts, gone,
                   misled, astray>>

Clean == oldText = text /\ oldUrl = url
Poll ==
    /\ saveDisabled' = Clean
    /\ UNCHANGED <<shown, old, dialog, query, requests, server, counts, gone, misled, astray>>

-----------------------------------------------------------------------------
Sections ==
    \/ \E next \in Typed : Type(next)
    \/ TypeRules \/ TypeOutbounds \/ TypeObservatory
    \/ SetStrategy \/ SetUrl
    \/ \E b \in Basics, on \in BOOLEAN : Route(b, on)
    \/ \E i \in DOMAIN template.outbounds :
          \E j \in DOMAIN template.outbounds : MoveOutbound(i, j)
    \/ \E i \in DOMAIN template.rules :
          \E j \in DOMAIN template.rules : MoveRule(i, j)
    \/ \E tag \in NordTags : AddNord(tag) \/ ResetNord(tag)
    \/ AddWarp \/ DeleteWarp \/ Logout
    \/ \E o \in Options : SetOption(o)
    \/ SwitchDns
    \/ \E f \in DnsFields : SetDnsField(f)
    \/ \E rows \in HostRows : SetHosts(rows)
    \/ \E i \in DOMAIN template.dns.servers : DeleteServer(i)
    \/ EditFakeDns(PoolAdded(template.fakedns))
    \/ \E i \in DOMAIN template.fakedns :
          EditFakeDns(PoolDeleted(template.fakedns, i)) \/ EditFakeDns(PoolChanged(template.fakedns, i))

Forms ==
    \/ \E f \in FormNames : \E i \in 0..Len(Rows(f)) : OpenForm(f, i)
    \/ \E f \in FormNames : \E i \in 1..Len(Rows(f)) : AskDelete(f, i)
    \/ \E f \in ListDialogs : OpenList(f)
    \/ CloseForm \/ ConfirmDelete
    \/ \E tag \in NewTags : ConfirmOutbound(tag)
    \/ \E filled \in {{"ip"}, {"other"}}, to \in Tags \union {""}, via \in {"", "bal", "new"} :
          ConfirmRule(filled, to, via)
    \/ \E tag \in {"bal", "new"}, strategy \in Strategies, selector \in {{"us"}, {"us", "direct"}},
          tuned \in BOOLEAN : ConfirmBalancer(tag, strategy, selector, tuned)
    \/ \E filled \in {{}, {"list"}, {"other", "emptyRow"}} : ConfirmServer(filled)
    \/ InstallPreset \/ ClearServers

Answers ==
    \/ LoggedOut \/ DefaultArrives
    \/ \E s \in saves : SaveAnswered(s) \/ \E stored, ok \in BOOLEAN : SaveHandled(s, stored, ok)
    \/ FetchRead \/ FetchDone \/ FetchFail
    \/ \E moved \in BOOLEAN : SubChanged(moved)
    \/ SubRefused \/ SubListed

EditorNext == Sections \/ Forms \/ Answers \/ SaveAll \/ ResetDefault \/ ChangeSub \/ Poll
EditorSpec == EditorInit /\ [][EditorNext]_editorVars

-----------------------------------------------------------------------------
(* Whatever was edited, typed, fetched or reset, and in whatever order: a  *)
(* text that parses is the template the sections show, so that saving the  *)
(* one saves the other (useXraySetting.ts keeps both).                     *)
TextAgrees == text # Broken => text = template

(* With nothing under way a page that says all is saved is right about the *)
(* server: what it compares with is what the server has.  Not when saves   *)
(* overlapped or one was stored and yet reported as failed (misled): the   *)
(* page cannot tell.                                                       *)
Idle == saves = {} /\ fetch = NoFetch /\ subWork = "none"
CleanIsSaved == Idle /\ ~misled /\ Clean => server.template = text /\ server.url = url

(* No rule is left without the outbound or the balancer it names, and the  *)
(* observatories watch exactly what balancers choose from once none was    *)
(* written by hand, whatever is moved, routed, renamed, reset, fetched and *)
(* answered late.  Missing is only what was taken away by someone who saw  *)
(* it: deleted, renamed in the outbound form, logged out of, or replaced   *)
(* with the whole template (gone).  Until, that is, a place held across an *)
(* await is used when something else stands there (astray): the pages      *)
(* delete by index (OutboundsTab.tsx:223, BalancersTab.tsx:276,            *)
(* NordModal.tsx:191), so an answer that replaces the template meanwhile,  *)
(* or an edit during a logout, makes them take away the wrong one.         *)
TagsResolve ==
    ~astray =>
        /\ \A i \in DOMAIN template.rules :
              /\ template.rules[i].to \in Outbounds(template) \union gone \union {""}
              /\ template.rules[i].via \in Names(template) \union gone \union {""}
        /\ "observatory" \notin gone => template = Sync(template)
=============================================================================
