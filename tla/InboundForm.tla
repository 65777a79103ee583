---------------------------- MODULE InboundForm ----------------------------
(***************************************************************************)
(* The dialog in which an inbound is made or changed: pages/inbounds/form/ *)
(* (InboundFormModal.tsx, useSecurityActions.ts, useInboundFallbacks.ts),  *)
(* its adapter to the stored inbound (lib/xray/inbound-form-adapter.ts)    *)
(* and the tag it keeps up to date (lib/xray/inbound-tag.ts).  The links   *)
(* of what it stores are ShareLinks', and LinkImport's once imported.      *)
(*                                                                         *)
(* The dialog stays mounted while it is closed: an answer of the server    *)
(* writes into whatever the form shows when it arrives.  Secrets come in   *)
(* pairs, of which the server keeps one half and the links carry the       *)
(* other; a half is the number of the answer it came with, 0 when blank,   *)
(* and Pasted when the user typed it.                                      *)
(***************************************************************************)
EXTENDS LinkImport

CONSTANTS Protocols,  \* the protocols considered
          MaxEdits,   \* bound on the user's edits and openings of the dialog
          MaxAsks,    \* bound on the requests for secrets
          MaxInbounds \* bound on the inbounds of the server

VARIABLES open,       \* the dialog is open
          editing,    \* the inbound it edits, or 0 for a new one
          form,       \* its values
          auto,       \* autoTagRef: the tag follows the other fields
          saving,     \* the flag that disables Save and the generators
          rows,       \* the fallback rows shown
          asks,       \* requests not answered yet
          store,      \* the inbounds of the server
          fallbacks,  \* their fallbacks there
          edits, asked \* how many of each so far

vars == <<open, editing, form, auto, saving, rows, asks, store, fallbacks, edits, asked>>
dialog == <<open, editing>>
server == <<store, fallbacks>>

Pairs == {"keys", "seed", "ech", "encryption"}
Fresh == <<0, 0>>
Pasted == MaxAsks + 1
ClientHalf(p) == CASE p = "keys" -> "publicKey" [] p = "seed" -> "mldsa65Verify" [] p = "ech" -> "ech"
                   [] p = "encryption" -> "encryption"

-----------------------------------------------------------------------------
(* protocol-capabilities.ts.                                               *)
StreamProtocols == {"vmess", "vless", "trojan", "shadowsocks", "hysteria"}
CanEnableTls(f) == \/ f.protocol = "hysteria"
                   \/ /\ f.protocol \in StreamProtocols
                      /\ f.network \in {"tcp", "ws", "grpc", "httpupgrade", "xhttp"}
CanEnableReality(f) == f.protocol \in {"vless", "trojan"} /\ f.network \in {"tcp", "grpc", "xhttp"}

(* inbound-tag.ts: the transports an inbound listens on, and the tag made  *)
(* of its node, port and transports.                                       *)
Transports(f) ==
    CASE f.protocol \in {"hysteria", "wireguard"} -> {"udp"}
      [] f.protocol \in {"shadowsocks", "tunnel"} /\ f.nets # {} -> f.nets
      [] OTHER -> {IF f.network = "kcp" THEN "udp" ELSE "tcp"}
                  \union (IF f.protocol = "mixed" THEN f.nets ELSE {})

Composed(f) == [kind |-> "composed", of |-> <<f.node, f.port, Transports(f)>>]
OwnTag == [kind |-> "own", of |-> <<0, 0, {}>>]
NoTag == [kind |-> "none", of |-> <<0, 0, {}>>]
IsAutoTag(tag, f) == tag = NoTag \/ (tag.kind \in {"composed", "numbered"} /\ tag.of = Composed(f).of)

(* The effect that follows every change of a field the tag is made of.     *)
Retagged(f) == IF auto THEN [f EXCEPT !.tag = Composed(f)] ELSE f

(* inbound-defaults.ts: createDefaultInboundSettings, the part the links   *)
(* and the tag read.                                                       *)
DefaultNets(p) == IF p \in {"shadowsocks", "tunnel"} THEN {"tcp", "udp"} ELSE {}
DefaultSettings(f, p) ==
    [f EXCEPT !.protocol = p, !.method = "aes2022", !.version = 2, !.nets = DefaultNets(p),
              !.pair["encryption"] = Fresh, !.byHand = @ \ {"encryption"}]

(* buildAddModeValues.  byHand is history: the pairs of which the user     *)
(* typed a half since both were written.                                   *)
NewForm ==
    [protocol |-> "vless", network |-> "tcp", security |-> "none", set |-> {}, proxies |-> {},
     pair |-> [p \in Pairs |-> Fresh], byHand |-> {}, method |-> "aes2022", version |-> 2, nets |-> {},
     port |-> 1, node |-> 0, tag |-> NoTag]

-----------------------------------------------------------------------------
(* The adapter.  rawInboundToFormValues gives the stored values back; on   *)
(* the way out InboundFormSchema.safeParse keeps only the settings of the  *)
(* network and the security chosen, and pruneEmpty and its kin drop what   *)
(* is blank.                                                               *)
Known(f) == NetworkSettings(f.network) \union SecuritySettings(f.security) \union MaskSettings

(* The pairs whose halves are written for a form of this kind.             *)
PairsOf(f) == (IF f.security = "reality" THEN {"keys", "seed"} ELSE {})
              \union (IF f.security = "tls" THEN {"ech"} ELSE {})
              \union (IF f.protocol = "vless" THEN {"encryption"} ELSE {})

FormToWire(f) ==
    [f EXCEPT !.set = @ \cap Known(f),
              !.byHand = @ \cap PairsOf(f),
              !.pair = [p \in Pairs |-> IF p \in PairsOf(f) THEN f.pair[p] ELSE Fresh]]
WireToForm(i) == i

(* What ShareLinks is given of a stored inbound.                           *)
ForLinks(i) ==
    [protocol |-> i.protocol, network |-> i.network, security |-> i.security, port |-> i.port,
     set |-> (i.set \ {"publicKey", "mldsa65Verify", "ech"})
             \union {ClientHalf(p) : p \in {q \in Pairs \ {"encryption"} : i.pair[q][2] # 0}},
     encryption |-> IF i.pair["encryption"][2] = 0 THEN "none" ELSE "encryption",
     method |-> i.method, version |-> i.version, proxies |-> i.proxies]

-----------------------------------------------------------------------------
(* The inbounds there may be at first: one plain and one with Reality, or  *)
(* one of every kind, with all, none, one or all but one of its settings   *)
(* filled and every external proxy.                                        *)
Kinds == {k \in [protocol : ClientProtocols, network : Networks, security : {"none", "tls", "reality"}] :
             /\ k.security = "reality" => k.protocol \in {"vless", "trojan"}
             /\ k.network = "hysteria" <=> k.protocol = "hysteria"
             /\ k.protocol = "hysteria" => k.security = "tls"}
Fillings(all) == {{}, all} \union {{s} : s \in all} \union {all \ {s} : s \in all}
Stored(k, set, eps) ==
    LET f == [NewForm EXCEPT !.protocol = k.protocol, !.network = k.network, !.security = k.security,
                             !.set = set, !.proxies = eps, !.nets = DefaultNets(k.protocol),
                             !.pair["keys"] = IF k.security = "reality" THEN <<1, 1>> ELSE Fresh]
    IN  [f EXCEPT !.tag = Composed(f)]

ProxySets == {{}} \union {{ep} : ep \in Proxies({{}, {"proxy.sni"}, ProxySettings})}
Reality == [protocol |-> "vless", network |-> "tcp", security |-> "reality"]
Tls == [protocol |-> "trojan", network |-> "tcp", security |-> "tls"]

Init ==
    /\ open = FALSE /\ editing = 0 /\ form = NewForm /\ auto = TRUE /\ saving = FALSE
    /\ rows = {} /\ asks = {} /\ asked = 1
    /\ \/ /\ store = (1 :> Stored(Reality, {"serverNames", "shortIds"}, {}))
                     @@ (2 :> [Stored(Tls, {"serverName"}, {}) EXCEPT !.tag.kind = "numbered"])
          /\ fallbacks = (1 :> {<<1, "a">>}) @@ (2 :> {<<2, "b">>}) /\ edits = 0
       \/ \E k \in Kinds, eps \in ProxySets :
             \E set \in Fillings((NetworkSettings(k.network) \union SecuritySettings(k.security)
                                  \union MaskSettings) \ {"publicKey", "privateKey", "ech"}) :
                /\ store = (1 :> Stored(k, set, eps))
                /\ fallbacks = (1 :> {}) /\ edits = MaxEdits

-----------------------------------------------------------------------------
(* The dialog opens: the form is reset, and the fallbacks asked for; those *)
(* shown stay until the answer.                                            *)
Show(id, values) ==
    /\ ~open /\ edits < MaxEdits
    /\ open' = TRUE /\ editing' = id /\ edits' = edits + 1
    /\ auto' = IsAutoTag(values.tag, values)
    /\ form' = IF auto' THEN [values EXCEPT !.tag = Composed(values)] ELSE values
    /\ UNCHANGED <<saving, server, asked>>

OpenAdd ==
    /\ Show(0, NewForm)
    /\ rows' = {} /\ UNCHANGED asks

OpenEdit(id) ==
    /\ Show(id, WireToForm(store[id]))
    /\ IF store[id].protocol \in {"vless", "trojan"}
       THEN asks' = asks \union {[kind |-> "fallbacks", id |-> id]} /\ UNCHANGED rows
       ELSE rows' = {} /\ UNCHANGED asks

Close ==
    /\ open
    /\ open' = FALSE
    /\ UNCHANGED <<editing, form, auto, saving, rows, asks, server, edits, asked>>

(* An edit of the user's, after which the tag follows.                     *)
Edit(f) ==
    /\ open /\ edits < MaxEdits
    /\ edits' = edits + 1
    /\ form' = Retagged(f)
    /\ UNCHANGED <<dialog, auto, saving, rows, server>>

(* applyProtocol: only for a new inbound; a hysteria one gets a stream of  *)
(* its own, which any other protocol gives up.                             *)
PickProtocol(p) ==
    /\ editing = 0
    /\ LET f == [DefaultSettings(form, p)
                   EXCEPT !.node = IF p \in StreamProtocols \union {"wireguard"} THEN @ ELSE 0]
           gone == [f EXCEPT !.proxies = {}, !.pair["keys"] = Fresh, !.pair["seed"] = Fresh,
                             !.pair["ech"] = Fresh, !.byHand = @ \cap {"encryption"}]
       IN  Edit(CASE p = "hysteria" -> [gone EXCEPT !.network = "hysteria", !.security = "tls",
                                                    !.set = {"fingerprint", "alpn", "salamander"}]
                  [] p # "hysteria" /\ form.network = "hysteria" ->
                        [gone EXCEPT !.network = "tcp", !.security = "none", !.set = {}]
                  [] OTHER -> f)
    /\ UNCHANGED <<asks, asked>>

(* onNetworkChange: the other networks' settings go, the security stays,   *)
(* allowed there or not; mkcp brings its mask.                             *)
PickNetwork(n) ==
    /\ form.protocol \in StreamProtocols \ {"hysteria"} /\ n # "hysteria"
    /\ Edit([form EXCEPT !.network = n,
                         !.set = (@ \cap (SecuritySettings(form.security) \union MaskSettings))
                                 \union (IF n = "kcp" THEN {"mkcp-legacy"} ELSE {})])
    /\ UNCHANGED <<asks, asked>>

(* onSecurityChange: fresh settings; Reality's come with a target, names   *)
(* and short ids, and its keys are asked for without the saving flag.      *)
SecurityDefaults(s) ==
    CASE s = "none" -> {} [] s = "tls" -> {"fingerprint", "alpn"}
      [] s = "reality" -> {"target", "serverNames", "shortIds", "spiderX"}

PickSecurity(s) ==
    /\ form.protocol \in StreamProtocols
    /\ s = "none" => form.protocol # "hysteria"
    /\ s = "reality" => CanEnableReality(form) /\ asked < MaxAsks
    /\ Edit([form EXCEPT !.security = s,
                         !.set = (@ \cap (NetworkSettings(form.network) \union MaskSettings))
                                 \union SecurityDefaults(s),
                         !.pair["keys"] = Fresh, !.pair["seed"] = Fresh, !.pair["ech"] = Fresh,
                         !.byHand = @ \cap {"encryption"}])
    /\ IF s = "reality" THEN /\ asks' = asks \union {[kind |-> "keys", flag |-> FALSE, n |-> asked + 1]}
                             /\ asked' = asked + 1
                        ELSE UNCHANGED <<asks, asked>>

(* A setting of the form is filled in or blanked; which are on screen      *)
(* depends on the network and the security.                                *)
Shown(f) == NetworkSettings(f.network) \union MaskSettings
            \union (CASE f.security = "tls" -> IF CanEnableTls(f) THEN SecuritySettings("tls") ELSE {}
                      [] f.security = "reality" -> IF CanEnableReality(f) THEN SecuritySettings("reality")
                                                   ELSE {}
                      [] f.security = "none" -> {})
Typed == {"path", "header.Host", "mode", "serverName", "ownName", "pins", "salamander"}

Fill(s) ==
    /\ form.protocol \in StreamProtocols /\ s \in Shown(form) \cap Typed
    /\ Edit([form EXCEPT !.set = IF s \in @ THEN @ \ {s} ELSE @ \union {s}])
    /\ UNCHANGED <<asks, asked>>

(* toggleExternalProxy, and the entry once its fields are filled in.       *)
ToggleProxy(eps) ==
    /\ form.protocol \in StreamProtocols /\ eps # form.proxies
    /\ Edit([form EXCEPT !.proxies = eps])
    /\ UNCHANGED <<asks, asked>>

SetPort(n) == Edit([form EXCEPT !.port = n]) /\ UNCHANGED <<asks, asked>>
SetMethod(mth) == /\ form.protocol = "shadowsocks"
                  /\ Edit([form EXCEPT !.method = mth]) /\ UNCHANGED <<asks, asked>>

(* The transports of a protocol that names them.                           *)
SetNets(nets) == /\ form.protocol \in {"shadowsocks", "tunnel", "mixed"}
                 /\ nets # {} \/ form.protocol = "mixed"
                 /\ Edit([form EXCEPT !.nets = nets]) /\ UNCHANGED <<asks, asked>>

(* The user types a tag: it stays as typed, and is left alone from then on *)
(* unless it is the one that would be composed, or blank.                  *)
SetTag(tag) ==
    /\ open /\ edits < MaxEdits /\ tag # form.tag
    /\ edits' = edits + 1
    /\ form' = [form EXCEPT !.tag = tag]
    /\ auto' = IsAutoTag(tag, form)
    /\ UNCHANGED <<dialog, saving, rows, asks, server, asked>>

(* Generating a pair sets the flag that disables the other generators and  *)
(* Save until the answer; clearing one blanks both its halves.             *)
Generate(p) ==
    /\ open /\ ~saving /\ p \in PairsOf(form) /\ asked < MaxAsks
    /\ p \in {"keys", "seed"} => CanEnableReality(form)
    /\ saving' = TRUE
    /\ asks' = asks \union {[kind |-> p, flag |-> TRUE, n |-> asked + 1]}
    /\ asked' = asked + 1
    /\ UNCHANGED <<dialog, form, auto, rows, server, edits>>

ClearPair(p) ==
    /\ p \in PairsOf(form) /\ form.pair[p] # Fresh
    /\ Edit([form EXCEPT !.pair[p] = Fresh, !.byHand = @ \ {p}])
    /\ UNCHANGED <<asks, asked>>

(* Each half has a text area of its own, in which it is typed or blanked.  *)
TypeHalf(p, half) ==
    /\ p \in PairsOf(form)
    /\ p \in {"keys", "seed"} => CanEnableReality(form)
    /\ p = "ech" => CanEnableTls(form)
    /\ \E text \in {0, Pasted} :
          Edit([form EXCEPT !.pair[p][half] = text, !.byHand = @ \union {p}])
    /\ UNCHANGED <<asks, asked>>

(* The answer, or a failure, writes into the form of that moment.          *)
Generated(r) ==
    /\ r.kind \in Pairs
    /\ asks' = asks \ {r}
    /\ form' \in {form, [form EXCEPT !.pair[r.kind] = <<r.n, r.n>>, !.byHand = @ \ {r.kind}]}
    /\ saving' = (saving /\ ~r.flag)
    /\ UNCHANGED <<dialog, auto, rows, server, edits, asked>>

-----------------------------------------------------------------------------
(* useInboundFallbacks.  A row is a child and what it came from: the       *)
(* inbound it was loaded for, or 0 when the user added it.                 *)
IsFallbackHost(f) == f.protocol \in {"vless", "trojan"} /\ f.network = "tcp"
                     /\ f.security \in {"tls", "reality"}

Loaded(r) ==
    /\ r.kind = "fallbacks"
    /\ asks' = asks \ {r}
    /\ rows' \in {fallbacks[r.id], {}}
    /\ UNCHANGED <<dialog, form, auto, saving, server, edits, asked>>

AddRow ==
    /\ open /\ IsFallbackHost(form) /\ edits < MaxEdits
    /\ edits' = edits + 1
    /\ rows' = rows \union {<<0, "new">>}
    /\ UNCHANGED <<dialog, form, auto, saving, asks, server, asked>>

RemoveRow(row) ==
    /\ open /\ IsFallbackHost(form) /\ edits < MaxEdits
    /\ edits' = edits + 1
    /\ rows' = rows \ {row}
    /\ UNCHANGED <<dialog, form, auto, saving, asks, server, asked>>

(* submit: what is sent, and the rows sent after it, are those of the      *)
(* moment Save is pressed.                                                 *)
Submit ==
    /\ open /\ ~saving
    /\ saving' = TRUE
    /\ asks' = asks \union {[kind |-> "save", id |-> editing, inbound |-> FormToWire(form),
                             rows |-> IF IsFallbackHost(form) THEN {rows} ELSE {}]}
    /\ UNCHANGED <<dialog, form, auto, rows, server, edits, asked>>

(* The inbound is stored; then its fallbacks; then the dialog is closed,   *)
(* whatever it shows by then.                                              *)
Saved(r) ==
    /\ r.kind = "save"
    /\ LET id == IF r.id = 0 THEN Cardinality(DOMAIN store) + 1 ELSE r.id
       IN  /\ r.id = 0 => Cardinality(DOMAIN store) < MaxInbounds
           /\ store' = (id :> r.inbound) @@ store
           /\ asks' = (asks \ {r}) \union {[kind |-> "rows", id |-> id, rows |-> r.rows]}
           /\ fallbacks' = IF id \in DOMAIN fallbacks THEN fallbacks ELSE (id :> {}) @@ fallbacks
    /\ UNCHANGED <<dialog, form, auto, saving, rows, edits, asked>>

RowsSaved(r) ==
    /\ r.kind = "rows"
    /\ asks' = asks \ {r}
    /\ fallbacks' \in {fallbacks} \union
                      {[fallbacks EXCEPT ![r.id] = {<<r.id, row[2]>> : row \in s}] : s \in r.rows}
    /\ open' = FALSE /\ saving' = FALSE
    /\ UNCHANGED <<editing, form, auto, rows, store, edits, asked>>

SaveFails(r) ==
    /\ r.kind = "save"
    /\ asks' = asks \ {r} /\ saving' = FALSE
    /\ UNCHANGED <<dialog, form, auto, rows, server, edits, asked>>

Answer(r) == Generated(r) \/ Loaded(r) \/ Saved(r) \/ RowsSaved(r) \/ SaveFails(r)

Next ==
    \/ OpenAdd \/ Close \/ AddRow \/ Submit
    \/ \E id \in DOMAIN store : OpenEdit(id)
    \/ \E p \in Protocols : PickProtocol(p)
    \/ \E n \in Networks : PickNetwork(n)
    \/ \E s \in {"none", "tls", "reality"} : PickSecurity(s)
    \/ \E s \in Typed : Fill(s)
    \/ \E eps \in {{}} \union {{ep} : ep \in Proxies({{}})} : ToggleProxy(eps)
    \/ SetPort(2)
    \/ \E mth \in {"legacy", "chacha2022"} : SetMethod(mth)
    \/ \E nets \in SUBSET {"tcp", "udp"} : SetNets(nets)
    \/ \E tag \in {OwnTag, NoTag, Composed(form)} : SetTag(tag)
    \/ \E p \in Pairs : Generate(p) \/ ClearPair(p) \/ \E half \in 1..2 : TypeHalf(p, half)
    \/ \E row \in rows : RemoveRow(row)
    \/ \E r \in asks : Answer(r)

Spec == Init /\ [][Next]_vars
-----------------------------------------------------------------------------
Client(secret) == [id |-> "id", password |-> secret, auth |-> secret, flow |-> "", security |-> "auto",
                   email |-> "email"]
Clients == {Client("password"), Client("p@ss")}

(* What the panel's own link says of a stored inbound is enough to reach   *)
(* it: "so re-importing a share link round-trips the full xhttp config"    *)
(* (outbound-link-parser.ts:62-64).  It leads to the inbound, or to its    *)
(* proxy, at its port and with its settings; the inbound holds the other   *)
(* half of each secret the link tells, unless the user typed one, however  *)
(* late the server's answers came; and it admits the client, unless the    *)
(* credential has a reserved character, which comes back encoded.  VMess   *)
(* and Shadowsocks links lose part of the stream when parsed, and the kcp  *)
(* knobs are never read.                                                   *)
Imported(i, c, ep) == ParseLink(GenLink(i, c, ep))
Faithful(i) == i.protocol \in {"vless", "trojan", "hysteria"} /\ Linkable(i) /\ i.version = 2
Matched(s) == \A p \in PairsOf(s) \ s.byHand : s.pair[p][1] = s.pair[p][2]
LinksReach ==
    \A id \in DOMAIN store :
        LET i == ForLinks(store[id])
        IN  Faithful(i) =>
                /\ Matched(store[id])
                /\ \A ep \in (IF i.protocol = "hysteria" THEN {NoProxy} ELSE Endpoints(i)), c \in Clients :
                      LET o == Imported(i, c, ep)
                      IN  Leads(o, i, ep) /\ (Reserved(Credential(i, c)) \/ Admitted(o, i, c))

(* An outbound made from a link reaches the same place after it is opened  *)
(* in the outbound form and saved unchanged, and a second time changes     *)
(* nothing more.                                                           *)
ReopenedReaches ==
    \A id \in DOMAIN store :
        LET i == ForLinks(store[id])
        IN  Linkable(i) /\ i.version = 2 =>
                \A ep \in Endpoints(i), c \in Clients :
                    LET o == Imported(i, c, ep)
                    IN  /\ Reopened(Reopened(o)) = Reopened(o)
                        /\ Reaches(o, i, c, ep) => Reaches(Reopened(o), i, c, ep)
=============================================================================
