----------------------------- MODULE LinkImport -----------------------------
(***************************************************************************)
(* What becomes of a share link in the outbound form: it is parsed (lib/   *)
(* xray/outbound-link-parser.ts), shown as form values and turned back     *)
(* into the outbound that is saved (lib/xray/outbound-form-adapter.ts,     *)
(* lib/xray/stream-wire-normalize.ts).                                     *)
(*                                                                         *)
(* An outbound o has a protocol, an address, a port, a credential, a       *)
(* stream (a network, a security, o.at, the value of each setting, and the *)
(* mask) and the rest of its fields.  NoStream is an outbound without one. *)
(***************************************************************************)
EXTENDS ShareLinks

(* params.get, with the default the code gives.                            *)
Get(l, k, default) == IF k \in DOMAIN l.params THEN l.params[k] ELSE default
GetFilled(l, k, default) == IF Get(l, k, "") = "" THEN default ELSE l.params[k]

(* buildStream: the settings of the network and of the security, as they   *)
(* are before the link says anything.                                      *)
DefaultNetwork(n) ==
    CASE n = "tcp" -> ("header" :> "none") @@ ("requestHost" :> "")
      [] n = "kcp" -> ("mtu" :> "1350")
      [] n \in {"ws", "httpupgrade"} -> ("path" :> "/") @@ ("host" :> "")
      [] n = "grpc" -> ("serviceName" :> "") @@ ("authority" :> "") @@ ("multiMode" :> FALSE)
      [] n = "xhttp" -> ("path" :> "/") @@ ("host" :> "") @@ ("mode" :> "auto")
                        @@ ("xPaddingBytes" :> "100-1000") @@ ("scMaxEachPostBytes" :> "1000000")
                        @@ ("xPaddingKey" :> "") @@ ("sessionPlacement" :> "") @@ ("headers" :> "")
      [] n = "hysteria" -> ("auth" :> "")

DefaultSecurity(s) ==
    CASE s = "none" -> NoParams
      [] s = "tls" -> ("serverName" :> "") @@ ("fingerprint" :> "") @@ ("alpn" :> "")
                      @@ ("ech" :> "") @@ ("pins" :> "")
      [] s = "reality" -> ("publicKey" :> "") @@ ("fingerprint" :> "chrome") @@ ("serverName" :> "")
                          @@ ("shortId" :> "") @@ ("spiderX" :> "") @@ ("mldsa65Verify" :> "")

(* applyXhttpStringFromParams: over the default, the alias, then the extra *)
(* payload, headers included; a blank value never replaces one.            *)
XhttpFromParams(l) == IfFilled("xPaddingBytes", Get(l, "x_padding_bytes", ""))
XhttpFromExtra(l) == [k \in DOMAIN l.extra \ {"headers"} |-> l.extra[k]]
HeadersFromExtra(l) == When("headers" \in DOMAIN l.extra, "headers" :> l.extra["headers"])

(* applyTransportParams.                                                   *)
TransportFromParams(l, n) ==
    LET host == Get(l, "host", "")  path == Get(l, "path", "/")
    IN  CASE n \in {"ws", "httpupgrade"} -> ("host" :> host) @@ ("path" :> path)
          [] n = "grpc" -> ("serviceName" :> Get(l, "serviceName", Get(l, "path", "")))
                           @@ ("authority" :> Get(l, "authority", ""))
                           @@ ("multiMode" :> (Get(l, "mode", "") = "multi"))
          [] n = "xhttp" -> HeadersFromExtra(l) @@ XhttpFromExtra(l) @@ XhttpFromParams(l)
                            @@ ("host" :> host) @@ ("path" :> path)
                            @@ ("mode" :> GetFilled(l, "mode", "auto"))
          [] n = "tcp" /\ Get(l, "headerType", "") = "http" ->
                ("header" :> path) @@ ("requestHost" :> host)
          [] OTHER -> NoParams

(* applySecurityParams.                                                    *)
SecurityFromParams(l, s) ==
    CASE s = "tls" ->
            ("serverName" :> Get(l, "sni", "")) @@ ("fingerprint" :> Get(l, "fp", ""))
            @@ IfFilled("alpn", Get(l, "alpn", "")) @@ ("ech" :> Get(l, "ech", ""))
            @@ ("pins" :> Get(l, "pcs", ""))
      [] s = "reality" ->
            ("serverName" :> Get(l, "sni", "")) @@ ("fingerprint" :> Get(l, "fp", "chrome"))
            @@ ("publicKey" :> Get(l, "pbk", "")) @@ ("shortId" :> Get(l, "sid", ""))
            @@ ("spiderX" :> Get(l, "spx", "")) @@ ("mldsa65Verify" :> Get(l, "pqv", ""))
      [] s = "none" -> NoParams

Stream(n, s, at, mask) ==
    [network |-> n, security |-> s, at |-> at @@ DefaultNetwork(n) @@ DefaultSecurity(s), mask |-> mask]
NoStream == [network |-> "", security |-> "none", at |-> NoParams, mask |-> {}]

Outbound(protocol, l, auth, rest, stream) ==
    [protocol |-> protocol, tag |-> l.remark, address |-> l.address, port |-> l.port, auth |-> auth,
     rest |-> rest, stream |-> stream]

(* parseVlessLink, parseTrojanLink: the credential is url.username, which  *)
(* stays encoded.                                                          *)
StreamFromParams(l, security) ==
    LET n == Get(l, "type", "tcp")  s == Get(l, "security", security)
    IN  Stream(n, s, TransportFromParams(l, n) @@ SecurityFromParams(l, s), l.mask)

ParseVless(l) ==
    Outbound("vless", l, l.auth, [flow |-> Get(l, "flow", ""), encryption |-> Get(l, "encryption", "none")],
             StreamFromParams(l, "none"))
ParseTrojan(l) == Outbound("trojan", l, l.auth, NoParams, StreamFromParams(l, "tls"))

(* parseVmessLink: its own keys for each network; neither the mask nor the *)
(* pins are read, and xhttp's mode is looked for under another key.        *)
VmessTransport(l, n) ==
    CASE n = "tcp" /\ Get(l, "type", "") = "http" ->
            ("header" :> Get(l, "path", "/")) @@ ("requestHost" :> Get(l, "host", ""))
      [] n \in {"ws", "httpupgrade"} -> ("host" :> Get(l, "host", "")) @@ ("path" :> Get(l, "path", "/"))
      [] n = "grpc" -> ("serviceName" :> Get(l, "path", "")) @@ ("authority" :> Get(l, "authority", ""))
                       @@ ("multiMode" :> (Get(l, "type", "") = "multi"))
      [] n = "xhttp" -> XhttpFromExtra(l) @@ ("host" :> Get(l, "host", "")) @@ ("path" :> Get(l, "path", "/"))
                        @@ ("mode" :> GetFilled(l, "mode", "auto"))
      [] OTHER -> NoParams

ParseVmess(l) ==
    LET n == GetFilled(l, "net", "tcp")
        s == IF Get(l, "tls", "") = "tls" THEN "tls" ELSE "none"
    IN  Outbound("vmess", l, l.auth, [scy |-> GetFilled(l, "scy", "auto")],
                 Stream(n, s, VmessTransport(l, n)
                              @@ When(s = "tls", ("serverName" :> Get(l, "sni", ""))
                                                 @@ ("fingerprint" :> Get(l, "fp", ""))
                                                 @@ IfFilled("alpn", Get(l, "alpn", ""))), {}))

(* parseShadowsocksLink: the method and passwords; no stream at all.       *)
ParseShadowsocks(l) == Outbound("shadowsocks", l, l.auth, [uot |-> FALSE], NoStream)

(* parseHysteria2Link.                                                     *)
ParseHysteria(l) ==
    Outbound("hysteria", l, "", NoParams,
             Stream("hysteria", "tls",
                    ("auth" :> l.auth) @@ ("serverName" :> Get(l, "sni", ""))
                    @@ ("alpn" :> GetFilled(l, "alpn", "h3")) @@ ("fingerprint" :> Get(l, "fp", ""))
                    @@ ("ech" :> Get(l, "ech", "")) @@ ("pins" :> Get(l, "pinSHA256", "")), l.mask))

(* parseOutboundLink: no parser knows version 1 of hysteria.               *)
Parsed(l) == l.scheme # "hysteria"
ParseLink(l) ==
    CASE l.scheme = "vmess" -> ParseVmess(l)
      [] l.scheme = "vless" -> ParseVless(l)
      [] l.scheme = "trojan" -> ParseTrojan(l)
      [] l.scheme = "ss" -> ParseShadowsocks(l)
      [] l.scheme = "hysteria2" -> ParseHysteria(l)

-----------------------------------------------------------------------------
(* The outbound form.  vlessFromWire and its kin read one server and one   *)
(* user, whichever of the shapes they are in, and fill the defaults.       *)
Blank == [auth |-> "", mux |-> FALSE, sendThrough |-> ""]
ToForm(o) ==
    [o EXCEPT !.rest = CASE o.protocol = "vless" -> [flow |-> @.flow,
                               encryption |-> IF @.encryption = "" THEN "none" ELSE @.encryption]
                         [] o.protocol = "vmess" -> [scy |-> IF @.scy = "" THEN "auto" ELSE @.scy]
                         [] OTHER -> @]
    @@ [mux |-> Blank.mux, sendThrough |-> Blank.sendThrough]

(* What normalizeXhttpForWire keeps, on the outbound side, for a mode: one *)
(* that packs uploads differently has no use for some fields.              *)
KeptByMode(mode) == IF mode \in {"stream-one", "stream-up"} THEN {} ELSE {"scMaxEachPostBytes"}
XhttpFields == DOMAIN DefaultNetwork("xhttp")
ModeOf(at) == IF "mode" \in DOMAIN at THEN at["mode"] ELSE "auto"

(* The same, the mode given up with what it has no use for.                *)
NormalizeXhttpModeless(at) ==
    [k \in {f \in DOMAIN at : /\ at[f] # ""
                              /\ f \in {"mode", "scMaxEachPostBytes"} => KeptByMode(ModeOf(at)) # {}} |-> at[k]]

(* normalizeXhttpForWire: nor is what is blank written.                    *)
NormalizeXhttp(at) ==
    [k \in {f \in DOMAIN at : /\ at[f] # ""
                              /\ f = "scMaxEachPostBytes" => f \in KeptByMode(ModeOf(at))} |-> at[k]]

(* stripUiOnlyStreamFields, normalizeStreamSettingsForWire: only xhttp is  *)
(* trimmed.                                                                *)
StreamToWire(st) ==
    IF st.network # "xhttp" THEN st
    ELSE [st EXCEPT !.at = NormalizeXhttp([k \in DOMAIN @ \cap XhttpFields |-> @[k]])
                           @@ [k \in DOMAIN @ \ XhttpFields |-> @[k]]]

(* muxAllowed: not with a flow, nor over xhttp.                            *)
MuxAllowed(f) ==
    /\ f.protocol \in {"vmess", "vless", "trojan", "shadowsocks"}
    /\ f.protocol = "vless" => f.rest.flow = ""
    /\ f.stream.network # "xhttp"

(* formValuesToWirePayload: what is left blank is not written.             *)
ToWire(f) ==
    [[k \in DOMAIN f \ {"mux", "sendThrough"} |-> f[k]] EXCEPT !.stream = StreamToWire(@)]
    @@ When(f.mux /\ MuxAllowed(f), "mux" :> TRUE)
    @@ IfFilled("sendThrough", f.sendThrough)

(* What the form opens on when the outbound it wrote is edited again.      *)
Reopened(o) == ToWire(ToForm(o))

-----------------------------------------------------------------------------
(* What an outbound must have to reach inbound i as client c through       *)
(* endpoint ep, said without the link: the place, the credential, the      *)
(* network and what the server insists on there.                           *)
Asked(i, n) ==
    CASE n = "tcp" -> IF "http" \in i.set
                      THEN {<<"header", "http">>, <<"requestHost", HttpHost(i)>>}
                      ELSE {<<"header", "none">>}
      [] n = "kcp" -> {}
      [] n \in {"ws", "httpupgrade"} -> {<<"path", Path(i)>>, <<"host", Host(i)>>}
      [] n = "grpc" -> {<<"serviceName", Value(i, "service")>>, <<"authority", Value(i, "authority")>>}
      [] n = "xhttp" -> {<<"path", Path(i)>>, <<"host", Host(i)>>, <<"mode", Mode(i)>>}
                        \union {<<"xPaddingBytes", "padding">> : x \in i.set \cap {"padding"}}
                        \union {<<"xPaddingKey", "obfuscated">> : x \in i.set \cap {"obfuscated"}}
                        \union {<<"sessionPlacement", "placement">> : x \in i.set \cap {"placement"}}
                        \union {<<"headers", "headers">> : x \in i.set \cap {"headers"}}
      [] n = "hysteria" -> {}

(* The TLS endpoint is the proxy's when it has one of its own: its name    *)
(* and pins, not the inbound's.  A Reality client needs the key, a short   *)
(* id and one of the names.                                                *)
Trusted(i, ep) ==
    CASE LinkSecurity(i, ep) = "none" -> {}
      [] LinkSecurity(i, ep) = "tls" /\ ep = NoProxy ->
            {<<"serverName", Value(i, "serverName")>>, <<"pins", Value(i, "pins")>>, <<"ech", Value(i, "ech")>>}
      [] LinkSecurity(i, ep) = "tls" ->
            {<<"serverName", IF "proxy.sni" \in ep.set THEN "proxy.sni" ELSE "proxy">>}
            \union {<<"pins", "proxy.pins">> : x \in ep.set \cap {"proxy.pins"}}
      [] LinkSecurity(i, ep) = "reality" ->
            {<<"publicKey", Value(i, "publicKey")>>, <<"shortId", Value(i, "shortIds")>>,
             <<"serverName", FirstFilled(i, <<"ownName", "serverNames", "target">>)>>}

Credential(i, c) ==
    CASE i.protocol = "trojan" -> c.password
      [] i.protocol = "shadowsocks" -> [method |-> i.method, passwords |-> SsPasswords(i, c)]
      [] i.protocol = "hysteria" -> c.auth
      [] OTHER -> c.id

At(o, k) == IF k \in DOMAIN o.stream.at THEN o.stream.at[k] ELSE ""
Has(o, wanted) == \A w \in wanted : At(o, w[1]) = w[2]

Admitted(o, i, c) ==
    (IF o.protocol = "hysteria" THEN o.stream.at["auth"] ELSE o.auth) = Credential(i, c)

Leads(o, i, ep) ==
    /\ o.protocol = i.protocol /\ o.address = ep.dest
    /\ o.port = IF ep = NoProxy THEN i.port ELSE "proxy.port"
    /\ o.protocol = "vless" => o.rest.encryption = i.encryption
    /\ o.stream.network = i.network /\ o.stream.security = LinkSecurity(i, ep)
    /\ o.stream.mask = Mask(i)
    /\ Has(o, Asked(i, i.network) \union Trusted(i, ep))

Reaches(o, i, c, ep) == Leads(o, i, ep) /\ Admitted(o, i, c)
=============================================================================
