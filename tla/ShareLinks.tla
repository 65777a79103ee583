----------------------------- MODULE ShareLinks -----------------------------
(***************************************************************************)
(* The share links the panel makes of an inbound for one of its clients    *)
(* (lib/xray/inbound-link.ts).                                             *)
(*                                                                         *)
(* A setting is filled or blank, and the value of a filled one is its own  *)
(* name, so that what a link carries says where it was taken from.  An     *)
(* inbound i has a protocol, a network, a security, a port and i.set, the  *)
(* settings that are filled.  A link has a scheme, an address, a port, the *)
(* credential, the parameters of its query (or the keys of its JSON), the  *)
(* xhttp fields bundled in "extra", the finalmask blob and a remark.       *)
(***************************************************************************)
EXTENDS Naturals, Sequences, FiniteSets, TLC

Networks == {"tcp", "kcp", "ws", "grpc", "httpupgrade", "xhttp", "hysteria"}

(* The settings of each network that a link can tell.                      *)
NetworkSettings(n) ==
    CASE n = "tcp" -> {"http", "request.Host", "response.Host"}
      [] n = "kcp" -> {"mtu"}
      [] n \in {"ws", "httpupgrade"} -> {"path", "host", "header.Host"}
      [] n = "grpc" -> {"service", "authority", "multi"}
      [] n = "xhttp" -> {"path", "host", "header.Host", "mode", "padding", "obfuscated",
                         "placement", "post", "headers"}
      [] n = "hysteria" -> {}

SecuritySettings(s) ==
    CASE s = "none" -> {}
      [] s = "tls" -> {"serverName", "fingerprint", "alpn", "ech", "pins"}
      [] s = "reality" -> {"publicKey", "privateKey", "ownName", "serverNames", "target",
                           "shortIds", "spiderX", "mldsa65Verify"}

(* finalmask: tcp and udp masks (salamander is a udp one, and a password   *)
(* is filled in; so is the one mkcp has by itself), and the ports to hop   *)
(* over.                                                                   *)
MaskSettings == {"mask.tcp", "salamander", "mkcp-legacy", "udpHop"}

(* The inbound's value for a setting; the first one filled of several.     *)
Value(i, s) == IF s \in i.set THEN s ELSE ""
FirstFilled(i, ss) ==
    IF \E n \in DOMAIN ss : ss[n] \in i.set
    THEN ss[CHOOSE n \in DOMAIN ss : ss[n] \in i.set /\ \A m \in 1..(n - 1) : ss[m] \notin i.set]
    ELSE ""

(* params.set under a condition; an absent key differs from a blank one.   *)
NoParams == <<>>
When(cond, params) == IF cond THEN params ELSE NoParams
IfFilled(k, v) == When(v # "", k :> v)

(* A credential before the "@" of a URL: encodeURIComponent, or the URL it *)
(* is written into, puts a reserved character as its code.  One password   *)
(* stands for all that have such a character.                              *)
Reserved(v) == v = "p@ss"
Percent(v) == IF Reserved(v) THEN "p%40ss" ELSE v

-----------------------------------------------------------------------------
(* buildXhttpExtra: the fields both sides read; Host is on the URL.        *)
Extra(i) ==
       IfFilled("xPaddingBytes", Value(i, "padding"))
    @@ IfFilled("xPaddingKey", Value(i, "obfuscated"))
    @@ IfFilled("sessionPlacement", Value(i, "placement"))
    @@ IfFilled("scMaxEachPostBytes", Value(i, "post"))
    @@ IfFilled("headers", Value(i, "headers"))

HttpHost(i) == FirstFilled(i, <<"response.Host", "request.Host">>)
Host(i) == FirstFilled(i, <<"host", "header.Host">>)
Path(i) == IF "path" \in i.set THEN "path" ELSE "/"
Mode(i) == IF "mode" \in i.set THEN "stream-one" ELSE "auto"

(* applyXhttpExtraToParams.                                                *)
XhttpParams(i) == ("path" :> Path(i)) @@ ("host" :> Host(i)) @@ ("mode" :> Mode(i))
                  @@ IfFilled("x_padding_bytes", Value(i, "padding"))

(* writeNetworkParams; genVlessLink has the same lines.                    *)
NetworkParams(i) ==
    CASE i.network = "tcp" ->
            When("http" \in i.set,
                 ("path" :> "http") @@ IfFilled("host", HttpHost(i)) @@ ("headerType" :> "http"))
      [] i.network = "kcp" -> ("mtu" :> Value(i, "mtu"))
      [] i.network \in {"ws", "httpupgrade"} -> ("path" :> Path(i)) @@ ("host" :> Host(i))
      [] i.network = "grpc" ->
            ("serviceName" :> Value(i, "service")) @@ ("authority" :> Value(i, "authority"))
            @@ When("multi" \in i.set, "mode" :> "multi")
      [] i.network = "xhttp" -> XhttpParams(i)
      [] i.network = "hysteria" -> NoParams

(* writeTlsParams: nothing when the link's TLS is the proxy's own.         *)
TlsParams(i) ==
    When(i.security = "tls",
            ("fp" :> Value(i, "fingerprint")) @@ ("alpn" :> Value(i, "alpn"))
         @@ IfFilled("ech", Value(i, "ech")) @@ IfFilled("sni", Value(i, "serverName"))
         @@ IfFilled("pcs", Value(i, "pins")))

(* writeRealityParams: the name comes from the first source that has one.  *)
RealityParams(i) ==
    When(i.security = "reality",
            ("pbk" :> Value(i, "publicKey")) @@ ("fp" :> "chrome")
         @@ IfFilled("sni", FirstFilled(i, <<"ownName", "serverNames", "target">>))
         @@ IfFilled("sid", Value(i, "shortIds")) @@ IfFilled("spx", Value(i, "spiderX"))
         @@ IfFilled("pqv", Value(i, "mldsa65Verify")))

-----------------------------------------------------------------------------
(* An external proxy: an address and port in place of the inbound's, and   *)
(* what its TLS endpoint has of its own; forceTls names the link's         *)
(* security.  NoProxy stands for the inbound itself.                       *)
ProxySettings == {"proxy.sni", "proxy.fingerprint", "proxy.alpn", "proxy.pins", "proxy.ech"}
NoProxy == [dest |-> "inbound", forceTls |-> "same", set |-> {}]
Proxies(sets) == {[dest |-> "proxy", forceTls |-> f, set |-> s] :
                     f \in {"same", "tls", "none"}, s \in sets}

LinkSecurity(i, ep) == IF ep.forceTls = "same" THEN i.security ELSE ep.forceTls

(* The same parameters without the proxy's, as if its endpoint had the     *)
(* inbound's certificate.                                                  *)
ProxyTlsParamsNameless(i, ep) == NoParams

(* applyExternalProxyTLSParams, set over what the inbound gave.            *)
ProxyTlsParams(i, ep) ==
    When(ep # NoProxy /\ LinkSecurity(i, ep) = "tls",
            ("sni" :> (IF "proxy.sni" \in ep.set THEN "proxy.sni" ELSE ep.dest))
         @@ IfFilled("fp", Value(ep, "proxy.fingerprint"))
         @@ IfFilled("alpn", Value(ep, "proxy.alpn"))
         @@ IfFilled("pcs", Value(ep, "proxy.pins"))
         @@ IfFilled("ech", Value(ep, "proxy.ech")))

SecurityParams(i, ep) ==
    LET s == LinkSecurity(i, ep)
    IN  CASE s = "tls" -> ProxyTlsParams(i, ep) @@ ("security" :> "tls") @@ TlsParams(i)
          [] s = "reality" -> ("security" :> "reality") @@ RealityParams(i)
          [] s = "none" -> ("security" :> "none")

(* serializeFinalMask: only a mask with something in it.                   *)
Mask(i) == i.set \cap MaskSettings

Link(scheme, i, c, ep, auth, params) ==
    [scheme |-> scheme, address |-> ep.dest, port |-> IF ep = NoProxy THEN i.port ELSE "proxy.port",
     auth |-> auth, params |-> params,
     extra |-> When(i.network = "xhttp", Extra(i)),
     mask |-> Mask(i), remark |-> c.email]

(* genVlessLink: XTLS flow only over the inbound's own TLS on raw TCP.     *)
FlowParam(i, c, ep) ==
    When(/\ i.network = "tcp"
         /\ LinkSecurity(i, ep) = i.security /\ i.security \in {"tls", "reality"},
         IfFilled("flow", c.flow))

VlessLink(i, c, ep) ==
    Link("vless", i, c, ep, Percent(c.id),
         FlowParam(i, c, ep) @@ ("type" :> i.network) @@ ("encryption" :> i.encryption)
         @@ NetworkParams(i) @@ SecurityParams(i, ep))

TrojanLink(i, c, ep) ==
    Link("trojan", i, c, ep, Percent(c.password),
         ("type" :> i.network) @@ NetworkParams(i) @@ SecurityParams(i, ep))

(* genShadowsocksLink: TLS alone is told, and the userinfo holds the       *)
(* inbound's password for 2022 methods and the client's unless the method  *)
(* is for a single user.                                                   *)
ServerPassword(i) == i.method # "legacy"
MultiUser(i) == i.method # "chacha2022"
SsPasswords(i, c) ==
    (IF ServerPassword(i) THEN <<"server">> ELSE <<>>) \o (IF MultiUser(i) THEN <<c.password>> ELSE <<>>)

ShadowsocksLink(i, c, ep) ==
    Link("ss", i, c, ep, [method |-> i.method, passwords |-> SsPasswords(i, c)],
         ("type" :> i.network) @@ NetworkParams(i)
         @@ When(LinkSecurity(i, ep) = "tls", SecurityParams(i, ep)))

(* genHysteriaLink: always the inbound's TLS, whose pin a proxy may        *)
(* replace, and the obfuscation beside the mask that holds it.             *)
HysteriaLink(i, c, ep) ==
    Link(IF i.version = 2 THEN "hysteria2" ELSE "hysteria", i, c, ep, Percent(c.auth),
         IfFilled("pinSHA256", Value(ep, "proxy.pins")) @@ IfFilled("pinSHA256", Value(i, "pins"))
         @@ ("security" :> "tls") @@ IfFilled("fp", Value(i, "fingerprint"))
         @@ IfFilled("alpn", Value(i, "alpn")) @@ IfFilled("ech", Value(i, "ech"))
         @@ IfFilled("sni", Value(i, "serverName"))
         @@ IfFilled("obfs-password", Value(i, "salamander"))
         @@ IfFilled("mport", Value(i, "udpHop")))

(* genVmessLink: a JSON object; a proxy's TLS is laid over the inbound's,  *)
(* the xhttp mode is its "type", and security other than TLS is named      *)
(* without its settings.                                                   *)
VmessKeys(i) ==
    CASE i.network = "tcp" ->
            ("type" :> (IF "http" \in i.set THEN "http" ELSE "none"))
            @@ When("http" \in i.set, ("path" :> "http") @@ IfFilled("host", HttpHost(i)))
      [] i.network = "kcp" -> ("mtu" :> Value(i, "mtu"))
      [] i.network \in {"ws", "httpupgrade"} -> ("path" :> Path(i)) @@ ("host" :> Host(i))
      [] i.network = "grpc" ->
            ("path" :> Value(i, "service")) @@ ("authority" :> Value(i, "authority"))
            @@ When("multi" \in i.set, "type" :> "multi")
      [] i.network = "xhttp" -> ("path" :> Path(i)) @@ ("host" :> Host(i)) @@ ("type" :> Mode(i))
      [] i.network = "hysteria" -> NoParams

VmessLink(i, c, ep) ==
    LET tls == LinkSecurity(i, ep)
    IN  Link("vmess", i, c, ep, c.id,
             ProxyTlsParams(i, ep) @@ ("net" :> i.network) @@ ("tls" :> tls) @@ ("scy" :> c.security)
             @@ VmessKeys(i)
             @@ When(tls = "tls" /\ i.security = "tls",
                     IfFilled("sni", Value(i, "serverName")) @@ IfFilled("fp", Value(i, "fingerprint"))
                     @@ IfFilled("alpn", Value(i, "alpn")) @@ IfFilled("ech", Value(i, "ech"))
                     @@ IfFilled("pcs", Value(i, "pins"))))

-----------------------------------------------------------------------------
(* genLink, and the links of an inbound: one for each client and external  *)
(* proxy, and for the inbound's own address only when it has none.         *)
ClientProtocols == {"vmess", "vless", "trojan", "shadowsocks", "hysteria"}

GenLink(i, c, ep) ==
    CASE i.protocol = "vmess" -> VmessLink(i, c, ep)
      [] i.protocol = "vless" -> VlessLink(i, c, ep)
      [] i.protocol = "trojan" -> TrojanLink(i, c, ep)
      [] i.protocol = "shadowsocks" -> ShadowsocksLink(i, c, ep)
      [] i.protocol = "hysteria" -> HysteriaLink(i, c, ep)

Endpoints(i) == IF i.proxies = {} THEN {NoProxy} ELSE i.proxies

(* getInboundClients, genInboundLinks: a hysteria inbound without TLS has  *)
(* no link.                                                                *)
Linkable(i) == i.protocol \in ClientProtocols /\ (i.protocol = "hysteria" => i.security = "tls")
=============================================================================
