---------------------------- MODULE XrayTemplate ----------------------------
(***************************************************************************)
(* The core's configuration template as the panel's pages change it        *)
(* (pages/xray): outbounds, rules, balancers and observatories, DNS, and   *)
(* the options of the basics.  What a section makes of a template is an    *)
(* operator here; XrayEditor says when it happens.                         *)
(***************************************************************************)
EXTENDS Integers, SequencesExt, FiniteSets

(* Templates.  A rule sends what has the properties it names to an         *)
(* outbound or to a balancer; a blank tag is "".                           *)
NoneSeen == [on |-> FALSE, of |-> {}]
Rule(props, to, via) == [props |-> props, to |-> to, via |-> via]
Balancer(tag, strategy, selector, tuned) ==
    [tag |-> tag, strategy |-> strategy, selector |-> selector, tuned |-> tuned]

-----------------------------------------------------------------------------
(* The DNS section (dns/DnsTab.tsx).  A server is named by its address     *)
(* alone, plain, or is an object with the fields that were filled in; the  *)
(* fake pools are kept outside "dns", <<>> for null.                       *)
DnsOff == [on |-> FALSE, fields |-> {}, hosts |-> {}, servers |-> <<>>]
DnsFields == {"tag", "switch"}

(* Switching either way forgets the fake pools.                            *)
DnsSwitched(t) == [t EXCEPT !.dns = [DnsOff EXCEPT !.on = ~t.dns.on], !.fakedns = <<>>]

(* Rows with a blank domain or without a value are typed but not written.  *)
HostRow(domain, values) == [domain |-> domain, values |-> values]
HostRows == {{}, {HostRow("", {})}, {HostRow("a", {})}, {HostRow("a", {"v"})}}
HostsWritten(rows) == {r \in rows : r.domain # "" /\ r.values # {}}

(* The server form: an empty row of a list makes an object of a server     *)
(* that has nothing else to it.                                            *)
ServerFields == {"list", "other", "emptyRow"}
ServerMade(filled) == [plain |-> filled = {}, fields |-> filled \ {"emptyRow"}]
Preset == <<ServerMade({}), ServerMade({})>>
NoServer == [plain |-> FALSE, fields |-> {"hole"}]

(* A fake pool is as it was added, 0, or changed.                          *)
PoolAdded(list) == Append(list, 0)
PoolDeleted(list, i) == RemoveAt(list, i)
PoolChanged(list, i) == IF i \in DOMAIN list THEN [list EXCEPT ![i] = 1 - @] ELSE list

-----------------------------------------------------------------------------
(* The basics' options, each as its default or changed; one of a kind      *)
(* stands for all of it.                                                   *)
GeneralOptions == {"routingStrategy"}
StatsOptions == {"statsUplink"}
LimitOptions == {"connIdle"}
LogOptions == {"loglevel"}
Options == GeneralOptions \union StatsOptions \union LimitOptions \union LogOptions
Toggled(set, x) == IF x \in set THEN set \ {x} ELSE set \union {x}

-----------------------------------------------------------------------------
(* service/config.json, the API's own rule aside.                          *)
Default ==
    [outbounds |-> <<"direct", "blocked">>, balancers |-> <<>>,
     rules |-> <<Rule({"ip"}, "blocked", ""), Rule({"protocol"}, "blocked", "")>>,
     observatory |-> NoneSeen, burstObservatory |-> NoneSeen,
     dns |-> DnsOff, fakedns |-> <<>>, options |-> {}]
Start ==
    [outbounds |-> <<"blocked", "direct", "us", "nord-a">>,
     rules |-> <<Rule({"domain"}, "direct", ""), Rule({"other"}, "nord-a", ""),
                 Rule({"ip"}, "", "bal")>>,
     balancers |-> <<Balancer("bal", "leastPing", {"us"}, FALSE)>>,
     observatory |-> [on |-> TRUE, of |-> {"us"}], burstObservatory |-> NoneSeen,
     dns |-> [DnsOff EXCEPT !.on = TRUE, !.servers = <<ServerMade({"list"})>>],
     fakedns |-> <<>>, options |-> {}]
Broken == [broken |-> TRUE]

NewTags == {"us", "eu"}        \* tags typed in the outbound form
NordTags == {"nord-a", "nord-b"}
Tags == NewTags \union NordTags \union {"direct", "blocked", "IPv4", "warp"}

(* What may be typed in the JSON editor: a text that does not parse, and   *)
(* two that do.                                                            *)
Typed == {Broken, Default, [Start EXCEPT !.rules = <<>>]}

Outbounds(t) == ToSet(t.outbounds)
IndexOf(t, tag) == SelectInSeq(t.outbounds, LAMBDA o : o = tag)
WithOutbound(t, tag) ==
    IF tag \in Outbounds(t) THEN t ELSE [t EXCEPT !.outbounds = Append(@, tag)]
WithoutOutbound(t, i) == IF i \in DOMAIN t.outbounds THEN [t EXCEPT !.outbounds = RemoveAt(@, i)] ELSE t

(* The direct outbound's own settings, which add it where there is none.   *)
WithDirect(t) == [WithOutbound(t, "direct") EXCEPT !.options = Toggled(@, "freedom")]

(* list[index] = value, which leaves holes when the list is shorter.       *)
Put(list, i, value, hole) ==
    [k \in 1..(IF i > Len(list) THEN i ELSE Len(list)) |->
        IF k = i THEN value ELSE IF k \in DOMAIN list THEN list[k] ELSE hole]

(* filter: the elements of a list at some of its places, in their order.   *)
Kept(list, places) ==
    [k \in 1..Cardinality(places) |->
        list[CHOOSE i \in places : Cardinality({j \in places : j <= i}) = k]]

(* splice(from, 1) and splice(to, 0, moved), which also swaps neighbours.  *)
Moved(list, from, to) == InsertAt(RemoveAt(list, from), to, list[from])

-----------------------------------------------------------------------------
(* basics/helpers.ts.                                                      *)
Matches(r, tag, prop) == r.to = tag /\ prop \in r.props

(* With a value the first rule that matches is kept, without one none is.  *)
RuleSetter(t, tag, prop, on) ==
    LET hits == {i \in DOMAIN t.rules : Matches(t.rules[i], tag, prop)}
        first == {i \in hits : on /\ \A j \in hits : i <= j}
    IN  [t EXCEPT !.rules = IF hits = {} THEN Append(@, Rule({prop}, tag, ""))
                            ELSE Kept(@, DOMAIN @ \ (hits \ first))]

(* syncOutbound, had it looked at the rules of one property only.          *)
SyncOutboundOfIps(t, tag) ==
    LET used == \E i \in DOMAIN t.rules : Matches(t.rules[i], tag, "ip")
        i == IndexOf(t, tag)
    IN  IF ~used /\ i > 1 THEN WithoutOutbound(t, i)
        ELSE IF used THEN WithOutbound(t, tag) ELSE t

SyncOutbound(t, tag) ==
    LET used == \E i \in DOMAIN t.rules : t.rules[i].to = tag
        i == IndexOf(t, tag)
    IN  IF ~used /\ i > 1 THEN WithoutOutbound(t, i)
        ELSE IF used THEN WithOutbound(t, tag) ELSE t

(* The routing basics.                                                     *)
Basics ==
    {<<"blocked", "ip">>, <<"blocked", "domain">>, <<"blocked", "protocol">>,
     <<"direct", "ip">>, <<"direct", "domain">>, <<"IPv4", "domain">>}
SetBasic(t, b, on) ==
    LET set == RuleSetter(t, b[1], b[2], on)
    IN  IF b[1] = "blocked" THEN set ELSE SyncOutbound(set, b[1])

(* BalancersTab.tsx: syncObservatories.                                    *)
Selected(t, strategies) ==
    LET of == {i \in DOMAIN t.balancers : t.balancers[i].strategy \in strategies}
    IN  [on |-> of # {}, of |-> UNION {t.balancers[i].selector : i \in of}]
Sync(t) ==
    [t EXCEPT !.observatory = Selected(t, {"leastPing"}),
              !.burstObservatory = Selected(t, {"leastLoad", "random", "roundRobin"})]

(* A renamed outbound takes its rules along, a renamed balancer too.       *)
Retargeted(t, from, to) ==
    [t EXCEPT !.rules = [i \in DOMAIN @ |-> IF @[i].to = from THEN [@[i] EXCEPT !.to = to] ELSE @[i]]]
Rebalanced(t, from, to) ==
    [t EXCEPT !.rules = [i \in DOMAIN @ |-> IF @[i].via = from THEN [@[i] EXCEPT !.via = to] ELSE @[i]]]
-----------------------------------------------------------------------------
(* What the rule and balancer forms make of their fields: a blank field is *)
(* left out, and only leastLoad keeps its tuning.  (The reverse tags of    *)
(* clients, offered beside the outbounds, are not modelled.)               *)
RuleProps == {"ip", "domain", "protocol", "other"}
RuleMade(filled, to, via) == Rule(filled \intersect RuleProps, to, via)
Offered(tags, kept) == tags \union {"", kept}

Strategies == {"random", "roundRobin", "leastLoad", "leastPing"}
BalancerComplete(tag, selector) == tag # "" /\ selector # {}
BalancerMade(tag, strategy, selector, tuned) ==
    Balancer(tag, strategy, selector, strategy = "leastLoad" /\ tuned)
=============================================================================
