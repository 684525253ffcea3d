------------------------------- MODULE MCConfigBuilder -------------------------------
(* Two things that meet in the configuration of a profile. Pure functions over bounded
   inputs, one state per input and one per result: ConfigBuilder over two profiles and a
   chain of up to three of them (id 1 and 3), TunConfig (id 0), the lookup of the
   On-Demand profile (-1), the Wi-Fi readers (-2) and the formats a profile is shared in
   (-3). And OnDemand, whose starts build such a configuration for the network the machine
   is on.                                                                            *)
EXTENDS OnDemand

T == INSTANCE TunConfig
L == INSTANCE ShareLinks

VARIABLES w, id, r   \* the input, the function or profile, the result
vars == <<w, id, r, odVars>>

(* Inputs. 9 is a profile that was deleted, 3 the chain itself. *)
Kinds == {"in", "mux", "custom", "quic", "hop"}
Lists == UNION {[1..n -> {1, 2}] : n \in 0..3} \cup {<<1, 9>>, <<3>>}
Profile(kind, fails, domain) == [gid |-> 1, chain |-> FALSE, list |-> <<>>, kind |-> kind, fails |-> fails, domain |-> domain]
Chain(list) == [gid |-> 1, chain |-> TRUE, list |-> list, kind |-> "in", fails |-> FALSE, domain |-> FALSE]
World(k1, k2, fails, list, front, set) ==
  [prof |-> <<Profile(k1, FALSE, TRUE), Profile(k2, fails, FALSE), Chain(list)>>, front |-> <<front>>] @@ set
Usual == [test |-> FALSE, vpn |-> TRUE, internal |-> TRUE, white |-> FALSE, clients |-> TRUE, def |-> "proxy",
          fake |-> FALSE, dnsFinal |-> "proxy", hosts |-> {}, ssid |-> "home", dnsRouting |-> TRUE,
          remote |-> "domain", direct |-> "domain"]
Chains == {World(k1, k2, fails, list, front, [Usual EXCEPT !.test = test, !.vpn = vpn]) :
  k1 \in Kinds, k2 \in Kinds, fails \in BOOLEAN, list \in Lists, front \in {None, 1, 2, 3, 9},
  test \in BOOLEAN, vpn \in BOOLEAN}
Routes == {World(k1, "in", FALSE, <<1, 2>>, None,
             [Usual EXCEPT !.test = t, !.vpn = v, !.internal = i, !.white = wh, !.clients = c, !.def = d]) :
  k1 \in {"in", "custom", "quic", "hop"}, t \in BOOLEAN, v \in BOOLEAN, i \in BOOLEAN, wh \in BOOLEAN, c \in BOOLEAN,
  d \in {"proxy", "bypass", "block"}}
Names == {World(k1, "in", FALSE, <<1, 2>>, None,
             [Usual EXCEPT !.test = t, !.internal = i, !.fake = f, !.dnsFinal = d, !.hosts = h, !.dnsRouting = dr, !.remote = rem]) :
  k1 \in {"in", "quic"}, t \in BOOLEAN, i \in BOOLEAN, f \in BOOLEAN, d \in {"proxy", "bypass"}, h \in SUBSET {{}, {"home"}},
  dr \in BOOLEAN, rem \in {"domain", "ip", "local"}}

Dns == {"local", "fakeip", "rcode", "ip", "udp", "tcp", "tls", "https", "quic", "h3"}
Tuns == {[white |-> wh, processes |-> p, cidrs |-> c, clients |-> cl, auth |-> a, strict |-> s, port |-> 2080,
          stack |-> "mixed", remote |-> rem, underlying |-> u] :
  wh \in BOOLEAN, p \in BOOLEAN, c \in BOOLEAN, cl \in BOOLEAN, a \in BOOLEAN, s \in BOOLEAN, rem \in Dns, u \in Dns}


(* The reference On-Demand keeps of its profile, and the profiles it is looked up in. *)
Entry(i, k) == [id |-> i, type |-> k[1], address |-> k[2], port |-> k[3], name |-> k[4]]
Keys == {1, 2} \X {1, 2} \X {1, 2} \X {1, 2}
Targets == {[ref |-> Entry(x, <<1, 1, 1, 1>>), profiles |-> <<Entry(1, a), Entry(2, b), Entry(3, c)>>] : x \in {2, 9}, a \in Keys, b \in Keys, c \in Keys}

(* Machines on a network: up to two adapters, each run by one of the services, and how the
   services answer. *)
Adapters(n) ==
  LET one == {<<[by |-> b, on |-> n]>> : b \in {"nm", "iwd", "other"}}
      two == {<<[by |-> b, on |-> x[1]], [by |-> c, on |-> x[2]]>> : b \in {"nm", "iwd"}, c \in {"nm", "iwd"}, x \in {<<n, n>>, <<n, None>>, <<None, n>>}}
  IN one \cup two \cup (IF n = None THEN {<<>>} ELSE {})
Answering(nm, nmcli, bus, sandboxed) ==
  {[nm |-> nm, nmcli |-> nmcli, bus |-> bus, sandboxed |-> sandboxed, iwd |-> i, spent |-> s, fault |-> <<>>, how |-> "ok"] :
     i \in {"present", "absent"}, s \in BOOLEAN}
Services ==
  {[m EXCEPT !.fault = f, !.how = h] : m \in Answering("there", "ok", "up", FALSE),
     f \in {<<>>} \cup ({1, 2} \X {"type", "state", "access point", "ssid"}), h \in {"refused", "late"}}
  \cup UNION {Answering(nm, c, bus, sandboxed) : nm \in {"absent", "late", "refused"},
     c \in {"absent", "no daemon", "slow", "fails", "ok"}, bus \in {"up", "down"}, sandboxed \in BOOLEAN}
AllMachines == [n \in Networks \cup {None} |-> {[adapters |-> a] @@ m : a \in Adapters(n), m \in Services}]
Choice(on, triggers, hosts, target) == [on |-> on, triggers |-> triggers, hosts |-> hosts, target |-> target]
OnTwo == Choice(TRUE, {"A", "B"}, {{"A"}, {"B"}}, "work")
Off == Choice(FALSE, {"A"}, {}, None)
OnAndOff == {OnTwo, Off}

(* Profiles of each type: every transport with and without TLS, with one more setting, and
   every two settings over the transports that matter to them. *)
With(b, o) == IF o[1] = "" THEN b ELSE IF o[1] = "address" THEN [b EXCEPT !.address = o[2]] ELSE [b EXCEPT ![o[1]] = [@ EXCEPT ![o[2]] = o[3]]]
S(f, v) == <<"s", f, v>>
X(f, v) == <<"x", f, v>>
Streamed == {"socks", "http", "shadowsocks", "vmess", "trojan", "vless"}
PlainBean(type) ==
  LET b == [L!NewBean(type) EXCEPT !.address = "name", !.port = "8443"]
  IN CASE type \in {"trojan", "vless", "hysteria2"} -> [b EXCEPT !.x.pass = "k"]
       [] type = "vmess" -> [b EXCEPT !.x.uuid = "k"]
       [] type = "shadowsocks" -> [b EXCEPT !.x.pass = "k"]
       [] type = "tuic" -> [b EXCEPT !.x.uuid = "u", !.x.pass = "k"]
       [] type = "naive" -> [b EXCEPT !.x.user = "u", !.x.pass = "k"]
       [] OTHER -> b
Own(type) ==
  CASE type \in {"socks", "http"} -> {X("user", "u"), X("user", "bmFt"), X("pass", "k")} \cup (IF type = "socks" THEN {X("v", "socks4")} ELSE {})
    [] type = "shadowsocks" -> {X("pass", ""), X("uot", "2"), X("plugin", <<"obfs-local", <<"obfs", "http">>, <<"obfs-host", "h">>>>),
         X("plugin", <<"simple-obfs">>), X("plugin", <<"v2ray-plugin", <<"tls", "1">>, <<"host", "h">>>>)}
    [] type = "vmess" -> {X("uuid", ""), X("aid", "1"), X("cipher", "none")}
    [] type = "trojan" -> {X("pass", "")}
    [] type = "vless" -> {X("pass", ""), X("flow", "vision"), X("flow", "vision-udp443"), X("flow", "none")}
    [] type = "naive" -> {X("user", ""), X("protocol", "quic"), X("sni", "n"), X("cert", "c"), X("headers", "{}")}
    [] type = "hysteria2" -> {X(f, "1") : f \in {"insecure", "sni", "alpn", "ca", "disableSni", "obfs", "up", "hop", "hopInterval"}}
    [] type = "tuic" -> {X(f, "1") : f \in {"insecure", "sni", "alpn", "ca", "disableSni", "zeroRtt", "heartbeat", "uos", "cc", "relay"}}
Extra == {S(f, "1") : f \in {"sni", "alpn", "cert", "utls", "insecure", "pbk", "sid", "pkt", "ed", "edName"}}
Transports(type) ==
  {[PlainBean(type) EXCEPT !.address = a, !.s.sec = sec, !.s.net = n[1], !.s.header = n[2], !.s.path = p[1], !.s.host = p[2]] :
     a \in {"name", "ip"}, sec \in {"", "tls"}, p \in {<<"", "">>, <<"/ray", "h">>, <<"/ray&x", "h">>, <<"/ray?ed=9", "">>},
     n \in {<<"tcp", "">>, <<"tcp", "http">>, <<"ws", "">>, <<"http", "">>, <<"grpc", "">>, <<"httpupgrade", "">>, <<"quic", "">>}}
Pairs(bs, os) == {With(With(b, o), p) : b \in bs, o \in os \cup {<<"">>}, p \in os \cup {<<"address", "ip">>}}
Shared(type) ==
  IF type \notin Streamed THEN Pairs({PlainBean(type)}, Own(type))
  ELSE Pairs({With(PlainBean(type), S("sec", sec)) : sec \in {"", "tls"}}, Extra \cup Own(type))
       \cup {With(b, o) : b \in Transports(type), o \in IF type \in {"socks", "http", "shadowsocks"} THEN {<<"">>} ELSE Extra}
Beans == UNION {{[bean |-> b, old |-> o, from |-> f[1], to |-> f[2]] : b \in Shared(type), o \in (IF type = "vmess" THEN BOOLEAN ELSE {FALSE}),
                   f \in IF type \in {"vmess", "vless", "trojan"} THEN {<<"", "">>, <<"chrome", "edge">>} ELSE {<<"", "">>}} :
                type \in Streamed \cup {"naive", "hysteria2", "tuic"}}

Input ==
  \/ w \in Chains \cup Routes \cup Names /\ id \in {1, 3}
  \/ w \in Tuns /\ id = 0
  \/ w \in Targets /\ id = -1
  \/ \E n \in Networks \cup {None} : \E m \in AllMachines[n] : w = [m |-> m, net |-> n] /\ id = -2
  \/ w \in Beans /\ id = -3
Asleep == /\ net = None /\ settings = Off /\ moves = MaxMoves /\ acts = MaxActs
          /\ wifi = Watch(FALSE) /\ g = Window(TRUE)
Init == /\ r = None
        /\ \/ Input /\ Asleep
           \/ w = None /\ id = None /\ OdInit /\ settings = OnTwo /\ net # "B"
Build ==
  /\ w # None /\ r = None
  /\ r' = CASE id = 0 -> T!VpnConfig(w) [] id > 0 -> BuildConfig(w, id)
             [] id = -1 -> resolveSsidOnDemandProfile(w.ref, w.profiles) [] id = -2 -> ReadWifi(w.m)
             [] id = -3 -> L!Import(L!ToShareLink(w.bean, w.old, w.from), w.to)
  /\ UNCHANGED <<w, id, odVars>>
Next == Build \/ (w = None /\ OdNext /\ UNCHANGED <<w, id, r>>)
Spec == Init /\ [][Next]_vars /\ OdFairness

Packets == [inb : {Fixed("app")}, quic : BOOLEAN, dns : BOOLEAN, dom : SUBSET {"block", "remote", "direct"},
            ip : {{}, {"remote"}, {"direct"}}, local : BOOLEAN, proc : {"app", "listed", "core", "client"}, cidr : BOOLEAN]
Done(k) == w # None /\ id = k /\ r # None
Built == w # None /\ id > 0 /\ r # None /\ r.err = ""
Ids == Ents(w, id)
\* The same profile twice in one chain, which the editor and a front proxy allow, has
\* one tag in the middle and one object that counts.
Repeats == Cardinality(Range(Ids)) < Len(Ids)
Plainly == Built /\ Ids # <<>> /\ ~Repeats
TagsOf(c) == {c.outs[i].tag : i \in 1..Len(c.outs)}
Onward(tag) == Goes(r.rules, NoTag, [inb |-> tag, quic |-> TRUE, dns |-> TRUE, dom |-> {"block", "remote", "direct"},
                                   ip |-> {"block", "remote", "direct"}, local |-> TRUE, proc |-> "core", cidr |-> TRUE])

(* What leaves by the outbound "proxy" passes every profile of the chain in its order:
   each outbound dials through the next one, or the mapping inbound opened for its external
   core leads there, whatever other rule the core's packets match; only the first profile
   goes out by itself. That the external core uses the inbound is up to the command of a
   custom profile; the cores of QUIC are never told of it (Beans, External). *)
ChainIsWired ==
  Plainly => \A i \in 1..Len(Ids) :
    LET o == r.outs[i]
        mapped == \E x \in r.ins : x.tag = o.tag /\ x.to = Ids[i]
    IN /\ o.id = Ids[i] /\ (i = 1 => o.tag = Fixed("proxy"))
       /\ \A j \in 1..Len(r.outs) : r.outs[j].tag = o.tag => i = j
       /\ IF i = Len(Ids) THEN o.detour = NoTag /\ (mapped => Onward(o.tag) = Fixed("direct"))
          ELSE IF mapped THEN o.detour = NoTag /\ Onward(o.tag) = r.outs[i + 1].tag
          ELSE o.detour = r.outs[i + 1].tag /\ Ids[i] \notin r.exts

(* The core refuses a configuration that names an outbound or a DNS server it does not
   define; the builder writes none, except for a chain without profiles and for the
   default outbound "block", which the dialog of the routes still offers. *)
RefsExist ==
  Built /\ Ids # <<>> =>
    /\ \A i \in 1..Len(r.outs) : r.outs[i].detour \in TagsOf(r) \cup {NoTag}
    /\ \A i \in 1..Len(r.rules) : r.rules[i].out \in TagsOf(r) \cup {Fixed("reject"), Fixed("hijack")}
    /\ r.final \in TagsOf(r) \/ (w.def = "block" /\ ~w.test)
    /\ LET servers == {r.servers[i].tag : i \in 1..Len(r.servers)}
       IN /\ "dns-direct" \in servers   \* default_domain_resolver
          /\ \A i \in 1..Len(r.dns) : r.dns[i].server \in servers
          /\ \A i \in 1..Len(r.servers) : r.servers[i].resolver \in servers \cup {""}
    /\ \A i \in 1..Len(r.servers) : r.servers[i].detour \in TagsOf(r) \cup {NoTag}

(* The statistics name each profile once, under the tag its bytes leave by, and the
   chain under that of its last profile - unless a profile is there twice, or stands
   behind a front proxy: its object is then in the list twice. *)
CountedOnce ==
  Plainly /\ (w.prof[id].chain \/ Len(Ids) = 1) =>
    /\ \A i \in 1..Len(r.stats) : \A j \in 1..Len(r.stats) : r.stats[i].id = r.stats[j].id => i = j
    /\ \A e \in Range(r.stats) :
         IF e.id = id THEN e.tag = Fixed("proxy")
         ELSE \E i \in 1..Len(Ids) : r.outs[i].id = e.id /\ r.outs[i].tag = e.tag
    /\ r.ignore = {r.outs[i].tag : i \in 2..Len(Ids)}

(* An external core that dials by itself under the Tun of the core is not sent back into
   the proxy, nor is a VPN client that the settings except: only the user's own lists of
   sites and addresses may do that. *)
NoLoop ==
  Plainly => \A p \in Packets :
    (TunIn(w) /\ p.dom = {} /\ p.ip = {} /\ ~p.cidr) =>
      /\ p.proc = "core" /\ r.exts # {} => Goes(r.rules, r.final, p) # Fixed("proxy")
      /\ p.proc = "client" /\ w.clients => Goes(r.rules, r.final, p) # Fixed("proxy")

(* The two Tuns treat a packet alike, whichever process runs it: in the two-process mode
   it goes through the rules of the Tun process and then, by the SOCKS inbound, through
   those of the core. Where the user's lists, the core's DNS and QUIC rules, or the
   settings for other VPNs and the default outbound have a say, they differ. *)
TunsAgree ==
  Plainly /\ TunIn(w) /\ w.clients /\ w.def = "proxy" =>
    LET two == BuildConfig([w EXCEPT !.internal = FALSE], id)
        Class(tag) == IF tag \in {Fixed("direct"), Fixed("bypass")} THEN "direct" ELSE tag[1]
    IN two.err = "" => \A p \in Packets :
         (p.dom = {} /\ p.ip = {} /\ ~p.quic /\ p.proc # "core" /\ (p.proc = "client" => ~p.cidr)
          /\ (p.dns => p.proc = "app" /\ ~p.cidr /\ ~p.local)) =>
           LET tun == Goes(VpnRules(w), VpnFinal(w), p)
               there == IF tun = Fixed("proxor-socks") THEN Goes(two.rules, two.final, [p EXCEPT !.proc = "main"]) ELSE tun
           IN Class(there) = Class(Goes(r.rules, r.final, p))

(* The name of a proxy server is never looked up through the proxy, nor answered with a
   made-up address: not for the outbounds, nor for an external core under Tun - unless
   the user's own list says so. *)
ServersResolve ==
  Plainly => \A i \in Range(Ids) : i \in r.direct =>
    \A listed \in SUBSET {"remote"} : \A asks \in BOOLEAN :
      LET q == [outbound |-> asks, hosts |-> FALSE, lists |-> listed \cup {"direct"}, block |-> FALSE]
      IN asks \/ listed = {} => Server(r, q) = "dns-direct"

(* Multiplexing is set on one outbound of a chain at most, the last that can have it. *)
OneMux ==
  Plainly => LET can == {i \in 1..Len(Ids) : w.prof[Ids[i]].kind = "mux"}
             IN {i \in 1..Len(Ids) : r.outs[i].mux} = {i \in can : \A j \in can : i <= j}

(* What the GUI writes for the Tun process passes the helper's validator, whatever the
   settings - except a DNS of the machine that is an answer code, whose server is gone
   when the others look for it. *)
HelperAccepts == (Done(0) /\ w.underlying # "rcode") => T!ValidateTunConfig(r, w.port)

(* A configuration that differs from it in one thing the GUI never writes is refused,
   wherever the thing is: another part, key, type, server or port, a name that is not
   defined, in a rule or in the rules of a rule. *)
Rules(outward) ==
  {T!On({"rule_set"}, "reject", ""), T!On({"domain"}, "route", "nowhere"), T!On({"domain"}, outward, "")}
Nest(rule, depth) == IF depth = 0 THEN rule ELSE [T!On({"rules"}, "reject", "") EXCEPT !.kind = "logical",
                     !.sub = <<IF depth = 1 THEN rule ELSE [T!On({"rules"}, "reject", "") EXCEPT !.kind = "logical", !.sub = <<rule>>]>>]
Odd(c) ==
  {[c EXCEPT !.top = @ \cup {k}] : k \in {"ntp", "certificate", "endpoints", "services", "experimental"}}
  \cup {[c EXCEPT !.logOutput = TRUE], [c EXCEPT !.fakeip = TRUE], [c EXCEPT !.final = "nowhere"], [c EXCEPT !.dnsFinal = "nowhere"],
        [c EXCEPT !.defaultResolver = "nowhere"], [c EXCEPT !.routeKeys = @ \cup {"default_interface"}],
        [c EXCEPT !.inbounds = @ \o @], [c EXCEPT !.inbounds[1].type = "mixed"], [c EXCEPT !.inbounds[1].stack = "lwip"],
        [c EXCEPT !.inbounds[1].keys = @ \cup {"platform"}], [c EXCEPT !.outbounds = Tail(@)],
        [c EXCEPT !.outbounds[1].server = "192.0.2.1"], [c EXCEPT !.outbounds[1].port = @ + 1]}
  \cup {[c EXCEPT !.outbounds[i].keys = @ \cup {"bind_interface"}] : i \in 1..3}
  \cup {[c EXCEPT !.outbounds[i].type = "vless"] : i \in 1..3} \cup {[c EXCEPT !.outbounds[i].tag = "direct"] : i \in {1, 3}}
  \cup {[c EXCEPT !.servers[i] = [@ EXCEPT !.type = t]] : i \in 1..4, t \in {"dhcp", "hosts"}}
  \cup {[c EXCEPT !.servers[2] = s] : s \in {[c.servers[2] EXCEPT !.keys = @ \cup {"bind_interface"}],
        [c.servers[2] EXCEPT !.detour = "nowhere"], [c.servers[2] EXCEPT !.resolver = "nowhere"],
        [c.servers[2] EXCEPT !.tls = {"certificate_path"}],
        [c.servers[2] EXCEPT !.type = "https", !.keys = {"server", "path"}, !.path = "bare"]}}
  \cup {[c EXCEPT !.rules = Append(@, Nest(rule, d))] : rule \in Rules("direct"), d \in 0..2}
  \cup {[c EXCEPT !.dnsRules = Append(@, Nest(rule, d))] : rule \in Rules("resolve"), d \in 0..2}
HelperRefuses == Done(0) => \A c \in Odd(r) : ~T!ValidateTunConfig(c, w.port)

(* A definite reading never names another network than the one the machine is on, and says
   "not connected" only when it is on none or in the cases of Misled: On-Demand takes
   every such answer for a change of network (the three readers, ChooseWifiReading). *)
ReadingsAreTrue ==
  Done(-2) /\ Definite(r) => r.ssid = w.net \/ (r = NotConnected /\ Misled(w.m))

(* On-Demand finds the one profile that fits the reference best, in whatever order the
   profiles are met, and none when two fit it equally (resolveSsidOnDemandProfile). *)
TargetIsBest ==
  Done(-1) =>
    LET fit == {p \in Range(w.profiles) : Acceptable(w.ref, p)}
        best == {p \in fit : \A q \in fit : Score(w.ref, q) <= Score(w.ref, p)}
    IN IF w.ref.id \in {p.id : p \in Range(w.profiles)} THEN r = w.ref.id
       ELSE IF Cardinality(best) = 1 THEN best = {p \in fit : p.id = r} ELSE r = None

(* A profile shared as a link and imported on another machine dials as it did, in all its
   link has a place for: Carried. Beyond that the import changes four things: a Trojan or
   VMess server without TLS gets it, an empty fingerprint becomes that of the settings, an
   address without SNI gets the host for it, and a login of base64 alone is decoded. It is
   refused only without the credentials (ToShareLink, TryParseLink, FixEnt). *)
Carried(b, old) ==
  LET s == b.s
      lost == [s EXCEPT !.cert = "", !.ed = "", !.edName = "", !.pkt = "", !.pbk = IF s.sec = "tls" THEN @ ELSE ""]
      told == [lost EXCEPT !.path = L!Cut(@), !.host = IF L!Opts(s) \/ L!Get(s) THEN @ ELSE ""]
      x == b.x
  IN CASE b.type = "socks" -> [b EXCEPT !.s = L!Stream]
       [] b.type = "http" -> [b EXCEPT !.s = [L!Stream EXCEPT !.sec = s.sec]]
       [] b.type = "shadowsocks" -> [b EXCEPT !.s = L!Stream, !.x.uot = "", !.x.plugin = IF @ = <<"simple-obfs">> THEN <<"obfs-local">> ELSE @]
       [] b.type \in {"trojan", "vless"} -> [b EXCEPT !.s = told]
       [] b.type = "vmess" ->
            IF old THEN [b EXCEPT !.s = [lost EXCEPT !.alpn = "", !.utls = "", !.insecure = "", !.pbk = ""]]
            ELSE [b EXCEPT !.x.aid = "", !.s = [told EXCEPT !.alpn = "", !.path = IF L!Get(s) THEN "" ELSE @]]
       [] b.type = "naive" -> [b EXCEPT !.x.sni = "", !.x.cert = "", !.x.headers = ""]
       [] b.type = "hysteria2" -> [b EXCEPT !.x.up = "", !.x.hopInterval = "10", !.x.ca = "", !.x.disableSni = "", !.x.alpn = ""]
       [] b.type = "tuic" -> [b EXCEPT !.x.zeroRtt = "", !.x.heartbeat = "10s", !.x.uos = "", !.x.ca = ""]
Arrives ==
  LET b == Carried(w.bean, w.old)
      new == b.type = "vmess" /\ ~w.old
      sec == IF b.type = "trojan" \/ new THEN "tls" ELSE b.s.sec
      sni == IF b.type \in Streamed /\ sec = "tls" /\ b.address = "ip" THEN L!Or(b.s.sni, b.s.host) ELSE b.s.sni
      utls == IF new THEN L!Or(b.s.utls, L!Or(w.from, w.to)) ELSE IF b.type \in {"trojan", "vless"} THEN L!Or(b.s.utls, w.to) ELSE b.s.utls
      c == [b EXCEPT !.s.sec = sec, !.s.sni = sni, !.s.utls = utls]
  IN IF b.type \in {"socks", "http"} /\ b.x.user = "bmFt" /\ b.x.pass = "" THEN [c EXCEPT !.x.user = "nam", !.x.pass = "nam"] ELSE c
Credentials(b) ==
  CASE b.type \in {"shadowsocks", "trojan", "vless"} -> b.x.pass # "" [] b.type = "vmess" -> w.old \/ b.x.uuid # ""
    [] b.type = "naive" -> b.x.user # "" [] OTHER -> TRUE
LinkDials == Done(-3) => IF Credentials(w.bean) THEN r # None /\ L!Outbound(r) = L!Outbound(Arrives) ELSE r = None

(* The network is read truly and decides what runs (WifiMonitor, applyOnDemandForSsid). *)
NetworkSound == NetworkDecides /\ ReadingsAreTrue /\ TargetIsBest

(* The chain is wired, multiplexed and counted as one (BuildChain, BuildChainInternal). *)
ChainSound == ChainIsWired /\ OneMux /\ CountedOnce

(* Nothing that has to leave directly enters the proxy, in either Tun or in the DNS. *)
TrafficGoesRight == NoLoop /\ TunsAgree /\ ServersResolve

(* The same server as a node of Clash and as one of SIP008. *)
NoNode == [k \in {"type", "server", "port", "cipher", "password", "plugin", "mode", "pluginHost", "pluginPath", "pluginTls", "uot", "uotVersion",
  "username", "tls", "skip", "uuid", "flow", "network", "sni", "servername", "alpn", "fp", "wsHost", "wsPath", "wsEd", "wsEdName", "service",
  "publicKey", "shortId", "alterId", "packetAddr", "xudp", "h2Host", "h2Path", "httpHost", "httpPath", "ports", "obfs", "up", "down", "ca",
  "relay", "congestion", "disableSni", "zeroRtt", "heartbeat", "overStream", "ip"} |-> ""] @@ [opts |-> {}]
Option(plugin, k) == LET o == {i \in 2..Len(plugin) : plugin[i][1] = k} IN IF o = {} THEN "" ELSE plugin[CHOOSE i \in o : TRUE][2]
NodeOf(b) ==
  LET s == b.s
      x == b.x
      n == [NoNode EXCEPT !.type = b.type, !.server = b.address, !.port = b.port, !.tls = IF s.sec = "tls" THEN "1" ELSE "", !.sni = s.sni, !.alpn = s.alpn,
              !.fp = s.utls, !.skip = s.insecure, !.network = CASE s.net = "http" -> "h2" [] L!Get(s) -> "http" [] OTHER -> s.net,
              !.wsHost = s.host, !.wsPath = s.path, !.service = s.path, !.h2Host = s.host, !.h2Path = s.path, !.httpHost = s.host, !.httpPath = s.path,
              !.publicKey = s.pbk, !.shortId = s.sid,
              !.opts = (CASE s.net = "ws" -> {"ws"} [] s.net = "grpc" -> {"grpc"} [] s.net = "http" -> {"h2"} [] L!Get(s) -> {"http"} [] OTHER -> {})
                       \cup (IF s.pbk # "" THEN {"reality"} ELSE {})]
  IN CASE b.type \in {"socks", "http"} -> [n EXCEPT !.type = IF b.type = "socks" THEN "socks5" ELSE "http", !.username = x.user, !.password = x.pass]
       [] b.type = "shadowsocks" -> [n EXCEPT !.type = "ss", !.cipher = x.method, !.password = x.pass, !.opts = IF x.plugin # <<>> THEN {"plugin"} ELSE {},
             !.plugin = IF x.plugin = <<>> THEN "" ELSE IF x.plugin[1] = "obfs-local" THEN "obfs" ELSE x.plugin[1], !.mode = Option(x.plugin, "obfs"),
             !.pluginHost = L!Or(Option(x.plugin, "host"), Option(x.plugin, "obfs-host")), !.pluginTls = Option(x.plugin, "tls")]
       [] b.type = "trojan" -> [n EXCEPT !.password = x.pass]
       [] b.type = "vless" -> [n EXCEPT !.uuid = x.pass, !.flow = x.flow]
       [] b.type = "vmess" -> [n EXCEPT !.uuid = x.uuid, !.cipher = x.cipher]
       [] b.type = "hysteria2" -> [n EXCEPT !.password = x.pass, !.ports = x.hop, !.skip = x.insecure, !.sni = x.sni, !.obfs = x.obfs]
       [] b.type = "tuic" -> [n EXCEPT !.uuid = x.uuid, !.password = x.pass, !.relay = x.relay, !.congestion = x.cc, !.disableSni = x.disableSni,
             !.skip = x.insecure, !.alpn = x.alpn, !.sni = x.sni]
ServerOf(b) == [server |-> b.address, port |-> b.port, method |-> b.x.method, password |-> b.x.pass, plugin |-> b.x.plugin, disabled |-> FALSE]

(* One server from two subscriptions is one profile, whichever format each has - where the
   link tells all of it (b = Carried) and Clash does too: it knows no other transport, no
   server of Trojan or VLESS without TLS, and gives VLESS an encoding of its own. *)
SameServer(b) ==
  LET tls == b.s.sec = "tls"
  IN /\ b.type # "naive" /\ ~w.old /\ Credentials(b) /\ L!Outbound(Carried(b, FALSE)) = L!Outbound(b)
     /\ b.type \in {"vmess", "trojan", "vless"} =>
          tls /\ (b.s.net \in {"ws", "grpc"} \/ (b.s.net = "tcp" /\ (b.s.header = "" \/ b.type = "vmess")) \/ (b.s.net = "http" /\ b.type = "vmess"))
     /\ b.type = "vmess" => b.s.pbk = "" /\ w.from = w.to
     /\ b.type = "socks" => b.x.v = "socks5" /\ ~tls
     /\ b.type \in {"socks", "http"} => b.x.user # "bmFt"
     /\ b.type = "shadowsocks" => b.x.plugin # <<"simple-obfs">>
FormatsAgree ==
  Done(-3) /\ SameServer(w.bean) =>
    LET b == w.bean
        n == L!Clash(NodeOf(b), w.to)
    IN /\ n # None /\ L!Outbound(n) = L!Outbound(IF b.type = "vless" THEN [r EXCEPT !.s.pkt = "xudp"] ELSE r)
       /\ b.type = "shadowsocks" => L!Outbound(L!Sip008(ServerOf(b))) = L!Outbound(r)

(* An external QUIC core dials the server the core itself would, and asks for the same
   certificate - save TUIC, which without an SNI is given no name at all and is never
   allowed an insecure one, and Hysteria 2, which always sends the name (BuildExternal). *)
ExternalDials ==
  Done(-3) /\ w.bean.type \in {"tuic", "hysteria2"} =>
    LET b == w.bean
        e == L!External(b)
        o == L!Outbound(b)
    IN /\ e.address = o.address /\ e.ca = o.tls.cert /\ (b.type = "tuic" \/ e.insecure = o.tls.insecure)
       /\ e.port = (IF b.type = "hysteria2" THEN L!Or(o.own.hop, o.port) ELSE o.port)
       /\ e.name = o.tls.name \/ (o.tls.name = "" /\ e.name = b.address)
       /\ e.name = "" => b.address = "ip" \/ b.type = "tuic"

(* A profile is the same server as text and in another program (Bean2Link, Link2Bean,
   updateClash, UpdateSip008, BuildExternal). *)
ProfilesTravel == LinkDials /\ FormatsAgree /\ ExternalDials

(* The writer in the GUI and the validator in the helper draw the same line. *)
HelperAgrees == HelperAccepts /\ HelperRefuses
=============================================================================
