---------------------------------- MODULE ShareLinks ----------------------------------
(* Profiles as text: the links a profile is shared by (Bean2Link.cpp), how a link becomes
   a profile again (Link2Bean.cpp), and the two other formats of a subscription, the
   nodes of Clash and the servers of SIP008 (GroupUpdater.cpp). None: it is refused.

   A link is its scheme, login, host, port and query, a total function in which "" is an
   item that is not there: every reader takes an empty item for a missing one. The JSON
   of v2rayN stands in the query of a link of scheme "v2rayN". fp is the fingerprint the
   settings of a machine give to TLS by default.                                     *)
EXTENDS Beans
CONSTANT None

NoQuery == [k \in {"security", "sni", "peer", "alpn", "allowInsecure", "fp", "pbk", "sid", "type", "path", "host", "serviceName",
  "headerType", "flow", "encryption", "packetEncoding", "congestion", "relay", "disableSni", "obfs", "mport", "insecure",
  "id", "aid", "net", "scy", "tls"} |-> ""] @@ [plugin |-> <<>>]
Url(scheme, b, user, pass, q) == [scheme |-> scheme, host |-> b.address, port |-> b.port, user |-> user, pass |-> pass, q |-> q]

(* The query of GetQuery is decoded before it is split, so that a value ends at its "&". *)
Cut(v) == IF v = "/ray&x" THEN "/ray" ELSE v
GetQuery(l) == [k \in DOMAIN l.q |-> Cut(l.q[k])]

(* What the links of Trojan, VLESS and VMess share. *)
Opts(s) == s.net \in {"ws", "http", "httpupgrade"}
Get(s) == s.net = "tcp" /\ s.header = "http"
Security(s) == IF s.sec = "tls" /\ s.pbk # "" THEN "reality" ELSE s.sec
StreamQuery(s) ==
  LET reality == Security(s) = "reality"
  IN [NoQuery EXCEPT !.security = Security(s), !.sni = s.sni, !.allowInsecure = s.insecure, !.fp = s.utls,
        !.pbk = IF reality THEN s.pbk ELSE "", !.sid = IF reality THEN s.sid ELSE "", !.type = s.net,
        !.path = IF Opts(s) \/ Get(s) THEN s.path ELSE "", !.host = IF Opts(s) \/ Get(s) THEN s.host ELSE "",
        !.serviceName = IF s.net = "grpc" THEN s.path ELSE "", !.headerType = IF Get(s) THEN "http" ELSE ""]
\* mutant: the security of a Reality server is taken as it is
RealityIsNew(sec, unset) == LET s == Or(sec, unset) IN IF s = "none" THEN "" ELSE s
NoReality(sec, unset) == LET s == Or(sec, unset) IN CASE s = "reality" -> "tls" [] s = "none" -> "" [] OTHER -> s
Net(type) == IF type = "h2" THEN "http" ELSE type
StreamOf(q, unset, fp) ==
  LET net == Net(Or(q.type, "tcp"))
      s == [Stream EXCEPT !.net = net, !.sec = NoReality(q.security, unset), !.sni = Or(q.peer, q.sni), !.utls = Or(q.fp, fp),
              !.insecure = q.allowInsecure, !.pbk = q.pbk, !.sid = q.sid]
      named == [s EXCEPT !.path = q.path, !.host = q.host]
  IN IF Opts(s) THEN named
     ELSE IF net = "grpc" THEN [s EXCEPT !.path = q.serviceName]
     ELSE IF net = "tcp" /\ q.headerType = "http" THEN [named EXCEPT !.header = "http"]
     ELSE s

(* ToShareLink of each bean. old: old_share_link_format. *)
V2RayN(b) ==
  Url("v2rayN", b, "", "", [NoQuery EXCEPT !.id = b.x.uuid, !.aid = b.x.aid, !.net = b.s.net, !.host = b.s.host, !.path = b.s.path,
                              !.type = b.s.header, !.scy = b.x.cipher, !.tls = IF b.s.sec = "tls" THEN "tls" ELSE "", !.sni = b.s.sni])
ToShareLink(b, old, fp) ==
  LET s == b.s
      x == b.x
  IN CASE b.type = "http" -> Url(IF s.sec = "tls" THEN "https" ELSE "http", b, x.user, x.pass, NoQuery)
       [] b.type = "socks" -> Url(x.v, b, x.user, x.pass, NoQuery)
       [] b.type = "shadowsocks" -> Url("ss", b, x.method, x.pass, [NoQuery EXCEPT !.plugin = x.plugin])
       [] b.type \in {"trojan", "vless"} ->
            Url(b.type, b, x.pass, "", [StreamQuery(s) EXCEPT !.alpn = s.alpn, !.flow = IF b.type = "vless" THEN x.flow ELSE ""])
       [] b.type = "vmess" ->
            IF old THEN V2RayN(b)
            ELSE Url("vmess", b, x.uuid, "", [StreamQuery(s) EXCEPT !.encryption = x.cipher, !.fp = Or(s.utls, fp), !.path = IF Get(s) THEN "" ELSE @])
       [] b.type = "naive" -> Url(IF x.protocol = "quic" THEN "naive+quic" ELSE "naive+https", b, x.user, x.pass, NoQuery)
       [] b.type = "tuic" -> Url("tuic", b, x.uuid, x.pass, [NoQuery EXCEPT !.congestion = x.cc, !.alpn = x.alpn, !.sni = x.sni, !.relay = x.relay,
                                                              !.allowInsecure = x.insecure, !.disableSni = x.disableSni])
       [] b.type = "hysteria2" -> Url("hy2", b, x.pass, "", [NoQuery EXCEPT !.obfs = x.obfs, !.mport = x.hop, !.insecure = x.insecure, !.sni = x.sni])

(* TryParseLink of each bean. A user name alone that is base64 is login and password. *)
Bean(type, l, unset) == [NewBean(type) EXCEPT !.address = l.host, !.port = Or(l.port, unset)]
Login(l) == IF l.pass = "" /\ l.user = "bmFt" THEN <<"nam", "nam">> ELSE <<l.user, l.pass>>
SocksHttp(l) ==
  LET type == IF l.scheme \in {"http", "https"} THEN "http" ELSE "socks"
      b == Bean(type, l, IF type = "http" THEN "443" ELSE "1080")
  IN [b EXCEPT !.x.v = IF type = "socks" THEN IF l.scheme = "socks4a" THEN "socks4" ELSE IF l.scheme = "socks4" THEN l.scheme ELSE "socks5" ELSE @,
               !.x.user = Login(l)[1], !.x.pass = Login(l)[2], !.s.sec = IF l.scheme = "https" THEN "tls" ELSE GetQuery(l).security,
               !.s.sni = GetQuery(l).sni]
TrojanVLESS(l, fp) ==
  LET q == GetQuery(l)
      vless == l.scheme = "vless"
  IN IF l.user = "" THEN None
     ELSE [Bean(l.scheme, l, "443") EXCEPT !.x.pass = l.user, !.x.flow = IF vless THEN q.flow ELSE "",
             !.s = [StreamOf(q, IF vless THEN "" ELSE "tls", fp) EXCEPT !.alpn = q.alpn, !.pkt = IF vless THEN q.packetEncoding ELSE ""]]
PluginName(name) == IF name = "simple-obfs" THEN "obfs-local" ELSE name
ShadowSocks(l) ==
  IF l.user = "" \/ l.pass = "" THEN None
  ELSE [Bean("shadowsocks", l, "") EXCEPT !.x.method = l.user, !.x.pass = l.pass,
          !.x.plugin = IF l.q.plugin = <<>> THEN <<>> ELSE <<PluginName(Head(l.q.plugin))>> \o Tail(l.q.plugin)]
FromV2RayN(l) ==
  LET q == l.q
      b == [Bean("vmess", l, "") EXCEPT !.x.uuid = q.id, !.x.aid = q.aid, !.x.cipher = Or(q.scy, @)]
  IN [b EXCEPT !.s = [Stream EXCEPT !.host = q.host, !.path = q.path, !.sni = q.sni, !.header = q.type, !.sec = q.tls,
                        !.pkt = q.packetEncoding, !.net = Or(Net(q.net), @)]]
VMess(l, fp) ==
  LET q == GetQuery(l)
  IN IF l.user = "" THEN None
     ELSE [Bean("vmess", l, "443") EXCEPT !.x.uuid = l.user, !.x.aid = "", !.x.cipher = Or(q.encryption, "auto"),
             !.s = [StreamOf(q, "tls", fp) EXCEPT !.pkt = q.packetEncoding]]
Naive(l) ==
  IF l.user = "" \/ l.pass = "" THEN None
  ELSE [Bean("naive", l, "") EXCEPT !.x.protocol = IF l.scheme = "naive+quic" THEN "quic" ELSE "https", !.x.user = l.user, !.x.pass = l.pass]
Tuic(l) ==
  IF l.port = "" THEN None
  ELSE [Bean("tuic", l, "") EXCEPT !.x.uuid = l.user, !.x.pass = l.pass, !.x.cc = l.q.congestion, !.x.alpn = l.q.alpn, !.x.sni = l.q.sni,
          !.x.relay = l.q.relay, !.x.insecure = l.q.allowInsecure, !.x.disableSni = l.q.disableSni]
Hysteria2(l) ==
  IF l.port = "" THEN None
  ELSE [Bean("hysteria2", l, "") EXCEPT !.x.pass = l.user, !.x.hop = l.q.mport, !.x.obfs = l.q.obfs, !.x.insecure = l.q.insecure, !.x.sni = l.q.sni]

(* RawUpdater: FixEnt, and the scheme that chooses the reader. *)
FixEnt(b) ==
  LET sec == CASE b.s.sec \in {"none", "0", "false"} -> "" [] b.s.sec \in {"1", "true"} -> "tls" [] OTHER -> b.s.sec
      sni == IF sec = "tls" /\ b.address = "ip" /\ b.s.sni = "" THEN b.s.host ELSE b.s.sni
  IN [b EXCEPT !.s.sec = sec, !.s.sni = sni]
Fixed(b) == IF b = None THEN None ELSE FixEnt(b)
Import(l, fp) ==
  CASE l.host = "" /\ l.scheme # "v2rayN" -> None
    [] l.scheme \in {"socks", "socks4", "socks4a", "socks5", "http", "https"} -> Fixed(SocksHttp(l))
    [] l.scheme = "ss" -> Fixed(ShadowSocks(l))
    [] l.scheme = "vmess" -> Fixed(VMess(l, fp))
    [] l.scheme = "v2rayN" -> Fixed(FromV2RayN(l))
    [] l.scheme \in {"vless", "trojan"} -> Fixed(TrojanVLESS(l, fp))
    [] l.scheme \in {"naive+https", "naive+quic"} -> Naive(l)
    [] l.scheme \in {"hysteria2", "hy2"} -> Hysteria2(l)
    [] l.scheme = "tuic" -> Tuic(l)
    [] OTHER -> None

(* UpdateSip008, one server. *)
Sip008(v) ==
  IF v.disabled \/ v.server = "" \/ v.port = "" \/ v.method = "" \/ v.password = "" THEN None
  ELSE [NewBean("shadowsocks") EXCEPT !.address = v.server, !.port = v.port,
          !.x = [method |-> v.method, pass |-> v.password, plugin |-> v.plugin, uot |-> ""]]

(* updateClash, one node: a total function as a query is; opts names the maps of options
   it has. An option of a map that is there overwrites, with "" too. httpHost is the value of
   the first header, if that is Host: the loop over the others ends there.           *)
Has(n, map) == map \in n.opts
ClashStream(n, fp) ==
  LET s == [Stream EXCEPT !.net = Or(n.network, "tcp"), !.sni = Or(n.sni, n.servername), !.alpn = n.alpn,
              !.insecure = n.skip, !.utls = Or(n.fp, fp)]
      ws == IF Has(n, "ws") THEN [s EXCEPT !.host = n.wsHost, !.path = n.wsPath, !.ed = n.wsEd, !.edName = n.wsEdName] ELSE s
  IN IF Has(n, "grpc") THEN [ws EXCEPT !.path = n.service] ELSE ws
ClashTrojan(n, s) ==
  [NewBean(n.type) EXCEPT !.x.pass = IF n.type = "vless" THEN n.uuid ELSE n.password, !.x.flow = IF n.type = "vless" THEN n.flow ELSE "",
     !.s = [s EXCEPT !.sec = "tls",   \* whatever the node says of it
              !.pkt = IF n.type = "trojan" THEN "" ELSE IF n.packetAddr # "" THEN "packetaddr" ELSE "xudp",
              !.pbk = IF Has(n, "reality") THEN n.publicKey ELSE "", !.sid = IF Has(n, "reality") THEN n.shortId ELSE ""]]
ClashVMess(n, s) ==
  LET xray == s.edName = "Sec-WebSocket-Protocol" /\ Has(n, "ws") /\ ~Has(n, "grpc")
      base == [s EXCEPT !.net = Net(@), !.sec = IF n.tls # "" THEN "tls" ELSE "",
                 !.pkt = IF n.packetAddr # "" THEN "packetaddr" ELSE IF n.xudp # "" THEN "xudp" ELSE "",
                 !.path = IF xray /\ @ = "/ray" THEN "/ray?ed=9" ELSE @]
      h2 == IF Has(n, "h2") THEN [base EXCEPT !.host = n.h2Host, !.path = n.h2Path] ELSE base
      get == [h2 EXCEPT !.net = "tcp", !.header = "http", !.host = Or(n.httpHost, @), !.path = Or(n.httpPath, @)]
  IN [NewBean("vmess") EXCEPT !.x = [uuid |-> n.uuid, aid |-> n.alterId, cipher |-> Or(n.cipher, "auto")],
                              !.s = IF Has(n, "http") THEN get ELSE h2]
ClashPlugin(n) ==
  IF ~Has(n, "plugin") THEN <<>>
  ELSE CASE n.plugin = "obfs" -> <<"obfs-local", <<"obfs", n.mode>>, <<"obfs-host", n.pluginHost>>>>
         [] n.plugin = "v2ray-plugin" ->
              <<n.plugin>> \o SelectSeq(<<<<"mode", IF n.mode = "websocket" THEN "" ELSE n.mode>>, <<"tls", n.pluginTls>>,
                                          <<"host", n.pluginHost>>, <<"path", n.pluginPath>>>>, LAMBDA o : o[2] # "")
         [] OTHER -> <<>>
ClashQuic(n) ==
  LET b == [NewBean(n.type) EXCEPT !.x.pass = n.password, !.x.insecure = n.skip, !.x.ca = n.ca, !.x.sni = n.sni]
  IN IF n.type = "hysteria2" THEN [b EXCEPT !.x.hop = n.ports, !.x.obfs = n.obfs, !.x.up = n.up, !.x.down = n.down]
     ELSE [b EXCEPT !.x.uuid = n.uuid, !.x.relay = Or(n.relay, @), !.x.cc = Or(n.congestion, @), !.x.disableSni = n.disableSni,
             !.x.zeroRtt = n.zeroRtt, !.x.alpn = n.alpn, !.x.uos = n.overStream, !.x.heartbeat = Or(n.heartbeat, @),
             !.x.sni = Or(@, IF n.ip # "" THEN n.server ELSE "")]
Clash(n, fp) ==
  LET s == ClashStream(n, fp)
      b == CASE n.type = "ss" -> [NewBean("shadowsocks") EXCEPT
                   !.x = [method |-> n.cipher, pass |-> n.password, plugin |-> ClashPlugin(n), uot |-> IF n.uot # "" THEN Or(n.uotVersion, "2") ELSE ""]]
             [] n.type \in {"socks5", "http"} -> [NewBean(IF n.type = "http" THEN n.type ELSE "socks") EXCEPT
                   !.x.user = n.username, !.x.pass = n.password, !.s.sec = IF n.tls # "" THEN "tls" ELSE "", !.s.insecure = n.skip]
             [] n.type \in {"trojan", "vless"} -> FixEnt([ClashTrojan(n, s) EXCEPT !.address = n.server])
             [] n.type = "vmess" -> FixEnt([ClashVMess(n, s) EXCEPT !.address = n.server])
             [] n.type \in {"hysteria2", "tuic"} -> ClashQuic(n)
             [] OTHER -> None
  IN IF b = None THEN None ELSE [b EXCEPT !.address = IF n.type = "tuic" THEN Or(n.ip, n.server) ELSE n.server, !.port = n.port]
=============================================================================
