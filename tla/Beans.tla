------------------------------------ MODULE Beans ------------------------------------
(* What a profile dials: the outbound of the core (Bean2CoreObj_box.cpp) and the
   configuration of an external core (Bean2External.cpp).

   A bean is a record: type, address, port, the stream settings s and the fields x of its
   type. Every value is a text and "" stands for what is not set, a flag that is off and a
   number that is 0; texts hold no blanks around them and no percent sequences.      *)
EXTENDS Integers, Sequences, FiniteSets, SequencesExt

Or(a, b) == IF a # "" THEN a ELSE b

(* The fields with what they are in a new profile. *)
Stream == [net |-> "tcp", sec |-> "", pkt |-> "", path |-> "", host |-> "", header |-> "", sni |-> "", alpn |-> "",
           cert |-> "", utls |-> "", insecure |-> "", edName |-> "", ed |-> "", pbk |-> "", sid |-> ""]
QUIC == [external |-> "", insecure |-> "", sni |-> "", alpn |-> "", ca |-> "", disableSni |-> "", pass |-> ""]
Fields(type) ==
  CASE type \in {"socks", "http"} -> [v |-> IF type = "http" THEN type ELSE "socks5", user |-> "", pass |-> ""]
    [] type = "shadowsocks" -> [method |-> "aes-128-gcm", pass |-> "", plugin |-> <<>>, uot |-> ""]
    [] type = "vmess" -> [uuid |-> "", aid |-> "", cipher |-> "auto"]
    [] type \in {"trojan", "vless"} -> [pass |-> "", flow |-> ""]
    [] type = "naive" -> [protocol |-> "https", user |-> "", pass |-> "", sni |-> "", cert |-> "", headers |-> "", quiet |-> ""]
    [] type = "hysteria2" -> QUIC @@ [obfs |-> "", up |-> "", down |-> "", hop |-> "", hopInterval |-> "10"]
    [] type = "tuic" -> QUIC @@ [uuid |-> "", cc |-> "bbr", relay |-> "native", zeroRtt |-> "", heartbeat |-> "10s", uos |-> ""]
NewBean(type) == [type |-> type, address |-> "127.0.0.1", port |-> "1080", s |-> Stream, x |-> Fields(type)]

(* A path may carry the length of the early data, "/ray?ed=9". *)
WithoutEd(path) == IF path = "/ray?ed=9" THEN "/ray" ELSE path
Ed(path) == IF path = "/ray?ed=9" THEN "9" ELSE ""

NoTransport == [type |-> "", path |-> "", host |-> "", early |-> <<>>]
Transport(s) ==
  LET opts == [type |-> s.net, path |-> s.path, host |-> s.host, early |-> <<>>]
  IN CASE s.net = "ws" ->
            [opts EXCEPT !.path = WithoutEd(s.path),
               !.early = IF s.ed # "" THEN <<s.ed, s.edName>>
                         ELSE IF Ed(s.path) # "" THEN <<Ed(s.path), "Sec-WebSocket-Protocol">> ELSE <<>>]
       [] s.net \in {"http", "httpupgrade"} -> opts
       [] s.net = "grpc" -> [opts EXCEPT !.host = ""]
       [] s.net = "tcp" -> IF s.header = "http" THEN [opts EXCEPT !.type = "http by GET"] ELSE NoTransport
       [] OTHER -> [NoTransport EXCEPT !.type = s.net]
NoTLS == [on |-> "", insecure |-> "", name |-> "", cert |-> "", alpn |-> "", reality |-> <<>>, fp |-> ""]
TLS(s) ==
  IF s.sec # "tls" THEN NoTLS
  ELSE [on |-> "tls", insecure |-> s.insecure, name |-> s.sni, cert |-> s.cert, alpn |-> s.alpn,
        reality |-> IF s.pbk # "" THEN <<s.pbk, s.sid>> ELSE <<>>,
        fp |-> Or(s.utls, IF s.pbk # "" THEN "random" ELSE "")]
(* The suffix -udp443 of a flow is cut, and "none" is no flow. *)
Flow(f) == CASE f = "vision-udp443" -> "vision" [] f = "none" -> "" [] OTHER -> f
Streamed(b) == [transport |-> Transport(b.s), tls |-> TLS(b.s)]

QuicTLS(b) ==
  [NoTLS EXCEPT !.on = "tls", !.insecure = b.x.insecure, !.name = b.x.sni, !.cert = b.x.ca,
                !.alpn = IF b.type = "hysteria2" THEN "h3" ELSE b.x.alpn]
Outbound(b) ==
  LET x == b.x
      own == CASE b.type \in {"socks", "http"} -> [v |-> x.v, login |-> IF x.user # "" /\ x.pass # "" THEN <<x.user, x.pass>> ELSE <<>>]
               [] b.type = "shadowsocks" -> x
               [] b.type = "vmess" -> x @@ [pkt |-> b.s.pkt]
               [] b.type = "vless" -> [pass |-> x.pass, flow |-> Flow(x.flow), pkt |-> b.s.pkt]
               [] b.type = "trojan" -> [pass |-> x.pass]
               [] b.type = "naive" -> [k \in DOMAIN x \ {"quiet"} |-> x[k]]
               [] b.type = "hysteria2" -> [pass |-> x.pass, up |-> x.up, down |-> x.down, obfs |-> x.obfs, hop |-> x.hop,
                                           every |-> IF x.hop # "" THEN x.hopInterval ELSE "", disableSni |-> x.disableSni]
               [] b.type = "tuic" -> [uuid |-> x.uuid, pass |-> x.pass, cc |-> x.cc, relay |-> IF x.uos # "" THEN "stream" ELSE x.relay,
                                      zeroRtt |-> x.zeroRtt, heartbeat |-> x.heartbeat, disableSni |-> x.disableSni]
  IN [type |-> b.type, address |-> b.address, port |-> b.port, own |-> own]
     @@ (IF b.type \in {"hysteria2", "tuic"} THEN [transport |-> NoTransport, tls |-> QuicTLS(b)]
         ELSE IF b.type = "naive" THEN [transport |-> NoTransport, tls |-> NoTLS] ELSE Streamed(b))

(* The external cores of QUIC: neither is told of the mapping inbound that ConfigBuilder
   opens for it. name is the name it asks the server's certificate for. *)
External(b) ==
  LET x == b.x
  IN CASE b.type = "tuic" ->
            [address |-> b.address, port |-> b.port, name |-> x.sni, insecure |-> "", ca |-> x.ca, disableSni |-> x.disableSni,
             secret |-> <<x.uuid, x.pass>>, how |-> <<x.relay, x.cc, x.zeroRtt, x.heartbeat, x.alpn>>]
       [] b.type = "hysteria2" ->
            [address |-> b.address, port |-> Or(x.hop, b.port), name |-> Or(x.sni, IF b.address = "ip" THEN "" ELSE b.address),
             insecure |-> x.insecure, ca |-> x.ca, disableSni |-> "", secret |-> <<x.pass, x.obfs>>,
             how |-> <<x.hopInterval, x.up, x.down>>]
=============================================================================
