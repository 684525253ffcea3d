-------------------------------- MODULE TunConfig --------------------------------
(* The configuration of the separate Tun process (WriteVPNSingBoxConfig and its
   template sing-box-vpn.json) and the validator of the macOS helper that runs it as
   root (machelper/validate.go). The two are written in different languages and have to
   agree: what the GUI writes is accepted, what it never writes is refused.

   A part of a configuration is a record with its type, the set of its non-empty keys
   and the values the validator looks at.                                             *)
EXTENDS Integers, Sequences, FiniteSets, SequencesExt

Absent == ""

(* BuildTypedDnsServer: the address as the user wrote it, by its class.  QUrl gives a path
   that is empty, which becomes /dns-query, or begins with a slash. *)
DnsServer(tag, address, detour) ==
  LET remote == address \notin {"local", "fakeip", "rcode"}
      scheme == IF address \in {"tcp", "tls", "https", "quic", "h3"} THEN address ELSE "udp"
      resolver == remote /\ address # "ip" /\ tag # "dns-local"
  IN [type |-> IF remote THEN scheme ELSE address, tag |-> tag,
      detour |-> IF address \in {"local", "fakeip"} THEN Absent ELSE detour,
      resolver |-> IF resolver THEN "dns-local" ELSE Absent,
      path |-> IF scheme \in {"https", "h3"} /\ remote THEN "rooted" ELSE Absent,
      keys |-> (IF remote THEN {"server"} ELSE {})
               \cup (IF scheme \in {"https", "h3"} /\ remote THEN {"path"} ELSE {})
               \cup (IF address = "fakeip" THEN {"inet4_range", "inet6_range"} ELSE {})
               \cup (IF resolver THEN {"domain_resolver"} ELSE {})
               \cup (IF detour # Absent /\ address \notin {"local", "fakeip"} THEN {"detour"} ELSE {}),
      tls |-> {}]

(* Rules: [kind, keys, action, to]; a logical one has rules in sub. *)
On(keys, action, to) == [kind |-> "default", keys |-> keys, action |-> action, to |-> to, sub |-> <<>>]
VpnConfig(v) ==
  LET listed == IF v.white THEN "proxor-socks" ELSE "direct"
      other == IF v.white THEN "direct" ELSE "proxor-socks"
      Auth == IF v.auth THEN {"username", "password"} ELSE {}
      Out(type, tag, keys) == [type |-> type, tag |-> tag, keys |-> keys, server |-> "127.0.0.1", port |-> v.port]
  IN [top |-> {"log", "dns", "inbounds", "outbounds", "route"}, logOutput |-> FALSE,
      servers |-> <<DnsServer("dns-remote", v.remote, "proxor-socks"), DnsServer("dns-direct", "local", Absent),
                    DnsServer("dns-local", v.underlying, Absent), DnsServer("dns-fake", "fakeip", Absent),
                    DnsServer("dns-block", "rcode", Absent)>>,
      dnsFinal |-> Absent, fakeip |-> FALSE,
      dnsRules |-> <<On({"query_type"}, "route", "dns-block"), On({"domain_suffix"}, "route", "dns-block"),
                     On({"process_name"}, "route", "dns-direct"), On({"inbound", "query_type"}, "route", "dns-fake")>>,
      inbounds |-> <<[type |-> "tun", stack |-> v.stack,
                      keys |-> {"interface_name", "address", "mtu", "auto_route", "stack", "endpoint_independent_nat",
                                "route_exclude_address"} \cup (IF v.strict THEN {"strict_route"} ELSE {})]>>,
      outbounds |-> <<Out("socks", "proxor-socks", {"udp_fragment", "server", "server_port"} \cup Auth),
                      Out("direct", "direct", {}), Out("direct", "bypass", {})>>,
      routeKeys |-> {"final", "auto_detect_interface", "find_process", "rules"}, final |-> other, defaultResolver |-> Absent,
      rules |-> <<On({"network", "port"}, "reject", Absent), On({"ip_cidr"}, "reject", Absent), On({"source_ip_cidr"}, "reject", Absent),
                  On({"port", "process_name"}, "hijack-dns", Absent), On({"process_name"}, "route", "direct")>>
                \o (IF v.processes THEN <<On({"process_name"}, "route", listed)>> ELSE <<>>)
                \o (IF v.clients THEN <<On({"process_name"}, "route", "direct")>> ELSE <<>>)
                \o (IF v.cidrs THEN <<On({"ip_cidr"}, "route", listed)>> ELSE <<>>)
                \o <<On({"port"}, "hijack-dns", Absent)>>]

(* sing-box's own decoder upgrades an rcode server: the server goes, and the rules that
   name it answer by themselves. *)
Parse(c) ==
  LET gone == {c.servers[i].tag : i \in {j \in DOMAIN c.servers : c.servers[j].type = "rcode"}}
  IN [c EXCEPT !.servers = SelectSeq(@, LAMBDA s : s.type # "rcode"),
               !.dnsRules = [i \in DOMAIN @ |-> IF @[i].action = "route" /\ @[i].to \in gone
                                                THEN [@[i] EXCEPT !.action = "predefined", !.to = Absent] ELSE @[i]]]

(* The validator: deny by default. *)
Tags(parts) == {parts[i].tag : i \in DOMAIN parts} \ {Absent}
Unique(parts) == \A i, j \in DOMAIN parts : parts[i].tag = parts[j].tag /\ parts[i].tag # Absent => i = j
OutboundFits(o, port) ==
  /\ o.tag # Absent
  /\ \/ /\ o.type = "socks" /\ o.keys \subseteq {"server", "server_port", "version", "username", "password", "udp_fragment"}
        /\ o.server \in {"127.0.0.1", "::1"} /\ o.port = port
     \/ o.type = "direct" /\ o.keys \subseteq {"udp_fragment"}
validateOutbounds(outs, port) ==
  Unique(outs) /\ (\A i \in DOMAIN outs : OutboundFits(outs[i], port)) /\ \E i \in DOMAIN outs : outs[i].type = "socks"
validateInbounds(ins) ==
  /\ Len(ins) = 1 /\ ins[1].type = "tun" /\ ins[1].stack \in {Absent, "system", "gvisor", "mixed"}
  /\ ins[1].keys \subseteq
       {"interface_name", "mtu", "address", "auto_route", "strict_route", "route_address", "route_exclude_address", "stack",
        "endpoint_independent_nat", "udp_timeout", "sniff", "sniff_override_destination", "sniff_timeout", "domain_strategy",
        "udp_disable_domain_unmapping"}

DialKeys == {"detour", "domain_resolver", "udp_fragment"}
TlsKeys == {"enabled", "disable_sni", "server_name", "insecure", "alpn", "min_version", "max_version", "cipher_suites",
            "curve_preferences", "certificate", "certificate_public_key_sha256", "fragment", "fragment_fallback_delay",
            "record_fragment"}
ServerKeys(type) ==
  CASE type = "local" -> {"prefer_go"} \cup DialKeys
    [] type \in {"udp", "tcp"} -> {"server", "server_port"} \cup DialKeys
    [] type \in {"tls", "quic"} -> {"server", "server_port", "tls"} \cup DialKeys
    [] type \in {"https", "h3"} -> {"server", "server_port", "tls", "path", "method", "headers"} \cup DialKeys
    [] type = "fakeip" -> {"inet4_range", "inet6_range"}
validateDNSServer(s, dnsTags, outTags) ==
  /\ s.type \in {"local", "udp", "tcp", "tls", "https", "quic", "h3", "fakeip"}
  /\ s.keys \subseteq ServerKeys(s.type) /\ s.tls \subseteq TlsKeys
  /\ s.type \in {"https", "h3"} => s.path # "bare"
  /\ s.detour \in outTags \cup {Absent} /\ s.resolver \in dnsTags \cup {Absent}

(* A rule of a rule is looked at like any other; three levels are enough here. *)
\* mutant: only the outermost ones
Flat(rules) == rules
Flatten(rules) ==
  LET Inner(seq) == FlattenSeq([i \in DOMAIN seq |-> IF seq[i].kind = "logical" THEN seq[i].sub ELSE <<>>])
  IN rules \o Inner(rules) \o Inner(Inner(rules))
\* neither a file to read nor a list to download
NoFiles(r) == r.keys \cap {"rule_set", "geosite", "geoip", "source_geoip"} = {}
validateDNSRules(rules, dnsTags) ==
  \A r \in Range(Flatten(rules)) :
    /\ NoFiles(r)
    /\ \/ r.action = "route" /\ r.to \in dnsTags
       \/ r.action \in {"route-options", "reject", "predefined"}
validateRouteRules(rules, outTags, dnsTags) ==
  \A r \in Range(Flatten(rules)) :
    /\ NoFiles(r)
    /\ \/ r.action = "route" /\ r.to \in outTags
       \/ r.action = "resolve" /\ r.to \in dnsTags \cup {Absent}
       \/ r.action \in {"route-options", "reject", "hijack-dns", "sniff"}
validateOptions(c, port) ==
  LET outTags == Tags(c.outbounds)
      dnsTags == Tags(c.servers)
  IN /\ c.top \cap {"ntp", "certificate", "endpoints", "services", "experimental"} = {} /\ ~c.logOutput
     /\ validateOutbounds(c.outbounds, port) /\ validateInbounds(c.inbounds)
     /\ ~c.fakeip /\ Unique(c.servers) /\ c.dnsFinal \in dnsTags \cup {Absent}
     /\ \A i \in DOMAIN c.servers : validateDNSServer(c.servers[i], dnsTags, outTags)
     /\ validateDNSRules(c.dnsRules, dnsTags)
     /\ c.routeKeys \subseteq {"rules", "final", "find_process", "auto_detect_interface", "default_domain_resolver"}
     /\ c.final \in outTags /\ c.defaultResolver \in dnsTags \cup {Absent}
     /\ validateRouteRules(c.rules, outTags, dnsTags)
ValidateTunConfig(c, port) == port \in 1..65535 /\ validateOptions(Parse(c), port)
=============================================================================
