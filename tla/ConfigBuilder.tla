-------------------------------- MODULE ConfigBuilder --------------------------------
(* BuildConfig (db/ConfigBuilder.cpp): the sing-box configuration of a profile, of a
   chain of profiles, or of either behind the front proxy of its group, and the one of
   the separate Tun process.

   The input is a record w: the profiles (prof: id -> [gid, chain, list, kind, fails,
   domain]), the front proxy of each group, and the settings. A configuration is a
   record too; of a rule the model keeps what it matches and where it sends, of an
   outbound its tag and its detour. A packet is the part of a connection the rules tell
   apart; where it goes is the first rule that matches it, as sing-box does.         *)
EXTENDS Integers, Sequences, FiniteSets, SequencesExt

CONSTANT None

Fixed(name) == <<name, None>>   \* a tag that names no profile
NoTag == Fixed("")
Empty == [err |-> "", outs |-> <<>>, ins |-> {}, rules |-> <<>>, stats |-> <<>>,
          out |-> NoTag, ignore |-> {}, exts |-> {}, direct |-> {}, muxed |-> FALSE, keepOff |-> FALSE,
          past |-> NoTag, pastStat |-> 0, dns |-> <<>>, servers |-> <<>>, final |-> NoTag]

(* 0: in the core; 1: an external core dialling through a mapping inbound; 2: an
   external core dialling by itself; -1: not possible (QUIC with port hopping needs the
   network itself). *)
NeedExternal(w, p, first) ==
  CASE p.kind \in {"in", "mux"} -> 0
    [] p.kind = "custom" -> 1
    [] p.kind = "quic" -> IF first /\ ~w.vpn THEN 2 ELSE 1
    [] p.kind = "hop" -> IF first THEN 2 ELSE -1

(* The profile before this one dials through it: by a detour, or, when an external core
   does the dialling, by a rule for its mapping inbound. *)
\* mutant: a detour for an external core too
LinkByDetour(r, tag) == [r EXCEPT !.outs[Len(r.outs)].detour = tag, !.ignore = @ \cup {tag}]
Link(r, tag) ==
  IF r.pastStat = 0 THEN [r EXCEPT !.outs[Len(r.outs)].detour = tag, !.ignore = @ \cup {tag}]
  ELSE [r EXCEPT !.rules = Append(@, [m |-> "map", tag |-> r.past, out |-> tag]), !.ignore = @ \cup {tag}]

MuxHere(r, p) == p.kind = "mux" /\ ~r.muxed

(* One profile of the chain, the last one (out) at index 1; ents[Len(ents)] is the
   first the machine connects to. *)
Hop(w, r, ents, i) ==
  LET id == ents[i]
      p == w.prof[id]
      first == i = Len(ents)
      tag == IF i = 1 THEN Fixed("proxy") ELSE IF first THEN <<"g", id>> ELSE <<"c", id>>
      need == NeedExternal(w, p, first)
      chained == IF i = 1 THEN [r EXCEPT !.out = tag] ELSE Link(r, tag)
  IN IF r.err # "" THEN r
     ELSE IF need < 0 \/ p.fails THEN [chained EXCEPT !.err = "profile"]
     ELSE [chained EXCEPT
       !.keepOff = @ \/ need = 2,
       !.ins = IF need = 1 THEN @ \cup {[tag |-> tag, to |-> id]} ELSE @,
       !.rules = IF need = 1 /\ first
                   THEN Append(@, [m |-> "map", tag |-> tag, out |-> Fixed("direct")]) ELSE @,
       !.exts = IF need > 0 THEN @ \cup {id} ELSE @,
       !.outs = Append(@, [tag |-> tag, id |-> id, detour |-> NoTag, mux |-> MuxHere(r, p)]),
       !.stats = Append(@, [id |-> id, tag |-> tag]),
       !.muxed = @ \/ MuxHere(r, p),
       !.direct = IF p.domain THEN @ \cup {id} ELSE @,
       !.past = tag, !.pastStat = need]

BuildChainInternal(w, r, ents) ==
  FoldLeft(LAMBDA acc, i : Hop(w, acc, ents, i), r, [i \in 1..Len(ents) |-> i])

ResolveChain(w, id) == IF w.prof[id].chain THEN Reverse(w.prof[id].list) ELSE <<id>>
ChainErr(w, id) ==
  IF ~w.prof[id].chain THEN ""
  ELSE LET bad(j) == j \notin DOMAIN w.prof \/ w.prof[j].chain
       IN IF \E j \in Range(w.prof[id].list) : bad(j) THEN "chain" ELSE ""

Ents(w, id) ==
  LET front == w.front[w.prof[id].gid]
  IN ResolveChain(w, id) \o (IF front = None THEN <<>> ELSE ResolveChain(w, front))

(* A chain counts for itself too - and so does a profile behind a front proxy. *)
CountsItself(w, id) == Len(Ents(w, id)) > 1

BuildChain(w, id) ==
  LET gid == w.prof[id].gid
      front == w.front[gid]
      err == IF gid \notin DOMAIN w.front THEN "group"
             ELSE IF ChainErr(w, id) # "" THEN ChainErr(w, id)
             ELSE IF front = None THEN ""
             ELSE IF front \notin DOMAIN w.prof THEN "front" ELSE ChainErr(w, front)
      r == BuildChainInternal(w, Empty, Ents(w, id))
  IN IF err # "" THEN [Empty EXCEPT !.err = err]
     ELSE IF r.err = "" /\ CountsItself(w, id)
       THEN [r EXCEPT !.stats = Append(@, [id |-> id, tag |-> r.out])] ELSE r

(* The traffic of a profile is counted under the tag of the last configuration built
   with it, for a test and an export too: the objects are shared. *)
Retag(tags, r) == FoldLeft(LAMBDA acc, e : [acc EXCEPT ![e.id] = e.tag], tags, r.stats)

TunIn(w) == w.internal /\ w.vpn /\ ~w.test
If(c, seq) == IF c THEN seq ELSE <<>>
Rule(m, out) == <<[m |-> m, tag |-> NoTag, out |-> Fixed(out)]>>
To(m, tag) == <<[m |-> m, tag |-> NoTag, out |-> tag]>>
Free(name) == <<[tag |-> Fixed(name), id |-> None, detour |-> NoTag, mux |-> FALSE]>>
\* mutant: the second direct outbound is forgotten
OnlyDirect(r) == [r EXCEPT !.outs = @ \o Free("direct")]
Outbounds(r) == [r EXCEPT !.outs = @ \o Free("direct") \o Free("bypass")]

(* The rules of the core's own Tun: the user's programs and addresses, then what must not
   enter the proxy. *)
Listed(w) == IF w.white THEN "proxy" ELSE "bypass"
\* mutant: the external cores are not excepted
TunRulesForgetful(w, r) == Rule("process", Listed(w)) \o Rule("cidr", Listed(w)) \o If(w.clients, Rule("client", "bypass"))
TunRules(w, r) == Rule("process", Listed(w)) \o Rule("cidr", Listed(w))
                  \o If(r.exts # {}, Rule("core", "bypass")) \o If(w.clients, Rule("client", "bypass"))

(* The user's lists, in the order that decides between them. *)
UserRules(r) == Rule("dom block", "reject") \o To("dom remote", r.out) \o Rule("dom direct", "bypass")
                \o Rule("ip block", "reject") \o To("ip remote", r.out) \o Rule("ip direct", "bypass")

(* The routing rules, after the ones of the chain; where nothing matches. *)
Final(w, r) == IF w.test THEN r.outs[1].tag ELSE IF TunIn(w) /\ w.white THEN Fixed("bypass") ELSE Fixed(w.def)
Routing(w, r) ==
  [r EXCEPT !.rules = @ \o If(~w.test, Rule("quic", "reject") \o Rule("dns", "hijack") \o UserRules(r))
                        \o Rule("local", "reject") \o If(TunIn(w), TunRules(w, r)),
            !.final = Final(w, r)]

(* The DNS servers, and the rules: who asks, or what is asked for, and the server. *)
Typed(tag, address, detour) ==
  <<[tag |-> tag, detour |-> IF address \in {"local", "fakeip"} THEN NoTag ELSE detour,
     resolver |-> IF address = "domain" /\ tag # "dns-local" THEN "dns-local" ELSE ""]>>
Plain(tag) == Typed(tag, "local", NoTag)
Fake(w) == w.fake /\ TunIn(w)
DirectAddress(w) == IF TunIn(w) THEN "local" ELSE w.direct
LinesHere(w) == {line \in w.hosts : w.ssid \notin line}   \* a line names the networks that skip it
HostsHere(w) == LinesHere(w) # {}
Servers(w, r) ==
  LET remote == If(~w.test, Typed("dns-remote", w.remote, r.out))
      direct == Typed("dns-direct", DirectAddress(w), NoTag)
  IN (IF w.dnsFinal = "bypass" THEN direct \o remote ELSE remote \o direct)
     \o If(~w.test, Plain("dns-block")) \o If(Fake(w), Plain("dns-fake"))
     \o Plain("dns-local") \o If(HostsHere(w), Plain("dns-hosts"))

Ask(m, server) == <<[m |-> m, server |-> server]>>
DnsRules(w, r) ==
  If(HostsHere(w), Ask("hosts", "dns-hosts")) \o Ask("outbound", "dns-direct")
  \o If(~w.test /\ w.dnsRouting, Ask("remote", "dns-remote"))
  \o If(r.direct # {} \/ (~w.test /\ w.dnsRouting), Ask("direct", "dns-direct"))
  \o If(~w.test, Ask("block", "dns-block")) \o If(Fake(w), Ask("address", "dns-fake"))

BuildConfig(w, id) ==
  LET r == BuildChain(w, id)
  IN IF r.err # "" THEN r ELSE [Routing(w, Outbounds(r)) EXCEPT !.servers = Servers(w, r), !.dns = DnsRules(w, r)]

(* The Tun process of the two-process mode: WriteVPNSingBoxConfig and its template. *)
VpnRules(w) ==
  LET listed == IF w.white THEN "proxor-socks" ELSE "direct"
  IN Rule("local", "reject") \o Rule("main core dns", "hijack") \o Rule("main core", "direct")
     \o Rule("process", listed) \o Rule("client", "direct") \o Rule("cidr", listed) \o Rule("dns", "hijack")
VpnFinal(w) == Fixed(IF w.white THEN "direct" ELSE "proxor-socks")

(* Where a packet goes: p = [inb, quic, dns, dom, ip, local, proc, cidr], dom and ip the
   user's lists it is in, proc the program that sent it. *)
Matches(rule, p) ==
  CASE rule.m = "map" -> p.inb = rule.tag
    [] rule.m = "quic" -> p.quic
    [] rule.m = "dns" -> p.dns
    [] rule.m = "main core dns" -> p.dns /\ p.proc = "main"
    [] rule.m = "main core" -> p.proc = "main"
    [] rule.m = "dom block" -> "block" \in p.dom
    [] rule.m = "dom remote" -> "remote" \in p.dom
    [] rule.m = "dom direct" -> "direct" \in p.dom
    [] rule.m = "ip block" -> "block" \in p.ip
    [] rule.m = "ip remote" -> "remote" \in p.ip
    [] rule.m = "ip direct" -> "direct" \in p.ip
    [] rule.m = "local" -> p.local
    [] rule.m = "process" -> p.proc = "listed"
    [] rule.m = "cidr" -> p.cidr
    [] rule.m = "core" -> p.proc = "core"
    [] rule.m = "client" -> p.proc = "client"
First(rules, p) == LET hits == {i \in 1..Len(rules) : Matches(rules[i], p)}
                   IN IF hits = {} THEN 0 ELSE CHOOSE i \in hits : \A j \in hits : i <= j
Goes(rules, final, p) == IF First(rules, p) = 0 THEN final ELSE rules[First(rules, p)].out

(* Who answers a query of the core: q = [outbound, hosts, lists, block]. *)
Answers(rule, q) ==
  CASE rule.m = "hosts" -> q.hosts
    [] rule.m = "outbound" -> q.outbound
    [] rule.m = "remote" -> "remote" \in q.lists
    [] rule.m = "direct" -> "direct" \in q.lists
    [] rule.m = "block" -> q.block
    [] rule.m = "address" -> ~q.outbound
Server(r, q) == LET hits == {i \in 1..Len(r.dns) : Answers(r.dns[i], q)}
                IN IF hits = {} THEN r.servers[1].tag
                   ELSE r.dns[CHOOSE i \in hits : \A j \in hits : i <= j].server
=============================================================================
