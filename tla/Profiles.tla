------------------------------- MODULE Profiles -------------------------------
(***************************************************************************)
(* The client profiles fortress-sub.py generates (get_singbox_json_config),*)
(* the links it lists, and the certificates they rest on.                  *)
(*                                                                         *)
(* A profile is kept as far as it decides where a connection goes: its DNS *)
(* server, the ranges its TUN leaves out, its outbounds and endpoints by   *)
(* tag, its route rules in order.  What sing-box does with them is Verdict.*)
(***************************************************************************)
EXTENDS Integers, Sequences, FiniteSets

\* A directory's ca.crt and cert.pem: the CA of the installer and a leaf it
\* signed, that CA beside a leaf of a public CA, or no certificate.
Pair == {"private", "public", "none"}

\* RAM is a copy of DISK made at the last boot; a public leaf is put in place of
\* the private one, not the reverse; a purge empties RAM, a lock DISK.
Directories ==
  {d \in [ram: Pair, disk: Pair] :
     d.ram = d.disk => d.ram # "none"} \ {[ram |-> "public", disk |-> "private"]}

\* What the operator configured.  named: DOMAIN is a name of its own, else the bare
\* address stands for it; numeric: SERVER_IP is an IPv4 address.
Settings == [named: BOOLEAN, numeric: BOOLEAN, wireguard: BOOLEAN, certs: Directories]

Modes == {"full", "traffic-only", "other"}
Cores == {"1.11", "1.14", "other"}

-----------------------------------------------------------------------------
(* Certificates.                                                            *)

\* The certificate the daemon serves, and the one whose fingerprint is pinned.
InForce(d) == IF d.ram # "none" THEN d.ram ELSE d.disk

\* Mutant: the first ca.crt found is taken, whatever leaf it lies beside.
VerifiedCa_First(d) == InForce(d) # "none"

\* verified_private_ca: some directory's CA signed that directory's own leaf.
VerifiedCa(d) == \E dir \in {"ram", "disk"} : d[dir] = "private"

-----------------------------------------------------------------------------
(* The parts of a profile.                                                  *)

\* The combinations get_singbox_json_config does not answer with ValueError.
Accepts(s, mode, core) ==
  /\ s.numeric
  /\ core \in {"1.11", "1.14"}
  /\ mode = "traffic-only" \/ (mode = "full" /\ core = "1.14")

Stealth == {"Reality-TCP", "Hysteria2-Salamander", "Hysteria2-Standard", "TUIC5",
            "Shadowsocks2022"}
WireGuard(s) == IF s.wireguard THEN {"WireGuard-Native"} ELSE {}

\* An outbound that reaches a server, by its name or by its number, or a group.
Server(tag, s) == [tag |-> tag, type |-> "server", of |-> {},
                   named |-> s.named]
Group(tag, members) == [tag |-> tag, type |-> "group", of |-> members, named |-> FALSE]
Plain(tag, type) == [tag |-> tag, type |-> type, of |-> {}, named |-> FALSE]

Outbounds(s) ==
  {Group("proxy", {"auto-fastest"} \cup Stealth \cup WireGuard(s)), Group("auto-fastest", Stealth)}
    \cup {Server(t, s) : t \in Stealth \cup WireGuard(s)}
    \cup {Plain("direct", "direct"), Plain("block-ipv6", "block")}

DnsServer(mode) ==
  IF mode = "traffic-only" THEN [tag |-> "dns-direct", detour |-> "direct"]
                           ELSE [tag |-> "dns-remote", detour |-> "proxy"]

\* route_exclude_address of the TUN.
Excluded(mode) ==
  {"local", "server"} \cup (IF mode = "traffic-only" THEN {"private"} ELSE {})

To(on, target) == [on |-> on, to |-> target]

ModeRules(mode) ==
  IF mode = "traffic-only"
    THEN <<To("resolver", "direct"), To("dns", "direct"), To("dnsPort", "direct"),
           To("doh", "direct"), To("private", "direct"), To("campus", "direct")>>
    ELSE <<To("dns", "hijack-dns")>>

\* Mutant: sniffing is put behind the rules of the mode.
Rules_SniffLate(s, mode) ==
  <<To("ipv6", "block-ipv6")>> \o ModeRules(mode) \o <<To("any", "sniff")>>
    \o (IF s.named THEN <<To("serverName", "direct")>> ELSE <<>>)
    \o <<To("serverAddress", "direct"), To("any", "proxy")>>

\* IPv6 is refused before sniffing, names are sniffed before they are matched.
Rules(s, mode) ==
  <<To("ipv6", "block-ipv6"), To("any", "sniff")>> \o ModeRules(mode)
    \o (IF s.named THEN <<To("serverName", "direct")>> ELSE <<>>)
    \o <<To("serverAddress", "direct"), To("any", "proxy")>>

Legacy(s, mode) ==
  [dns |-> DnsServer(mode), exclude |-> Excluded(mode), outbounds |-> Outbounds(s),
   endpoints |-> {}, rules |-> Rules(s, mode), ca |-> VerifiedCa(s.certs)]

IsWireGuard(o) == o.tag = "WireGuard-Native"

\* The 1.14 form: the block outbound becomes a rule action, WireGuard an endpoint.
Modern(p) ==
  [p EXCEPT !.outbounds = {o \in @ : o.type # "block" /\ ~ IsWireGuard(o)},
            !.endpoints = {o \in p.outbounds : IsWireGuard(o)},
            !.rules = [i \in DOMAIN @ |->
                         IF @[i].to = "block-ipv6" THEN To(@[i].on, "reject") ELSE @[i]]]

\* get_singbox_json_config.
Profile(s, mode, core) ==
  IF core = "1.14" THEN Modern(Legacy(s, mode)) ELSE Legacy(s, mode)

-----------------------------------------------------------------------------
(* What sing-box makes of a profile.                                        *)

\* Where to; through the TUN by address or through the local proxy port by name;
\* plain DNS on its port or on another, DNS over TLS or HTTPS at a known provider,
\* or anything else; from a resolver's process or from any other.
Connection ==
  [dest: {"v6", "public", "private", "campus", "server", "local"}, by: {"address", "name"},
   kind: {"dns", "dnsElsewhere", "dot", "doh", "web"}, app: {"resolver", "any"}]

\* A name is known when it was given, or when a TLS greeting was sniffed.
HasName(c, sniffed) == c.by = "name" \/ (sniffed /\ c.kind \in {"doh", "web"})

Matches(on, c, sniffed) ==
  \/ on = "any"
  \/ on = "ipv6" /\ c.dest = "v6" /\ c.by = "address"
  \/ on = "resolver" /\ c.app = "resolver"
  \/ on = "dns" /\ sniffed /\ c.kind \in {"dns", "dnsElsewhere"}
  \/ on = "dnsPort" /\ c.kind \in {"dns", "dot"}
  \/ on = "doh" /\ c.kind = "doh" /\ HasName(c, sniffed)
  \/ on = "private" /\ c.dest = "private" /\ c.by = "address"
  \/ on = "campus" /\ c.dest = "campus" /\ HasName(c, sniffed)
  \/ on = "serverName" /\ c.dest = "server" /\ HasName(c, sniffed)
  \/ on = "serverAddress" /\ c.dest = "server" /\ c.by = "address"

\* A rule of the profile that matches and does more than sniff; the name is known to
\* it if a rule before it sniffed.
Sniffed(p, i) == \E j \in 1..(i - 1) : p.rules[j].to = "sniff"
Decides(p, c, i) == p.rules[i].to # "sniff" /\ Matches(p.rules[i].on, c, Sniffed(p, i))

\* The first rule that does.
Verdict(p, c) ==
  LET hits  == {i \in DOMAIN p.rules : Decides(p, c, i)}
      first == CHOOSE i \in hits : \A j \in hits : i <= j
  IN IF c.by = "address" /\ c.dest \in p.exclude THEN "outside"
     ELSE IF p.rules[first].to \in {"block-ipv6", "reject"} THEN "refused"
     ELSE p.rules[first].to

Tags(p) == {o.tag : o \in p.outbounds \cup p.endpoints}

\* The tags a client can use: a server given by name needs the resolver first, a
\* resolver its detour, a group one of its members; and nothing is usable otherwise.
Usable(p) ==
  LET Ready(o, U) == \/ o.type \in {"direct", "block"}
                     \/ o.type = "group" /\ o.of \cap U # {}
                     \/ o.type = "server" /\ (o.named => p.dns.tag \in U)
      Grow(U) == {o.tag : o \in {x \in p.outbounds \cup p.endpoints : Ready(x, U)}}
                   \cup (IF p.dns.detour \in U THEN {p.dns.tag} ELSE {})
      tags == Tags(p) \cup {p.dns.tag}
  IN {t \in tags : \A U \in SUBSET tags : Grow(U) \subseteq U => t \in U}

-----------------------------------------------------------------------------
(* The configurations that some offered profile fails; Gateway states that the *)
(* one it runs with is none of them.                                        *)

Offered == {o \in Settings \X Modes \X Cores : Accepts(o[1], o[2], o[3])}
ProfileOf(o) == Profile(o[1], o[2], o[3])

Dangling ==
  LET Complete(p) ==
        /\ \A i \in DOMAIN p.rules :
             p.rules[i].to \in Tags(p) \cup {"sniff", "hijack-dns", "reject"}
        /\ \A x \in p.outbounds : x.of \subseteq Tags(p)
        /\ p.dns.detour \in Tags(p)
  IN {o[1] : o \in {x \in Offered : ~ Complete(ProfileOf(x))}}

Passing6 ==
  LET Passed(p) == \E c \in Connection :
        c.dest = "v6" /\ c.by = "address" /\ Verdict(p, c) # "refused"
  IN {o[1] : o \in {x \in Offered : Passed(ProfileOf(x))}}

DnsAstray ==
  LET Hijacked(p, c) == Verdict(p, c) = "hijack-dns" \/ c.dest \in {"server", "local"}
      Beside(p, c)   == Verdict(p, c) \in {"direct", "outside"}
      Astray(o) == \E c \in Connection : c.dest # "v6" /\
        IF o[2] = "full" THEN c.kind \in {"dns", "dnsElsewhere"} /\ ~ Hijacked(ProfileOf(o), c)
                         ELSE c.kind # "web" /\ ~ Beside(ProfileOf(o), c)
  IN {o[1] : o \in {x \in Offered : Astray(x)}}

Differing ==
  LET Differ(s) == \E c \in Connection :
        Verdict(Profile(s, "traffic-only", "1.11"), c) # Verdict(Profile(s, "traffic-only", "1.14"), c)
  IN {o[1] : o \in {x \in Offered : Differ(x[1])}}

\* In full mode a server given by name is found through the tunnel that leads there.
Stuck ==
  {o[1] : o \in {x \in Offered : ~ (x[1].named /\ x[2] = "full")
                                 /\ "proxy" \notin Usable(ProfileOf(x))}}

Mistrusting ==
  {o[1] : o \in {x \in Offered : ProfileOf(x).ca # (InForce(x[1].certs) = "private")}}
=============================================================================
