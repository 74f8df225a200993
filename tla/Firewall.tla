------------------------------ MODULE Firewall -------------------------------
(***************************************************************************)
(* The server's IPv4 rules as its tools see them: the live chains, and the *)
(* file that netfilter-persistent loads at boot.  A rule is the classes of *)
(* packets it matches and its target; a chain is read from its head, a jump*)
(* is read in place, a packet no rule matches gets the chain's policy.     *)
(***************************************************************************)
EXTENDS Naturals, SequencesExt

VARIABLES
  live,  \* the rules in the kernel
  boot   \* /etc/iptables/rules.v4

\* Packets that reach INPUT: of an established connection, on lo, new ones to SSH,
\* to a declared port, to encrypted DNS, to DNS inside the tunnel, to anything else.
Incoming == {"flow", "loopback", "ssh", "service", "encDns", "vpnDns", "rest"}

\* Packets that reach FORWARD: from wg0 to the Internet, to private ranges behind
\* the WAN, to the cloud's metadata address, newly or not, and to another peer; from
\* the WAN to wg0, newly or as a reply.
FromPeers == {"toNet", "toLan", "toMetadata", "metadataFlow", "toPeer"}
Forwarded == FromPeers \cup {"reply", "fromNet"}
Metadata  == {"toMetadata", "metadataFlow"}

Accept(on) == [on |-> on, do |-> "ACCEPT"]
Drop(on)   == [on |-> on, do |-> "DROP"]
Jump(to)   == [on |-> {}, do |-> to]

EstablishedIn == Accept({"flow"})
LoopbackIn    == Accept({"loopback"})
VpnDnsIn      == Accept({"vpnDns"})
ServicesIn    == Accept({"ssh", "service", "encDns"})  \* SERVICE_TCP, SERVICE_UDP
WgIn          == Accept(FromPeers)                     \* -i wg0
WgOut         == Accept({"toPeer", "reply", "fromNet"})  \* -o wg0
NoMetadata    == Drop(Metadata)                        \* -d 169.254.0.0/16
EstablishedFw == Accept({"metadataFlow", "reply"})
ToWan         == Accept(FromPeers \ {"toPeer"})        \* -i wg0 -o wan
FromWan       == Accept({"reply"})                     \* -i wan -o wg0, established
Masquerade    == [on |-> FromPeers \ {"toPeer"}, do |-> "MASQUERADE"]

Chains   == {"INPUT", "FORWARD", "OUTPUT", "POSTROUTING", "FORTRESS_FORWARD", "FORTRESS_NAT"}
Packets  == Incoming \cup Forwarded \cup {"userToMetadata"}
Rules    == [on: SUBSET Packets, do: Chains \cup {"ACCEPT", "DROP", "REJECT", "MASQUERADE"}]
Rulesets == [chain: [Chains -> Seq(Rules)], policy: [Chains -> {"ACCEPT", "DROP"}]]

\* One command of a script: -C and, where the rule is missing, -A or -I 1; -C and,
\* where it is there, one -D; -N and -F; -P.
Ensure(chain, rule)      == [op |-> "ensure", chain |-> chain, arg |-> rule]
EnsureFirst(chain, rule) == [op |-> "ensureFirst", chain |-> chain, arg |-> rule]
Delete(chain, rule)      == [op |-> "delete", chain |-> chain, arg |-> rule]
Flush(chain)             == [op |-> "flush", chain |-> chain, arg |-> <<>>]
Policy(chain, target)    == [op |-> "policy", chain |-> chain, arg |-> target]

\* Mutant: rules are added without the check that they are missing.
Effect_NoCheck(fw, c) ==
  CASE c.op = "policy"      -> [fw EXCEPT !.policy[c.chain] = c.arg]
    [] c.op = "flush"       -> [fw EXCEPT !.chain[c.chain] = <<>>]
    [] c.op = "delete"      -> [fw EXCEPT !.chain[c.chain] = RemoveFirst(@, c.arg)]
    [] c.op = "ensure"      -> [fw EXCEPT !.chain[c.chain] = Append(@, c.arg)]
    [] c.op = "ensureFirst" -> [fw EXCEPT !.chain[c.chain] = <<c.arg>> \o @]

Effect(fw, c) ==
  CASE c.op = "policy" -> [fw EXCEPT !.policy[c.chain] = c.arg]
    [] c.op = "flush"  -> [fw EXCEPT !.chain[c.chain] = <<>>]
    [] c.op = "delete" -> [fw EXCEPT !.chain[c.chain] = RemoveFirst(@, c.arg)]
    [] c.op = "ensure" ->
         [fw EXCEPT !.chain[c.chain] = IF Contains(@, c.arg) THEN @ ELSE Append(@, c.arg)]
    [] c.op = "ensureFirst" ->
         [fw EXCEPT !.chain[c.chain] = IF Contains(@, c.arg) THEN @ ELSE <<c.arg>> \o @]

\* All of them, one after the other.
Run(fw, commands) ==
  LET after[n \in 0 .. Len(commands)] ==
        IF n = 0 THEN fw ELSE Effect(after[n - 1], commands[n])
  IN  after[Len(commands)]

\* No rule matches; or the first one that does accepts.
Skips(rules, packet) == \A i \in DOMAIN rules : packet \notin rules[i].on
Accepted(rules, packet) ==
  \E i \in DOMAIN rules :
    /\ packet \in rules[i].on /\ rules[i].do = "ACCEPT"
    /\ \A j \in 1 .. i - 1 : packet \notin rules[j].on

\* In place of a jump, the rules of the chain it leads to.
Read(fw, rule) == IF rule.do \in Chains THEN fw.chain[rule.do] ELSE <<rule>>

Passes(fw, chain, packet) ==
  LET c == fw.chain[chain] IN
  \/ fw.policy[chain] = "ACCEPT" /\ \A i \in DOMAIN c : Skips(Read(fw, c[i]), packet)
  \/ \E i \in DOMAIN c : /\ Accepted(Read(fw, c[i]), packet)
                         /\ \A j \in 1 .. i - 1 : Skips(Read(fw, c[j]), packet)

Admitted(fw) == {p \in Incoming : Passes(fw, "INPUT", p)}
Routed(fw)   == {p \in Forwarded : Passes(fw, "FORWARD", p)}

-----------------------------------------------------------------------------
\* The rules the tools may find.  A host without rules, or the provider's image,
\* which admits SSH and rejects the rest; with the broad forwarding of the previous
\* configuration, or after deploy_server.sh.
NoRules == [chain |-> [c \in Chains |-> <<>>], policy |-> [c \in Chains |-> "ACCEPT"]]
Image   == [NoRules EXCEPT
  !.chain["INPUT"] = <<EstablishedIn, LoopbackIn, Accept({"ssh"}), Drop(Incoming)>>,
  !.chain["FORWARD"] = <<Drop(Forwarded)>>]

Deploy == <<
  EnsureFirst("INPUT", VpnDnsIn), EnsureFirst("INPUT", ServicesIn),
  EnsureFirst("INPUT", LoopbackIn), EnsureFirst("INPUT", EstablishedIn),
  Flush("FORTRESS_FORWARD"), Ensure("FORTRESS_FORWARD", NoMetadata),
  Ensure("FORTRESS_FORWARD", Drop({"toLan"})), Ensure("FORTRESS_FORWARD", EstablishedFw),
  Ensure("FORTRESS_FORWARD", ToWan), Ensure("FORTRESS_FORWARD", FromWan),
  EnsureFirst("FORWARD", Jump("FORTRESS_FORWARD")),
  Flush("FORTRESS_NAT"), Ensure("FORTRESS_NAT", Masquerade),
  EnsureFirst("POSTROUTING", Jump("FORTRESS_NAT")),
  Policy("INPUT", "DROP"), Policy("FORWARD", "DROP"), Policy("OUTPUT", "ACCEPT")>>

Found ==
  {Run(fw, Deploy) : fw \in {NoRules, Image}} \cup
  {Run(fw, <<EnsureFirst("FORWARD", WgOut), EnsureFirst("FORWARD", WgIn)>>) :
     fw \in {NoRules, Image}}
=============================================================================
