-------------------------- MODULE FirewallHardening --------------------------
(* apply_firewall_hardening.py: a backup, then one command after another on  *)
(* the live rules, then the rules file; any exception restores the backup.   *)
EXTENDS Firewall

VARIABLES
  hpc,       \* what the tool is doing
  commands,  \* the commands it has left
  backup     \* the rules.v4 of its backup

hvars == <<hpc, commands, backup>>

\* Mutant: the default policies first.
Harden_PolicyFirst == <<
  Policy("INPUT", "DROP"), Policy("FORWARD", "DROP"), Policy("OUTPUT", "ACCEPT"),
  EnsureFirst("INPUT", EstablishedIn), EnsureFirst("INPUT", LoopbackIn),
  EnsureFirst("INPUT", VpnDnsIn), Ensure("INPUT", ServicesIn),
  Delete("FORWARD", WgIn), Delete("FORWARD", WgOut),
  Flush("FORTRESS_FORWARD"), Ensure("FORTRESS_FORWARD", NoMetadata),
  Ensure("FORTRESS_FORWARD", EstablishedFw),
  Ensure("FORTRESS_FORWARD", ToWan), Ensure("FORTRESS_FORWARD", FromWan),
  EnsureFirst("FORWARD", Jump("FORTRESS_FORWARD")),
  Flush("FORTRESS_NAT"), Ensure("FORTRESS_NAT", Masquerade),
  EnsureFirst("POSTROUTING", Jump("FORTRESS_NAT"))>>

\* Mutant: established connections before the metadata address.
Harden_FlowsFirst == <<
  EnsureFirst("INPUT", EstablishedIn), EnsureFirst("INPUT", LoopbackIn),
  EnsureFirst("INPUT", VpnDnsIn), Ensure("INPUT", ServicesIn),
  Delete("FORWARD", WgIn), Delete("FORWARD", WgOut),
  Flush("FORTRESS_FORWARD"), Ensure("FORTRESS_FORWARD", EstablishedFw),
  Ensure("FORTRESS_FORWARD", NoMetadata),
  Ensure("FORTRESS_FORWARD", ToWan), Ensure("FORTRESS_FORWARD", FromWan),
  EnsureFirst("FORWARD", Jump("FORTRESS_FORWARD")),
  Flush("FORTRESS_NAT"), Ensure("FORTRESS_NAT", Masquerade),
  EnsureFirst("POSTROUTING", Jump("FORTRESS_NAT")),
  Policy("INPUT", "DROP"), Policy("FORWARD", "DROP"), Policy("OUTPUT", "ACCEPT")>>

\* The commands of apply, each with what it checks first.
Harden == <<
  EnsureFirst("INPUT", EstablishedIn), EnsureFirst("INPUT", LoopbackIn),
  EnsureFirst("INPUT", VpnDnsIn), Ensure("INPUT", ServicesIn),
  Delete("FORWARD", WgIn), Delete("FORWARD", WgOut),
  Flush("FORTRESS_FORWARD"), Ensure("FORTRESS_FORWARD", NoMetadata),
  Ensure("FORTRESS_FORWARD", EstablishedFw),
  Ensure("FORTRESS_FORWARD", ToWan), Ensure("FORTRESS_FORWARD", FromWan),
  EnsureFirst("FORWARD", Jump("FORTRESS_FORWARD")),
  Flush("FORTRESS_NAT"), Ensure("FORTRESS_NAT", Masquerade),
  EnsureFirst("POSTROUTING", Jump("FORTRESS_NAT")),
  Policy("INPUT", "DROP"), Policy("FORWARD", "DROP"), Policy("OUTPUT", "ACCEPT")>>

HInit == hpc = "idle" /\ commands = <<>> /\ backup = NoRules

HApply ==
  /\ hpc = "idle"
  /\ hpc' = "harden" /\ commands' = Harden /\ backup' = live
  /\ UNCHANGED <<live, boot>>

\* remove_all goes on until -C no longer finds the rule.
HCommand ==
  /\ hpc = "harden" /\ commands # <<>>
  /\ live' = Effect(live, Head(commands))
  /\ commands' = IF Head(commands).op = "delete" /\ live' # live THEN commands ELSE Tail(commands)
  /\ UNCHANGED <<boot, hpc, backup>>

\* netfilter-persistent save.
HSave ==
  /\ hpc = "harden" /\ commands = <<>>
  /\ boot' = live /\ hpc' = "hardened"
  /\ UNCHANGED <<live, commands, backup>>

\* A command fails; the save may have written the IPv4 rules before it does.
HExcept ==
  /\ hpc = "harden"
  /\ hpc' = "restore" /\ commands' = <<>>
  /\ boot' \in IF commands = <<>> THEN {boot, live} ELSE {boot}
  /\ UNCHANGED <<live, backup>>

\* iptables-restore, checked: it replaces all rules at once.
HRestore ==
  /\ hpc = "restore"
  /\ live' = backup /\ hpc' = "rolledBack"
  /\ UNCHANGED <<boot, commands, backup>>

\* The tool has reported, was killed with its session, or failed while restoring.
HEnd ==
  /\ hpc # "idle"
  /\ hpc' = "idle" /\ commands' = <<>> /\ backup' = NoRules
  /\ UNCHANGED <<live, boot>>

HNext == HApply \/ HCommand \/ HSave \/ HExcept \/ HRestore \/ HEnd

-----------------------------------------------------------------------------
HTypeOK ==
  /\ hpc \in {"idle", "harden", "hardened", "restore", "rolledBack"}
  /\ commands # <<>> => hpc = "harden"
  /\ {live, boot, backup} \subseteq Rulesets

\* "permits WireGuard forwarding only to the detected WAN interface, and sets
\* INPUT/FORWARD default DROP": when the tool reports success, peers reach what lies
\* behind the WAN and get the replies, nothing reaches the metadata address or a peer
\* from outside, undeclared ports are closed, peers' packets are masqueraded, the next
\* boot loads the same rules, and another run would change nothing; when it reports
\* "Firewall change failed; rollback attempted", the live rules are the ones found.
HardenedOrRestored ==
  /\ hpc = "rolledBack" => live = backup
  /\ hpc = "hardened" =>
    /\ Routed(live) = {"toNet", "toLan", "reply"}
    /\ "rest" \notin Admitted(live)
    /\ \E i \in DOMAIN live.chain["POSTROUTING"] :
         Contains(Read(live, live.chain["POSTROUTING"][i]), Masquerade)
    /\ boot = live
    /\ Run(live, Harden) = live
=============================================================================
