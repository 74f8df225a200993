--------------------------- MODULE HostMaintenance ---------------------------
(* The tools an operator runs on a deployed server, one at a time and in any *)
(* order, over the same live rules, files and services, with kills, reboots  *)
(* and the weekly update of the resolver between their steps.                *)
EXTENDS FirewallHardening, Remediation

CONSTANTS
  Servers,    \* the servers the tools may meet: their rules, their missing files
  MaxRuns,    \* bound: how often a tool is started
  TimerFalls  \* the weekly update may fall between the stop of the resolver and the
              \* writing of its configuration

\* The metadata address, and peers from outside or from one another.
Guarded == Metadata \cup {"fromNet", "toPeer"}

\* Refused by FORWARD alone, also while FORTRESS_FORWARD, which does not accept it, is
\* flushed.
Refused(fw, p) ==
  /\ ~ Accepted(fw.chain["FORWARD"], p)
  /\ Skips(fw.chain["FORWARD"], p) => fw.policy["FORWARD"] = "DROP"
  /\ ~ Accepted(fw.chain["FORTRESS_FORWARD"], p)

\* Rules as deploy_server.sh completes them, and others the tools may rely on: INPUT
\* jumps nowhere, FORWARD only to FORTRESS_FORWARD and not just there to refuse.
Orderly(fw) ==
  /\ \A i \in DOMAIN fw.chain["INPUT"] : fw.chain["INPUT"][i].do \notin Chains
  /\ \A i \in DOMAIN fw.chain["FORWARD"] :
       LET r == fw.chain["FORWARD"][i] IN r.do \in Chains => r = Jump("FORTRESS_FORWARD")
  /\ \A p \in Guarded : p \in Routed(fw) \/ Refused(fw, p)

\* As it came from deploy_server.sh or from the configuration before it: no rule admits
\* undeclared ports, FORWARD accepts only the broad forwarding of WireGuard, and nothing
\* that peers send past the WAN, or get back, is refused before the tools' chain.
BehindWan == {"toNet", "toLan", "reply"}
Usual(fw) ==
  /\ \A i \in DOMAIN fw.chain["INPUT"] :
       LET r == fw.chain["INPUT"][i] IN r.do = "ACCEPT" => "rest" \notin r.on
  /\ LET rules == fw.chain["FORWARD"] IN
     \A i \in DOMAIN rules :
       /\ rules[i].do = "ACCEPT" => rules[i] \in {WgIn, WgOut}
       /\ rules[i] = Jump("FORTRESS_FORWARD") =>
            \A j \in 1 .. i - 1 : rules[j].do = "ACCEPT" \/ rules[j].on \cap BehindWan = {}

ASSUME MaintenanceAssumption ==
  /\ Servers \subseteq {fw \in Rulesets : Orderly(fw)} \X Missing
  /\ MaxRuns \in Nat /\ TimerFalls \in BOOLEAN

VARIABLES
  deployed,  \* history: the rules the server came with
  runs       \* counts the starts

vars == <<live, boot, hvars, rvars, deployed, runs>>

Init ==
  /\ \E s \in Servers : deployed = s[1] /\ RInit(s[2])
  /\ live = deployed /\ boot = deployed
  /\ HInit
  /\ runs = 0

\* netfilter-persistent loads the rules file; fortress-init fills tmpfs from the disk.
Reboot ==
  /\ live' = boot
  /\ host' = [host EXCEPT !.ramAgh = host.agh, !.ramCore = host.template,
                          !.ramConfig = host.config, !.ramDns = host.dns]
  /\ running' = Loaded(host')
  /\ pc' = "idle" /\ todo' = <<>> /\ saved' = NoBackup
  /\ hpc' = "idle" /\ commands' = <<>> /\ backup' = NoRules
  /\ UNCHANGED <<boot, perms, deployed, runs>>

\* The remediation has stopped the resolver and not yet written what it loads.
ResolverStopped ==
  pc \in {"dns", "ramDns"} \/ (pc = "write" /\ Head(todo) \in {"agh", "ramAgh"})

\* fortress-adguard-update.sh, started by its own timer beside either tool: it
\* restarts the resolver, and systemd a running core with it.
WeeklyUpdate ==
  /\ TimerFalls \/ ~ ResolverStopped
  /\ host' \in AfterStop(host)
  /\ running' = [running EXCEPT !.resolver = host'.ramAgh,
                                !.core = IF @ = "down" THEN @ ELSE host.ramCore]
  /\ UNCHANGED <<live, boot, hvars, pc, todo, perms, saved, deployed, runs>>

Idle == pc = "idle" /\ hpc = "idle"

Count == IF Idle THEN runs < MaxRuns /\ runs' = runs + 1 ELSE UNCHANGED runs

Next ==
  \/ pc = "idle" /\ HNext /\ Count /\ UNCHANGED <<rvars, deployed>>
  \/ hpc = "idle" /\ RNext /\ Count /\ UNCHANGED <<hvars, deployed>>
  \/ WeeklyUpdate
  \/ Reboot

Spec == Init /\ [][Next]_vars

-----------------------------------------------------------------------------
TypeOK == HTypeOK /\ RTypeOK /\ (pc = "idle" \/ hpc = "idle")

\* "keeps SSH/established/loopback/declared service access": what the server admitted
\* of these when it was deployed it admits after every command of either tool, after a
\* failure, a kill between two commands, and a reboot.
AccessKept ==
  Admitted(deployed) \ {"rest"} \subseteq Admitted(live) \cap Admitted(boot)

\* Undeclared ports, the metadata address, and peers from outside or from one
\* another: what the deployed rules refused of these is refused after every command,
\* the ones that empty and refill FORTRESS_FORWARD included.
NothingOpened ==
  \A fw \in {live, boot} :
    /\ Admitted(fw) \cap {"rest"} \subseteq Admitted(deployed)
    /\ Routed(fw) \cap Guarded \subseteq Routed(deployed)
=============================================================================
