----------------------------- MODULE Remediation -----------------------------
(***************************************************************************)
(* apply_server_remediation.py: files, additive firewall rules, services   *)
(* and permissions of a deployed server are migrated one after the other;  *)
(* an exception puts the files and rules of the backup back.               *)
(*                                                                         *)
(* AdGuard Home writes its configuration when it stops ("AGH writes its    *)
(* configuration during shutdown"): whether it does is left open.          *)
(***************************************************************************)
EXTENDS Firewall

VARIABLES
  pc,       \* what the tool is doing
  todo,     \* the files or rules its loop has left
  host,     \* the version of each file in place
  perms,    \* ownership of the private files: "found", "mixed", "rootOnly"
  running,  \* the version each service runs, or "down"
  saved     \* the backup

rvars == <<pc, todo, host, perms, running, saved>>

\* The files that are rewritten, in the order they are: AdGuard's configuration on
\* disk and in tmpfs, the core's, the master configuration on disk and in tmpfs, two
\* scripts, the systemd drop-ins.
Written == <<"agh", "ramAgh", "template", "ramCore", "config", "ramConfig",
             "sub", "init", "units">>
IfPresent == {"template", "config", "ramConfig"}
Targets == <<"agh", "ramAgh", "ramCore", "template", "config", "ramConfig", "dns", "ramDns",
             "sub", "init", "rules", "units">>

Files    == {"agh", "ramAgh", "template", "ramCore", "config", "ramConfig", "sub", "init",
             "units", "dns", "ramDns", "token"}
Versions == {"found", "reviewed", "torn", "absent"}
Services == {"resolver", "core", "sub"}

\* firewall_rules: DNS in the tunnel, encrypted DNS, no metadata for the service user
\* and the peers.
Additive == <<
  EnsureFirst("INPUT", VpnDnsIn), EnsureFirst("INPUT", Accept({"encDns"})),
  EnsureFirst("OUTPUT", Drop({"userToMetadata"})),
  EnsureFirst("FORWARD", [on |-> Metadata, do |-> "REJECT"])>>

\* What a service finds when it is started.
Loaded(h) == [resolver |-> h.ramAgh, core |-> h.ramCore, sub |-> h.sub]

NoBackup == [host |-> [f \in Files |-> "absent"], boot |-> NoRules, live |-> NoRules,
             perms |-> "found"]

\* The files a deployed server may be without.
Missing == {{}, {"config"}, {"dns"}, {"dns", "ramDns"}}

RInit(missing) ==
  /\ pc = "idle" /\ todo = <<>> /\ saved = NoBackup /\ perms = "found"
  /\ host = [f \in Files |-> IF f \in missing \cup {"units", "token"} THEN "absent" ELSE "found"]
  /\ running = Loaded(host)

Goto(label) == pc' = label

\* After the checks and the backup of files, permissions and rules.
RApply ==
  /\ pc = "idle"
  /\ {host.config, host.ramConfig} # {"absent"}
  /\ saved' = [host |-> host, boot |-> boot, live |-> live, perms |-> perms]
  /\ Goto("token")
  /\ UNCHANGED <<live, boot, todo, host, perms, running>>

\* The durable token is made from a legacy one, unless it exists.
MigrateToken ==
  /\ pc = "token"
  /\ host' = IF host.token = "absent" THEN [host EXCEPT !.token = "reviewed"] ELSE host
  /\ Goto("stop")
  /\ UNCHANGED <<live, boot, todo, perms, running, saved>>

\* Mutant: a resolver that was stopped before writes as well.
AfterStop_Always(h) == {h, [h EXCEPT !.ramAgh = running.resolver]}

\* AdGuard's configuration in tmpfs once it has stopped.
AfterStop(h) ==
  {h} \cup IF running.resolver = "down" THEN {} ELSE {[h EXCEPT !.ramAgh = running.resolver]}

\* The core requires the resolver: systemd stops it too.
StopResolver ==
  /\ pc = "stop"
  /\ host' \in AfterStop(host)
  /\ running' = [running EXCEPT !.resolver = "down", !.core = "down"]
  /\ Goto("dns")
  /\ UNCHANGED <<live, boot, todo, perms, saved>>

\* The provider's name is corrected in place, in the durable file if there is one,
\* else in tmpfs; an exception is swallowed and may leave a torn file.  Without
\* either, keys are made.
Provider(h) ==
  IF h.dns # "absent"    THEN {[h EXCEPT !.dns = v] : v \in {"reviewed", "torn", h.dns}}
  ELSE IF h.ramDns # "absent" THEN {[h EXCEPT !.ramDns = v] : v \in {"reviewed", "torn", h.ramDns}}
  ELSE {[h EXCEPT !.dns = "reviewed"]}

EnsureDnscrypt ==
  /\ pc = "dns"
  /\ host' \in Provider(host)
  /\ Goto("ramDns")
  /\ UNCHANGED <<live, boot, todo, perms, running, saved>>

CopyDnscrypt ==
  /\ pc = "ramDns"
  /\ host' = IF host.dns = "absent" THEN host ELSE [host EXCEPT !.ramDns = host.dns]
  /\ Goto("write") /\ todo' = Written
  /\ UNCHANGED <<live, boot, perms, running, saved>>

\* atomic_file: temporary file, fsync, os.replace.
WriteNext ==
  /\ pc = "write"
  /\ host' = IF Head(todo) \in IfPresent /\ host[Head(todo)] = "absent" THEN host
             ELSE [host EXCEPT ![Head(todo)] = "reviewed"]
  /\ IF Len(todo) > 1 THEN pc' = pc /\ todo' = Tail(todo)
     ELSE Goto("rules") /\ todo' = Additive
  /\ UNCHANGED <<live, boot, perms, running, saved>>

InsertNext ==
  /\ pc = "rules" /\ todo # <<>>
  /\ live' = Effect(live, Head(todo))
  /\ todo' = Tail(todo)
  /\ UNCHANGED <<pc, boot, host, perms, running, saved>>

SaveRules ==
  /\ pc = "rules" /\ todo = <<>>
  /\ boot' = live
  /\ Goto("restart")
  /\ UNCHANGED <<live, todo, host, perms, running, saved>>

\* A service that runs is stopped first.
RestartServices ==
  /\ pc = "restart"
  /\ host' \in AfterStop(host)
  /\ running' = Loaded(host')
  /\ Goto("check")
  /\ UNCHANGED <<live, boot, todo, perms, saved>>

\* Units active, and the resolver answers; then root takes the private files.
CheckHealth ==
  /\ pc = "check"
  /\ perms' = "mixed"
  /\ Goto("own")
  /\ UNCHANGED <<live, boot, todo, host, running, saved>>

OwnFiles ==
  /\ pc = "own"
  /\ perms' = "rootOnly"
  /\ Goto("done")
  /\ UNCHANGED <<live, boot, todo, host, running, saved>>

Migrating == {"token", "stop", "dns", "ramDns", "write", "rules", "restart", "check", "own"}

\* Any exception of the try block: a command, a write or the health check fails.
RExcept ==
  /\ pc \in Migrating
  /\ Goto("restore") /\ todo' = Targets
  /\ UNCHANGED <<live, boot, host, perms, running, saved>>

\* Mutant: what was not there before is left.
RestoreNext_NoUnlink ==
  /\ pc = "restore" /\ todo # <<>>
  /\ IF Head(todo) = "rules" THEN boot' = saved.boot /\ UNCHANGED host
     ELSE /\ host' = IF saved.host[Head(todo)] = "absent" THEN host
                     ELSE [host EXCEPT ![Head(todo)] = saved.host[Head(todo)]]
          /\ UNCHANGED boot
  /\ todo' = Tail(todo)
  /\ UNCHANGED <<live, pc, perms, running, saved>>

\* Written again with its old content, or removed if there was none.
RestoreNext ==
  /\ pc = "restore" /\ todo # <<>>
  /\ IF Head(todo) = "rules" THEN boot' = saved.boot /\ UNCHANGED host
     ELSE host' = [host EXCEPT ![Head(todo)] = saved.host[Head(todo)]] /\ UNCHANGED boot
  /\ todo' = Tail(todo)
  /\ UNCHANGED <<live, pc, perms, running, saved>>

\* Permissions, then iptables-restore with its result unchecked.
RestoreRules ==
  /\ pc = "restore" /\ todo = <<>>
  /\ perms' = saved.perms
  /\ live' \in {saved.live, live}
  /\ Goto("restartBack")
  /\ UNCHANGED <<boot, todo, host, running, saved>>

\* systemctl restart with the files put back, its result unchecked: each service runs
\* what it finds, or what it ran, or is down.
RestartBack ==
  /\ pc = "restartBack"
  /\ host' \in AfterStop(host)
  /\ running' \in {now \in [Services -> Versions \cup {"down"}] :
                     \A s \in Services : now[s] \in {Loaded(host')[s], running[s], "down"}}
  /\ Goto("failed")
  /\ UNCHANGED <<live, boot, todo, perms, saved>>

\* The tool has reported, was killed, or failed while restoring.
REnd ==
  /\ pc # "idle"
  /\ Goto("idle") /\ todo' = <<>> /\ saved' = NoBackup
  /\ UNCHANGED <<live, boot, host, perms, running>>

RNext ==
  \/ RApply \/ MigrateToken \/ StopResolver \/ EnsureDnscrypt \/ CopyDnscrypt
  \/ WriteNext \/ InsertNext \/ SaveRules \/ RestartServices \/ CheckHealth \/ OwnFiles
  \/ RExcept \/ RestoreNext \/ RestoreRules \/ RestartBack \/ REnd

-----------------------------------------------------------------------------
RTypeOK ==
  /\ pc \in Migrating \cup {"idle", "done", "restore", "restartBack", "failed"}
  /\ host \in [Files -> Versions] /\ saved.host \in [Files -> Versions]
  /\ perms \in {"found", "mixed", "rootOnly"}
  /\ running \in [Services -> Versions \cup {"down"}]
  /\ todo # <<>> => pc \in {"write", "rules", "restore"}

\* "Remediation failed; file/firewall rollback attempted": files, the rules file and
\* permissions are what the tool found.  AdGuard's copy in tmpfs is left out, it writes
\* it again when it is restarted; and so are the services and the rules in force,
\* because neither iptables-restore nor the restart is checked.
\* "Remediation applied; services active": the next boot, which fills tmpfs from the
\* disk and loads the rules file, keeps what the services run now.
RemediatedOrRestored ==
  /\ pc = "failed" =>
       /\ \A f \in Files \ {"ramAgh", "token"} : host[f] = saved.host[f]
       /\ boot = saved.boot /\ perms = saved.perms
  /\ pc = "done" =>
       /\ running = [s \in Services |-> "reviewed"]
       /\ host.agh = host.ramAgh /\ host.template = host.ramCore
       /\ host.config # "absent" /\ host.ramConfig # "absent" => host.config = host.ramConfig
       /\ host.dns # "absent" => host.dns = host.ramDns
       /\ boot = live
=============================================================================
