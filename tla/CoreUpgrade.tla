----------------------------- MODULE CoreUpgrade -----------------------------
(***************************************************************************)
(* upgrade_server_core.py: the core's binary, its active configuration in  *)
(* RAM and the template on disk go from 1.11.4 to 1.14.2 together, or back *)
(* together.  Each file is replaced atomically, the three are not.         *)
(*                                                                         *)
(* The tool may be killed between any two steps, and the server may reboot:*)
(* fortress-init.sh then copies the template over the active configuration.*)
(* A core starts when its binary and configuration belong together, the    *)
(* new ones only if the converted configuration also works at run time.    *)
(***************************************************************************)
EXTENDS Integers, Sequences

CONSTANT MaxBackups  \* bound: runs of --apply that get as far as a backup

ASSUME UpgradeAssumption == MaxBackups \in Nat

VARIABLES
  file,     \* the version of each file in place
  converted,\* the new configuration works at run time, not only in "check"
  core,     \* the version fortress-core runs, or "down"
  backups,  \* the backups with a manifest, oldest first
  pc,       \* what the tool is doing
  saved,    \* the backup it is making or putting back
  todo      \* the files its loop has left

vars == <<file, converted, core, backups, pc, saved, todo>>

Paths    == <<"binary", "active", "template">>
Names    == {"binary", "active", "template"}
Versions == {"old", "new"}
FileSet  == [Names -> Versions]
AllOld   == [f \in Names |-> "old"]

OneVersion(s) == \A f, g \in Names : s[f] = s[g]

\* What systemd gets when it starts the core with these files.
Started(s) ==
  IF s["binary"] = s["active"] /\ (s["binary"] = "old" \/ converted) THEN s["binary"] ELSE "down"

-----------------------------------------------------------------------------
Init ==
  /\ file = AllOld
  /\ converted \in BOOLEAN
  /\ core = "old"
  /\ backups = <<>>
  /\ pc = "idle" /\ saved = file /\ todo = <<>>

Goto(label) == pc' = label /\ UNCHANGED <<converted, backups>>

\* After the checks of candidate, versions and converted configuration.
Apply ==
  /\ pc = "idle" /\ Len(backups) < MaxBackups
  /\ Goto("copy")
  /\ todo' = Paths
  /\ UNCHANGED <<file, core, saved>>

CopyNext ==
  /\ pc = "copy"
  /\ saved' = [saved EXCEPT ![Head(todo)] = file[Head(todo)]]
  /\ todo' = Tail(todo)
  /\ Goto(IF Len(todo) = 1 THEN "manifest" ELSE "copy")
  /\ UNCHANGED <<file, core>>

\* Mutant: the manifest is forgotten.
PublishManifest_Skipped ==
  /\ pc = "manifest"
  /\ pc' = "publish" /\ todo' = Paths
  /\ UNCHANGED <<file, converted, core, backups, saved>>

\* Only with its manifest can a backup be restored.
PublishManifest ==
  /\ pc = "manifest"
  /\ backups' = Append(backups, saved)
  /\ pc' = "publish" /\ todo' = Paths
  /\ UNCHANGED <<file, converted, core, saved>>

\* Mutant: the template is left for later.
PublishNext_NoTemplate ==
  /\ pc = "publish"
  /\ file' = IF Head(todo) = "template" THEN file ELSE [file EXCEPT ![Head(todo)] = "new"]
  /\ todo' = Tail(todo)
  /\ Goto(IF Len(todo) = 1 THEN "restart" ELSE "publish")
  /\ UNCHANGED <<core, saved>>

\* publish: temporary file, fsync, os.replace.
PublishNext ==
  /\ pc = "publish"
  /\ file' = [file EXCEPT ![Head(todo)] = "new"]
  /\ todo' = Tail(todo)
  /\ Goto(IF Len(todo) = 1 THEN "restart" ELSE "publish")
  /\ UNCHANGED <<core, saved>>

RestartCore ==
  /\ pc = "restart"
  /\ core' = Started(file)
  /\ Goto("check")
  /\ UNCHANGED <<file, saved, todo>>

\* is-active after three seconds.  systemd restarts a failing core every three
\* seconds (Restart=always): the check may meet it in a short life.
CheckCore ==
  /\ pc = "check"
  /\ Goto("done")
  /\ UNCHANGED <<file, core, saved, todo>>

\* Mutant: only the files that were still to be published are put back.
Except_Rest ==
  /\ pc \in {"publish", "restart", "check"}
  /\ Goto("restore")
  /\ todo' = IF todo = <<>> THEN Paths ELSE todo
  /\ UNCHANGED <<file, core, saved>>

\* An exception in the try block: a file that cannot be published, a command that
\* fails or times out, a core that is not active.
Except ==
  /\ pc \in {"publish", "restart", "check"}
  /\ Goto("restore")
  /\ todo' = Paths
  /\ UNCHANGED <<file, core, saved>>

RestoreNext ==
  /\ pc \in {"restore", "rollback"}
  /\ file' = [file EXCEPT ![Head(todo)] = saved[Head(todo)]]
  /\ todo' = Tail(todo)
  /\ IF Len(todo) > 1 THEN Goto(pc)
     ELSE Goto(IF pc = "restore" THEN "restartOld" ELSE "restartBack")
  /\ UNCHANGED <<core, saved>>

\* systemctl restart with the files put back.  Its result is unchecked: the core that
\* ran may still run, or none.
RestartOld ==
  /\ pc = "restartOld"
  /\ core' \in {Started(file), core, "down"}
  /\ Goto("failed")
  /\ UNCHANGED <<file, saved, todo>>

\* --rollback-backup, with any backup that has a manifest.
Rollback ==
  /\ pc = "idle"
  /\ \E i \in 1 .. Len(backups) : saved' = backups[i]
  /\ todo' = Paths
  /\ Goto("rollback")
  /\ UNCHANGED <<file, core>>

RestartBack ==
  /\ pc = "restartBack"
  /\ core' = Started(file)
  /\ Goto("rolledBack")
  /\ UNCHANGED <<file, saved, todo>>

\* The tool has reported; or it was killed, or an exception left it.
End ==
  /\ pc # "idle"
  /\ Goto("idle")
  /\ saved' = AllOld /\ todo' = <<>>
  /\ UNCHANGED <<file, core>>

Reboot ==
  /\ file' = [file EXCEPT !["active"] = file["template"]]
  /\ core' = Started(file')
  /\ Goto("idle")
  /\ saved' = AllOld /\ todo' = <<>>

Next ==
  \/ Apply \/ CopyNext \/ PublishManifest \/ PublishNext \/ RestartCore \/ CheckCore
  \/ Except \/ RestoreNext \/ RestartOld
  \/ Rollback \/ RestartBack
  \/ End \/ Reboot

Spec == Init /\ [][Next]_vars

-----------------------------------------------------------------------------
\* Types; the loops of the tool have a file left while they run.
TypeOK ==
  /\ file \in FileSet /\ saved \in FileSet
  /\ converted \in BOOLEAN /\ core \in Versions \cup {"down"}
  /\ backups \in Seq(FileSet)
  /\ pc \in {"idle", "copy", "manifest", "publish", "restart", "check", "done", "restore",
             "restartOld", "failed", "rollback", "restartBack", "rolledBack"}
  /\ todo \in {<<>>, Paths, Tail(Paths), Tail(Tail(Paths))}
  /\ pc \in {"copy", "publish", "restore", "rollback"} => todo # <<>>

\* A server left with files of two versions, by a kill, a reboot or a failed
\* restore, can be brought back: a backup of one version exists.
WayBack == ~ OneVersion(file) => \E i \in 1 .. Len(backups) : OneVersion(backups[i])

\* "Upgrade failed; file rollback attempted", wherever among its commands it failed:
\* the three files are again what the run found.  What the core does is not said,
\* "inspect private service health": its restart is unchecked.
FailureHarmless == pc = "failed" => file = saved

\* A success also holds after the next boot, which takes the template.
SuccessSurvivesBoot == pc = "done" => OneVersion(file)

\* "failed service checks restore the old binary and private configs": after a
\* failure the three files are of one version.
RestoresOldCore == pc = "failed" => OneVersion(file)
=============================================================================
