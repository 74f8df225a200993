----------------------------- MODULE ClientVault -----------------------------
(***************************************************************************)
(* fortress_vault.py lock, unlock and shred, and install_client_bundle.py, *)
(* on one protected file: the plain file and its .enc sibling.             *)
(*                                                                         *)
(* Several tools may run at once (the window of the application, a shell), *)
(* each killed at any step (the application does so after 120 s), while    *)
(* the user's programs save the plain file.  A content is a version number;*)
(* encryption changes who can read it, not which version it is.  A change  *)
(* of a file after a tool has opened it is seen by the tool's comparison   *)
(* of inode, size and times: stale records it.                             *)
(***************************************************************************)
EXTENDS Integers

CONSTANTS
  Tools,        \* running tools
  Disturbed,    \* a save or an installation may fall between a tool's last check and
                \* its os.remove, a shred anywhere after it has published
  MaxVersions   \* bound: versions ever written

Absent  == 0
Garbage == -1  \* a file overwritten by shred

ASSUME ClientAssumption ==
  Disturbed \in BOOLEAN /\ MaxVersions \in Nat \ {0} /\ Absent \notin Tools

VARIABLES
  file,      \* the version in "plain" and in "enc"
  versions,  \* how many versions there have been
  live,      \* history: the versions the user counts on
  pc, op,    \* per tool: where it is, what it does
  data,      \* per tool: the version it holds in memory
  stale      \* per tool: another one wrote to its source after it read it

vars == <<file, versions, live, pc, op, data, stale>>

Names   == {"plain", "enc"}
Ops     == {"lock", "unlock", "install", "shred"}
Other(f) == IF f = "plain" THEN "enc" ELSE "plain"

\* What a conversion reads, and what it creates.
Source(t)      == IF op[t] = "lock" THEN "plain" ELSE "enc"
Destination(t) == IF op[t] = "install" THEN "enc" ELSE Other(Source(t))
Exists(f)      == file[f] # Absent

-----------------------------------------------------------------------------
Init ==
  /\ file \in {[plain |-> 1, enc |-> Absent], [plain |-> Absent, enc |-> 1],
               [plain |-> Absent, enc |-> Absent]}
  /\ versions = 1
  /\ live = {1} \cap {file.plain, file.enc}
  /\ pc = [t \in Tools |-> "idle"] /\ op = [t \in Tools |-> "lock"]
  /\ data = [t \in Tools |-> Absent] /\ stale = [t \in Tools |-> FALSE]

\* f now holds v; every other tool that watches f can see the change.
Put(f, v, by) ==
  /\ file' = [file EXCEPT ![f] = v]
  /\ stale' = [t \in Tools |->
                 \/ stale[t]
                 \/ t # by /\ pc[t] # "idle" /\ (op[t] = "shred" \/ Source(t) = f)]

Goto(t, label) == pc' = [pc EXCEPT ![t] = label]

Exit(t) ==
  /\ Goto(t, "idle")
  /\ op' = [op EXCEPT ![t] = "lock"] /\ data' = [data EXCEPT ![t] = Absent]

\* No tool is at one of these steps, or it may be disturbed there.
Undisturbed(steps) == Disturbed \/ \A t \in Tools : pc[t] \notin steps

\* A program of the user saves the plain file, replacing the version it held.
Save ==
  /\ versions < MaxVersions
  /\ Undisturbed({"remove"})
  /\ versions' = versions + 1
  /\ Put("plain", versions', Absent)
  /\ live' = (live \ {file.plain}) \cup {versions'}
  /\ UNCHANGED <<pc, op, data>>

Start(t) ==
  /\ pc[t] = "idle"
  /\ \E o \in Ops : /\ o = "install" => versions < MaxVersions
                    /\ op' = [op EXCEPT ![t] = o]
                    /\ Goto(t, IF o = "shred" THEN "plain" ELSE "look")
  /\ stale' = [stale EXCEPT ![t] = FALSE]
  /\ UNCHANGED <<file, versions, live, data>>

-----------------------------------------------------------------------------
\* _convert_vault: the source exists and the destination does not.
Look(t) ==
  /\ pc[t] = "look" /\ op[t] # "install"
  /\ Exists(Source(t)) /\ ~ Exists(Destination(t))
  /\ Goto(t, "read")
  /\ UNCHANGED <<file, versions, live, op, data, stale>>

\* Mutant: a source that has vanished is read as an empty one.
Read_Missing(t) ==
  /\ pc[t] = "read"
  /\ data' = [data EXCEPT ![t] = file[Source(t)]]
  /\ stale' = [stale EXCEPT ![t] = FALSE]
  /\ Goto(t, "publish")
  /\ UNCHANGED <<file, versions, live, op>>

\* fstat and read of the open source; DPAPI converts it in memory.
Read(t) ==
  /\ pc[t] = "read" /\ Exists(Source(t))
  /\ data' = [data EXCEPT ![t] = file[Source(t)]]
  /\ stale' = [stale EXCEPT ![t] = FALSE]
  /\ Goto(t, "publish")
  /\ UNCHANGED <<file, versions, live, op>>

\* install_client_bundle.py: neither form may exist; the bundle is a new version.
LookInstall(t) ==
  /\ pc[t] = "look" /\ op[t] = "install"
  /\ ~ Exists("plain") /\ ~ Exists("enc") /\ versions < MaxVersions
  /\ versions' = versions + 1
  /\ data' = [data EXCEPT ![t] = versions']
  /\ Goto(t, "publish")
  /\ UNCHANGED <<file, live, op, stale>>

\* _publish_new: os.link of the complete temporary file fails if a destination
\* has appeared.
Publish(t) ==
  /\ pc[t] = "publish" /\ ~ Exists(Destination(t))
  /\ op[t] = "install" => Undisturbed({"remove"})
  /\ Put(Destination(t), data[t], t)
  /\ IF op[t] = "install"
       THEN live' = live \cup {data[t]} /\ Exit(t)
       ELSE Goto(t, "verify") /\ UNCHANGED <<live, op, data>>
  /\ UNCHANGED versions

\* Mutant: the source is not looked at again.
Verify_Skipped(t) ==
  /\ pc[t] = "verify"
  /\ Goto(t, "remove")
  /\ UNCHANGED <<file, versions, live, op, data, stale>>

\* The source still is the file that was read, with the same content.
Verify(t) ==
  /\ pc[t] = "verify"
  /\ ~ stale[t] /\ file[Source(t)] = data[t]
  /\ Goto(t, "remove")
  /\ UNCHANGED <<file, versions, live, op, data, stale>>

\* os.remove(source), whatever the source is by now.
Remove(t) ==
  /\ pc[t] = "remove" /\ Exists(Source(t))
  /\ Put(Source(t), Absent, t)
  /\ Exit(t)
  /\ UNCHANGED <<versions, live>>

\* Any step above may fail or its condition not hold: the exception ends the
\* work on this file, and whatever was published stays.  So does a kill.
Fail(t) ==
  /\ pc[t] \notin {"idle", "erased"}
  /\ Exit(t)
  /\ UNCHANGED <<file, versions, live, stale>>

-----------------------------------------------------------------------------
\* Mutant: only the plain file is a target.
Erase_PlainOnly(t) ==
  /\ op[t] = "shred" /\ pc[t] \in Names
  /\ IF Exists(pc[t]) /\ pc[t] = "plain" THEN Put(pc[t], Absent, t) ELSE UNCHANGED <<file, stale>>
  /\ Goto(t, IF pc[t] = "plain" THEN "enc" ELSE "erased")
  /\ UNCHANGED <<versions, live, op, data>>

\* panic_shred_local: the plain file, then its .enc, is overwritten in place ...
Overwrite(t) ==
  /\ op[t] = "shred" /\ pc[t] \in Names /\ Exists(pc[t]) /\ file[pc[t]] # Garbage
  /\ Undisturbed({"verify", "remove"})
  /\ Put(pc[t], Garbage, t)
  /\ live' = live \ {file[pc[t]]}
  /\ UNCHANGED <<versions, pc, op, data>>

\* ... and removed; a missing file is passed over.
Erase(t) ==
  /\ op[t] = "shred" /\ pc[t] \in Names /\ file[pc[t]] \in {Absent, Garbage}
  /\ Undisturbed({"verify", "remove"})
  /\ IF Exists(pc[t]) THEN Put(pc[t], Absent, t) ELSE UNCHANGED <<file, stale>>
  /\ Goto(t, IF pc[t] = "plain" THEN "enc" ELSE "erased")
  /\ UNCHANGED <<versions, live, op, data>>

\* "[OK] Best-effort removal completed".
Report(t) ==
  /\ pc[t] = "erased"
  /\ Exit(t)
  /\ UNCHANGED <<file, versions, live, stale>>

Convert(t) == Look(t) \/ Read(t) \/ Publish(t) \/ Verify(t) \/ Remove(t)
Panic(t)   == Overwrite(t) \/ Erase(t) \/ Report(t)

Next ==
  \/ Save
  \/ \E t \in Tools : Start(t) \/ LookInstall(t) \/ Convert(t) \/ Fail(t) \/ Panic(t)

Spec == Init /\ [][Next]_vars

-----------------------------------------------------------------------------
\* Types; a tool that removes or compares holds the version it has published.
TypeOK ==
  /\ file \in [Names -> -1 .. MaxVersions]
  /\ versions \in 1 .. MaxVersions /\ live \subseteq 1 .. MaxVersions
  /\ pc \in [Tools -> {"idle", "look", "read", "publish", "verify", "remove",
                       "plain", "enc", "erased"}]
  /\ op \in [Tools -> Ops]
  /\ data \in [Tools -> -1 .. MaxVersions] /\ stale \in [Tools -> BOOLEAN]
  /\ \A t \in Tools : pc[t] \in {"verify", "remove"} => data[t] # Absent

\* "Recoverable copies retained": whatever two tools, kills and saves do, every
\* version that nobody has replaced or shredded is in the plain or the .enc file.
NothingLost == live \subseteq {file.plain, file.enc}

\* When shred reports success, a file that is left was written while it ran.
PanicErases ==
  \A t \in Tools : pc[t] = "erased" /\ ~ stale[t] => ~ Exists("plain") /\ ~ Exists("enc")
=============================================================================
