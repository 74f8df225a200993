----------------------------- MODULE ServerVault -----------------------------
(***************************************************************************)
(* manage_server_vault.py lock, unlock and purge-ram, with the boot script *)
(* fortress-init.sh and the token rotations of the daemon around them.     *)
(*                                                                         *)
(* A place holds a content under each name: /etc/fortress (disk) and       *)
(* /run/fortress (ram) in plain text, vault.enc encrypted.  The content is *)
(* as deployed, or a later token, or junk: what a shred that did not get   *)
(* to its end leaves.  LUKS is left out.  One tool runs at a time; it may  *)
(* be killed, or lose the machine, between any two of its steps.           *)
(***************************************************************************)
EXTENDS Integers, Sequences

SENSITIVE_FILES ==
  <<"key.pem", "ca.key", "wg0.conf", "dnscrypt.yaml", "fortress_config.json",
    "config.json.template", "cert.pem", "ca.crt", "sub_token">>

Files    == {SENSITIVE_FILES[i] : i \in 1 .. 9}
Template == "config.json.template"

\* The name under which a file lies in RAM.
RamName(f) == IF f = Template THEN "config.json" ELSE f
RamNames   == {RamName(f) : f \in Files}

CONSTANTS
  Careful,      \* the operator locks again only after a completed unlock
  Tidies,       \* and removes what a shred has left before the next lock or unlock
  Fragile,      \* bound: the files a failing shred or an interrupted write leaves in part
  MaxRotations  \* bound: rotations of the token

ASSUME VaultAssumption ==
  /\ Careful \in BOOLEAN /\ Tidies \in BOOLEAN
  /\ Fragile \subseteq Files /\ MaxRotations \in Nat

VARIABLES
  disk,     \* the files in DISK_DIR
  ram,      \* the files in RAM_DIR and its two subdirectories
  vault,    \* the archive in VAULT_FILE, or NoVault
  state,    \* the token in STATE_DIR
  pc,       \* what the tool is doing
  archive,  \* the tar file it holds in memory
  todo,     \* the index of the file its loop is at
  unlocked  \* history: an unlock was completed and nothing undid it

vars == <<disk, ram, vault, state, pc, archive, todo, unlocked>>

None     == 0   \* there is no such file
Junk     == -1  \* overwritten, cut short, or with bytes appended
Deployed == 1   \* tokens that replace the deployed one are numbered from 2
Content  == Int

Archives == [Files -> Content]
NoVault  == [f \in Files |-> None]  \* an archive is never empty

Held(place)  == {n \in DOMAIN place : place[n] # None}
Whole(place) == {n \in DOMAIN place : place[n] \notin {None, Junk}}

-----------------------------------------------------------------------------
\* A deployed server, whose legacy token file may have outlived its migration.
Init ==
  /\ disk \in {[f \in Files |-> Deployed],
               [f \in Files |-> IF f = "sub_token" THEN None ELSE Deployed]}
  /\ ram = [n \in RamNames |-> IF n = "ca.key" THEN None ELSE Deployed]
  /\ vault = NoVault /\ archive = NoVault
  /\ state = Deployed
  /\ pc = "idle" /\ todo = 1 /\ unlocked = FALSE

\* fortress-init.sh copies what is on disk, whatever it is, but not ca.key; the
\* token it takes from STATE_DIR.
Restored(before, token) ==
  [n \in RamNames |->
     LET f == IF n = "config.json" THEN Template ELSE n IN
     IF n = "sub_token" THEN token
     ELSE IF n # "ca.key" /\ disk[f] # None THEN disk[f] ELSE before[n]]

\* It runs to its end, or stops (set -e), or is not found in the directory.
RunInit(before, token) == ram' \in {before, Restored(before, token)}

Stop == pc' = "idle" /\ archive' = NoVault /\ todo' = 1

\* The loop goes on to the next file, or has been through all of them.
NextFile(loop, end) ==
  IF todo = 9 THEN pc' = end /\ todo' = 1 ELSE pc' = loop /\ todo' = todo + 1

\* The daemon replaces the token; its RAM copy may stay the old one, because
\* RAM_DIR belongs to root once fortress-init or unlock has run.
Rotate ==
  /\ "key.pem" \in Held(ram) \cup Held(disk)
  /\ state' \in {t \in 2 .. MaxRotations + 1 : t > state}
  /\ ram' \in {ram, [ram EXCEPT !["sub_token"] = state']}
  /\ UNCHANGED <<disk, vault, pc, archive, todo, unlocked>>

-----------------------------------------------------------------------------
\* Mutant: only the files on disk are collected.
Bundle_DiskOnly == [disk EXCEPT !["sub_token"] = state]

\* The sources of the archive: disk, else RAM, else (the token) STATE_DIR.  The
\* template is not looked for under its name in RAM.
Bundle ==
  [f \in Files |->
     IF disk[f] # None THEN disk[f]
     ELSE IF f \in RamNames /\ ram[f] # None THEN ram[f]
     ELSE IF f = "sub_token" THEN state ELSE None]

\* What a tidy operator sees to before he starts a tool.
NoJunk == Tidies => \A f \in Files : disk[f] # Junk

\* Mutant: the files are shredded before the vault is written.
LockBundle_ShredFirst ==
  /\ pc = "idle" /\ NoJunk
  /\ Careful => vault = NoVault \/ unlocked
  /\ archive' = Bundle
  /\ pc' = "stage"
  /\ UNCHANGED <<disk, ram, vault, state, todo, unlocked>>

LockBundle ==
  /\ pc = "idle" /\ NoJunk
  /\ Careful => vault = NoVault \/ unlocked
  /\ archive' = Bundle
  /\ pc' = "write"
  /\ UNCHANGED <<disk, ram, vault, state, todo, unlocked>>

\* temp_vault.replace(VAULT_FILE), after encryption and the test decryption.
WriteVault ==
  /\ pc = "write"
  /\ vault' = archive
  /\ unlocked' = FALSE
  /\ pc' = "stage"
  /\ UNCHANGED <<disk, ram, state, archive, todo>>

\* fortress-init.sh again, its result unchecked.
Stage ==
  /\ pc = "stage"
  /\ RunInit(ram, state)
  /\ pc' = "shred"
  /\ UNCHANGED <<disk, vault, state, archive, todo, unlocked>>

\* A file that is there is overwritten, in three passes, before it is removed ...
ShredNext ==
  LET f == SENSITIVE_FILES[todo] IN
  /\ pc = "shred"
  /\ IF disk[f] = None
       THEN NextFile("shred", "done") /\ UNCHANGED disk
       ELSE disk' = [disk EXCEPT ![f] = Junk] /\ pc' = "unlink" /\ UNCHANGED todo
  /\ UNCHANGED <<ram, vault, state, archive, unlocked>>

\* ... and removed.  When shred fails, the fallback appends to what there is and
\* removes nothing, and the loop goes on.
ShredEnds ==
  LET f == SENSITIVE_FILES[todo] IN
  /\ pc = "unlink"
  /\ \/ disk' = [disk EXCEPT ![f] = None]
     \/ f \in Fragile /\ UNCHANGED disk
  /\ NextFile("shred", "done")
  /\ UNCHANGED <<ram, vault, state, archive, unlocked>>

\* "SUCCESS! All server keys are encrypted": the tool ends.
LockDone ==
  /\ pc = "done"
  /\ Stop
  /\ UNCHANGED <<disk, ram, vault, state, unlocked>>

\* The operator removes what a shred has left in /etc/fortress.
Tidy ==
  /\ pc = "idle" /\ ~ NoJunk
  /\ disk' = [f \in Files |-> IF disk[f] = Junk THEN None ELSE disk[f]]
  /\ UNCHANGED <<ram, vault, state, pc, archive, todo, unlocked>>

-----------------------------------------------------------------------------
UnlockRead ==
  /\ pc = "idle" /\ NoJunk /\ vault # NoVault
  /\ archive' = vault
  /\ unlocked' = FALSE
  /\ pc' = "unpack"
  /\ UNCHANGED <<disk, ram, vault, state, todo>>

\* Mutant: a file that is already in RAM is left as it is.
UnpackNext_IfAbsent ==
  LET f == SENSITIVE_FILES[todo] IN
  /\ pc = "unpack"
  /\ ram' = IF archive[f] = None \/ ram[RamName(f)] # None THEN ram
            ELSE [ram EXCEPT ![RamName(f)] = archive[f]]
  /\ state' = IF f = "sub_token" /\ archive[f] # None THEN archive[f] ELSE state
  /\ NextFile("unpack", "restart")
  /\ UNCHANGED <<disk, vault, archive, unlocked>>

\* Every member goes to RAM; the token goes to STATE_DIR as well.
UnpackNext ==
  LET f == SENSITIVE_FILES[todo] IN
  /\ pc = "unpack"
  /\ ram' = IF archive[f] = None THEN ram ELSE [ram EXCEPT ![RamName(f)] = archive[f]]
  /\ state' = IF f = "sub_token" /\ archive[f] # None THEN archive[f] ELSE state
  /\ NextFile("unpack", "restart")
  /\ UNCHANGED <<disk, vault, archive, unlocked>>

\* systemctl restart: fortress-init first, then the daemons.
Restart ==
  /\ pc = "restart"
  /\ RunInit(ram, state)
  /\ unlocked' = TRUE
  /\ Stop
  /\ UNCHANGED <<disk, vault, state>>

\* Services are stopped and the files in RAM shredded one by one, as far as the
\* tool and shred get: of some there may be left all, or junk.
PurgeRam ==
  /\ pc = "idle"
  /\ \E left \in SUBSET {n \in Held(ram) : \E f \in Fragile : n = RamName(f)} :
     \E worn \in SUBSET left :
       ram' = [n \in RamNames |-> IF n \notin left THEN None
                                  ELSE IF n \in worn THEN Junk ELSE ram[n]]
  /\ unlocked' = FALSE
  /\ UNCHANGED <<disk, vault, state, pc, archive, todo>>

\* unlock writes each file in place: stopped at one, it may leave it cut short,
\* the token in STATE_DIR before the one in RAM.
Torn ==
  LET f == SENSITIVE_FILES[todo] IN
  IF pc # "unpack" \/ archive[f] = None \/ f \notin Fragile THEN {<<ram, state>>}
  ELSE IF f = "sub_token"
    THEN {<<ram, state>>, <<ram, Junk>>, <<[ram EXCEPT ![f] = Junk], archive[f]>>}
    ELSE {<<ram, state>>, <<[ram EXCEPT ![RamName(f)] = Junk], state>>}

\* The tool is interrupted, or raises: what it has written stays.
Killed ==
  /\ pc # "idle"
  /\ \E left \in Torn : ram' = left[1] /\ state' = left[2]
  /\ Stop
  /\ UNCHANGED <<disk, vault, unlocked>>

\* The tmpfs is lost and fortress-init restores what lies on disk.
Reboot ==
  /\ \E left \in Torn : state' = left[2]
  /\ RunInit([n \in RamNames |-> None], state')
  /\ unlocked' = FALSE
  /\ Stop
  /\ UNCHANGED <<disk, vault>>

Next ==
  \/ Rotate
  \/ LockBundle \/ WriteVault \/ Stage \/ ShredNext \/ ShredEnds \/ LockDone \/ Tidy
  \/ UnlockRead \/ UnpackNext \/ Restart
  \/ PurgeRam \/ Killed \/ Reboot

Spec == Init /\ [][Next]_vars

-----------------------------------------------------------------------------
\* Types; each place holds files only under the names its readers know.
TypeOK ==
  /\ disk \in Archives /\ ram \in [RamNames -> Content]
  /\ vault \in Archives /\ archive \in Archives
  /\ state \in Content
  /\ pc \in {"idle", "write", "stage", "shred", "unlink", "done", "unpack", "restart"}
  /\ todo \in 1 .. 9 /\ unlocked \in BOOLEAN

\* The files with no other place to live in: the token has STATE_DIR, and the
\* template is lost by a second lock (NothingLost).
Kept == Files \ {Template, "sub_token"}

Durable(S) == S \subseteq Whole(disk) \cup Whole(vault)

\* lock, unlock, purge-ram, reboots, kills and shreds that fail never destroy a file
\* for good: each is whole in plain text on disk or whole in the vault.
DurablyKept == Durable(Kept)

\* "Server secrets are backed up into vault.enc": no file is ever lost for good.
\* False of the code: lock, unlock, lock leaves the template in neither place.
NothingLost == Durable(Files \ {"sub_token"})

\* A plain text is overwritten or removed only when the vault in place holds the
\* same, whatever happened to the tool since it read the file.
ShredOnlyVaulted ==
  [][\A f \in Files : disk'[f] # disk[f] /\ disk[f] # Junk => vault[f] = disk[f]]_vars

\* "SUCCESS! Keys loaded directly into volatile RAM": after an unlock that came to
\* its end, whatever lay in RAM and on disk before it, each key is whole in RAM
\* until a lock, a purge or a reboot undoes it.
UnlockLoads == unlocked => Kept \subseteq Whole(ram)

\* "Zero plaintext private keys remain on disk": a lock that ends well leaves no
\* sensitive file in /etc/fortress.  False of the code once a shred fails.
NoPlaintextLeft == pc = "done" => Held(disk) = {}

\* "Never overwrite a newer rotation": a token once replaced is never again the
\* one in STATE_DIR.  False of the code: unlock brings the archived one back.
RotationSticks == [][state' >= state]_vars
=============================================================================
