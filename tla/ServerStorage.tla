---------------------------- MODULE ServerStorage ----------------------------
(***************************************************************************)
(* manage_server_vault.py as a whole: ServerVault beside the LUKS container *)
(* that the same tool creates (setup-luks), opens (open-luks and unlock),   *)
(* closes (close-luks and purge-ram) and reports on (status).               *)
(*                                                                         *)
(* The container is an image file, a mapped device while it is open, and a  *)
(* file system on it.  Each external command is a step that may fail and    *)
(* between any two of them the tool may be killed or the machine rebooted.  *)
(* The copy of vault.enc that set-up leaves in the container is only what   *)
(* makes the file system worth keeping: nothing here removes vault.enc, so  *)
(* that unlock never falls back on the copy.                               *)
(***************************************************************************)
EXTENDS ServerVault

CONSTANTS
  BlkidMisses,   \* blkid may fail on a device that has a file system
  OnePassphrase  \* the container is given the passphrase of the vault

ASSUME StorageAssumption ==
  BlkidMisses \in BOOLEAN /\ OnePassphrase \in BOOLEAN

VARIABLES
  image,    \* LUKS_IMAGE: "none", "raw" (allocated, no header) or "luks"
  pass,     \* its passphrase: the "vault"'s or an "other"
  fs,       \* on the device: "none", "ext4" or "data" (ext4 with files)
  dev,      \* LUKS_DEV: "absent", "mapped", or "mounted" at LUKS_MOUNT
  cmd,      \* the command at work on the container
  step      \* the external command it runs next

container   == <<image, pass, fs, dev>>
storage     == <<image, pass, fs, dev, cmd, step>>
storageVars == <<vars, storage>>

StorageInit ==
  /\ Init
  /\ image = "none" /\ pass = "other" /\ fs = "none" /\ dev = "absent"
  /\ cmd = "none" /\ step = "idle"

Quiet == pc = "idle" /\ step = "idle"
Go(s) == step' = s /\ UNCHANGED cmd
End   == step' = "idle" /\ cmd' = "none"

-----------------------------------------------------------------------------
\* setup-luks: a fresh image is allocated; one that exists is opened if need be.
Setup ==
  /\ Quiet
  /\ \/ image = "none" /\ cmd' = "create" /\ step' = "allocate"
     \/ image # "none" /\ cmd' = "setup" /\ step' = IF dev = "absent" THEN "open" ELSE "probe"
  /\ UNCHANGED <<vars, container>>

\* fallocate creates the file first: out of space, it leaves one that is too short.
Allocate ==
  /\ step = "allocate"
  /\ image' = "raw"
  /\ Go("format") \/ End
  /\ UNCHANGED <<vars, pass, fs, dev>>

\* luksFormat: its failure removes the image.
Format ==
  /\ step = "format"
  /\ \/ /\ image' = "luks" /\ fs' = "none" /\ Go("open")
        /\ pass' \in IF OnePassphrase THEN {"vault"} ELSE {"vault", "other"}
     \/ image' = "none" /\ UNCHANGED <<pass, fs>> /\ End
  /\ UNCHANGED <<vars, dev>>

\* cryptsetup open, with the passphrase typed for this command; its failure raises.
Open ==
  /\ step = "open"
  /\ \/ /\ image = "luks" /\ (cmd = "unlock" => pass = "vault")
        /\ dev' = "mapped"
        /\ \/ cmd = "create" /\ Go("mkfs")
           \/ cmd = "setup" /\ Go("probe")
           \/ cmd \in {"open", "unlock"} /\ Go("mount")
     \/ UNCHANGED dev /\ End
  /\ UNCHANGED <<vars, image, pass, fs>>

\* Mutant: needs_format keeps its first value.
Probe_Always ==
  /\ step = "probe"
  /\ Go("mkfs")
  /\ UNCHANGED <<vars, container>>

\* blkid: whatever goes wrong counts as "needs a file system".
Probe ==
  /\ step = "probe"
  /\ \/ (fs = "none" \/ BlkidMisses) /\ Go("mkfs")
     \/ fs # "none" /\ Go("mount")
  /\ UNCHANGED <<vars, container>>

\* mkfs.ext4 refuses a mounted device; check=True ends the tool then.
Mkfs ==
  /\ step = "mkfs"
  /\ \/ dev = "mapped" /\ fs' = "ext4" /\ Go("mount")
     \/ UNCHANGED fs /\ End
  /\ UNCHANGED <<vars, image, pass, dev>>

\* A device already mounted stays so.  set-up stops when mount fails; open-luks and
\* unlock swallow that, and mount only what blkid calls ext4.
Mount ==
  /\ step = "mount"
  /\ \/ /\ fs # "none" /\ dev' = "mounted"
        /\ Go(IF cmd \in {"create", "setup"} THEN "fill" ELSE "opened")
     \/ UNCHANGED dev /\ IF cmd \in {"create", "setup"} THEN End ELSE Go("opened")
  /\ UNCHANGED <<vars, image, pass, fs>>

\* Three directories, and a copy of vault.enc if there is one.
Fill ==
  /\ step = "fill"
  /\ fs' = IF vault # NoVault THEN "data" ELSE fs
  /\ End
  /\ UNCHANGED <<vars, image, pass, dev>>

\* The operator and the services put files there.
Store ==
  /\ dev = "mounted" /\ fs' = "data"
  /\ UNCHANGED <<vars, image, pass, dev, cmd, step>>

-----------------------------------------------------------------------------
\* open-luks, and the beginning of unlock: a device already mapped is not opened.
OpenLuks ==
  /\ Quiet /\ image # "none"
  /\ cmd' \in {"open", "unlock"}
  /\ step' = IF dev = "absent" THEN "open" ELSE "mount"
  /\ UNCHANGED <<vars, container>>

\* unlock goes on to the vault once open_luks has returned.
Unlock ==
  /\ IF image = "none" THEN step = "idle" ELSE step = "opened" /\ cmd = "unlock"
  /\ UnlockRead
  /\ End /\ UNCHANGED container

\* purge-ram: the container is closed after the keys are wiped.
Purge ==
  /\ step = "idle"
  /\ PurgeRam
  /\ IF image = "none" THEN UNCHANGED <<cmd, step>> ELSE cmd' = "purge" /\ step' = "umount"
  /\ UNCHANGED container

CloseLuks ==
  /\ Quiet
  /\ cmd' = "close" /\ step' = "umount"
  /\ UNCHANGED <<vars, container>>

\* umount, whose failure (somebody uses the mount) is ignored.
Umount ==
  /\ step = "umount"
  /\ \/ dev = "mounted" /\ dev' = "mapped"
     \/ UNCHANGED dev
  /\ Go("close")
  /\ UNCHANGED <<vars, image, pass, fs>>

\* cryptsetup close always fails on a mounted device, and may fail on any other
\* (something else holds it, the tool is missing): that is ignored as well.
Close ==
  /\ step = "close"
  /\ \/ dev # "mounted" /\ dev' = "absent"
     \/ UNCHANGED dev
  /\ Go("closed")
  /\ UNCHANGED <<vars, image, pass, fs>>

\* The tool ends: at its last step, by an error, or killed.
Ends ==
  /\ step # "idle" /\ End
  /\ UNCHANGED <<vars, container>>

-----------------------------------------------------------------------------
\* The rest of ServerVault, while no command is at work on the container.
VaultStep ==
  /\ step = "idle"
  /\ \/ LockBundle \/ WriteVault \/ Stage \/ ShredNext \/ ShredEnds \/ LockDone \/ Tidy
     \/ UnpackNext \/ Restart \/ Killed
  /\ UNCHANGED storage

Rotation == Rotate /\ UNCHANGED storage

\* The mapping and the mount are gone after a boot; nothing opens them again.
Boot ==
  /\ Reboot
  /\ dev' = "absent" /\ End
  /\ UNCHANGED <<image, pass, fs>>

StorageNext ==
  \/ Setup \/ Allocate \/ Format \/ Open \/ Probe \/ Mkfs \/ Mount \/ Fill \/ Store
  \/ OpenLuks \/ Unlock \/ Purge \/ CloseLuks \/ Umount \/ Close \/ Ends
  \/ VaultStep \/ Rotation \/ Boot

StorageSpec == StorageInit /\ [][StorageNext]_storageVars

-----------------------------------------------------------------------------
\* Mutant: the plain text on disk is not looked for.
Banner_NoPlain ==
  LET memory == Held(ram) \cap Files # {} IN
  CASE dev # "absent" /\ memory  -> "maximum"
    [] vault # NoVault /\ memory -> "volatile"
    [] ~ memory                 -> "cold"
    [] OTHER                    -> "standard"

\* The last line of get_status.  It looks in RAM for the names on disk.
Banner ==
  LET memory == Held(ram) \cap Files # {}
      clean  == Held(disk) = {} IN
  CASE dev # "absent" /\ clean /\ memory   -> "maximum"
    [] vault # NoVault /\ clean /\ memory  -> "volatile"
    [] ~ memory                           -> "cold"
    [] OTHER                              -> "standard"

\* Types, and what the kernel sees to: a mapped device is a formatted container, a
\* mounted one has a file system.
StorageTypeOK ==
  /\ TypeOK
  /\ image \in {"none", "raw", "luks"} /\ fs \in {"none", "ext4", "data"}
  /\ pass \in {"vault", "other"} /\ dev \in {"absent", "mapped", "mounted"}
  /\ cmd \in {"none", "create", "setup", "open", "unlock", "purge", "close"}
  /\ step \in {"idle", "allocate", "format", "open", "probe", "mkfs", "mount",
               "fill", "opened", "umount", "close", "closed"}
  /\ dev # "absent" => image = "luks"
  /\ dev = "mounted" => fs # "none"

\* set-up run again, after any interruption of itself or of anything else, never
\* formats a container that holds files (with a blkid that finds them).
DataKept == [][fs = "data" => fs' = "data"]_storageVars

\* "purge-ram ... unmounts storage, and locks the LUKS2 container": when closing
\* ends, the key is out of the kernel.  False of the code: umount and cryptsetup
\* close may each fail, and "closed and locked" is printed all the same.
ColdLocked == step = "closed" => dev = "absent"

\* A status line that calls the server protected (keys in RAM only) is never
\* shown while a reboot would lose a key: each is whole in the vault.
BannerHonest == Banner \in {"maximum", "volatile"} => Kept \subseteq Whole(vault)

\* "Seamlessly open the LUKS2 volume, unpack credentials": with a vault in place,
\* unlock can always get to it.  False of the code: an image that set-up left
\* without a header, or that has another passphrase, fails before the vault is read.
UnlockReaches ==
  Quiet /\ vault # NoVault => image = "none" \/ dev # "absent" \/ (image = "luks" /\ pass = "vault")
=============================================================================
