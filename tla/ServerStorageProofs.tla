------------------------- MODULE ServerStorageProofs -------------------------
(***************************************************************************)
(* Three facts of ServerVault, for any number of rotations and whichever   *)
(* shreds fail: a plain text is destroyed only when the vault holds the    *)
(* same; an operator who is careful and tidy never loses a file for good;  *)
(* and what he unlocks is in RAM.  What the container adds leaves them as  *)
(* they are; and the container's own: its files survive every set-up, the  *)
(* status line promises nothing untrue.                                    *)
(***************************************************************************)
EXTENDS ServerStorage, TLAPS

LEMMA Names ==
  /\ "sub_token" \in RamNames /\ "sub_token" \in Files /\ "sub_token" \notin Kept
  /\ "key.pem" \in Kept /\ Kept \subseteq Files /\ Template \notin Kept
  /\ \A f \in Files : RamName(f) \in RamNames
  /\ \A f \in Kept : f \in RamNames /\ RamName(f) = f /\ f # "config.json"
  /\ \A i \in 1 .. 9 : SENSITIVE_FILES[i] \in Files
<1>1. "sub_token" = SENSITIVE_FILES[9] /\ "key.pem" = SENSITIVE_FILES[1]
  BY DEF SENSITIVE_FILES
<1>2. "config.json" \notin Files
  BY DEF Files, SENSITIVE_FILES
<1>3. \A f \in Kept : f \in Files /\ f # Template
  BY DEF Kept
<1> QED
  BY <1>1, <1>2, <1>3 DEF Files, RamNames, RamName, Kept, Template

LEMMA RunInitTypes ==
  ASSUME disk \in Archives, NEW before \in [RamNames -> Content], NEW token \in Content,
         RunInit(before, token)
  PROVE  ram' \in [RamNames -> Content]
<1>1. Template \in Files /\ \A n \in RamNames : n # "config.json" => n \in Files
  <2>1. Template = SENSITIVE_FILES[6]
    BY DEF SENSITIVE_FILES, Template
  <2> QED
    BY <2>1 DEF Files, RamNames, RamName
<1>2. Restored(before, token) \in [RamNames -> Content]
  BY <1>1 DEF Restored, Archives
<1> QED
  BY <1>2 DEF RunInit

LEMMA TornTypes ==
  ASSUME TypeOK, NEW left \in Torn
  PROVE  left[1] \in [RamNames -> Content] /\ left[2] \in Content
<1> DEFINE f == SENSITIVE_FILES[todo]
<1>1. f \in Files /\ archive[f] \in Content /\ Junk \in Content
  BY Names DEF TypeOK, Archives, Junk, Content
<1>2. CASE left = <<ram, state>>
  BY <1>2 DEF TypeOK
<1>3. CASE left = <<ram, Junk>>
  BY <1>1, <1>3 DEF TypeOK
<1>4. CASE f = "sub_token" /\ left = <<[ram EXCEPT ![f] = Junk], archive[f]>>
  BY <1>1, <1>4 DEF TypeOK
<1>5. CASE left = <<[ram EXCEPT ![RamName(f)] = Junk], state>>
  BY <1>1, <1>5 DEF TypeOK
<1> QED
  BY <1>2, <1>3, <1>4, <1>5 DEF Torn

LEMMA NoVaultTypes == NoVault \in Archives
BY DEF NoVault, Archives, Content, None

LEMMA VaultTypesInit == Init => TypeOK
<1> SUFFICES ASSUME Init PROVE TypeOK
  OBVIOUS
<1>1. disk \in Archives
  BY DEF Init, Archives, Content, None, Deployed
<1>2. ram \in [RamNames -> Content]
  BY DEF Init, Content, None, Deployed
<1>3. vault \in Archives /\ archive \in Archives
  BY NoVaultTypes DEF Init
<1>4. todo \in 1 .. 9 /\ state \in Content
  BY DEF Init, Content, Deployed
<1>5. unlocked \in BOOLEAN /\ pc = "idle"
  BY DEF Init
<1> QED
  BY <1>1, <1>2, <1>3, <1>4, <1>5 DEF TypeOK

LEMMA VaultTypesStep == TypeOK /\ [Next]_vars => TypeOK'
<1> SUFFICES ASSUME TypeOK, [Next]_vars PROVE TypeOK'
  OBVIOUS
<1>0. None \in Content /\ Junk \in Content
  BY DEF None, Junk, Content
<1>1. CASE Rotate
  <2>1. state' \in Content
    BY <1>1 DEF Rotate, Content
  <2>2. ram' \in [RamNames -> Content]
    BY <1>1, <2>1 DEF Rotate, TypeOK
  <2> QED
    BY <1>1, <2>1, <2>2 DEF Rotate, TypeOK
<1>2. CASE LockBundle
  <2>1. Bundle \in Archives
    BY DEF Bundle, Archives, TypeOK, None, Content
  <2> QED
    BY <1>2, <2>1 DEF LockBundle, TypeOK
<1>3. CASE WriteVault \/ UnlockRead
  BY <1>3 DEF WriteVault, UnlockRead, TypeOK
<1>4. CASE Stage
  <2>1. ram' \in [RamNames -> Content]
    BY <1>4, RunInitTypes DEF Stage, TypeOK
  <2> QED
    BY <1>4, <2>1 DEF Stage, TypeOK
<1>5. CASE ShredNext \/ ShredEnds
  <2>1. disk' \in Archives
    BY <1>0, <1>5 DEF ShredNext, ShredEnds, TypeOK, Archives
  <2>2. pc' \in {"shred", "unlink", "done"} /\ todo' \in 1 .. 9
    BY <1>5 DEF ShredNext, ShredEnds, NextFile, TypeOK
  <2> QED
    BY <1>5, <2>1, <2>2 DEF ShredNext, ShredEnds, TypeOK
<1>6. CASE LockDone
  BY <1>6, NoVaultTypes DEF LockDone, Stop, TypeOK
<1>7. CASE Tidy
  <2>1. disk' \in Archives
    BY <1>0, <1>7 DEF Tidy, TypeOK, Archives
  <2> QED
    BY <1>7, <2>1 DEF Tidy, TypeOK
<1>8. CASE UnpackNext
  <2>1. SENSITIVE_FILES[todo] \in Files
    BY Names DEF TypeOK
  <2>2. archive[SENSITIVE_FILES[todo]] \in Content
    BY <2>1 DEF TypeOK, Archives
  <2>3. ram' \in [RamNames -> Content] /\ state' \in Content
    BY <1>8, <2>2 DEF UnpackNext, TypeOK
  <2>4. pc' \in {"unpack", "restart"} /\ todo' \in 1 .. 9
    BY <1>8 DEF UnpackNext, NextFile, TypeOK
  <2> QED
    BY <1>8, <2>3, <2>4 DEF UnpackNext, TypeOK
<1>9. CASE Restart
  <2>1. ram' \in [RamNames -> Content]
    BY <1>9, RunInitTypes DEF Restart, TypeOK
  <2> QED
    BY <1>9, <2>1, NoVaultTypes DEF Restart, Stop, TypeOK
<1>10. CASE PurgeRam
  <2>1. ram' \in [RamNames -> Content]
    BY <1>0, <1>10 DEF PurgeRam, TypeOK
  <2> QED
    BY <1>10, <2>1 DEF PurgeRam, TypeOK
<1>11. CASE Killed
  <2>1. ram' \in [RamNames -> Content] /\ state' \in Content
    BY <1>11, TornTypes DEF Killed
  <2> QED
    BY <1>11, <2>1, NoVaultTypes DEF Killed, Stop, TypeOK
<1>12. CASE Reboot
  <2>1. state' \in Content
    BY <1>12, TornTypes DEF Reboot
  <2>2. [n \in RamNames |-> None] \in [RamNames -> Content]
    BY <1>0
  <2>3. ram' \in [RamNames -> Content]
    BY <1>12, <2>1, <2>2, RunInitTypes DEF Reboot, TypeOK
  <2>4. /\ pc' = "idle" /\ archive' = NoVault /\ todo' = 1 /\ unlocked' = FALSE
        /\ UNCHANGED <<disk, vault>>
    BY <1>12 DEF Reboot, Stop
  <2>5. disk' \in Archives /\ vault' \in Archives /\ archive' \in Archives /\ todo' \in 1 .. 9
    BY <2>4, NoVaultTypes DEF TypeOK
  <2>6. unlocked' \in BOOLEAN
    BY <2>4
  <2> QED
    BY <2>1, <2>3, <2>4, <2>5, <2>6 DEF TypeOK
<1>13. CASE UNCHANGED vars
  BY <1>13 DEF vars, TypeOK
<1> QED
  BY <1>1, <1>2, <1>3, <1>4, <1>5, <1>6, <1>7, <1>8, <1>9, <1>10, <1>11, <1>12, <1>13 DEF Next

-----------------------------------------------------------------------------
\* What is on disk is in the archive that is going to replace the vault, and, until
\* it is shredded, in the vault that has replaced it.
Vaulted ==
  /\ pc = "write" => \A f \in Files : disk[f] # None => archive[f] = disk[f]
  /\ pc \in {"stage", "shred", "unlink"} =>
       \A f \in Files : disk[f] \notin {None, Junk} => vault[f] = disk[f]

LEMMA VaultedInit == Init => Vaulted
  BY DEF Init, Vaulted

LEMMA VaultedStep == TypeOK /\ Vaulted /\ [Next]_vars => Vaulted'
<1> SUFFICES ASSUME TypeOK, Vaulted, [Next]_vars PROVE Vaulted'
  OBVIOUS
<1>1. CASE Rotate
  BY <1>1 DEF Rotate, Vaulted
<1>2. CASE LockBundle
  BY <1>2 DEF LockBundle, Bundle, Vaulted
<1>3. CASE WriteVault
  BY <1>3 DEF WriteVault, Vaulted
<1>4. CASE Stage
  BY <1>4 DEF Stage, Vaulted
<1>5. CASE ShredNext \/ ShredEnds
  <2>1. \A f \in Files : disk'[f] = disk[f] \/ disk'[f] \in {None, Junk}
    BY <1>5 DEF ShredNext, ShredEnds, TypeOK, Archives
  <2>2. pc' \in {"shred", "unlink", "done"} /\ pc \in {"shred", "unlink"} /\ UNCHANGED vault
    BY <1>5 DEF ShredNext, ShredEnds, NextFile
  <2> QED
    BY <2>1, <2>2 DEF Vaulted
<1>6. CASE LockDone \/ Killed \/ Reboot \/ Restart
  BY <1>6 DEF LockDone, Killed, Reboot, Restart, Stop, Vaulted
<1>7. CASE UnlockRead
  BY <1>7 DEF UnlockRead, Vaulted
<1>8. CASE UnpackNext
  BY <1>8 DEF UnpackNext, NextFile, Vaulted
<1>9. CASE PurgeRam \/ Tidy
  BY <1>9 DEF PurgeRam, Tidy, Vaulted
<1>10. CASE UNCHANGED vars
  BY <1>10 DEF vars, Vaulted
<1> QED
  BY <1>1, <1>2, <1>3, <1>4, <1>5, <1>6, <1>7, <1>8, <1>9, <1>10 DEF Next

\* A file in /etc/fortress is destroyed only when the vault in place holds the same
\* content: secure_shred runs after temp_vault.replace, over what was bundled.
THEOREM ShredsAfterVaulting == Spec => ShredOnlyVaulted
<1> DEFINE Guarded ==
      \A f \in Files : disk'[f] # disk[f] /\ disk[f] # Junk => vault[f] = disk[f]
<1>1. ASSUME TypeOK, Vaulted, [Next]_vars
      PROVE  [Guarded]_vars
  <2>1. CASE ShredNext
    <3> SUFFICES ASSUME NEW f \in Files, disk'[f] # disk[f], disk[f] # Junk
                 PROVE  vault[f] = disk[f]
      OBVIOUS
    <3>1. disk[f] # None
      BY <1>1, <2>1 DEF ShredNext, TypeOK, Archives
    <3> QED
      BY <1>1, <2>1, <3>1 DEF ShredNext, Vaulted
  <2>2. CASE ShredEnds
    <3> SUFFICES ASSUME NEW f \in Files, disk'[f] # disk[f], disk[f] # Junk
                 PROVE  vault[f] = disk[f]
      OBVIOUS
    <3>1. disk[f] # None
      BY <1>1, <2>2 DEF ShredEnds, TypeOK, Archives
    <3> QED
      BY <1>1, <2>2, <3>1 DEF ShredEnds, Vaulted
  <2>3. CASE Tidy
    BY <1>1, <2>3 DEF Tidy, TypeOK, Archives
  <2>4. CASE UNCHANGED disk
    BY <2>4
  <2> QED
    BY <1>1, <2>1, <2>2, <2>3, <2>4 DEF Next, vars, Rotate, LockBundle, WriteVault, Stage,
       LockDone, UnlockRead, UnpackNext, Restart, PurgeRam, Killed, Reboot
<1> QED
  BY VaultTypesInit, VaultTypesStep, VaultedInit, VaultedStep, <1>1, PTL
     DEF Spec, ShredOnlyVaulted

-----------------------------------------------------------------------------
\* Before the first vault everything is whole on disk, from then on in the vault; and
\* an unlock on its way has brought to RAM what it has been through.
Recoverable ==
  /\ IF vault = NoVault THEN Kept \subseteq Whole(disk) ELSE Kept \subseteq Whole(vault)
  /\ pc = "write" => Kept \subseteq Whole(archive)
  /\ pc \in {"unpack", "restart"} => archive = vault /\ vault # NoVault
  /\ pc \in {"stage", "shred", "unlink"} => vault # NoVault
  /\ pc \in {"stage", "unpack"} => ~ unlocked
  /\ pc \in {"unpack", "restart"} => NoJunk
  /\ pc = "unpack" =>
       \A i \in 1 .. todo - 1 :
         SENSITIVE_FILES[i] \in Kept => SENSITIVE_FILES[i] \in Whole(ram)
  /\ pc = "restart" \/ unlocked => Kept \subseteq Whole(ram)
  /\ pc \in {"idle", "write", "stage"} => todo = 1

IInv == TypeOK /\ Recoverable

\* Membership in Whole, for places of either kind.
LEMMA WholeFile ==
  /\ \A p \in Archives, f \in Kept : f \in Whole(p) <=> p[f] \notin {None, Junk}
  /\ \A p \in [RamNames -> Content], f \in Kept : f \in Whole(p) <=> p[f] \notin {None, Junk}
BY Names DEF Whole, Archives

LEMMA NoVaultHolds == ~ (Kept \subseteq Whole(NoVault))
BY Names, NoVaultTypes, WholeFile DEF NoVault

LEMMA RecoverableInit == Init => IInv
<1> SUFFICES ASSUME Init PROVE IInv
  OBVIOUS
<1>1. Kept \subseteq Whole(disk)
  BY Names DEF Init, Whole, Deployed, None, Junk, Kept
<1>2. Recoverable
  BY <1>1 DEF Init, Recoverable
<1> QED
  BY <1>2, VaultTypesInit DEF IInv

\* The boot script leaves whole in RAM what it finds whole there, unless junk on disk
\* takes its place.
LEMMA RunInitKeeps ==
  ASSUME disk \in Archives, ram \in [RamNames -> Content], RunInit(ram, state),
         \A f \in Files : disk[f] # Junk, Kept \subseteq Whole(ram)
  PROVE  Kept \subseteq Whole(ram')
<1>1. CASE ram' = ram
  BY <1>1
<1>2. CASE ram' = Restored(ram, state)
  <2> SUFFICES ASSUME NEW f \in Kept PROVE f \in Whole(ram')
    OBVIOUS
  <2>1. f \in RamNames /\ f \in Files /\ f # "sub_token" /\ f # "config.json"
    BY Names
  <2>2. ram'[f] = IF f # "ca.key" /\ disk[f] # None THEN disk[f] ELSE ram[f]
    BY <1>2, <2>1 DEF Restored
  <2>3. ram'[f] \notin {None, Junk}
    BY <2>1, <2>2, WholeFile
  <2>4. DOMAIN ram' = RamNames
    BY <1>2 DEF Restored
  <2> QED
    BY <2>1, <2>3, <2>4 DEF Whole
<1> QED
  BY <1>1, <1>2 DEF RunInit

\* The loop of unlock has copied what lies before it.
LEMMA UnpackStep ==
  ASSUME IInv, UnpackNext
  PROVE  Recoverable'
<1> DEFINE f == SENSITIVE_FILES[todo]
<1>0. TypeOK /\ TypeOK'
  BY VaultTypesStep DEF IInv, Next
<1>1. /\ pc = "unpack" /\ todo \in 1 .. 9 /\ f \in Files
      /\ UNCHANGED <<disk, vault, archive, unlocked>>
      /\ ~ unlocked /\ NoJunk /\ vault # NoVault /\ archive = vault /\ Kept \subseteq Whole(vault)
  BY <1>0, Names DEF UnpackNext, IInv, Recoverable, TypeOK
<1>2. f \in Kept => f \in Whole(ram')
  <2> SUFFICES ASSUME f \in Kept PROVE f \in Whole(ram')
    OBVIOUS
  <2>1. archive[f] \notin {None, Junk} /\ RamName(f) = f /\ f \in RamNames
    BY <1>0, <1>1, Names, WholeFile DEF TypeOK
  <2>2. ram'[f] = archive[f]
    BY <1>0, <2>1 DEF UnpackNext, TypeOK
  <2> QED
    BY <1>0, <2>1, <2>2, WholeFile DEF TypeOK
<1>3. \A g \in Kept : g # f /\ g \in Whole(ram) => g \in Whole(ram')
  <2> SUFFICES ASSUME NEW g \in Kept, g # f, g \in Whole(ram) PROVE g \in Whole(ram')
    OBVIOUS
  <2>1. RamName(f) # g
    BY Names DEF RamName
  <2>2. ram'[g] = ram[g]
    BY <1>0, <2>1, Names DEF UnpackNext, TypeOK
  <2> QED
    BY <1>0, <2>2, WholeFile DEF TypeOK
<1>4. \A i \in 1 .. todo : SENSITIVE_FILES[i] \in Kept => SENSITIVE_FILES[i] \in Whole(ram')
  BY <1>1, <1>2, <1>3 DEF IInv, Recoverable
<1>5. CASE todo = 9
  <2>1. pc' = "restart"
    BY <1>5 DEF UnpackNext, NextFile
  <2>2. Kept \subseteq Whole(ram')
    BY <1>4, <1>5, Names DEF Files
  <2> QED
    BY <1>1, <2>1, <2>2 DEF Recoverable, NoJunk
<1>6. CASE todo # 9
  <2>1. pc' = "unpack" /\ todo' = todo + 1
    BY <1>6 DEF UnpackNext, NextFile
  <2>2. \A i \in 1 .. todo' - 1 :
          SENSITIVE_FILES[i] \in Kept => SENSITIVE_FILES[i] \in Whole(ram')
    BY <1>1, <1>4, <2>1
  <2> QED
    BY <1>1, <2>1, <2>2 DEF Recoverable, NoJunk
<1> QED
  BY <1>5, <1>6

LEMMA RecoverableStep ==
  ASSUME Careful, Tidies, IInv, [Next]_vars
  PROVE  IInv'
<1>0. TypeOK /\ TypeOK'
  BY VaultTypesStep DEF IInv
<1> SUFFICES Recoverable'
  BY <1>0 DEF IInv
<1>1. Recoverable
  BY DEF IInv
<1>2. CASE Rotate
  <2>1. /\ UNCHANGED <<disk, vault, pc, archive, todo, unlocked>>
        /\ ram' \in {ram, [ram EXCEPT !["sub_token"] = state']}
    BY <1>2 DEF Rotate
  <2>2. \A f \in Kept : f \in Whole(ram) => f \in Whole(ram')
    BY <1>0, <2>1, WholeFile, Names DEF TypeOK
  <2> QED
    BY <1>1, <2>1, <2>2 DEF Recoverable, NoJunk
<1>3. CASE LockBundle
  <2>1. \A f \in Files : disk[f] # Junk
    BY <1>3 DEF LockBundle, NoJunk
  <2>2. Kept \subseteq Whole(disk) \/ Kept \subseteq Whole(ram)
    BY <1>1, <1>3 DEF LockBundle, Recoverable
  <2>3. \A f \in Kept : Bundle[f] \notin {None, Junk}
    <3> SUFFICES ASSUME NEW f \in Kept PROVE Bundle[f] \notin {None, Junk}
      OBVIOUS
    <3>1. f \in Files /\ f \in RamNames
      BY Names
    <3>2. disk[f] \notin {None, Junk} \/ ram[f] \notin {None, Junk}
      BY <1>0, <2>2, WholeFile DEF TypeOK
    <3> QED
      BY <2>1, <3>1, <3>2 DEF Bundle
  <2>4. Kept \subseteq Whole(archive')
    BY <1>0, <1>3, <2>3, WholeFile DEF LockBundle, TypeOK
  <2> QED
    BY <1>1, <1>3, <2>4 DEF LockBundle, Recoverable
<1>4. CASE WriteVault
  <2>1. Kept \subseteq Whole(vault') /\ vault' # NoVault
    BY <1>1, <1>4, NoVaultHolds DEF WriteVault, Recoverable
  <2> QED
    BY <1>1, <1>4, <2>1 DEF WriteVault, Recoverable
<1>5. CASE Stage
  BY <1>1, <1>5 DEF Stage, Recoverable
<1>6. CASE ShredNext \/ ShredEnds
  <2>1. vault # NoVault /\ pc' \in {"shred", "unlink", "done"}
    BY <1>1, <1>6 DEF ShredNext, ShredEnds, NextFile, Recoverable
  <2>2. UNCHANGED <<ram, vault, archive, unlocked>>
    BY <1>6 DEF ShredNext, ShredEnds
  <2> QED
    BY <1>1, <2>1, <2>2 DEF Recoverable
<1>7. CASE LockDone
  BY <1>1, <1>7 DEF LockDone, Stop, Recoverable
<1>8. CASE Tidy
  <2>1. Kept \subseteq Whole(disk) => Kept \subseteq Whole(disk')
    BY <1>0, <1>8, WholeFile, Names DEF Tidy, TypeOK
  <2> QED
    BY <1>1, <1>8, <2>1 DEF Tidy, Recoverable
<1>9. CASE UnlockRead
  BY <1>1, <1>9 DEF UnlockRead, Recoverable, NoJunk
<1>10. CASE UnpackNext
  BY <1>10, UnpackStep
<1>11. CASE Restart
  <2>1. Kept \subseteq Whole(ram')
    BY <1>0, <1>1, <1>11, RunInitKeeps DEF Restart, Recoverable, NoJunk, TypeOK
  <2> QED
    BY <1>1, <1>11, <2>1 DEF Restart, Stop, Recoverable
<1>12. CASE PurgeRam
  BY <1>1, <1>12 DEF PurgeRam, Recoverable
<1>13. CASE Killed
  <2>1. unlocked => ram' = ram
    BY <1>1, <1>13 DEF Killed, Torn, Recoverable
  <2> QED
    BY <1>1, <1>13, <2>1 DEF Killed, Stop, Recoverable
<1>14. CASE Reboot
  BY <1>1, <1>14 DEF Reboot, Stop, Recoverable
<1>15. CASE UNCHANGED vars
  BY <1>1, <1>15 DEF vars, Recoverable, NoJunk
<1> QED
  BY <1>2, <1>3, <1>4, <1>5, <1>6, <1>7, <1>8, <1>9, <1>10, <1>11, <1>12,
     <1>13, <1>14, <1>15 DEF Next

\* An operator who locks again only after a completed unlock, and first removes what an
\* interrupted or failed shred has left, never loses a file for good, wherever the
\* tool or the machine stops in between.
THEOREM CarefulKeepsAll == Careful /\ Tidies => (Spec => []DurablyKept)
<1> SUFFICES ASSUME Careful, Tidies PROVE Spec => []DurablyKept
  OBVIOUS
<1>1. IInv => DurablyKept
  BY DEF IInv, Recoverable, DurablyKept, Durable
<1> QED
  BY <1>1, RecoverableInit, RecoverableStep, PTL DEF Spec

\* Once his unlock has succeeded (unlock_vault) each key is whole in RAM, whatever an
\* interrupted unlock or purge had left there.
THEOREM CarefulUnlocks == Careful /\ Tidies => (Spec => []UnlockLoads)
<1> SUFFICES ASSUME Careful, Tidies PROVE Spec => []UnlockLoads
  OBVIOUS
<1>1. IInv => UnlockLoads
  BY DEF IInv, Recoverable, UnlockLoads
<1> QED
  BY <1>1, RecoverableInit, RecoverableStep, PTL DEF Spec

-----------------------------------------------------------------------------
(* The container beside the vault.                                          *)

LEMMA EachStepOfTheVault == [StorageNext]_storageVars => [Next]_vars
<1> SUFFICES ASSUME [StorageNext]_storageVars PROVE [Next]_vars
  OBVIOUS
<1>1. CASE VaultStep
  BY <1>1 DEF VaultStep, Next
<1>2. CASE Rotation \/ Boot \/ Unlock \/ Purge
  BY <1>2 DEF Rotation, Boot, Unlock, Purge, Next
<1>3. CASE Setup \/ Allocate \/ Format \/ Open \/ Probe \/ Mkfs \/ Mount \/ Fill
  BY <1>3 DEF Setup, Allocate, Format, Open, Probe, Mkfs, Mount, Fill
<1>4. CASE Store \/ OpenLuks \/ CloseLuks \/ Umount \/ Close \/ Ends
  BY <1>4 DEF Store, OpenLuks, CloseLuks, Umount, Close, Ends
<1>5. CASE UNCHANGED storageVars
  BY <1>5 DEF storageVars
<1> QED
  BY <1>1, <1>2, <1>3, <1>4, <1>5 DEF StorageNext

\* The tool with its container is an implementation of ServerVault: no command on
\* the container reads or writes what lock, unlock and purge-ram work on.
THEOREM StorageIsVault == StorageSpec => Spec
<1>1. StorageInit => Init
  BY DEF StorageInit
<1> QED
  BY <1>1, EachStepOfTheVault, PTL DEF StorageSpec, Spec

\* Hence, beside the container commands too, no plain text is shredded before the
\* vault in place holds it (secure_shred).
THEOREM StorageShredsVaulted == StorageSpec => ShredOnlyVaulted
BY StorageIsVault, ShredsAfterVaulting, PTL

\* Nor does a careful and tidy operator lose a key for good (lock_vault, unlock_vault).
THEOREM StorageKeepsKeys == Careful /\ Tidies => (StorageSpec => []DurablyKept)
BY CarefulKeepsAll, StorageIsVault, PTL

\* And his unlock, past whatever open_luks has done, brings every key to RAM.
THEOREM StorageUnlocks == Careful /\ Tidies => (StorageSpec => []UnlockLoads)
BY CarefulUnlocks, StorageIsVault, PTL

-----------------------------------------------------------------------------
\* Where a command on the container has got to, and what it found there.
Stages ==
  /\ step = "allocate" => image = "none"
  /\ step = "format" => image = "raw"
  /\ image # "luks" => fs = "none"
  /\ step = "open" /\ cmd = "create" => fs = "none"
  /\ step = "fill" => dev = "mounted"
  /\ ~ BlkidMisses /\ step = "mkfs" => fs = "none"

StorageInv == StorageTypeOK /\ Stages

LEMMA StorageInvInit == StorageInit => StorageInv
BY VaultTypesInit DEF StorageInit, StorageInv, StorageTypeOK, Stages

LEMMA StorageInvStep == StorageInv /\ [StorageNext]_storageVars => StorageInv'
<1> SUFFICES ASSUME StorageInv, [StorageNext]_storageVars PROVE StorageInv'
  OBVIOUS
<1>0. TypeOK'
  BY VaultTypesStep, EachStepOfTheVault DEF StorageInv, StorageTypeOK
<1> USE <1>0, StorageAssumption
    DEF StorageInv, StorageTypeOK, Stages, Go, End, Quiet, container, storage
<1>1. CASE Setup
  BY <1>1 DEF Setup
<1>2. CASE Allocate
  BY <1>2 DEF Allocate
<1>3. CASE Format
  BY <1>3 DEF Format
<1>4. CASE Open
  BY <1>4 DEF Open
<1>5. CASE Probe
  BY <1>5 DEF Probe
<1>6. CASE Mkfs
  BY <1>6 DEF Mkfs
<1>7. CASE Mount
  BY <1>7 DEF Mount
<1>8. CASE Fill \/ Store
  BY <1>8 DEF Fill, Store
<1>9. CASE OpenLuks
  BY <1>9 DEF OpenLuks
<1>10. CASE Unlock \/ Purge \/ CloseLuks
  BY <1>10 DEF Unlock, Purge, CloseLuks
<1>11. CASE Umount
  BY <1>11 DEF Umount
<1>12. CASE Close
  BY <1>12 DEF Close
<1>13. CASE Ends
  BY <1>13 DEF Ends
<1>14. CASE VaultStep \/ Rotation
  BY <1>14 DEF VaultStep, Rotation
<1>15. CASE Boot
  BY <1>15 DEF Boot
<1>16. CASE UNCHANGED storageVars
  BY <1>16 DEF storageVars
<1> QED
  BY <1>1, <1>2, <1>3, <1>4, <1>5, <1>6, <1>7, <1>8, <1>9, <1>10, <1>11, <1>12,
     <1>13, <1>14, <1>15, <1>16 DEF StorageNext

\* Types are kept: whichever commands fail, a mapped device is a formatted container
\* and only one with a file system is mounted.
THEOREM StorageSafe == StorageSpec => []StorageTypeOK
<1>1. StorageInv => StorageTypeOK
  BY DEF StorageInv
<1> QED
  BY <1>1, StorageInvInit, StorageInvStep, PTL DEF StorageSpec

\* No command, interrupted or repeated in any order, formats a container that holds
\* files (setup_luks), as long as blkid finds the file system that is there.
THEOREM ContainerFilesKept == ~ BlkidMisses => (StorageSpec => DataKept)
<1> SUFFICES ASSUME ~ BlkidMisses PROVE StorageSpec => DataKept
  OBVIOUS
<1>1. StorageInv /\ [StorageNext]_storageVars => [fs = "data" => fs' = "data"]_storageVars
  <2> SUFFICES ASSUME StorageInv, StorageNext, fs = "data" PROVE fs' = "data"
    OBVIOUS
  <2> USE DEF StorageInv, StorageTypeOK, Stages, container, storage
  <2>1. CASE Setup \/ Allocate \/ Format \/ Open \/ Probe \/ Mkfs \/ Mount \/ Fill
    BY <2>1 DEF Setup, Allocate, Format, Open, Probe, Mkfs, Mount, Fill
  <2>2. CASE Store \/ OpenLuks \/ Unlock \/ Purge \/ CloseLuks \/ Umount \/ Close \/ Ends
    BY <2>2 DEF Store, OpenLuks, Unlock, Purge, CloseLuks, Umount, Close, Ends
  <2>3. CASE VaultStep \/ Rotation \/ Boot
    BY <2>3 DEF VaultStep, Rotation, Boot
  <2> QED
    BY <2>1, <2>2, <2>3 DEF StorageNext
<1> QED
  BY <1>1, StorageInvInit, StorageInvStep, PTL DEF StorageSpec, DataKept

\* A careful and tidy operator is never shown a protected server (get_status) while a
\* reboot would lose one of its keys.
THEOREM StatusHonest == Careful /\ Tidies => (StorageSpec => []BannerHonest)
<1> SUFFICES ASSUME Careful, Tidies PROVE StorageSpec => []BannerHonest
  OBVIOUS
<1>1. DurablyKept => BannerHonest
  <2>1. Whole(disk) \subseteq Held(disk)
    BY DEF Whole, Held
  <2> QED
    BY <2>1 DEF DurablyKept, Durable, BannerHonest, Banner
<1> QED
  BY <1>1, StorageKeepsKeys, PTL
=============================================================================
