--------------------------- MODULE ClientVaultProofs ---------------------------
(***************************************************************************)
(* fortress_vault.py and install_client_bundle.py for any number of tools  *)
(* and versions.  Nothing is lost because, of all the tools that are at    *)
(* work, at most one may still remove its source (Removable): the source   *)
(* is what it has read, the destination has the same version, and while    *)
(* both files exist no other tool can publish one.                         *)
(***************************************************************************)
EXTENDS ClientVault, TLAPS

\* The tools that convert, as opposed to install and shred.
Converts(t) == op[t] \in {"lock", "unlock"}

\* A tool is only where its work takes it, and holds what it has read.
Conforms ==
  \A t \in Tools :
    /\ pc[t] \in {"read", "verify", "remove"} => Converts(t)
    /\ pc[t] \in Names \cup {"erased"} <=> op[t] = "shred"
    /\ pc[t] = "publish" => data[t] # Absent
    /\ pc[t] = "publish" /\ op[t] = "install" => data[t] >= 1

\* No file and no tool holds a version yet to come.
Known ==
  /\ \A f \in Names : file[f] <= versions
  /\ \A t \in Tools : data[t] <= versions
  /\ \A v \in live : v <= versions

\* A change of what a tool has read makes it stale.
Fresh ==
  \A t \in Tools :
    Converts(t) /\ pc[t] \in {"publish", "verify"} /\ ~ stale[t] => file[Source(t)] = data[t]

\* What shred has removed is gone until another tool makes it stale.
Erased ==
  \A t \in Tools :
    /\ pc[t] = "enc" /\ ~ stale[t] => ~ Exists("plain")
    /\ pc[t] = "erased" /\ ~ stale[t] => ~ Exists("plain") /\ ~ Exists("enc")

TypeInv == TypeOK /\ Conforms /\ Known /\ Fresh /\ Erased

\* A tool that may still remove its source.
Ready(t) == Converts(t) /\ (pc[t] = "remove" \/ (pc[t] = "verify" /\ ~ stale[t]))

\* It is the only one, its source is what it has read, and its destination has the
\* same version unless the user has replaced it.
Removable ==
  \A t \in Tools :
    Ready(t) =>
      /\ file[Source(t)] = data[t] /\ Exists(Destination(t))
      /\ data[t] \in live => file[Destination(t)] = data[t]
      /\ \A u \in Tools : Ready(u) => u = t

IInv == TypeInv /\ NothingLost /\ Removable

-----------------------------------------------------------------------------
LEMMA TypesInit == Init => TypeInv
<1> SUFFICES ASSUME Init PROVE TypeInv
  OBVIOUS
<1>1. file \in [Names -> {Absent, 1}]
  BY DEF Init, Names
<1> QED
  BY <1>1, ClientAssumption
     DEF Init, TypeInv, TypeOK, Conforms, Known, Fresh, Erased, Converts, Ops, Names, Absent

\* A tool that changes a file makes every other tool stale that read it or removes it.
LEMMA PutTypes ==
  ASSUME TypeOK, NEW f \in Names, NEW v \in -1 .. MaxVersions, NEW by, Put(f, v, by)
  PROVE  /\ file' \in [Names -> -1 .. MaxVersions] /\ stale' \in [Tools -> BOOLEAN]
         /\ file'[f] = v /\ \A g \in Names : g # f => file'[g] = file[g]
         /\ \A t \in Tools :
              /\ ~ stale'[t] => ~ stale[t]
              /\ t = by => stale'[t] = stale[t]
              /\ t # by /\ pc[t] # "idle" /\ (op[t] = "shred" \/ Source(t) = f) => stale'[t]
<1> DEFINE seen(t) == t # by /\ pc[t] # "idle" /\ (op[t] = "shred" \/ Source(t) = f)
<1>1. /\ file' = [file EXCEPT ![f] = v]
      /\ stale' = [t \in Tools |-> stale[t] \/ seen(t)]
  BY DEF Put
<1>2. file' \in [Names -> -1 .. MaxVersions]
      /\ file'[f] = v /\ \A g \in Names : g # f => file'[g] = file[g]
  BY <1>1 DEF TypeOK
<1> HIDE DEF seen
<1>3. \A t \in Tools : stale'[t] = (stale[t] \/ seen(t)) /\ stale'[t] \in BOOLEAN
  BY <1>1, Zenon DEF TypeOK
<1>4. \A t \in Tools : stale'[t] <=> (stale[t] \/ seen(t))
  BY <1>3
<1>5. stale' \in [Tools -> BOOLEAN]
  BY <1>1, <1>3, Zenon
<1> QED
  BY <1>2, <1>3, <1>4, <1>5 DEF seen, TypeOK

LEMMA TypesStep == TypeInv /\ [Next]_vars => TypeInv'
<1> SUFFICES ASSUME TypeInv, [Next]_vars PROVE TypeInv'
  OBVIOUS
<1> USE ClientAssumption DEF TypeInv, TypeOK, Conforms, Known, Fresh, Erased, Converts, Names,
                             Ops, Absent, Garbage, Goto, Exit, Exists
<1>1. CASE Save
  <2>1. Put("plain", versions + 1, Absent) /\ versions' = versions + 1
        /\ versions + 1 \in -1 .. MaxVersions
    BY <1>1 DEF Save
  <2>2. TypeOK'
    <3>1. file' \in [Names -> -1 .. MaxVersions] /\ stale' \in [Tools -> BOOLEAN]
      BY <2>1, PutTypes
    <3>2. versions' \in 1 .. MaxVersions
      BY <1>1 DEF Save
    <3>3. live' \subseteq live \cup {versions'}
      BY <1>1 DEF Save
    <3>4. live' \subseteq 1 .. MaxVersions
      BY <3>2, <3>3
    <3> QED
      BY <1>1, <3>1, <3>2, <3>4 DEF Save
  <2>3. Conforms' /\ Known'
    <3>1. \A f \in Names : file'[f] <= versions'
      BY <2>1, PutTypes
    <3>2. versions' >= versions /\ \A v \in live' : v <= versions'
      BY <1>1, <2>1 DEF Save
    <3> QED
      BY <1>1, <3>1, <3>2 DEF Save
  <2>4. Fresh' /\ Erased'
    BY <1>1, <2>1, PutTypes DEF Save, Source
  <2> QED
    BY <2>2, <2>3, <2>4
<1>2. ASSUME NEW t \in Tools, Start(t) PROVE TypeInv'
  BY <1>2 DEF Start, Source
<1>3. ASSUME NEW t \in Tools, Look(t) PROVE TypeInv'
  BY <1>3 DEF Look, Source
<1>4. ASSUME NEW t \in Tools, Read(t) PROVE TypeInv'
  BY <1>4 DEF Read, Source
<1>5. ASSUME NEW t \in Tools, LookInstall(t) PROVE TypeInv'
  BY <1>5 DEF LookInstall, Source
<1>6. ASSUME NEW t \in Tools, Publish(t) PROVE TypeInv'
  <2>1. /\ Put(Destination(t), data[t], t) /\ Destination(t) \in Names
        /\ data[t] \in -1 .. MaxVersions /\ pc[t] = "publish" /\ data[t] # Absent
        /\ file[Destination(t)] = Absent /\ versions' = versions
    BY <1>6 DEF Publish, Destination, Other
  <2>2. \/ Converts(t) /\ pc' = [pc EXCEPT ![t] = "verify"] /\ UNCHANGED <<live, op, data>>
        \/ op[t] = "install" /\ live' = live \cup {data[t]} /\ Exit(t)
    BY <1>6 DEF Publish
  <2>3. TypeOK' /\ Conforms'
    <3>1. file' \in [Names -> -1 .. MaxVersions] /\ stale' \in [Tools -> BOOLEAN]
      BY <2>1, PutTypes
    <3>2. CASE Converts(t) /\ pc' = [pc EXCEPT ![t] = "verify"] /\ UNCHANGED <<live, op, data>>
      BY <2>1, <3>1, <3>2
    <3>3. CASE op[t] = "install" /\ live' = live \cup {data[t]} /\ Exit(t)
      <4>1. data[t] \in 1 .. MaxVersions
        BY <2>1, <3>3
      <4>2. /\ pc' = [pc EXCEPT ![t] = "idle"] /\ op' = [op EXCEPT ![t] = "lock"]
            /\ data' = [data EXCEPT ![t] = Absent]
        BY <3>3
      <4>3. TypeOK'
        <5>1. live' \subseteq 1 .. MaxVersions
          BY <3>3, <4>1
        <5> QED
          BY <2>1, <3>1, <4>2, <5>1
      <4> QED
        BY <2>1, <3>3, <4>2, <4>3
    <3> QED
      BY <2>2, <3>2, <3>3
  <2>4. Known'
    <3>1. \A f \in Names : file'[f] <= versions'
      BY <2>1, PutTypes
    <3> QED
      BY <2>1, <2>2, <3>1
  <2>5. Fresh' /\ Erased'
    BY <2>1, <2>2, PutTypes DEF Source, Destination, Other
  <2> QED
    BY <2>3, <2>4, <2>5
<1>7. ASSUME NEW t \in Tools, Verify(t) PROVE TypeInv'
  BY <1>7 DEF Verify, Source
<1>8. ASSUME NEW t \in Tools, Remove(t) PROVE TypeInv'
  <2>1. Put(Source(t), Absent, t) /\ Source(t) \in Names /\ Converts(t) /\ pc[t] = "remove"
        /\ Exit(t) /\ UNCHANGED <<versions, live>>
    BY <1>8 DEF Remove, Source
  <2>2. TypeOK'
    BY <2>1, PutTypes
  <2>3. Conforms' /\ Known'
    BY <2>1, PutTypes
  <2>4. Fresh' /\ Erased'
    BY <2>1, PutTypes DEF Source
  <2> QED
    BY <2>2, <2>3, <2>4
<1>9. ASSUME NEW t \in Tools, Fail(t) PROVE TypeInv'
  BY <1>9 DEF Fail, Source
<1>10. ASSUME NEW t \in Tools, Overwrite(t) PROVE TypeInv'
  <2>1. Put(pc[t], Garbage, t) /\ pc[t] \in Names /\ file[pc[t]] # Absent
        /\ live' = live \ {file[pc[t]]} /\ UNCHANGED <<versions, pc, op, data>>
    BY <1>10 DEF Overwrite
  <2>2. TypeOK'
    <3>1. file' \in [Names -> -1 .. MaxVersions] /\ stale' \in [Tools -> BOOLEAN]
      BY <2>1, PutTypes
    <3> QED
      BY <2>1, <3>1
  <2>3. Conforms' /\ Known'
    <3>1. \A f \in Names : file'[f] <= versions'
      BY <2>1, PutTypes
    <3> QED
      BY <2>1, <3>1
  <2>4. Fresh' /\ Erased'
    BY <2>1, PutTypes DEF Source
  <2> QED
    BY <2>2, <2>3, <2>4
<1>11. ASSUME NEW t \in Tools, Erase(t) PROVE TypeInv'
  <2>1. /\ op[t] = "shred" /\ pc[t] \in Names /\ UNCHANGED <<versions, live, op, data>>
        /\ pc' = [pc EXCEPT ![t] = IF pc[t] = "plain" THEN "enc" ELSE "erased"]
    BY <1>11 DEF Erase
  <2>2. CASE ~ Exists(pc[t]) /\ UNCHANGED <<file, stale>>
    BY <2>1, <2>2 DEF Source
  <2>3. CASE Put(pc[t], Absent, t)
    <3>1. TypeOK'
      BY <2>1, <2>3, PutTypes
    <3>2. Conforms' /\ Known'
      BY <2>1, <2>3, PutTypes
    <3>3. Fresh' /\ Erased'
      BY <2>1, <2>3, PutTypes DEF Source
    <3> QED
      BY <3>1, <3>2, <3>3
  <2> QED
    BY <1>11, <2>2, <2>3 DEF Erase
<1>12. ASSUME NEW t \in Tools, Report(t) PROVE TypeInv'
  BY <1>12 DEF Report, Source
<1>13. CASE UNCHANGED vars
  BY <1>13 DEF vars, Source
<1> QED
  BY <1>1, <1>2, <1>3, <1>4, <1>5, <1>6, <1>7, <1>8, <1>9, <1>10, <1>11, <1>12, <1>13
     DEF Next, Convert, Panic

-----------------------------------------------------------------------------
\* Who may still remove its source leaves no file for another to publish or remove.
LEMMA BothExist ==
  ASSUME TypeInv, Removable, NEW t \in Tools, Ready(t)
  PROVE  Exists("plain") /\ Exists("enc")
BY DEF TypeInv, TypeOK, Conforms, Removable, Ready, Converts, Exists, Source, Destination,
       Other, Names

\* Nobody gets there by what another tool does.
LEMMA ReadyWas ==
  ASSUME TypeInv, NEW f \in Names, NEW v \in -1 .. MaxVersions, NEW by, Put(f, v, by),
         NEW u \in Tools, u # by, pc'[u] = pc[u], op'[u] = op[u], Ready(u)'
  PROVE  Ready(u) /\ (pc[u] = "verify" => Source(u) # f)
<1>1. ~ stale'[u] => ~ stale[u] /\ (pc[u] # "idle" => Source(u) # f)
  BY PutTypes DEF TypeInv
<1> QED
  BY <1>1 DEF Ready, Converts

\* Nothing is lost by a step that changes no file and lets nobody get there.
LEMMA FilesKept ==
  ASSUME TypeInv, NothingLost, Removable, UNCHANGED <<file, live>>, NEW t \in Tools,
         ~ Ready(t)' \/ (Ready(t) /\ data'[t] = data[t] /\ op'[t] = op[t]),
         \A u \in Tools : u # t => /\ pc'[u] = pc[u] /\ op'[u] = op[u]
                                   /\ data'[u] = data[u] /\ stale'[u] = stale[u]
  PROVE  NothingLost' /\ Removable'
<1>1. \A u \in Tools : Ready(u)' => /\ Ready(u) /\ data'[u] = data[u]
                                    /\ Source(u)' = Source(u) /\ Destination(u)' = Destination(u)
  BY DEF Ready, Converts, Source, Destination
<1>2. NothingLost'
  BY DEF NothingLost
<1>3. Removable'
  BY <1>1 DEF Removable, Exists
<1> QED
  BY <1>2, <1>3

LEMMA LostStep ==
  ASSUME ~ Disturbed, TypeInv, NothingLost, Removable, [Next]_vars
  PROVE  NothingLost' /\ Removable'
<1> USE ClientAssumption
<1>1. CASE Save
  <2>1. /\ Put("plain", versions + 1, Absent) /\ "plain" \in Names /\ versions' = versions + 1
        /\ versions + 1 \in -1 .. MaxVersions /\ UNCHANGED <<pc, op, data>>
        /\ live' = (live \ {file["plain"]}) \cup {versions + 1}
        /\ \A t \in Tools : pc[t] # "remove"
    BY <1>1 DEF Save, Undisturbed, TypeInv, TypeOK, Names
  <2>2. /\ file' \in [Names -> -1 .. MaxVersions]
        /\ file'["plain"] = versions + 1 /\ file'["enc"] = file["enc"]
    BY <2>1, PutTypes DEF TypeInv, Names
  <2>3. NothingLost'
    BY <2>1, <2>2 DEF NothingLost, TypeInv, TypeOK
  <2>4. ASSUME NEW u \in Tools, Ready(u)'
        PROVE  /\ Ready(u) /\ Source(u) = "enc" /\ Destination(u) = "plain"
               /\ Source(u)' = "enc" /\ Destination(u)' = "plain"
    <3>1. Ready(u) /\ (pc[u] = "verify" => Source(u) # "plain")
      BY <2>1, <2>4, ReadyWas DEF Absent
    <3>2. pc[u] = "verify" /\ Converts(u)
      BY <2>1, <3>1 DEF Ready
    <3>3. Source(u) = "enc" /\ op[u] = "unlock"
      BY <3>1, <3>2 DEF Source, Converts
    <3> QED
      BY <2>1, <3>1, <3>3 DEF Source, Destination, Other
  <2>5. ASSUME NEW u \in Tools, Ready(u)'
        PROVE  /\ file'[Source(u)'] = data'[u] /\ Exists(Destination(u))'
               /\ data'[u] \in live' => file'[Destination(u)'] = data'[u]
    <3>1. file["enc"] = data[u] /\ (data[u] \in live => file["plain"] = data[u])
      BY <2>4, <2>5 DEF Removable
    <3>2. data[u] <= versions /\ data[u] \in Int /\ versions \in Nat
      BY <2>5 DEF TypeInv, TypeOK, Known
    <3> QED
      BY <2>1, <2>2, <2>4, <2>5, <3>1, <3>2 DEF Exists, Absent
  <2> QED
    BY <2>3, <2>4, <2>5 DEF Removable
<1>2. ASSUME NEW t \in Tools, Publish(t) PROVE NothingLost' /\ Removable'
  <2>1. /\ Put(Destination(t), data[t], t) /\ Destination(t) \in Names
        /\ data[t] \in -1 .. MaxVersions /\ pc[t] = "publish" /\ data[t] # Absent
        /\ file[Destination(t)] = Absent
        /\ \A u \in Tools : u # t => pc'[u] = pc[u] /\ op'[u] = op[u] /\ data'[u] = data[u]
    BY <1>2 DEF Publish, Destination, Other, TypeInv, TypeOK, Conforms, Exists, Exit, Goto, Names
  <2>2. /\ file'[Destination(t)] = data[t]
        /\ \A g \in Names : g # Destination(t) => file'[g] = file[g]
        /\ ~ stale'[t] => ~ stale[t]
    BY <2>1, PutTypes DEF TypeInv
  <2>3. \A u \in Tools : ~ Ready(u)
    BY <2>1, BothExist DEF Exists, Names
  <2>4. \A u \in Tools : Ready(u)' => u = t
    BY <2>1, <2>3, ReadyWas
  <2>5. 0 \notin live
    BY DEF TypeInv, TypeOK
  <2>6. CASE Converts(t) /\ pc' = [pc EXCEPT ![t] = "verify"] /\ UNCHANGED <<live, op, data>>
    <3>1. NothingLost'
      BY <2>1, <2>2, <2>5, <2>6 DEF NothingLost, Names, Absent
    <3>2. Source(t) \in Names /\ Source(t) # Destination(t)
          /\ Source(t)' = Source(t) /\ Destination(t)' = Destination(t)
      BY <2>6 DEF Converts, Source, Destination, Other, Names
    <3>3. Ready(t)' => file'[Source(t)] = data[t]
      BY <2>1, <2>2, <2>6, <3>2 DEF Ready, TypeInv, TypeOK, Fresh
    <3> QED
      BY <2>1, <2>2, <2>4, <2>6, <3>1, <3>2, <3>3 DEF Removable, Exists
  <2>7. CASE op[t] = "install" /\ live' = live \cup {data[t]} /\ Exit(t)
    <3>1. Destination(t) = "enc"
      BY <2>7 DEF Destination
    <3>2. NothingLost'
      BY <2>1, <2>2, <2>5, <2>7, <3>1 DEF NothingLost, Names, Absent
    <3>3. ~ Ready(t)'
      BY <2>7 DEF Ready, Exit, Goto, TypeInv, TypeOK
    <3> QED
      BY <2>4, <3>2, <3>3 DEF Removable
  <2> QED
    BY <1>2, <2>6, <2>7 DEF Publish, TypeInv, Conforms, Converts, TypeOK, Ops, Goto, Names
<1>3. ASSUME NEW t \in Tools, Remove(t) PROVE NothingLost' /\ Removable'
  <2>1. /\ Put(Source(t), Absent, t) /\ Source(t) \in Names /\ Destination(t) \in Names
        /\ Source(t) # Destination(t) /\ Converts(t) /\ pc[t] = "remove" /\ live' = live
        /\ Absent \in -1 .. MaxVersions /\ ~ Ready(t)'
        /\ \A u \in Tools : u # t => pc'[u] = pc[u] /\ op'[u] = op[u] /\ data'[u] = data[u]
    BY <1>3 DEF Remove, Source, Destination, Other, Names, TypeInv, TypeOK, Conforms, Converts,
                Exit, Goto, Ready, Absent
  <2>2. /\ file'[Source(t)] = Absent
        /\ \A g \in Names : g # Source(t) => file'[g] = file[g]
    BY <2>1, PutTypes DEF TypeInv
  <2>3. Ready(t) /\ file[Source(t)] = data[t]
        /\ (data[t] \in live => file[Destination(t)] = data[t])
    BY <2>1 DEF Ready, Removable
  <2>4. \A u \in Tools : ~ Ready(u)'
    BY <2>1, <2>3, ReadyWas DEF Removable
  <2>5. NothingLost'
    BY <2>1, <2>2, <2>3 DEF NothingLost, Names
  <2> QED
    BY <2>4, <2>5 DEF Removable
<1>4. ASSUME NEW t \in Tools, Overwrite(t) PROVE NothingLost' /\ Removable'
  <2>1. /\ Put(pc[t], Garbage, t) /\ pc[t] \in Names /\ live' = live \ {file[pc[t]]}
        /\ Garbage \in -1 .. MaxVersions /\ UNCHANGED pc
        /\ \A u \in Tools : pc[u] \notin {"verify", "remove"}
    BY <1>4 DEF Overwrite, Undisturbed, Garbage
  <2>2. \A g \in Names : g # pc[t] => file'[g] = file[g]
    BY <2>1, PutTypes DEF TypeInv
  <2>3. NothingLost'
    BY <2>1, <2>2 DEF NothingLost, Names
  <2> QED
    BY <2>1, <2>3 DEF Removable, Ready
<1>5. ASSUME NEW t \in Tools, Erase(t) PROVE NothingLost' /\ Removable'
  <2>1. /\ pc[t] \in Names /\ file[pc[t]] \in {Absent, Garbage} /\ live' = live
        /\ \A u \in Tools : pc[u] \notin {"verify", "remove"}
        /\ \A u \in Tools : pc'[u] \notin {"verify", "remove"}
        /\ Put(pc[t], Absent, t) \/ UNCHANGED file
        /\ Absent \in -1 .. MaxVersions
    BY <1>5 DEF Erase, Undisturbed, Goto, TypeInv, TypeOK, Absent
  <2>2. \A g \in Names : g # pc[t] => file'[g] = file[g]
    BY <2>1, PutTypes DEF TypeInv, Absent
  <2>3. file[pc[t]] \notin live
    BY <2>1 DEF TypeInv, TypeOK, Absent, Garbage
  <2>4. NothingLost'
    BY <2>1, <2>2, <2>3 DEF NothingLost, Names
  <2> QED
    BY <2>1, <2>4 DEF Removable, Ready
<1>6. ASSUME NEW t \in Tools, Start(t) \/ Look(t) \/ Read(t) \/ LookInstall(t)
                                \/ Verify(t) \/ Fail(t) \/ Report(t)
      PROVE  NothingLost' /\ Removable'
  <2>1. UNCHANGED <<file, live>>
    BY <1>6 DEF Start, Look, Read, LookInstall, Verify, Fail, Report
  <2>2. \A u \in Tools : u # t => /\ pc'[u] = pc[u] /\ op'[u] = op[u]
                                  /\ data'[u] = data[u] /\ stale'[u] = stale[u]
    BY <1>6 DEF Start, Look, Read, LookInstall, Verify, Fail, Report, Goto, Exit, TypeInv, TypeOK
  <2>3. ~ Ready(t)' \/ (Ready(t) /\ data'[t] = data[t] /\ op'[t] = op[t])
    BY <1>6 DEF Start, Look, Read, LookInstall, Verify, Fail, Report, Goto, Exit, TypeInv,
                TypeOK, Ready, Converts, Names
  <2> QED
    BY <2>1, <2>2, <2>3, FilesKept
<1>7. CASE UNCHANGED vars
  BY <1>7 DEF vars, NothingLost, Removable, Ready, Converts, Source, Destination, Exists
<1> QED
  BY <1>1, <1>2, <1>3, <1>4, <1>5, <1>6, <1>7 DEF Next, Convert, Panic

-----------------------------------------------------------------------------
\* Types, for any tools and any disturbance (fortress_vault.py, install_client_bundle.py).
THEOREM ClientTypes == Spec => []TypeOK
<1>1. TypeInv => TypeOK
  BY DEF TypeInv
<1> QED
  BY <1>1, TypesInit, TypesStep, PTL DEF Spec

\* A successful shred (panic_shred_local) has left neither form of the file, unless
\* another program wrote one while it ran.
THEOREM ShredErases == Spec => []PanicErases
<1>1. TypeInv => PanicErases
  BY DEF TypeInv, Erased, PanicErases
<1> QED
  BY <1>1, TypesInit, TypesStep, PTL DEF Spec

\* Any number of tools, killed and raced by the user's programs, keep a copy of every
\* version the user counts on (_convert_vault, install_bundle), if nobody writes
\* between a tool's last look at its source and the removal of it.
THEOREM VersionsKept == ~ Disturbed => (Spec => []NothingLost)
<1> SUFFICES ASSUME ~ Disturbed PROVE Spec => []NothingLost
  OBVIOUS
<1>1. Init => IInv
  <2> SUFFICES ASSUME Init PROVE NothingLost /\ Removable
    BY TypesInit DEF IInv
  <2>1. NothingLost
    BY DEF Init, NothingLost
  <2>2. Removable
    BY DEF Init, Removable, Ready
  <2> QED
    BY <2>1, <2>2
<1>2. IInv /\ [Next]_vars => IInv'
  BY TypesStep, LostStep DEF IInv
<1>3. IInv => NothingLost
  BY DEF IInv
<1> QED
  BY <1>1, <1>2, <1>3, PTL DEF Spec
==============================================================================
