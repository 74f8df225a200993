-------------------------- MODULE CoreUpgradeProofs --------------------------
(***************************************************************************)
(* The safety of the core upgrade, for any number of runs, and for any     *)
(* configuration that is converted: CoreMigration only restricts when an   *)
(* upgrade may begin.  Then the conversion itself: for any configurations, *)
(* outbounds and inbounds it is idempotent and keeps every verdict.        *)
(***************************************************************************)
EXTENDS CoreMigration, SequenceTheorems, FiniteSetTheorems, TLAPS

Todos == {<<>>, Paths, Tail(Paths), Tail(Tail(Paths))}
AllNew == [f \in Names |-> "new"]

\* The files a loop with n files left has dealt with are alike in a and b.
Agree(a, b, n) ==
  /\ n <= 2 => a["binary"] = b["binary"]
  /\ n <= 1 => a["active"] = b["active"]
  /\ n <= 0 => a["template"] = b["template"]

SomeWay == \E i \in 1 .. Len(backups) : OneVersion(backups[i])

\* Without a backup nothing was touched; the first backup is of one version, since
\* it was taken of files nothing had touched.
Backed ==
  /\ backups = <<>> => OneVersion(file)
  /\ backups # <<>> => SomeWay

Copying ==
  /\ pc = "copy" => Agree(saved, file, Len(todo))
  /\ pc = "manifest" => saved = file

Publishing ==
  /\ pc = "publish" => Agree(file, AllNew, Len(todo))
  /\ pc \in {"restart", "check", "done"} => OneVersion(file)

Restoring ==
  /\ pc = "restore" => Agree(file, saved, Len(todo))
  /\ pc \in {"restartOld", "failed"} => file = saved

\* Whatever replaces a file does it after a backup was completed.
Owed ==
  pc \in {"publish", "restart", "check", "restore", "restartOld", "rollback", "restartBack"} =>
    backups # <<>>

IInv == TypeOK /\ Backed /\ Copying /\ Publishing /\ Restoring /\ Owed

-----------------------------------------------------------------------------
\* What a loop over the files has left is a suffix of their list.
LEMMA LoopOrder ==
  ASSUME NEW t \in Todos, t # <<>>
  PROVE  /\ Tail(t) \in Todos
         /\ \/ Len(t) = 3 /\ Head(t) = "binary" /\ Len(Tail(t)) = 2 /\ Tail(t) # <<>>
            \/ Len(t) = 2 /\ Head(t) = "active" /\ Len(Tail(t)) = 1 /\ Tail(t) # <<>>
            \/ Len(t) = 1 /\ Head(t) = "template" /\ Len(Tail(t)) = 0
<1> DEFINE one == Tail(Paths)
           two == Tail(one)
           three == Tail(two)
<1>1. /\ Paths \in Seq(Names) /\ Len(Paths) = 3
      /\ Paths[1] = "binary" /\ Paths[2] = "active" /\ Paths[3] = "template"
  <2>1. Paths \in Seq(Names)
    BY DEF Paths, Names
  <2>4. Len(Paths) = 3
    BY DEF Paths
  <2>2. Paths[1] = "binary" /\ Paths[2] = "active" /\ Paths[3] = "template"
    BY DEF Paths
  <2>3. QED
    BY <2>1, <2>2, <2>4
<1>2. /\ one \in Seq(Names) /\ Len(one) = 2
      /\ one[1] = "active" /\ one[2] = "template"
  BY <1>1, HeadTailProperties, EmptySeq
<1> HIDE DEF one
<1>3. /\ two \in Seq(Names) /\ Len(two) = 1 /\ two[1] = "template"
  BY <1>2, HeadTailProperties, EmptySeq
<1> HIDE DEF two
<1>4. three \in Seq(Names) /\ Len(three) = 0
  BY <1>3, HeadTailProperties, EmptySeq
<1>5. three = <<>>
  BY <1>4, EmptySeq
<1> HIDE DEF three
<1>6. \A s \in Seq(Names) : s # <<>> => Head(s) = s[1]
  BY HeadTailProperties
<1>7. Paths # <<>> /\ one # <<>> /\ two # <<>>
  <2>1. Len(<<>>) = 0
    OBVIOUS
  <2>2. Len(Paths) # 0 /\ Len(one) # 0 /\ Len(two) # 0
    BY <1>1, <1>2, <1>3
  <2>3. QED
    BY <2>1, <2>2, Zenon
<1>8. Tail(Paths) = one /\ Tail(one) = two /\ Tail(two) = three
  BY DEF one, two, three
<1>9. Todos = {<<>>, Paths, one, two}
  BY DEF Todos, one, two
<1>10. t = Paths \/ t = one \/ t = two
  BY <1>9
<1>11. QED
  BY <1>1, <1>2, <1>3, <1>4, <1>5, <1>6, <1>7, <1>8, <1>9, <1>10

\* The next file of a loop with n files left is replaced.
LEMMA OneReplaced ==
  ASSUME NEW a \in FileSet, NEW b \in FileSet, NEW n, NEW f,
         \/ n = 3 /\ f = "binary"
         \/ n = 2 /\ f = "active"
         \/ n = 1 /\ f = "template"
  PROVE  /\ [a EXCEPT ![f] = b[f]] \in FileSet
         /\ Agree(a, b, n) => Agree([a EXCEPT ![f] = b[f]], b, n - 1)
<1>1. CASE n = 3 /\ f = "binary"
  BY <1>1 DEF FileSet, Agree, Names
<1>2. CASE n = 2 /\ f = "active"
  BY <1>2 DEF FileSet, Agree, Names
<1>3. CASE n = 1 /\ f = "template"
  BY <1>3 DEF FileSet, Agree, Names
<1>4. QED
  BY <1>1, <1>2, <1>3

\* When the loop has no file left, all are alike.
LEMMA AgreeAll ==
  ASSUME NEW a \in FileSet, NEW b \in FileSet, Agree(a, b, 0)
  PROVE  a = b
BY DEF Agree, FileSet, Names
\* The same for a loop over a list: what it has dealt with stays alike, and at its end
\* all is alike.
LEMMA LoopReplaces ==
  ASSUME NEW a \in FileSet, NEW b \in FileSet, NEW t \in Todos, t # <<>>,
         Agree(a, b, Len(t))
  PROVE  /\ Agree([a EXCEPT ![Head(t)] = b[Head(t)]], b, Len(Tail(t)))
         /\ Len(t) <= 1 => [a EXCEPT ![Head(t)] = b[Head(t)]] = b
<1> DEFINE n == Len(t)
           f == Head(t)
           m == Len(Tail(t))
<1>1. /\ \/ n = 3 /\ f = "binary"
         \/ n = 2 /\ f = "active"
         \/ n = 1 /\ f = "template"
      /\ m = n - 1
  BY LoopOrder
<1>2. Agree(a, b, n)
  OBVIOUS
<1> HIDE DEF n, f, m
<1> DEFINE c == [a EXCEPT ![f] = b[f]]
<1>3. c \in FileSet /\ Agree(c, b, m)
  BY <1>1, <1>2, OneReplaced
<1>4. n <= 1 => m = 0
  BY <1>1
<1>5. n <= 1 => c = b
  BY <1>3, <1>4, AgreeAll
<1>6. QED
  BY <1>3, <1>5 DEF n, f, m

-----------------------------------------------------------------------------
\* Types, and what a loop has left, for any number of upgrades.
LEMMA TypesStep == TypeOK /\ [Next]_vars => TypeOK'
<1> SUFFICES ASSUME TypeOK, Next PROVE TypeOK'
  BY DEF TypeOK, vars
<1> USE DEF TypeOK, Goto
<1>0. Paths \in Todos /\ Paths # <<>> /\ AllOld \in FileSet
  BY DEF Todos, AllOld, FileSet, Versions, Paths
<1>1. CASE Apply
  BY <1>0, <1>1 DEF Apply, Todos
<1>2. CASE CopyNext
  <2>1. todo \in Todos /\ todo # <<>>
    BY <1>2 DEF CopyNext, Todos
  <2>2. saved' \in FileSet
    BY <1>2, <2>1, LoopOrder, OneReplaced DEF CopyNext
  <2>3. todo' \in Todos /\ (pc' = "copy" => todo' # <<>>)
    BY <1>2, <2>1, LoopOrder DEF CopyNext
  <2>4. QED
    BY <1>2, <2>2, <2>3 DEF CopyNext, Todos
<1>3. CASE PublishManifest
  BY <1>0, <1>3 DEF PublishManifest, Todos
<1>4. CASE PublishNext
  BY <1>4, LoopOrder DEF PublishNext, Todos, FileSet, Versions
<1>5. CASE RestartCore \/ RestartOld \/ RestartBack
  BY <1>5 DEF RestartCore, RestartOld, RestartBack, Started, FileSet, Versions, Names
<1>6. CASE CheckCore \/ Except
  BY <1>0, <1>6 DEF CheckCore, Except, Todos
<1>7. CASE RestoreNext
  <2>1. todo \in Todos /\ todo # <<>>
    BY <1>7 DEF RestoreNext, Todos
  <2>2. file' \in FileSet
    BY <1>7, <2>1, LoopOrder, OneReplaced DEF RestoreNext
  <2>3. Tail(todo) \in Todos /\ (Len(todo) > 1 => Tail(todo) # <<>>)
    <3> HIDE DEF TypeOK, Goto
    <3>1. QED
      BY <2>1, LoopOrder
  <2>4. pc' \in {"restore", "rollback"} => Len(todo) > 1
    BY <1>7 DEF RestoreNext
  <2>5. QED
    BY <1>7, <2>2, <2>3, <2>4 DEF RestoreNext, Todos
<1>8. CASE Rollback
  BY <1>0, <1>8 DEF Rollback, Todos
<1>9. CASE End
  BY <1>0, <1>9 DEF End
<1>10. CASE Reboot
  BY <1>0, <1>10 DEF Reboot, Started, FileSet, Versions, Names
<1>11. QED
  BY <1>1, <1>2, <1>3, <1>4, <1>5, <1>6, <1>7, <1>8, <1>9, <1>10 DEF Next

\* A step keeps the backups and adds at most one, so a way back stays one.
LEMMA BackedStep == IInv /\ [Next]_vars => Backed'
<1> SUFFICES ASSUME IInv, [Next]_vars PROVE Backed'
  OBVIOUS
<1> USE DEF IInv, TypeOK
<1>1. CASE PublishManifest
  <2>1. backups \in Seq(FileSet) /\ saved \in FileSet /\ backups' = Append(backups, saved)
    BY <1>1 DEF PublishManifest
  <2>2. /\ Len(backups') = Len(backups) + 1 /\ backups'[Len(backups')] = saved
        /\ \A i \in 1 .. Len(backups) : backups'[i] = backups[i]
    BY <2>1
  <2>3. CASE backups = <<>>
    BY <1>1, <2>1, <2>2, <2>3 DEF PublishManifest, Backed, SomeWay, Copying
  <2>4. CASE backups # <<>>
    <3>1. PICK i \in 1 .. Len(backups) : OneVersion(backups[i])
      BY <2>4 DEF Backed, SomeWay
    <3>2. i \in 1 .. Len(backups') /\ OneVersion(backups'[i])
      BY <2>1, <2>2, <3>1
    <3>3. backups' # <<>>
      BY <2>1, <2>2
    <3>4. QED
      BY <3>2, <3>3 DEF Backed, SomeWay
  <2>5. QED
    BY <2>3, <2>4
<1>2. CASE PublishNext \/ RestoreNext
  <2>1. backups' = backups /\ backups # <<>>
    BY <1>2 DEF PublishNext, RestoreNext, Goto, Owed
  <2>2. QED
    BY <2>1 DEF Backed, SomeWay
<1>3. CASE Reboot
  <2>1. backups' = backups /\ file' = [file EXCEPT !["active"] = file["template"]]
    BY <1>3 DEF Reboot, Goto
  <2>2. OneVersion(file) => OneVersion(file')
    BY <2>1 DEF OneVersion, FileSet, Names
  <2>3. QED
    BY <2>1, <2>2 DEF Backed, SomeWay
<1>4. CASE \/ Apply \/ CopyNext \/ RestartCore \/ CheckCore \/ Except \/ RestartOld
           \/ Rollback \/ RestartBack \/ End \/ UNCHANGED vars
  <2>1. backups' = backups /\ file' = file
    BY <1>4 DEF Apply, CopyNext, RestartCore, CheckCore, Except, RestartOld, Rollback,
         RestartBack, End, vars, Goto
  <2>2. QED
    BY <2>1 DEF Backed, SomeWay
<1>5. QED
  BY <1>1, <1>2, <1>3, <1>4 DEF Next

\* The loops finish what they began: a backup is a copy, a success is of one
\* version, and a restored server is what it was.
LEMMA LoopsStep == IInv /\ [Next]_vars => Copying' /\ Publishing' /\ Restoring' /\ Owed'
<1> SUFFICES ASSUME IInv, [Next]_vars PROVE Copying' /\ Publishing' /\ Restoring' /\ Owed'
  OBVIOUS
<1> USE DEF IInv, TypeOK, Goto
<1>1. TypeOK' /\ file \in FileSet /\ saved \in FileSet /\ AllNew \in FileSet
  BY TypesStep DEF AllNew, FileSet, Versions
<1>2. Len(Paths) = 3
  BY DEF Paths
<1>3. CASE Apply \/ Except \/ Rollback
  <2>1. todo' = Paths /\ file' = file /\ pc' \in {"copy", "restore", "rollback"}
    BY <1>3 DEF Apply, Except, Rollback
  <2>2. pc' \in {"restore", "rollback"} => backups' # <<>>
    BY <1>3 DEF Apply, Except, Rollback, Owed
  <2>3. Len(todo') = 3
    BY <1>2, <2>1
  <2>4. QED
    BY <2>1, <2>2, <2>3 DEF Copying, Publishing, Restoring, Owed, Agree
<1>4. CASE CopyNext
  <2>1. todo \in Todos /\ todo # <<>>
    BY <1>4 DEF CopyNext, Todos
  <2>2. /\ Agree(saved', file, Len(Tail(todo)))
        /\ Len(todo) <= 1 => saved' = file
    <3>1. /\ saved' = [saved EXCEPT ![Head(todo)] = file[Head(todo)]]
          /\ Agree(saved, file, Len(todo))
      BY <1>4 DEF CopyNext, Copying
    <3>2. QED
      BY <1>1, <2>1, <3>1, LoopReplaces
  <2>3. Len(todo) = 1 => saved' = file
    BY <2>2
  <2>4. QED
    BY <1>4, <2>2, <2>3 DEF CopyNext, Copying, Publishing, Restoring, Owed
<1>5. CASE PublishManifest
  <2>1. Len(todo') = 3 /\ pc' = "publish"
    BY <1>2, <1>5 DEF PublishManifest
  <2>2. backups' # <<>>
    BY <1>5 DEF PublishManifest
  <2>3. QED
    BY <2>1, <2>2 DEF Copying, Publishing, Restoring, Owed, Agree
<1>6. CASE PublishNext
  <2>1. todo \in Todos /\ todo # <<>>
    BY <1>6 DEF PublishNext, Todos
  <2>2. Head(todo) \in Names
    BY <2>1, LoopOrder DEF Names
  <2>3. file' = [file EXCEPT ![Head(todo)] = AllNew[Head(todo)]]
    BY <1>6, <2>2 DEF PublishNext, AllNew
  <2>4. Agree(file, AllNew, Len(todo))
    BY <1>6 DEF PublishNext, Publishing
  <2>5. /\ Agree(file', AllNew, Len(Tail(todo)))
        /\ Len(todo) <= 1 => file' = AllNew
    BY <1>1, <2>1, <2>3, <2>4, LoopReplaces
  <2>6. OneVersion(AllNew)
    BY DEF OneVersion, AllNew
  <2>7. pc = "publish" /\ todo' = Tail(todo) /\ backups' = backups /\ backups # <<>>
    BY <1>6 DEF PublishNext, Owed
  <2>8. pc' = IF Len(todo) = 1 THEN "restart" ELSE "publish"
    BY <1>6 DEF PublishNext
  <2>9. Len(todo) = 1 => OneVersion(file')
    BY <2>1, <2>5, <2>6
  <2>10. QED
    BY <2>5, <2>7, <2>8, <2>9 DEF Copying, Publishing, Restoring, Owed
<1>7. CASE RestartCore \/ CheckCore
  BY <1>7 DEF RestartCore, CheckCore, Copying, Publishing, Restoring, Owed
<1>8. CASE RestoreNext
  <2>1. todo \in Todos /\ todo # <<>>
    BY <1>8 DEF RestoreNext, Todos
  <2>2. ASSUME pc = "restore"
        PROVE  /\ Agree(file', saved, Len(Tail(todo)))
               /\ Len(todo) <= 1 => file' = saved
    <3>1. /\ file' = [file EXCEPT ![Head(todo)] = saved[Head(todo)]]
          /\ Agree(file, saved, Len(todo))
      BY <1>8, <2>2 DEF RestoreNext, Restoring
    <3>2. QED
      BY <1>1, <2>1, <3>1, LoopReplaces
  <2>3. Len(todo) \in {1, 2, 3}
    BY <2>1, LoopOrder
  <2>4. QED
    BY <1>8, <2>2, <2>3 DEF RestoreNext, Copying, Publishing, Restoring, Owed
<1>9. CASE RestartOld
  BY <1>9 DEF RestartOld, Copying, Publishing, Restoring, Owed
<1>10. CASE RestartBack \/ End \/ Reboot
  BY <1>10 DEF RestartBack, End, Reboot, Copying, Publishing, Restoring, Owed
<1>11. CASE UNCHANGED vars
  BY <1>11 DEF vars, Copying, Publishing, Restoring, Owed
<1>12. QED
  BY <1>3, <1>4, <1>5, <1>6, <1>7, <1>8, <1>9, <1>10, <1>11 DEF Next

\* What is true at every moment of upgrade_server_core.py, a kill and a reboot
\* anywhere included.
THEOREM UpgradeKept == Spec => []IInv
<1>1. Init => IInv
  <2>1. AllOld \in FileSet /\ OneVersion(AllOld)
    BY DEF AllOld, FileSet, Versions, OneVersion
  <2>2. QED
    BY <2>1 DEF Init, IInv, TypeOK, Backed, Copying, Publishing, Restoring, Owed, Versions
<1>2. IInv /\ [Next]_vars => IInv'
  BY TypesStep, BackedStep, LoopsStep DEF IInv
<1>3. QED
  BY <1>1, <1>2, PTL DEF Spec

\* current_server_config decides when an upgrade may begin, nothing else.
LEMMA MigrationIsUpgrade == MigrationSpec => Spec
<1>1. MigrationInit => Init
  BY DEF MigrationInit
<1>2. [MigrationNext]_<<vars, original>> => [Next]_vars
  BY DEF MigrationNext
<1>3. QED
  BY <1>1, <1>2, PTL DEF MigrationSpec, Spec

\* upgrade_server_core.py can always bring back a server that a kill, a reboot or a
\* failed restore left with files of two versions: some backup is of one version.
THEOREM WayBackKept == MigrationSpec => []WayBack
<1>1. IInv => WayBack
  BY DEF IInv, Backed, SomeWay, WayBack
<1>2. QED
  BY <1>1, UpgradeKept, MigrationIsUpgrade, PTL

\* An upgrade that reports its failure (the except clause of main) has put back all
\* three files, wherever it failed.
THEOREM FailuresHarmless == MigrationSpec => []FailureHarmless
<1>1. IInv => FailureHarmless
  BY DEF IInv, Restoring, FailureHarmless
<1>2. QED
  BY <1>1, UpgradeKept, MigrationIsUpgrade, PTL

\* A reported success is of one version, so the boot that follows keeps it.
THEOREM SuccessKept == MigrationSpec => []SuccessSurvivesBoot
<1>1. IInv => SuccessSurvivesBoot
  BY DEF IInv, Publishing, SuccessSurvivesBoot
<1>2. QED
  BY <1>1, UpgradeKept, MigrationIsUpgrade, PTL

-----------------------------------------------------------------------------
(* The conversion of a configuration: for any tags, types, inbounds, and any   *)
(* number of resolvers, outbounds and rules.                                    *)

\* A set of numbers up to n has a least one.
LEMMA Least ==
  ASSUME NEW n \in Nat, NEW T, T \subseteq 1 .. n, T # {}
  PROVE  \E x \in T : \A y \in T : x <= y
<1> DEFINE S == 1 .. n
           D == {1 .. x : x \in T}
<1>1. IsWellFoundedOn(StrictSubsetOrdering(S), SUBSET S)
  <2>1. IsFiniteSet(S)
    BY FS_Interval
  <2>2. QED
    BY <2>1, FS_FiniteSubsetsOfFinite, FS_StrictSubsetOrderingWellFounded, Zenon
<1>2. D \subseteq SUBSET S /\ D # {}
  <2>1. \A x \in T : 1 .. x \subseteq S
    OBVIOUS
  <2>2. QED
    BY <2>1
<1> HIDE DEF D
<1>3. PICK d \in D : \A e \in D : ~ (<<e, d>> \in StrictSubsetOrdering(S))
  BY <1>1, <1>2, WFMin
<1>4. PICK x \in T : d = 1 .. x
  BY DEF D
<1>5. ASSUME NEW y \in T PROVE x <= y
  <2>1. 1 .. y \in D
    BY DEF D
  <2>2. ~ (1 .. y \subseteq 1 .. x /\ 1 .. y # 1 .. x)
    BY <1>2, <1>3, <1>4, <2>1 DEF StrictSubsetOrdering
  <2>3. x \in Nat /\ y \in Nat /\ 1 <= x
    OBVIOUS
  <2>4. y < x => x \in 1 .. x /\ x \notin 1 .. y /\ 1 .. y \subseteq 1 .. x
    BY <2>3
  <2>5. QED
    BY <2>2, <2>3, <2>4
<1>6. QED
  BY <1>5

\* What is refused is left alone by the tool; what is not, is converted to this.
LEMMA Converted ==
  ASSUME ConfigAssumption, NEW c \in Originals, ~ Refused(c)
  PROVE  LET m == Migrate(c) IN
         /\ m.servers = <<NewServer(c)>> /\ m.dnsRule = "none" /\ m.resolver = "server"
         /\ m.outbounds = [t \in Tags |-> IF t \in Special(c) THEN 0 ELSE c.outbounds[t]]
         /\ m.rules = NewRules(c) /\ m.sniff = {} /\ m.deprecated = c.deprecated
         /\ m = [servers |-> m.servers, dnsRule |-> m.dnsRule, resolver |-> m.resolver,
                 outbounds |-> m.outbounds, rules |-> m.rules, sniff |-> m.sniff,
                 deprecated |-> m.deprecated]
  BY DEF ConfigAssumption, Configs, Migrate, SniffFlags

\* The rules of the converted configuration: behind the one that sniffs, if any, each
\* rule in its order.
Shift(c) == IF c.sniff = {} THEN 0 ELSE 1

LEMMA ConvertedRules ==
  ASSUME ConfigAssumption, NEW c \in Originals
  PROVE  /\ Len(c.rules) \in Nat /\ NewRules(c) \in Seq([match: {"net", "domain", "sniff"},
                   inbounds: SUBSET Inbounds, to: Tags \cup {"reject", "none"}])
         /\ DOMAIN c.rules = 1 .. Len(c.rules)
         /\ DOMAIN NewRules(c) = 1 .. (Len(c.rules) + Shift(c))
         /\ \A i \in 1 .. Len(c.rules) :
              NewRules(c)[i + Shift(c)] = ToReject(c.rules[i], Special(c))
         /\ c.sniff # {} =>
              NewRules(c)[1] = [match |-> "sniff", inbounds |-> c.sniff, to |-> "none"]
<1> DEFINE R == [match: {"net", "domain", "sniff"}, inbounds: SUBSET Inbounds,
                 to: Tags \cup {"reject", "none"}]
           mapped == [i \in DOMAIN c.rules |-> ToReject(c.rules[i], Special(c))]
<1>1. c.rules \in Seq(Rules) /\ c.sniff \in SUBSET Inbounds
  BY DEF ConfigAssumption, Configs
<1>2. Len(c.rules) \in Nat /\ DOMAIN c.rules = 1 .. Len(c.rules)
  BY <1>1, LenProperties
<1>3. \A r \in Rules : ToReject(r, Special(c)) \in R
  BY DEF ToReject, Rules, Rule
<1>4. mapped \in Seq(R) /\ Len(mapped) = Len(c.rules)
  <2>1. \A i \in 1 .. Len(c.rules) : c.rules[i] \in Rules
    BY <1>1, ElementOfSeq
  <2>2. mapped \in [1 .. Len(c.rules) -> R]
    BY <1>2, <1>3, <2>1
  <2>3. QED
    BY <1>2, <2>2
<1>5. SniffRule(c) \in Seq(R) /\ Len(SniffRule(c)) = Shift(c)
  <2>1. CASE c.sniff = {}
    BY <2>1, EmptySeq DEF SniffRule, Shift
  <2>2. CASE c.sniff # {}
    <3> DEFINE e == [match |-> "sniff", inbounds |-> c.sniff, to |-> "none"]
    <3>1. e \in R /\ SniffRule(c) = <<e>> /\ Shift(c) = 1
      BY <1>1, <2>2 DEF SniffRule, Shift
    <3> HIDE DEF e, R
    <3>2. QED
      BY <3>1
  <2>3. QED
    BY <2>1, <2>2
<1>6. c.sniff # {} => SniffRule(c)[1] = [match |-> "sniff", inbounds |-> c.sniff, to |-> "none"]
  BY DEF SniffRule
<1>7. \A i \in 1 .. Len(c.rules) : mapped[i] = ToReject(c.rules[i], Special(c))
  BY <1>2
<1>8. NewRules(c) = SniffRule(c) \o mapped
  BY DEF NewRules
<1> HIDE DEF R, mapped
<1>9. /\ NewRules(c) \in Seq(R) /\ Len(NewRules(c)) = Shift(c) + Len(c.rules)
      /\ \A i \in 1 .. Shift(c) + Len(c.rules) : NewRules(c)[i] =
           IF i <= Shift(c) THEN SniffRule(c)[i] ELSE mapped[i - Shift(c)]
  <2>1. /\ SniffRule(c) \o mapped \in Seq(R)
        /\ Len(SniffRule(c) \o mapped) = Len(SniffRule(c)) + Len(mapped)
        /\ \A i \in 1 .. Len(SniffRule(c)) + Len(mapped) : (SniffRule(c) \o mapped)[i] =
             IF i <= Len(SniffRule(c)) THEN SniffRule(c)[i] ELSE mapped[i - Len(SniffRule(c))]
    BY <1>4, <1>5, ConcatProperties, ZenonT(60)
  <2>2. QED
    BY <1>4, <1>5, <1>8, <2>1
<1>10. Shift(c) \in {0, 1} /\ (c.sniff # {} => Shift(c) = 1)
  BY DEF Shift
<1>11. DOMAIN NewRules(c) = 1 .. (Len(c.rules) + Shift(c))
  BY <1>2, <1>9, <1>10, LenProperties
<1>12. \A i \in 1 .. Len(c.rules) : NewRules(c)[i + Shift(c)] = mapped[i]
  <2>1. CASE Shift(c) = 0
    BY <1>2, <1>9, <2>1
  <2>2. CASE Shift(c) = 1
    <3>1. \A j \in 1 .. 1 + Len(c.rules) :
            NewRules(c)[j] = IF j <= 1 THEN SniffRule(c)[j] ELSE mapped[j - 1]
      BY <1>9, <2>2
    <3>2. ASSUME NEW i \in 1 .. Len(c.rules) PROVE NewRules(c)[i + 1] = mapped[i]
      <4>1. i + 1 \in 1 .. 1 + Len(c.rules) /\ ~ (i + 1 <= 1)
        BY <1>2
      <4>2. NewRules(c)[i + 1] = mapped[(i + 1) - 1]
        BY <3>1, <4>1
      <4>3. QED
        BY <1>2, <4>2
    <3>3. QED
      BY <2>2, <3>2
  <2>3. QED
    BY <1>10, <2>1, <2>2
<1>13. c.sniff # {} => NewRules(c)[1] = SniffRule(c)[1]
  <2>1. c.sniff # {} => 1 \in 1 .. Shift(c) + Len(c.rules) /\ 1 <= Shift(c)
    BY <1>2, <1>10
  <2>2. QED
    BY <1>9, <2>1
<1>14. QED
  BY <1>2, <1>6, <1>7, <1>9, <1>11, <1>12, <1>13 DEF R

\* The converted configuration has the outbounds that block nothing.
LEMMA ConvertedOutbounds ==
  ASSUME ConfigAssumption, NEW c \in Originals, ~ Refused(c)
  PROVE  /\ Present(Migrate(c)) = Present(c) \ Special(c)
         /\ \A t \in Present(c) \ Special(c) : Migrate(c).outbounds[t] = c.outbounds[t]
<1> DEFINE m == Migrate(c)
<1>1. c.outbounds \in [Tags -> Nat]
  BY DEF ConfigAssumption, Configs, Lists
<1>2. \A t \in Tags : m.outbounds[t] = IF t \in Special(c) THEN 0 ELSE c.outbounds[t]
  BY Converted
<1> HIDE DEF m
<1>3. Present(m) = Present(c) \ Special(c)
  BY <1>1, <1>2 DEF Present
<1>4. \A t \in Present(c) \ Special(c) : m.outbounds[t] = c.outbounds[t]
  BY <1>2 DEF Present
<1>5. QED
  BY <1>3, <1>4 DEF m

\* Nothing is left to convert: a second conversion changes nothing.
LEMMA Idempotent ==
  ASSUME ConfigAssumption, NEW c \in Originals, ~ Refused(c)
  PROVE  Migrate(Migrate(c)) = Migrate(c)
<1> DEFINE m == Migrate(c)
<1>1. m.servers = <<NewServer(c)>> /\ NewServer(c).form = "typed"
  BY Converted DEF NewServer, Refused, ConfigAssumption, Configs, Resolvers
<1>2. Special(m) = {} /\ OfType(m, "wireguard") = {}
  BY ConvertedOutbounds DEF Special, OfType, Refused
<1>3. ~ Refused(m)
  <2>1. m.dnsRule = "none" /\ ~ m.deprecated
    BY Converted DEF Refused
  <2>2. Len(m.servers) = 1 /\ m.servers[1].form = "typed"
    BY <1>1
  <2> HIDE DEF m
  <2>3. QED
    BY <1>2, <2>1, <2>2 DEF Refused
<1>4. NewServer(m) = NewServer(c)
  BY <1>1 DEF NewServer
<1>5. NewRules(m) = m.rules
  <2> DEFINE R == [match: {"net", "domain", "sniff"}, inbounds: SUBSET Inbounds,
                   to: Tags \cup {"reject", "none"}]
  <2>1. m.sniff = {} /\ m.rules \in Seq(R)
    BY Converted, ConvertedRules
  <2> HIDE DEF m, R
  <2>2. [i \in DOMAIN m.rules |-> ToReject(m.rules[i], Special(m))] = m.rules
    <3>1. \A r : ToReject(r, Special(m)) = r
      BY <1>2 DEF ToReject
    <3>2. m.rules = [i \in DOMAIN m.rules |-> m.rules[i]]
      BY <2>1, LenProperties
    <3>3. QED
      BY <3>1, <3>2, Zenon
  <2>3. <<>> \o m.rules = m.rules
    BY <2>1, ConcatEmptySeq
  <2>4. QED
    BY <2>1, <2>2, <2>3 DEF NewRules, SniffRule
<1>6. [t \in Tags |-> IF t \in Special(m) THEN 0 ELSE m.outbounds[t]] = m.outbounds
  BY <1>2, Converted
<1> DEFINE n == [m EXCEPT !.servers = <<NewServer(m)>>, !.dnsRule = "none", !.resolver = "server",
                          !.outbounds = [t \in Tags |-> IF t \in Special(m) THEN 0 ELSE @[t]],
                          !.rules = NewRules(m), !.sniff = SniffFlags(m)]
<1>7. Migrate(m) = n
  BY <1>3 DEF Migrate
<1>8. n = m
  <2>1. m = [servers |-> m.servers, dnsRule |-> m.dnsRule, resolver |-> m.resolver,
             outbounds |-> m.outbounds, rules |-> m.rules, sniff |-> m.sniff,
             deprecated |-> m.deprecated]
    BY Converted
  <2>2. m.dnsRule = "none" /\ m.resolver = "server" /\ m.sniff = {}
    BY Converted
  <2>3. m.servers = <<NewServer(m)>>
    BY <1>1, <1>4
  <2> HIDE DEF m
  <2>4. QED
    BY <1>5, <1>6, <2>1, <2>2, <2>3 DEF SniffFlags
<1>9. QED
  BY <1>7, <1>8

\* What a core does with a connection whose outbound is known.
Outcome(tag) == IF tag \in Tags /\ TypeOf[tag] = "block" THEN "reject" ELSE tag

\* The first rule that matches decides.
LEMMA FirstDecides ==
  ASSUME NEW c, NEW inbound, NEW kinds, NEW n \in Nat, DOMAIN c.rules = 1 .. n, NEW k \in 1 .. n,
         Matches(c, inbound, kinds, k),
         \A j \in 1 .. n : Matches(c, inbound, kinds, j) => k <= j
  PROVE  Verdict(c, inbound, kinds) = Outcome(c.rules[k].to)
<1> DEFINE hits  == {j \in DOMAIN c.rules : Matches(c, inbound, kinds, j)}
           first == CHOOSE i \in hits : \A j \in hits : i <= j
<1>1. hits \subseteq Nat /\ k \in hits /\ \A j \in hits : k <= j
  OBVIOUS
<1> HIDE DEF hits
<1>2. first \in hits /\ first <= k
  BY <1>1
<1> HIDE DEF first
<1>3. first = k /\ hits # {}
  BY <1>1, <1>2
<1>4. Verdict(c, inbound, kinds) = Outcome(IF hits = {} THEN Default(c) ELSE c.rules[first].to)
  BY Zenon DEF Verdict, Outcome, hits, first
<1>5. QED
  BY <1>3, <1>4

\* Without a rule that matches it is the first outbound.
LEMMA DefaultDecides ==
  ASSUME NEW c, NEW inbound, NEW kinds,
         \A j \in DOMAIN c.rules : ~ Matches(c, inbound, kinds, j)
  PROVE  Verdict(c, inbound, kinds) = Outcome(Default(c))
<1> DEFINE hits  == {j \in DOMAIN c.rules : Matches(c, inbound, kinds, j)}
           first == CHOOSE i \in hits : \A j \in hits : i <= j
<1>1. hits = {}
  OBVIOUS
<1> HIDE DEF hits, first
<1>2. Verdict(c, inbound, kinds) = Outcome(IF hits = {} THEN Default(c) ELSE c.rules[first].to)
  BY Zenon DEF Verdict, Outcome, hits, first
<1>3. QED
  BY <1>1, <1>2

\* A default that blocks nothing stays the default.
LEMMA SameDefault ==
  ASSUME ConfigAssumption, NEW c \in Originals, ~ Refused(c), Default(c) \notin Special(c)
  PROVE  Default(Migrate(c)) = Default(c)
<1> DEFINE m == Migrate(c)
           d == Default(c)
           e == Default(m)
<1>1. /\ c.outbounds \in [Tags -> Nat] /\ \E t \in Tags : c.outbounds[t] > 0
      /\ \A t, u \in Tags : c.outbounds[t] = c.outbounds[u] /\ c.outbounds[t] > 0 => t = u
  BY DEF ConfigAssumption, Configs, Lists
<1>2. d \in Present(c) /\ \A u \in Present(c) : c.outbounds[d] <= c.outbounds[u]
  <2>1. PICK t \in Present(c) : TRUE
    BY <1>1 DEF Present
  <2> DEFINE n == c.outbounds[t]
             T == {c.outbounds[u] : u \in {v \in Present(c) : c.outbounds[v] <= n}}
  <2>2. n \in Nat /\ T \subseteq 1 .. n /\ T # {}
    BY <1>1, <2>1 DEF Present
  <2>3. PICK x \in T : \A y \in T : x <= y
    <3> HIDE DEF T, n
    <3> QED
      BY <2>2, Least
  <2>4. PICK u \in Present(c) : c.outbounds[u] = x /\ x <= n
    BY <2>3
  <2>5. \A v \in Present(c) : c.outbounds[u] <= c.outbounds[v]
    <3> SUFFICES ASSUME NEW v \in Present(c) PROVE c.outbounds[u] <= c.outbounds[v]
      OBVIOUS
    <3>1. n \in Nat /\ c.outbounds[v] \in Nat /\ c.outbounds[u] \in Nat
      BY <1>1, <2>1, <2>4 DEF Present
    <3>2. CASE c.outbounds[v] <= n
      BY <2>3, <2>4, <3>2
    <3>3. QED
      BY <2>4, <3>1, <3>2
  <2>6. QED
    BY <2>5 DEF Default
<1>3. Present(m) = Present(c) \ Special(c)
      /\ \A t \in Present(m) : m.outbounds[t] = c.outbounds[t]
  BY ConvertedOutbounds
<1>4. d \in Present(m)
  BY <1>2, <1>3
<1> HIDE DEF m
<1>5. e \in Present(m) /\ \A u \in Present(m) : m.outbounds[e] <= m.outbounds[u]
  BY <1>2, <1>3, <1>4 DEF Default
<1> HIDE DEF d, e
<1>6. m.outbounds[d] = m.outbounds[e] /\ d \in Tags /\ e \in Tags
  BY <1>1, <1>2, <1>3, <1>4, <1>5 DEF Present
<1>7. d = e
  BY <1>1, <1>3, <1>4, <1>5, <1>6 DEF Present
<1>8. QED
  BY <1>7 DEF d, e, m

LEMMA RuleOf ==
  ASSUME ConfigAssumption, NEW c \in Originals, NEW k \in 1 .. Len(c.rules)
  PROVE  c.rules[k] \in Rules
<1>1. c.rules \in Seq(Rules)
  BY DEF ConfigAssumption, Configs
<1>2. QED
  BY <1>1, ElementOfSeq

\* What becomes of a rule.
LEMMA RuleConverted ==
  ASSUME NEW r \in Rules, NEW special
  PROVE  /\ r.match \in {"net", "domain"} /\ r.to \in Tags
         /\ ToReject(r, special).match = r.match
         /\ ToReject(r, special).to = IF r.to \in special THEN "reject" ELSE r.to
BY DEF Rules, Rule, ToReject

\* A rule matches in the converted configuration, at its new place, what it matched
\* before, the names it needs sniffed included.
LEMMA SameMatches ==
  ASSUME ConfigAssumption, NEW c \in Originals, ~ Refused(c),
         NEW inbound \in Inbounds, NEW kinds \in SUBSET {"net", "domain"}
  PROVE  /\ \A k \in 1 .. Len(c.rules) :
              Matches(Migrate(c), inbound, kinds, k + Shift(c)) <=> Matches(c, inbound, kinds, k)
         /\ c.sniff # {} => ~ Matches(Migrate(c), inbound, kinds, 1)
<1> DEFINE m == Migrate(c)
           s == Shift(c)
           n == Len(c.rules)
<1>1. n \in Nat /\ s \in {0, 1} /\ (s = 1 <=> c.sniff # {})
  BY ConvertedRules DEF Shift
<1>2. \A k \in 1 .. n : c.rules[k].match \in {"net", "domain"}
  BY RuleOf, RuleConverted
<1>3. m.sniff = {} /\ \A k \in 1 .. n : m.rules[k + s].match = c.rules[k].match
  <2>1. m.sniff = {} /\ m.rules = NewRules(c)
    BY Converted
  <2>2. ASSUME NEW k \in 1 .. n PROVE NewRules(c)[k + s].match = c.rules[k].match
    <3>1. NewRules(c)[k + s] = ToReject(c.rules[k], Special(c))
      BY ConvertedRules
    <3>2. c.rules[k] \in Rules
      BY RuleOf
    <3>3. QED
      BY <3>1, <3>2, RuleConverted
  <2>3. QED
    BY <2>1, <2>2
<1>4. c.sniff # {} => m.rules[1] = [match |-> "sniff", inbounds |-> c.sniff, to |-> "none"]
  BY Converted, ConvertedRules
<1> HIDE DEF m, n, s
<1>5. ASSUME NEW k \in 1 .. n
      PROVE  (\E j \in 1 .. (k + s) - 1 : m.rules[j].match = "sniff" /\ inbound \in m.rules[j].inbounds)
               <=> inbound \in c.sniff
  <2>1. CASE s = 0
    <3>1. \A j \in 1 .. (k + s) - 1 : j \in 1 .. n /\ j + s = j
      BY <1>1, <2>1
    <3>2. \A j \in 1 .. (k + s) - 1 : m.rules[j].match # "sniff"
      BY <1>2, <1>3, <3>1
    <3>3. QED
      BY <1>1, <2>1, <3>2
  <2>2. CASE s = 1
    <3>1. 1 \in 1 .. (k + s) - 1
      BY <1>1, <2>2
    <3>2. ASSUME NEW j \in 1 .. (k + s) - 1, j # 1 PROVE m.rules[j].match # "sniff"
      <4>1. j - 1 \in 1 .. n /\ (j - 1) + s = j
        BY <1>1, <2>2, <3>2
      <4>2. QED
        BY <1>2, <1>3, <4>1
    <3>3. m.rules[1].match = "sniff" /\ m.rules[1].inbounds = c.sniff
      BY <1>1, <1>4, <2>2
    <3>4. QED
      BY <3>1, <3>2, <3>3
  <2>3. QED
    BY <1>1, <2>1, <2>2
<1>6. ASSUME NEW k \in 1 .. n
      PROVE  Matches(m, inbound, kinds, k + s) <=> Matches(c, inbound, kinds, k)
  <2>1. \A j \in 1 .. k - 1 : c.rules[j].match # "sniff"
    BY <1>1, <1>2
  <2>2. QED
    BY <1>3, <1>5, <2>1 DEF Matches
<1>7. c.sniff # {} => ~ Matches(m, inbound, kinds, 1)
  BY <1>4 DEF Matches
<1>8. QED
  BY <1>6, <1>7 DEF m, n, s

\* The converted configuration does with every connection what the original did.
LEMMA PolicyKept ==
  ASSUME ConfigAssumption, NEW c \in Originals, ~ Refused(c), Default(c) \notin Special(c),
         NEW inbound \in Inbounds, NEW kinds \in SUBSET {"net", "domain"}
  PROVE  Verdict(Migrate(c), inbound, kinds) = Verdict(c, inbound, kinds)
<1> DEFINE m == Migrate(c)
           s == Shift(c)
           n == Len(c.rules)
           T == {k \in 1 .. n : Matches(c, inbound, kinds, k)}
<1>1. /\ n \in Nat /\ s \in {0, 1} /\ (s = 1 <=> c.sniff # {})
      /\ DOMAIN c.rules = 1 .. n /\ DOMAIN m.rules = 1 .. (n + s)
  <2>1. m.rules = NewRules(c)
    BY Converted
  <2>2. s \in {0, 1} /\ (s = 1 <=> c.sniff # {})
    BY DEF Shift
  <2>3. QED
    BY <2>1, <2>2, ConvertedRules
<1>2. /\ \A k \in 1 .. n : Matches(m, inbound, kinds, k + s) <=> k \in T
      /\ s = 1 => ~ Matches(m, inbound, kinds, 1)
  BY <1>1, SameMatches
<1>3. \A k \in 1 .. n :
        /\ c.rules[k].to \in Tags
        /\ m.rules[k + s].to = IF c.rules[k].to \in Special(c) THEN "reject" ELSE c.rules[k].to
  <2>1. m.rules = NewRules(c)
    BY Converted
  <2>2. ASSUME NEW k \in 1 .. n
        PROVE  NewRules(c)[k + s].to =
                 IF c.rules[k].to \in Special(c) THEN "reject" ELSE c.rules[k].to
    <3>1. NewRules(c)[k + s] = ToReject(c.rules[k], Special(c))
      BY ConvertedRules
    <3>2. QED
      BY <3>1, RuleOf, RuleConverted
  <2>3. QED
    BY <2>1, <2>2, RuleOf, RuleConverted
<1>4. T \subseteq 1 .. n /\ \A k \in 1 .. n : Matches(c, inbound, kinds, k) <=> k \in T
  OBVIOUS
<1> HIDE DEF m, s, n, T
<1>5. ASSUME NEW j \in 1 .. (n + s), Matches(m, inbound, kinds, j) PROVE j - s \in T
  <2>1. j - s \in 1 .. n /\ (j - s) + s = j
    BY <1>1, <1>2, <1>5
  <2>2. QED
    BY <1>2, <1>5, <2>1
<1>6. CASE T = {}
  <2>1. Verdict(c, inbound, kinds) = Outcome(Default(c))
    BY <1>1, <1>4, <1>6, DefaultDecides
  <2>2. Verdict(m, inbound, kinds) = Outcome(Default(m))
    BY <1>1, <1>5, <1>6, DefaultDecides
  <2>3. QED
    BY <2>1, <2>2, SameDefault DEF m
<1>7. CASE T # {}
  <2>1. PICK k \in T : \A j \in T : k <= j
    BY <1>1, <1>4, <1>7, Least
  <2>2. Verdict(c, inbound, kinds) = Outcome(c.rules[k].to)
    <3>1. k \in 1 .. n /\ Matches(c, inbound, kinds, k)
          /\ \A j \in 1 .. n : Matches(c, inbound, kinds, j) => k <= j
      BY <1>4, <2>1
    <3>2. QED
      BY <1>1, <3>1, FirstDecides
  <2>3. Verdict(m, inbound, kinds) = Outcome(m.rules[k + s].to)
    <3>1. k + s \in 1 .. (n + s) /\ n + s \in Nat /\ Matches(m, inbound, kinds, k + s)
      BY <1>1, <1>2, <1>4, <2>1
    <3>2. ASSUME NEW j \in 1 .. (n + s), Matches(m, inbound, kinds, j) PROVE k + s <= j
      BY <1>1, <1>4, <1>5, <2>1, <3>2
    <3>3. QED
      BY <1>1, <3>1, <3>2, FirstDecides
  <2>4. Outcome(m.rules[k + s].to) = Outcome(c.rules[k].to)
    <3>1. "reject" \notin Tags
      BY DEF ConfigAssumption
    <3>2. QED
      BY <1>3, <1>4, <2>1, <3>1 DEF Outcome, Special, OfType
  <2>5. QED
    BY <2>2, <2>3, <2>4 DEF m
<1>8. QED
  BY <1>6, <1>7

\* A configuration that is refused is never touched.
Untouched ==
  Refused(original) => file = AllOld /\ backups = <<>> /\ pc = "idle" /\ core = "old"

MigrationInv == original \in Originals /\ Untouched

LEMMA MigrationKept == ASSUME ConfigAssumption PROVE MigrationSpec => []MigrationInv
<1>1. MigrationInit => MigrationInv
  BY DEF MigrationInit, MigrationInv, Untouched, Init
<1>2. MigrationInv /\ [MigrationNext]_<<vars, original>> => MigrationInv'
  <2> SUFFICES ASSUME MigrationInv, [MigrationNext]_<<vars, original>>, Refused(original)
               PROVE  Untouched'
    BY DEF MigrationInv, Untouched, MigrationNext, vars, Refused, OfType, Present
  <2>1. file = AllOld /\ backups = <<>> /\ pc = "idle" /\ core = "old"
    BY DEF MigrationInv, Untouched
  <2>2. ~ Checks(Migrate(Content(file["active"])))
    BY <2>1 DEF AllOld, Names, Content, Migrate, Checks
  <2>3. CASE MigrationNext
    <3>1. ~ Apply /\ ~ Rollback
      BY <2>1, <2>2, <2>3 DEF MigrationNext, Rollback
    <3>2. CASE Reboot
      BY <2>1, <3>2 DEF Reboot, Goto, Untouched, Started, AllOld, Names
    <3>3. QED
      BY <2>1, <2>3, <3>1, <3>2
         DEF MigrationNext, Next, CopyNext, PublishManifest, PublishNext, RestartCore, CheckCore,
             Except, RestoreNext, RestartOld, RestartBack, End
  <2>4. CASE UNCHANGED <<vars, original>>
    BY <2>1, <2>4 DEF vars, Untouched
  <2>5. QED
    BY <2>3, <2>4
<1>3. QED
  BY <1>1, <1>2, PTL DEF MigrationSpec

\* A rerun of upgrade_server_core.py converts what an interrupted one left active, and
\* arrives at the same configuration, whatever was configured.
THEOREM RerunsAgree == ASSUME ConfigAssumption PROVE MigrationSpec => []RerunStable
<1>1. MigrationInv => RerunStable
  <2> SUFFICES ASSUME MigrationInv, pc = "publish"
               PROVE  Migrate(Content(file["active"])) = Content("new")
    BY DEF RerunStable
  <2>1. original \in Originals /\ ~ Refused(original)
    BY DEF MigrationInv, Untouched
  <2>2. QED
    BY <2>1, Idempotent DEF Content
<1>2. QED
  BY <1>1, MigrationKept, PTL

\* The new core admits and rejects what the old one did (current_server_config), for
\* any number of rules, outbounds and inbounds.
THEOREM PolicySurvives == ASSUME ConfigAssumption PROVE MigrationSpec => []SamePolicy
<1>1. MigrationInv => SamePolicy
  <2> SUFFICES ASSUME MigrationInv, core = "new", Default(original) \notin Special(original),
                      NEW inbound \in Inbounds, NEW kinds \in SUBSET {"net", "domain"}
               PROVE  Verdict(Content("new"), inbound, kinds) = Verdict(original, inbound, kinds)
    BY DEF SamePolicy
  <2>1. original \in Originals /\ ~ Refused(original)
    BY DEF MigrationInv, Untouched
  <2>2. QED
    BY <2>1, PolicyKept DEF Content
<1>2. QED
  BY <1>1, MigrationKept, PTL
==============================================================================
