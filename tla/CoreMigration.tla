---------------------------- MODULE CoreMigration ----------------------------
(***************************************************************************)
(* CoreUpgrade with the configuration that is converted:                   *)
(* current_server_config of upgrade_server_core.py, and what a core does   *)
(* with a connection before and after.                                     *)
(*                                                                         *)
(* A configuration is reduced to its resolver, inbounds, outbounds and the *)
(* rules between them.  A rule matches what any core sees of a connection  *)
(* ("net") or what it must sniff first ("domain").  The first rule that    *)
(* matches decides; the first outbound is the default.                     *)
(***************************************************************************)
EXTENDS CoreUpgrade

CONSTANTS
  Tags,      \* of outbounds
  TypeOf,    \* the type of each
  Inbounds,
  Originals  \* configurations a server of the old core may have

VARIABLE original  \* the configuration found before the first upgrade

Rule(match, to)  == [match |-> match, inbounds |-> Inbounds, to |-> to]
Rules            == {Rule(m, t) : m \in {"net", "domain"}, t \in Tags}
Resolvers        == [form: {"legacy", "typed"}, private: BOOLEAN, detour: Tags \cup {"none"}]
Rejected         == [servers |-> <<>>]

\* The outbounds in their order: the place of each tag, 0 if there is none of it.
Lists == {f \in [Tags -> Nat] : /\ \E t \in Tags : f[t] > 0
                               /\ \A t, u \in Tags : f[t] = f[u] /\ f[t] > 0 => t = u}

\* Configurations, some beyond what is converted; custom: DNS rules other than the one
\* that sends every lookup to the resolver; deprecated: a field of an inbound that is
\* not converted.
Configs ==
  [servers: Seq(Resolvers), dnsRule: {"none", "any", "custom"}, resolver: {"none"},
   outbounds: Lists, rules: Seq(Rules), sniff: SUBSET Inbounds, deprecated: BOOLEAN]

ASSUME ConfigAssumption ==
  /\ TypeOf \in [Tags -> {"block", "wireguard", "direct", "other"}]
  /\ Tags \cap {"none", "reject"} = {}
  /\ Originals \subseteq Configs

-----------------------------------------------------------------------------
Present(c)      == {t \in Tags : c.outbounds[t] > 0}
OfType(c, type) == {t \in Present(c) : TypeOf[t] = type}
Special(c)      == OfType(c, "block")

\* A rule that leads to a block outbound rejects by itself.
ToReject(r, special) == IF r.to \in special THEN [r EXCEPT !.to = "reject"] ELSE r

\* The inbounds that sniffed, in one rule.
SniffRule(c) ==
  IF c.sniff = {} THEN <<>> ELSE <<[match |-> "sniff", inbounds |-> c.sniff, to |-> "none"]>>

\* Mutant: the sniff rule is appended.
NewRules_SniffLast(c) ==
  [i \in DOMAIN c.rules |-> ToReject(c.rules[i], Special(c))] \o SniffRule(c)

NewRules(c) ==
  SniffRule(c) \o [i \in DOMAIN c.rules |-> ToReject(c.rules[i], Special(c))]

\* Mutant: the inbounds keep their flag (get for pop).
SniffFlags_Kept(c) == c.sniff

\* The flag is popped from the inbounds.
SniffFlags(c) == {}

\* The resolver in typed form: a detour through a direct outbound is dropped.
NewServer(c) ==
  LET old == c.servers[1] IN
  IF old.form = "typed" THEN old
  ELSE [form |-> "typed", private |-> TRUE,
        detour |-> IF old.detour \in OfType(c, "direct") THEN "none" ELSE old.detour]

\* What the conversion refuses, to be reviewed by hand.
Refused(c) ==
  \/ Len(c.servers) # 1
  \/ c.servers[1].form = "legacy" /\ ~ c.servers[1].private
  \/ c.dnsRule = "custom"
  \/ OfType(c, "wireguard") # {}
  \/ c.deprecated

\* current_server_config: block outbounds become rejecting rules, sniffing inbounds
\* become one rule before all others.
Migrate(c) ==
  IF Refused(c) THEN Rejected
  ELSE [c EXCEPT !.servers = <<NewServer(c)>>, !.dnsRule = "none", !.resolver = "server",
                 !.outbounds = [t \in Tags |-> IF t \in Special(c) THEN 0 ELSE @[t]],
                 !.rules = NewRules(c), !.sniff = SniffFlags(c)]

\* "check" of the new core: every tag that is named exists.
Checks(c) ==
  /\ c # Rejected
  /\ c.servers[1].detour \in Present(c) \cup {"none"}
  /\ \A i \in DOMAIN c.rules : c.rules[i].to \in Present(c) \cup {"reject", "none"}

-----------------------------------------------------------------------------
\* The content of the active configuration of a version.
Content(version) == IF version = "old" THEN original ELSE Migrate(original)

MigrationInit == Init /\ original \in Originals

\* Before the backup: the active configuration is converted and checked.
MigrationNext ==
  /\ Next
  /\ Apply => Checks(Migrate(Content(file["active"])))
  /\ UNCHANGED original

MigrationSpec == MigrationInit /\ [][MigrationNext]_<<vars, original>>

-----------------------------------------------------------------------------
\* The outbound of a connection no rule matches.
Default(c) ==
  CHOOSE t \in Present(c) : \A u \in Present(c) : c.outbounds[t] <= c.outbounds[u]

\* The rule holds of the connection; a name must have been sniffed for it.
Matches(c, inbound, kinds, k) ==
  /\ c.rules[k].match \in kinds
  /\ c.rules[k].match = "domain" =>
       \/ inbound \in c.sniff
       \/ \E j \in 1 .. k - 1 : c.rules[j].match = "sniff" /\ inbound \in c.rules[j].inbounds

\* What a core of configuration c does with a connection from an inbound, of which
\* the rules in "kinds" hold.
Verdict(c, inbound, kinds) ==
  LET hits  == {k \in DOMAIN c.rules : Matches(c, inbound, kinds, k)}
      first == CHOOSE k \in hits : \A j \in hits : k <= j
      tag   == IF hits = {} THEN Default(c) ELSE c.rules[first].to
  IN  IF tag \in Tags /\ TypeOf[tag] = "block" THEN "reject" ELSE tag

\* A new core that runs, after any upgrade, rerun, failure or boot, lets through
\* and rejects what the old one did, rule by rule and by default (unless a block
\* outbound stood first and was the default: then the default becomes direct).
SamePolicy ==
  core = "new" /\ Default(original) \notin Special(original) =>
    \A inbound \in Inbounds, kinds \in SUBSET {"net", "domain"} :
      Verdict(Content("new"), inbound, kinds) = Verdict(original, inbound, kinds)

\* A rerun of the upgrade converts what an interrupted one left active, and arrives
\* at the same configuration.
RerunStable == pc = "publish" => Migrate(Content(file["active"])) = Content("new")
=============================================================================
