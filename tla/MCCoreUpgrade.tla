---------------------------- MODULE MCCoreUpgrade ----------------------------
(* TLC instance of CoreMigration: one outbound of each type but "other", one  *)
(* or two resolvers, up to two rules.                                         *)
EXTENDS CoreMigration

Types == [drop |-> "block", wg |-> "wireguard", direct |-> "direct"]

Listed(tags) == [t \in Tags |-> IF \E i \in DOMAIN tags : tags[i] = t
                                THEN CHOOSE i \in DOMAIN tags : tags[i] = t ELSE 0]
Found ==
  {<<[form |-> "legacy", private |-> p, detour |-> d]>> : p \in BOOLEAN, d \in {"none", "direct"}}
    \cup {<<[form |-> "typed", private |-> FALSE, detour |-> d]>> : d \in {"none", "drop"}}
Some == {Rule(m, t) : m \in {"net", "domain"}, t \in {"drop", "direct"}}
SomeOriginals ==
  [servers: Found \cup {s \o s : s \in Found},
   dnsRule: {"none", "any", "custom"}, resolver: {"none"},
   outbounds: {Listed(<<"direct">>), Listed(<<"direct", "drop">>), Listed(<<"drop", "direct">>),
               Listed(<<"wg", "direct", "drop">>)},
   rules: {<<>>} \cup {<<r>> : r \in Some} \cup {<<r, s>> : r \in Some, s \in Some},
   sniff: {{}, {"in1"}}, deprecated: BOOLEAN]
=============================================================================
