----------------------- MODULE HostMaintenanceProofs -----------------------
(***************************************************************************)
(* For every server with orderly rules, any number of starts of the        *)
(* hardening and the remediation, and whatever fails, is killed, reboots   *)
(* or updates the resolver between their steps: types, that access is kept *)
(* and nothing opened after every command, and that a remediation and a    *)
(* hardening are whole or undone.                                          *)
(*                                                                         *)
(* Sound compares a set of rules with those the server came with, in terms *)
(* of the lists that are read.  Each command is Safe: it keeps rules sound *)
(* where it is run.  Two of the hardening's are so only because of rules   *)
(* added before (Ensured): the policy of INPUT, for what SSH and the other *)
(* services need, and the acceptance of established connections, for the   *)
(* metadata address.                                                       *)
(*                                                                         *)
(* Laid says which rules of the hardening are in place before each of its  *)
(* commands; after the last, usual rules route what lies behind the WAN    *)
(* and nothing else, and every command would find its work done.           *)
(***************************************************************************)
EXTENDS HostMaintenance, SequenceTheorems, FiniteSetTheorems, TLAPS

-----------------------------------------------------------------------------
(* Sequences.                                                                  *)

\* A set of numbers up to n has a least one.
LEMMA Least ==
  ASSUME NEW n \in Nat, NEW T, T \subseteq 1 .. n, T # {}
  PROVE  \E x \in T : \A y \in T : x <= y
<1> DEFINE S == 1 .. n
           D == {1 .. x : x \in T}
<1>1. IsWellFoundedOn(StrictSubsetOrdering(S), SUBSET S)
  <2>1. IsFiniteSet(S)
    BY FS_Interval
  <2>2. QED
    BY <2>1, FS_FiniteSubsetsOfFinite, FS_StrictSubsetOrderingWellFounded, Zenon
<1>2. D \subseteq SUBSET S /\ D # {}
  <2>1. \A x \in T : 1 .. x \subseteq S
    OBVIOUS
  <2>2. QED
    BY <2>1
<1> HIDE DEF D
<1>3. PICK d \in D : \A e \in D : ~ (<<e, d>> \in StrictSubsetOrdering(S))
  BY <1>1, <1>2, WFMin
<1>4. PICK x \in T : d = 1 .. x
  BY DEF D
<1>5. ASSUME NEW y \in T PROVE x <= y
  <2>1. 1 .. y \in D
    BY DEF D
  <2>2. ~ (1 .. y \subseteq 1 .. x /\ 1 .. y # 1 .. x)
    BY <1>2, <1>3, <1>4, <2>1 DEF StrictSubsetOrdering
  <2>3. x \in Nat /\ y \in Nat /\ 1 <= x
    OBVIOUS
  <2>4. y < x => x \in 1 .. x /\ x \notin 1 .. y /\ 1 .. y \subseteq 1 .. x
    BY <2>3
  <2>5. QED
    BY <2>2, <2>3, <2>4
<1>6. QED
  BY <1>5

\* What iptables -D leaves of a list that has the rule.
LEMMA Deleted ==
  ASSUME NEW S, NEW s \in Seq(S), NEW e, Contains(s, e)
  PROVE  /\ RemoveFirst(s, e) \in Seq(S)
         /\ Len(RemoveFirst(s, e)) = Len(s) - 1
         /\ \E k \in 1 .. Len(s) :
              /\ s[k] = e
              /\ \A i \in 1 .. Len(s) - 1 :
                   RemoveFirst(s, e)[i] = IF i < k THEN s[i] ELSE s[i + 1]
<1> DEFINE I == {i \in 1 .. Len(s) : s[i] = e}
           k == Min(I)
           a == SubSeq(s, 1, k - 1)
           b == SubSeq(s, k + 1, Len(s))
<1>1. I # {} /\ I \subseteq 1 .. Len(s) /\ Len(s) \in Nat
  BY DEF Contains
<1>2. k \in I
  <2>1. \E x \in I : \A y \in I : x <= y
    BY <1>1, Least, Zenon
  <2> QED
    BY <2>1 DEF Min
<1>3. RemoveFirst(s, e) = a \o b
  <2>1. SelectInSeq(s, LAMBDA v : v = e) = k
    BY <1>1 DEF SelectInSeq
  <2> QED
    BY <1>1, <1>2, <2>1 DEF RemoveFirst, RemoveAt
<1>4. k \in 1 .. Len(s) /\ s[k] = e
  BY <1>2
<1> HIDE DEF k, I
<1>5. /\ a \in Seq(S) /\ Len(a) = k - 1 /\ \A i \in 1 .. k - 1 : a[i] = s[i]
      /\ b \in Seq(S) /\ Len(b) = Len(s) - k /\ \A i \in 1 .. Len(s) - k : b[i] = s[i + k]
  BY <1>4
<1> HIDE DEF a, b
<1>6. /\ a \o b \in Seq(S) /\ Len(a \o b) = Len(s) - 1
      /\ \A i \in 1 .. Len(s) - 1 : (a \o b)[i] = IF i < k THEN s[i] ELSE s[i + 1]
  <2>1. a \o b \in Seq(S) /\ Len(a \o b) = Len(a) + Len(b)
    BY <1>5, ConcatProperties
  <2>2. ASSUME NEW i \in 1 .. Len(s) - 1
        PROVE  (a \o b)[i] = IF i < k THEN s[i] ELSE s[i + 1]
    <3>1. CASE i < k
      BY <1>4, <1>5, <3>1
    <3>2. CASE ~ (i < k)
      <4>1. (a \o b)[i] = b[i - (k - 1)] /\ i - (k - 1) \in 1 .. Len(s) - k
        BY <1>4, <1>5, <3>2
      <4>2. b[i - (k - 1)] = s[(i - (k - 1)) + k] /\ (i - (k - 1)) + k = i + 1
        BY <1>4, <1>5, <4>1
      <4> QED
        BY <3>2, <4>1, <4>2
    <3> QED
      BY <3>1, <3>2
  <2> QED
    BY <1>4, <1>5, <2>1, <2>2
<1> QED
  BY <1>3, <1>4, <1>6

-----------------------------------------------------------------------------
(* What the operations of iptables do to a list of rules.                      *)

Has(rules, x) == \E i \in DOMAIN rules : rules[i] = x

\* -A: the new rule decides what no other one does.
LEMMA Appended ==
  ASSUME NEW L \in Seq(Rules), NEW r \in Rules, NEW p
  PROVE  /\ Append(L, r) \in Seq(Rules)
         /\ Skips(Append(L, r), p) <=> Skips(L, p) /\ p \notin r.on
         /\ Accepted(Append(L, r), p) <=>
              Accepted(L, p) \/ (Skips(L, p) /\ p \in r.on /\ r.do = "ACCEPT")
         /\ \A x : Has(Append(L, r), x) <=> Has(L, x) \/ x = r
<1> DEFINE M == Append(L, r)
           n == Len(L)
<1>1. /\ n \in Nat /\ DOMAIN L = 1 .. n /\ M \in Seq(Rules) /\ DOMAIN M = 1 .. n + 1
      /\ \A i \in 1 .. n : M[i] = L[i]
      /\ M[n + 1] = r
  OBVIOUS
<1> HIDE DEF M, n
<1>2. Skips(M, p) <=> Skips(L, p) /\ p \notin r.on
  BY <1>1 DEF Skips
<1>3. ASSUME Accepted(M, p) PROVE Accepted(L, p) \/ (Skips(L, p) /\ p \in r.on /\ r.do = "ACCEPT")
  <2>1. PICK i \in 1 .. n + 1 : /\ p \in M[i].on /\ M[i].do = "ACCEPT"
                                /\ \A j \in 1 .. i - 1 : p \notin M[j].on
    BY <1>1, <1>3 DEF Accepted
  <2>2. CASE i \in 1 .. n
    BY <1>1, <2>1, <2>2 DEF Accepted
  <2>3. CASE i = n + 1
    BY <1>1, <2>1, <2>3 DEF Skips
  <2> QED
    BY <1>1, <2>2, <2>3
<1>4. ASSUME Accepted(L, p) PROVE Accepted(M, p)
  <2>1. PICK i \in 1 .. n : /\ p \in L[i].on /\ L[i].do = "ACCEPT"
                            /\ \A j \in 1 .. i - 1 : p \notin L[j].on
    BY <1>1, <1>4 DEF Accepted
  <2>2. \A j \in 1 .. i - 1 : p \notin M[j].on
    BY <1>1, <2>1
  <2> QED
    BY <1>1, <2>1, <2>2 DEF Accepted
<1>5. ASSUME Skips(L, p), p \in r.on, r.do = "ACCEPT" PROVE Accepted(M, p)
  BY <1>1, <1>5 DEF Skips, Accepted
<1>6. \A x : Has(M, x) <=> Has(L, x) \/ x = r
  BY <1>1 DEF Has
<1> QED
  BY <1>1, <1>2, <1>3, <1>4, <1>5, <1>6 DEF M

\* -I 1: the new rule decides what it matches.
LEMMA Inserted ==
  ASSUME NEW L \in Seq(Rules), NEW r \in Rules, NEW p
  PROVE  /\ <<r>> \o L \in Seq(Rules)
         /\ Skips(<<r>> \o L, p) <=> Skips(L, p) /\ p \notin r.on
         /\ Accepted(<<r>> \o L, p) <=>
              IF p \in r.on THEN r.do = "ACCEPT" ELSE Accepted(L, p)
         /\ \A x : Has(<<r>> \o L, x) <=> Has(L, x) \/ x = r
<1> DEFINE M == <<r>> \o L
           n == Len(L)
<1>1. /\ n \in Nat /\ DOMAIN L = 1 .. n /\ M \in Seq(Rules) /\ DOMAIN M = 1 .. n + 1
      /\ \A i \in 1 .. n : M[i + 1] = L[i]
      /\ M[1] = r
  OBVIOUS
<1> HIDE DEF M, n
<1>2. \A i \in 1 .. n + 1 : i = 1 \/ (i - 1 \in 1 .. n /\ M[i] = L[i - 1])
  BY <1>1
<1>0. \A i \in 1 .. n : i + 1 \in 1 .. n + 1
  BY <1>1
<1>3. Skips(M, p) <=> Skips(L, p) /\ p \notin r.on
  <2>1. ASSUME Skips(M, p) PROVE Skips(L, p) /\ p \notin r.on
    <3>1. 1 \in 1 .. n + 1
      BY <1>1
    <3>2. ASSUME NEW i \in 1 .. n PROVE p \notin L[i].on
      <4>1. i + 1 \in 1 .. n + 1 /\ M[i + 1] = L[i]
        BY <1>0, <1>1
      <4> QED
        BY <1>1, <2>1, <4>1 DEF Skips
    <3> QED
      BY <1>1, <2>1, <3>1, <3>2 DEF Skips
  <2>2. ASSUME Skips(L, p), p \notin r.on PROVE Skips(M, p)
    BY <1>1, <1>2, <2>2 DEF Skips
  <2> QED
    BY <2>1, <2>2
<1>4. p \in r.on => (Accepted(M, p) <=> r.do = "ACCEPT")
  BY <1>1 DEF Accepted
<1>5. ASSUME p \notin r.on, Accepted(M, p) PROVE Accepted(L, p)
  <2>1. PICK i \in 1 .. n + 1 : /\ p \in M[i].on /\ M[i].do = "ACCEPT"
                                /\ \A j \in 1 .. i - 1 : p \notin M[j].on
    BY <1>1, <1>5 DEF Accepted
  <2>2. i - 1 \in 1 .. n /\ M[i] = L[i - 1]
    BY <1>1, <1>2, <1>5, <2>1
  <2>3. \A j \in 1 .. (i - 1) - 1 : p \notin L[j].on
    <3>1. \A j \in 1 .. (i - 1) - 1 : j + 1 \in 1 .. i - 1 /\ j \in 1 .. n
      BY <1>1, <2>2
    <3> QED
      BY <1>1, <2>1, <3>1
  <2> QED
    BY <1>1, <2>1, <2>2, <2>3 DEF Accepted
<1>6. ASSUME p \notin r.on, Accepted(L, p) PROVE Accepted(M, p)
  <2>1. PICK i \in 1 .. n : /\ p \in L[i].on /\ L[i].do = "ACCEPT"
                            /\ \A j \in 1 .. i - 1 : p \notin L[j].on
    BY <1>1, <1>6 DEF Accepted
  <2>2. i + 1 \in 1 .. n + 1 /\ M[i + 1] = L[i]
    BY <1>1
  <2>3. \A j \in 1 .. (i + 1) - 1 : p \notin M[j].on
    <3>1. \A j \in 1 .. (i + 1) - 1 : j = 1 \/ (j - 1 \in 1 .. i - 1 /\ M[j] = L[j - 1])
      BY <1>1, <1>2
    <3> QED
      BY <1>1, <1>6, <2>1, <3>1
  <2> QED
    BY <1>1, <2>1, <2>2, <2>3 DEF Accepted
<1>7. ASSUME NEW x PROVE Has(M, x) <=> Has(L, x) \/ x = r
  <2>1. ASSUME Has(M, x) PROVE Has(L, x) \/ x = r
    BY <1>1, <1>2, <2>1 DEF Has
  <2>2. ASSUME NEW i \in 1 .. n, L[i] = x PROVE Has(M, x)
    <3>1. i + 1 \in 1 .. n + 1 /\ M[i + 1] = x
      BY <1>0, <1>1, <2>2
    <3> QED
      BY <1>1, <3>1 DEF Has
  <2>3. ASSUME x = r PROVE Has(M, x)
    <3>1. 1 \in 1 .. n + 1 /\ M[1] = x
      BY <1>1, <2>3
    <3> QED
      BY <1>1, <3>1 DEF Has
  <2> QED
    BY <1>1, <2>1, <2>2, <2>3 DEF Has
<1> QED
  BY <1>1, <1>3, <1>4, <1>5, <1>6, <1>7 DEF M

\* -D of an accepting rule: nothing it did not accept is accepted.
LEMMA Shortened ==
  ASSUME NEW L \in Seq(Rules), NEW r \in Rules, NEW p
  PROVE  /\ RemoveFirst(L, r) \in Seq(Rules)
         /\ \A x : Has(RemoveFirst(L, r), x) => Has(L, x)
         /\ r.do = "ACCEPT" =>
              /\ Accepted(RemoveFirst(L, r), p) => Accepted(L, p)
              /\ Skips(RemoveFirst(L, r), p) => Skips(L, p) \/ Accepted(L, p)
<1>1. CASE ~ Contains(L, r)
  BY <1>1 DEF RemoveFirst, Contains
<1>2. CASE Contains(L, r)
  <2> DEFINE M == RemoveFirst(L, r)
             n == Len(L)
  <2>1. /\ n \in Nat /\ DOMAIN L = 1 .. n /\ M \in Seq(Rules) /\ DOMAIN M = 1 .. n - 1
    BY <1>2, Deleted
  <2>2. PICK k \in 1 .. n : /\ L[k] = r
                            /\ \A i \in 1 .. n - 1 : M[i] = IF i < k THEN L[i] ELSE L[i + 1]
    BY <1>2, Deleted
  <2> HIDE DEF M, n
  <2>3. \A j \in 1 .. n : j < k => j \in 1 .. n - 1 /\ M[j] = L[j]
    BY <2>1, <2>2
  <2>4. \A j \in 1 .. n : j > k => j - 1 \in 1 .. n - 1 /\ M[j - 1] = L[j]
    <3>1. ASSUME NEW j \in 1 .. n, j > k PROVE j - 1 \in 1 .. n - 1 /\ M[j - 1] = L[j]
      <4>1. j - 1 \in 1 .. n - 1 /\ ~ (j - 1 < k) /\ (j - 1) + 1 = j
        BY <2>1, <2>2, <3>1
      <4> QED
        BY <2>2, <4>1
    <3> QED
      BY <3>1
  <2>5. \A x : Has(M, x) => Has(L, x)
    <3>1. \A i \in 1 .. n - 1 : i \in 1 .. n /\ i + 1 \in 1 .. n
      BY <2>1
    <3> QED
      BY <2>1, <2>2, <3>1 DEF Has
  <2>6. ASSUME r.do = "ACCEPT", \A j \in 1 .. k - 1 : p \notin L[j].on, p \in r.on
        PROVE  Accepted(L, p)
    BY <2>1, <2>2, <2>6 DEF Accepted
  <2>7. ASSUME r.do = "ACCEPT", Skips(M, p) PROVE Skips(L, p) \/ Accepted(L, p)
    <3>1. ASSUME NEW j \in 1 .. n, j # k PROVE p \notin L[j].on
      <4>1. CASE j < k
        BY <2>1, <2>3, <2>7, <4>1 DEF Skips
      <4>2. CASE j > k
        <5>1. j - 1 \in 1 .. n - 1 /\ M[j - 1] = L[j]
          BY <2>4, <4>2
        <5> QED
          BY <2>1, <2>7, <5>1 DEF Skips
      <4> QED
        BY <2>1, <3>1, <4>1, <4>2
    <3>2. CASE p \in r.on
      BY <2>1, <2>2, <2>6, <2>7, <3>1, <3>2
    <3>3. CASE p \notin r.on
      BY <2>1, <2>2, <3>1, <3>3 DEF Skips
    <3> QED
      BY <3>2, <3>3
  <2>8. ASSUME r.do = "ACCEPT", Accepted(M, p) PROVE Accepted(L, p)
    <3>1. PICK i \in 1 .. n - 1 : /\ p \in M[i].on /\ M[i].do = "ACCEPT"
                                  /\ \A j \in 1 .. i - 1 : p \notin M[j].on
      BY <2>1, <2>8 DEF Accepted
    <3>2. CASE i < k
      <4>1. M[i] = L[i] /\ i \in 1 .. n /\ \A j \in 1 .. i - 1 : p \notin L[j].on
        BY <2>1, <2>2, <3>1, <3>2
      <4> QED
        BY <2>1, <3>1, <4>1 DEF Accepted
    <3>3. CASE ~ (i < k)
      <4>1. M[i] = L[i + 1] /\ i + 1 \in 1 .. n
        BY <2>1, <2>2, <3>3
      <4>2. \A j \in 1 .. k - 1 : p \notin L[j].on
        BY <2>1, <2>2, <2>3, <3>1, <3>3
      <4>3. ASSUME p \notin r.on, NEW j \in 1 .. (i + 1) - 1 PROVE p \notin L[j].on
        <5>1. j < k \/ j = k \/ (j > k /\ j - 1 \in 1 .. i - 1)
          BY <2>1, <2>2, <3>1
        <5> QED
          BY <2>1, <2>2, <2>4, <3>1, <4>2, <4>3, <5>1
      <4>4. CASE p \in r.on
        BY <2>6, <2>8, <4>2, <4>4
      <4>5. CASE p \notin r.on
        BY <2>1, <3>1, <4>1, <4>3, <4>5 DEF Accepted
      <4> QED
        BY <4>4, <4>5
    <3> QED
      BY <3>2, <3>3
  <2> QED
    BY <2>1, <2>5, <2>7, <2>8 DEF M
<1> QED
  BY <1>1, <1>2

-----------------------------------------------------------------------------
(* One command, and what it leaves of the rules.                               *)

Commands ==
  [op: {"ensure", "ensureFirst", "delete"}, chain: Chains, arg: Rules] \cup
  [op: {"flush"}, chain: Chains, arg: {<<>>}] \cup
  [op: {"policy"}, chain: Chains, arg: {"ACCEPT", "DROP"}]

\* The lists and policies a command does not name, and the ones it does.
LEMMA EffectOn ==
  ASSUME NEW fw \in Rulesets, NEW c \in Commands
  PROVE  /\ Effect(fw, c) \in Rulesets
         /\ \A d \in Chains : d # c.chain =>
              /\ Effect(fw, c).chain[d] = fw.chain[d]
              /\ Effect(fw, c).policy[d] = fw.policy[d]
         /\ c.op # "policy" => Effect(fw, c).policy[c.chain] = fw.policy[c.chain]
         /\ c.op = "policy" =>
              /\ Effect(fw, c).policy[c.chain] = c.arg
              /\ Effect(fw, c).chain[c.chain] = fw.chain[c.chain]
         /\ c.op = "flush" => Effect(fw, c).chain[c.chain] = <<>>
         /\ c.op = "delete" => Effect(fw, c).chain[c.chain] = RemoveFirst(fw.chain[c.chain], c.arg)
         /\ c.op = "ensure" => Effect(fw, c).chain[c.chain] \in
              {Append(fw.chain[c.chain], c.arg)} \cup
                {L \in {fw.chain[c.chain]} : Has(L, c.arg)}
         /\ c.op = "ensureFirst" => Effect(fw, c).chain[c.chain] \in
              {<<c.arg>> \o fw.chain[c.chain]} \cup
                {L \in {fw.chain[c.chain]} : Has(L, c.arg)}
<1> DEFINE L == fw.chain[c.chain]
<1>1. c.chain \in Chains /\ L \in Seq(Rules)
  BY DEF Commands, Rulesets
<1>2. c.op \in {"ensure", "ensureFirst", "delete", "flush", "policy"}
  BY DEF Commands
<1>3. c.op \in {"ensure", "ensureFirst", "delete"} => c.arg \in Rules
  BY DEF Commands
<1>4. Contains(L, c.arg) => Has(L, c.arg)
  BY DEF Contains, Has
<1>5. ASSUME NEW M \in Seq(Rules)
      PROVE  [fw EXCEPT !.chain[c.chain] = M] \in Rulesets
  BY <1>1, <1>5 DEF Rulesets
<1>6. CASE c.op = "policy"
  <2>1. c.arg \in {"ACCEPT", "DROP"}
    BY <1>6 DEF Commands
  <2>2. Effect(fw, c) = [fw EXCEPT !.policy[c.chain] = c.arg]
    BY <1>6 DEF Effect
  <2>3. ASSUME NEW t \in {"ACCEPT", "DROP"} PROVE [fw EXCEPT !.policy[c.chain] = t] \in Rulesets
    BY <1>1 DEF Rulesets
  <2>4. Effect(fw, c) \in Rulesets
    BY <2>1, <2>2, <2>3
  <2> QED
    BY <1>1, <1>6, <2>2, <2>4 DEF Rulesets
<1>7. ASSUME NEW M \in Seq(Rules), Effect(fw, c) = [fw EXCEPT !.chain[c.chain] = M]
      PROVE  /\ Effect(fw, c) \in Rulesets
             /\ Effect(fw, c).chain[c.chain] = M
             /\ Effect(fw, c).policy[c.chain] = fw.policy[c.chain]
             /\ \A d \in Chains : d # c.chain =>
                  /\ Effect(fw, c).chain[d] = fw.chain[d]
                  /\ Effect(fw, c).policy[d] = fw.policy[d]
  BY <1>1, <1>5, <1>7 DEF Rulesets
<1>8. CASE c.op = "flush"
  <2>1. Effect(fw, c) = [fw EXCEPT !.chain[c.chain] = <<>>] /\ <<>> \in Seq(Rules)
    BY <1>8 DEF Effect
  <2> QED
    BY <1>7, <1>8, <2>1
<1>9. CASE c.op = "delete"
  <2>1. RemoveFirst(L, c.arg) \in Seq(Rules)
    BY <1>1, <1>3, <1>9, Shortened
  <2>2. Effect(fw, c) = [fw EXCEPT !.chain[c.chain] = RemoveFirst(L, c.arg)]
    BY <1>1, <1>9 DEF Effect
  <2> HIDE DEF L
  <2>3. /\ Effect(fw, c) \in Rulesets
        /\ Effect(fw, c).chain[c.chain] = RemoveFirst(L, c.arg)
        /\ Effect(fw, c).policy[c.chain] = fw.policy[c.chain]
        /\ \A d \in Chains : d # c.chain =>
             /\ Effect(fw, c).chain[d] = fw.chain[d]
             /\ Effect(fw, c).policy[d] = fw.policy[d]
    BY <1>7, <2>1, <2>2
  <2> QED
    BY <1>9, <2>3 DEF L
<1>10. CASE c.op = "ensure"
  <2> DEFINE M == IF Contains(L, c.arg) THEN L ELSE Append(L, c.arg)
  <2>1. M \in Seq(Rules)
    BY <1>1, <1>3, <1>10
  <2>2. Effect(fw, c) = [fw EXCEPT !.chain[c.chain] = M]
    BY <1>1, <1>10 DEF Effect
  <2>3. M \in {Append(L, c.arg)} \cup {N \in {L} : Has(N, c.arg)}
    BY <1>4
  <2> HIDE DEF M
  <2> QED
    BY <1>7, <1>10, <2>1, <2>2, <2>3
<1>11. CASE c.op = "ensureFirst"
  <2> DEFINE M == IF Contains(L, c.arg) THEN L ELSE <<c.arg>> \o L
  <2>1. M \in Seq(Rules)
    BY <1>1, <1>3, <1>11
  <2>2. Effect(fw, c) = [fw EXCEPT !.chain[c.chain] = M]
    BY <1>1, <1>11 DEF Effect
  <2>3. M \in {<<c.arg>> \o L} \cup {N \in {L} : Has(N, c.arg)}
    BY <1>4
  <2> HIDE DEF M
  <2> QED
    BY <1>7, <1>11, <2>1, <2>2, <2>3
<1> QED
  BY <1>2, <1>6, <1>8, <1>9, <1>10, <1>11

\* The same, for one operation each.
LEMMA OthersKept ==
  ASSUME NEW fw \in Rulesets, NEW c \in Commands, NEW d \in Chains, d # c.chain
  PROVE  Effect(fw, c).chain[d] = fw.chain[d] /\ Effect(fw, c).policy[d] = fw.policy[d]
BY EffectOn

LEMMA PolicyKept ==
  ASSUME NEW fw \in Rulesets, NEW c \in Commands, c.op # "policy"
  PROVE  Effect(fw, c).policy[c.chain] = fw.policy[c.chain]
BY EffectOn

LEMMA PolicySet ==
  ASSUME NEW fw \in Rulesets, NEW c \in Commands, c.op = "policy"
  PROVE  /\ Effect(fw, c).policy[c.chain] = c.arg
         /\ Effect(fw, c).chain[c.chain] = fw.chain[c.chain]
BY EffectOn

LEMMA RuleDeleted ==
  ASSUME NEW fw \in Rulesets, NEW c \in Commands, c.op = "delete"
  PROVE  /\ Effect(fw, c).chain[c.chain] = RemoveFirst(fw.chain[c.chain], c.arg)
         /\ c.arg \in Rules
<1>1. c.arg \in Rules
  BY DEF Commands
<1> QED
  BY <1>1, EffectOn

LEMMA RuleLast ==
  ASSUME NEW fw \in Rulesets, NEW c \in Commands, c.op = "ensure"
  PROVE  /\ Effect(fw, c).chain[c.chain] \in {fw.chain[c.chain], Append(fw.chain[c.chain], c.arg)}
         /\ c.arg \in Rules
<1>1. c.arg \in Rules
  BY DEF Commands
<1> QED
  BY <1>1, EffectOn

LEMMA RuleFirst ==
  ASSUME NEW fw \in Rulesets, NEW c \in Commands, c.op = "ensureFirst"
  PROVE  /\ Effect(fw, c).chain[c.chain] \in {fw.chain[c.chain], <<c.arg>> \o fw.chain[c.chain]}
         /\ c.arg \in Rules
<1>1. c.arg \in Rules
  BY DEF Commands
<1> QED
  BY <1>1, EffectOn

\* A rule that was ensured is there; a rule stays until it is deleted or flushed.
LEMMA RulesStay ==
  ASSUME NEW fw \in Rulesets, NEW c \in Commands,
         c.op \in {"ensure", "ensureFirst", "policy"}
  PROVE  /\ c.op # "policy" => Has(Effect(fw, c).chain[c.chain], c.arg)
         /\ \A d \in Chains : \A x : Has(fw.chain[d], x) => Has(Effect(fw, c).chain[d], x)
<1> DEFINE L == fw.chain[c.chain]
           M == Effect(fw, c).chain[c.chain]
<1>1. L \in Seq(Rules) /\ c.chain \in Chains
  BY DEF Commands, Rulesets
<1>2. c.op # "policy" => Has(M, c.arg) /\ \A x : Has(L, x) => Has(M, x)
  <2>1. CASE c.op = "ensure"
    <3>1. M = Append(L, c.arg) \/ (M = L /\ Has(L, c.arg))
      BY <2>1, EffectOn
    <3>2. c.arg \in Rules
      BY <2>1 DEF Commands
    <3>3. \A x : Has(Append(L, c.arg), x) <=> Has(L, x) \/ x = c.arg
      BY <1>1, <3>2, Appended
    <3> QED
      BY <3>1, <3>3
  <2>2. CASE c.op = "ensureFirst"
    <3>1. M = <<c.arg>> \o L \/ (M = L /\ Has(L, c.arg))
      BY <2>2, EffectOn
    <3>2. c.arg \in Rules
      BY <2>2 DEF Commands
    <3>3. \A x : Has(<<c.arg>> \o L, x) <=> Has(L, x) \/ x = c.arg
      BY <1>1, <3>2, Inserted
    <3> QED
      BY <3>1, <3>3
  <2> QED
    BY <2>1, <2>2
<1>3. c.op = "policy" => M = L
  BY EffectOn
<1>4. \A d \in Chains : d # c.chain => Effect(fw, c).chain[d] = fw.chain[d]
  BY EffectOn
<1> QED
  BY <1>1, <1>2, <1>3, <1>4

-----------------------------------------------------------------------------
(* What a set of rules admits and refuses, read from its lists.                *)

Admits(fw, p) ==
  \/ Accepted(fw.chain["INPUT"], p)
  \/ Skips(fw.chain["INPUT"], p) /\ fw.policy["INPUT"] = "ACCEPT"

\* INPUT jumps nowhere, FORWARD only to FORTRESS_FORWARD.
Plain(fw) ==
  /\ \A i \in DOMAIN fw.chain["INPUT"] : fw.chain["INPUT"][i].do \notin Chains
  /\ \A i \in DOMAIN fw.chain["FORWARD"] :
       LET r == fw.chain["FORWARD"][i] IN r.do \in Chains => r = Jump("FORTRESS_FORWARD")

\* As safe as the rules the server came with.
Sound(fw) ==
  /\ fw \in Rulesets /\ Plain(fw)
  /\ \A p \in Incoming \ {"rest"} : Admits(deployed, p) => Admits(fw, p)
  /\ Admits(fw, "rest") => Admits(deployed, "rest")
  /\ \A p \in Guarded : p \in Routed(deployed) \/ Refused(fw, p)

-----------------------------------------------------------------------------
(* The invariants.                                                             *)

\* s is what is left of the list of steps after the first k - 1.
Left(s, steps, k) ==
  /\ k \in 1 .. Len(steps) + 1 /\ Len(s) = Len(steps) + 1 - k
  /\ \A i \in 1 .. Len(s) : s[i] = steps[k - 1 + i]

\* The rules the hardening has made sure of before its command k.
Ensured(fw, k) ==
  /\ k > 1 => Has(fw.chain["INPUT"], EstablishedIn)
  /\ k > 2 => Has(fw.chain["INPUT"], LoopbackIn)
  /\ k > 3 => Has(fw.chain["INPUT"], VpnDnsIn)
  /\ k > 4 => Has(fw.chain["INPUT"], ServicesIn)
  /\ k > 8 => Has(fw.chain["FORTRESS_FORWARD"], NoMetadata)

FirewallInv ==
  /\ deployed \in Rulesets /\ Plain(deployed)
  /\ Sound(live) /\ Sound(boot)
  /\ hpc # "idle" => Sound(backup)
  /\ pc # "idle" => Sound(saved.live) /\ Sound(saved.boot)
  /\ hpc = "harden" => \E k \in 1 .. 19 : Left(commands, Harden, k) /\ Ensured(live, k)

Target == Files \cup {"rules"}

StepInv ==
  /\ TypeOK
  /\ {saved.live, saved.boot} \subseteq Rulesets /\ saved.perms \in {"found", "mixed", "rootOnly"}
  /\ hpc = "harden" => commands \in Seq(Commands)
  /\ pc = "write" => todo \in Seq(Files) /\ todo # <<>>
  /\ pc = "rules" => todo \in Seq({Additive[i] : i \in 1 .. 4})
  /\ pc = "restore" => todo \in Seq(Target)

\* A file the remediation has been at.
Reviewed(f) == host[f] = "reviewed" \/ (f \in IfPresent /\ host[f] = "absent")

Rewritten == {"agh", "ramAgh", "template", "ramCore", "config", "ramConfig", "sub", "init", "units"}

\* The resolver cannot bring the old configuration back any more.
ResolverHarmless == running.resolver \in {"down", "reviewed"}

ProgressInv ==
  /\ host.template # "absent"
  /\ pc # "idle" => saved.host.template # "absent"
  /\ pc \in {"dns", "ramDns"} => running.resolver = "down"
  /\ pc = "write" => \E k \in 1 .. 9 :
       /\ Left(todo, Written, k)
       /\ \A j \in 1 .. k - 1 : Reviewed(Written[j])
       /\ IF k <= 2 THEN running.resolver = "down" ELSE ResolverHarmless
  /\ pc \in {"write", "rules", "restart", "check", "own", "done"} =>
       host.dns \in {"absent", host.ramDns}
  /\ pc \in {"rules", "restart", "check", "own", "done"} =>
       (\A f \in Rewritten : Reviewed(f)) /\ ResolverHarmless
  /\ pc \in {"check", "own", "done"} => \A s \in Services : running[s] = "reviewed"
  /\ pc \in {"restart", "check", "own", "done"} => boot = live

RestoreInv ==
  /\ pc \in {"restore", "restartBack", "failed"} =>
       /\ \A f \in Files \ {"ramAgh", "token"} :
            (pc = "restore" => \A i \in DOMAIN todo : todo[i] # f) => host[f] = saved.host[f]
       /\ (pc = "restore" => \A i \in DOMAIN todo : todo[i] # "rules") => boot = saved.boot
  /\ pc \in {"restartBack", "failed"} => perms = saved.perms

-----------------------------------------------------------------------------
(* What a command does to Sound.                                               *)

\* The list of one rule.
LEMMA One ==
  ASSUME NEW r, NEW p
  PROVE  /\ Skips(<<r>>, p) <=> p \notin r.on
         /\ Accepted(<<r>>, p) <=> p \in r.on /\ r.do = "ACCEPT"
BY DEF Skips, Accepted

\* A packet that FORWARD refuses by itself is not routed through FORTRESS_FORWARD.
LEMMA RefusedNotRouted ==
  ASSUME NEW fw \in Rulesets, Plain(fw), NEW p \in Guarded, Refused(fw, p)
  PROVE  p \notin Routed(fw)
<1> DEFINE c == fw.chain["FORWARD"]
           ff == fw.chain["FORTRESS_FORWARD"]
<1>1. c \in Seq(Rules) /\ {"FORWARD", "FORTRESS_FORWARD"} \subseteq Chains
  BY DEF Rulesets, Chains
<1>2. ASSUME NEW i \in DOMAIN c
      PROVE  \/ /\ Read(fw, c[i]) = ff /\ p \notin c[i].on
             \/ /\ Read(fw, c[i]) = <<c[i]>>
  <2>1. CASE c[i].do \in Chains
    <3>1. c[i] = Jump("FORTRESS_FORWARD")
      BY <1>2, <2>1 DEF Plain
    <3> QED
      BY <2>1, <3>1 DEF Read, Jump
  <2>2. CASE c[i].do \notin Chains
    BY <2>2 DEF Read
  <2> QED
    BY <2>1, <2>2
<1>3. ASSUME NEW i \in DOMAIN c, Skips(Read(fw, c[i]), p) PROVE p \notin c[i].on
  BY <1>2, <1>3, One
<1>4. ASSUME NEW i \in DOMAIN c, Accepted(Read(fw, c[i]), p),
             \A j \in 1 .. i - 1 : Skips(Read(fw, c[j]), p)
      PROVE  FALSE
  <2>1. ~ Accepted(ff, p)
    BY DEF Refused
  <2>2. p \in c[i].on /\ c[i].do = "ACCEPT"
    BY <1>2, <1>4, <2>1, One
  <2>3. \A j \in 1 .. i - 1 : p \notin c[j].on
    <3>1. \A j \in 1 .. i - 1 : j \in DOMAIN c
      BY <1>1
    <3> QED
      BY <1>3, <1>4, <3>1
  <2> QED
    BY <2>2, <2>3 DEF Refused, Accepted
<1>5. ASSUME fw.policy["FORWARD"] = "ACCEPT", \A i \in DOMAIN c : Skips(Read(fw, c[i]), p)
      PROVE  FALSE
  BY <1>3, <1>5 DEF Refused, Skips
<1> QED
  BY <1>4, <1>5 DEF Routed, Passes

\* INPUT jumps nowhere: what it passes is what its own rules admit.
LEMMA PassesIsAdmits ==
  ASSUME NEW fw \in Rulesets, Plain(fw), NEW p
  PROVE  Passes(fw, "INPUT", p) <=> Admits(fw, p)
<1> DEFINE c == fw.chain["INPUT"]
<1>1. c \in Seq(Rules)
  BY DEF Rulesets, Chains
<1>2. ASSUME NEW i \in DOMAIN c
      PROVE  /\ Skips(Read(fw, c[i]), p) <=> p \notin c[i].on
             /\ Accepted(Read(fw, c[i]), p) <=> p \in c[i].on /\ c[i].do = "ACCEPT"
  <2>1. Read(fw, c[i]) = <<c[i]>>
    BY <1>2 DEF Plain, Read
  <2> QED
    BY <2>1, One
<1>3. \A i \in DOMAIN c : \A j \in 1 .. i - 1 : j \in DOMAIN c
  BY <1>1
<1>4. (\A i \in DOMAIN c : Skips(Read(fw, c[i]), p)) <=> Skips(c, p)
  BY <1>2 DEF Skips
<1>5. (\E i \in DOMAIN c : /\ Accepted(Read(fw, c[i]), p)
                           /\ \A j \in 1 .. i - 1 : Skips(Read(fw, c[j]), p))
      <=> Accepted(c, p)
  BY <1>2, <1>3 DEF Accepted
<1> HIDE DEF c
<1> QED
  BY <1>4, <1>5 DEF Passes, Admits, c

\* The commands that keep the rules sound, and what some of them need to find.
Safe(fw, c) ==
  \/ c.chain \notin {"INPUT", "FORWARD", "FORTRESS_FORWARD"}
  \/ /\ c.chain = "INPUT" /\ c.op \in {"ensure", "ensureFirst"}
     /\ c.arg.do = "ACCEPT" /\ "rest" \notin c.arg.on
  \/ /\ c.chain = "INPUT" /\ c.op = "policy" /\ c.arg = "DROP"
     /\ \A p \in Incoming \ {"rest"} : ~ Skips(fw.chain["INPUT"], p)
  \/ /\ c.chain = "FORWARD" /\ c.op = "ensureFirst"
     /\ c.arg = Jump("FORTRESS_FORWARD") \/ c.arg.do = "REJECT"
  \/ c.chain = "FORWARD" /\ c.op = "delete" /\ c.arg.do = "ACCEPT"
  \/ c.chain = "FORWARD" /\ c.op = "policy" /\ c.arg = "DROP"
  \/ c.chain = "FORTRESS_FORWARD" /\ c.op = "flush"
  \/ /\ c.chain = "FORTRESS_FORWARD" /\ c.op = "ensure"
     /\ \A p \in Guarded :
          p \in c.arg.on /\ c.arg.do = "ACCEPT" => ~ Skips(fw.chain["FORTRESS_FORWARD"], p)

\* Lists and policy of INPUT decide what is admitted.
LEMMA KeepsInput ==
  ASSUME NEW fw \in Rulesets, NEW gw \in Rulesets,
         gw.chain["INPUT"] = fw.chain["INPUT"], gw.policy["INPUT"] = fw.policy["INPUT"]
  PROVE  \A p : Admits(gw, p) <=> Admits(fw, p)
BY DEF Admits

\* Each in its place of INPUT, accepting rules only add to what is admitted.
LEMMA OpensInput ==
  ASSUME NEW fw \in Rulesets, NEW c \in Commands, c.chain = "INPUT",
         c.op \in {"ensure", "ensureFirst"}, c.arg.do = "ACCEPT", NEW p
  PROVE  /\ Admits(fw, p) => Admits(Effect(fw, c), p)
         /\ p \notin c.arg.on => (Admits(Effect(fw, c), p) <=> Admits(fw, p))
<1> DEFINE L == fw.chain["INPUT"]
           M == Effect(fw, c).chain["INPUT"]
<1>1. L \in Seq(Rules) /\ c.arg \in Rules
  BY DEF Commands, Rulesets, Chains
<1>2. Effect(fw, c).policy["INPUT"] = fw.policy["INPUT"]
  BY PolicyKept
<1>3. M \in {L, Append(L, c.arg), <<c.arg>> \o L}
  <2>1. CASE c.op = "ensure"
    BY <2>1, EffectOn
  <2>2. CASE c.op = "ensureFirst"
    BY <2>2, EffectOn
  <2> QED
    BY <2>1, <2>2
<1>4. CASE M = L
  BY <1>2, <1>4 DEF Admits
<1>5. CASE M = Append(L, c.arg)
  <2>1. /\ Skips(M, p) <=> Skips(L, p) /\ p \notin c.arg.on
        /\ Accepted(M, p) <=>
             Accepted(L, p) \/ (Skips(L, p) /\ p \in c.arg.on /\ c.arg.do = "ACCEPT")
    BY <1>1, <1>5, Appended
  <2> QED
    BY <1>2, <2>1 DEF Admits
<1>6. CASE M = <<c.arg>> \o L
  <2>1. /\ Skips(M, p) <=> Skips(L, p) /\ p \notin c.arg.on
        /\ Accepted(M, p) <=> IF p \in c.arg.on THEN c.arg.do = "ACCEPT" ELSE Accepted(L, p)
    BY <1>1, <1>6, Inserted
  <2> QED
    BY <1>2, <2>1 DEF Admits
<1> QED
  BY <1>3, <1>4, <1>5, <1>6

\* What FORWARD refuses of a packet it still refuses.
LEMMA KeepsRefused ==
  ASSUME NEW fw \in Rulesets, NEW c \in Commands, Safe(fw, c),
         NEW p \in Guarded, Refused(fw, p)
  PROVE  Refused(Effect(fw, c), p)
<1> DEFINE gw == Effect(fw, c)
           L == fw.chain["FORWARD"]
           M == gw.chain["FORWARD"]
           ff == fw.chain["FORTRESS_FORWARD"]
<1>1. /\ L \in Seq(Rules) /\ ff \in Seq(Rules) /\ c.chain \in Chains
      /\ {"FORWARD", "FORTRESS_FORWARD"} \subseteq Chains
  BY DEF Commands, Rulesets, Chains
<1>2. ~ Accepted(L, p) /\ (Skips(L, p) => fw.policy["FORWARD"] = "DROP") /\ ~ Accepted(ff, p)
  BY DEF Refused
<1>3. CASE c.chain \notin {"FORWARD", "FORTRESS_FORWARD"}
  <2>1. gw.chain["FORWARD"] = L /\ gw.policy["FORWARD"] = fw.policy["FORWARD"]
        /\ gw.chain["FORTRESS_FORWARD"] = ff
    BY <1>1, <1>3, EffectOn
  <2> QED
    BY <1>2, <2>1 DEF Refused
<1>4. CASE c.chain = "FORTRESS_FORWARD"
  <2>1. gw.chain["FORWARD"] = L /\ gw.policy["FORWARD"] = fw.policy["FORWARD"]
    BY <1>1, <1>4, EffectOn
  <2>2. CASE c.op = "flush"
    <3>1. gw.chain["FORTRESS_FORWARD"] = <<>>
      <4>1. gw.chain[c.chain] = <<>>
        BY <2>2, EffectOn
      <4> QED
        BY <1>4, <4>1
    <3>2. ~ Accepted(<<>>, p)
      BY DEF Accepted
    <3> QED
      BY <1>2, <2>1, <3>1, <3>2 DEF Refused
  <2>3. CASE c.op = "ensure"
    <3>1. gw.chain["FORTRESS_FORWARD"] \in {ff, Append(ff, c.arg)} /\ c.arg \in Rules
      BY <1>4, <2>3, RuleLast
    <3>2. Accepted(Append(ff, c.arg), p) =>
            Accepted(ff, p) \/ (Skips(ff, p) /\ p \in c.arg.on /\ c.arg.do = "ACCEPT")
      BY <1>1, <3>1, Appended
    <3>3. p \in c.arg.on /\ c.arg.do = "ACCEPT" => ~ Skips(ff, p)
      BY <1>4, <2>3 DEF Safe
    <3> QED
      BY <1>2, <2>1, <3>1, <3>2, <3>3 DEF Refused
  <2> QED
    BY <1>4, <2>2, <2>3 DEF Safe
<1>5. CASE c.chain = "FORWARD"
  <2>1. gw.chain["FORTRESS_FORWARD"] = ff
    BY <1>1, <1>5, EffectOn
  <2>2. CASE c.op = "ensureFirst"
    <3>1. M \in {L, <<c.arg>> \o L} /\ c.arg \in Rules /\ gw.policy["FORWARD"] = fw.policy["FORWARD"]
      <4>1. gw.chain[c.chain] \in {<<c.arg>> \o fw.chain[c.chain]} \cup
              {N \in {fw.chain[c.chain]} : Has(N, c.arg)}
        BY <2>2, EffectOn
      <4>2. gw.policy[c.chain] = fw.policy[c.chain] /\ c.arg \in Rules
        BY <2>2, EffectOn DEF Commands
      <4> QED
        BY <1>5, <4>1, <4>2
    <3>2. c.arg.do # "ACCEPT"
      BY <1>5, <2>2 DEF Safe, Jump
    <3>3. /\ Skips(<<c.arg>> \o L, p) => Skips(L, p)
          /\ ~ Accepted(<<c.arg>> \o L, p)
      BY <1>1, <1>2, <3>1, <3>2, Inserted
    <3> QED
      BY <1>2, <2>1, <3>1, <3>3 DEF Refused
  <2>3. CASE c.op = "delete"
    <3>1. M = RemoveFirst(L, c.arg) /\ c.arg \in Rules /\ gw.policy["FORWARD"] = fw.policy["FORWARD"]
      BY <1>5, <2>3, RuleDeleted, PolicyKept
    <3>2. c.arg.do = "ACCEPT"
      BY <1>5, <2>3 DEF Safe
    <3>3. ~ Accepted(M, p) /\ (Skips(M, p) => Skips(L, p))
      BY <1>1, <1>2, <3>1, <3>2, Shortened
    <3> QED
      BY <1>2, <2>1, <3>1, <3>3 DEF Refused
  <2>4. CASE c.op = "policy"
    <3>1. M = L /\ gw.policy["FORWARD"] = "DROP"
      BY <1>5, <2>4, PolicySet DEF Safe
    <3> QED
      BY <1>2, <2>1, <3>1 DEF Refused
  <2> QED
    BY <1>5, <2>2, <2>3, <2>4 DEF Safe
<1> QED
  BY <1>3, <1>4, <1>5

\* No command adds a jump but the one to FORTRESS_FORWARD.
LEMMA KeepsPlain ==
  ASSUME NEW fw \in Rulesets, NEW c \in Commands, Safe(fw, c), Plain(fw)
  PROVE  Plain(Effect(fw, c))
<1> DEFINE gw == Effect(fw, c)
           ok(r) == r.do \in Chains => r = Jump("FORTRESS_FORWARD")
<1>1. /\ fw.chain["FORWARD"] \in Seq(Rules) /\ fw.chain["INPUT"] \in Seq(Rules)
      /\ c.chain \in Chains /\ {"FORWARD", "INPUT"} \subseteq Chains
  BY DEF Commands, Rulesets, Chains
<1>2. /\ \A r : Has(fw.chain["INPUT"], r) => r.do \notin Chains
      /\ \A r : Has(fw.chain["FORWARD"], r) => ok(r)
  BY DEF Plain, Has
<1>3. ASSUME NEW r, Has(gw.chain["INPUT"], r) PROVE r.do \notin Chains
  <2>1. CASE c.chain # "INPUT"
    BY <1>1, <1>2, <1>3, <2>1, OthersKept
  <2>2. CASE c.chain = "INPUT" /\ c.op = "ensure"
    <3>1. gw.chain["INPUT"] \in {fw.chain["INPUT"], Append(fw.chain["INPUT"], c.arg)} /\ c.arg \in Rules
      BY <2>2, RuleLast
    <3>2. Has(fw.chain["INPUT"], r) \/ r = c.arg
      BY <1>1, <1>3, <3>1, Appended
    <3> QED
      BY <1>2, <2>2, <3>2 DEF Safe, Chains
  <2>3. CASE c.chain = "INPUT" /\ c.op = "ensureFirst"
    <3>1. gw.chain["INPUT"] \in {fw.chain["INPUT"], <<c.arg>> \o fw.chain["INPUT"]} /\ c.arg \in Rules
      BY <2>3, RuleFirst
    <3>2. Has(fw.chain["INPUT"], r) \/ r = c.arg
      BY <1>1, <1>3, <3>1, Inserted
    <3> QED
      BY <1>2, <2>3, <3>2 DEF Safe, Chains
  <2>4. CASE c.chain = "INPUT" /\ c.op = "policy"
    BY <1>2, <1>3, <2>4, PolicySet
  <2> QED
    BY <2>1, <2>2, <2>3, <2>4 DEF Safe
<1>4. ASSUME NEW r, Has(gw.chain["FORWARD"], r) PROVE ok(r)
  <2>1. CASE c.chain # "FORWARD"
    BY <1>1, <1>2, <1>4, <2>1, OthersKept
  <2>2. CASE c.chain = "FORWARD" /\ c.op = "ensureFirst"
    <3>1. gw.chain["FORWARD"] \in {fw.chain["FORWARD"], <<c.arg>> \o fw.chain["FORWARD"]}
          /\ c.arg \in Rules
      BY <2>2, RuleFirst
    <3>2. Has(fw.chain["FORWARD"], r) \/ r = c.arg
      BY <1>1, <1>4, <3>1, Inserted
    <3>3. ok(c.arg)
      BY <2>2 DEF Safe, Chains
    <3> QED
      BY <1>2, <3>2, <3>3
  <2>3. CASE c.chain = "FORWARD" /\ c.op = "delete"
    <3>1. gw.chain["FORWARD"] = RemoveFirst(fw.chain["FORWARD"], c.arg) /\ c.arg \in Rules
      BY <2>3, RuleDeleted
    <3>2. Has(fw.chain["FORWARD"], r)
      BY <1>1, <1>4, <3>1, Shortened
    <3> QED
      BY <1>2, <3>2
  <2>4. CASE c.chain = "FORWARD" /\ c.op = "policy"
    BY <1>2, <1>4, <2>4, PolicySet
  <2> QED
    BY <2>1, <2>2, <2>3, <2>4 DEF Safe
<1> QED
  BY <1>3, <1>4 DEF Plain, Has

\* The one step of the invariant: a safe command keeps the rules sound.
LEMMA SoundKept ==
  ASSUME NEW fw, Sound(fw), NEW c \in Commands, Safe(fw, c)
  PROVE  Sound(Effect(fw, c))
<1> DEFINE gw == Effect(fw, c)
<1>1. fw \in Rulesets /\ gw \in Rulesets /\ Plain(gw)
  BY EffectOn, KeepsPlain DEF Sound
<1>2. \A p \in Guarded : p \in Routed(deployed) \/ Refused(gw, p)
  BY <1>1, KeepsRefused DEF Sound
<1>3. /\ \A p \in Incoming \ {"rest"} : Admits(fw, p) => Admits(gw, p)
      /\ Admits(gw, "rest") => Admits(fw, "rest")
  <2>1. CASE c.chain # "INPUT"
    <3>1. gw.chain["INPUT"] = fw.chain["INPUT"] /\ gw.policy["INPUT"] = fw.policy["INPUT"]
      BY <1>1, <2>1, EffectOn DEF Chains
    <3> QED
      BY <1>1, <3>1, KeepsInput
  <2>2. CASE c.chain = "INPUT" /\ c.op \in {"ensure", "ensureFirst"}
    <3>1. c.arg.do = "ACCEPT" /\ "rest" \notin c.arg.on
      BY <2>2 DEF Safe
    <3> QED
      BY <1>1, <2>2, <3>1, OpensInput
  <2>3. CASE c.chain = "INPUT" /\ c.op = "policy"
    <3>1. gw.chain["INPUT"] = fw.chain["INPUT"] /\ gw.policy["INPUT"] = "DROP"
      <4>1. gw.chain[c.chain] = fw.chain[c.chain] /\ gw.policy[c.chain] = c.arg
        BY <1>1, <2>3, EffectOn
      <4>2. c.arg = "DROP"
        BY <2>3 DEF Safe
      <4> QED
        BY <2>3, <4>1, <4>2
    <3>2. \A p \in Incoming \ {"rest"} : ~ Skips(fw.chain["INPUT"], p)
      BY <2>3 DEF Safe
    <3> QED
      BY <3>1, <3>2 DEF Admits
  <2> QED
    BY <2>1, <2>2, <2>3 DEF Safe
<1> HIDE DEF gw
<1>4. Sound(gw)
  BY <1>1, <1>2, <1>3 DEF Sound
<1> QED
  BY <1>4 DEF gw

-----------------------------------------------------------------------------
(* The commands of the two tools.                                              *)

\* The rules are rules, the commands commands.
LEMMA RuleTypes ==
  /\ {EstablishedIn, LoopbackIn, VpnDnsIn, ServicesIn, WgIn, WgOut, NoMetadata, EstablishedFw,
      ToWan, FromWan, Masquerade, Jump("FORTRESS_FORWARD"), Jump("FORTRESS_NAT")} \subseteq Rules
  /\ {Accept({"encDns"}), Drop({"userToMetadata"}), [on |-> Metadata, do |-> "REJECT"]}
       \subseteq Rules
BY DEF Rules, Packets, Incoming, Forwarded, FromPeers, Metadata, Chains, Accept, Drop, Jump,
       EstablishedIn, LoopbackIn, VpnDnsIn, ServicesIn, WgIn, WgOut, NoMetadata, EstablishedFw,
       ToWan, FromWan, Masquerade

LEMMA CommandTypes ==
  ASSUME NEW d \in Chains
  PROVE  /\ \A r \in Rules : {Ensure(d, r), EnsureFirst(d, r), Delete(d, r)} \subseteq Commands
         /\ Flush(d) \in Commands
         /\ \A t \in {"ACCEPT", "DROP"} : Policy(d, t) \in Commands
BY DEF Commands, Ensure, EnsureFirst, Delete, Flush, Policy

\* The list of commands, one by one.
LEMMA HardenIs ==
  /\ Len(Harden) = 18
  /\ Harden[1] = EnsureFirst("INPUT", EstablishedIn)
  /\ Harden[2] = EnsureFirst("INPUT", LoopbackIn)
  /\ Harden[3] = EnsureFirst("INPUT", VpnDnsIn)
  /\ Harden[4] = Ensure("INPUT", ServicesIn)
  /\ Harden[5] = Delete("FORWARD", WgIn)
  /\ Harden[6] = Delete("FORWARD", WgOut)
  /\ Harden[7] = Flush("FORTRESS_FORWARD")
  /\ Harden[8] = Ensure("FORTRESS_FORWARD", NoMetadata)
  /\ Harden[9] = Ensure("FORTRESS_FORWARD", EstablishedFw)
  /\ Harden[10] = Ensure("FORTRESS_FORWARD", ToWan)
  /\ Harden[11] = Ensure("FORTRESS_FORWARD", FromWan)
  /\ Harden[12] = EnsureFirst("FORWARD", Jump("FORTRESS_FORWARD"))
  /\ Harden[13] = Flush("FORTRESS_NAT")
  /\ Harden[14] = Ensure("FORTRESS_NAT", Masquerade)
  /\ Harden[15] = EnsureFirst("POSTROUTING", Jump("FORTRESS_NAT"))
  /\ Harden[16] = Policy("INPUT", "DROP")
  /\ Harden[17] = Policy("FORWARD", "DROP")
  /\ Harden[18] = Policy("OUTPUT", "ACCEPT")
BY DEF Harden

\* Every command of the hardening has its type.
LEMMA HardenLength == Len(Harden) = 18
BY HardenIs

LEMMA HardenCommands == Harden \in Seq(Commands)
<1>1. {"INPUT", "FORWARD", "OUTPUT", "POSTROUTING", "FORTRESS_FORWARD", "FORTRESS_NAT"} \subseteq Chains
  BY DEF Chains
<1>2. ASSUME NEW k \in 1 .. 18 PROVE Harden[k] \in Commands
  <2>1. CASE k \in 1 .. 4
    BY <1>1, <2>1, HardenIs, RuleTypes, CommandTypes
  <2>2. CASE k \in 5 .. 8
    BY <1>1, <2>2, HardenIs, RuleTypes, CommandTypes
  <2>3. CASE k \in 9 .. 12
    BY <1>1, <2>3, HardenIs, RuleTypes, CommandTypes
  <2>4. CASE k \in 13 .. 18
    BY <1>1, <2>4, HardenIs, RuleTypes, CommandTypes
  <2> QED
    BY <2>1, <2>2, <2>3, <2>4
<1>3. Harden = [k \in 1 .. 18 |-> Harden[k]]
  BY DEF Harden
<1> QED
  BY <1>2, <1>3

\* A rule that matches what it is asked about does not let the list skip it.
LEMMA HasStops ==
  ASSUME NEW rules, NEW r, Has(rules, r), NEW p \in r.on
  PROVE  ~ Skips(rules, p)
BY DEF Has, Skips

\* Each command of the hardening, at its place in the list.
LEMMA HardenStep ==
  ASSUME NEW fw, Sound(fw), NEW k \in 1 .. 18, Ensured(fw, k)
  PROVE  Sound(Effect(fw, Harden[k])) /\ Ensured(Effect(fw, Harden[k]), k + 1)
<1> DEFINE c == Harden[k]
           gw == Effect(fw, c)
<1>1. c \in Commands /\ fw \in Rulesets
      /\ {"INPUT", "FORWARD", "FORTRESS_FORWARD"} \subseteq Chains
  <2>1. c \in Commands
    <3>1. k \in 1 .. Len(Harden)
      BY HardenIs
    <3> QED
      BY <3>1, HardenCommands
  <2> QED
    BY <2>1 DEF Sound, Chains
<1>2. Safe(fw, c)
  <2>1. CASE k \in 1 .. 4
    BY <2>1, HardenIs DEF Safe, Ensure, EnsureFirst, EstablishedIn, LoopbackIn, VpnDnsIn,
                          ServicesIn, Accept
  <2>2. CASE k \in 5 .. 7
    BY <2>2, HardenIs DEF Safe, Delete, Flush, WgIn, WgOut, Accept
  <2>3. CASE k = 8
    BY <2>3, HardenIs DEF Safe, Ensure, NoMetadata, Drop
  <2>4. CASE k \in {9, 10, 11}
    <3>1. ASSUME NEW p \in Metadata PROVE ~ Skips(fw.chain["FORTRESS_FORWARD"], p)
      BY <2>4, HasStops DEF Ensured, NoMetadata, Drop
    <3>2. \A p \in Guarded : p \in c.arg.on => p \in Metadata
      BY <2>4, HardenIs DEF Ensure, EstablishedFw, ToWan, FromWan, Accept, Guarded, Metadata,
                            FromPeers
    <3> QED
      BY <2>4, <3>1, <3>2, HardenIs DEF Safe, Ensure
  <2>5. CASE k = 12
    BY <2>5, HardenIs DEF Safe, EnsureFirst
  <2>6. CASE k \in {13, 14, 15}
    BY <2>6, HardenIs DEF Safe, Ensure, EnsureFirst, Flush
  <2>7. CASE k = 16
    <3>1. ASSUME NEW p \in Incoming \ {"rest"} PROVE ~ Skips(fw.chain["INPUT"], p)
      <4>1. \E r \in {EstablishedIn, LoopbackIn, VpnDnsIn, ServicesIn} : p \in r.on
        BY DEF Incoming, EstablishedIn, LoopbackIn, VpnDnsIn, ServicesIn, Accept
      <4>2. \A r \in {EstablishedIn, LoopbackIn, VpnDnsIn, ServicesIn} :
              Has(fw.chain["INPUT"], r)
        BY <2>7 DEF Ensured
      <4> QED
        BY <4>1, <4>2, HasStops
    <3> QED
      BY <2>7, <3>1, HardenIs DEF Safe, Policy
  <2>8. CASE k \in {17, 18}
    BY <2>8, HardenIs DEF Safe, Policy
  <2> QED
    BY <2>1, <2>2, <2>3, <2>4, <2>5, <2>6, <2>7, <2>8
<1>3. Sound(gw)
  BY <1>1, <1>2, SoundKept
<1>4. \A x : Has(fw.chain["INPUT"], x) => Has(gw.chain["INPUT"], x)
  <2>1. c.op \in {"ensure", "ensureFirst", "policy"} \/ c.chain # "INPUT"
    BY HardenIs DEF Ensure, EnsureFirst, Delete, Flush, Policy
  <2>2. c.chain # "INPUT" => gw.chain["INPUT"] = fw.chain["INPUT"]
    BY <1>1, EffectOn
  <2>3. c.op \in {"ensure", "ensureFirst", "policy"} =>
          \A x : Has(fw.chain["INPUT"], x) => Has(gw.chain["INPUT"], x)
    BY <1>1, RulesStay
  <2> HIDE DEF c, gw
  <2> QED
    BY <2>1, <2>2, <2>3
<1>5. k > 8 => \A x : Has(fw.chain["FORTRESS_FORWARD"], x) => Has(gw.chain["FORTRESS_FORWARD"], x)
  <2>1. k > 8 => c.op \in {"ensure", "ensureFirst", "policy"} \/ c.chain # "FORTRESS_FORWARD"
    BY HardenIs DEF Ensure, EnsureFirst, Delete, Flush, Policy
  <2>2. c.chain # "FORTRESS_FORWARD" => gw.chain["FORTRESS_FORWARD"] = fw.chain["FORTRESS_FORWARD"]
    BY <1>1, EffectOn
  <2>3. c.op \in {"ensure", "ensureFirst", "policy"} =>
          \A x : Has(fw.chain["FORTRESS_FORWARD"], x) => Has(gw.chain["FORTRESS_FORWARD"], x)
    BY <1>1, RulesStay
  <2> HIDE DEF c, gw
  <2> QED
    BY <2>1, <2>2, <2>3
<1>6. /\ k = 1 => Has(gw.chain["INPUT"], EstablishedIn)
      /\ k = 2 => Has(gw.chain["INPUT"], LoopbackIn)
      /\ k = 3 => Has(gw.chain["INPUT"], VpnDnsIn)
      /\ k = 4 => Has(gw.chain["INPUT"], ServicesIn)
      /\ k = 8 => Has(gw.chain["FORTRESS_FORWARD"], NoMetadata)
  <2>1. c.op \in {"ensure", "ensureFirst"} => Has(gw.chain[c.chain], c.arg)
    BY <1>1, RulesStay
  <2> HIDE DEF gw
  <2> QED
    BY <2>1, HardenIs DEF Ensure, EnsureFirst
<1> HIDE DEF gw
<1>7. Ensured(gw, k + 1)
  BY <1>4, <1>5, <1>6 DEF Ensured
<1> QED
  BY <1>3, <1>7 DEF gw

\* The rules the remediation adds are safe wherever they are added.
LEMMA AdditiveCommand ==
  ASSUME NEW c \in {Additive[i] : i \in 1 .. 4}
  PROVE  /\ c \in Commands
         /\ \A fw : Safe(fw, c)
<1>1. c \in {EnsureFirst("INPUT", VpnDnsIn), EnsureFirst("INPUT", Accept({"encDns"})),
             EnsureFirst("OUTPUT", Drop({"userToMetadata"})),
             EnsureFirst("FORWARD", [on |-> Metadata, do |-> "REJECT"])}
  BY DEF Additive
<1>2. c \in Commands
  <2>1. {"INPUT", "FORWARD", "OUTPUT"} \subseteq Chains
    BY DEF Chains
  <2> QED
    BY <1>1, <2>1, RuleTypes, CommandTypes
<1>3. \A fw : Safe(fw, c)
  BY <1>1 DEF Safe, EnsureFirst, VpnDnsIn, Accept
<1> QED
  BY <1>2, <1>3

\* Every rule the remediation adds keeps the rules sound, in any order.
LEMMA AdditiveStep ==
  ASSUME NEW fw, Sound(fw), NEW c \in {Additive[i] : i \in 1 .. 4}
  PROVE  Sound(Effect(fw, c))
BY AdditiveCommand, SoundKept

-----------------------------------------------------------------------------
(* Types.                                                                      *)

\* The whole list is left before its first step; one step less after each.
LEMMA LeftAll ==
  ASSUME NEW S, NEW steps \in Seq(S)
  PROVE  Left(steps, steps, 1)
BY DEF Left

LEMMA LeftNext ==
  ASSUME NEW S, NEW s \in Seq(S), NEW steps \in Seq(S), NEW k, Left(s, steps, k), s # <<>>
  PROVE  /\ k \in 1 .. Len(steps) /\ Head(s) = steps[k]
         /\ Tail(s) \in Seq(S) /\ Left(Tail(s), steps, k + 1)
<1>1. /\ Len(s) \in Nat /\ Len(s) # 0 /\ Len(steps) \in Nat
      /\ Tail(s) \in Seq(S) /\ Len(Tail(s)) = Len(s) - 1 /\ Head(s) = s[1]
      /\ \A i \in 1 .. Len(s) - 1 : Tail(s)[i] = s[i + 1]
  OBVIOUS
<1>2. k \in 1 .. Len(steps) /\ s[1] = steps[k]
  BY <1>1 DEF Left
<1>3. ASSUME NEW i \in 1 .. Len(s) - 1 PROVE Tail(s)[i] = steps[k + i]
  <2>1. i + 1 \in 1 .. Len(s) /\ k - 1 + (i + 1) = k + i
    BY <1>1, <1>2
  <2> QED
    BY <1>1, <2>1 DEF Left
<1> QED
  BY <1>1, <1>2, <1>3 DEF Left

\* More than one step is left: after it, one.
LEMMA MoreLeft ==
  ASSUME NEW S, NEW s \in Seq(S), Len(s) > 1
  PROVE  Tail(s) \in Seq(S) /\ Tail(s) # <<>>
<1>1. Tail(s) \in Seq(S) /\ Len(Tail(s)) = Len(s) - 1 /\ Len(s) \in Nat
  OBVIOUS
<1>2. \A n \in Nat : n > 1 => n - 1 # 0
  OBVIOUS
<1>3. Len(Tail(s)) # 0
  BY <1>1, <1>2
<1>4. Len(<<>>) = 0
  OBVIOUS
<1> QED
  BY <1>1, <1>3, <1>4, Zenon

LEMMA NoRulesType == NoRules \in Rulesets
BY DEF NoRules, Rulesets

\* The files the remediation writes, the resolver's first.
LEMMA WrittenIs ==
  /\ Written \in Seq(Files) /\ Written # <<>> /\ Len(Written) = 9
  /\ Written[1] = "agh" /\ Written[2] = "ramAgh"
  /\ {Written[j] : j \in 1 .. 9} = Rewritten /\ Rewritten \subseteq Files
BY DEF Written, Files, Rewritten

\* What is restored: all files but the durable token, and the rules.
LEMMA TargetsIs ==
  /\ Targets \in Seq(Target)
  /\ \A f \in Target \ {"token"} : \E i \in DOMAIN Targets : Targets[i] = f
BY DEF Targets, Target, Files

LEMMA AdditiveIs == Additive \in Seq({Additive[i] : i \in 1 .. 4})
<1>1. Additive = [i \in 1 .. 4 |-> Additive[i]]
  BY DEF Additive
<1> QED
  BY <1>1

\* All that a stop of the resolver changes is its configuration in tmpfs, and to the
\* version it ran.
LEMMA Stopped ==
  ASSUME host \in [Files -> Versions], running \in [Services -> Versions \cup {"down"}],
         NEW h \in AfterStop(host)
  PROVE  /\ h \in [Files -> Versions]
         /\ \A f \in Files \ {"ramAgh"} : h[f] = host[f]
         /\ h["ramAgh"] \in {host["ramAgh"], running["resolver"]}
BY DEF AfterStop, Files, Services, Versions

LEMMA LoadedType ==
  ASSUME NEW h \in [Files -> Versions]
  PROVE  Loaded(h) \in [Services -> Versions \cup {"down"}]
BY DEF Loaded, Files, Services

\* One lemma for the start, each tool, and what runs beside them.
LEMMA StepInit == Init => StepInv
<1> SUFFICES ASSUME Init PROVE StepInv
  OBVIOUS
<1>1. PICK s \in Servers : deployed = s[1] /\ RInit(s[2])
  BY DEF Init
<1>2. s[1] \in Rulesets /\ s[2] \in Missing
  BY MaintenanceAssumption
<1>3. host \in [Files -> Versions] /\ running \in [Services -> Versions \cup {"down"}]
  <2>1. host \in [Files -> Versions]
    BY <1>1 DEF RInit, Versions
  <2> QED
    BY <1>1, <2>1, LoadedType DEF RInit
<1>4. /\ live \in Rulesets /\ boot \in Rulesets /\ backup = NoRules
      /\ hpc = "idle" /\ commands = <<>> /\ pc = "idle" /\ todo = <<>>
      /\ saved = NoBackup /\ perms = "found"
  BY <1>1, <1>2 DEF Init, HInit, RInit
<1> QED
  BY <1>3, <1>4, NoRulesType
     DEF StepInv, TypeOK, HTypeOK, RTypeOK, NoBackup, Versions, Migrating

LEMMA StepHarden ==
  ASSUME StepInv, pc = "idle", HNext, UNCHANGED <<rvars, deployed>>
  PROVE  StepInv'
<1>1. /\ UNCHANGED <<pc, todo, host, perms, running, saved>>
      /\ {live, boot, backup, NoRules} \subseteq Rulesets
  BY NoRulesType DEF rvars, StepInv, TypeOK, HTypeOK
<1>2. ASSUME {live', boot', backup'} \subseteq Rulesets,
             hpc' \in {"idle", "harden", "hardened", "restore", "rolledBack"},
             commands' # <<>> => hpc' = "harden",
             hpc' = "harden" => commands' \in Seq(Commands)
      PROVE  StepInv'
  BY <1>1, <1>2 DEF StepInv, TypeOK, HTypeOK, RTypeOK
<1>3. CASE HApply
  BY <1>1, <1>2, <1>3, HardenCommands DEF HApply
<1>4. CASE HCommand
  <2>1. commands \in Seq(Commands) /\ commands # <<>>
    BY <1>4 DEF HCommand, StepInv
  <2>2. Head(commands) \in Commands /\ Tail(commands) \in Seq(Commands)
    BY <2>1
  <2>3. live' \in Rulesets
    BY <1>1, <1>4, <2>2, EffectOn DEF HCommand
  <2>4. commands' \in Seq(Commands)
    BY <1>4, <2>1, <2>2 DEF HCommand
  <2> QED
    BY <1>1, <1>2, <1>4, <2>3, <2>4 DEF HCommand
<1>5. CASE HSave
  BY <1>1, <1>2, <1>5 DEF HSave
<1>6. CASE HExcept
  BY <1>1, <1>2, <1>6 DEF HExcept
<1>7. CASE HRestore
  BY <1>1, <1>2, <1>7 DEF HRestore, StepInv, TypeOK, HTypeOK
<1>8. CASE HEnd
  BY <1>1, <1>2, <1>8 DEF HEnd
<1> QED
  BY <1>3, <1>4, <1>5, <1>6, <1>7, <1>8 DEF HNext

LEMMA StepRemediate ==
  ASSUME StepInv, hpc = "idle", RNext, UNCHANGED <<hvars, deployed>>
  PROVE  StepInv'
<1>1. /\ UNCHANGED <<hpc, commands, backup>>
      /\ {live, boot, backup, saved.live, saved.boot} \subseteq Rulesets
      /\ {perms, saved.perms} \subseteq {"found", "mixed", "rootOnly"}
      /\ host \in [Files -> Versions] /\ saved.host \in [Files -> Versions]
      /\ running \in [Services -> Versions \cup {"down"}]
      /\ commands = <<>>
  BY DEF hvars, StepInv, TypeOK, HTypeOK, RTypeOK
<1>2. /\ {"reviewed", "torn", "absent"} \subseteq Versions
      /\ {"token", "dns", "ramDns", "ramAgh", "agh"} \subseteq Files
  BY DEF Versions, Files
<1> DEFINE Pcs == Migrating \cup {"idle", "done", "restore", "restartBack", "failed"}
<1>3. ASSUME {live', boot', saved'.live, saved'.boot} \subseteq Rulesets,
             {perms', saved'.perms} \subseteq {"found", "mixed", "rootOnly"},
             host' \in [Files -> Versions], saved'.host \in [Files -> Versions],
             running' \in [Services -> Versions \cup {"down"}],
             pc' \in Pcs,
             todo' # <<>> => pc' \in {"write", "rules", "restore"},
             pc' = "write" => todo' \in Seq(Files) /\ todo' # <<>>,
             pc' = "rules" => todo' \in Seq({Additive[i] : i \in 1 .. 4}),
             pc' = "restore" => todo' \in Seq(Target)
      PROVE  StepInv'
  BY <1>1, <1>3 DEF StepInv, TypeOK, HTypeOK, RTypeOK
<1>4. pc \notin {"write", "rules", "restore"} => todo = <<>>
  BY DEF StepInv, TypeOK, RTypeOK
<1> USE <1>1, <1>2, <1>4
<1>6. CASE RApply
  BY <1>3, <1>6 DEF RApply, Goto, Migrating
<1>7. CASE MigrateToken
  BY <1>3, <1>7 DEF MigrateToken, Goto, Migrating
<1>8. CASE StopResolver
  <2>1. host' \in [Files -> Versions]
    BY <1>8, Stopped DEF StopResolver
  <2> QED
    BY <1>3, <1>8, <2>1 DEF StopResolver, Goto, Migrating
<1>9. CASE EnsureDnscrypt
  <2>1. host' \in [Files -> Versions]
    BY <1>9 DEF EnsureDnscrypt, Provider
  <2> QED
    BY <1>3, <1>9, <2>1 DEF EnsureDnscrypt, Goto, Migrating
<1>10. CASE CopyDnscrypt
  BY <1>3, <1>10, WrittenIs DEF CopyDnscrypt, Goto, Migrating
<1>11. CASE WriteNext
  <2>1. todo \in Seq(Files) /\ todo # <<>> /\ Head(todo) \in Files
    BY <1>11 DEF WriteNext, StepInv
  <2>2. host' \in [Files -> Versions]
    BY <1>11, <2>1 DEF WriteNext
  <2>3. CASE Len(todo) > 1
    <3>1. Tail(todo) \in Seq(Files) /\ Tail(todo) # <<>>
      BY <2>1, <2>3, MoreLeft
    <3> QED
      BY <1>3, <1>11, <2>2, <2>3, <3>1 DEF WriteNext, Migrating
  <2>4. CASE ~ (Len(todo) > 1)
    BY <1>3, <1>11, <2>2, <2>4, AdditiveIs DEF WriteNext, Goto, Migrating
  <2> QED
    BY <2>3, <2>4
<1>12. CASE InsertNext
  <2>1. todo \in Seq({Additive[i] : i \in 1 .. 4}) /\ todo # <<>>
    BY <1>12 DEF InsertNext, StepInv
  <2>2. Head(todo) \in {Additive[i] : i \in 1 .. 4} /\ Tail(todo) \in Seq({Additive[i] : i \in 1 .. 4})
    BY <2>1
  <2>3. Head(todo) \in Commands
    BY <2>2, AdditiveCommand
  <2>4. live' \in Rulesets
    BY <1>12, <2>3, EffectOn DEF InsertNext
  <2> QED
    BY <1>3, <1>12, <2>2, <2>4 DEF InsertNext, Migrating
<1>13. CASE SaveRules
  BY <1>3, <1>13 DEF SaveRules, Goto, Migrating
<1>14. CASE RestartServices \/ RestartBack
  <2>1. host' \in [Files -> Versions]
    BY <1>14, Stopped DEF RestartServices, RestartBack
  <2>2. running' \in [Services -> Versions \cup {"down"}]
    BY <1>14, <2>1, LoadedType DEF RestartServices, RestartBack
  <2>3. /\ UNCHANGED <<live, boot, todo, perms, saved>>
        /\ pc \in {"restart", "restartBack"} /\ pc' \in {"check", "failed"}
    BY <1>14 DEF RestartServices, RestartBack, Goto
  <2> QED
    BY <1>3, <2>1, <2>2, <2>3 DEF Migrating
<1>15. CASE CheckHealth \/ OwnFiles
  BY <1>3, <1>15 DEF CheckHealth, OwnFiles, Goto, Migrating
<1>16. CASE RExcept
  BY <1>3, <1>16, TargetsIs DEF RExcept, Goto
<1>17. CASE RestoreNext
  <2>1. todo \in Seq(Target) /\ todo # <<>>
    BY <1>17 DEF RestoreNext, StepInv
  <2>2. Head(todo) \in Target /\ Tail(todo) \in Seq(Target)
    BY <2>1
  <2>3. host' \in [Files -> Versions] /\ boot' \in Rulesets
    <3>1. CASE Head(todo) = "rules"
      BY <1>17, <3>1 DEF RestoreNext
    <3>2. CASE Head(todo) # "rules"
      BY <1>17, <2>2, <3>2 DEF RestoreNext, Target
    <3> QED
      BY <3>1, <3>2
  <2> QED
    BY <1>3, <1>17, <2>2, <2>3 DEF RestoreNext
<1>18. CASE RestoreRules
  BY <1>3, <1>18 DEF RestoreRules, Goto
<1>19. CASE REnd
  <2>1. saved' = NoBackup /\ NoBackup.host \in [Files -> Versions]
        /\ {NoBackup.live, NoBackup.boot} \subseteq Rulesets /\ NoBackup.perms = "found"
    BY <1>19, NoRulesType DEF REnd, NoBackup
  <2> QED
    BY <1>3, <1>19, <2>1 DEF REnd, Goto
<1> QED
  BY <1>6, <1>7, <1>8, <1>9, <1>10, <1>11, <1>12, <1>13, <1>14, <1>15, <1>16, <1>17, <1>18,
     <1>19 DEF RNext

LEMMA StepAround ==
  ASSUME StepInv, WeeklyUpdate \/ Reboot
  PROVE  StepInv'
<1>1. /\ {live, boot, backup} \subseteq Rulesets
      /\ host \in [Files -> Versions] /\ running \in [Services -> Versions \cup {"down"}]
  BY DEF StepInv, TypeOK, HTypeOK, RTypeOK
<1>2. CASE WeeklyUpdate
  <2>1. host' \in [Files -> Versions]
    BY <1>1, <1>2, Stopped DEF WeeklyUpdate
  <2>2. running' \in [Services -> Versions \cup {"down"}]
    BY <1>1, <1>2, <2>1 DEF WeeklyUpdate, Files
  <2> QED
    BY <1>2, <2>1, <2>2 DEF WeeklyUpdate, StepInv, TypeOK, HTypeOK, RTypeOK, hvars
<1>3. CASE Reboot
  <2>1. host' \in [Files -> Versions] /\ running' \in [Services -> Versions \cup {"down"}]
    <3>1. host' \in [Files -> Versions]
      BY <1>1, <1>3 DEF Reboot, Files
    <3> QED
      BY <1>3, <3>1, LoadedType DEF Reboot
  <2>2. /\ pc' = "idle" /\ todo' = <<>> /\ saved' = NoBackup /\ hpc' = "idle"
        /\ commands' = <<>> /\ backup' = NoRules /\ live' = boot /\ UNCHANGED <<boot, perms>>
    BY <1>3 DEF Reboot
  <2> QED
    BY <1>1, <2>1, <2>2, NoRulesType
       DEF StepInv, TypeOK, HTypeOK, RTypeOK, NoBackup, Versions, Migrating
<1> QED
  BY <1>2, <1>3

LEMMA StepStutter ==
  ASSUME StepInv, UNCHANGED vars
  PROVE  StepInv'
BY DEF StepInv, TypeOK, HTypeOK, RTypeOK, vars, hvars, rvars

\* The invariant of the types.
LEMMA Steps == Spec => []StepInv
<1>1. StepInv /\ [Next]_vars => StepInv'
  BY StepHarden, StepRemediate, StepAround, StepStutter DEF Next
<1> QED
  BY <1>1, StepInit, PTL DEF Spec

\* Whatever the tools are stopped in, and whatever runs between their steps, the rules,
\* the files and what the services run stay what the tools can work on, and only one of
\* the tools is at work.
THEOREM MaintenanceTypes == Spec => []TypeOK
<1>1. StepInv => TypeOK
  BY DEF StepInv
<1> QED
  BY <1>1, Steps, PTL

-----------------------------------------------------------------------------
(* Rules.                                                                      *)

\* What Sound says, of the rules the server came with and of any others.
LEMMA SoundMeans ==
  ASSUME deployed \in Rulesets, Plain(deployed), NEW fw, Sound(fw)
  PROVE  /\ Admitted(deployed) \ {"rest"} \subseteq Admitted(fw)
         /\ Admitted(fw) \cap {"rest"} \subseteq Admitted(deployed)
         /\ Routed(fw) \cap Guarded \subseteq Routed(deployed)
<1>1. fw \in Rulesets /\ Plain(fw)
  BY DEF Sound
<1>2. \A p : /\ Passes(fw, "INPUT", p) <=> Admits(fw, p)
             /\ Passes(deployed, "INPUT", p) <=> Admits(deployed, p)
  BY <1>1, PassesIsAdmits
<1>3. \A p \in Guarded : Refused(fw, p) => p \notin Routed(fw)
  BY <1>1, RefusedNotRouted
<1> QED
  BY <1>2, <1>3 DEF Sound, Admitted

\* One lemma for the start, each tool, and what runs beside them.
LEMMA FirewallInit == Init => FirewallInv
<1> SUFFICES ASSUME Init PROVE FirewallInv
  OBVIOUS
<1>1. PICK s \in Servers : deployed = s[1] /\ RInit(s[2])
  BY DEF Init
<1>2. deployed \in Rulesets /\ Orderly(deployed)
  BY <1>1, MaintenanceAssumption
<1>3. Plain(deployed) /\ \A p \in Guarded : p \in Routed(deployed) \/ Refused(deployed, p)
  BY <1>2 DEF Orderly, Plain
<1>4. Sound(deployed)
  BY <1>2, <1>3 DEF Sound
<1>5. live = deployed /\ boot = deployed /\ hpc = "idle" /\ pc = "idle"
  BY <1>1 DEF Init, HInit, RInit
<1> QED
  BY <1>2, <1>3, <1>4, <1>5 DEF FirewallInv

LEMMA FirewallHarden ==
  ASSUME StepInv, FirewallInv, pc = "idle", HNext, UNCHANGED <<rvars, deployed>>
  PROVE  FirewallInv'
<1>1. /\ UNCHANGED <<pc, saved, deployed>>
      /\ Sound(live) /\ Sound(boot) /\ deployed \in Rulesets /\ Plain(deployed)
  BY DEF rvars, FirewallInv
<1>2. ASSUME NEW fw, NEW gw, gw = fw, Sound(fw) PROVE Sound(gw)
  BY <1>2
<1>3. ASSUME Sound(live'), Sound(boot'), hpc' # "idle" => Sound(backup'),
             hpc' = "harden" => \E k \in 1 .. 19 : Left(commands', Harden, k) /\ Ensured(live', k)
      PROVE  FirewallInv'
  BY <1>1, <1>3 DEF FirewallInv, Sound
<1>4. CASE HApply
  <2>1. Left(Harden, Harden, 1)
    BY HardenCommands, LeftAll
  <2>2. Ensured(live', 1)
    BY DEF Ensured
  <2> QED
    BY <1>1, <1>3, <1>4, <2>1, <2>2 DEF HApply
<1>5. CASE HCommand
  <2>1. commands \in Seq(Commands) /\ commands # <<>> /\ Sound(backup)
        /\ UNCHANGED <<boot, hpc, backup>> /\ hpc = "harden"
    BY <1>5 DEF HCommand, StepInv, FirewallInv
  <2>2. PICK k \in 1 .. 19 : Left(commands, Harden, k) /\ Ensured(live, k)
    BY <2>1 DEF FirewallInv
  <2>3. k \in 1 .. 18 /\ Head(commands) = Harden[k] /\ Left(Tail(commands), Harden, k + 1)
    <3>1. k \in 1 .. Len(Harden) /\ Head(commands) = Harden[k] /\ Left(Tail(commands), Harden, k + 1)
      BY <2>1, <2>2, HardenCommands, LeftNext
    <3> QED
      BY <3>1, HardenLength
  <2>4. live' = Effect(live, Harden[k])
    BY <1>5, <2>3 DEF HCommand
  <2>5. Sound(live') /\ Ensured(live', k + 1)
    BY <1>1, <2>2, <2>3, <2>4, HardenStep
  <2>6. Ensured(live', k)
    BY <2>3, <2>5 DEF Ensured
  <2>7. commands' = commands \/ commands' = Tail(commands)
    BY <1>5 DEF HCommand
  <2>8. k + 1 \in 1 .. 19
    BY <2>3
  <2>9. \E n \in 1 .. 19 : Left(commands', Harden, n) /\ Ensured(live', n)
    BY <2>2, <2>3, <2>5, <2>6, <2>7, <2>8
  <2> QED
    BY <1>1, <1>3, <2>1, <2>5, <2>9
<1>6. CASE HSave
  BY <1>1, <1>3, <1>6 DEF HSave, FirewallInv
<1>7. CASE HExcept
  BY <1>1, <1>3, <1>7 DEF HExcept, FirewallInv
<1>8. CASE HRestore
  BY <1>1, <1>3, <1>8 DEF HRestore, FirewallInv
<1>9. CASE HEnd
  BY <1>1, <1>3, <1>9 DEF HEnd
<1> QED
  BY <1>4, <1>5, <1>6, <1>7, <1>8, <1>9 DEF HNext

LEMMA FirewallRemediate ==
  ASSUME StepInv, FirewallInv, hpc = "idle", RNext, UNCHANGED <<hvars, deployed>>
  PROVE  FirewallInv'
<1>1. /\ UNCHANGED <<hpc, commands, backup, deployed>>
      /\ Sound(live) /\ Sound(boot) /\ deployed \in Rulesets /\ Plain(deployed)
      /\ pc # "idle" => Sound(saved.live) /\ Sound(saved.boot)
  BY DEF hvars, FirewallInv
<1>2. ASSUME Sound(live'), Sound(boot'), pc' # "idle" => Sound(saved'.live) /\ Sound(saved'.boot)
      PROVE  FirewallInv'
  BY <1>1, <1>2 DEF FirewallInv, Sound
<1>3. CASE RApply
  BY <1>1, <1>2, <1>3 DEF RApply
<1>4. CASE InsertNext
  <2>1. todo \in Seq({Additive[i] : i \in 1 .. 4}) /\ todo # <<>>
    BY <1>4 DEF InsertNext, StepInv
  <2>2. Head(todo) \in {Additive[i] : i \in 1 .. 4}
    BY <2>1
  <2>3. Sound(live')
    BY <1>1, <1>4, <2>2, AdditiveStep DEF InsertNext
  <2> QED
    BY <1>1, <1>2, <1>4, <2>3 DEF InsertNext
<1>5. CASE SaveRules
  BY <1>1, <1>2, <1>5 DEF SaveRules
<1>6. CASE RestoreNext
  BY <1>1, <1>2, <1>6 DEF RestoreNext
<1>7. CASE RestoreRules
  BY <1>1, <1>2, <1>7 DEF RestoreRules
<1>8. CASE REnd
  BY <1>1, <1>2, <1>8 DEF REnd, Goto
<1>9. CASE \/ MigrateToken \/ StopResolver \/ EnsureDnscrypt \/ CopyDnscrypt \/ WriteNext
           \/ RestartServices \/ CheckHealth \/ OwnFiles \/ RExcept \/ RestartBack
  <2>1. UNCHANGED <<live, boot, saved>> /\ pc # "idle"
    BY <1>9 DEF MigrateToken, StopResolver, EnsureDnscrypt, CopyDnscrypt, WriteNext,
                RestartServices, CheckHealth, OwnFiles, RExcept, RestartBack, Migrating
  <2> QED
    BY <1>1, <1>2, <2>1
<1> QED
  BY <1>3, <1>4, <1>5, <1>6, <1>7, <1>8, <1>9 DEF RNext

LEMMA FirewallAround ==
  ASSUME FirewallInv, WeeklyUpdate \/ Reboot \/ UNCHANGED vars
  PROVE  FirewallInv'
<1>1. CASE WeeklyUpdate \/ UNCHANGED vars
  <2>1. UNCHANGED <<live, boot, hpc, commands, backup, pc, saved, deployed>>
    BY <1>1 DEF WeeklyUpdate, vars, hvars, rvars
  <2> QED
    BY <2>1 DEF FirewallInv, Sound
<1>2. CASE Reboot
  <2>1. live' = boot /\ UNCHANGED <<boot, deployed>> /\ pc' = "idle" /\ hpc' = "idle"
    BY <1>2 DEF Reboot
  <2> QED
    BY <2>1 DEF FirewallInv, Sound
<1> QED
  BY <1>1, <1>2

\* The invariant of the rules.
LEMMA RulesSound == Spec => []FirewallInv
<1>1. StepInv /\ FirewallInv /\ [Next]_vars => FirewallInv'
  BY FirewallHarden, FirewallRemediate, FirewallAround DEF Next
<1> QED
  BY <1>1, FirewallInit, Steps, PTL DEF Spec

\* What the server admitted of established connections, loopback, SSH, declared
\* services and DNS when it was deployed it admits after every command of either tool,
\* whichever fails or is killed, and after a reboot.
THEOREM AccessIsKept == Spec => []AccessKept
<1>1. FirewallInv => AccessKept
  BY SoundMeans DEF FirewallInv, AccessKept
<1> QED
  BY <1>1, RulesSound, PTL

\* What it refused of undeclared ports, the metadata address, peers from outside and
\* from one another it refuses after each of them, also while its forwarding chain is
\* empty.
THEOREM NothingIsOpened == Spec => []NothingOpened
<1>1. FirewallInv => NothingOpened
  BY SoundMeans DEF FirewallInv, NothingOpened
<1> QED
  BY <1>1, RulesSound, PTL

-----------------------------------------------------------------------------
(* Files and services.                                                         *)

\* Once the resolver runs the reviewed configuration, or nothing, a stop of it leaves
\* the reviewed configuration in tmpfs.
LEMMA HarmlessStop ==
  ASSUME StepInv, Reviewed("ramAgh"), ResolverHarmless, NEW h \in AfterStop(host)
  PROVE  h = host
<1>1. host["ramAgh"] = "reviewed" /\ host \in [Files -> Versions] /\ "ramAgh" \in Files
  BY DEF Reviewed, IfPresent, StepInv, TypeOK, RTypeOK, Files
<1>2. h = host \/ (running.resolver = "reviewed" /\ h = [host EXCEPT !.ramAgh = running.resolver])
  BY DEF AfterStop, ResolverHarmless
<1>3. [host EXCEPT !.ramAgh = "reviewed"] = host
  BY <1>1
<1> QED
  BY <1>2, <1>3

\* No server comes without the core's template.
LEMMA ProgressInit == Init => ProgressInv
<1> SUFFICES ASSUME Init PROVE ProgressInv
  OBVIOUS
<1>1. PICK s \in Servers : RInit(s[2])
  BY DEF Init
<1>2. s[2] \in Missing
  BY MaintenanceAssumption
<1>3. host["template"] = "found" /\ pc = "idle"
  BY <1>1, <1>2 DEF RInit, Missing, Files
<1> QED
  BY <1>3 DEF ProgressInv

\* One file more has been written.
LEMMA ProgressWrite ==
  ASSUME StepInv, ProgressInv, WriteNext
  PROVE  ProgressInv'
<1>1. /\ pc = "write" /\ UNCHANGED <<live, boot, running, saved>>
      /\ todo \in Seq(Files) /\ todo # <<>> /\ host \in [Files -> Versions]
  BY DEF WriteNext, StepInv, TypeOK, RTypeOK
<1>2. PICK k \in 1 .. 9 :
        /\ Left(todo, Written, k)
        /\ \A j \in 1 .. k - 1 : Reviewed(Written[j])
        /\ IF k <= 2 THEN running.resolver = "down" ELSE ResolverHarmless
  BY <1>1 DEF ProgressInv
<1>3. /\ Head(todo) = Written[k] /\ Left(Tail(todo), Written, k + 1)
      /\ Head(todo) \in Files /\ Len(todo) = 10 - k
  BY <1>1, <1>2, WrittenIs, LeftNext DEF Left
<1> DEFINE f == Written[k]
<1>4. host' = IF f \in IfPresent /\ host[f] = "absent" THEN host
              ELSE [host EXCEPT ![f] = "reviewed"]
  BY <1>3 DEF WriteNext
<1>5. \A g \in Files : Reviewed(g) \/ g = f => Reviewed(g)'
  BY <1>1, <1>3, <1>4 DEF Reviewed
<1>6. \A j \in 1 .. k : Reviewed(Written[j])'
  <2>1. \A j \in 1 .. k : j \in 1 .. 9 /\ (j = k \/ j \in 1 .. k - 1)
    OBVIOUS
  <2>2. \A j \in 1 .. 9 : Written[j] \in Files
    BY WrittenIs
  <2> QED
    BY <1>2, <1>5, <2>1, <2>2
<1>7. f \in Rewritten /\ "dns" \notin Rewritten /\ "ramDns" \notin Rewritten
  BY WrittenIs DEF Rewritten
<1>8. /\ host'["dns"] = host["dns"] /\ host'["ramDns"] = host["ramDns"]
      /\ host["template"] # "absent" /\ host'["template"] # "absent"
      /\ saved.host.template # "absent" /\ host["dns"] \in {"absent", host["ramDns"]}
  BY <1>1, <1>3, <1>4, <1>7 DEF ProgressInv, Files
<1> HIDE DEF f
<1>9. ResolverHarmless'
  BY <1>1, <1>2 DEF ResolverHarmless
<1>10. CASE Len(todo) > 1
  <2>1. pc' = "write" /\ todo' = Tail(todo) /\ k + 1 \in 1 .. 9 /\ (k + 1) - 1 = k
    BY <1>1, <1>3, <1>10 DEF WriteNext
  <2>2. k + 1 <= 2 => running'.resolver = "down"
    BY <1>1, <1>2
  <2>3. \E n \in 1 .. 9 : /\ Left(todo', Written, n)
                          /\ \A j \in 1 .. n - 1 : Reviewed(Written[j])'
                          /\ IF n <= 2 THEN running'.resolver = "down" ELSE ResolverHarmless'
    BY <1>3, <1>6, <1>9, <2>1, <2>2
  <2> QED
    BY <1>1, <1>8, <2>1, <2>3 DEF ProgressInv
<1>11. CASE ~ (Len(todo) > 1)
  <2>1. pc' = "rules" /\ k = 9
    BY <1>1, <1>3, <1>11 DEF WriteNext, Goto
  <2>2. \A g \in Rewritten : Reviewed(g)'
    BY <1>6, <2>1, WrittenIs
  <2> QED
    BY <1>1, <1>8, <1>9, <2>1, <2>2 DEF ProgressInv
<1> QED
  BY <1>10, <1>11

\* The other steps of the remediation.
LEMMA ProgressRemediate ==
  ASSUME StepInv, ProgressInv, hpc = "idle", RNext
  PROVE  ProgressInv'
<1>1. /\ host \in [Files -> Versions] /\ saved.host \in [Files -> Versions]
      /\ running \in [Services -> Versions \cup {"down"}]
      /\ {"template", "dns", "ramDns", "token", "ramCore", "sub", "ramAgh"} \subseteq Files
      /\ {"ramCore", "sub", "ramAgh"} \subseteq Rewritten
  BY DEF StepInv, TypeOK, RTypeOK, Files, Rewritten
<1>2. /\ host["template"] # "absent"
      /\ pc # "idle" => saved.host["template"] # "absent"
  BY DEF ProgressInv
<1>3. ASSUME host'["template"] # "absent", pc' # "idle" => saved'.host["template"] # "absent",
             pc' \in Migrating \cup {"idle", "restore", "restartBack", "failed"},
             pc' \notin {"dns", "ramDns", "write", "rules", "restart", "check", "own"}
      PROVE  ProgressInv'
  BY <1>3 DEF ProgressInv, Migrating
<1>4. CASE RApply
  BY <1>2, <1>3, <1>4 DEF RApply, Goto, Migrating
<1>5. CASE MigrateToken
  BY <1>1, <1>2, <1>3, <1>5 DEF MigrateToken, Goto, Migrating
<1>6. CASE StopResolver
  <2>1. host'["template"] # "absent" /\ running'["resolver"] = "down"
        /\ pc' = "dns" /\ UNCHANGED saved /\ pc # "idle"
    BY <1>1, <1>2, <1>6, Stopped DEF StopResolver, Goto, Services
  <2> QED
    BY <1>2, <2>1 DEF ProgressInv
<1>7. CASE EnsureDnscrypt
  <2>1. host'["template"] # "absent" /\ running.resolver = "down" /\ pc' = "ramDns"
        /\ UNCHANGED <<saved, running>> /\ pc # "idle"
    BY <1>1, <1>2, <1>7 DEF EnsureDnscrypt, Provider, Goto, ProgressInv
  <2> QED
    BY <1>2, <2>1 DEF ProgressInv
<1>8. CASE CopyDnscrypt
  <2>1. host'["template"] # "absent" /\ running.resolver = "down" /\ pc' = "write"
        /\ UNCHANGED <<saved, running>> /\ pc # "idle" /\ todo' = Written
    BY <1>1, <1>2, <1>8 DEF CopyDnscrypt, Goto, ProgressInv
  <2>2. host'["dns"] \in {"absent", host'["ramDns"]}
    BY <1>1, <1>8 DEF CopyDnscrypt
  <2>3. Left(todo', Written, 1)
    BY <2>1, LeftAll, WrittenIs
  <2>4. \E n \in 1 .. 9 : /\ Left(todo', Written, n)
                          /\ \A j \in 1 .. n - 1 : Reviewed(Written[j])'
                          /\ IF n <= 2 THEN running'.resolver = "down" ELSE ResolverHarmless'
    BY <2>1, <2>3
  <2> QED
    BY <1>2, <2>1, <2>2, <2>4 DEF ProgressInv
<1>9. CASE WriteNext
  BY <1>9, ProgressWrite
<1>10. CASE InsertNext
  <2>1. pc = "rules" /\ UNCHANGED <<pc, boot, host, running, saved>>
    BY <1>10 DEF InsertNext
  <2> QED
    BY <2>1 DEF ProgressInv, Reviewed, ResolverHarmless
<1>11. CASE SaveRules
  <2>1. pc = "rules" /\ pc' = "restart" /\ boot' = live /\ UNCHANGED <<live, host, running, saved>>
    BY <1>11 DEF SaveRules, Goto
  <2> QED
    BY <2>1 DEF ProgressInv, Reviewed, ResolverHarmless
<1>12. CASE RestartServices
  <2>1. /\ pc = "restart" /\ pc' = "check" /\ UNCHANGED <<live, boot, saved>>
        /\ host' \in AfterStop(host) /\ running' = Loaded(host')
    BY <1>12 DEF RestartServices, Goto
  <2>2. (\A f \in Rewritten : Reviewed(f)) /\ ResolverHarmless /\ boot = live
        /\ host["dns"] \in {"absent", host["ramDns"]}
    BY <2>1 DEF ProgressInv
  <2>3. host' = host
    BY <1>1, <2>1, <2>2, HarmlessStop
  <2>4. host["ramAgh"] = "reviewed" /\ host["ramCore"] = "reviewed" /\ host["sub"] = "reviewed"
    BY <1>1, <2>2 DEF Reviewed, IfPresent
  <2>5. \A s \in Services : running'[s] = "reviewed"
    BY <2>1, <2>3, <2>4 DEF Loaded, Services
  <2>6. ResolverHarmless'
    BY <2>5 DEF ResolverHarmless, Services
  <2>7. \A f \in Rewritten : Reviewed(f)'
    BY <2>2, <2>3 DEF Reviewed
  <2> QED
    BY <1>2, <2>1, <2>2, <2>3, <2>5, <2>6, <2>7 DEF ProgressInv
<1>13. CASE CheckHealth \/ OwnFiles
  <2>1. /\ pc \in {"check", "own"} /\ pc' \in {"own", "done"}
        /\ UNCHANGED <<live, boot, host, running, saved>>
    BY <1>13 DEF CheckHealth, OwnFiles, Goto
  <2> QED
    BY <2>1 DEF ProgressInv, Reviewed, ResolverHarmless
<1>14. CASE RExcept
  BY <1>2, <1>3, <1>14 DEF RExcept, Goto, Migrating
<1>15. CASE RestoreNext
  <2>1. todo \in Seq(Target) /\ todo # <<>> /\ pc = "restore" /\ UNCHANGED <<pc, saved>>
    BY <1>15 DEF RestoreNext, StepInv
  <2>2. Head(todo) \in Target
    BY <2>1
  <2>3. host'["template"] # "absent"
    <3>1. CASE Head(todo) = "rules"
      BY <1>2, <1>15, <3>1 DEF RestoreNext
    <3>2. CASE Head(todo) # "rules"
      BY <1>1, <1>2, <1>15, <2>1, <2>2, <3>2 DEF RestoreNext, Target
    <3> QED
      BY <3>1, <3>2
  <2> QED
    BY <1>2, <1>3, <2>1, <2>3
<1>16. CASE RestoreRules
  BY <1>2, <1>3, <1>16 DEF RestoreRules, Goto
<1>17. CASE RestartBack
  <2>1. host'["template"] = host["template"]
    BY <1>1, <1>17, Stopped DEF RestartBack
  <2> QED
    BY <1>2, <1>3, <1>17, <2>1 DEF RestartBack, Goto
<1>18. CASE REnd
  BY <1>2, <1>3, <1>18 DEF REnd, Goto
<1> QED
  BY <1>4, <1>5, <1>6, <1>7, <1>8, <1>9, <1>10, <1>11, <1>12, <1>13, <1>14, <1>15, <1>16,
     <1>17, <1>18 DEF RNext

\* The weekly update, which keeps out of the time in which the resolver is stopped and
\* its configuration not yet written.
LEMMA ProgressUpdate ==
  ASSUME ~ TimerFalls, StepInv, ProgressInv, WeeklyUpdate
  PROVE  ProgressInv'
<1>1. /\ host \in [Files -> Versions] /\ running \in [Services -> Versions \cup {"down"}]
      /\ {"template", "dns", "ramDns", "ramAgh", "ramCore"} \subseteq Files
      /\ {"ramAgh", "ramCore"} \subseteq Rewritten
  BY DEF StepInv, TypeOK, RTypeOK, Files, Rewritten
<1>2. /\ UNCHANGED <<live, boot, pc, todo, saved>> /\ host' \in AfterStop(host) /\ ~ ResolverStopped
      /\ running' = [running EXCEPT !.resolver = host'.ramAgh,
                                    !.core = IF @ = "down" THEN @ ELSE host.ramCore]
  BY DEF WeeklyUpdate
<1>3. /\ host'["template"] = host["template"] /\ host'["dns"] = host["dns"]
      /\ host'["ramDns"] = host["ramDns"]
  BY <1>1, <1>2, Stopped
<1>4. pc \notin {"dns", "ramDns"}
  BY <1>2 DEF ResolverStopped
<1>5. ASSUME Reviewed("ramAgh"), ResolverHarmless
      PROVE  host' = host /\ running'["resolver"] = "reviewed"
  <2>1. host' = host
    BY <1>2, <1>5, HarmlessStop
  <2> QED
    BY <1>1, <1>2, <1>5, <2>1 DEF Reviewed, IfPresent, Services
<1>6. CASE pc = "write"
  <2>1. PICK k \in 1 .. 9 :
          /\ Left(todo, Written, k)
          /\ \A j \in 1 .. k - 1 : Reviewed(Written[j])
          /\ IF k <= 2 THEN running.resolver = "down" ELSE ResolverHarmless
    BY <1>6 DEF ProgressInv
  <2>2. Head(todo) = Written[k] /\ Head(todo) \notin {"agh", "ramAgh"}
    BY <1>2, <1>6, <2>1, LeftNext, WrittenIs DEF StepInv, ResolverStopped
  <2>3. k \notin {1, 2}
    BY <2>2, WrittenIs
  <2>4. Reviewed("ramAgh") /\ ResolverHarmless
    BY <2>1, <2>3, WrittenIs
  <2>5. host' = host /\ ResolverHarmless'
    BY <1>5, <2>4 DEF ResolverHarmless
  <2>6. \A j \in 1 .. k - 1 : Reviewed(Written[j])'
    BY <2>1, <2>5 DEF Reviewed
  <2>7. \E n \in 1 .. 9 : /\ Left(todo', Written, n)
                          /\ \A j \in 1 .. n - 1 : Reviewed(Written[j])'
                          /\ IF n <= 2 THEN running'.resolver = "down" ELSE ResolverHarmless'
    BY <1>2, <2>1, <2>3, <2>5, <2>6
  <2> QED
    BY <1>2, <1>3, <1>6, <2>7 DEF ProgressInv
<1>7. CASE pc \in {"rules", "restart", "check", "own", "done"}
  <2>1. (\A f \in Rewritten : Reviewed(f)) /\ ResolverHarmless
    BY <1>7 DEF ProgressInv
  <2>2. host' = host /\ running'["resolver"] = "reviewed"
    BY <1>1, <1>5, <2>1
  <2>3. host["ramCore"] = "reviewed"
    BY <1>1, <2>1 DEF Reviewed, IfPresent
  <2>4. (\A f \in Rewritten : Reviewed(f)') /\ ResolverHarmless'
    BY <2>1, <2>2 DEF Reviewed, ResolverHarmless
  <2>5. ASSUME \A s \in Services : running[s] = "reviewed"
        PROVE  \A s \in Services : running'[s] = "reviewed"
    BY <1>1, <1>2, <2>2, <2>3, <2>5 DEF Services
  <2> QED
    BY <1>2, <1>3, <1>7, <2>4, <2>5 DEF ProgressInv
<1>8. CASE pc \notin {"write", "rules", "restart", "check", "own", "done"}
  BY <1>2, <1>3, <1>4, <1>8 DEF ProgressInv
<1> QED
  BY <1>6, <1>7, <1>8

\* A reboot, and the other tool.
LEMMA ProgressAround ==
  ASSUME StepInv, ProgressInv,
         Reboot \/ (pc = "idle" /\ UNCHANGED rvars) \/ UNCHANGED vars
  PROVE  ProgressInv'
<1>1. CASE Reboot
  <2>1. host'["template"] = host["template"] /\ pc' = "idle"
    BY <1>1 DEF Reboot, StepInv, TypeOK, RTypeOK, Files
  <2> QED
    BY <2>1 DEF ProgressInv
<1>2. CASE pc = "idle" /\ UNCHANGED rvars
  BY <1>2 DEF ProgressInv, rvars
<1>3. CASE UNCHANGED vars
  BY <1>3 DEF ProgressInv, Reviewed, ResolverHarmless, vars, rvars
<1> QED
  BY <1>1, <1>2, <1>3

\* What the rest of a list does not name, the list does not, or as its next step.
LEMMA NotLeft ==
  ASSUME NEW S, NEW s \in Seq(S), s # <<>>, NEW x, x # Head(s),
         \A i \in DOMAIN Tail(s) : Tail(s)[i] # x
  PROVE  \A i \in DOMAIN s : s[i] # x
<1>1. /\ Len(s) \in Nat /\ DOMAIN s = 1 .. Len(s) /\ Head(s) = s[1]
      /\ DOMAIN Tail(s) = 1 .. Len(s) - 1
      /\ \A i \in 1 .. Len(s) - 1 : Tail(s)[i] = s[i + 1]
  OBVIOUS
<1>2. ASSUME NEW i \in 1 .. Len(s), i # 1 PROVE s[i] # x
  <2>1. i - 1 \in 1 .. Len(s) - 1 /\ (i - 1) + 1 = i
    BY <1>1, <1>2
  <2>2. Tail(s)[i - 1] = s[i] /\ Tail(s)[i - 1] # x
    BY <1>1, <2>1
  <2> QED
    BY <2>2
<1> QED
  BY <1>1, <1>2

Restored == Files \ {"ramAgh", "token"}

\* What is restored stays so.
LEMMA RestoreRemediate ==
  ASSUME StepInv, RestoreInv, hpc = "idle", RNext
  PROVE  RestoreInv'
<1>1. /\ host \in [Files -> Versions] /\ saved.host \in [Files -> Versions]
      /\ running \in [Services -> Versions \cup {"down"}]
      /\ Restored = Files \ {"ramAgh", "token"}
      /\ pc \in Migrating \cup {"idle", "done", "restore", "restartBack", "failed"}
  BY DEF StepInv, TypeOK, RTypeOK, Files, Restored
<1>2. CASE \/ RApply \/ MigrateToken \/ StopResolver \/ EnsureDnscrypt \/ CopyDnscrypt
           \/ InsertNext \/ SaveRules \/ RestartServices \/ CheckHealth \/ OwnFiles
           \/ WriteNext \/ REnd
  <2>1. pc' \notin {"restore", "restartBack", "failed"}
    BY <1>2 DEF RApply, MigrateToken, StopResolver, EnsureDnscrypt, CopyDnscrypt, InsertNext,
                SaveRules, RestartServices, CheckHealth, OwnFiles, WriteNext, REnd, Goto
  <2> QED
    BY <2>1 DEF RestoreInv
<1>3. CASE RExcept
  <2>1. pc' = "restore" /\ todo' = Targets
    BY <1>3 DEF RExcept, Goto
  <2>2. \A f \in Restored \cup {"rules"} : ~ \A i \in DOMAIN todo' : todo'[i] # f
    BY <2>1, TargetsIs DEF Target, Restored, Files
  <2> QED
    BY <1>1, <2>1, <2>2 DEF RestoreInv
<1>4. CASE RestoreNext
  <2>1. /\ pc = "restore" /\ todo # <<>> /\ todo \in Seq(Target) /\ todo' = Tail(todo)
        /\ UNCHANGED <<pc, perms, running, saved>>
    BY <1>4 DEF RestoreNext, StepInv
  <2>2. ASSUME NEW x, \A i \in DOMAIN todo' : todo'[i] # x, x # Head(todo)
        PROVE  \A i \in DOMAIN todo : todo[i] # x
    BY <2>1, <2>2, NotLeft
  <2>3. ASSUME NEW f \in Restored, \A i \in DOMAIN todo' : todo'[i] # f
        PROVE  host'[f] = saved.host[f]
    <3>1. f \in Files /\ f # "rules"
      BY <1>1 DEF Files
    <3>2. CASE f = Head(todo)
      BY <1>1, <1>4, <3>1, <3>2 DEF RestoreNext
    <3>3. CASE f # Head(todo)
      <4>1. host[f] = saved.host[f]
        BY <1>1, <2>1, <2>2, <2>3, <3>3 DEF RestoreInv
      <4> QED
        BY <1>1, <1>4, <3>1, <3>3, <4>1 DEF RestoreNext
    <3> QED
      BY <3>2, <3>3
  <2>4. ASSUME \A i \in DOMAIN todo' : todo'[i] # "rules"
        PROVE  boot' = saved.boot
    <3>1. CASE Head(todo) = "rules"
      BY <1>4, <3>1 DEF RestoreNext
    <3>2. CASE Head(todo) # "rules"
      <4>1. boot = saved.boot
        BY <2>1, <2>2, <2>4, <3>2 DEF RestoreInv
      <4> QED
        BY <1>4, <3>2, <4>1 DEF RestoreNext
    <3> QED
      BY <3>1, <3>2
  <2> QED
    BY <1>1, <2>1, <2>3, <2>4 DEF RestoreInv
<1>5. CASE RestoreRules
  <2>1. /\ pc = "restore" /\ todo = <<>> /\ pc' = "restartBack" /\ perms' = saved.perms
        /\ UNCHANGED <<boot, host, saved>>
    BY <1>5 DEF RestoreRules, Goto
  <2>2. (\A f \in Restored : host[f] = saved.host[f]) /\ boot = saved.boot
    BY <1>1, <2>1 DEF RestoreInv
  <2> QED
    BY <1>1, <2>1, <2>2 DEF RestoreInv
<1>6. CASE RestartBack
  <2>1. /\ pc = "restartBack" /\ pc' = "failed" /\ UNCHANGED <<boot, perms, saved>>
        /\ host' \in AfterStop(host)
    BY <1>6 DEF RestartBack, Goto
  <2>2. /\ \A f \in Restored : host[f] = saved.host[f]
        /\ boot = saved.boot /\ perms = saved.perms
    BY <1>1, <2>1 DEF RestoreInv
  <2>3. \A f \in Restored : host'[f] = saved.host[f]
    BY <1>1, <2>1, <2>2, Stopped
  <2> QED
    BY <1>1, <2>1, <2>2, <2>3 DEF RestoreInv
<1> QED
  BY <1>2, <1>3, <1>4, <1>5, <1>6 DEF RNext

LEMMA RestoreAround ==
  ASSUME StepInv, RestoreInv,
         WeeklyUpdate \/ Reboot \/ (pc = "idle" /\ UNCHANGED rvars) \/ UNCHANGED vars
  PROVE  RestoreInv'
<1>1. CASE Reboot
  BY <1>1 DEF Reboot, RestoreInv
<1>2. CASE pc = "idle" /\ UNCHANGED rvars
  BY <1>2 DEF RestoreInv, rvars
<1>3. CASE UNCHANGED vars
  BY <1>3 DEF RestoreInv, vars, rvars
<1>4. CASE WeeklyUpdate
  <2>1. /\ host \in [Files -> Versions] /\ running \in [Services -> Versions \cup {"down"}]
        /\ Restored = Files \ {"ramAgh", "token"}
    BY DEF StepInv, TypeOK, RTypeOK, Restored
  <2>2. UNCHANGED <<boot, pc, todo, perms, saved>> /\ host' \in AfterStop(host)
    BY <1>4 DEF WeeklyUpdate
  <2>3. \A f \in Restored : host'[f] = host[f]
    BY <2>1, <2>2, Stopped
  <2> QED
    BY <2>1, <2>2, <2>3 DEF RestoreInv
<1> QED
  BY <1>1, <1>2, <1>3, <1>4

\* The two invariants of the remediation.
LEMMA RemediationSteps == ~ TimerFalls => (Spec => [](ProgressInv /\ RestoreInv))
<1> SUFFICES ASSUME ~ TimerFalls PROVE Spec => [](ProgressInv /\ RestoreInv)
  OBVIOUS
<1>1. Init => ProgressInv /\ RestoreInv
  <2>1. Init => pc = "idle"
    BY DEF Init, RInit
  <2> QED
    BY <2>1, ProgressInit DEF RestoreInv
<1>2. StepInv /\ ProgressInv /\ RestoreInv /\ [Next]_vars => ProgressInv' /\ RestoreInv'
  BY ProgressRemediate, ProgressUpdate, ProgressAround, RestoreRemediate, RestoreAround DEF Next
<1> QED
  BY <1>1, <1>2, Steps, PTL DEF Spec

\* Unless the weekly update of the resolver falls between the stop of the resolver and
\* the writing of its configuration: a remediation that reports a rollback has put
\* files, rules file and permissions back, and one that reports success leaves what
\* the next boot keeps.
THEOREM RemediationWholeOrUndone == ~ TimerFalls => (Spec => []RemediatedOrRestored)
<1>1. StepInv /\ ProgressInv /\ RestoreInv => RemediatedOrRestored
  <2> SUFFICES ASSUME StepInv, ProgressInv, RestoreInv PROVE RemediatedOrRestored
    OBVIOUS
  <2>1. CASE pc = "failed"
    BY <2>1 DEF RestoreInv, RemediatedOrRestored
  <2>2. CASE pc = "done"
    <3>1. running = [s \in Services |-> "reviewed"]
      BY <2>2 DEF ProgressInv, StepInv, TypeOK, RTypeOK
    <3>2. /\ \A f \in Rewritten : host[f] = "reviewed" \/ (f \in IfPresent /\ host[f] = "absent")
          /\ host["template"] # "absent" /\ host["dns"] \in {"absent", host["ramDns"]} /\ boot = live
      BY <2>2 DEF ProgressInv, Reviewed
    <3>3. /\ host["agh"] = host["ramAgh"] /\ host["template"] = host["ramCore"]
          /\ host["config"] # "absent" /\ host["ramConfig"] # "absent" =>
               host["config"] = host["ramConfig"]
      BY <3>2 DEF Rewritten, IfPresent
    <3> QED
      BY <2>2, <3>1, <3>2, <3>3 DEF RemediatedOrRestored
  <2>3. CASE pc \notin {"failed", "done"}
    BY <2>3 DEF RemediatedOrRestored
  <2> QED
    BY <2>1, <2>2, <2>3
<1>2. (~ TimerFalls => (Spec => [](ProgressInv /\ RestoreInv)))
  BY RemediationSteps
<1> QED
  BY <1>1, <1>2, Steps, PTL

-----------------------------------------------------------------------------
(* What the hardening leaves behind when it reports success.                   *)

\* FORWARD accepts only what the hardening deletes, and lets what lies behind the WAN,
\* and its replies, come as far as the tools' chain.
Clear(rules) ==
  \A i \in DOMAIN rules :
    /\ rules[i].do = "ACCEPT" => rules[i] \in {WgIn, WgOut}
    /\ rules[i] = Jump("FORTRESS_FORWARD") =>
         \A j \in 1 .. i - 1 : rules[j].do = "ACCEPT" \/ rules[j].on \cap BehindWan = {}

\* The rules of FORTRESS_FORWARD, in their order.
Refill == <<NoMetadata, EstablishedFw, ToWan, FromWan>>

\* What holds before command k: the lists the hardening fills are what it has put there.
Laid(fw, k) ==
  /\ Ensured(fw, k)
  /\ k > 5 => ~ Has(fw.chain["FORWARD"], WgIn)
  /\ k > 6 => ~ Has(fw.chain["FORWARD"], WgOut)
  /\ LET rules == fw.chain["FORTRESS_FORWARD"] IN
     /\ k = 8  => rules = <<>>
     /\ k = 9  => rules = <<NoMetadata>>
     /\ k = 10 => rules = <<NoMetadata, EstablishedFw>>
     /\ k = 11 => rules = <<NoMetadata, EstablishedFw, ToWan>>
     /\ k > 11 => rules = Refill
  /\ k > 12 => Has(fw.chain["FORWARD"], Jump("FORTRESS_FORWARD"))
  /\ k > 13 => fw.chain["FORTRESS_NAT"] = IF k > 14 THEN <<Masquerade>> ELSE <<>>
  /\ k > 15 => Has(fw.chain["POSTROUTING"], Jump("FORTRESS_NAT"))
  /\ k > 16 => fw.policy["INPUT"] = "DROP"
  /\ k > 17 => fw.policy["FORWARD"] = "DROP"
  /\ k > 18 => fw.policy["OUTPUT"] = "ACCEPT"

SettleInv ==
  /\ Usual(live) /\ Usual(boot)
  /\ hpc # "idle" => Usual(backup)
  /\ pc # "idle" => Usual(saved.live) /\ Usual(saved.boot)
  /\ hpc = "harden" => \E k \in 1 .. 19 : Left(commands, Harden, k) /\ Laid(live, k)
  /\ hpc = "hardened" => Laid(live, 19) /\ boot = live
  /\ hpc = "rolledBack" => live = backup

\* The same, without the numbers of the rules.
LEMMA UsualIs ==
  ASSUME NEW fw
  PROVE  Usual(fw) <=>
           /\ \A r : Has(fw.chain["INPUT"], r) => (r.do = "ACCEPT" => "rest" \notin r.on)
           /\ Clear(fw.chain["FORWARD"])
BY DEF Usual, Clear, Has

\* A list stays clear when a rule is deleted, or one that refuses nothing of it put first.
LEMMA ClearDeleted ==
  ASSUME NEW L \in Seq(Rules), NEW r \in Rules, Clear(L)
  PROVE  Clear(RemoveFirst(L, r))
<1>1. CASE ~ Contains(L, r)
  BY <1>1 DEF RemoveFirst, Contains
<1>2. CASE Contains(L, r)
  <2> DEFINE M == RemoveFirst(L, r)
             n == Len(L)
  <2>1. /\ n \in Nat /\ DOMAIN L = 1 .. n /\ M \in Seq(Rules) /\ DOMAIN M = 1 .. n - 1
    BY <1>2, Deleted
  <2>2. PICK k \in 1 .. n : /\ L[k] = r
                            /\ \A i \in 1 .. n - 1 : M[i] = IF i < k THEN L[i] ELSE L[i + 1]
    BY <1>2, Deleted
  <2> HIDE DEF M, n
  <2> DEFINE was(i) == IF i < k THEN i ELSE i + 1
  <2>3. ASSUME NEW i \in 1 .. n - 1
        PROVE  /\ was(i) \in 1 .. n /\ M[i] = L[was(i)]
               /\ \A j \in 1 .. i - 1 : was(j) \in 1 .. was(i) - 1 /\ M[j] = L[was(j)]
    <3>1. was(i) \in 1 .. n /\ M[i] = L[was(i)]
      BY <2>1, <2>2
    <3>2. ASSUME NEW j \in 1 .. i - 1
          PROVE  was(j) \in 1 .. was(i) - 1 /\ M[j] = L[was(j)]
      <4>1. j \in 1 .. n - 1
        BY <2>1
      <4>2. M[j] = L[was(j)]
        BY <2>2, <4>1
      <4>3. was(j) \in 1 .. was(i) - 1
        BY <2>1, <2>2
      <4> QED
        BY <4>2, <4>3
    <3> QED
      BY <3>1, <3>2
  <2> HIDE DEF was
  <2>4. ASSUME NEW i \in 1 .. n - 1
        PROVE  /\ M[i].do = "ACCEPT" => M[i] \in {WgIn, WgOut}
               /\ M[i] = Jump("FORTRESS_FORWARD") =>
                    \A j \in 1 .. i - 1 : M[j].do = "ACCEPT" \/ M[j].on \cap BehindWan = {}
    <3>1. was(i) \in DOMAIN L /\ M[i] = L[was(i)]
      BY <2>1, <2>3
    <3>2. ASSUME M[i] = Jump("FORTRESS_FORWARD"), NEW j \in 1 .. i - 1
          PROVE  M[j].do = "ACCEPT" \/ M[j].on \cap BehindWan = {}
      <4>1. was(j) \in 1 .. was(i) - 1 /\ M[j] = L[was(j)]
        BY <2>3
      <4> QED
        BY <3>1, <3>2, <4>1 DEF Clear
    <3> QED
      BY <3>1, <3>2 DEF Clear
  <2> QED
    BY <2>1, <2>4 DEF Clear, M
<1> QED
  BY <1>1, <1>2

LEMMA ClearInserted ==
  ASSUME NEW L \in Seq(Rules), NEW r \in Rules, Clear(L), r.do # "ACCEPT", r.on \cap BehindWan = {}
  PROVE  Clear(<<r>> \o L)
<1> DEFINE M == <<r>> \o L
           n == Len(L)
<1>1. /\ n \in Nat /\ DOMAIN L = 1 .. n /\ M \in Seq(Rules) /\ DOMAIN M = 1 .. n + 1
      /\ \A i \in 1 .. n : M[i + 1] = L[i]
      /\ M[1] = r
  OBVIOUS
<1> HIDE DEF M, n
<1>2. \A i \in 1 .. n + 1 : i = 1 \/ (i - 1 \in 1 .. n /\ M[i] = L[i - 1])
  BY <1>1
<1>3. ASSUME NEW i \in 1 .. n + 1
      PROVE  /\ M[i].do = "ACCEPT" => M[i] \in {WgIn, WgOut}
             /\ M[i] = Jump("FORTRESS_FORWARD") =>
                  \A j \in 1 .. i - 1 : M[j].do = "ACCEPT" \/ M[j].on \cap BehindWan = {}
  <2>1. CASE i = 1
    BY <1>1, <2>1
  <2>2. CASE i - 1 \in 1 .. n /\ M[i] = L[i - 1]
    <3>1. ASSUME M[i] = Jump("FORTRESS_FORWARD"), NEW j \in 1 .. i - 1
          PROVE  M[j].do = "ACCEPT" \/ M[j].on \cap BehindWan = {}
      <4>1. CASE j = 1
        BY <1>1, <4>1
      <4>2. CASE j # 1
        <5>1. j \in 1 .. n + 1 /\ j - 1 \in 1 .. (i - 1) - 1
          BY <1>1, <4>2
        <5>2. M[j] = L[j - 1]
          BY <1>2, <4>2, <5>1
        <5> QED
          BY <1>1, <2>2, <3>1, <5>1, <5>2 DEF Clear
      <4> QED
        BY <4>1, <4>2
    <3> QED
      BY <1>1, <2>2, <3>1 DEF Clear
  <2> QED
    BY <1>2, <2>1, <2>2
<1> QED
  BY <1>1, <1>3 DEF Clear, M

\* The commands that keep rules usual.
Fits(c) ==
  \/ c.chain \notin {"INPUT", "FORWARD"}
  \/ c.op = "policy"
  \/ c.chain = "INPUT" /\ c.op \in {"ensure", "ensureFirst"} /\ "rest" \notin c.arg.on
  \/ c.chain = "FORWARD" /\ c.op = "delete"
  \/ /\ c.chain = "FORWARD" /\ c.op = "ensureFirst"
     /\ c.arg.do # "ACCEPT" /\ c.arg.on \cap BehindWan = {}

LEMMA UsualKept ==
  ASSUME NEW fw \in Rulesets, NEW c \in Commands, Usual(fw), Fits(c)
  PROVE  Usual(Effect(fw, c))
<1> DEFINE I == fw.chain["INPUT"]
           F == fw.chain["FORWARD"]
           gw == Effect(fw, c)
<1>1. /\ I \in Seq(Rules) /\ F \in Seq(Rules) /\ {"FORWARD", "INPUT"} \subseteq Chains
      /\ c.op \in {"ensure", "ensureFirst", "delete"} => c.arg \in Rules
  BY DEF Commands, Rulesets, Chains
<1>2. Clear(F) /\ \A r : Has(I, r) => (r.do = "ACCEPT" => "rest" \notin r.on)
  BY UsualIs
<1>3. c.chain # "INPUT" \/ c.op = "policy" => gw.chain["INPUT"] = I
  BY <1>1, OthersKept, PolicySet
<1>4. c.chain # "FORWARD" \/ c.op = "policy" => gw.chain["FORWARD"] = F
  BY <1>1, OthersKept, PolicySet
<1>5. ASSUME NEW r, Has(gw.chain["INPUT"], r), r.do = "ACCEPT" PROVE "rest" \notin r.on
  <2>1. CASE c.chain # "INPUT" \/ c.op = "policy"
    BY <1>2, <1>3, <1>5, <2>1
  <2>2. CASE c.chain = "INPUT" /\ c.op \in {"ensure", "ensureFirst"}
    <3>1. gw.chain["INPUT"] \in {I, Append(I, c.arg), <<c.arg>> \o I}
      BY <2>2, RuleLast, RuleFirst
    <3>2. c.arg \in Rules
      BY <1>1, <2>2
    <3>3. Has(Append(I, c.arg), r) <=> Has(I, r) \/ r = c.arg
      BY <1>1, <3>2, Appended
    <3>4. Has(<<c.arg>> \o I, r) <=> Has(I, r) \/ r = c.arg
      BY <1>1, <3>2, Inserted
    <3>5. Has(I, r) \/ r = c.arg
      BY <1>5, <3>1, <3>3, <3>4
    <3> QED
      BY <1>2, <1>5, <2>2, <3>5 DEF Fits
  <2> QED
    BY <2>1, <2>2 DEF Fits
<1>6. Clear(gw.chain["FORWARD"])
  <2>1. CASE c.chain # "FORWARD" \/ c.op = "policy"
    BY <1>2, <1>4, <2>1
  <2>2. CASE c.chain = "FORWARD" /\ c.op = "delete"
    <3>1. Effect(fw, c).chain[c.chain] = RemoveFirst(fw.chain[c.chain], c.arg)
      BY <2>2, EffectOn
    <3>2. Clear(RemoveFirst(F, c.arg))
      BY <1>1, <1>2, <2>2, ClearDeleted
    <3> QED
      BY <2>2, <3>1, <3>2
  <2>3. CASE /\ c.chain = "FORWARD" /\ c.op = "ensureFirst"
             /\ c.arg.do # "ACCEPT" /\ c.arg.on \cap BehindWan = {}
    <3>1. gw.chain["FORWARD"] \in {F, <<c.arg>> \o F}
      BY <2>3, RuleFirst
    <3> QED
      BY <1>1, <1>2, <2>3, <3>1, ClearInserted
  <2> QED
    BY <2>1, <2>2, <2>3 DEF Fits
<1> HIDE DEF gw
<1> QED
  BY <1>5, <1>6, UsualIs DEF gw

\* All commands of both tools are such.
LEMMA AllFit ==
  /\ \A k \in 1 .. 18 : Harden[k] \in Commands /\ Fits(Harden[k])
  /\ \A c \in {Additive[i] : i \in 1 .. 4} : c \in Commands /\ Fits(c)
<1>1. ASSUME NEW k \in 1 .. 18 PROVE Harden[k] \in Commands /\ Fits(Harden[k])
  <2>1. Harden[k] \in Commands
    <3>1. k \in 1 .. Len(Harden)
      BY HardenIs
    <3> QED
      BY <3>1, HardenCommands
  <2>2. CASE k \in 1 .. 4
    BY <2>1, <2>2, HardenIs DEF Fits, Ensure, EnsureFirst, EstablishedIn, LoopbackIn, VpnDnsIn,
                          ServicesIn, Accept
  <2>3. CASE k \in 5 .. 11
    BY <2>1, <2>3, HardenIs DEF Fits, Delete, Flush, Ensure
  <2>4. CASE k = 12
    BY <2>1, <2>4, HardenIs DEF Fits, EnsureFirst, Jump
  <2>5. CASE k \in 13 .. 18
    BY <2>1, <2>5, HardenIs DEF Fits, Ensure, EnsureFirst, Flush, Policy
  <2> QED
    BY <2>1, <2>2, <2>3, <2>4, <2>5
<1>2. ASSUME NEW c \in {Additive[i] : i \in 1 .. 4} PROVE c \in Commands /\ Fits(c)
  <2>1. c \in {EnsureFirst("INPUT", VpnDnsIn), EnsureFirst("INPUT", Accept({"encDns"})),
               EnsureFirst("OUTPUT", Drop({"userToMetadata"})),
               EnsureFirst("FORWARD", [on |-> Metadata, do |-> "REJECT"])}
    BY DEF Additive
  <2>2. Fits(c)
    BY <2>1 DEF Fits, EnsureFirst, VpnDnsIn, Accept, Metadata, BehindWan
  <2> QED
    BY <2>2, AdditiveCommand
<1> QED
  BY <1>1, <1>2

\* What -C finds.
LEMMA ContainsHas ==
  ASSUME NEW s \in Seq(Rules), NEW x
  PROVE  Contains(s, x) <=> Has(s, x)
BY DEF Contains, Has

\* A rule that is not there is not deleted; one that is there is, and the list shrinks.
LEMMA DeletesOnce ==
  ASSUME NEW L \in Seq(Rules), NEW r
  PROVE  RemoveFirst(L, r) = L <=> ~ Has(L, r)
<1>1. CASE Has(L, r)
  <2>1. Len(RemoveFirst(L, r)) = Len(L) - 1
    BY <1>1, ContainsHas, Deleted
  <2> QED
    BY <1>1, <2>1
<1>2. CASE ~ Has(L, r)
  BY <1>2, ContainsHas DEF RemoveFirst, Contains
<1> QED
  BY <1>1, <1>2

\* Rules with another list for one chain.
With(fw, d, L) == [fw EXCEPT !.chain[d] = L]

\* A list put in its own place; one put after another.
LEMMA WithSame ==
  ASSUME NEW fw \in Rulesets, NEW d \in Chains
  PROVE  With(fw, d, fw.chain[d]) = fw
BY DEF With, Rulesets

LEMMA WithIs ==
  ASSUME NEW fw \in Rulesets, NEW d \in Chains, NEW L \in Seq(Rules)
  PROVE  /\ With(fw, d, L) \in Rulesets /\ With(fw, d, L).chain[d] = L
         /\ \A M : With(With(fw, d, L), d, M) = With(fw, d, M)
<1>1. ASSUME NEW gw \in Rulesets, NEW M
      PROVE  With(gw, d, M) = [chain |-> [gw.chain EXCEPT ![d] = M], policy |-> gw.policy]
  <2>1. With(gw, d, M) = [gw EXCEPT !.chain = [gw.chain EXCEPT ![d] = M]]
    BY DEF With
  <2>2. ASSUME NEW X PROVE [gw EXCEPT !.chain = X] = [chain |-> X, policy |-> gw.policy]
    BY DEF Rulesets
  <2> QED
    BY <2>1, <2>2
<1>2. fw.chain \in [Chains -> Seq(Rules)] /\ fw.policy \in [Chains -> {"ACCEPT", "DROP"}]
  BY DEF Rulesets
<1> DEFINE c == [fw.chain EXCEPT ![d] = L]
<1>3. c \in [Chains -> Seq(Rules)] /\ c[d] = L /\ \A M : [c EXCEPT ![d] = M] = [fw.chain EXCEPT ![d] = M]
  BY <1>2
<1> HIDE DEF c
<1>4. With(fw, d, L) = [chain |-> c, policy |-> fw.policy]
  BY <1>1 DEF c
<1>5. With(fw, d, L) \in Rulesets
  BY <1>2, <1>3, <1>4 DEF Rulesets
<1>6. ASSUME NEW M PROVE With(With(fw, d, L), d, M) = With(fw, d, M)
  <2>1. With(With(fw, d, L), d, M) = [chain |-> [c EXCEPT ![d] = M], policy |-> fw.policy]
    BY <1>1, <1>4, <1>5
  <2> QED
    BY <1>1, <1>3, <2>1
<1> QED
  BY <1>3, <1>4, <1>5, <1>6

\* What each command does, told by what its list has.
LEMMA EffectIs ==
  ASSUME NEW fw \in Rulesets, NEW d \in Chains, NEW r \in Rules
  PROVE  /\ Has(fw.chain[d], r) =>
              Effect(fw, Ensure(d, r)) = fw /\ Effect(fw, EnsureFirst(d, r)) = fw
         /\ ~ Has(fw.chain[d], r) =>
              /\ Effect(fw, Ensure(d, r)) = With(fw, d, Append(fw.chain[d], r))
              /\ Effect(fw, Ensure(d, r)).chain[d] = Append(fw.chain[d], r)
         /\ Effect(fw, Delete(d, r)) = fw <=> ~ Has(fw.chain[d], r)
         /\ Effect(fw, Flush(d)) = With(fw, d, <<>>)
         /\ Effect(fw, Flush(d)).chain[d] = <<>>
         /\ \A t \in {"ACCEPT", "DROP"} : fw.policy[d] = t => Effect(fw, Policy(d, t)) = fw
<1> DEFINE L == fw.chain[d]
<1>1. L \in Seq(Rules)
  BY DEF Rulesets
<1>2. Effect(fw, Ensure(d, r)) = With(fw, d, IF Contains(L, r) THEN L ELSE Append(L, r))
  BY DEF Effect, Ensure, With
<1>3. Effect(fw, EnsureFirst(d, r)) = With(fw, d, IF Contains(L, r) THEN L ELSE <<r>> \o L)
  BY DEF Effect, EnsureFirst, With
<1>4. Effect(fw, Delete(d, r)) = With(fw, d, RemoveFirst(L, r))
  BY DEF Effect, Delete, With
<1>5. Effect(fw, Flush(d)) = With(fw, d, <<>>)
  BY DEF Effect, Flush, With
<1>6. ASSUME NEW t \in {"ACCEPT", "DROP"}, fw.policy[d] = t PROVE Effect(fw, Policy(d, t)) = fw
  <2>1. Effect(fw, Policy(d, t)) = [fw EXCEPT !.policy[d] = t]
    BY DEF Effect, Policy
  <2> QED
    BY <1>6, <2>1 DEF Rulesets
<1>7. With(fw, d, L) = fw
  BY <1>1, WithSame
<1>8. Contains(L, r) <=> Has(L, r)
  BY <1>1, ContainsHas
<1>9. With(fw, d, RemoveFirst(L, r)) = fw <=> ~ Has(L, r)
  <2>1. RemoveFirst(L, r) \in Seq(Rules)
    BY <1>1, Shortened
  <2>2. With(fw, d, RemoveFirst(L, r)).chain[d] = RemoveFirst(L, r)
    BY <2>1, WithIs
  <2>3. RemoveFirst(L, r) = L <=> ~ Has(L, r)
    BY <1>1, DeletesOnce
  <2> HIDE DEF L
  <2> QED
    BY <1>7, <2>2, <2>3 DEF L
<1> HIDE DEF L
<1>10. /\ Has(L, r) => Effect(fw, Ensure(d, r)) = fw /\ Effect(fw, EnsureFirst(d, r)) = fw
       /\ ~ Has(L, r) => Effect(fw, Ensure(d, r)) = With(fw, d, Append(L, r))
  BY <1>2, <1>3, <1>7, <1>8
<1>11. /\ With(fw, d, <<>>).chain[d] = <<>>
       /\ With(fw, d, Append(L, r)).chain[d] = Append(L, r)
  <2>1. <<>> \in Seq(Rules) /\ Append(L, r) \in Seq(Rules)
    BY <1>1
  <2> QED
    BY <2>1, WithIs
<1>12. ~ Has(L, r) => Effect(fw, Ensure(d, r)).chain[d] = Append(L, r)
  BY <1>10, <1>11
<1>13. Effect(fw, Flush(d)).chain[d] = <<>>
  BY <1>5, <1>11
<1> QED
  BY <1>4, <1>5, <1>6, <1>9, <1>10, <1>12, <1>13 DEF L

\* The four rules and the jumps are different rules.
LEMMA RulesDiffer ==
  /\ NoMetadata # EstablishedFw /\ NoMetadata # ToWan /\ NoMetadata # FromWan
  /\ EstablishedFw # ToWan /\ EstablishedFw # FromWan /\ ToWan # FromWan
<1>1. {"toMetadata", "metadataFlow"} # {"metadataFlow", "reply"}
  OBVIOUS
<1>2. "toNet" \in FromPeers \ {"toPeer"} /\ "toNet" \notin {"metadataFlow", "reply"}
  BY DEF FromPeers
<1>3. {"reply"} # {"metadataFlow", "reply"}
  OBVIOUS
<1> QED
  BY <1>1, <1>2, <1>3 DEF NoMetadata, EstablishedFw, ToWan, FromWan, Accept, Drop, Metadata

\* A tuple, one element longer.
LEMMA Longer ==
  ASSUME NEW a \in Rules, NEW b \in Rules, NEW c \in Rules, NEW d \in Rules
  PROVE  /\ Append(<<a>>, b) = <<a, b>>
         /\ Append(<<a, b>>, c) = <<a, b, c>>
         /\ Append(<<a, b, c>>, d) = <<a, b, c, d>>
<1>1. ASSUME NEW s \in Seq(Rules), NEW t \in Seq(Rules), Len(s) = Len(t), \A i \in 1 .. Len(s) : s[i] = t[i]
      PROVE  s = t
  BY <1>1, SeqEqual
<1>2. Append(<<a>>, b) = <<a, b>>
  <2>1. /\ Append(<<a>>, b) \in Seq(Rules) /\ <<a, b>> \in Seq(Rules)
        /\ Len(Append(<<a>>, b)) = 2 /\ Len(<<a, b>>) = 2
    OBVIOUS
  <2>2. \A i \in 1 .. 2 : Append(<<a>>, b)[i] = <<a, b>>[i]
    OBVIOUS
  <2> QED
    BY <1>1, <2>1, <2>2
<1>3. Append(<<a, b>>, c) = <<a, b, c>>
  <2>1. /\ Append(<<a, b>>, c) \in Seq(Rules) /\ <<a, b, c>> \in Seq(Rules)
        /\ Len(Append(<<a, b>>, c)) = 3 /\ Len(<<a, b, c>>) = 3
    OBVIOUS
  <2>2. \A i \in 1 .. 3 : Append(<<a, b>>, c)[i] = <<a, b, c>>[i]
    OBVIOUS
  <2> QED
    BY <1>1, <2>1, <2>2
<1>4. Append(<<a, b, c>>, d) = <<a, b, c, d>>
  <2>1. /\ Append(<<a, b, c>>, d) \in Seq(Rules) /\ <<a, b, c, d>> \in Seq(Rules)
        /\ Len(Append(<<a, b, c>>, d)) = 4 /\ Len(<<a, b, c, d>>) = 4
    OBVIOUS
  <2>2. \A i \in 1 .. 4 : Append(<<a, b, c>>, d)[i] = <<a, b, c, d>>[i]
    OBVIOUS
  <2> QED
    BY <1>1, <2>1, <2>2
<1> QED
  BY <1>2, <1>3, <1>4

\* What the refilled lists have.
LEMMA HasOf ==
  /\ \A x : ~ Has(<<>>, x)
  /\ \A a, x : Has(<<a>>, x) <=> x = a
  /\ \A a, b, x : Has(<<a, b>>, x) <=> x \in {a, b}
  /\ \A a, b, c, x : Has(<<a, b, c>>, x) <=> x \in {a, b, c}
  /\ \A a, b, c, d, x : Has(<<a, b, c, d>>, x) <=> x \in {a, b, c, d}
BY DEF Has

\* The last rule completes the chain.
LEMMA Refilled == Append(<<NoMetadata, EstablishedFw, ToWan>>, FromWan) = Refill
<1>1. /\ <<NoMetadata, EstablishedFw, ToWan>> \in Seq(Rules) /\ Refill \in Seq(Rules)
      /\ Len(<<NoMetadata, EstablishedFw, ToWan>>) = 3 /\ Len(Refill) = 4 /\ Refill[4] = FromWan
      /\ \A i \in 1 .. 3 : Refill[i] = <<NoMetadata, EstablishedFw, ToWan>>[i]
  BY RuleTypes DEF Refill
<1>2. FromWan \in Rules
  BY RuleTypes
<1>3. ASSUME NEW s \in Seq(Rules), NEW t \in Seq(Rules), NEW r \in Rules,
             Len(s) = 3, Len(t) = 4, t[4] = r, \A i \in 1 .. 3 : t[i] = s[i]
      PROVE  Append(s, r) = t
  <2>1. /\ Append(s, r) \in Seq(Rules) /\ Len(Append(s, r)) = Len(s) + 1
        /\ \A i \in 1 .. Len(s) : Append(s, r)[i] = s[i]
        /\ Append(s, r)[Len(s) + 1] = r
    BY AppendProperties
  <2>2. Len(s) + 1 = 4 /\ \A i \in 1 .. 4 : i \in 1 .. 3 \/ i = 4
    BY <1>3
  <2>3. \A i \in 1 .. 4 : Append(s, r)[i] = t[i]
    BY <1>3, <2>1, <2>2
  <2> QED
    BY <1>3, <2>1, <2>2, <2>3, SeqEqual
<1> QED
  BY <1>1, <1>2, <1>3

\* A command that does what it is there for leaves everything in place for the next one.
\* The two that delete until the rule is gone are run again while they delete.
LEMMA LaidStep ==
  ASSUME NEW fw, Sound(fw), NEW k \in 1 .. 18, Laid(fw, k)
  PROVE  /\ k \in {5, 6} => Laid(Effect(fw, Harden[k]), k)
         /\ k \notin {5, 6} \/ Effect(fw, Harden[k]) = fw => Laid(Effect(fw, Harden[k]), k + 1)
<1> DEFINE gw == Effect(fw, Harden[k])
<1>1. /\ fw \in Rulesets /\ Harden[k] \in Commands
      /\ {"INPUT", "FORWARD", "OUTPUT", "POSTROUTING", "FORTRESS_FORWARD", "FORTRESS_NAT"}
           \subseteq Chains
      /\ \A d \in Chains : fw.chain[d] \in Seq(Rules)
  BY AllFit DEF Sound, Chains, Rulesets
<1>2. /\ \A d \in Chains : d # Harden[k].chain =>
           gw.chain[d] = fw.chain[d] /\ gw.policy[d] = fw.policy[d]
      /\ Harden[k].op # "policy" => gw.policy[Harden[k].chain] = fw.policy[Harden[k].chain]
  BY <1>1, EffectOn
<1>3. Ensured(gw, k + 1) /\ Ensured(gw, k)
  <2>1. Ensured(gw, k + 1)
    <3>1. Ensured(fw, k)
      BY DEF Laid
    <3> QED
      BY <3>1, HardenStep
  <2> HIDE DEF gw, Laid
  <2> QED
    BY <2>1 DEF Ensured
<1>4. CASE k \in 1 .. 4
  <2> HIDE DEF gw, Laid
  <2> QED
    BY <1>3, <1>4 DEF gw, Laid
<1>5. CASE k = 5
  <2>1. gw = fw => ~ Has(fw.chain["FORWARD"], WgIn)
    BY <1>1, <1>5, HardenIs, RuleTypes, EffectIs
  <2> HIDE DEF gw, Laid
  <2> QED
    BY <1>3, <1>5, <2>1 DEF gw, Laid
<1>6. CASE k = 6
  <2>1. gw = fw => ~ Has(fw.chain["FORWARD"], WgOut)
    BY <1>1, <1>6, HardenIs, RuleTypes, EffectIs
  <2>2. gw.chain["FORWARD"] = RemoveFirst(fw.chain["FORWARD"], WgOut)
    <3>1. /\ Harden[k].op = "delete" /\ Harden[k].chain = "FORWARD" /\ Harden[k].arg = WgOut
      BY <1>6, HardenIs DEF Delete
    <3>2. gw.chain[Harden[k].chain] = RemoveFirst(fw.chain[Harden[k].chain], Harden[k].arg)
      BY <1>1, <3>1, EffectOn
    <3> QED
      BY <3>1, <3>2
  <2>3. ~ Has(gw.chain["FORWARD"], WgIn)
    <3>1. fw.chain["FORWARD"] \in Seq(Rules) /\ WgOut \in Rules
      BY <1>1, RuleTypes
    <3>2. \A x : Has(RemoveFirst(fw.chain["FORWARD"], WgOut), x) => Has(fw.chain["FORWARD"], x)
      BY <3>1, Shortened
    <3>3. ~ Has(fw.chain["FORWARD"], WgIn)
      BY <1>6 DEF Laid
    <3> QED
      BY <2>2, <3>2, <3>3
  <2> HIDE DEF gw, Laid
  <2> QED
    BY <1>3, <1>6, <2>1, <2>3 DEF gw, Laid
<1>7. CASE k \in 7 .. 11
  <2>1. Harden[k].chain = "FORTRESS_FORWARD" /\ Harden[k].op # "policy"
    BY <1>7, HardenIs DEF Flush, Ensure
  <2>2. gw.chain["FORWARD"] = fw.chain["FORWARD"]
    BY <1>1, <1>2, <2>1
  <2> DEFINE rules == fw.chain["FORTRESS_FORWARD"]
  <2>3. k = 7 => gw.chain["FORTRESS_FORWARD"] = <<>>
    BY <1>1, HardenIs, EffectIs, RuleTypes
  <2>4. ASSUME NEW r \in Rules, Harden[k] = Ensure("FORTRESS_FORWARD", r), ~ Has(rules, r)
        PROVE  gw.chain["FORTRESS_FORWARD"] = Append(rules, r)
    BY <1>1, <2>4, EffectIs
  <2> HIDE DEF gw, rules
  <2>5. k = 8 => gw.chain["FORTRESS_FORWARD"] = <<NoMetadata>>
    <3>1. ASSUME k = 8 PROVE gw.chain["FORTRESS_FORWARD"] = <<NoMetadata>>
      <4>1. rules = <<>> /\ Harden[k] = Ensure("FORTRESS_FORWARD", NoMetadata)
        BY <3>1, HardenIs DEF Laid, rules
      <4>2. ~ Has(rules, NoMetadata) /\ NoMetadata \in Rules
        BY <4>1, HasOf, RulesDiffer, RuleTypes
      <4>3. Append(rules, NoMetadata) = <<NoMetadata>>
        BY <4>1
      <4> QED
        BY <2>4, <4>1, <4>2, <4>3
    <3> QED
      BY <3>1
  <2>6. k = 9 => gw.chain["FORTRESS_FORWARD"] = <<NoMetadata, EstablishedFw>>
    <3>1. ASSUME k = 9 PROVE gw.chain["FORTRESS_FORWARD"] = <<NoMetadata, EstablishedFw>>
      <4>1. rules = <<NoMetadata>> /\ Harden[k] = Ensure("FORTRESS_FORWARD", EstablishedFw)
        BY <3>1, HardenIs DEF Laid, rules
      <4>2. ~ Has(rules, EstablishedFw) /\ EstablishedFw \in Rules
        BY <4>1, HasOf, RulesDiffer, RuleTypes
      <4>3. Append(<<NoMetadata>>, EstablishedFw) = <<NoMetadata, EstablishedFw>>
        BY RuleTypes, Longer
      <4> QED
        BY <2>4, <4>1, <4>2, <4>3
    <3> QED
      BY <3>1
  <2>7. k = 10 => gw.chain["FORTRESS_FORWARD"] = <<NoMetadata, EstablishedFw, ToWan>>
    <3>1. ASSUME k = 10 PROVE gw.chain["FORTRESS_FORWARD"] = <<NoMetadata, EstablishedFw, ToWan>>
      <4>1. rules = <<NoMetadata, EstablishedFw>> /\ Harden[k] = Ensure("FORTRESS_FORWARD", ToWan)
        BY <3>1, HardenIs DEF Laid, rules
      <4>2. ~ Has(rules, ToWan) /\ ToWan \in Rules
        BY <4>1, HasOf, RulesDiffer, RuleTypes
      <4>3. Append(<<NoMetadata, EstablishedFw>>, ToWan) = <<NoMetadata, EstablishedFw, ToWan>>
        <5>1. {NoMetadata, EstablishedFw, ToWan, FromWan} \subseteq Rules
          BY RuleTypes
        <5> QED
          BY <5>1, Longer
      <4> QED
        BY <2>4, <4>1, <4>2, <4>3
    <3> QED
      BY <3>1
  <2>8. k = 11 => gw.chain["FORTRESS_FORWARD"] = Refill
    <3>1. ASSUME k = 11 PROVE gw.chain["FORTRESS_FORWARD"] = Refill
      <4>1. rules = <<NoMetadata, EstablishedFw, ToWan>> /\ Harden[k] = Ensure("FORTRESS_FORWARD", FromWan)
        BY <3>1, HardenIs DEF Laid, rules
      <4>2. ~ Has(rules, FromWan) /\ FromWan \in Rules
        BY <4>1, HasOf, RulesDiffer, RuleTypes
      <4>3. Append(<<NoMetadata, EstablishedFw, ToWan>>, FromWan) = Refill
        BY Refilled
      <4> QED
        BY <2>4, <4>1, <4>2, <4>3
    <3> QED
      BY <3>1
  <2> QED
    BY <1>3, <1>7, <2>2, <2>3, <2>5, <2>6, <2>7, <2>8 DEF gw, Laid
<1>8. CASE k = 12
  <2>1. Harden[k].chain = "FORWARD" /\ Harden[k].op = "ensureFirst"
        /\ Harden[k].arg = Jump("FORTRESS_FORWARD")
    BY <1>8, HardenIs DEF EnsureFirst
  <2>2. gw.chain["FORTRESS_FORWARD"] = fw.chain["FORTRESS_FORWARD"]
    BY <1>1, <1>2, <2>1
  <2>3. Has(gw.chain["FORWARD"], Jump("FORTRESS_FORWARD"))
    BY <1>1, <2>1, RulesStay
  <2>4. gw.chain["FORWARD"] \in {fw.chain["FORWARD"],
                                 <<Jump("FORTRESS_FORWARD")>> \o fw.chain["FORWARD"]}
    BY <1>1, <2>1, RuleFirst
  <2>5. Jump("FORTRESS_FORWARD") \notin {WgIn, WgOut}
    BY DEF Jump, WgIn, WgOut, Accept
  <2>6. \A x : Has(<<Jump("FORTRESS_FORWARD")>> \o fw.chain["FORWARD"], x)
                 <=> Has(fw.chain["FORWARD"], x) \/ x = Jump("FORTRESS_FORWARD")
    BY <1>1, RuleTypes, Inserted
  <2> HIDE DEF gw, Laid
  <2>7. ~ Has(gw.chain["FORWARD"], WgIn) /\ ~ Has(gw.chain["FORWARD"], WgOut)
    <3>1. ~ Has(fw.chain["FORWARD"], WgIn) /\ ~ Has(fw.chain["FORWARD"], WgOut)
      BY <1>8 DEF Laid
    <3> QED
      BY <2>4, <2>5, <2>6, <3>1
  <2> QED
    BY <1>3, <1>8, <2>2, <2>3, <2>7 DEF gw, Laid
<1>9. CASE k \in {13, 14}
  <2>1. Harden[k].chain = "FORTRESS_NAT" /\ Harden[k].op # "policy"
    BY <1>9, HardenIs DEF Flush, Ensure
  <2>2. /\ gw.chain["FORWARD"] = fw.chain["FORWARD"]
        /\ gw.chain["FORTRESS_FORWARD"] = fw.chain["FORTRESS_FORWARD"]
    BY <1>1, <1>2, <2>1
  <2>3. k = 13 => gw.chain["FORTRESS_NAT"] = <<>>
    BY <1>1, HardenIs, EffectIs, RuleTypes
  <2>4. k = 14 => gw.chain["FORTRESS_NAT"] = <<Masquerade>>
    <3>1. ASSUME k = 14 PROVE gw.chain["FORTRESS_NAT"] = <<Masquerade>>
      <4>1. fw.chain["FORTRESS_NAT"] = <<>> /\ Harden[k] = Ensure("FORTRESS_NAT", Masquerade)
        BY <3>1, HardenIs DEF Laid
      <4>2. ~ Has(fw.chain["FORTRESS_NAT"], Masquerade) /\ Masquerade \in Rules
        BY <4>1, HasOf, RuleTypes
      <4>3. Append(<<>>, Masquerade) = <<Masquerade>>
        OBVIOUS
      <4> QED
        BY <1>1, <4>1, <4>2, <4>3, EffectIs
    <3> QED
      BY <3>1
  <2> HIDE DEF gw, Laid
  <2> QED
    BY <1>3, <1>9, <2>2, <2>3, <2>4 DEF gw, Laid
<1>10. CASE k = 15
  <2>1. Harden[k].chain = "POSTROUTING" /\ Harden[k].op = "ensureFirst"
        /\ Harden[k].arg = Jump("FORTRESS_NAT")
    BY <1>10, HardenIs DEF EnsureFirst
  <2>2. /\ gw.chain["FORWARD"] = fw.chain["FORWARD"]
        /\ gw.chain["FORTRESS_FORWARD"] = fw.chain["FORTRESS_FORWARD"]
        /\ gw.chain["FORTRESS_NAT"] = fw.chain["FORTRESS_NAT"]
    BY <1>1, <1>2, <2>1
  <2>3. Has(gw.chain["POSTROUTING"], Jump("FORTRESS_NAT"))
    BY <1>1, <2>1, RulesStay
  <2> HIDE DEF gw, Laid
  <2> QED
    BY <1>3, <1>10, <2>2, <2>3 DEF gw, Laid
<1>11. CASE k \in 16 .. 18
  <2>1. /\ Harden[k].op = "policy"
        /\ k = 16 => Harden[k].chain = "INPUT" /\ Harden[k].arg = "DROP"
        /\ k = 17 => Harden[k].chain = "FORWARD" /\ Harden[k].arg = "DROP"
        /\ k = 18 => Harden[k].chain = "OUTPUT" /\ Harden[k].arg = "ACCEPT"
    BY <1>11, HardenIs DEF Policy
  <2>2. /\ gw.policy[Harden[k].chain] = Harden[k].arg
        /\ gw.chain[Harden[k].chain] = fw.chain[Harden[k].chain]
    BY <1>1, <2>1, EffectOn
  <2>4. \A d \in Chains : gw.chain[d] = fw.chain[d]
    BY <1>2, <2>2
  <2>3. /\ k > 16 => gw.policy["INPUT"] = fw.policy["INPUT"]
        /\ k > 17 => gw.policy["FORWARD"] = fw.policy["FORWARD"]
    BY <1>1, <1>2, <1>11, <2>1
  <2> HIDE DEF gw, Laid
  <2>5. k = 16 => gw.policy["INPUT"] = "DROP"
    BY <2>1, <2>2
  <2>6. k = 17 => gw.policy["FORWARD"] = "DROP"
    BY <2>1, <2>2
  <2>7. k = 18 => gw.policy["OUTPUT"] = "ACCEPT"
    BY <2>1, <2>2
  <2>8. Laid(gw, k + 1)
    BY <1>1, <1>3, <1>11, <2>3, <2>4, <2>5, <2>6, <2>7 DEF Laid
  <2> QED
    BY <1>11, <2>8 DEF gw
<1> QED
  BY <1>4, <1>5, <1>6, <1>7, <1>8, <1>9, <1>10, <1>11

\* What the tools' chain accepts.
LEMMA RefillAccepts ==
  ASSUME NEW p \in Forwarded
  PROVE  Accepted(Refill, p) <=> p \in BehindWan
<1>1. /\ DOMAIN Refill = 1 .. 4
      /\ Refill[1] = NoMetadata /\ Refill[2] = EstablishedFw /\ Refill[3] = ToWan
      /\ Refill[4] = FromWan
  BY DEF Refill
<1>2. /\ NoMetadata.on = {"toMetadata", "metadataFlow"} /\ NoMetadata.do = "DROP"
      /\ EstablishedFw.on = {"metadataFlow", "reply"} /\ EstablishedFw.do = "ACCEPT"
      /\ ToWan.on = {"toNet", "toLan", "toMetadata", "metadataFlow"} /\ ToWan.do = "ACCEPT"
      /\ FromWan.on = {"reply"} /\ FromWan.do = "ACCEPT"
  BY DEF NoMetadata, EstablishedFw, ToWan, FromWan, Accept, Drop, Metadata, FromPeers
<1>3. p \in {"toNet", "toLan", "toMetadata", "metadataFlow", "toPeer", "reply", "fromNet"}
  BY DEF Forwarded, FromPeers
<1>4. CASE p \in {"toMetadata", "metadataFlow"}
  <2>1. ASSUME NEW i \in 1 .. 4, p \in Refill[i].on, Refill[i].do = "ACCEPT",
               \A j \in 1 .. i - 1 : p \notin Refill[j].on
        PROVE  FALSE
    <3>1. i # 1
      BY <1>1, <1>2, <2>1
    <3>2. 1 \in 1 .. i - 1
      BY <3>1
    <3> QED
      BY <1>1, <1>2, <1>4, <2>1, <3>2
  <2> QED
    BY <1>1, <1>4, <2>1 DEF Accepted, BehindWan
<1>5. CASE p \in {"toPeer", "fromNet"}
  <2>1. \A i \in 1 .. 4 : p \notin Refill[i].on
    BY <1>1, <1>2, <1>5
  <2> QED
    BY <1>1, <1>5, <2>1 DEF Accepted, BehindWan
<1>6. CASE p \in {"toNet", "toLan"}
  <2>1. p \in Refill[3].on /\ Refill[3].do = "ACCEPT" /\ \A j \in 1 .. 3 - 1 : p \notin Refill[j].on
    BY <1>1, <1>2, <1>6
  <2> QED
    BY <1>1, <1>6, <2>1 DEF Accepted, BehindWan
<1>7. CASE p = "reply"
  <2>1. p \in Refill[2].on /\ Refill[2].do = "ACCEPT" /\ \A j \in 1 .. 2 - 1 : p \notin Refill[j].on
    BY <1>1, <1>2, <1>7
  <2> QED
    BY <1>1, <1>7, <2>1 DEF Accepted, BehindWan
<1> QED
  BY <1>3, <1>4, <1>5, <1>6, <1>7

\* Usual rules that have been hardened route what lies behind the WAN and its replies.
LEMMA RoutesWan ==
  ASSUME NEW fw \in Rulesets, Plain(fw), Usual(fw), Laid(fw, 19)
  PROVE  Routed(fw) = {"toNet", "toLan", "reply"}
<1> DEFINE c == fw.chain["FORWARD"]
           jump == Jump("FORTRESS_FORWARD")
<1>1. c \in Seq(Rules) /\ DOMAIN c = 1 .. Len(c) /\ Len(c) \in Nat
  BY DEF Rulesets, Chains
<1>2. /\ ~ Has(c, WgIn) /\ ~ Has(c, WgOut) /\ Has(c, jump) /\ fw.policy["FORWARD"] = "DROP"
      /\ fw.chain["FORTRESS_FORWARD"] = Refill
  BY DEF Laid
<1>3. Clear(c)
  BY UsualIs
<1>4. ASSUME NEW i \in DOMAIN c
      PROVE  /\ c[i].do # "ACCEPT"
             /\ c[i].do \in Chains => c[i] = jump
  BY <1>2, <1>3 DEF Clear, Has, Plain
<1>5. Read(fw, jump) = Refill
  BY <1>2 DEF Read, Jump, Chains
<1>6. ASSUME NEW i \in DOMAIN c, c[i] # jump PROVE Read(fw, c[i]) = <<c[i]>>
  BY <1>4, <1>6 DEF Read
<1>7. ASSUME NEW p \in Forwarded, Passes(fw, "FORWARD", p) PROVE p \in BehindWan
  <2>1. PICK i \in DOMAIN c : Accepted(Read(fw, c[i]), p)
    BY <1>2, <1>7 DEF Passes
  <2>2. CASE c[i] = jump
    BY <1>5, <2>1, <2>2, RefillAccepts
  <2>3. CASE c[i] # jump
    BY <1>4, <1>6, <2>1, <2>3, One
  <2> QED
    BY <2>2, <2>3
<1>8. ASSUME NEW p \in BehindWan PROVE p \in Forwarded /\ Passes(fw, "FORWARD", p)
  <2>1. p \in Forwarded
    BY DEF BehindWan, Forwarded, FromPeers
  <2> DEFINE J == {i \in 1 .. Len(c) : c[i] = jump}
  <2>2. J # {} /\ J \subseteq 1 .. Len(c)
    BY <1>1, <1>2 DEF Has
  <2>3. PICK i \in J : \A j \in J : i <= j
    BY <1>1, <2>2, Least
  <2>4. i \in DOMAIN c /\ c[i] = jump /\ Accepted(Read(fw, c[i]), p)
    BY <1>1, <1>5, <2>1, <2>3, RefillAccepts
  <2>5. ASSUME NEW j \in 1 .. i - 1 PROVE Skips(Read(fw, c[j]), p)
    <3>1. j \in DOMAIN c /\ j \notin J
      BY <1>1, <2>3, <2>4
    <3>2. c[j] # jump
      BY <1>1, <3>1
    <3>3. p \notin c[j].on
      BY <1>3, <1>4, <2>4, <3>1 DEF Clear
    <3> QED
      BY <1>6, <3>1, <3>2, <3>3, One
  <2> QED
    BY <2>1, <2>4, <2>5 DEF Passes
<1> QED
  BY <1>7, <1>8 DEF Routed, BehindWan

\* No undeclared port is open.
LEMMA RestClosed ==
  ASSUME NEW fw \in Rulesets, Plain(fw), Usual(fw), Laid(fw, 19)
  PROVE  "rest" \notin Admitted(fw)
<1>1. fw.policy["INPUT"] = "DROP"
  BY DEF Laid
<1>2. ~ Accepted(fw.chain["INPUT"], "rest")
  BY DEF Usual, Accepted
<1> QED
  BY <1>1, <1>2, PassesIsAdmits DEF Admitted, Admits

\* What peers send out is masqueraded.
LEMMA PeersMasqueraded ==
  ASSUME NEW fw \in Rulesets, Laid(fw, 19)
  PROVE  \E i \in DOMAIN fw.chain["POSTROUTING"] :
           Contains(Read(fw, fw.chain["POSTROUTING"][i]), Masquerade)
<1>1. fw.chain["FORTRESS_NAT"] = <<Masquerade>>
  BY DEF Laid
<1>2. Read(fw, Jump("FORTRESS_NAT")) = <<Masquerade>>
  BY <1>1 DEF Read, Jump, Chains
<1>3. Contains(<<Masquerade>>, Masquerade)
  BY DEF Contains
<1>4. Has(fw.chain["POSTROUTING"], Jump("FORTRESS_NAT"))
  BY DEF Laid
<1> QED
  BY <1>2, <1>3, <1>4 DEF Has

\* Another run of the hardening ends with the same rules: it empties and refills the
\* tools' chains and has nothing else to do.
LEMMA RerunsSame ==
  ASSUME NEW fw \in Rulesets, Laid(fw, 19)
  PROVE  Run(fw, Harden) = fw
<1> DEFINE toFilter(L) == With(fw, "FORTRESS_FORWARD", L)
           toNat(L) == With(fw, "FORTRESS_NAT", L)
           stage == [n \in 0 .. 18 |->
             CASE n = 7  -> toFilter(<<>>)
               [] n = 8  -> toFilter(<<NoMetadata>>)
               [] n = 9  -> toFilter(<<NoMetadata, EstablishedFw>>)
               [] n = 10 -> toFilter(<<NoMetadata, EstablishedFw, ToWan>>)
               [] n = 13 -> toNat(<<>>)
               [] OTHER  -> fw]
<1>1. /\ {"INPUT", "FORWARD", "OUTPUT", "POSTROUTING", "FORTRESS_FORWARD", "FORTRESS_NAT"}
           \subseteq Chains
      /\ {NoMetadata, EstablishedFw, ToWan, FromWan, Masquerade} \subseteq Rules
  BY RuleTypes DEF Chains
<1>2. ASSUME NEW n \in 1 .. 6 \cup {12, 15, 16, 17, 18}
      PROVE  Effect(fw, Harden[n]) = fw
  <2>1. CASE n \in 1 .. 4
    <3>1. /\ Has(fw.chain["INPUT"], EstablishedIn) /\ Has(fw.chain["INPUT"], LoopbackIn)
          /\ Has(fw.chain["INPUT"], VpnDnsIn) /\ Has(fw.chain["INPUT"], ServicesIn)
      BY DEF Laid, Ensured
    <3> QED
      BY <1>1, <2>1, <3>1, HardenIs, EffectIs, RuleTypes
  <2>2. CASE n \in 5 .. 6
    <3>1. ~ Has(fw.chain["FORWARD"], WgIn) /\ ~ Has(fw.chain["FORWARD"], WgOut)
      BY DEF Laid
    <3> QED
      BY <1>1, <2>2, <3>1, HardenIs, EffectIs, RuleTypes
  <2>3. CASE n \in {12, 15}
    <3>1. /\ Has(fw.chain["FORWARD"], Jump("FORTRESS_FORWARD"))
          /\ Has(fw.chain["POSTROUTING"], Jump("FORTRESS_NAT"))
      BY DEF Laid
    <3> QED
      BY <1>1, <2>3, <3>1, HardenIs, EffectIs, RuleTypes
  <2>4. CASE n \in 16 .. 18
    <3>1. /\ fw.policy["INPUT"] = "DROP" /\ fw.policy["FORWARD"] = "DROP"
          /\ fw.policy["OUTPUT"] = "ACCEPT"
      BY DEF Laid
    <3> QED
      BY <1>1, <2>4, <3>1, HardenIs, EffectIs, RuleTypes
  <2> QED
    BY <2>1, <2>2, <2>3, <2>4
<1>3. ASSUME NEW d \in Chains, NEW L \in Seq(Rules), NEW r \in Rules, ~ Has(L, r)
      PROVE  Effect(With(fw, d, L), Ensure(d, r)) = With(fw, d, Append(L, r))
  <2>1. With(fw, d, L) \in Rulesets /\ With(fw, d, L).chain[d] = L
        /\ With(With(fw, d, L), d, Append(L, r)) = With(fw, d, Append(L, r))
    BY WithIs
  <2> QED
    BY <1>3, <2>1, EffectIs
<1>4. /\ Effect(fw, Harden[7]) = toFilter(<<>>)
      /\ Effect(fw, Harden[13]) = toNat(<<>>)
  BY <1>1, HardenIs, EffectIs, RuleTypes
<1>5. /\ Effect(toFilter(<<>>), Harden[8]) = toFilter(<<NoMetadata>>)
      /\ Effect(toFilter(<<NoMetadata>>), Harden[9]) = toFilter(<<NoMetadata, EstablishedFw>>)
      /\ Effect(toFilter(<<NoMetadata, EstablishedFw>>), Harden[10])
           = toFilter(<<NoMetadata, EstablishedFw, ToWan>>)
      /\ Effect(toFilter(<<NoMetadata, EstablishedFw, ToWan>>), Harden[11]) = toFilter(Refill)
  <2> HIDE DEF toFilter
  <2>1. ASSUME NEW L \in Seq(Rules), NEW r \in Rules, ~ Has(L, r)
        PROVE  Effect(toFilter(L), Ensure("FORTRESS_FORWARD", r)) = toFilter(Append(L, r))
    BY <1>1, <1>3, <2>1 DEF toFilter
  <2>2. /\ <<>> \in Seq(Rules) /\ <<NoMetadata>> \in Seq(Rules)
        /\ <<NoMetadata, EstablishedFw>> \in Seq(Rules)
        /\ <<NoMetadata, EstablishedFw, ToWan>> \in Seq(Rules)
    BY <1>1
  <2>3. /\ ~ Has(<<>>, NoMetadata) /\ ~ Has(<<NoMetadata>>, EstablishedFw)
        /\ ~ Has(<<NoMetadata, EstablishedFw>>, ToWan)
        /\ ~ Has(<<NoMetadata, EstablishedFw, ToWan>>, FromWan)
    BY HasOf, RulesDiffer
  <2>4. /\ Append(<<>>, NoMetadata) = <<NoMetadata>>
        /\ Append(<<NoMetadata>>, EstablishedFw) = <<NoMetadata, EstablishedFw>>
        /\ Append(<<NoMetadata, EstablishedFw>>, ToWan) = <<NoMetadata, EstablishedFw, ToWan>>
        /\ Append(<<NoMetadata, EstablishedFw, ToWan>>, FromWan) = Refill
    BY <1>1, Longer, Refilled
  <2>5. Effect(toFilter(<<>>), Harden[8]) = toFilter(<<NoMetadata>>)
    BY <1>1, <2>1, <2>2, <2>3, <2>4, HardenIs
  <2>6. Effect(toFilter(<<NoMetadata>>), Harden[9]) = toFilter(<<NoMetadata, EstablishedFw>>)
    BY <1>1, <2>1, <2>2, <2>3, <2>4, HardenIs
  <2>7. Effect(toFilter(<<NoMetadata, EstablishedFw>>), Harden[10])
           = toFilter(<<NoMetadata, EstablishedFw, ToWan>>)
    BY <1>1, <2>1, <2>2, <2>3, <2>4, HardenIs
  <2>8. Effect(toFilter(<<NoMetadata, EstablishedFw, ToWan>>), Harden[11]) = toFilter(Refill)
    BY <1>1, <2>1, <2>2, <2>3, <2>4, HardenIs
  <2> QED
    BY <2>5, <2>6, <2>7, <2>8
<1>6. Effect(toNat(<<>>), Harden[14]) = fw
  <2>1. fw.chain["FORTRESS_NAT"] = <<Masquerade>>
    BY DEF Laid
  <2>2. toNat(<<Masquerade>>) = fw
    <3>1. With(fw, "FORTRESS_NAT", fw.chain["FORTRESS_NAT"]) = fw
      BY <1>1, WithSame
    <3> QED
      BY <2>1, <3>1
  <2>3. <<>> \in Seq(Rules) /\ ~ Has(<<>>, Masquerade) /\ Append(<<>>, Masquerade) = <<Masquerade>>
    BY HasOf
  <2> HIDE DEF toNat
  <2>4. Effect(toNat(<<>>), Ensure("FORTRESS_NAT", Masquerade)) = toNat(Append(<<>>, Masquerade))
    BY <1>1, <1>3, <2>3 DEF toNat
  <2> QED
    BY <2>2, <2>3, <2>4, HardenIs
<1>7. toFilter(Refill) = fw
  <2>1. fw.chain["FORTRESS_FORWARD"] = Refill
    BY DEF Laid
  <2>2. With(fw, "FORTRESS_FORWARD", fw.chain["FORTRESS_FORWARD"]) = fw
    BY <1>1, WithSame
  <2> QED
    BY <2>1, <2>2
<1> HIDE DEF toFilter, toNat
<1>8. \A n \in 0 .. 18 : stage[n] = IF n = 0 THEN fw ELSE Effect(stage[n - 1], Harden[n])
  <2>1. /\ stage[7] = toFilter(<<>>) /\ stage[8] = toFilter(<<NoMetadata>>)
        /\ stage[9] = toFilter(<<NoMetadata, EstablishedFw>>)
        /\ stage[10] = toFilter(<<NoMetadata, EstablishedFw, ToWan>>)
        /\ stage[13] = toNat(<<>>)
        /\ \A n \in 0 .. 18 : n \notin {7, 8, 9, 10, 13} => stage[n] = fw
    OBVIOUS
  <2> HIDE DEF stage
  <2>2. ASSUME NEW n \in 1 .. 18 PROVE stage[n] = Effect(stage[n - 1], Harden[n])
    <3>1. CASE n \in 1 .. 6 \cup {12, 15, 16, 17, 18}
      <4>1. stage[n] = fw /\ stage[n - 1] = fw
        BY <2>1, <3>1
      <4> QED
        BY <1>2, <3>1, <4>1
    <3>2. CASE n \in {7, 13}
      <4>1. stage[n - 1] = fw
        BY <2>1, <3>2
      <4> QED
        BY <1>4, <2>1, <3>2, <4>1
    <3>3. CASE n = 8
      BY <1>5, <2>1, <3>3
    <3>4. CASE n = 9
      BY <1>5, <2>1, <3>4
    <3>5. CASE n = 10
      BY <1>5, <2>1, <3>5
    <3>6. CASE n = 11
      BY <1>5, <1>7, <2>1, <3>6
    <3>7. CASE n = 14
      BY <1>6, <2>1, <3>7
    <3> QED
      BY <3>1, <3>2, <3>3, <3>4, <3>5, <3>6, <3>7
  <2>3. stage[0] = fw
    BY <2>1
  <2> QED
    BY <2>2, <2>3
<1> DEFINE Follows(g) == g = [n \in 0 .. Len(Harden) |->
             IF n = 0 THEN fw ELSE Effect(g[n - 1], Harden[n])]
           after == CHOOSE g : Follows(g)
<1>9. Follows(stage)
  <2>1. DOMAIN stage = 0 .. Len(Harden)
    BY HardenIs
  <2>2. stage = [n \in 0 .. Len(Harden) |-> stage[n]]
    BY <2>1
  <2> HIDE DEF stage
  <2> QED
    BY <1>8, <2>2, HardenIs
<1>10. Follows(after)
  <2> HIDE DEF Follows, stage
  <2> QED
    BY <1>9
<1>11. Run(fw, Harden) = after[18]
  BY HardenIs DEF Run
<1> HIDE DEF after
<1>12. \A n \in 1 .. 18 : after[n] = Effect(after[n - 1], Harden[n])
  BY <1>10, HardenIs
<1>13. after[0] = fw
  BY <1>10, HardenIs
<1> HIDE DEF Follows, stage
<1>14. after[6] = fw
  <2>1. after[1] = fw
    BY <1>2, <1>12, <1>13
  <2>2. after[2] = fw
    BY <1>2, <1>12, <2>1
  <2>3. after[3] = fw
    BY <1>2, <1>12, <2>2
  <2>4. after[4] = fw
    BY <1>2, <1>12, <2>3
  <2>5. after[5] = fw
    BY <1>2, <1>12, <2>4
  <2> QED
    BY <1>2, <1>12, <2>5
<1>15. after[12] = fw
  <2>1. after[7] = toFilter(<<>>)
    BY <1>4, <1>12, <1>14
  <2>2. after[8] = toFilter(<<NoMetadata>>)
    BY <1>5, <1>12, <2>1
  <2>3. after[9] = toFilter(<<NoMetadata, EstablishedFw>>)
    BY <1>5, <1>12, <2>2
  <2>4. after[10] = toFilter(<<NoMetadata, EstablishedFw, ToWan>>)
    BY <1>5, <1>12, <2>3
  <2>5. after[11] = fw
    BY <1>5, <1>7, <1>12, <2>4
  <2> QED
    BY <1>2, <1>12, <2>5
<1>16. after[15] = fw
  <2>1. after[13] = toNat(<<>>)
    BY <1>4, <1>12, <1>15
  <2>2. after[14] = fw
    BY <1>6, <1>12, <2>1
  <2> QED
    BY <1>2, <1>12, <2>2
<1>17. after[18] = fw
  <2>1. after[16] = fw
    BY <1>2, <1>12, <1>16
  <2>2. after[17] = fw
    BY <1>2, <1>12, <2>1
  <2> QED
    BY <1>2, <1>12, <2>2
<1> QED
  BY <1>11, <1>17

\* Of the start, each tool, and what runs beside them.
LEMMA SettleInit ==
  ASSUME \A s \in Servers : Usual(s[1]), Init
  PROVE  SettleInv
<1>1. Usual(live) /\ Usual(boot) /\ hpc = "idle" /\ pc = "idle"
  BY DEF Init, HInit, RInit
<1> QED
  BY <1>1 DEF SettleInv

LEMMA SettleHarden ==
  ASSUME StepInv, FirewallInv, SettleInv, pc = "idle", HNext, UNCHANGED <<rvars, deployed>>
  PROVE  SettleInv'
<1>1. /\ UNCHANGED <<pc, saved>> /\ pc = "idle"
      /\ Sound(live) /\ live \in Rulesets /\ Usual(live) /\ Usual(boot)
  BY DEF rvars, FirewallInv, SettleInv, Sound
<1>2. ASSUME Usual(live'), Usual(boot'), hpc' # "idle" => Usual(backup'),
             hpc' = "harden" => \E k \in 1 .. 19 : Left(commands', Harden, k) /\ Laid(live', k),
             hpc' = "hardened" => Laid(live', 19) /\ boot' = live',
             hpc' = "rolledBack" => live' = backup'
      PROVE  SettleInv'
  BY <1>1, <1>2 DEF SettleInv
<1>3. CASE HApply
  <2>1. Left(Harden, Harden, 1)
    BY HardenCommands, LeftAll
  <2>2. Laid(live', 1)
    BY DEF Laid, Ensured
  <2> QED
    BY <1>1, <1>2, <1>3, <2>1, <2>2 DEF HApply
<1>4. CASE HCommand
  <2>1. /\ commands \in Seq(Commands) /\ commands # <<>> /\ Usual(backup)
        /\ UNCHANGED <<boot, hpc, backup>> /\ hpc = "harden"
    BY <1>4 DEF HCommand, StepInv, SettleInv
  <2>2. PICK k \in 1 .. 19 : Left(commands, Harden, k) /\ Laid(live, k)
    BY <2>1 DEF SettleInv
  <2>3. k \in 1 .. 18 /\ Head(commands) = Harden[k] /\ Left(Tail(commands), Harden, k + 1)
    <3>1. k \in 1 .. Len(Harden) /\ Head(commands) = Harden[k] /\ Left(Tail(commands), Harden, k + 1)
      BY <2>1, <2>2, HardenCommands, LeftNext
    <3> QED
      BY <3>1, HardenLength
  <2>4. live' = Effect(live, Harden[k])
    BY <1>4, <2>3 DEF HCommand
  <2>5. Harden[k] \in Commands /\ Fits(Harden[k])
    BY <2>3, AllFit
  <2>6. Usual(live')
    BY <1>1, <2>4, <2>5, UsualKept
  <2>7. /\ k \in {5, 6} => Laid(live', k)
        /\ k \notin {5, 6} \/ live' = live => Laid(live', k + 1)
    BY <1>1, <2>2, <2>3, <2>4, LaidStep
  <2>8. Harden[k].op = "delete" <=> k \in {5, 6}
    BY <2>3, HardenIs DEF EnsureFirst, Ensure, Delete, Flush, Policy
  <2>9. commands' = IF Harden[k].op = "delete" /\ live' # live THEN commands ELSE Tail(commands)
    BY <1>4, <2>3 DEF HCommand
  <2>10. \E n \in 1 .. 19 : Left(commands', Harden, n) /\ Laid(live', n)
    <3>1. CASE k \in {5, 6} /\ live' # live
      BY <2>2, <2>7, <2>8, <2>9, <3>1
    <3>2. CASE ~ (k \in {5, 6} /\ live' # live)
      <4>1. Left(commands', Harden, k + 1) /\ Laid(live', k + 1)
        BY <2>3, <2>7, <2>8, <2>9, <3>2
      <4>2. k + 1 \in 1 .. 19
        BY <2>3
      <4> QED
        BY <4>1, <4>2
    <3> QED
      BY <3>1, <3>2
  <2> QED
    BY <1>1, <1>2, <2>1, <2>6, <2>10
<1>5. CASE HSave
  <2>1. PICK k \in 1 .. 19 : Left(commands, Harden, k) /\ Laid(live, k)
    BY <1>5 DEF HSave, SettleInv
  <2>2. k = 19
    BY <1>5, <2>1, HardenIs DEF HSave, Left
  <2> QED
    BY <1>1, <1>2, <1>5, <2>1, <2>2 DEF HSave, SettleInv
<1>6. CASE HExcept
  BY <1>1, <1>2, <1>6 DEF HExcept, SettleInv
<1>7. CASE HRestore
  BY <1>1, <1>2, <1>7 DEF HRestore, SettleInv
<1>8. CASE HEnd
  BY <1>1, <1>2, <1>8 DEF HEnd
<1> QED
  BY <1>3, <1>4, <1>5, <1>6, <1>7, <1>8 DEF HNext

LEMMA SettleRemediate ==
  ASSUME StepInv, FirewallInv, SettleInv, hpc = "idle", RNext, UNCHANGED <<hvars, deployed>>
  PROVE  SettleInv'
<1>1. /\ UNCHANGED <<hpc, commands, backup>> /\ hpc = "idle"
      /\ live \in Rulesets /\ Usual(live) /\ Usual(boot)
      /\ pc # "idle" => Usual(saved.live) /\ Usual(saved.boot)
  BY DEF hvars, SettleInv, FirewallInv, Sound
<1>2. ASSUME Usual(live'), Usual(boot'), pc' # "idle" => Usual(saved'.live) /\ Usual(saved'.boot)
      PROVE  SettleInv'
  BY <1>1, <1>2 DEF SettleInv
<1>3. CASE RApply
  BY <1>1, <1>2, <1>3 DEF RApply
<1>4. CASE InsertNext
  <2>1. todo \in Seq({Additive[i] : i \in 1 .. 4}) /\ todo # <<>>
    BY <1>4 DEF InsertNext, StepInv
  <2>2. Head(todo) \in {Additive[i] : i \in 1 .. 4}
    BY <2>1
  <2>3. Head(todo) \in Commands /\ Fits(Head(todo))
    BY <2>2, AllFit
  <2>4. Usual(live')
    BY <1>1, <1>4, <2>3, UsualKept DEF InsertNext
  <2> QED
    BY <1>1, <1>2, <1>4, <2>4 DEF InsertNext
<1>5. CASE SaveRules
  BY <1>1, <1>2, <1>5 DEF SaveRules
<1>6. CASE RestoreNext
  BY <1>1, <1>2, <1>6 DEF RestoreNext
<1>7. CASE RestoreRules
  BY <1>1, <1>2, <1>7 DEF RestoreRules
<1>8. CASE REnd
  BY <1>1, <1>2, <1>8 DEF REnd, Goto
<1>9. CASE \/ MigrateToken \/ StopResolver \/ EnsureDnscrypt \/ CopyDnscrypt \/ WriteNext
           \/ RestartServices \/ CheckHealth \/ OwnFiles \/ RExcept \/ RestartBack
  <2>1. UNCHANGED <<live, boot, saved>> /\ pc # "idle"
    BY <1>9 DEF MigrateToken, StopResolver, EnsureDnscrypt, CopyDnscrypt, WriteNext,
                RestartServices, CheckHealth, OwnFiles, RExcept, RestartBack, Migrating
  <2> QED
    BY <1>1, <1>2, <2>1
<1> QED
  BY <1>3, <1>4, <1>5, <1>6, <1>7, <1>8, <1>9 DEF RNext

LEMMA SettleAround ==
  ASSUME SettleInv, WeeklyUpdate \/ Reboot \/ UNCHANGED vars
  PROVE  SettleInv'
<1>1. CASE WeeklyUpdate \/ UNCHANGED vars
  <2>1. UNCHANGED <<live, boot, hpc, commands, backup, pc, saved>>
    BY <1>1 DEF WeeklyUpdate, vars, hvars, rvars
  <2> QED
    BY <2>1 DEF SettleInv
<1>2. CASE Reboot
  <2>1. live' = boot /\ UNCHANGED boot /\ pc' = "idle" /\ hpc' = "idle"
    BY <1>2 DEF Reboot
  <2> QED
    BY <2>1 DEF SettleInv
<1> QED
  BY <1>1, <1>2

\* "permits WireGuard forwarding only to the detected WAN interface, and sets
\* INPUT/FORWARD default DROP": on a server whose rules came from deploy_server.sh or
\* from the configuration before it, a hardening that reports success has peers reach
\* what lies behind the WAN and nothing else, undeclared ports closed, peers masqueraded
\* and the rules of the next boot the same, and run again it would change nothing; one
\* that reports a rollback has put back the rules it found.
THEOREM HardeningWholeOrUndone ==
  (\A s \in Servers : Usual(s[1])) => (Spec => []HardenedOrRestored)
<1> SUFFICES ASSUME \A s \in Servers : Usual(s[1]) PROVE Spec => []HardenedOrRestored
  OBVIOUS
<1>1. Init => SettleInv
  BY SettleInit
<1>2. StepInv /\ FirewallInv /\ SettleInv /\ [Next]_vars => SettleInv'
  BY SettleHarden, SettleRemediate, SettleAround DEF Next
<1>3. FirewallInv /\ SettleInv => HardenedOrRestored
  <2> SUFFICES ASSUME FirewallInv, SettleInv PROVE HardenedOrRestored
    OBVIOUS
  <2>1. live \in Rulesets /\ Plain(live) /\ Usual(live)
    BY DEF FirewallInv, SettleInv, Sound
  <2>2. CASE hpc = "hardened"
    <3>1. Laid(live, 19) /\ boot = live
      BY <2>2 DEF SettleInv
    <3> QED
      BY <2>1, <2>2, <3>1, RoutesWan, RestClosed, PeersMasqueraded, RerunsSame
      DEF HardenedOrRestored
  <2>3. CASE hpc # "hardened"
    BY <2>3 DEF SettleInv, HardenedOrRestored
  <2> QED
    BY <2>2, <2>3
<1> QED
  BY <1>1, <1>2, <1>3, Steps, RulesSound, PTL DEF Spec

=============================================================================
