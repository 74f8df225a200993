---------------------------- MODULE GatewayProofs ----------------------------
(***************************************************************************)
(* What an answer of the gateway may be, for any workers, addresses,       *)
(* configurations and limits: SecretsStay, UpgradeEnds, BannedSeesDecoy,   *)
(* the account of one-time codes behind SessionsPaid, and what the         *)
(* profiles of every configuration do.                                     *)
(***************************************************************************)
EXTENDS Gateway, FiniteSetTheorems, TLAPS

OffPortal == {"sub", "otherGet", "rotate", "otherPost"}

\* The routes that get to each place.
RouteKept == \A w \in Workers :
  /\ pc[w] # "idle" => job[w] \in Job
  /\ pc[w] = "ban" => job[w].route \in OffPortal
  /\ pc[w] = "session" => job[w].route \in {"portal", "rotate"}
  /\ pc[w] \in {"clear", "record"} => job[w].route \in {"sub", Login}

\* A request under way passed the transport check, and so did one that was
\* answered with a secret; an upgrade is what that check said.
TransportKept == \A w \in Workers :
  /\ pc[w] \notin {"idle", "answered"} => Transport(job[w]) = "pass"
  /\ pc[w] = "answered" /\ answer[w] \in Secrets => Transport(job[w]) = "pass"
  /\ pc[w] = "answered" /\ answer[w] = "upgrade" => Transport(job[w]) = "upgrade"

\* A barred request off the portal waits for its ban check or was sent away.
BarKept == \A w \in Workers :
  barred[w] =>
    /\ pc[w] # "idle" /\ Banned(job[w].ip)
    /\ job[w].route \in OffPortal \cup {"verb"} =>
         pc[w] = "ban" \/ (pc[w] = "answered" /\ answer[w] = "decoy")

IInv == TypeOK /\ RouteKept /\ TransportKept /\ BarKept

\* The check does not depend on what changes after it.
LEMMA TransportRange ==
  ASSUME NEW j PROVE Transport(j) \in {"misdirected", "refused", "upgrade", "pass"}
  BY DEF Transport

LEMMA InitHolds == ASSUME GatewayAssumption, Init PROVE IInv
  BY DEF GatewayAssumption, Init, IInv, TypeOK, RouteKept, TransportKept, BarKept, PC, Answers,
     Bodies, NoJob, Secrets

\* What a worker does after it cleared an address.
LEMMA ClearAnswers ==
  ASSUME NEW w \in Workers, Clear(w)
  PROVE  \/ job[w].route = Login /\ Goto(w, "mint")
         \/ \E b \in Bodies \cup {"badRequest"} : job[w].route # Login /\ Reply(w, b)
  <1>1. CASE job[w].route = Login
    BY <1>1 DEF Clear
  <1>2. CASE job[w].route # Login
    <2>1. \/ Reply(w, "badRequest")
          \/ \E b \in Bodies \ {"profile"} : Reply(w, b)
          \/ \E o \in Modes \X Cores :
               Reply(w, IF Accepts(settings, o[1], o[2]) THEN "profile" ELSE "badRequest")
      BY <1>2 DEF Clear
    <2>2. ASSUME NEW o \in Modes \X Cores,
                 Reply(w, IF Accepts(settings, o[1], o[2]) THEN "profile" ELSE "badRequest")
          PROVE  Reply(w, "profile") \/ Reply(w, "badRequest")
      BY <2>2
    <2> QED BY <1>2, <2>1, <2>2 DEF Bodies
  <1> QED BY <1>1, <1>2

\* Types after each step.
LEMMA TypesStep == ASSUME GatewayAssumption, IInv, [Next]_vars PROVE TypeOK'
  <1> USE DEF GatewayAssumption, IInv, TypeOK, RouteKept, shared, Goto, Reply, PC, Answers, Bodies
  <1>1. ASSUME NEW a \in Addresses, Expire(a) PROVE TypeOK'
    BY <1>1 DEF Expire, Forgotten
  <1>2. ASSUME NEW w \in Workers, NEW j \in Job, Arrive(w, j) PROVE TypeOK'
    BY <1>2, TransportRange DEF Arrive, Public, Login, Posts, Gets
  <1>3. ASSUME NEW w \in Workers, Ban(w) PROVE TypeOK'
    BY <1>3 DEF Ban, OffPortal
  <1>4. ASSUME NEW w \in Workers, Totp(w) PROVE TypeOK'
    BY <1>4 DEF Totp
  <1>5. ASSUME NEW w \in Workers, Clear(w) PROVE TypeOK'
    <2>1. \/ job[w].route = Login /\ Goto(w, "mint")
          \/ \E b \in Bodies \cup {"badRequest"} : Reply(w, b)
      BY <1>5, ClearAnswers
    <2>2. failed' \in [Addresses -> 0..MaxFailed] /\ barred' \in [Workers -> BOOLEAN]
      <3>1. Forgotten(job[w].ip)
        BY <1>5 DEF Clear
      <3>2. 0 \in 0..MaxFailed /\ failed \in [Addresses -> 0..MaxFailed]
        OBVIOUS
      <3>3. failed' \in [Addresses -> 0..MaxFailed]
        BY <3>1, <3>2, Zenon DEF Forgotten
      <3>4. barred' \in [Workers -> BOOLEAN]
        BY <3>1 DEF Forgotten
      <3> QED BY <3>3, <3>4
    <2>3. UNCHANGED <<settings, spent, gen, cookies, logins, job>>
      BY <1>5 DEF Clear
    <2>4. CASE job[w].route = Login /\ Goto(w, "mint")
      BY <2>2, <2>3, <2>4
    <2>5. CASE \E b \in Bodies \cup {"badRequest"} : Reply(w, b)
      BY <2>2, <2>3, <2>5
    <2> QED BY <2>1, <2>4, <2>5
  <1>6. ASSUME NEW w \in Workers, Mint(w) PROVE TypeOK'
    BY <1>6 DEF Mint
  <1>7. ASSUME NEW w \in Workers, Record(w) PROVE TypeOK'
    BY <1>7 DEF Record, Banned, Job
  <1>8. ASSUME NEW w \in Workers, Recheck(w) PROVE TypeOK'
    BY <1>8 DEF Recheck
  <1>9. ASSUME NEW w \in Workers, Session(w) PROVE TypeOK'
    BY <1>9 DEF Session
  <1>10. ASSUME NEW w \in Workers, Csrf(w) PROVE TypeOK'
    BY <1>10 DEF Csrf
  <1>11. ASSUME NEW w \in Workers, Rotate(w) PROVE TypeOK'
    BY <1>11 DEF Rotate
  <1>12. ASSUME NEW w \in Workers, Close(w) PROVE TypeOK'
    BY <1>12 DEF Close
  <1>13. CASE UNCHANGED vars
    BY <1>13 DEF vars
  <1> QED BY <1>1, <1>2, <1>3, <1>4, <1>5, <1>6, <1>7, <1>8, <1>9, <1>10, <1>11, <1>12, <1>13
        DEF Next

\* Each place is reached by its routes only.
LEMMA RouteStep == ASSUME GatewayAssumption, IInv, [Next]_vars PROVE RouteKept'
  <1> USE DEF IInv, TypeOK, RouteKept, Goto, Reply
  <1>1. ASSUME NEW a \in Addresses, Expire(a) PROVE RouteKept'
    BY <1>1 DEF Expire
  <1>2. ASSUME NEW w \in Workers, NEW j \in Job, Arrive(w, j) PROVE RouteKept'
    BY <1>2 DEF Arrive, Public, Login, Posts, Gets, Job, OffPortal, Verb
  <1>3. ASSUME NEW w \in Workers, Ban(w) PROVE RouteKept'
    BY <1>3 DEF Ban, OffPortal
  <1>4. ASSUME NEW w \in Workers, Totp(w) PROVE RouteKept'
    BY <1>4 DEF Totp
  <1>5. ASSUME NEW w \in Workers, Clear(w) PROVE RouteKept'
    BY <1>5, ClearAnswers DEF Clear
  <1>6. ASSUME NEW w \in Workers, Mint(w) \/ Record(w) \/ Recheck(w) PROVE RouteKept'
    BY <1>6 DEF Mint, Record, Recheck
  <1>7. ASSUME NEW w \in Workers, Session(w) \/ Csrf(w) \/ Rotate(w) PROVE RouteKept'
    BY <1>7 DEF Session, Csrf, Rotate
  <1>8. ASSUME NEW w \in Workers, Close(w) PROVE RouteKept'
    BY <1>8 DEF Close
  <1>9. CASE UNCHANGED vars
    BY <1>9 DEF vars, shared
  <1> QED BY <1>1, <1>2, <1>3, <1>4, <1>5, <1>6, <1>7, <1>8, <1>9 DEF Next

\* A worker that goes on, or answers with anything but an upgrade.
LEMMA TransportFrame ==
  ASSUME IInv, NEW w \in Workers, UNCHANGED <<settings, job>>,
         pc[w] \notin {"idle", "answered"},
         NEW to, pc' = [pc EXCEPT ![w] = to], to # "answered" => to # "idle",
         \/ to # "answered" /\ UNCHANGED answer
         \/ \E a \in Answers \ {"upgrade"} : answer' = [answer EXCEPT ![w] = a]
  PROVE  TransportKept'
  <1>1. ASSUME NEW x \in Workers PROVE Transport(job[x])' = Transport(job[x])
    BY DEF Transport
  <1>2. Transport(job[w]) = "pass"
    BY DEF IInv, TransportKept
  <1>3. \A x \in Workers : x # w => pc'[x] = pc[x] /\ answer'[x] = answer[x]
    BY DEF IInv, TypeOK
  <1>4. pc'[w] = "answered" => answer'[w] # "upgrade"
    BY DEF IInv, TypeOK
  <1> QED BY <1>1, <1>2, <1>3, <1>4 DEF IInv, TransportKept

\* No answer forgets what the transport check said.
LEMMA TransportStep == ASSUME GatewayAssumption, IInv, [Next]_vars PROVE TransportKept'
  <1> USE DEF Goto, Reply, Answers, Bodies
  <1>1. ASSUME NEW a \in Addresses, Expire(a) PROVE TransportKept'
    <2>1. \A x \in Workers : Transport(job[x])' = Transport(job[x])
      BY <1>1 DEF Expire, Transport
    <2> QED BY <1>1, <2>1 DEF Expire, IInv, TransportKept
  <1>2. ASSUME NEW w \in Workers, NEW j \in Job, Arrive(w, j) PROVE TransportKept'
    <2>1. \A x : Transport(x)' = Transport(x)
      BY <1>2 DEF Arrive, shared, Transport
    <2>2. job'[w] = j /\ \A x \in Workers : x # w =>
             job'[x] = job[x] /\ pc'[x] = pc[x] /\ answer'[x] = answer[x]
      BY <1>2 DEF Arrive, IInv, TypeOK
    <2>3. \/ pc'[w] # "idle" /\ Transport(j) = "pass" /\ (pc'[w] = "answered" => answer'[w] # "upgrade")
          \/ pc'[w] = "answered" /\ answer'[w] = Transport(j) /\ Transport(j) # "pass"
          \/ pc'[w] = "answered" /\ answer'[w] = "decoy"
      BY <1>2 DEF Arrive, IInv, TypeOK
    <2> QED BY <2>1, <2>2, <2>3, TransportRange DEF IInv, TransportKept, Secrets
  <1>3. ASSUME NEW w \in Workers, Ban(w) PROVE TransportKept'
    BY <1>3, TransportFrame DEF Ban, shared
  <1>4. ASSUME NEW w \in Workers, Totp(w) PROVE TransportKept'
    BY <1>4, TransportFrame DEF Totp
  <1>5. ASSUME NEW w \in Workers, Clear(w) PROVE TransportKept'
    BY <1>5, ClearAnswers, TransportFrame DEF Clear
  <1>6. ASSUME NEW w \in Workers, Mint(w) \/ Record(w) \/ Recheck(w) PROVE TransportKept'
    BY <1>6, TransportFrame DEF Mint, Record, Recheck, shared
  <1>7. ASSUME NEW w \in Workers, Session(w) \/ Csrf(w) \/ Rotate(w) PROVE TransportKept'
    BY <1>7, TransportFrame DEF Session, Csrf, Rotate, shared
  <1>8. ASSUME NEW w \in Workers, Close(w) PROVE TransportKept'
    <2>1. \A x : Transport(x)' = Transport(x)
      BY <1>8 DEF Close, shared, Transport
    <2> QED BY <1>8, <2>1 DEF Close, IInv, TypeOK, TransportKept
  <1>9. CASE UNCHANGED vars
    BY <1>9 DEF vars, shared, IInv, TransportKept, Transport
  <1> QED BY <1>1, <1>2, <1>3, <1>4, <1>5, <1>6, <1>7, <1>8, <1>9 DEF Next

\* A bar lasts while the ban does, and keeps the request from the comparison.
LEMMA BarStep == ASSUME GatewayAssumption, IInv, [Next]_vars PROVE BarKept'
  <1> USE DEF IInv, TypeOK, RouteKept, BarKept, Goto, Reply, Banned, OffPortal, Login
  <1>1. ASSUME NEW a \in Addresses, Expire(a) PROVE BarKept'
    BY <1>1 DEF Expire, Forgotten, Job
  <1>2. ASSUME NEW w \in Workers, NEW j \in Job, Arrive(w, j) PROVE BarKept'
    BY <1>2 DEF Arrive, shared, Public, Gets, Posts, Verb, Job
  <1>3. ASSUME NEW w \in Workers, Ban(w) PROVE BarKept'
    BY <1>3 DEF Ban, shared
  <1>4. ASSUME NEW w \in Workers, Totp(w) PROVE BarKept'
    BY <1>4 DEF Totp
  <1>5. ASSUME NEW w \in Workers, Clear(w) PROVE BarKept'
    BY <1>5, ClearAnswers DEF Clear, Forgotten, Job
  <1>6. ASSUME NEW w \in Workers, Mint(w) \/ Recheck(w) PROVE BarKept'
    BY <1>6 DEF Mint, Recheck, shared
  <1>7. ASSUME NEW w \in Workers, Record(w) PROVE BarKept'
    BY <1>7 DEF Record, Job
  <1>8. ASSUME NEW w \in Workers, Session(w) \/ Csrf(w) \/ Rotate(w) PROVE BarKept'
    BY <1>8 DEF Session, Csrf, Rotate, shared
  <1>9. ASSUME NEW w \in Workers, Close(w) PROVE BarKept'
    BY <1>9 DEF Close, shared
  <1>10. CASE UNCHANGED vars
    BY <1>10 DEF vars, shared
  <1> QED BY <1>1, <1>2, <1>3, <1>4, <1>5, <1>6, <1>7, <1>8, <1>9, <1>10 DEF Next

\* Every behaviour keeps the inductive invariant.
LEMMA Invariant == ASSUME GatewayAssumption PROVE Spec => []IInv
  <1>1. Init => IInv
    BY InitHolds
  <1>2. IInv /\ [Next]_vars => IInv'
    BY TypesStep, RouteStep, TransportStep, BarStep DEF IInv
  <1> QED BY <1>1, <1>2, PTL DEF Spec

\* Only a login gets to the second factor, to a cookie and to the second look at the
\* ban, only a rotation to the CSRF check and the new token (do_POST).
THEOREM TypesKept == ASSUME GatewayAssumption PROVE Spec => []TypeOK
  <1>1. IInv => TypeOK
    BY DEF IInv
  <1> QED BY <1>1, Invariant, PTL

\* A request from a banned address gets the decoy off the portal, for any number of
\* workers that check, charge and clear in between (do_GET, do_POST).
THEOREM BannedGetDecoy == ASSUME GatewayAssumption PROVE Spec => []BannedSeesDecoy
  <1>1. IInv => BannedSeesDecoy
    BY DEF IInv, TypeOK, RouteKept, BarKept, BannedSeesDecoy, OffPortal, Job, Gets, Posts, Public,
           Login, Verb
  <1> QED BY <1>1, Invariant, PTL

\* Secrets go over TLS only, and an upgrade repeats no credential
\* (enforce_https_upgrade).
THEOREM SecretsOverTls == ASSUME GatewayAssumption PROVE Spec => []SecretsStay
  <1>1. IInv => SecretsStay
    BY DEF IInv, TypeOK, RouteKept, TransportKept, SecretsStay, Transport, HasCredential, Job
  <1> QED BY <1>1, Invariant, PTL

\* An upgrade is followed by no other when the portal has a name (enforce_https_upgrade).
THEOREM NoRedirectLoop == ASSUME GatewayAssumption PROVE Spec => []UpgradeEnds
  <1>1. IInv => UpgradeEnds
    BY DEF IInv, TypeOK, RouteKept, TransportKept, UpgradeEnds, Transport, HasCredential, Job
  <1> QED BY <1>1, Invariant, PTL

-----------------------------------------------------------------------------
\* Logins that have spent a code and have no session yet.
Paid == {w \in Workers : pc[w] = "mint" \/ (pc[w] = "clear" /\ job[w].route = Login)}

\* Every code spent is the price of one session that was, or is about to be, issued.
Balance == TotpRequired => Cardinality(spent) = logins + Cardinality(Paid)

\* The sets counted are finite.
LEMMA Countable ==
  ASSUME GatewayAssumption, IInv
  PROVE  /\ IsFiniteSet(spent) /\ Cardinality(spent) \in Nat
         /\ IsFiniteSet(Paid) /\ Cardinality(Paid) \in Nat
  <1>1. spent \subseteq Codes /\ Paid \subseteq Workers
    BY DEF IInv, TypeOK, Paid
  <1>2. IsFiniteSet(spent) /\ IsFiniteSet(Paid)
    BY <1>1, FS_Subset DEF GatewayAssumption
  <1> QED BY <1>2, FS_CardinalityType

\* A step that moves one worker, neither from nor to the place of one that paid.
LEMMA BalanceFrame ==
  ASSUME Balance, UNCHANGED <<spent, logins>>,
         \A x \in Workers : (x \in Paid)' <=> x \in Paid
  PROVE  Balance'
  <1>1. Paid' = Paid
    BY DEF Paid
  <1> QED BY <1>1 DEF Balance

\* The account balances after each step: a code is marked in the step that accepts it,
\* and a cookie is issued by nobody else.
LEMMA BalanceStep == ASSUME GatewayAssumption, IInv, Balance, [Next]_vars PROVE Balance'
  <1> USE DEF Goto, Reply
  <1>1. ASSUME NEW a \in Addresses, Expire(a) PROVE Balance'
    BY <1>1, BalanceFrame DEF Expire, Paid
  <1>2. ASSUME NEW w \in Workers, NEW j \in Job, Arrive(w, j) PROVE Balance'
    <2>1. CASE TotpRequired
      <3>1. pc'[w] \notin {"mint", "clear"} /\ pc[w] = "idle"
        BY <1>2, <2>1 DEF Arrive, IInv, TypeOK
      <3>2. \A x \in Workers : x # w => pc'[x] = pc[x] /\ job'[x] = job[x]
        BY <1>2 DEF Arrive, IInv, TypeOK
      <3> QED BY <1>2, <3>1, <3>2, BalanceFrame DEF Arrive, shared, Paid
    <2> QED BY <1>2, <2>1 DEF Arrive, shared, Balance
  <1>3. ASSUME NEW w \in Workers, Ban(w) PROVE Balance'
    <2>1. pc'[w] # "mint" /\ job[w].route # Login /\ pc[w] = "ban"
      BY <1>3 DEF Ban, IInv, TypeOK, RouteKept, OffPortal, Login
    <2> QED BY <1>3, <2>1, BalanceFrame DEF Ban, shared, Paid, IInv, TypeOK
  <1>4. ASSUME NEW w \in Workers, Totp(w) PROVE Balance'
    <2>1. pc[w] = "totp" /\ job[w].route = Login /\ w \notin Paid
      BY <1>4 DEF Totp, IInv, TypeOK, Paid
    <2>2. ASSUME NEW c \in Codes \ spent, spent' = spent \cup {c}, Goto(w, "clear") PROVE Balance'
      <3>1. Paid' = Paid \cup {w}
        BY <1>4, <2>1, <2>2 DEF Totp, Paid, IInv, TypeOK
      <3>2. Cardinality(Paid') = Cardinality(Paid) + 1
        BY <2>1, <3>1, Countable, FS_AddElement
      <3>3. Cardinality(spent') = Cardinality(spent) + 1
        BY <2>2, Countable, FS_AddElement
      <3> QED BY <1>4, <3>2, <3>3, Countable DEF Totp, Balance, IInv, TypeOK
    <2>3. CASE UNCHANGED spent /\ Goto(w, "record")
      BY <1>4, <2>1, <2>3, BalanceFrame DEF Totp, Paid, IInv, TypeOK
    <2> QED BY <1>4, <2>2, <2>3 DEF Totp
  <1>5. ASSUME NEW w \in Workers, Clear(w) PROVE Balance'
    BY <1>5, ClearAnswers, BalanceFrame DEF Clear, Paid, IInv, TypeOK
  <1>6. ASSUME NEW w \in Workers, Mint(w) PROVE Balance'
    <2>1. w \in Paid /\ Paid' = Paid \ {w}
      BY <1>6 DEF Mint, Paid, IInv, TypeOK
    <2>2. Cardinality(Paid') = Cardinality(Paid) - 1
      BY <2>1, Countable, FS_RemoveElement
    <2> QED BY <1>6, <2>2, Countable DEF Mint, Balance, IInv, TypeOK
  <1>7. ASSUME NEW w \in Workers, Record(w) \/ Recheck(w) PROVE Balance'
    BY <1>7, BalanceFrame DEF Record, Recheck, shared, Paid, IInv, TypeOK
  <1>8. ASSUME NEW w \in Workers, Session(w) \/ Csrf(w) \/ Rotate(w) PROVE Balance'
    BY <1>8, BalanceFrame DEF Session, Csrf, Rotate, shared, Paid, IInv, TypeOK
  <1>9. ASSUME NEW w \in Workers, Close(w) PROVE Balance'
    BY <1>9, BalanceFrame DEF Close, shared, Paid, IInv, TypeOK
  <1>10. CASE UNCHANGED vars
    BY <1>10, BalanceFrame DEF vars, shared, Paid
  <1> QED BY <1>1, <1>2, <1>3, <1>4, <1>5, <1>6, <1>7, <1>8, <1>9, <1>10 DEF Next

\* Where the second factor is required, every session was paid for with a one-time code
\* of its own and no code is lost, however many workers log in at once
\* (_handle_login, verify_totp).
THEOREM EverySessionPaid == ASSUME GatewayAssumption PROVE Spec => []SessionsPaid
  <1>1. Init => IInv /\ Balance
    <2> SUFFICES ASSUME Init PROVE IInv /\ Balance
      OBVIOUS
    <2>1. spent = {} /\ Paid = {} /\ logins = 0
      BY DEF Init, Paid
    <2> QED BY <2>1, InitHolds, FS_EmptySet DEF Balance
  <1>2. IInv /\ Balance /\ [Next]_vars => (IInv /\ Balance)'
    BY TypesStep, RouteStep, TransportStep, BarStep, BalanceStep DEF IInv
  <1>3. IInv /\ Balance => SessionsPaid
    BY DEF Balance, Paid, SessionsPaid
  <1> QED BY <1>1, <1>2, <1>3, PTL DEF Spec

-----------------------------------------------------------------------------
(* The profiles: what holds of every configuration, not of the chosen ones.      *)

\* A profile is offered in three forms.
LEMMA ThreeForms ==
  ASSUME NEW o \in Offered
  PROVE  /\ o[1] \in Settings /\ o = <<o[1], o[2], o[3]>>
         /\ \/ o[2] = "traffic-only" /\ o[3] = "1.11"
            \/ o[2] = "traffic-only" /\ o[3] = "1.14"
            \/ o[2] = "full" /\ o[3] = "1.14"
  BY DEF Offered, Accepts, Modes, Cores

\* What Modern leaves as it was.
LEMMA Unmodernised ==
  ASSUME NEW s, NEW mode, NEW core
  PROVE  /\ Profile(s, mode, core).dns = DnsServer(mode)
         /\ Profile(s, mode, core).exclude = Excluded(mode)
         /\ Profile(s, mode, core).ca = VerifiedCa(s.certs)
         /\ DOMAIN Profile(s, mode, core).rules = DOMAIN Rules(s, mode)
         /\ \A i \in DOMAIN Rules(s, mode) :
              /\ Profile(s, mode, core).rules[i].on = Rules(s, mode)[i].on
              /\ Profile(s, mode, core).rules[i].to =
                   IF core = "1.14" /\ Rules(s, mode)[i].to = "block-ipv6" THEN "reject"
                   ELSE Rules(s, mode)[i].to
  BY DEF Profile, Modern, Legacy, To

\* The rules one by one.
LEMMA RulesFull ==
  ASSUME NEW s \in Settings
  PROVE  LET r == Rules(s, "full") IN
         /\ DOMAIN r = 1..(IF s.named THEN 6 ELSE 5)
         /\ r[1] = To("ipv6", "block-ipv6") /\ r[2] = To("any", "sniff")
         /\ r[3] = To("dns", "hijack-dns")
         /\ s.named => /\ r[4] = To("serverName", "direct") /\ r[5] = To("serverAddress", "direct")
                       /\ r[6] = To("any", "proxy")
         /\ ~ s.named => r[4] = To("serverAddress", "direct") /\ r[5] = To("any", "proxy")
  BY DEF Rules, ModeRules

LEMMA RulesTrafficOnly ==
  ASSUME NEW s \in Settings
  PROVE  LET r == Rules(s, "traffic-only") IN
         /\ DOMAIN r = 1..(IF s.named THEN 11 ELSE 10)
         /\ r[1] = To("ipv6", "block-ipv6") /\ r[2] = To("any", "sniff")
         /\ r[3] = To("resolver", "direct") /\ r[4] = To("dns", "direct")
         /\ r[5] = To("dnsPort", "direct") /\ r[6] = To("doh", "direct")
         /\ r[7] = To("private", "direct") /\ r[8] = To("campus", "direct")
         /\ s.named => /\ r[9] = To("serverName", "direct") /\ r[10] = To("serverAddress", "direct")
                       /\ r[11] = To("any", "proxy")
         /\ ~ s.named => r[9] = To("serverAddress", "direct") /\ r[10] = To("any", "proxy")
  BY DEF Rules, ModeRules

\* The rule that decides is the first that matches and does not only sniff.
LEMMA FirstDecides ==
  ASSUME NEW p, NEW c, ~ (c.by = "address" /\ c.dest \in p.exclude),
         NEW n \in Nat, DOMAIN p.rules = 1..n, NEW k \in 1..n,
         Decides(p, c, k), \A i \in 1..(k - 1) : ~ Decides(p, c, i)
  PROVE  Verdict(p, c) = IF p.rules[k].to \in {"block-ipv6", "reject"} THEN "refused"
                         ELSE p.rules[k].to
  <1> DEFINE hits  == {i \in DOMAIN p.rules : Decides(p, c, i)}
             first == CHOOSE i \in hits : \A j \in hits : i <= j
  <1>1. hits \subseteq Nat /\ k \in hits /\ \A j \in hits : k <= j
    OBVIOUS
  <1> HIDE DEF hits
  <1>2. first \in hits /\ first <= k
    BY <1>1
  <1> HIDE DEF first
  <1>3. first = k
    BY <1>1, <1>2
  <1>4. Verdict(p, c) = IF p.rules[first].to \in {"block-ipv6", "reject"} THEN "refused"
                        ELSE p.rules[first].to
    BY Zenon DEF Verdict, hits, first
  <1> QED BY <1>3, <1>4

\* The rules of an offered profile are numbered from 1 to some number.
LEMMA RuleCount ==
  ASSUME NEW o \in Offered
  PROVE  \E n \in Nat : DOMAIN ProfileOf(o).rules = 1..n /\ n > 4 /\ (o[2] # "full" => n > 8)
  <1> DEFINE count(mode) == IF o[1].named THEN IF mode = "full" THEN 6 ELSE 11
                            ELSE IF mode = "full" THEN 5 ELSE 10
  <1>1. DOMAIN Rules(o[1], o[2]) = 1..count(o[2])
    BY ThreeForms, RulesFull, RulesTrafficOnly
  <1>2. DOMAIN ProfileOf(o).rules = 1..count(o[2])
    BY <1>1, Unmodernised DEF ProfileOf
  <1> QED BY <1>2

\* IPv6 meets the first rule.
LEMMA NoIPv6 == Passing6 = {}
  <1> SUFFICES ASSUME NEW o \in Offered, NEW c \in Connection, c.dest = "v6", c.by = "address"
               PROVE  Verdict(ProfileOf(o), c) = "refused"
    BY DEF Passing6
  <1> DEFINE p == ProfileOf(o)
  <1>1. PICK n \in Nat : DOMAIN p.rules = 1..n /\ n > 4
    BY RuleCount
  <1>2. p.rules[1].on = "ipv6" /\ p.rules[1].to \in {"block-ipv6", "reject"}
    BY ThreeForms, Unmodernised, RulesFull, RulesTrafficOnly DEF ProfileOf, To
  <1>3. c.dest \notin p.exclude
    BY ThreeForms, Unmodernised DEF ProfileOf, Excluded
  <1> HIDE DEF p
  <1>4. Decides(p, c, 1)
    BY <1>2 DEF Matches, Decides
  <1>5. Verdict(p, c) = IF p.rules[1].to \in {"block-ipv6", "reject"} THEN "refused"
                        ELSE p.rules[1].to
    BY <1>1, <1>3, <1>4, FirstDecides
  <1> QED BY <1>2, <1>5 DEF p

\* In full mode every DNS query that is recognised meets the hijacking rule; in
\* traffic-only mode DNS, and DNS over TLS or HTTPS at a known provider, meet one of the
\* rules that lead outside.
LEMMA NoDnsAstray == DnsAstray = {}
  <1>1. ASSUME NEW o \in Offered, NEW c \in Connection, c.dest # "v6", o[2] = "full",
               c.kind \in {"dns", "dnsElsewhere"}, c.dest \notin {"server", "local"}
        PROVE  Verdict(ProfileOf(o), c) = "hijack-dns"
    <2> DEFINE p == ProfileOf(o)
    <2>1. PICK n \in Nat : DOMAIN p.rules = 1..n /\ n > 4
      BY RuleCount
    <2>2. /\ p.rules[1].on = "ipv6" /\ p.rules[2].to = "sniff"
          /\ p.rules[3].on = "dns" /\ p.rules[3].to = "hijack-dns"
      BY <1>1, ThreeForms, Unmodernised, RulesFull DEF ProfileOf, To
    <2>3. c.dest \notin p.exclude
      BY <1>1, ThreeForms, Unmodernised DEF ProfileOf, Excluded
    <2> HIDE DEF p
    <2>4. Decides(p, c, 3) /\ ~ Decides(p, c, 1) /\ ~ Decides(p, c, 2)
      BY <1>1, <2>2 DEF Decides, Sniffed, Matches
    <2>5. Verdict(p, c) = IF p.rules[3].to \in {"block-ipv6", "reject"} THEN "refused"
                          ELSE p.rules[3].to
      BY <2>1, <2>3, <2>4, FirstDecides
    <2> QED BY <2>2, <2>5 DEF p
  <1>2. ASSUME NEW o \in Offered, NEW c \in Connection, c.dest # "v6", o[2] # "full",
               c.kind # "web"
        PROVE  Verdict(ProfileOf(o), c) \in {"direct", "outside"}
    <2> DEFINE p == ProfileOf(o)
    <2>1. PICK n \in Nat : DOMAIN p.rules = 1..n /\ n > 8
      BY <1>2, RuleCount
    <2>2. /\ p.rules[1].on = "ipv6" /\ p.rules[2].to = "sniff"
          /\ p.rules[3].to = "direct" /\ p.rules[4].to = "direct"
          /\ p.rules[5].to = "direct" /\ p.rules[6].to = "direct"
          /\ p.rules[4].on = "dns" /\ p.rules[5].on = "dnsPort" /\ p.rules[6].on = "doh"
      <3> DEFINE r == Rules(o[1], "traffic-only")
      <3>1. o[1] \in Settings /\ o[2] = "traffic-only"
        BY <1>2, ThreeForms
      <3>2. /\ r[1].on = "ipv6" /\ r[2].to = "sniff" /\ r[3].to = "direct"
            /\ r[4] = To("dns", "direct") /\ r[5] = To("dnsPort", "direct")
            /\ r[6] = To("doh", "direct") /\ {1, 2, 3, 4, 5, 6} \subseteq DOMAIN r
        BY <3>1, RulesTrafficOnly DEF To
      <3>3. \A i \in DOMAIN r : /\ p.rules[i].on = r[i].on
                                /\ r[i].to # "block-ipv6" => p.rules[i].to = r[i].to
        BY <3>1, Unmodernised DEF ProfileOf
      <3> HIDE DEF p, r
      <3> QED BY <3>2, <3>3 DEF To
    <2> HIDE DEF p
    <2>3. ~ Decides(p, c, 1) /\ ~ Decides(p, c, 2)
      BY <1>2, <2>2 DEF Decides, Matches
    <2>4. c.kind \in {"dns", "dnsElsewhere", "dot", "doh"}
      BY <1>2 DEF Connection
    <2>5. Decides(p, c, 4) \/ Decides(p, c, 5) \/ Decides(p, c, 6)
      BY <2>2, <2>4 DEF Decides, Sniffed, Matches, HasName
    <2>6. PICK k \in 3..6 : Decides(p, c, k) /\ \A i \in 1..(k - 1) : ~ Decides(p, c, i)
      BY <2>3, <2>5
    <2>7. CASE ~ (c.by = "address" /\ c.dest \in p.exclude)
      <3>1. Verdict(p, c) = IF p.rules[k].to \in {"block-ipv6", "reject"} THEN "refused"
                            ELSE p.rules[k].to
        BY <2>1, <2>6, <2>7, FirstDecides
      <3> QED BY <2>2, <3>1 DEF p
    <2>8. CASE c.by = "address" /\ c.dest \in p.exclude
      BY <2>8 DEF Verdict, p
    <2> QED BY <2>7, <2>8
  <1> QED BY <1>1, <1>2 DEF DnsAstray

\* Some rule decides, and so a first one does: the last matches everything.
LEMMA SomeDecides ==
  ASSUME NEW o \in Offered, o[2] = "traffic-only", NEW c
  PROVE  LET p == ProfileOf(o)
         IN \E k \in DOMAIN p.rules : Decides(p, c, k) /\ \A i \in 1..(k - 1) : ~ Decides(p, c, i)
  <1> DEFINE p == ProfileOf(o)
             last == IF o[1].named THEN 11 ELSE 10
             D(i) == Decides(p, c, i)
  <1>1. DOMAIN p.rules = 1..last
    BY ThreeForms, Unmodernised, RulesTrafficOnly DEF ProfileOf
  <1>2. p.rules[last].on = "any" /\ p.rules[last].to = "proxy"
    BY ThreeForms, Unmodernised, RulesTrafficOnly DEF ProfileOf, To
  <1>3. D(last)
    BY <1>2 DEF Decides, Matches
  <1> HIDE DEF p, D
  <1>4. \E k \in 1..last : D(k) /\ \A i \in 1..(k - 1) : ~ D(i)
    <2>1. CASE D(1) \/ D(2) \/ D(3) \/ D(4)
      BY <2>1
    <2>2. CASE ~ (D(1) \/ D(2) \/ D(3) \/ D(4)) /\ (D(5) \/ D(6) \/ D(7) \/ D(8))
      BY <2>2
    <2>3. CASE ~ (D(1) \/ D(2) \/ D(3) \/ D(4)) /\ ~ (D(5) \/ D(6) \/ D(7) \/ D(8))
      BY <1>3, <2>3
    <2> QED BY <2>1, <2>2, <2>3
  <1> QED BY <1>1, <1>4 DEF D, p

\* Both forms of a traffic-only profile decide by the same rule.
LEMMA FormsAgree == Differing = {}
  <1> SUFFICES ASSUME NEW o \in Offered, NEW c \in Connection
               PROVE  Verdict(Profile(o[1], "traffic-only", "1.11"), c)
                        = Verdict(Profile(o[1], "traffic-only", "1.14"), c)
    BY DEF Differing
  <1> DEFINE s == o[1]
             p == Profile(s, "traffic-only", "1.11")
             q == Profile(s, "traffic-only", "1.14")
             x == <<s, "traffic-only", "1.11">>
  <1>1. x \in Offered /\ x[2] = "traffic-only" /\ ProfileOf(x) = p
    BY DEF Offered, Accepts, ProfileOf, Settings, Modes, Cores
  <1>2. PICK n \in Nat : DOMAIN p.rules = 1..n
    BY <1>1, RuleCount
  <1>3. PICK k \in 1..n : Decides(p, c, k) /\ \A i \in 1..(k - 1) : ~ Decides(p, c, i)
    BY <1>1, <1>2, SomeDecides
  <1>4. /\ p.exclude = q.exclude /\ DOMAIN q.rules = 1..n
        /\ \A i \in 1..n : /\ p.rules[i].on = q.rules[i].on
                           /\ q.rules[i].to = IF p.rules[i].to = "block-ipv6" THEN "reject"
                                              ELSE p.rules[i].to
    BY <1>2, Unmodernised
  <1> HIDE DEF p, q
  <1>5. \A i \in 1..n : p.rules[i].to = "sniff" <=> q.rules[i].to = "sniff"
    BY <1>4
  <1>6. \A i \in 1..n : Sniffed(p, i) <=> Sniffed(q, i)
    BY <1>5 DEF Sniffed
  <1>7. \A i \in 1..n : Decides(p, c, i) <=> Decides(q, c, i)
    BY <1>4, <1>5, <1>6 DEF Decides, Matches, HasName
  <1>8. Decides(q, c, k) /\ \A i \in 1..(k - 1) : ~ Decides(q, c, i)
    BY <1>3, <1>7
  <1>9. CASE c.by = "address" /\ c.dest \in p.exclude
    BY <1>4, <1>9 DEF Verdict, p, q
  <1>10. CASE ~ (c.by = "address" /\ c.dest \in p.exclude)
    <2>1. Verdict(p, c) = IF p.rules[k].to \in {"block-ipv6", "reject"} THEN "refused"
                          ELSE p.rules[k].to
      BY <1>2, <1>3, <1>10, FirstDecides
    <2>2. Verdict(q, c) = IF q.rules[k].to \in {"block-ipv6", "reject"} THEN "refused"
                          ELSE q.rules[k].to
      BY <1>4, <1>8, <1>10, FirstDecides
    <2> QED BY <1>4, <2>1, <2>2 DEF p, q
  <1> QED BY <1>9, <1>10

\* The CA is offered exactly when it signed the certificate in force.
LEMMA NoneMistrusting == Mistrusting = {}
  <1> SUFFICES ASSUME NEW o \in Offered
               PROVE  ProfileOf(o).ca = (InForce(o[1].certs) = "private")
    BY DEF Mistrusting
  <1>1. o[1].certs \in Directories /\ ProfileOf(o).ca = VerifiedCa(o[1].certs)
    BY ThreeForms, Unmodernised DEF ProfileOf, Settings
  <1>2. VerifiedCa(o[1].certs) <=> InForce(o[1].certs) = "private"
    BY <1>1 DEF VerifiedCa, InForce, Directories, Pair
  <1> QED BY <1>1, <1>2 DEF VerifiedCa

\* The outbounds of a profile, by tag: Modern moves WireGuard and drops the block.
LEMMA Outlets ==
  ASSUME NEW o \in Offered
  PROVE  LET p == ProfileOf(o)  all == p.outbounds \cup p.endpoints IN
         /\ Stealth \cup WireGuard(o[1]) \cup {"proxy", "auto-fastest", "direct"} \subseteq Tags(p)
         /\ o[3] # "1.14" => "block-ipv6" \in Tags(p)
         /\ Plain("direct", "direct") \in all
         /\ Group("auto-fastest", Stealth) \in all
         /\ Group("proxy", {"auto-fastest"} \cup Stealth \cup WireGuard(o[1])) \in all
         /\ \A t \in Stealth : Server(t, o[1]) \in all
         /\ \A x \in all : x.of \subseteq {"auto-fastest"} \cup Stealth \cup WireGuard(o[1])
  <1> DEFINE s == o[1]
             p == ProfileOf(o)
             all == p.outbounds \cup p.endpoints
  <1>1. all \subseteq Outbounds(s) /\ \A x \in Outbounds(s) :
          x.type # "block" \/ o[3] # "1.14" => x \in all
    <2>1. CASE o[3] = "1.14"
      <3>1. p.outbounds = {x \in Outbounds(s) : x.type # "block" /\ ~ IsWireGuard(x)}
        BY <2>1 DEF ProfileOf, Profile, Modern, Legacy
      <3>2. p.endpoints = {x \in Outbounds(s) : IsWireGuard(x)}
        BY <2>1 DEF ProfileOf, Profile, Modern, Legacy
      <3> HIDE DEF p
      <3> QED BY <2>1, <3>1, <3>2
    <2>2. CASE o[3] # "1.14"
      <3>1. p.outbounds = Outbounds(s) /\ p.endpoints = {}
        BY <2>2 DEF ProfileOf, Profile, Legacy
      <3> QED BY <3>1
    <2> QED BY <2>1, <2>2
  <1>2. /\ Plain("direct", "direct") \in Outbounds(s)
        /\ Plain("block-ipv6", "block") \in Outbounds(s)
        /\ Group("auto-fastest", Stealth) \in Outbounds(s)
        /\ Group("proxy", {"auto-fastest"} \cup Stealth \cup WireGuard(s)) \in Outbounds(s)
        /\ \A t \in Stealth \cup WireGuard(s) : Server(t, s) \in Outbounds(s)
    BY DEF Outbounds
  <1>3. \A x \in Outbounds(s) : x.of \subseteq {"auto-fastest"} \cup Stealth \cup WireGuard(s)
    BY DEF Outbounds, Server, Group, Plain
  <1> HIDE DEF p
  <1>4. /\ Plain("direct", "direct") \in all /\ Group("auto-fastest", Stealth) \in all
        /\ Group("proxy", {"auto-fastest"} \cup Stealth \cup WireGuard(s)) \in all
        /\ \A t \in Stealth \cup WireGuard(s) : Server(t, s) \in all
        /\ o[3] # "1.14" => Plain("block-ipv6", "block") \in all
    BY <1>1, <1>2 DEF Plain, Group, Server
  <1>5. \A x \in all : x.tag \in Tags(p)
    BY DEF Tags
  <1>6. /\ Stealth \cup WireGuard(s) \cup {"proxy", "auto-fastest", "direct"} \subseteq Tags(p)
        /\ o[3] # "1.14" => "block-ipv6" \in Tags(p)
    BY <1>4, <1>5 DEF Plain, Group, Server
  <1> QED BY <1>1, <1>3, <1>4, <1>6 DEF p

\* Every tag a rule, a group or the resolver names is there, in either form.
LEMMA NoneDangling == Dangling = {}
  <1> SUFFICES ASSUME NEW o \in Offered
               PROVE  LET p == ProfileOf(o) IN
                      /\ \A i \in DOMAIN p.rules :
                           p.rules[i].to \in Tags(p) \cup {"sniff", "hijack-dns", "reject"}
                      /\ \A x \in p.outbounds : x.of \subseteq Tags(p)
                      /\ p.dns.detour \in Tags(p)
    BY DEF Dangling
  <1> DEFINE p == ProfileOf(o)
             r == Rules(o[1], o[2])
  <1>1. p.dns.detour \in {"direct", "proxy"}
    BY Unmodernised DEF ProfileOf, DnsServer
  <1>2. \A i \in DOMAIN r :
          r[i].to \in {"block-ipv6", "sniff", "direct", "hijack-dns", "proxy"}
    <2>1. CASE o[2] = "full"
      BY <2>1, ThreeForms, RulesFull DEF To
    <2>2. CASE o[2] = "traffic-only"
      <3>1. o[1] \in Settings
        BY ThreeForms
      <3>2. CASE o[1].named
        BY <2>2, <3>1, <3>2, RulesTrafficOnly, SMTT(30) DEF To
      <3>3. CASE ~ o[1].named
        BY <2>2, <3>1, <3>3, RulesTrafficOnly, SMTT(30) DEF To
      <3> QED BY <3>2, <3>3
    <2> QED BY <2>1, <2>2, ThreeForms
  <1>3. DOMAIN p.rules = DOMAIN r /\ \A i \in DOMAIN r :
          p.rules[i].to = IF o[3] = "1.14" /\ r[i].to = "block-ipv6" THEN "reject" ELSE r[i].to
    BY Unmodernised DEF ProfileOf
  <1>4. /\ Stealth \cup WireGuard(o[1]) \cup {"proxy", "auto-fastest", "direct"} \subseteq Tags(p)
        /\ o[3] # "1.14" => "block-ipv6" \in Tags(p)
        /\ \A x \in p.outbounds : x.of \subseteq {"auto-fastest"} \cup Stealth \cup WireGuard(o[1])
    BY Outlets
  <1> HIDE DEF p, r
  <1>5. \A i \in DOMAIN p.rules : p.rules[i].to \in Tags(p) \cup {"sniff", "hijack-dns", "reject"}
    BY <1>2, <1>3, <1>4
  <1>6. \A x \in p.outbounds : x.of \subseteq Tags(p)
    BY <1>4
  <1> QED BY <1>1, <1>4, <1>5, <1>6 DEF p

\* A client that starts from nothing gets to the selector: its direct outbound, the
\* resolver if it needs one, a server, a group.
LEMMA NoneStuck == Stuck = {}
  <1> SUFFICES ASSUME NEW o \in Offered, ~ (o[1].named /\ o[2] = "full")
               PROVE  "proxy" \in Usable(ProfileOf(o))
    BY DEF Stuck
  <1> DEFINE p == ProfileOf(o)
             all == p.outbounds \cup p.endpoints
             Ready(x, U) == \/ x.type \in {"direct", "block"}
                            \/ x.type = "group" /\ x.of \cap U # {}
                            \/ x.type = "server" /\ (x.named => p.dns.tag \in U)
             Grow(U) == {x.tag : x \in {y \in all : Ready(y, U)}}
                          \cup (IF p.dns.detour \in U THEN {p.dns.tag} ELSE {})
             tags == Tags(p) \cup {p.dns.tag}
  <1>1. "proxy" \in tags
    BY Outlets
  <1>2. ASSUME NEW U, Grow(U) \subseteq U PROVE "proxy" \in U
    <2>1. \A x \in all : Ready(x, U) => x.tag \in U
      BY <1>2
    <2>2. "direct" \in U
      BY <2>1, Outlets DEF Plain
    <2>3. o[1].named => p.dns.tag \in U
      <3>1. o[1].named => p.dns.detour = "direct"
        BY ThreeForms, Unmodernised DEF ProfileOf, DnsServer
      <3> QED BY <1>2, <2>2, <3>1
    <2>4. "Reality-TCP" \in U
      <3>1. Server("Reality-TCP", o[1]) \in all
        BY Outlets DEF Stealth
      <3> QED BY <2>1, <2>3, <3>1 DEF Server
    <2>5. Group("proxy", {"auto-fastest"} \cup Stealth \cup WireGuard(o[1])) \in all
      BY Outlets
    <2> QED BY <2>1, <2>4, <2>5 DEF Group, Stealth
  <1> QED BY <1>1, <1>2 DEF Usable

\* For every configuration and every form on offer, the profile names only what it
\* contains, can bring the tunnel up, and trusts the CA exactly when that CA signed the
\* certificate in force (get_singbox_json_config, verified_private_ca).
THEOREM ProfilesAlwaysConnect == Spec => []ProfilesConnect
  <1>1. ProfilesConnect
    BY NoneDangling, NoneStuck, NoneMistrusting DEF ProfilesConnect
  <1> QED BY <1>1, PTL

\* For every configuration, IPv6 is refused, DNS goes where the mode says, and the two
\* forms of a traffic-only profile agree, from any process and on any port.
THEOREM TrafficAlwaysAsPromised == Spec => []TrafficAsPromised
  <1>1. TrafficAsPromised
    BY NoIPv6, NoDnsAstray, FormsAgree DEF TrafficAsPromised
  <1> QED BY <1>1, PTL
=============================================================================
